--------------------------- MODULE TaskResources ---------------------------
(***************************************************************************)
(* The resources tasks declare to read and write: task/task_dependency.hpp *)
(* and acquire_all, release_all and wake_resource_waiters of               *)
(* task/detail/task_graph_runtime_impl.hpp.                                *)
(*                                                                         *)
(* An activation takes all resources of its task at once or none: on a     *)
(* conflict the task goes to the head of the wait chain of one resource it *)
(* could not have.  The end of a body gives the resources back one by one, *)
(* and after each tries the tasks of that resource's chain.  A step holds  *)
(* the stripe locks the code holds; what happens between two critical      *)
(* sections is two steps.  The epochs of the tickets are TaskNode's: here  *)
(* a node is deactivated in one step, and an activation that was routed is *)
(* counted with that.                                                      *)
(*                                                                         *)
(* The queues hold the tickets of other tasks, too, and may be full: then  *)
(* activate gives back what it has taken and leaves the task dormant, and  *)
(* so does, in the other order, whoever wakes a task.                      *)
(***************************************************************************)
EXTENDS Integers, Sequences, FiniteSets, SequencesExt

CONSTANTS
  Clients,     (* threads that activate tasks                              *)
  Workers,     (* threads that run them                                    *)
  Resources,
  None,        (* no task, no resource                                     *)
  Plans        (* the programs, of which each behaviour is one             *)

(* What each task declares, a sequence of [res, mode]; the clients that    *)
(* call, and what they call; the workers that run; how often activate is   *)
(* called (a bound); may the queues be full.  A task declares a resource once: add_access_impl  *)
(* looks for it, and makes a write of a read.                              *)
ASSUME ResourceAssumption ==
  /\ Clients \cap Workers = {} /\ None \notin Resources
  /\ \A p \in Plans :
       /\ None \notin DOMAIN p.access /\ IsFiniteSet(DOMAIN p.access)
       /\ \A t \in DOMAIN p.access :
            /\ p.access[t] \in Seq([res : Resources, mode : {"read", "write"}])
            /\ \A i, j \in DOMAIN p.access[t] : p.access[t][i].res = p.access[t][j].res => i = j
       /\ p.clients \subseteq Clients /\ p.workers \subseteq Workers
       /\ p.activations \in Nat /\ p.full \in BOOLEAN
       /\ p.calls \subseteq {"activate", "deactivate", "cancel"}

VARIABLES
  plan,        (* which of Plans this behaviour is                         *)
  state,       (* state_ of each task                                      *)
  epoch,       (* dispatch_epoch_ of each task                             *)
  cancelled,   (* tasks that have flag_cancelled                           *)
  held,        (* tasks that have flag_resources_held                      *)
  readers,     (* resource_state::state_: how many read it, ...            *)
  writer,      (* ... and who writes it                                    *)
  waiters,     (* waiting_writers_ of each resource                        *)
  chain,       (* the wait chain of each resource, from wait_head_ on      *)
  waitOn,      (* wait_task_: the chain each task is in                    *)
  waitWrite,   (* wait_write_: tasks that wait to write                    *)
  tickets,     (* <<task, epoch>> in the queues of the workers             *)
  pc,          (* where each thread is                                     *)
  job,         (* the task each thread works for, and ...                  *)
  hand,        (* ... its epoch                                            *)
  woken,       (* the task each thread is about to wake                    *)
  frames,      (* release_all calls each thread is in, the innermost last: *)
               (* the accesses still to be given back                      *)
  activations, (* metrics_.activations_                                    *)
  completions, (* metrics_.completions_                                    *)
  lost,        (* history: the counted activations that a refused wake     *)
               (* ended                                                    *)
  tries        (* calls of activate so far                                 *)

vars == <<plan, state, epoch, cancelled, held, readers, writer, waiters, chain, waitOn,
          waitWrite, tickets, pc, job, hand, woken, frames, activations,
          completions, lost, tries>>
locks == <<readers, writer>>
queue == <<waiters, chain, waitOn, waitWrite>>
hands == <<job, hand, woken>>
count == <<activations, completions, lost, tries>>

Threads == Clients \cup Workers
Access == plan.access
Tasks == DOMAIN Access

Init ==
  /\ plan \in Plans
  /\ state = [t \in Tasks |-> "dormant"] /\ epoch = [t \in Tasks |-> 0]
  /\ cancelled = {} /\ held = {}
  /\ readers = [r \in Resources |-> 0] /\ writer = [r \in Resources |-> None]
  /\ waiters = [r \in Resources |-> 0] /\ chain = [r \in Resources |-> <<>>]
  /\ waitOn = [t \in Tasks |-> None] /\ waitWrite = {}
  /\ tickets = {}
  /\ pc = [p \in Threads |-> "idle"] /\ job = [p \in Threads |-> None]
  /\ hand = [p \in Threads |-> 0] /\ woken = [p \in Threads |-> None]
  /\ frames = [p \in Threads |-> <<>>]
  /\ activations = 0 /\ completions = 0 /\ lost = 0 /\ tries = 0

Goto(p, from, to) == pc[p] = from /\ pc' = [pc EXCEPT ![p] = to]
Set(t, s) == state' = [state EXCEPT ![t] = s]

-----------------------------------------------------------------------------
(* resource_table                                                          *)

(* variant: a writer does not look at the readers *)
CanAcquireBlind(a) ==
  /\ writer[a.res] = None
  /\ a.mode = "read" => waiters[a.res] = 0

CanAcquire(a) ==
  /\ writer[a.res] = None
  /\ IF a.mode = "write" THEN readers[a.res] = 0 ELSE waiters[a.res] = 0

Conflicts(t) == {i \in DOMAIN Access[t] : ~ CanAcquire(Access[t][i])}
FirstConflict(t) == Access[t][CHOOSE i \in Conflicts(t) : \A j \in Conflicts(t) : i <= j]

Uses(t, r, mode) == \E i \in DOMAIN Access[t] : Access[t][i] = [res |-> r, mode |-> mode]

TakeResources(t) ==
  /\ Conflicts(t) = {}
  /\ readers' = [r \in Resources |-> readers[r] + (IF Uses(t, r, "read") THEN 1 ELSE 0)]
  /\ writer' = [r \in Resources |-> IF Uses(t, r, "write") THEN t ELSE writer[r]]
  /\ held' = IF Access[t] = <<>> THEN held ELSE held \cup {t}

GiveBack(a, t) ==
  /\ readers' = IF a.mode = "read" THEN [readers EXCEPT ![a.res] = @ - 1] ELSE readers
  /\ writer' = IF a.mode = "write" /\ writer[a.res] = t
               THEN [writer EXCEPT ![a.res] = None] ELSE writer

(* A conflict: to the head of that resource's chain. *)
Enqueue(t) ==
  LET a == FirstConflict(t)
  IN  /\ waitOn' = [waitOn EXCEPT ![t] = a.res]
      /\ chain' = [chain EXCEPT ![a.res] = <<t>> \o @]
      /\ IF a.mode = "write"
         THEN /\ waiters' = [waiters EXCEPT ![a.res] = @ + 1]
              /\ waitWrite' = waitWrite \cup {t}
         ELSE /\ waitWrite' = waitWrite \ {t}
              /\ UNCHANGED waiters

(* The chain without the task. *)
Unlinked(s, t) == RemoveAt(s, CHOOSE i \in DOMAIN s : s[i] = t)

(* variant: waiting_writers_ is not taken back *)
DequeueCounted(t) ==
  LET r == waitOn[t]
  IN  /\ chain' = [chain EXCEPT ![r] = Unlinked(@, t)]
      /\ UNCHANGED waiters
      /\ waitOn' = [waitOn EXCEPT ![t] = None]
      /\ waitWrite' = waitWrite \ {t}

Dequeue(t) ==
  LET r == waitOn[t]
  IN  /\ chain' = [chain EXCEPT ![r] = Unlinked(@, t)]
      /\ waiters' = IF t \in waitWrite THEN [waiters EXCEPT ![r] = @ - 1] ELSE waiters
      /\ waitOn' = [waitOn EXCEPT ![t] = None]
      /\ waitWrite' = waitWrite \ {t}

(* release_all begins; it does nothing for a task that holds nothing. *)
ReleaseAll(p, t) ==
  /\ held' = held \ {t}
  /\ frames' = [frames EXCEPT ![p] = Append(@,
       [task |-> t, accesses |-> IF t \in held THEN Access[t] ELSE <<>>])]

-----------------------------------------------------------------------------
(* activate, with acquire_all                                              *)

Activate(c) ==
  /\ "activate" \in plan.calls /\ tries < plan.activations
  /\ Goto(c, "idle", "acquire")
  /\ \E t \in Tasks \ cancelled :
       /\ state[t] \in {"dormant", "completed"}
       /\ Set(t, "ready")
       /\ epoch' = [epoch EXCEPT ![t] = @ + 1]
       /\ job' = [job EXCEPT ![c] = t]
       /\ hand' = [hand EXCEPT ![c] = epoch[t] + 1]
  /\ tries' = tries + 1
  /\ UNCHANGED <<plan, cancelled, held, locks, queue, tickets, frames, activations,
                 completions, lost, woken>>

CountActivation ==
  activations' = activations + 1 /\ UNCHANGED <<completions, lost, tries>>

(* A task that is still in a chain leaves it first. *)
AcquireUnqueue(c) ==
  /\ pc[c] = "acquire" /\ UNCHANGED pc
  /\ waitOn[job[c]] # None
  /\ Dequeue(job[c])
  /\ UNCHANGED <<plan, state, epoch, cancelled, held, locks, tickets, hands,
                 frames, count>>

AcquireFree(c) ==
  /\ Goto(c, "acquire", "route")
  /\ waitOn[job[c]] = None
  /\ TakeResources(job[c])
  /\ UNCHANGED <<plan, state, epoch, cancelled, queue, tickets, hands, frames,
                 count>>

AcquireConflict(c) ==
  /\ Goto(c, "acquire", "idle")
  /\ waitOn[job[c]] = None /\ Conflicts(job[c]) # {}
  /\ state' = [state EXCEPT ![job[c]] = IF @ = "ready" THEN "waiting" ELSE @]
  /\ Enqueue(job[c])
  /\ CountActivation
  /\ UNCHANGED <<plan, epoch, cancelled, held, locks, tickets, hands, frames>>

(* A task deactivated between the look at its state and the swap is routed *)
(* as if it had its resources: its ticket is stale.                        *)
AcquireLost(c) ==
  /\ Goto(c, "acquire", "route")
  /\ waitOn[job[c]] = None /\ Conflicts(job[c]) # {}
  /\ state[job[c]] # "ready"
  /\ UNCHANGED <<plan, state, epoch, cancelled, held, locks, queue, tickets,
                 hands, frames, count>>

Route(c) ==
  /\ Goto(c, "route", "idle")
  /\ tickets' = tickets \cup {<<job[c], hand[c]>>}
  /\ CountActivation
  /\ UNCHANGED <<plan, state, epoch, cancelled, held, locks, queue, hands, frames>>

(* The queues are full: the resources are given back, ... *)
RouteFull(c) ==
  /\ plan.full
  /\ Goto(c, "route", "release")
  /\ ReleaseAll(c, job[c])
  /\ UNCHANGED <<plan, state, epoch, cancelled, locks, queue, tickets, hands,
                 count>>

(* ... and then the task is dormant again. *)
Drop(c) ==
  /\ Goto(c, "drop", "idle")
  /\ Set(job[c], "dormant")
  /\ UNCHANGED <<plan, epoch, cancelled, held, locks, queue, tickets, hands, frames,
                 count>>

(* deactivate does not give the resources back. *)
Deactivate(c) ==
  /\ "deactivate" \in plan.calls
  /\ pc[c] = "idle" /\ UNCHANGED pc
  /\ \E t \in Tasks :
       /\ state[t] = "ready"
       /\ Set(t, "dormant")
       /\ epoch' = [epoch EXCEPT ![t] = @ + 1]
  /\ UNCHANGED <<plan, cancelled, held, locks, queue, tickets, hands, frames,
                 count>>

Cancel(c) ==
  /\ "cancel" \in plan.calls
  /\ pc[c] = "idle" /\ UNCHANGED pc
  /\ \E t \in Tasks : cancelled' \in {cancelled \cup {t}, cancelled \ {t}}
  /\ UNCHANGED <<plan, state, epoch, held, locks, queue, tickets, hands, frames,
                 count>>

Client(c) ==
  \/ Activate(c) \/ AcquireUnqueue(c) \/ AcquireFree(c) \/ AcquireConflict(c)
  \/ AcquireLost(c) \/ Route(c) \/ RouteFull(c) \/ Drop(c) \/ Deactivate(c) \/ Cancel(c)

-----------------------------------------------------------------------------
(* A worker: execute, finish                                               *)

Run(w) ==
  /\ Goto(w, "idle", "body")
  /\ \E e \in tickets :
       /\ e[2] = epoch[e[1]] /\ state[e[1]] = "ready"
       /\ Set(e[1], "running")
       /\ tickets' = tickets \ {e}
       /\ job' = [job EXCEPT ![w] = e[1]]
  /\ UNCHANGED <<plan, epoch, cancelled, held, locks, queue, hand, frames, count,
                 woken>>

DropTicket(w) ==
  /\ pc[w] = "idle" /\ UNCHANGED pc
  /\ \E e \in tickets : /\ e[2] # epoch[e[1]] \/ state[e[1]] # "ready"
                        /\ tickets' = tickets \ {e}
  /\ UNCHANGED <<plan, state, epoch, cancelled, held, locks, queue, hands, frames,
                 count>>

Finish(w) ==
  /\ Goto(w, "body", "release")
  /\ ReleaseAll(w, job[w])
  /\ UNCHANGED <<plan, state, epoch, cancelled, locks, queue, tickets, hands,
                 count>>

Complete(w) ==
  /\ Goto(w, "complete", "idle")
  /\ Set(job[w], "completed")
  /\ completions' = completions + 1
  /\ UNCHANGED <<plan, epoch, cancelled, held, locks, queue, tickets, hands,
                 frames, activations, lost, tries>>

Worker(w) == Run(w) \/ DropTicket(w) \/ Finish(w) \/ Complete(w)

-----------------------------------------------------------------------------
(* release_all, of a thread that ends a body or could not route a task     *)

Frame(p) == Last(frames[p])
Current(p) == Head(Frame(p).accesses)

NextAccess(p) ==
  frames' = [frames EXCEPT ![p][Len(frames[p])].accesses = Tail(@)]

(* variant: those who wait for a resource given back are not woken *)
ReleaseQuiet(p) ==
  /\ Goto(p, "release", "release")
  /\ Frame(p).accesses # <<>>
  /\ GiveBack(Current(p), Frame(p).task)
  /\ NextAccess(p)
  /\ UNCHANGED <<plan, state, epoch, cancelled, held, queue, tickets, hands,
                 count>>

Release(p) ==
  /\ Goto(p, "release", "wake")
  /\ Frame(p).accesses # <<>>
  /\ GiveBack(Current(p), Frame(p).task)
  /\ UNCHANGED <<plan, state, epoch, cancelled, held, queue, tickets, hands,
                 frames, count>>

(* The innermost release_all returns: to the wake_resource_waiters that    *)
(* called it, to activate or to finish.                                    *)
Released(p) ==
  /\ Goto(p, "release", IF Len(frames[p]) > 1 THEN "wake"
                        ELSE IF p \in Clients THEN "drop" ELSE "complete")
  /\ Frame(p).accesses = <<>>
  /\ frames' = [frames EXCEPT ![p] = Front(@)]
  /\ UNCHANGED <<plan, state, epoch, cancelled, held, locks, queue, tickets,
                 hands, count>>

-----------------------------------------------------------------------------
(* wake_resource_waiters: the tasks of the chain, until one cannot go on   *)

WakeNobody(p) ==
  /\ Goto(p, "wake", "release")
  /\ chain[Current(p).res] = <<>>
  /\ NextAccess(p)
  /\ UNCHANGED <<plan, state, epoch, cancelled, held, locks, queue, tickets,
                 hands, count>>

(* job keeps the task whose body has ended.                                *)
WakeHead(p) ==
  /\ Goto(p, "wake", "try")
  /\ chain[Current(p).res] # <<>>
  /\ Dequeue(Head(chain[Current(p).res]))
  /\ woken' = [woken EXCEPT ![p] = Head(chain[Current(p).res])]
  /\ UNCHANGED <<plan, state, epoch, cancelled, held, locks, tickets, job, hand,
                 frames, count>>

WakeCancelled(p) ==
  /\ Goto(p, "try", "wake")
  /\ woken[p] \in cancelled
  /\ Set(woken[p], "dormant")
  /\ UNCHANGED <<plan, epoch, cancelled, held, locks, queue, tickets, hands,
                 frames, count>>

(* It may have been activated again, and be in a chain again. *)
WakeUnqueue(p) ==
  /\ pc[p] = "try" /\ UNCHANGED pc
  /\ woken[p] \notin cancelled /\ waitOn[woken[p]] # None
  /\ Dequeue(woken[p])
  /\ UNCHANGED <<plan, state, epoch, cancelled, held, locks, tickets, hands,
                 frames, count>>

WakeAcquire(p) ==
  /\ Goto(p, "try", "swap")
  /\ waitOn[woken[p]] = None
  /\ woken[p] \notin cancelled
  /\ TakeResources(woken[p])
  /\ UNCHANGED <<plan, state, epoch, cancelled, queue, tickets, hands, frames,
                 count>>

(* Back into a chain: the rest of this chain is tried only when it is      *)
(* another one's.                                                          *)
WakeConflict(p) ==
  /\ pc[p] = "try"
  /\ woken[p] \notin cancelled /\ waitOn[woken[p]] = None /\ Conflicts(woken[p]) # {}
  /\ state' = [state EXCEPT ![woken[p]] = IF @ = "ready" THEN "waiting" ELSE @]
  /\ Enqueue(woken[p])
  /\ IF FirstConflict(woken[p]).res = Current(p).res
     THEN Goto(p, "try", "release") /\ NextAccess(p)
     ELSE Goto(p, "try", "wake") /\ UNCHANGED frames
  /\ UNCHANGED <<plan, epoch, cancelled, held, locks, tickets, hands, count>>

(* variant: a woken task is counted as activated once more *)
WakeSwapCounted(p) ==
  /\ Goto(p, "swap", "wake")
  /\ state[woken[p]] = "waiting"
  /\ Set(woken[p], "ready")
  /\ epoch' = [epoch EXCEPT ![woken[p]] = @ + 1]
  /\ tickets' = tickets \cup {<<woken[p], epoch[woken[p]] + 1>>}
  /\ activations' = activations + 1
  /\ UNCHANGED <<plan, cancelled, held, locks, queue, hands, frames, completions,
                 lost, tries>>

WakeSwap(p) ==
  /\ Goto(p, "swap", "wake")
  /\ state[woken[p]] = "waiting"
  /\ Set(woken[p], "ready")
  /\ epoch' = [epoch EXCEPT ![woken[p]] = @ + 1]
  /\ tickets' = tickets \cup {<<woken[p], epoch[woken[p]] + 1>>}
  /\ UNCHANGED <<plan, cancelled, held, locks, queue, hands, frames, count>>

(* The queues are full: the task is dormant, ... *)
WakeFull(p) ==
  /\ plan.full
  /\ Goto(p, "swap", "give")
  /\ state[woken[p]] = "waiting"
  /\ Set(woken[p], "dormant")
  /\ epoch' = [epoch EXCEPT ![woken[p]] = @ + 1]
  /\ lost' = lost + 1
  /\ UNCHANGED <<plan, cancelled, held, locks, queue, tickets, hands, frames,
                 activations, completions, tries>>

(* ... and then its resources are given back. *)
WakeGive(p) ==
  /\ Goto(p, "give", "release")
  /\ ReleaseAll(p, woken[p])
  /\ UNCHANGED <<plan, state, epoch, cancelled, locks, queue, tickets, hands,
                 count>>

(* A task that does not wait any more gives its resources back. *)
WakeLate(p) ==
  /\ Goto(p, "swap", "release")
  /\ state[woken[p]] # "waiting"
  /\ ReleaseAll(p, woken[p])
  /\ UNCHANGED <<plan, state, epoch, cancelled, locks, queue, tickets, hands,
                 count>>

Releasing(p) ==
  \/ Release(p) \/ Released(p)
  \/ WakeNobody(p) \/ WakeHead(p) \/ WakeCancelled(p) \/ WakeUnqueue(p)
  \/ WakeAcquire(p) \/ WakeConflict(p) \/ WakeSwap(p) \/ WakeFull(p) \/ WakeGive(p)
  \/ WakeLate(p)

-----------------------------------------------------------------------------
Next ==
  \/ \E c \in plan.clients : Client(c)
  \/ \E w \in plan.workers : Worker(w)
  \/ \E p \in plan.clients \cup plan.workers : Releasing(p)

Spec == Init /\ [][Next]_vars

Returning(c) ==
  \/ AcquireUnqueue(c) \/ AcquireFree(c) \/ AcquireLost(c) \/ AcquireConflict(c)
  \/ Route(c) \/ RouteFull(c) \/ Drop(c) \/ Releasing(c)
Working(w) == Worker(w) \/ Releasing(w)

(* Calls return, and workers take tickets and bodies end. *)
FairSpec ==
  /\ Spec
  /\ \A c \in Clients : WF_vars(Returning(c))
  /\ \A w \in Workers : WF_vars(Working(w))

-----------------------------------------------------------------------------
(* Properties *)

TypeOK ==
  /\ plan \in Plans
  /\ state \in [Tasks -> {"dormant", "ready", "running", "waiting", "completed"}]
  /\ cancelled \subseteq Tasks /\ held \subseteq Tasks
  /\ readers \in [Resources -> Nat]
  /\ writer \in [Resources -> Tasks \cup {None}]
  /\ waiters \in [Resources -> 0..Cardinality(Tasks)]
  /\ \A r \in Resources : chain[r] \in Seq(Tasks)
  /\ waitOn \in [Tasks -> Resources \cup {None}] /\ waitWrite \subseteq Tasks

(* Bodies that run at the same time do not write what another uses. *)
Bodies == {job[w] : w \in {v \in Workers : pc[v] = "body"}}
AccessExclusive ==
  \A t, u \in Bodies : t # u =>
    \A r \in Resources :
      Uses(t, r, "write") => ~ Uses(u, r, "read") /\ ~ Uses(u, r, "write")

(* A chain holds a task once, the one that knows it is there, and the      *)
(* writers in it are counted.                                              *)
ChainIsExact ==
  \A r \in Resources :
    /\ IsInjective(chain[r])
    /\ ToSet(chain[r]) = {t \in Tasks : waitOn[t] = r}
    /\ waiters[r] = Cardinality(ToSet(chain[r]) \cap waitWrite)

(* A resource in use is in use by tasks that hold their resources, and is  *)
(* given back by a thread that is in release_all.                          *)
StillHeld(r, mode) ==
  {t \in Tasks : \/ t \in held /\ Uses(t, r, mode)
                 \/ \E p \in Threads : \E i \in DOMAIN frames[p] :
                      /\ frames[p][i].task = t
                      /\ [res |-> r, mode |-> mode] \in
                           ToSet(IF pc[p] = "release" \/ frames[p][i].accesses = <<>>
                                 THEN frames[p][i].accesses
                                 ELSE Tail(frames[p][i].accesses))}
LocksAreHeld ==
  \A r \in Resources : writer[r] # None => writer[r] \in StillHeld(r, "write")

(* Only a task that is under way holds resources, or one that a thread is  *)
(* about to take them from; deactivate leaves it with what it has.         *)
HeldByActive ==
  "deactivate" \notin plan.calls =>
    \A t \in held : \/ state[t] \in {"ready", "running", "waiting"}
                    \/ \E c \in Clients : pc[c] \in {"acquire", "route"} /\ job[c] = t
                    \/ \E p \in Threads : pc[p] \in {"swap", "give"} /\ woken[p] = t

(* What a resource records of its users and its waiters is what they are.  *)
LocksAgree == TypeOK /\ ChainIsExact /\ LocksAreHeld /\ HeldByActive

(* When nothing is under way, every activation has been completed or ended *)
(* by a wake that the queues refused, unless the clients take activations  *)
(* back: then a task may be counted for ever.                              *)
AtRest == /\ \A p \in Threads : pc[p] = "idle"
          /\ tickets = {}
          /\ \A t \in Tasks : state[t] \in {"dormant", "completed"}
DrainSeesRest == plan.calls = {"activate"} /\ AtRest => activations <= completions + lost

(* A task that waits for a resource gets it, where there are only writers. *)
WritersOnly == \A t \in Tasks : \A i \in DOMAIN Access[t] : Access[t][i].mode = "write"
TaskNames == UNION {DOMAIN p.access : p \in Plans}
Waits(t) == t \in Tasks /\ state[t] = "waiting"
ActivatedWaits(t) == Waits(t) /\ plan.calls = {"activate"}
WriterWaits(t) == ActivatedWaits(t) /\ WritersOnly
WriterRuns == \A t \in TaskNames : WriterWaits(t) ~> ~ Waits(t)

(* Whatever the tasks declare: what the comment in activate says, "由释放方唤醒"  *)
(* (it is woken by whoever releases).                                      *)
WaiterRuns == \A t \in TaskNames : ActivatedWaits(t) ~> ~ Waits(t)
=============================================================================
