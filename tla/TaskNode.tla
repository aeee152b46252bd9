------------------------------ MODULE TaskNode ------------------------------
(***************************************************************************)
(* One node of the task graph in a parallel role: task_node.hpp, and the   *)
(* activation, execution, suspension and completion of                     *)
(* task/detail/task_graph_runtime_impl.hpp, task_graph_define_impl.hpp and *)
(* task_graph.hpp, at the granularity of one access to an atomic.          *)
(*                                                                         *)
(* An activation advances the epoch of the node and routes a ticket with   *)
(* that epoch to the queues of the workers; a worker that takes a ticket   *)
(* runs the body when the ticket is current and the node is ready.  Every  *)
(* one of those is a step of its own and clients call whatever they like   *)
(* meanwhile.  Dependencies, joins and resources have modules of their     *)
(* own.                                                                    *)
(***************************************************************************)
EXTENDS Integers, FiniteSets

CONSTANTS
  Clients,      (* threads that call the graph's interface                 *)
  Workers,      (* threads that take tickets                               *)
  Programs,     (* assignments of calls to clients, of which one is made   *)
  Bodies,       (* how a call of the body may end                          *)
  Slots,        (* tickets of this node that the queues have room for      *)
  TicketEpochs, (* how many epochs a ticket can tell apart                 *)
  MaxEpoch,     (* bound: no call advances the epoch beyond it             *)
  MaxRuns       (* bound: pending_runs_ and the awaits of the body         *)

NodeAssumption ==
  /\ Clients \cap Workers = {} /\ IsFiniteSet(Clients) /\ IsFiniteSet(Workers)
  /\ Programs \subseteq
       [Clients -> SUBSET {"activate", "queue", "deactivate", "disable", "enable",
                           "cancel", "wake"}]
  /\ Bodies \subseteq {"return", "fail", "await"}
  /\ Slots \in Nat \ {0} /\ TicketEpochs \in Nat \ {0}
  /\ MaxEpoch \in Nat /\ MaxRuns \in Nat

VARIABLES
  state,       (* state_                                                   *)
  epoch,       (* dispatch_epoch_                                          *)
  flags,       (* flags_, of which: cancelled, faulted, body_failed        *)
  runs,        (* pending_runs_                                            *)
  wakeup,      (* waits_.pending_: a wake found the body still running     *)
  tickets,     (* the epochs of the node's tickets in the workers' queues  *)
  activations, (* metrics_.activations_                                    *)
  completions, (* metrics_.completions_                                    *)
  lost,        (* history: the counted activations that a refused route    *)
               (* ended                                                    *)
  pc,          (* where each thread is                                     *)
  hand,        (* the epoch each thread works with                         *)
  why,         (* what each thread routes for                              *)
  event,       (* the event a suspended body awaits: not armed, armed, or  *)
               (* signalled by the client that has taken it                *)
  awaits,      (* how often the body has awaited an event                  *)
  failures,    (* how many calls of the body called fail()                 *)
  reported,    (* how many calls completion_fn_ has seen                   *)
  program      (* the calls each client makes                              *)

vars == <<state, epoch, flags, runs, wakeup, tickets, activations, completions,
          lost, pc, hand, why, event, awaits, failures, reported, program>>
node == <<state, epoch, flags, runs, wakeup>>
count == <<activations, completions, lost>>
body == <<event, awaits, failures, reported, program>>

Threads == Clients \cup Workers
States == {"dormant", "ready", "running", "waiting", "completed", "disabled",
           "faulted"}
Flags == {"cancelled", "faulted", "body_failed"}

(* A ticket has fewer bits for the epoch than the node. *)
Ticket(e) == e % TicketEpochs

Init ==
  /\ state = "dormant" /\ epoch = 0 /\ flags = {} /\ runs = 0 /\ wakeup = FALSE
  /\ tickets = {} /\ activations = 0 /\ completions = 0 /\ lost = 0
  /\ pc = [t \in Threads |-> "idle"]
  /\ hand = [t \in Threads |-> 0]
  /\ why = [t \in Threads |-> "activate"]
  /\ event = "none" /\ awaits = 0 /\ failures = 0 /\ reported = 0
  /\ program \in Programs

Goto(t, from, to) == pc[t] = from /\ pc' = [pc EXCEPT ![t] = to]
Call(c, op, to) == op \in program[c] /\ Goto(c, "idle", to)
RouteFor(t, reason) == why' = [why EXCEPT ![t] = reason]

(* The compare-exchange of state_. *)
Swap(from, to) == state = from /\ state' = to

-----------------------------------------------------------------------------
(* The tail of activate, wake_waiting_index and rearm: route_to *)

(* variant: the ticket gets the epoch before this one *)
NextEpochOld(t) ==
  /\ Goto(t, "epoch", "route")
  /\ epoch' = epoch + 1
  /\ hand' = [hand EXCEPT ![t] = epoch]
  /\ UNCHANGED <<state, flags, runs, wakeup, tickets, count, why, body>>

NextEpoch(t) ==
  /\ Goto(t, "epoch", "route")
  /\ epoch' = epoch + 1
  /\ hand' = [hand EXCEPT ![t] = epoch + 1]
  /\ UNCHANGED <<state, flags, runs, wakeup, tickets, count, why, body>>

(* Only activate, and the rearm of a queued run, count an activation. *)
Route(t) ==
  /\ Cardinality(tickets) < Slots
  /\ Goto(t, "route", IF why[t] \in {"activate", "again"} THEN "count" ELSE "idle")
  /\ tickets' = tickets \cup {Ticket(hand[t])}
  /\ UNCHANGED <<node, count, hand, why, body>>

(* The queues are full of the tickets of other tasks.  A suspended body,   *)
(* and a queued run, are dropped with it: their activation never ends.     *)
Lose(t) == lost' = IF why[t] = "activate" THEN lost ELSE lost + 1

(* variant: the node stays ready although its ticket was refused *)
RouteFullReady(t) ==
  /\ Goto(t, "route", "idle")
  /\ Lose(t)
  /\ UNCHANGED <<node, tickets, activations, completions, hand, why, body>>

RouteFull(t) ==
  /\ Goto(t, "route", "idle")
  /\ state' = "dormant"
  /\ Lose(t)
  /\ UNCHANGED <<epoch, flags, runs, wakeup, tickets, activations, completions,
                 hand, why, body>>

CountActivation(t) ==
  /\ Goto(t, "count", "idle")
  /\ activations' = activations + 1
  /\ UNCHANGED <<node, tickets, completions, lost, hand, why, body>>

Dispatch(t) == NextEpoch(t) \/ Route(t) \/ RouteFull(t) \/ CountActivation(t)

-----------------------------------------------------------------------------
(* activate: from dormant, completed or cancelled; an activation that      *)
(* overlaps one is dropped, or counted in pending_runs_ when queue_ is set *)

Activate(c) ==
  /\ epoch < MaxEpoch
  /\ \/ Call(c, "activate", "try") /\ RouteFor(c, "activate")
     \/ Call(c, "queue", "try") /\ RouteFor(c, "again")
  /\ "cancelled" \notin flags
  /\ UNCHANGED <<node, tickets, count, hand, body>>

ActivateSwap(c) ==
  /\ Goto(c, "try", "epoch")
  /\ Swap("dormant", "ready") \/ Swap("completed", "ready")
  /\ UNCHANGED <<epoch, flags, runs, wakeup, tickets, count, hand, why, body>>

ActivateOverlap(c) ==
  /\ state \in {"ready", "running", "waiting"}
  /\ Goto(c, "try", IF why[c] = "again" THEN "pend" ELSE "idle")
  /\ UNCHANGED <<node, tickets, count, hand, why, body>>

ActivateRefused(c) ==
  /\ state \in {"disabled", "faulted"}
  /\ Goto(c, "try", "idle")
  /\ UNCHANGED <<node, tickets, count, hand, why, body>>

QueuePending(c) ==
  /\ Goto(c, "pend", "idle")
  /\ runs' = IF runs < MaxRuns THEN runs + 1 ELSE runs
  /\ UNCHANGED <<state, epoch, flags, wakeup, tickets, count, hand, why, body>>

-----------------------------------------------------------------------------
(* The other calls of a client *)

Deactivate(c) ==
  /\ epoch < MaxEpoch
  /\ Call(c, "deactivate", "retire")
  /\ Swap("ready", "dormant")
  /\ UNCHANGED <<epoch, flags, runs, wakeup, tickets, count, hand, why, body>>

DeactivateEpoch(c) ==
  /\ Goto(c, "retire", "idle")
  /\ epoch' = epoch + 1
  /\ UNCHANGED <<state, flags, runs, wakeup, tickets, count, hand, why, body>>

Disable(c) ==
  /\ Call(c, "disable", "idle")
  /\ state' = "disabled"
  /\ UNCHANGED <<epoch, flags, runs, wakeup, tickets, count, hand, why, body>>

Enable(c) ==
  /\ Call(c, "enable", "unfault")
  /\ Swap("disabled", "dormant") \/ Swap("faulted", "dormant")
  /\ UNCHANGED <<epoch, flags, runs, wakeup, tickets, count, hand, why, body>>

EnableFlag(c) ==
  /\ Goto(c, "unfault", "idle")
  /\ flags' = flags \ {"faulted"}
  /\ UNCHANGED <<state, epoch, runs, wakeup, tickets, count, hand, why, body>>

Cancel(c) ==
  /\ Call(c, "cancel", "idle")
  /\ \/ flags' = flags \cup {"cancelled"}
     \/ flags' = flags \ {"cancelled"}
  /\ UNCHANGED <<state, epoch, runs, wakeup, tickets, count, hand, why, body>>

(* The event the body awaits has come: its one and only wake_waiting. *)
Signal(c) ==
  /\ event = "armed"
  /\ Call(c, "wake", "wake")
  /\ event' = "signalled"
  /\ RouteFor(c, "wake")
  /\ UNCHANGED <<node, tickets, count, hand, awaits, failures, reported, program>>

(* variant: the state is stored, not compared *)
WakeBlind(t) ==
  /\ Goto(t, "wake", "epoch")
  /\ state' = "ready"
  /\ UNCHANGED <<epoch, flags, runs, wakeup, tickets, count, hand, why, body>>

Wake(t) ==
  /\ Goto(t, "wake", "epoch")
  /\ Swap("waiting", "ready")
  /\ UNCHANGED <<epoch, flags, runs, wakeup, tickets, count, hand, why, body>>

WakeMissed(t) ==
  /\ state # "waiting"
  /\ Goto(t, "wake", "missed")
  /\ UNCHANGED <<node, tickets, count, hand, why, body>>

(* The body has not suspended yet: leave word in waits_.pending_. *)
WakeLook(t) ==
  /\ Goto(t, "missed", IF state = "running" THEN "note" ELSE "idle")
  /\ UNCHANGED <<node, tickets, count, hand, why, body>>

WakeNote(t) ==
  /\ Goto(t, "note", "idle")
  /\ wakeup' = TRUE
  /\ UNCHANGED <<state, epoch, flags, runs, tickets, count, hand, why, body>>

Client(c) ==
  \/ Activate(c) \/ ActivateSwap(c) \/ ActivateOverlap(c) \/ ActivateRefused(c)
  \/ QueuePending(c) \/ Deactivate(c) \/ DeactivateEpoch(c) \/ Disable(c)
  \/ Enable(c) \/ EnableFlag(c) \/ Cancel(c) \/ Signal(c)

Waking(t) == Wake(t) \/ WakeMissed(t) \/ WakeLook(t) \/ WakeNote(t)

-----------------------------------------------------------------------------
(* A worker: take_ticket, execute, run_body *)

Take(w) ==
  /\ Goto(w, "idle", "check")
  /\ \E e \in tickets : /\ tickets' = tickets \ {e}
                        /\ hand' = [hand EXCEPT ![w] = e]
  /\ UNCHANGED <<node, count, why, body>>

(* A ticket of another epoch, and a ticket of a node that is not ready, is *)
(* dropped.                                                                *)
Check(w) ==
  /\ Goto(w, "check", IF epoch = hand[w] THEN "claim" ELSE "idle")
  /\ UNCHANGED <<node, tickets, count, hand, why, body>>

Claim(w) ==
  /\ Goto(w, "claim", "body")
  /\ Swap("ready", "running")
  /\ UNCHANGED <<epoch, flags, runs, wakeup, tickets, count, hand, why, body>>

ClaimLost(w) ==
  /\ state # "ready"
  /\ Goto(w, "claim", "idle")
  /\ UNCHANGED <<node, tickets, count, hand, why, body>>

(* The body has come back from what it awaited, and now returns, ... *)
BodyReturn(w) ==
  /\ "return" \in Bodies
  /\ Goto(w, "body", "finish")
  /\ event' = "none"
  /\ UNCHANGED <<node, tickets, count, hand, why, awaits, failures, reported,
                 program>>

(* ... reports a failure, ... *)
BodyFail(w) ==
  /\ "fail" \in Bodies
  /\ Goto(w, "body", "finish")
  /\ flags' = flags \cup {"body_failed"}
  /\ failures' = failures + 1
  /\ event' = "none"
  /\ UNCHANGED <<state, epoch, runs, wakeup, tickets, count, hand, why, awaits,
                 reported, program>>

(* ... or awaits another event (prepare_external_wait). *)
BodyAwait(w) ==
  /\ "await" \in Bodies /\ awaits < MaxRuns
  /\ Goto(w, "body", "suspend")
  /\ event' = "armed"
  /\ awaits' = awaits + 1
  /\ UNCHANGED <<node, tickets, count, hand, why, failures, reported,
                 program>>

-----------------------------------------------------------------------------
(* suspend_bookkeeping *)

SuspendCancelled(w) ==
  /\ wakeup
  /\ Goto(w, "suspend", "rearm")
  /\ wakeup' = FALSE
  /\ RouteFor(w, "resume")
  /\ UNCHANGED <<state, epoch, flags, runs, tickets, count, hand, body>>

SuspendCheck(w) ==
  /\ ~ wakeup
  /\ Goto(w, "suspend", "park")
  /\ UNCHANGED <<node, tickets, count, hand, why, body>>

SuspendPark(w) ==
  /\ Goto(w, "park", "parked")
  /\ state' = "waiting"
  /\ UNCHANGED <<epoch, flags, runs, wakeup, tickets, count, hand, why, body>>

(* A wake that fell in between is made up for. *)
SuspendRecheck(w) ==
  /\ Goto(w, "parked", IF wakeup THEN "wake" ELSE "idle")
  /\ wakeup' = FALSE
  /\ RouteFor(w, "wake")
  /\ UNCHANGED <<state, epoch, flags, runs, tickets, count, hand, body>>

Suspend(w) ==
  SuspendCancelled(w) \/ SuspendCheck(w) \/ SuspendPark(w) \/ SuspendRecheck(w)

-----------------------------------------------------------------------------
(* rearm, finish and finish_fault *)

Rearm(w) ==
  /\ Goto(w, "rearm", "epoch")
  /\ Swap("running", "ready")
  /\ UNCHANGED <<epoch, flags, runs, wakeup, tickets, count, hand, why, body>>

RearmFailed(w) ==
  /\ state # "running"
  /\ Goto(w, "rearm", "idle")
  /\ completions' = completions + 1
  /\ UNCHANGED <<node, tickets, activations, lost, hand, why, body>>

(* variant: a fault is no completion *)
FinishFaultUncounted(w) ==
  /\ {"faulted", "body_failed"} \cap flags # {}
  /\ Goto(w, "finish", "idle")
  /\ flags' = flags \cup {"faulted"}
  /\ state' = "faulted"
  /\ reported' = reported + 1
  /\ UNCHANGED <<epoch, runs, wakeup, tickets, count, hand, why, event, awaits,
                 failures, program>>

FinishFault(w) ==
  /\ {"faulted", "body_failed"} \cap flags # {}
  /\ Goto(w, "finish", "idle")
  /\ flags' = flags \cup {"faulted"}
  /\ state' = "faulted"
  /\ completions' = completions + 1
  /\ reported' = reported + 1
  /\ UNCHANGED <<epoch, runs, wakeup, tickets, activations, lost, hand, why, event,
                 awaits, failures, program>>

FinishAgain(w) ==
  /\ {"faulted", "body_failed"} \cap flags = {}
  /\ runs > 0
  /\ Goto(w, "finish", "rearm")
  /\ runs' = runs - 1
  /\ RouteFor(w, "again")
  /\ UNCHANGED <<state, epoch, flags, wakeup, tickets, count, hand, body>>

FinishCheck(w) ==
  /\ {"faulted", "body_failed"} \cap flags = {}
  /\ runs = 0
  /\ Goto(w, "finish", "complete")
  /\ UNCHANGED <<node, tickets, count, hand, why, body>>

FinishComplete(w) ==
  /\ Goto(w, "complete", "idle")
  /\ state' = "completed"
  /\ completions' = completions + 1
  /\ UNCHANGED <<epoch, flags, runs, wakeup, tickets, activations, lost, hand, why, body>>

Finish(w) == Rearm(w) \/ RearmFailed(w) \/ FinishFault(w) \/ FinishAgain(w)
             \/ FinishCheck(w) \/ FinishComplete(w)

Worker(w) ==
  \/ Take(w) \/ Check(w) \/ Claim(w) \/ ClaimLost(w)
  \/ BodyReturn(w) \/ BodyFail(w) \/ BodyAwait(w) \/ Suspend(w) \/ Finish(w)

-----------------------------------------------------------------------------
Moving(t) == Waking(t) \/ Dispatch(t)
Returning(c) ==
  \/ ActivateSwap(c) \/ ActivateOverlap(c) \/ ActivateRefused(c)
  \/ QueuePending(c) \/ DeactivateEpoch(c) \/ EnableFlag(c)

Next == \/ \E c \in Clients : Client(c)
        \/ \E w \in Workers : Worker(w)
        \/ \E t \in Threads : Moving(t)

Spec == Init /\ [][Next]_vars

(* What a thread does once it has begun. *)
Thread(t) ==
  \/ Moving(t)
  \/ t \in Clients /\ Returning(t)
  \/ t \in Workers /\ Worker(t)

(* Clients need not call anything, but the calls they make return; the     *)
(* workers keep taking tickets, and an awaited event comes.                *)
FairSpec ==
  /\ Spec
  /\ \A t \in Threads : WF_vars(Thread(t))
  /\ WF_vars(\E c \in Clients : Signal(c))

-----------------------------------------------------------------------------
(* Properties *)

TypeOK ==
  /\ state \in States /\ epoch \in Nat
  /\ flags \subseteq Flags /\ runs \in 0..MaxRuns /\ wakeup \in BOOLEAN
  /\ tickets \subseteq 0..(TicketEpochs - 1) /\ Cardinality(tickets) <= Slots
  /\ why \in [Threads -> {"activate", "again", "wake", "resume"}]
  /\ event \in {"none", "armed", "signalled"}

Made == UNION {program[c] : c \in Clients}

(* The node may be taken from where it is and activated again.             *)
TakesBack == "deactivate" \in Made \/ {"disable", "enable"} \subseteq Made

(* The body runs on one worker at a time, and that worker's node is not    *)
(* ready to be claimed by another, as long as nobody takes the node back.  *)
(* A worker that has compared the epoch claims whatever activation comes   *)
(* after a deactivate, whose own ticket may then be refused and leave the  *)
(* running node dormant.                                                   *)
InBody(w) == pc[w] \in {"body", "suspend", "park", "finish", "rearm", "complete"}
BodyExclusive ==
  ~ TakesBack => \A v, w \in Workers : InBody(v) /\ InBody(w) => v = w

(* A ready node is never forgotten: a ticket of its epoch is queued, or    *)
(* held by a worker, or on its way; as long as nobody deactivates, which   *)
(* advances the epoch after the node may have been activated again.        *)
ReadyIsRouted ==
  "deactivate" \notin Made /\ state = "ready" =>
    \/ Ticket(epoch) \in tickets
    \/ \E t \in Threads : pc[t] = "epoch"
    \/ \E t \in Threads : pc[t] = "route" /\ hand[t] = epoch
    \/ \E w \in Workers : pc[w] \in {"check", "claim"} /\ hand[w] = Ticket(epoch)

(* A ticket exists once, in a queue or in the hands of one thread, so an   *)
(* activation is run at most once.                                         *)
TicketOnce ==
  \A e \in 1..epoch :
    Cardinality({t \in Threads : hand[t] = e /\ pc[t] \in {"route", "check", "claim"}})
      + Cardinality(tickets \cap {e}) <= 1

(* A ready node has exactly one ticket of its epoch, wherever that is.     *)
TicketExact == TypeOK /\ ReadyIsRouted /\ TicketOnce

(* When no call is under way and the node is at rest, every activation has *)
(* been completed, so drain returns, but for those that ended because the  *)
(* queues had no room for a wake or a rearm; as long as no activation is   *)
(* queued or taken back.                                                   *)
AtRest == /\ \A t \in Threads : pc[t] = "idle"
          /\ tickets = {}
          /\ state \in {"dormant", "completed", "disabled", "faulted"}
DrainSeesRest ==
  {"queue", "deactivate", "disable"} \cap Made = {} /\ AtRest =>
    activations <= completions + lost

(* completion_fn_ hears of a fault once for each body that failed, as long *)
(* as a faulted node is not enabled again, and none is deactivated, after  *)
(* which two workers may report one failure.                               *)
FaultsAreReal == {"enable", "deactivate"} \cap Made = {} => reported <= failures

(* What is counted and reported of a node's activations adds up.           *)
OutcomesAddUp == DrainSeesRest /\ FaultsAreReal

(* What is activated runs: the node does not stay ready, as long as no     *)
(* activation is taken back.                                               *)
ReadyToRun == state = "ready" /\ {"deactivate", "disable"} \cap Made = {}
ActivationRuns == ReadyToRun ~> ~ ReadyToRun
=============================================================================
