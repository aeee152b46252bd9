------------------------------ MODULE TaskJoin ------------------------------
(***************************************************************************)
(* co_await join(child), when_all(children) and when_any(children) in the  *)
(* body of a task: task/task_flow.hpp, and prepare_join, suspend_          *)
(* bookkeeping, notify_join_waiter and wake_waiting_index of               *)
(* task/detail/task_graph_runtime_impl.hpp, one access to shared state a   *)
(* step.                                                                   *)
(*                                                                         *)
(* The parent registers itself with each child it waits for (join_parent_),*)
(* counts it in pending_children_, activates it, and suspends.  A child    *)
(* that ends looks for the parent registered with it, takes one off the    *)
(* count and wakes the parent when that was the last one.  What a worker   *)
(* does to claim and run a ticket is TaskNode's; here a ready task runs.   *)
(*                                                                         *)
(* The queues may be full of other tasks: then a child is not activated,   *)
(* and a parent that is woken or put back at once is dormant instead.      *)
(***************************************************************************)
EXTENDS Integers, FiniteSets

CONSTANTS
  Children,   (* the tasks that are waited for                             *)
  Loads,      (* the bodies and the pools they may run in, one a behaviour *)
  Wrap        (* pending_children_ counts modulo this                      *)

(* What the body awaits, how often (a bound), what others have activated   *)
(* already, how many workers there are, and may the queues be full.        *)
Load == [kinds : SUBSET {"join", "all", "any"}, awaits : Nat,
         activated : SUBSET Children, workers : Nat \ {0}, full : BOOLEAN]

JoinAssumption ==
  /\ Loads \subseteq Load
  /\ IsFiniteSet(Children)
  /\ Wrap \in Nat /\ Wrap > Cardinality(Children) + 1

VARIABLES
  load,     (* which of Loads this behaviour is                            *)
  state,    (* state_ of the parent                                        *)
  pending,  (* pending_children_ of the parent                             *)
  joinAny,  (* flag_join_any of the parent                                 *)
  wakeup,   (* waits_.pending_: a wake found the parent running            *)
  waitJoin, (* waits_ of the parent is prepared for a join                 *)
  parentOf, (* join_parent_ of each child is the parent                    *)
  child,    (* state_ of each child                                        *)
  pc,       (* where the parent's body is                                  *)
  end,      (* where the end of each child is                              *)
  last,     (* what each end's fetch_sub returned                          *)
  now,      (* the child the await is preparing                            *)
  todo,     (* children the await has still to prepare                     *)
  awaited,  (* history: children the await has prepared                    *)
  ended,    (* history: children that ended since the await began          *)
  awaits    (* how many awaits the body has begun                          *)

vars == <<load, state, pending, joinAny, wakeup, waitJoin, parentOf, child, pc,
          end, last, now, todo, awaited, ended, awaits>>
parent == <<state, joinAny, wakeup, waitJoin>>
await == <<now, todo, awaited, awaits>>
children == <<parentOf, child, end, last, ended>>

Init ==
  /\ load \in Loads
  /\ state = "running" /\ pending = 0 /\ joinAny = FALSE /\ wakeup = FALSE
  /\ waitJoin = FALSE
  /\ parentOf = [c \in Children |-> FALSE]
  /\ child = [c \in Children |-> IF c \in load.activated THEN "ready" ELSE "dormant"]
  /\ pc = "body"
  /\ end = [c \in Children |-> "none"] /\ last = [c \in Children |-> 0]
  /\ now \in Children /\ todo = {} /\ awaited = {} /\ ended = {} /\ awaits = 0

Goto(from, to) == pc = from /\ pc' = to
EndGoto(c, from, to) == end[c] = from /\ end' = [end EXCEPT ![c] = to]

Add(n) == pending' = (pending + n) % Wrap
Swap(from, to) == state = from /\ state' = to

(* route_to puts the parent into a queue, or finds it full. *)
Routed == {"ready"} \cup (IF load.full THEN {"dormant"} ELSE {})

(* Workers that are in the middle of something. *)
Busy == Cardinality({c \in Children : child[c] = "running" \/ end[c] # "none"})
          + (IF pc = "parked" THEN 0 ELSE 1)

-----------------------------------------------------------------------------
(* The await: await_suspend of the three awaitables, prepare_join          *)

Await ==
  /\ awaits < load.awaits
  /\ \E kind \in load.kinds, cs \in (SUBSET Children) \ {{}} :
       /\ kind = "join" => Cardinality(cs) = 1
       /\ todo' = cs
       /\ joinAny' = (joinAny \/ kind = "any")
  /\ Goto("body", "prepare")
  /\ awaits' = awaits + 1
  /\ awaited' = {} /\ ended' = {}
  /\ UNCHANGED <<load, state, pending, wakeup, waitJoin, parentOf, child, end,
                 last, now>>

(* A child that knows the parent already is neither counted nor activated. *)
PrepareKnown(c) ==
  /\ c \in todo /\ parentOf[c]
  /\ pc = "prepare" /\ UNCHANGED pc
  /\ todo' = todo \ {c}
  /\ awaited' = awaited \cup {c}
  /\ UNCHANGED <<load, parent, pending, children, now, awaits>>

PrepareRegister(c) ==
  /\ c \in todo /\ ~ parentOf[c]
  /\ Goto("prepare", "count")
  /\ now' = c
  /\ parentOf' = [parentOf EXCEPT ![c] = TRUE]
  /\ UNCHANGED <<load, parent, pending, child, end, last, ended, todo, awaited,
                 awaits>>

(* variant: a child that is under way already is not counted *)
PrepareCountDormant ==
  /\ Goto("count", "activate")
  /\ Add(IF child[now] = "ready" THEN 0 ELSE 1)
  /\ waitJoin' = TRUE
  /\ UNCHANGED <<load, state, joinAny, wakeup, children, await>>

PrepareCount ==
  /\ Goto("count", "activate")
  /\ Add(1)
  /\ waitJoin' = TRUE
  /\ UNCHANGED <<load, state, joinAny, wakeup, children, await>>

(* activate: a child that is under way already is left to it. *)
PrepareActivate ==
  /\ child[now] # "faulted"
  /\ Goto("activate", "prepare")
  /\ child' = [child EXCEPT ![now] = IF @ \in {"dormant", "completed"} THEN "ready" ELSE @]
  /\ todo' = todo \ {now}
  /\ awaited' = awaited \cup {now}
  /\ UNCHANGED <<load, parent, pending, parentOf, end, last, ended, now, awaits>>

(* A child that may not be activated, or that the queues refuse, ends the  *)
(* preparation; when_all waits for those it has prepared, when_any and     *)
(* join for nothing.                                                       *)
PrepareRefused ==
  /\ \/ child[now] = "faulted" /\ UNCHANGED child
     \/ /\ load.full /\ child[now] \in {"dormant", "completed"}
        /\ child' = [child EXCEPT ![now] = "dormant"]
  /\ Goto("activate", IF awaited # {} /\ ~ joinAny THEN "suspend" ELSE "body")
  /\ parentOf' = [parentOf EXCEPT ![now] = FALSE]
  /\ Add(-1)
  /\ joinAny' = FALSE
  /\ todo' = {}
  /\ UNCHANGED <<load, state, wakeup, waitJoin, end, last, ended, now, awaited,
                 awaits>>

Prepared ==
  /\ todo = {}
  /\ Goto("prepare", "suspend")
  /\ UNCHANGED <<load, parent, pending, children, await>>

-----------------------------------------------------------------------------
(* suspend_bookkeeping, and the parent's worker coming back to it          *)

(* Only a word from a wake, or a join whose children have all ended, keeps *)
(* the parent from parking.                                                *)
MayPark == ~ wakeup /\ ~ (waitJoin /\ pending = 0)

SuspendRearm ==
  /\ ~ MayPark
  /\ Goto("suspend", "parked")
  /\ state = "running" /\ state' \in Routed
  /\ wakeup' = FALSE /\ waitJoin' = FALSE
  /\ UNCHANGED <<load, pending, joinAny, children, await>>

SuspendCheck ==
  /\ MayPark
  /\ Goto("suspend", "park")
  /\ UNCHANGED <<load, parent, pending, children, await>>

SuspendPark ==
  /\ Goto("park", "recheck")
  /\ state' = "waiting"
  /\ UNCHANGED <<load, pending, joinAny, wakeup, waitJoin, children, await>>

SuspendRecheck ==
  /\ Goto("recheck", "parked")
  /\ IF wakeup /\ state = "waiting" THEN state' \in Routed ELSE UNCHANGED state
  /\ waitJoin' = (waitJoin /\ ~ wakeup)
  /\ wakeup' = FALSE
  /\ UNCHANGED <<load, pending, joinAny, children, await>>

(* await_resume; when_any takes its flag back. *)
Resume ==
  /\ Busy < load.workers
  /\ Goto("parked", "body")
  /\ Swap("ready", "running")
  /\ joinAny' = FALSE
  /\ UNCHANGED <<load, pending, wakeup, waitJoin, children, await>>

(* The body returns. *)
Return ==
  /\ Goto("body", "parked")
  /\ state' = "completed"
  /\ UNCHANGED <<load, pending, joinAny, wakeup, waitJoin, children, await>>

Parent ==
  \/ Await \/ Prepared \/ SuspendRearm \/ SuspendCheck \/ SuspendPark
  \/ SuspendRecheck \/ Resume \/ Return
  \/ PrepareCount \/ PrepareActivate \/ PrepareRefused
  \/ \E c \in Children : PrepareKnown(c) \/ PrepareRegister(c)

-----------------------------------------------------------------------------
(* A child: its body, finish, notify_join_waiter                           *)

ChildStart(c) ==
  /\ Busy < load.workers
  /\ child[c] = "ready" /\ end[c] = "none"
  /\ child' = [child EXCEPT ![c] = "running"]
  /\ UNCHANGED <<load, parent, pending, parentOf, pc, end, last, ended, await>>

ChildEnd(c) ==
  /\ child[c] = "running"
  /\ \E how \in {"completed", "faulted"} : child' = [child EXCEPT ![c] = how]
  /\ EndGoto(c, "none", "notify")
  /\ ended' = ended \cup {c}
  /\ UNCHANGED <<load, parent, pending, parentOf, pc, last, await>>

NotifyNobody(c) ==
  /\ ~ parentOf[c]
  /\ EndGoto(c, "notify", "none")
  /\ UNCHANGED <<load, parent, pending, parentOf, child, pc, last, ended, await>>

NotifyForget(c) ==
  /\ parentOf[c]
  /\ EndGoto(c, "notify", "subtract")
  /\ parentOf' = [parentOf EXCEPT ![c] = FALSE]
  /\ UNCHANGED <<load, parent, pending, child, pc, last, ended, await>>

NotifySubtract(c) ==
  /\ EndGoto(c, "subtract", "look")
  /\ last' = [last EXCEPT ![c] = pending]
  /\ Add(-1)
  /\ UNCHANGED <<load, parent, parentOf, child, pc, ended, await>>

(* variant: a child that is not the last one wakes the parent as well *)
NotifyLookAny(c) ==
  /\ EndGoto(c, "look", IF state = "waiting" THEN "wake" ELSE "none")
  /\ UNCHANGED <<load, parent, pending, parentOf, child, pc, last, ended, await>>

(* variant: the count that the subtraction leaves is taken for the one before *)
NotifyLookAfter(c) ==
  LET any == joinAny /\ state = "waiting"
  IN  /\ EndGoto(c, "look", IF any \/ (last[c] = 0 /\ state = "waiting")
                            THEN "wake" ELSE "none")
      /\ pending' = IF any \/ last[c] = 0 THEN 0 ELSE pending
      /\ UNCHANGED <<load, parent, parentOf, child, pc, last, ended, await>>

(* The first child of when_any that finds the parent parked, and the last  *)
(* child of a join, go on to wake it.                                      *)
NotifyLook(c) ==
  LET any == joinAny /\ state = "waiting"
  IN  /\ EndGoto(c, "look", IF any \/ (last[c] = 1 /\ state = "waiting")
                            THEN "wake" ELSE "none")
      /\ pending' = IF any \/ last[c] = 0 THEN 0 ELSE pending
      /\ UNCHANGED <<load, parent, parentOf, child, pc, last, ended, await>>

(* wake_waiting_index *)
NotifyWake(c) ==
  /\ EndGoto(c, "wake", "none")
  /\ \/ state = "waiting" /\ state' \in Routed /\ waitJoin' = FALSE /\ UNCHANGED wakeup
     \/ state = "running" /\ wakeup' = TRUE /\ UNCHANGED <<state, waitJoin>>
     \/ state \notin {"waiting", "running"} /\ UNCHANGED <<state, wakeup,
                                                           waitJoin>>
  /\ UNCHANGED <<load, pending, joinAny, parentOf, child, pc, last, ended, await>>

Child(c) ==
  \/ ChildStart(c) \/ ChildEnd(c) \/ NotifyNobody(c) \/ NotifyForget(c)
  \/ NotifySubtract(c) \/ NotifyLook(c) \/ NotifyWake(c)

-----------------------------------------------------------------------------
Next == Parent \/ \E c \in Children : Child(c)

Spec == Init /\ [][Next]_vars

(* Workers take what is ready, and every body ends or awaits. *)
FairSpec == Spec /\ WF_vars(Parent) /\ \A c \in Children : WF_vars(Child(c))

-----------------------------------------------------------------------------
(* Properties *)

TypeOK ==
  /\ state \in {"running", "waiting", "ready", "completed", "dormant"}
  /\ pending \in 0..(Wrap - 1) /\ joinAny \in BOOLEAN /\ wakeup \in BOOLEAN
  /\ waitJoin \in BOOLEAN /\ parentOf \in [Children -> BOOLEAN]
  /\ child \in [Children -> {"dormant", "ready", "running", "completed", "faulted"}]
  /\ pc \in {"body", "prepare", "count", "activate", "suspend", "park", "recheck",
             "parked"}
  /\ end \in [Children -> {"none", "notify", "subtract", "look", "wake"}]
  /\ now \in Children /\ todo \subseteq Children /\ awaited \subseteq Children
  /\ ended \subseteq Children /\ awaits \in 0..load.awaits
  /\ load \in Loads

(* The code keeps its word only for a body that awaits nothing after a     *)
(* when_any, whose other children stay registered.                         *)
NoStragglers == "any" \in load.kinds => load.awaits = 1

(* Nor for a child that may be under way when an await registers with it:  *)
(* it ends and answers for the run before the one that is awaited, or the  *)
(* await takes back a count it has answered for.                           *)
Apart == load.workers = 1 \/ (load.awaits = 1 /\ load.activated = {})

(* A parent that was suspended goes on only when all its children have     *)
(* ended, or, after when_any, one of them; where there is no straggler and *)
(* none under way, and where no child of when_all can end while others are *)
(* being prepared.                                                         *)
JoinAwaitsChild ==
  /\ TypeOK
  /\ state = "ready" /\ NoStragglers /\ Apart /\ ("all" \in load.kinds => load.workers = 1) =>
       IF joinAny THEN awaited \cap ended # {} ELSE awaited \subseteq ended

(* A count that has gone below zero is being put right: a later await does *)
(* not meet it.                                                            *)
NeverNegative ==
  pending > Cardinality(Children) => \E c \in Children : end[c] = "look" /\ last[c] = 0

(* While the parent is parked, pending_children_ counts the children that  *)
(* have still to report, where there is no straggler.                      *)
PendingIsExact ==
  state = "waiting" /\ ~ joinAny /\ NoStragglers =>
    pending = Cardinality({c \in Children : parentOf[c] \/ end[c] = "subtract"})

(* The count of children neither drifts nor stays below zero, where no     *)
(* child is under way when an await registers with it.                     *)
CountIsExact == Apart => PendingIsExact /\ NeverNegative

(* An await comes to an end, where there is no straggler and no child can  *)
(* end while the parent is suspending itself, unless the queues refuse the *)
(* parent: then nobody wakes it again.                                     *)
Suspends == pc = "suspend" /\ NoStragglers /\ load.workers = 1
Dropped == state = "dormant"
Returned == pc = "body"
AwaitReturns == Suspends ~> (Returned \/ Dropped)
=============================================================================
