----------------------------- MODULE Sequencer ------------------------------
(***************************************************************************)
(* A sequential role of the task graph: task_sequencer and ready_heap of   *)
(* include/thread/task/task_queue.hpp, and what task_graph does with them. *)
(* Clients activate, deactivate and reorder tasks and leave commands; the  *)
(* one thread that pumps the role absorbs the commands into a heap, which  *)
(* orders the ready tasks by key, and runs the first.                      *)
(*                                                                         *)
(* TaskNode models the life of one task in full; here a body just ends.    *)
(* MpmcQueue models the ring of commands: a push and a pop are one step.   *)
(***************************************************************************)
EXTENDS Integers, Sequences, FiniteSets, SequencesExt

CONSTANTS
  Ranks,       (* the tasks, by their index                                *)
  FirstKeys,   (* the key each task is created with                        *)
  Keys,        (* what tasks are reordered to                              *)
  Clients,
  CommandRoom, (* capacity of commands_                                    *)
  Habits       (* the uses, of which a behaviour has one: which tasks and  *)
               (* clients take part, what clients call beside activate,    *)
               (* and bounds on the turns of a task and on the moves, the  *)
               (* calls of reorder                                         *)

SequencerAssumption ==
  /\ Ranks \subseteq Nat /\ Keys \subseteq Nat /\ FirstKeys \in [Ranks -> Nat]
  /\ CommandRoom \in Nat \ {0}
  /\ Habits \subseteq [tasks : SUBSET Ranks, clients : SUBSET Clients, turns : Nat,
                       calls : SUBSET {"reorder", "deactivate"}, moves : Nat]

VARIABLES
  habit,    (* the use this behaviour makes                                *)
  status,   (* state_ of each task                                         *)
  turn,     (* dispatch_epoch_ of each task                                *)
  key,      (* order_key_ of each task                                     *)
  heap,     (* items_, and heap_index_ of each task                        *)
  commands, (* commands_                                                   *)
  batch,    (* what the pump has taken from commands_ and not handled      *)
  popped,   (* what it has taken from the heap                             *)
  doing,    (* where it is                                                 *)
  calling,  (* where each client is                                        *)
  holds,    (* the command each client has in hand                         *)
  moves,    (* history: how often reorder has been called                  *)
  refused   (* history: tasks whose reorder found commands_ full           *)

vars == <<habit, status, turn, key, heap, commands, batch, popped, doing, calling,
          holds, moves, refused>>
task == <<status, turn, key>>
pump == <<heap, batch, popped, doing>>
client == <<calling, holds>>
past == <<habit, moves, refused>>

Command(op, t, e, k) == [op |-> op, task |-> t, epoch |-> e, key |-> k]
Entry(t, e, k) == [task |-> t, epoch |-> e, key |-> k]

Init ==
  /\ habit \in Habits
  /\ status = [t \in Ranks |-> "dormant"]
  /\ turn = [t \in Ranks |-> 0]
  /\ key = FirstKeys
  /\ heap = [items |-> << >>, slot |-> [t \in Ranks |-> 0]]
  /\ commands = << >> /\ batch = << >>
  /\ popped = Entry(0, 0, 0)
  /\ doing = "drain"
  /\ calling = [c \in Clients |-> "idle"]
  /\ holds = [c \in Clients |-> Command("none", 0, 0, 0)]
  /\ moves = 0 /\ refused = {}

-----------------------------------------------------------------------------
(* ready_heap: the first is the least by key, then by index; each task     *)
(* knows the place of its entry, from 1, or 0.                             *)

Before(a, b) == a.key < b.key \/ (a.key = b.key /\ a.task < b.task)

Exchange(h, p, q) ==
  [items |-> [h.items EXCEPT ![p] = h.items[q], ![q] = h.items[p]],
   slot  |-> [h.slot EXCEPT ![h.items[q].task] = p, ![h.items[p].task] = q]]

Heaps == [items : Seq([task : Ranks, epoch : Nat, key : Nat]), slot : [Ranks -> Nat]]

SiftUp[h \in Heaps, p \in Nat] ==
  IF p > 1 /\ Before(h.items[p], h.items[p \div 2])
    THEN SiftUp[Exchange(h, p, p \div 2), p \div 2]
    ELSE h

SiftDown[h \in Heaps, p \in Nat] ==
  LET kids == {2 * p, 2 * p + 1} \cap DOMAIN h.items
      best == CHOOSE k \in kids : \A j \in kids : ~ Before(h.items[j], h.items[k])
  IN  IF kids # {} /\ Before(h.items[best], h.items[p])
        THEN SiftDown[Exchange(h, p, best), best]
        ELSE h

Push(h, e) ==
  SiftUp[[items |-> Append(h.items, e),
          slot  |-> [h.slot EXCEPT ![e.task] = Len(h.items) + 1]], Len(h.items) + 1]

Pop(h) ==
  LET last == Last(h.items)
      left == [h.slot EXCEPT ![Head(h.items).task] = 0]
  IN  IF Len(h.items) = 1 THEN [items |-> << >>, slot |-> left]
      ELSE SiftDown[[items |-> [Front(h.items) EXCEPT ![1] = last],
                     slot  |-> [left EXCEPT ![last.task] = 1]], 1]

(* variant: the entry only moves up *)
ReorderUp(h, t, k) ==
  IF h.slot[t] = 0 THEN h ELSE SiftUp[[h EXCEPT !.items[h.slot[t]].key = k], h.slot[t]]

Reorder(h, t, k) ==
  IF h.slot[t] = 0 THEN h
  ELSE LET up == SiftUp[[h EXCEPT !.items[h.slot[t]].key = k], h.slot[t]]
       IN  SiftDown[up, up.slot[t]]

-----------------------------------------------------------------------------
(* Clients *)

Step(c, from, to) == calling[c] = from /\ calling' = [calling EXCEPT ![c] = to]
Forget(c) == holds' = [holds EXCEPT ![c] = Command("none", 0, 0, 0)]

Activate(c, t) ==
  /\ turn[t] < habit.turns
  /\ Step(c, "idle", "epoch")
  /\ status[t] \in {"dormant", "completed"}
  /\ status' = [status EXCEPT ![t] = "ready"]
  /\ holds' = [holds EXCEPT ![c] = Command("arm", t, 0, 0)]
  /\ UNCHANGED <<turn, key, commands, pump, past>>

NewTurn(c) ==
  LET t == holds[c].task
  IN  /\ Step(c, "epoch", "route")
      /\ turn' = [turn EXCEPT ![t] = @ + 1]
      /\ holds' = [holds EXCEPT ![c].epoch = turn[t] + 1]
      /\ UNCHANGED <<status, key, commands, pump, past>>

(* push_command, of arm and of reorder. *)
Send(c) ==
  /\ calling[c] \in {"route", "send"} /\ Step(c, calling[c], "idle")
  /\ Len(commands) < CommandRoom
  /\ commands' = Append(commands, holds[c]) /\ Forget(c)
  /\ UNCHANGED <<task, pump, past>>

(* There is no room: the activation is taken back, and a reorder returns   *)
(* an error, having set the key.                                           *)
RouteRefused(c) ==
  /\ Len(commands) = CommandRoom
  /\ Step(c, "route", "idle") /\ Forget(c)
  /\ status' = [status EXCEPT ![holds[c].task] = "dormant"]
  /\ UNCHANGED <<turn, key, commands, pump, past>>

ReorderRefused(c) ==
  /\ Len(commands) = CommandRoom
  /\ Step(c, "send", "idle") /\ Forget(c)
  /\ refused' = refused \cup {holds[c].task}
  /\ UNCHANGED <<task, commands, pump, habit, moves>>

Deactivate(c, t) ==
  /\ "deactivate" \in habit.calls
  /\ turn[t] < habit.turns
  /\ status[t] = "ready"
  /\ Step(c, "idle", "retire")
  /\ status' = [status EXCEPT ![t] = "dormant"]
  /\ holds' = [holds EXCEPT ![c] = Command("none", t, 0, 0)]
  /\ UNCHANGED <<turn, key, commands, pump, past>>

Retire(c) ==
  /\ Step(c, "retire", "idle") /\ Forget(c)
  /\ turn' = [turn EXCEPT ![holds[c].task] = @ + 1]
  /\ UNCHANGED <<status, key, commands, pump, past>>

(* reorder_impl, of a role that is not fifo. *)
SetKey(c, t, k) ==
  /\ "reorder" \in habit.calls /\ moves < habit.moves /\ moves' = moves + 1
  /\ Step(c, "idle", "send")
  /\ key' = [key EXCEPT ![t] = k]
  /\ holds' = [holds EXCEPT ![c] = Command("reorder", t, 0, k)]
  /\ UNCHANGED <<status, turn, commands, pump, habit, refused>>

Answer(c) == NewTurn(c) \/ Send(c) \/ RouteRefused(c) \/ ReorderRefused(c) \/ Retire(c)

-----------------------------------------------------------------------------
(* pump_sequential: drain_commands, handle_command, execute *)

Do(from, to) == doing = from /\ doing' = to
Drop == popped' = Entry(0, 0, 0)

(* The batch of 64 holds all there is. *)
Absorb ==
  /\ commands # << >> /\ Do("drain", "command")
  /\ batch' = commands /\ commands' = << >>
  /\ UNCHANGED <<task, heap, popped, client, past>>

Absorbed ==
  /\ batch = << >> /\ Do("command", "drain")
  /\ UNCHANGED <<task, commands, heap, batch, popped, client, past>>

Drained ==
  /\ commands = << >> /\ Do("drain", "pop")
  /\ UNCHANGED <<task, commands, heap, batch, popped, client, past>>

(* An arm of an epoch gone by is dropped; ... *)
ArmEpoch ==
  /\ batch # << >> /\ Head(batch).op = "arm"
  /\ LET current == turn[Head(batch).task] = Head(batch).epoch
     IN  /\ Do("command", IF current THEN "arm" ELSE "command")
         /\ batch' = IF current THEN batch ELSE Tail(batch)
  /\ UNCHANGED <<task, commands, heap, popped, client, past>>

(* ... so is one of a task that is not ready, or that has an entry.        *)
ArmState ==
  LET t == Head(batch).task
      wanted == status[t] = "ready" /\ heap.slot[t] = 0
  IN  /\ Do("arm", IF wanted THEN "insert" ELSE "command")
      /\ batch' = IF wanted THEN batch ELSE Tail(batch)
      /\ UNCHANGED <<task, commands, heap, popped, client, past>>

ArmInsert ==
  LET t == Head(batch).task
  IN  /\ Do("insert", "command")
      /\ heap' = Push(heap, Entry(t, Head(batch).epoch, key[t]))
      /\ batch' = Tail(batch)
      /\ UNCHANGED <<task, commands, popped, client, past>>

Rekey ==
  /\ batch # << >> /\ Head(batch).op = "reorder"
  /\ Do("command", "command")
  /\ key' = [key EXCEPT ![Head(batch).task] = Head(batch).key]
  /\ heap' = Reorder(heap, Head(batch).task, Head(batch).key)
  /\ batch' = Tail(batch)
  /\ UNCHANGED <<status, turn, commands, popped, client, past>>

(* The heap is empty: the pump returns, and begins again. *)
NothingReady ==
  /\ heap.items = << >> /\ commands # << >> /\ Do("pop", "drain")
  /\ UNCHANGED <<task, commands, heap, batch, popped, client, past>>

PopFirst ==
  /\ heap.items # << >> /\ Do("pop", "look")
  /\ popped' = Head(heap.items)
  /\ heap' = Pop(heap)
  /\ UNCHANGED <<task, commands, batch, client, past>>

Look ==
  /\ doing = "look"
  /\ IF turn[popped.task] = popped.epoch
       THEN doing' = "claim" /\ UNCHANGED popped
       ELSE doing' = "drain" /\ Drop
  /\ UNCHANGED <<task, commands, heap, batch, client, past>>

Claim ==
  /\ Do("claim", "run") /\ status[popped.task] = "ready"
  /\ status' = [status EXCEPT ![popped.task] = "running"]
  /\ UNCHANGED <<turn, key, commands, heap, batch, popped, client, past>>

ClaimLost ==
  /\ Do("claim", "drain") /\ status[popped.task] # "ready" /\ Drop
  /\ UNCHANGED <<task, commands, heap, batch, client, past>>

Run ==
  /\ Do("run", "drain") /\ Drop
  /\ status' = [status EXCEPT ![popped.task] = "completed"]
  /\ UNCHANGED <<turn, key, commands, heap, batch, client, past>>

Pumping ==
  \/ Absorb \/ Absorbed \/ Drained \/ ArmEpoch \/ ArmState \/ ArmInsert \/ Rekey
  \/ NothingReady \/ PopFirst \/ Look \/ Claim \/ ClaimLost \/ Run

Next ==
  \/ \E c \in habit.clients, t \in habit.tasks :
       Activate(c, t) \/ Deactivate(c, t) \/ \E k \in Keys : SetKey(c, t, k)
  \/ \E c \in Clients : Answer(c)
  \/ Pumping

-----------------------------------------------------------------------------
(* Properties *)

(* Every entry is where its task believes, the first is the least, and     *)
(* what is popped was the least.                                           *)
HeapExact ==
  /\ \A t \in Ranks : heap.slot[t] \in 0..Len(heap.items)
  /\ \A p \in DOMAIN heap.items : heap.slot[heap.items[p].task] = p
  /\ \A t \in Ranks : heap.slot[t] # 0 => heap.items[heap.slot[t]].task = t
  /\ \A p \in DOMAIN heap.items : p > 1 => ~ Before(heap.items[p], heap.items[p \div 2])
  /\ doing = "look" => \A p \in DOMAIN heap.items : ~ Before(heap.items[p], popped)

(* The key that orders an entry is the task's, but for a reorder that is   *)
(* under way, or was refused.                                              *)
Reordering(t) ==
  \/ \E c \in Clients : calling[c] = "send" /\ holds[c].task = t
  \/ \E m \in Range(commands) \cup Range(batch) : m.op = "reorder" /\ m.task = t
KeysAgree ==
  \A p \in DOMAIN heap.items :
    LET t == heap.items[p].task
    IN  t \in refused \/ Reordering(t) \/ heap.items[p].key = key[t]

(* A ready task has one ticket of its epoch: in the hands of the client,   *)
(* among the commands, in the heap, or in the hands of the pump; as long   *)
(* as no task is deactivated.                                              *)
Arms(t) ==
  Cardinality({c \in Clients : calling[c] \in {"epoch", "route"} /\ holds[c].task = t})
    + Cardinality({i \in DOMAIN (commands \o batch) :
                     (commands \o batch)[i] = Command("arm", t, turn[t], 0)})
    + Cardinality({p \in DOMAIN heap.items :
                     heap.items[p].task = t /\ heap.items[p].epoch = turn[t]})
    + (IF doing \in {"look", "claim"} /\ popped.task = t /\ popped.epoch = turn[t] THEN 1 ELSE 0)
ReadyIsArmed ==
  "deactivate" \notin habit.calls => \A t \in Ranks : status[t] = "ready" => Arms(t) = 1

InOrder == HeapExact /\ KeysAgree /\ ReadyIsArmed

(* No task is left that is ready and not run; where none is deactivated. *)
NoneWaits == "deactivate" \notin habit.calls => \A t \in Ranks : status[t] # "ready"
=============================================================================
