---------------------------- MODULE ContextTable ----------------------------
(***************************************************************************)
(* context_table of thread/task/task_context.hpp and context_store: slots  *)
(* with a generation and a count of references, which threads take, share  *)
(* and give back without a lock.  A thread has two tasks of its own, the   *)
(* second of them a child that inherits the context of the first.          *)
(*                                                                         *)
(* A thread releases only what it holds, and does not give a task the      *)
(* context it already has.  It may name any context there ever was.        *)
(***************************************************************************)
EXTENDS Integers, FiniteSets

CONSTANTS
  Threads,
  Slots,     (* capacity_                                                  *)
  Nobody,    (* invalid_context                                            *)
  MaxBegun   (* bound on the calls of a behaviour                          *)

ContextAssumption ==
  /\ Slots \in Nat \ {0} /\ MaxBegun \in Nat /\ IsFiniteSet(Threads)
  /\ Nobody \notin [index : 0..Slots-1, generation : Nat]

VARIABLES
  slots,   (* state_, generation_ and refs_ of each slot                   *)
  cursor,  (* cursor_                                                      *)
  task,    (* task_: the context of each thread's tasks                    *)
  doing,   (* what each thread does next, with its locals                  *)
  own,     (* history: the contexts a thread has created and not released  *)
  holding, (* history: the references taken and not given back             *)
  strays,  (* history: references taken of a slot that has been reused     *)
  begun    (* history: how many calls there have been                      *)

vars == <<slots, cursor, task, doing, own, holding, strays, begun>>

Indices == 0..Slots-1
Tasks == {"task", "child"}
Idle == [at |-> "idle"]
Id(i, g) == [index |-> i, generation |-> g]

Init ==
  /\ slots = [i \in Indices |-> [used |-> FALSE, generation |-> 1, refs |-> 0]]
  /\ cursor = 0
  /\ task = [u \in Threads |-> [t \in Tasks |-> Nobody]]
  /\ doing = [u \in Threads |-> Idle]
  /\ own = [u \in Threads |-> {}]
  /\ holding = {} /\ strays = [i \in Indices |-> 0] /\ begun = 0

At(u, where) == doing[u].at = where
Do(u, what) == doing' = [doing EXCEPT ![u] = what]
Call(u, what) == At(u, "idle") /\ begun < MaxBegun /\ begun' = begun + 1 /\ Do(u, what)
Slot(u) == slots[doing[u].id.index]
Matches(u) == Slot(u).generation = doing[u].id.generation

-----------------------------------------------------------------------------
(* create: a slot is taken, stamped, counted, and the cursor moved.        *)

Create(u) ==
  /\ Call(u, [at |-> "probe", n |-> 0])
  /\ UNCHANGED <<slots, cursor, task, own, holding, strays>>

Probed(u) == (cursor + doing[u].n) % Slots

ProbeTake(u) ==
  /\ At(u, "probe") /\ ~ slots[Probed(u)].used
  /\ slots' = [slots EXCEPT ![Probed(u)].used = TRUE]
  /\ Do(u, [at |-> "stamp", index |-> Probed(u)])
  /\ UNCHANGED <<cursor, task, own, holding, strays, begun>>

ProbeNext(u) ==
  /\ At(u, "probe") /\ slots[Probed(u)].used
  /\ Do(u, IF doing[u].n + 1 < Slots THEN [doing[u] EXCEPT !.n = @ + 1] ELSE Idle)
  /\ UNCHANGED <<slots, cursor, task, own, holding, strays, begun>>

Stamp(u) ==
  LET i == doing[u].index
  IN  /\ At(u, "stamp")
      /\ slots' = [slots EXCEPT ![i].generation = @ + 1]
      /\ Do(u, [at |-> "count", id |-> Id(i, slots[i].generation + 1)])
      /\ UNCHANGED <<cursor, task, own, holding, strays, begun>>

Count(u) ==
  /\ At(u, "count")
  /\ slots' = [slots EXCEPT ![doing[u].id.index].refs = 1]
  /\ holding' = holding \cup {[by |-> u, place |-> "own", id |-> doing[u].id]}
  /\ Do(u, [doing[u] EXCEPT !.at = "move"])
  /\ UNCHANGED <<cursor, task, own, strays, begun>>

Move(u) ==
  /\ At(u, "move")
  /\ cursor' = (doing[u].id.index + 1) % Slots
  /\ own' = [own EXCEPT ![u] = @ \cup {doing[u].id}]
  /\ Do(u, Idle)
  /\ UNCHANGED <<slots, task, holding, strays, begun>>

-----------------------------------------------------------------------------
(* set and inherit: retain, whose at() reads state_ and then generation_,  *)
(* and the release of what the task had.                                   *)

Making == {doing[u].id : u \in {v \in Threads : At(v, "count") \/ At(v, "move")}}

(* Every context that create has returned. *)
Returned ==
  {id \in {Id(i, g) : i \in Indices, g \in 2..MaxBegun + 1} :
     id.generation <= slots[id.index].generation} \ Making

(* What the task had is released, unless it had nothing. *)
Give(u, place, id) ==
  Do(u, IF id = Nobody THEN Idle ELSE [at |-> "drop", place |-> place, id |-> id])

Set(u, t, id) ==
  /\ task[u][t] # id
  /\ Call(u, [at |-> "retain", place |-> t, id |-> id])
  /\ UNCHANGED <<slots, cursor, task, own, holding, strays>>

Clear(u, t) ==
  /\ task[u][t] # Nobody
  /\ At(u, "idle") /\ begun < MaxBegun /\ begun' = begun + 1
  /\ task' = [task EXCEPT ![u][t] = Nobody]
  /\ Give(u, t, task[u][t])
  /\ UNCHANGED <<slots, cursor, own, holding, strays>>

(* The child is registered; whether the retain succeeds is not asked. *)
Inherit(u) ==
  /\ task[u].child = Nobody /\ task[u].task # Nobody
  /\ Call(u, [at |-> "retain", place |-> "inherit", id |-> task[u].task])
  /\ task' = [task EXCEPT ![u].child = task[u].task]
  /\ UNCHANGED <<slots, cursor, own, holding, strays>>

RetainLook(u) ==
  /\ At(u, "retain")
  /\ Do(u, IF Slot(u).used THEN [doing[u] EXCEPT !.at = "match"] ELSE Idle)
  /\ UNCHANGED <<slots, cursor, task, own, holding, strays, begun>>

RetainMatch(u) ==
  /\ At(u, "match")
  /\ Do(u, IF Matches(u) THEN [doing[u] EXCEPT !.at = "load"] ELSE Idle)
  /\ UNCHANGED <<slots, cursor, task, own, holding, strays, begun>>

RetainLoad(u) ==
  /\ At(u, "load")
  /\ Do(u, [at |-> "raise", place |-> doing[u].place, id |-> doing[u].id, seen |-> Slot(u).refs])
  /\ UNCHANGED <<slots, cursor, task, own, holding, strays, begun>>

RetainRefused(u) ==
  /\ At(u, "raise") /\ doing[u].seen = 0
  /\ Do(u, Idle)
  /\ UNCHANGED <<slots, cursor, task, own, holding, strays, begun>>

RetainLost(u) ==
  /\ At(u, "raise") /\ doing[u].seen \notin {0, Slot(u).refs}
  /\ Do(u, [doing[u] EXCEPT !.seen = Slot(u).refs])
  /\ UNCHANGED <<slots, cursor, task, own, holding, strays, begun>>

(* The reference is of the context that is asked for, or a stray one, of   *)
(* the context that has got the slot since.                                *)
Raised(u) ==
  LET id == doing[u].id
      place == IF doing[u].place = "inherit" THEN "child" ELSE doing[u].place
      ref == [by |-> u, place |-> place, id |-> id]
  IN  /\ slots' = [slots EXCEPT ![id.index].refs = @ + 1]
      /\ IF Matches(u) THEN holding' = holding \cup {ref} /\ UNCHANGED strays
         ELSE strays' = [strays EXCEPT ![id.index] = @ + 1] /\ UNCHANGED holding
      /\ IF doing[u].place = "inherit" THEN Do(u, Idle) /\ UNCHANGED task
         ELSE task' = [task EXCEPT ![u][place] = id] /\ Give(u, place, task[u][place])
      /\ UNCHANGED <<cursor, own, begun>>

(* variant: a slot that nobody refers to is retained all the same *)
RetainBlind(u) == At(u, "raise") /\ doing[u].seen = Slot(u).refs /\ Raised(u)

Retain(u) ==
  At(u, "raise") /\ doing[u].seen # 0 /\ doing[u].seen = Slot(u).refs /\ Raised(u)

-----------------------------------------------------------------------------
(* release *)

Release(u, id) ==
  /\ id \in own[u]
  /\ Call(u, [at |-> "drop", place |-> "own", id |-> id])
  /\ own' = [own EXCEPT ![u] = @ \ {id}]
  /\ UNCHANGED <<slots, cursor, task, holding, strays>>

DropLook(u) ==
  /\ At(u, "drop")
  /\ Do(u, IF Slot(u).used THEN [doing[u] EXCEPT !.at = "check"] ELSE Idle)
  /\ UNCHANGED <<slots, cursor, task, own, holding, strays, begun>>

DropCheck(u) ==
  /\ At(u, "check")
  /\ Do(u, IF Matches(u) THEN [doing[u] EXCEPT !.at = "lower"] ELSE Idle)
  /\ UNCHANGED <<slots, cursor, task, own, holding, strays, begun>>

Lower(u) ==
  LET d == doing[u]
  IN  /\ At(u, "lower")
      /\ slots' = [slots EXCEPT ![d.id.index].refs = @ - 1]
      /\ holding' = holding \ {[by |-> u, place |-> d.place, id |-> d.id]}
      /\ Do(u, IF Slot(u).refs = 1 THEN [d EXCEPT !.at = "free"] ELSE Idle)
      /\ UNCHANGED <<cursor, task, own, strays, begun>>

Free(u) ==
  /\ At(u, "free")
  /\ slots' = [slots EXCEPT ![doing[u].id.index].used = FALSE]
  /\ Do(u, Idle)
  /\ UNCHANGED <<cursor, task, own, holding, strays, begun>>

(* The bound is reached and every call has returned. *)
Rest ==
  /\ begun = MaxBegun /\ \A u \in Threads : At(u, "idle")
  /\ UNCHANGED vars

Next ==
  \/ Rest
  \/ \E u \in Threads :
       \/ Create(u) \/ ProbeTake(u) \/ ProbeNext(u) \/ Stamp(u) \/ Count(u) \/ Move(u)
       \/ \E t \in Tasks : Clear(u, t) \/ \E id \in Returned : Set(u, t, id)
       \/ Inherit(u) \/ RetainLook(u) \/ RetainMatch(u) \/ RetainLoad(u)
       \/ RetainRefused(u) \/ RetainLost(u) \/ Retain(u)
       \/ \E id \in own[u] : Release(u, id)
       \/ DropLook(u) \/ DropCheck(u) \/ Lower(u) \/ Free(u)

-----------------------------------------------------------------------------
(* Threads between taking a slot and counting its first reference, or      *)
(* between giving the last one back and freeing the slot.                  *)
Busy(i) ==
  \E u \in Threads :
    \/ At(u, "stamp") /\ doing[u].index = i
    \/ (At(u, "count") \/ At(u, "free")) /\ doing[u].id.index = i

(* Whoever has a reference has the context it asked for, in a slot nobody  *)
(* else has been given; every reference is counted once; a slot is in use  *)
(* as long as there are references and no longer.                          *)
ReferencesExact ==
  /\ \A r \in holding : slots[r.id.index].used /\ slots[r.id.index].generation = r.id.generation
  /\ \A i \in Indices :
       /\ slots[i].refs = Cardinality({r \in holding : r.id.index = i}) + strays[i]
       /\ slots[i].used <=> slots[i].refs > 0 \/ Busy(i)
=============================================================================
