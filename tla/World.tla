------------------------------- MODULE World -------------------------------
(***************************************************************************)
(* Entities with one type of component: the calls of manager,              *)
(* include/ecs/manager.hpp, on the entity manager, its component masks and *)
(* the component's storage.                                                *)
(*                                                                         *)
(* A walk's callback may make the same calls as any other code.            *)
(*                                                                         *)
(* An application makes the calls of its plan.  With discipline, having    *)
(* removed softly, it calls compact before it removes hard, deletes an     *)
(* entity or sorts, and swaps no slot with a tombstone of the same entity. *)
(***************************************************************************)
EXTENDS ComponentSet

CONSTANTS
    Plans,      \* what an application calls, with which values, disciplined or not
    Nothing     \* what an entity without the component holds

Calls == {"create", "add", "reserve", "delete", "hard", "soft", "compact", "sort", "swap",
          "clear", "get", "walk", "second", "multi", "group", "owning",
          "defer create", "defer add", "defer remove", "defer delete"}
(* free bounds the slots registered as tombstones. *)
Plan == [calls : SUBSET Calls, values : SUBSET Values, free : Nat, disciplined : BOOLEAN]

ASSUME PlansAssumption == Plans \subseteq Plan

VARIABLES
    mask,       \* masks_: the indices whose bit for this type is set
    plan

worldVars == <<mask, plan>>
vars == <<entityVars, setVars, worldVars>>

Init == EntityInit /\ SetInit /\ mask = {} /\ plan \in Plans

(* The application, or a walk's callback, makes the call c. *)
MayMake(c) == c \in plan.calls /\ MayCall

Tidy == plan.disciplined => Tombstones = {}

Create ==
    /\ CreateReserved \/ CreateAllocated
    /\ UNCHANGED <<setVars, worldVars>>

Reserve == MayMake("reserve") /\ Preallocate /\ UNCHANGED <<setVars, worldVars>>

(* delete_entity: the components named in the mask, one of another type   *)
(* perhaps, then the handle.                                               *)
Delete(e, another) ==
    /\ MayMake("delete") /\ Tidy /\ Len(walk.pending) < MaxPending
    /\ IsAlive(e)
    /\ IF e.id \in mask /\ Holds(e) THEN HardRemove(e)
       ELSE fresh' = (fresh /\ ~ another)
            /\ UNCHANGED <<slots, sparse, free, live, hot, walk>>
    /\ Destroy(e)
    /\ mask' = mask \ {e.id}
    /\ UNCHANGED plan

Add(e, v) ==
    /\ IsAlive(e)
    /\ Overwrite(e, v) \/ Reuse(e, v) \/ AppendNew(e, v)
    /\ mask' = mask \cup {e.id}
    /\ UNCHANGED <<entityVars, plan>>

RemoveHard(e) ==
    /\ MayMake("hard") /\ Tidy /\ Len(walk.pending) < MaxPending
    /\ HardRemove(e)
    /\ mask' = mask \ {e.id}
    /\ UNCHANGED <<entityVars, plan>>

RemoveSoft(e) ==
    /\ MayMake("soft")
    /\ Len(free) < plan.free
    /\ SoftRemove(e)
    /\ mask' = mask \ {e.id}
    /\ UNCHANGED <<entityVars, plan>>

ClearType ==
    /\ MayMake("clear")
    /\ Clear
    /\ mask' = mask \ {slots[i].id : i \in DOMAIN slots \ Tombstones}
    /\ UNCHANGED <<entityVars, plan>>

Get(e) == MayMake("get") /\ Fill(e) /\ UNCHANGED <<entityVars, worldVars>>

CompactType == MayMake("compact") /\ Compact /\ UNCHANGED <<entityVars, worldVars>>

SortType == MayMake("sort") /\ Tidy /\ Sort /\ UNCHANGED <<entityVars, worldVars>>

(* A group packs its members to the front. *)
SwapSlots(i, j) ==
    /\ MayMake("swap")
    /\ plan.disciplined => slots[i].id # slots[j].id
    /\ Len(free) + 1 < plan.free
    /\ Swap(i, j)
    /\ UNCHANGED <<entityVars, worldVars>>

Visit ==
    /\ WalkNext \/ WalkEnd \/ ("walk" \in plan.calls /\ WalkBegin)
    /\ UNCHANGED <<entityVars, worldVars>>

(* The calls that concern no type but this one. *)
FirstOnly ==
    \/ (MayMake("create") /\ Create) \/ Reserve \/ ClearType \/ CompactType \/ SortType \/ Visit
    \/ \E i, j \in DOMAIN slots : SwapSlots(i, j)
    \/ \E e \in Handles : RemoveHard(e) \/ RemoveSoft(e) \/ Get(e)
    \/ \E e \in Handles, v \in plan.values : MayMake("add") /\ Add(e, v)

Next == FirstOnly \/ \E e \in Handles : Delete(e, FALSE)

Spec == Init /\ [][Next]_vars

-----------------------------------------------------------------------------

(* Types: entries point into the slots, and a cache line caches its own    *)
(* entities.                                                               *)
TypeOK == EntityTypeOK /\ SetTypeOK /\ mask \subseteq Ids /\ plan \in Plans

(* An entity is answered to have the component, by its mask, exactly when  *)
(* the storage finds it: has_component and get agree.                      *)
MaskAgrees ==
    \A e \in Handles : (IsAlive(e) /\ e.id \in mask) <=> Holds(e)

(* A lookup through the cache answers what the sparse entry says, for      *)
(* every handle, the stale ones included.                                  *)
HotAgrees == \A e \in Handles : Lookup(e) = SparseLookup(e)

(* A sparse entry leads to the slot that names its entity and version, and *)
(* live_count counts the live slots.                                       *)
EntriesAgree ==
    /\ \A i \in Ids : sparse[i].dense # Invalid =>
          /\ sparse[i].dense \in DOMAIN slots
          /\ Owner(sparse[i].dense) = [id |-> i, version |-> sparse[i].version]
    /\ live = Cardinality(DOMAIN slots \ Tombstones)

(* Every tombstone is registered, so that compact may take the other slots *)
(* to be live without looking.                                             *)
TombstonesKnown == Tombstones \subseteq Range(free)

(* Mask, cache, entries, slots and the list of free slots are five records *)
(* of one fact, and agree after every call.                                *)
RecordsAgree == TypeOK /\ MaskAgrees /\ HotAgrees /\ EntriesAgree /\ TombstonesKnown

(* A walk whose callback takes the component hard from no entity but the   *)
(* one visited has, when it ends, visited every entity that kept the component *)
(* exactly once.                                                           *)
WalkVisitsAll ==
    walk.phase = "done" /\ ~ walk.strayed => walk.owed = {} /\ ~ walk.again

Held(e) == IF Lookup(e) = Invalid THEN Nothing ELSE slots[Lookup(e)].val

Promise == INSTANCE WorldSpec WITH
    alive <- {e \in Handles : IsAlive(e)},
    issued <- {e \in Handles : IsAlive(e) \/ e.version < version[e.id]},
    holds <- [e \in Handles |-> Held(e)]

(* The manager, its masks, slots and caches, keeps the promise of          *)
(* WorldSpec: handles are never issued twice, and what an entity holds     *)
(* changes by an add or a removal of its own only.                         *)
KeepsPromise == Promise!Spec

(* Taking one entity's component away gives no other entity one that it    *)
(* did not hold: a tombstone moved by hard_remove stays dead.              *)
NoRevival ==
    [][\A e, f \in Handles :
          Held(e) # Nothing /\ Held(e)' = Nothing /\ f # e
             => Held(f)' \in {Held(f), Nothing}]_vars
=============================================================================
