---------------------------- MODULE ComponentSet ----------------------------
(***************************************************************************)
(* The storage of one component type: single_class_set and safe_iterator,  *)
(* include/ecs/storage/single_class_set.hpp.                               *)
(*                                                                         *)
(* Components lie densely in slots; sparse says, for an entity index,      *)
(* which slot holds its component and for which version of the entity.     *)
(* hard_remove fills the hole with the last slot.  soft_remove leaves the  *)
(* slot where it is, a tombstone registered in free, which add reuses and  *)
(* compact squeezes out; a slot is live when the sparse entry of its index *)
(* points back at it.  hot caches lookups.                                 *)
(*                                                                         *)
(* Slots are counted from 1, and 0 is dense_invalid.  A cache entry of an  *)
(* epoch gone by can never be hit again (short of 2^32 epochs), so Bump    *)
(* empties the cache.  Automatic compaction starts at 64 tombstones and is *)
(* the action Compact.                                                     *)
(***************************************************************************)
EXTENDS EntityManager, FiniteSets

CONSTANTS
    Values,         \* component values, numbers that sort orders
    HotSize,        \* entries of the hot set, a power of two
    MaxPending,     \* bound on the entities a walk has pending
    None            \* a cache entry never filled

ASSUME ValuesAssumption == Values \subseteq Nat /\ Values # {}
ASSUME HotSizeAssumption == HotSize \in Nat \ {0}
ASSUME NoneAssumption == None \notin Handles /\ MaxPending \in Nat

VARIABLES
    slots,      \* dense_, versions_ and the pool, position by position
    sparse,     \* sparse_, by entity index
    free,       \* free_dense_: slots registered as tombstones
    live,       \* live_count_
    fresh,      \* the versions a view or a group has noted are the sets' own
    hot,        \* hot_: the handle and slot remembered
    walk        \* active_iterator_ and what it has visited

setVars == <<slots, sparse, free, live, fresh, hot, walk>>

Invalid == 0
Gone == [dense |-> Invalid, version |-> 0]
Slot == [id : Ids, version : 0 .. MaxVersion, val : Values]
Owner(i) == [id |-> slots[i].id, version |-> slots[i].version]
IsLive(i) == sparse[slots[i].id].dense = i
Tombstones == {i \in DOMAIN slots : ~ IsLive(i)}

------------------------------- (* Lookup *) -------------------------------

Holds(e) == sparse[e.id].dense # Invalid /\ sparse[e.id].version = e.version
SparseLookup(e) == IF Holds(e) THEN sparse[e.id].dense ELSE Invalid

Line(e) == e.id % HotSize
Lookup(e) ==
    IF hot[Line(e)] # None /\ hot[Line(e)].key = e
        THEN hot[Line(e)].dense
        ELSE SparseLookup(e)

Filled(e) ==
    IF Lookup(e) = Invalid THEN hot
    ELSE [hot EXCEPT ![Line(e)] = [key |-> e, dense |-> Lookup(e)]]

Cold == [l \in 0 .. HotSize - 1 |-> None]
Outdate == fresh' = FALSE
Bump == hot' = Cold /\ Outdate

Fill(e) == hot' = Filled(e) /\ UNCHANGED <<slots, sparse, free, live, fresh, walk>>

-------------------------------- (* Walk *) --------------------------------

(* for_each_safe is in its callback, at the entity it visits, or has found *)
(* nothing to visit at its position.  owed and seen follow the entities    *)
(* that hold the component from the start of the walk on; strayed says the *)
(* callback took it from another entity than the one visited.              *)
NoWalk == [phase |-> "none", index |-> 0, pending |-> <<>>, skip |-> FALSE,
           at |-> None, owed |-> {}, seen |-> {}, again |-> FALSE,
           strayed |-> FALSE]

Walking == walk.phase \in {"callback", "between"}
MayCall == walk.phase \in {"none", "callback"}

(* The entity at the walk's position: the last one pending, or its slot's. *)
Position(w) == IF w.pending # <<>> THEN Last(w.pending) ELSE Owner(w.index)

(* The walk w stops, visits the entity at its position, or finds that it   *)
(* does not hold the component.                                            *)
Land(w) ==
    IF w.pending = <<>> /\ w.index > Len(slots)
        THEN walk' = [w EXCEPT !.phase = "done"] /\ UNCHANGED hot
        ELSE LET e == Position(w) IN
             /\ hot' = Filled(e)
             /\ walk' = IF Lookup(e) = Invalid
                           THEN [w EXCEPT !.phase = "between", !.at = None]
                           ELSE [w EXCEPT !.phase = "callback",
                                          !.at = e,
                                          !.again = @ \/ e \in w.seen,
                                          !.seen = @ \cup ({e} \cap w.owed),
                                          !.owed = @ \ {e}]

WalkBegin ==
    /\ walk.phase = "none"
    /\ Land([NoWalk EXCEPT !.index = 1,
                           !.owed = {Owner(i) : i \in DOMAIN slots \ Tombstones}])
    /\ UNCHANGED <<slots, sparse, free, live, fresh>>

(* variant: the slot filled behind the walk's back is passed over *)
AdvancedAlways(w) ==
    IF w.pending # <<>> THEN [w EXCEPT !.pending = Front(@)]
    ELSE [w EXCEPT !.index = @ + 1, !.skip = FALSE]

Advanced(w) ==
    IF w.pending # <<>> THEN [w EXCEPT !.pending = Front(@)]
    ELSE IF w.skip THEN [w EXCEPT !.skip = FALSE]
    ELSE [w EXCEPT !.index = @ + 1]

WalkNext ==
    /\ Walking
    /\ Land(Advanced(walk))
    /\ UNCHANGED <<slots, sparse, free, live, fresh>>

WalkEnd ==
    /\ walk.phase = "done"
    /\ walk' = NoWalk
    /\ UNCHANGED <<slots, sparse, free, live, fresh, hot>>

(* An entity removed is no longer followed, nor visited any more if it is. *)
WalkForgets(e) ==
    [walk EXCEPT !.owed = @ \ {e}, !.seen = @ \ {e}, !.at = IF @ = e THEN None ELSE @]

(* on_swap_remove: slot i of e is about to be filled with the last one. *)
WalkRemoved(e, i) ==
    LET last  == Len(slots)
        moved == i # last
        bare  == [WalkForgets(e) EXCEPT !.strayed = @ \/ e # walk.at]
    IN  IF ~ Walking THEN walk
        ELSE CASE moved /\ i < walk.index -> [bare EXCEPT !.pending = Append(@, Owner(last))]
               [] moved /\ i = walk.index -> [bare EXCEPT !.skip = TRUE]
               [] OTHER                   -> bare

------------------------------- (* Storage *) -------------------------------

Put(e, v) == [id |-> e.id, version |-> e.version, val |-> v]
At(i, e) == [dense |-> i, version |-> e.version]

Overwrite(e, v) ==
    /\ sparse[e.id].version = e.version
    /\ slots' = [slots EXCEPT ![sparse[e.id].dense].val = v]
    /\ Outdate
    /\ UNCHANGED <<sparse, free, live, hot, walk>>

(* The registered slots that still are tombstones; stale entries are thrown *)
(* away on the way to the last of them.                                    *)
Usable == {k \in DOMAIN free : free[k] \in Tombstones}

Reuse(e, v) ==
    /\ sparse[e.id].version # e.version
    /\ Usable # {}
    /\ LET k == CHOOSE n \in Usable : \A m \in Usable : m <= n
       IN  /\ slots' = [slots EXCEPT ![free[k]] = Put(e, v)]
           /\ sparse' = [sparse EXCEPT ![e.id] = At(free[k], e)]
           /\ free' = SubSeq(free, 1, k - 1)
    /\ live' = live + 1
    /\ Outdate
    /\ UNCHANGED <<hot, walk>>

(* Growing the arrays moves the epoch. *)
AppendNew(e, v) ==
    /\ sparse[e.id].version # e.version
    /\ Usable = {}
    /\ slots' = Append(slots, Put(e, v))
    /\ sparse' = [sparse EXCEPT ![e.id] = At(Len(slots) + 1, e)]
    /\ free' = <<>>
    /\ live' = live + 1
    /\ hot' \in {hot, Cold}
    /\ Outdate
    /\ UNCHANGED walk

(* variant: the slot that fills the hole is not looked up at its new place *)
SwapPopSparseKept(e, i, moved) == [sparse EXCEPT ![e.id] = Gone]

SwapPopSparse(e, i, moved) ==
    IF moved.id = e.id \/ sparse[moved.id].dense = Invalid
        THEN [sparse EXCEPT ![e.id] = Gone]
        ELSE [sparse EXCEPT ![moved.id].dense = i, ![e.id] = Gone]

HardRemove(e) ==
    /\ Holds(e)
    /\ LET i == sparse[e.id].dense
           moved == Last(slots)
       IN  /\ slots' = Front([slots EXCEPT ![i] = moved])
           /\ sparse' = SwapPopSparse(e, i, moved)
           /\ free' = IF moved.id # e.id /\ sparse[moved.id].dense = Invalid
                         THEN Append(free, i) ELSE free
           /\ walk' = WalkRemoved(e, i)
    /\ live' = live - 1
    /\ Bump

SoftRemove(e) ==
    /\ Holds(e)
    /\ slots' = [slots EXCEPT ![sparse[e.id].dense].version = 0]
    /\ sparse' = [sparse EXCEPT ![e.id] = Gone]
    /\ free' = Append(free, sparse[e.id].dense)
    /\ live' = live - 1
    /\ walk' = IF Walking THEN WalkForgets(e) ELSE walk
    /\ Bump

-------------------------- (* Moving slots about *) --------------------------

(* compact: one slot after the other; a slot that is not registered is    *)
(* taken to be live.                                                       *)
Squeeze(acc, i) ==
    LET s == slots[i]
        w == Len(acc.slots) + 1
    IN  IF i \notin Range(free) \/ acc.sparse[s.id].dense = i
           THEN [slots |-> Append(acc.slots, s),
                 sparse |-> IF w = i THEN acc.sparse
                            ELSE [acc.sparse EXCEPT ![s.id].dense = w]]
           ELSE acc

Squeezed[i \in 0 .. Len(slots)] ==
    IF i = 0 THEN [slots |-> <<>>, sparse |-> sparse] ELSE Squeeze(Squeezed[i - 1], i)

Compact ==
    /\ ~ Walking
    /\ LET done == Squeezed[Len(slots)]
       IN  /\ slots' = done.slots
           /\ sparse' = done.sparse
           /\ IF done.slots = slots THEN UNCHANGED <<hot, fresh>> ELSE Bump
    /\ free' = <<>>
    /\ UNCHANGED <<live, walk>>

(* sort_entities_by_component: the permutation p orders the values, those  *)
(* of tombstones too; entries follow their slots one by one.               *)
Orders == {p \in Bijection(DOMAIN slots, DOMAIN slots) :
              \A i, j \in DOMAIN slots : i < j => slots[p[i]].val <= slots[p[j]].val}

Follow(acc, i, p) ==
    IF acc[slots[p[i]].id].dense = p[i] THEN [acc EXCEPT ![slots[p[i]].id].dense = i]
    ELSE acc

Followed(p) ==
    LET f[i \in 0 .. Len(slots)] == IF i = 0 THEN sparse ELSE Follow(f[i - 1], i, p)
    IN  f[Len(slots)]

Sort ==
    /\ ~ Walking
    /\ Len(slots) > 1
    /\ \E p \in Orders :
          /\ slots' = [i \in DOMAIN slots |-> slots[p[i]]]
          /\ sparse' = Followed(p)
    /\ Bump
    /\ UNCHANGED <<free, live, walk>>

(* swap_dense_and_pool: an entry follows its slot, and a tombstone's new   *)
(* place is registered.                                                    *)
Records == [slots |-> slots, sparse |-> sparse, free |-> free]

Swapped(s, i, j) ==
    LET a == s.slots[i].id
        b == s.slots[j].id
        first == IF s.sparse[a].dense = i THEN [s.sparse EXCEPT ![a].dense = j] ELSE s.sparse
        liveB == first[b].dense = j
    IN  [slots |-> [s.slots EXCEPT ![i] = s.slots[j], ![j] = s.slots[i]],
         sparse |-> IF liveB THEN [first EXCEPT ![b].dense = i] ELSE first,
         free |-> s.free \o (IF s.sparse[a].dense = i THEN <<>> ELSE <<j>>)
                         \o (IF liveB THEN <<>> ELSE <<i>>)]

Become(s) == slots' = s.slots /\ sparse' = s.sparse /\ free' = s.free

Swap(i, j) ==
    /\ ~ Walking
    /\ i # j
    /\ Become(Swapped(Records, i, j))
    /\ Bump
    /\ UNCHANGED <<live, walk>>

(* clear: the registered tombstones stay registered. *)
Clear ==
    /\ ~ Walking
    /\ slots' = <<>>
    /\ sparse' = [i \in Ids |-> Gone]
    /\ live' = 0
    /\ Bump
    /\ UNCHANGED <<free, walk>>

SetInit ==
    /\ slots = <<>>
    /\ sparse = [i \in Ids |-> Gone]
    /\ free = <<>>
    /\ live = 0
    /\ fresh = FALSE
    /\ hot = Cold
    /\ walk = NoWalk

SetTypeOK ==
    /\ slots \in Seq(Slot)
    /\ sparse \in [Ids -> [dense : 0 .. Len(slots), version : 0 .. MaxVersion]]
    /\ free \in Seq(Nat \ {0})
    /\ live \in 0 .. Len(slots)
    /\ fresh \in BOOLEAN
    /\ \A l \in DOMAIN hot : hot[l] # None =>
          hot[l].key \in Handles /\ Line(hot[l].key) = l
=============================================================================
