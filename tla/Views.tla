------------------------------- MODULE Views -------------------------------
(***************************************************************************)
(* What joins two component types: multi_view, include/ecs/view/           *)
(* multi_view.hpp, and the three groups, include/ecs/group.  Each keeps    *)
(* where the entities with both components have them, and finds out anew   *)
(* when the version of a set is not the one it has noted.                  *)
(*                                                                         *)
(* The first type is the one World has.  The second is only removed hard,  *)
(* so its set is a sequence of handles, without tombstones.  One observer  *)
(* is opened in a behaviour; both types have been used before it is.       *)
(***************************************************************************)
EXTENDS World

VARIABLES
    second,         \* the set of the second type, slot by slot
    view            \* the observer: the set that leads and the rows it hands out

viewVars == <<second, view>>
allVars == <<vars, viewVars>>

Kinds == {"multi", "group", "owning"}
NoView == [kind |-> "none", leader |-> "first", rows |-> <<>>]

ViewInit == second = <<>> /\ view = NoView

(* Rows out of date are handed out no more, and left out. *)
KeepRows == view' = IF fresh' THEN view ELSE [view EXCEPT !.rows = <<>>]

(* The slot of the second type that index i has, or Invalid. *)
InSecond(i) == {k \in DOMAIN second : second[k].id = i}
SecondAt(i) == IF InSecond(i) = {} THEN Invalid ELSE CHOOSE k \in InSecond(i) : TRUE

-----------------------------------------------------------------------------
(* The second component *)

WithoutSecond(e) ==
    LET k == SecondAt(e.id)
    IN  IF k = Invalid THEN second ELSE Front([second EXCEPT ![k] = Last(second)])

AddSecond(e) ==
    /\ MayMake("second")
    /\ IsAlive(e)
    /\ second' = IF SecondAt(e.id) = Invalid THEN Append(second, e) ELSE second
    /\ Outdate /\ KeepRows
    /\ UNCHANGED <<entityVars, worldVars, slots, sparse, free, live, hot, walk>>

RemoveSecond(e) ==
    /\ MayMake("second")
    /\ IsAlive(e) /\ SecondAt(e.id) # Invalid
    /\ second' = WithoutSecond(e)
    /\ Outdate /\ KeepRows
    /\ UNCHANGED <<entityVars, worldVars, slots, sparse, free, live, hot, walk>>

(* delete_entity takes both components away. *)
DeleteBoth(e) ==
    /\ Delete(e, SecondAt(e.id) # Invalid)
    /\ second' = WithoutSecond(e)
    /\ KeepRows

-----------------------------------------------------------------------------
(* The observer *)

Row(a, b) == [first |-> a, second |-> b]

(* The smaller set leads, by its slots, tombstones included. *)
Smallest == IF Len(slots) <= Len(second) THEN "first" ELSE "second"

(* variant: the entry of a tombstone will do *)
BothByIndex(kind, i) == SecondAt(i) # Invalid

(* multi_view compares the versions of the two entries of an index, where  *)
(* a group asks the masks of the entity.                                   *)
Both(kind, i) ==
    IF kind = "multi"
        THEN SecondAt(i) # Invalid /\ sparse[i].version = second[SecondAt(i)].version
        ELSE i \in mask /\ SecondAt(i) # Invalid

(* The slots of equal place are of the same entities, as far as the leader *)
(* goes, and none is a tombstone.                                          *)
Aligned(leader) ==
    LET n == IF leader = "first" THEN Len(slots) ELSE Len(second)
    IN  /\ free = <<>>
        /\ n <= Len(slots) /\ n <= Len(second)
        /\ \A i \in 1 .. n : slots[i].id = second[i].id

(* The numbers of S in increasing order. *)
InOrder(S) ==
    CHOOSE f \in [1 .. Cardinality(S) -> S] :
        Range(f) = S /\ \A m, n \in DOMAIN f : m < n => f[m] < f[n]

(* rebuild of a group, and rebuild_mappings. *)
RowsOf(kind, leader) ==
    LET firsts == InOrder({i \in DOMAIN slots : Both(kind, slots[i].id)})
        seconds == InOrder({k \in DOMAIN second : Both(kind, second[k].id)})
    IN  IF kind = "multi" /\ Aligned(leader)
            THEN [i \in DOMAIN (IF leader = "first" THEN slots ELSE second) |-> Row(i, i)]
        ELSE IF leader = "first"
            THEN [n \in DOMAIN firsts |-> Row(firsts[n], SecondAt(slots[firsts[n]].id))]
        ELSE [n \in DOMAIN seconds |-> Row(sparse[second[seconds[n]].id].dense, seconds[n])]

(* compact_primary: each slot that belongs to the group changes places     *)
(* with the first that does not.                                           *)
PackFirst(acc, i) ==
    IF ~ Both("owning", acc.to.slots[i].id) THEN acc
    ELSE [to |-> IF i = acc.owned + 1 THEN acc.to ELSE Swapped(acc.to, i, acc.owned + 1),
          owned |-> acc.owned + 1]

PackSecond(acc, k) ==
    IF ~ Both("owning", acc.to[k].id) THEN acc
    ELSE [to |-> [acc.to EXCEPT ![k] = acc.to[acc.owned + 1], ![acc.owned + 1] = acc.to[k]],
          owned |-> acc.owned + 1]

PackedFirst[i \in 0 .. Len(slots)] ==
    IF i = 0 THEN [to |-> Records, owned |-> 0] ELSE PackFirst(PackedFirst[i - 1], i)

PackedSecond[k \in 0 .. Len(second)] ==
    IF k = 0 THEN [to |-> second, owned |-> 0] ELSE PackSecond(PackedSecond[k - 1], k)

(* With discipline no observer looks while a tombstone's entity has the    *)
(* component in another slot: it would name the entity twice.              *)
Orderly == plan.disciplined => \A t \in Tombstones : sparse[slots[t].id].dense = Invalid

Show(kind, leader, rows) == view' = [kind |-> kind, leader |-> leader, rows |-> rows]

(* An owning group moves the members in the leading set to its front, and  *)
(* moves that set's version before it notes it.                            *)
Rebuild(kind, leader) ==
    /\ Orderly
    /\ CASE kind # "owning" ->
                /\ Show(kind, leader, RowsOf(kind, leader))
                /\ UNCHANGED <<slots, sparse, free, hot, second>>
          [] kind = "owning" /\ leader = "first" ->
                LET p == PackedFirst[Len(slots)]
                IN  /\ Len(p.to.free) <= plan.free
                    /\ Become(p.to)
                    /\ hot' = Cold
                    /\ Show(kind, leader, [i \in 1 .. p.owned |-> Row(i, SecondAt(p.to.slots[i].id))])
                    /\ UNCHANGED second
          [] OTHER ->
                LET p == PackedSecond[Len(second)]
                IN  /\ second' = p.to
                    /\ Show(kind, leader, [k \in 1 .. p.owned |-> Row(sparse[p.to[k].id].dense, k)])
                    /\ UNCHANGED <<slots, sparse, free, hot>>
    /\ fresh' = TRUE
    /\ UNCHANGED <<entityVars, worldVars, live, walk>>

(* A group is built with its rows; multi_view finds them when first used,  *)
(* and its leader stays the one it was made with, as the groups' does.     *)
Open(kind) ==
    /\ MayMake(kind) /\ view = NoView
    /\ IF kind = "multi"
          THEN /\ Show(kind, Smallest, <<>>)
               /\ fresh' = FALSE
               /\ UNCHANGED <<entityVars, worldVars, slots, sparse, free, live, hot, walk, second>>
          ELSE walk = NoWalk /\ Rebuild(kind, Smallest)

(* for_each, size, contains: what is noted is made good first. *)
Look ==
    /\ view # NoView /\ walk = NoWalk
    /\ ~ fresh
    /\ Rebuild(view.kind, view.leader)

Looks == Look \/ \E kind \in Kinds : Open(kind)

Seconds == \E e \in Handles : AddSecond(e) \/ RemoveSecond(e) \/ DeleteBoth(e)

ViewNext == (FirstOnly /\ KeepRows /\ UNCHANGED second) \/ Seconds \/ Looks

ViewSpec == Init /\ ViewInit /\ [][ViewNext]_allVars

-----------------------------------------------------------------------------

ViewTypeOK ==
    /\ second \in Seq(Handles)
    /\ view # NoView => view.kind \in Kinds /\ view.leader \in {"first", "second"}

(* An observer that need not look again names each entity that has both    *)
(* components exactly once, with the slots its components are in: nothing  *)
(* moves a component without moving the version of its set.                *)
ViewExact ==
    /\ ViewTypeOK
    /\ view # NoView /\ fresh =>
          /\ {view.rows[r] : r \in DOMAIN view.rows}
                = {Row(SparseLookup(e), SecondAt(e.id)) : e \in {f \in Range(second) : Holds(f)}}
          /\ IsInjective(view.rows)
=============================================================================
