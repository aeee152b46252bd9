--------------------------- MODULE EntityManager ---------------------------
(***************************************************************************)
(* Entity handles: an index and a version, include/ecs/entity and          *)
(* include/part/id_.hpp.                                                   *)
(*                                                                         *)
(* Indices come from a stack of freed indices or, when it is empty, from a *)
(* counter; a handle is alive while its index is alive and its version is  *)
(* the one of the index, which destruction moves on.  Handles may also be  *)
(* taken out in advance and handed out later.                              *)
(*                                                                         *)
(* Bounds: MaxId indices; a version stops at MaxVersion, where the code    *)
(* goes on to 2^32 and wraps.                                              *)
(***************************************************************************)
EXTENDS Integers, Sequences, SequencesExt

CONSTANTS
    MaxId,          \* indices ever handed out
    MaxVersion      \* bound on the versions of one index

ASSUME MaxIdAssumption == MaxId \in Nat \ {0}
ASSUME MaxVersionAssumption == MaxVersion \in Nat \ {0}

VARIABLES
    alive,      \* alive_: the indices in use
    version,    \* version_v_: the version of each index
    recycled,   \* id_allocation::recycled_ids_
    nextId,     \* id_allocation::next_id_
    reserve     \* preallocated_entities_ not yet handed out

entityVars == <<alive, version, recycled, nextId, reserve>>

Ids == 1 .. MaxId

Handles == [id : Ids, version : 1 .. MaxVersion]

EntityTypeOK ==
    /\ alive \subseteq Ids
    /\ version \in [Ids -> 1 .. MaxVersion]
    /\ recycled \in Seq(Ids)
    /\ nextId \in 0 .. MaxId
    /\ reserve \in Seq(Handles)

EntityInit ==
    /\ alive = {}
    /\ version = [i \in Ids |-> 1]
    /\ recycled = <<>>
    /\ nextId = 0
    /\ reserve = <<>>

IsAlive(e) == e.id \in alive /\ e.version = version[e.id]

(* The last index freed, or one never used. *)
TakeId(i) ==
    \/ /\ recycled # <<>>
       /\ i = Last(recycled)
       /\ recycled' = Front(recycled)
       /\ UNCHANGED nextId
    \/ /\ recycled = <<>>
       /\ nextId < MaxId
       /\ i = nextId + 1
       /\ nextId' = nextId + 1
       /\ UNCHANGED recycled

Preallocate ==
    /\ \E i \in Ids :
          /\ TakeId(i)
          /\ reserve' = Append(reserve, [id |-> i, version |-> version[i]])
    /\ UNCHANGED <<alive, version>>

CreateReserved ==
    /\ reserve # <<>>
    /\ alive' = alive \cup {Head(reserve).id}
    /\ reserve' = Tail(reserve)
    /\ UNCHANGED <<version, recycled, nextId>>

CreateAllocated ==
    /\ reserve = <<>>
    /\ \E i \in Ids : TakeId(i) /\ alive' = alive \cup {i}
    /\ UNCHANGED <<version, reserve>>

(* variant: the version of a freed index stays *)
DestroySameVersion(e) ==
    /\ IsAlive(e)
    /\ version[e.id] < MaxVersion
    /\ alive' = alive \ {e.id}
    /\ recycled' = Append(recycled, e.id)
    /\ UNCHANGED <<version, nextId, reserve>>

Destroy(e) ==
    /\ IsAlive(e)
    /\ version[e.id] < MaxVersion
    /\ alive' = alive \ {e.id}
    /\ version' = [version EXCEPT ![e.id] = @ + 1]
    /\ recycled' = Append(recycled, e.id)
    /\ UNCHANGED <<nextId, reserve>>
=============================================================================
