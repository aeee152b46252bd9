----------------------------- MODULE IndexPool -----------------------------
(***************************************************************************)
(* The lock-free free list of include/part/index_pool.hpp, which the pools *)
(* of jobs, coroutine frames and IO requests take their slots from.  The   *)
(* first free index and a generation share one word; every CAS on it moves *)
(* the generation, so that a thread that was overtaken between its look at *)
(* the list and its CAS fails even when the same index is first again.     *)
(***************************************************************************)
EXTENDS Integers, FiniteSets

CONSTANTS
  Users,    (* threads that allocate and release                           *)
  Size,     (* capacity_                                                   *)
  NoIndex,  (* none                                                        *)
  MaxCalls  (* bound on the calls of a behaviour                           *)

PoolAssumption ==
  /\ Size \in Nat \ {0} /\ MaxCalls \in Nat /\ IsFiniteSet(Users)
  /\ NoIndex \notin 0..Size-1

VARIABLES
  first,  (* head_: the first free index and the generation                *)
  next,   (* next_, the rest of the free list                              *)
  live,   (* live_: the indices handed out                                 *)
  free,   (* count_                                                        *)
  step,   (* what each thread does next                                    *)
  seen,   (* the head_ each thread has loaded                              *)
  after,  (* the next_ an allocation has read                              *)
  giving, (* the index a thread releases                                   *)
  held,   (* history: the indices each thread has been given               *)
  calls   (* history: how many calls there have been                       *)

vars == <<first, next, live, free, step, seen, after, giving, held, calls>>

Indices == 0..Size-1

(* variant: without the generation *)
PackUntagged(i, g) == [index |-> i, tag |-> 0]

(* The number none + 1 does not fit into the lower half of the word: its   *)
(* carry sets the lowest bit of the generation.                            *)
Pack(i, g) == [index |-> i, tag |-> IF i = NoIndex /\ g % 2 = 0 THEN g + 1 ELSE g]

Init ==
  /\ first = Pack(0, 0)
  /\ next = [i \in Indices |-> IF i + 1 < Size THEN i + 1 ELSE NoIndex]
  /\ live = {} /\ free = Size
  /\ step = [t \in Users |-> "idle"]
  /\ seen = [t \in Users |-> first]
  /\ after = [t \in Users |-> NoIndex]
  /\ giving = [t \in Users |-> NoIndex]
  /\ held = [t \in Users |-> {}]
  /\ calls = 0

Go(t, from, to) == step[t] = from /\ step' = [step EXCEPT ![t] = to]

Call(t, to) ==
  /\ calls < MaxCalls /\ calls' = calls + 1
  /\ Go(t, "idle", to)

-----------------------------------------------------------------------------
(* allocate *)

Allocate(t) ==
  /\ Call(t, "look")
  /\ seen' = [seen EXCEPT ![t] = first]
  /\ UNCHANGED <<first, next, live, free, after, giving, held>>

(* The list is empty: allocate returns false. *)
Exhausted(t) ==
  /\ seen[t].index = NoIndex
  /\ Go(t, "look", "idle")
  /\ UNCHANGED <<first, next, live, free, seen, after, giving, held, calls>>

Follow(t) ==
  /\ seen[t].index # NoIndex
  /\ Go(t, "look", "take")
  /\ after' = [after EXCEPT ![t] = next[seen[t].index]]
  /\ UNCHANGED <<first, next, live, free, seen, giving, held, calls>>

(* From here on the index is the thread's. *)
Take(t) ==
  /\ first = seen[t]
  /\ Go(t, "take", "mark")
  /\ first' = Pack(after[t], first.tag + 1)
  /\ held' = [held EXCEPT ![t] = @ \cup {seen[t].index}]
  /\ UNCHANGED <<next, live, free, seen, after, giving, calls>>

TakeLost(t) ==
  /\ first # seen[t]
  /\ Go(t, "take", "look")
  /\ seen' = [seen EXCEPT ![t] = first]
  /\ UNCHANGED <<first, next, live, free, after, giving, held, calls>>

Mark(t) ==
  /\ Go(t, "mark", "taken")
  /\ live' = live \cup {seen[t].index}
  /\ UNCHANGED <<first, next, free, seen, after, giving, held, calls>>

CountTaken(t) ==
  /\ Go(t, "taken", "idle")
  /\ free' = free - 1
  /\ UNCHANGED <<first, next, live, seen, after, giving, held, calls>>

-----------------------------------------------------------------------------
(* release, of an index that any thread has been given, as a job is        *)
(* released by the worker that ran it; or once more, of one that nobody    *)
(* holds, which the bit in live_ stops                                     *)

Returned(t) == held[t] \ (IF step[t] \in {"mark", "taken"} THEN {seen[t].index} ELSE {})

Release(t, i) ==
  /\ \E u \in Users : i \in Returned(u)
  /\ Call(t, "load")
  /\ live' = live \ {i}
  /\ held' = [u \in Users |-> held[u] \ {i}]
  /\ giving' = [giving EXCEPT ![t] = i]
  /\ UNCHANGED <<first, next, free, seen, after>>

ReleaseAgain(t, i) ==
  /\ i \notin live /\ \A u \in Users : i \notin held[u]
  /\ Call(t, "idle")
  /\ UNCHANGED <<first, next, live, free, seen, after, giving, held>>

Load(t) ==
  /\ Go(t, "load", "link")
  /\ seen' = [seen EXCEPT ![t] = first]
  /\ UNCHANGED <<first, next, live, free, after, giving, held, calls>>

Link(t) ==
  /\ Go(t, "link", "give")
  /\ next' = [next EXCEPT ![giving[t]] = seen[t].index]
  /\ UNCHANGED <<first, live, free, seen, after, giving, held, calls>>

Give(t) ==
  /\ first = seen[t]
  /\ Go(t, "give", "given")
  /\ first' = Pack(giving[t], first.tag + 1)
  /\ UNCHANGED <<next, live, free, seen, after, giving, held, calls>>

GiveLost(t) ==
  /\ first # seen[t]
  /\ Go(t, "give", "link")
  /\ seen' = [seen EXCEPT ![t] = first]
  /\ UNCHANGED <<first, next, live, free, after, giving, held, calls>>

CountGiven(t) ==
  /\ Go(t, "given", "idle")
  /\ free' = free + 1
  /\ giving' = [giving EXCEPT ![t] = NoIndex]
  /\ UNCHANGED <<first, next, live, seen, after, held, calls>>

(* The bound is reached and every call has returned. *)
Finished ==
  /\ calls = MaxCalls /\ \A t \in Users : step[t] = "idle"
  /\ UNCHANGED vars

User(t) ==
  \/ Allocate(t) \/ Exhausted(t) \/ Follow(t) \/ Take(t) \/ TakeLost(t)
  \/ Mark(t) \/ CountTaken(t)
  \/ \E i \in Indices : Release(t, i) \/ ReleaseAgain(t, i)
  \/ Load(t) \/ Link(t) \/ Give(t) \/ GiveLost(t) \/ CountGiven(t)

Next == Finished \/ \E t \in Users : User(t)

-----------------------------------------------------------------------------
(* The index k places down the free list. *)
Walk[k \in 0..Size] ==
  IF k = 0 THEN first.index
  ELSE IF Walk[k-1] = NoIndex THEN NoIndex ELSE next[Walk[k-1]]

Listed == {Walk[k] : k \in 0..Size} \ {NoIndex}

(* Released and not on the list yet. *)
Between == {giving[t] : t \in {u \in Users : step[u] \in {"load", "link", "give"}}}

(* No index is in two hands; the free list ends, and has every index that  *)
(* nobody holds and nobody is giving back, and no other; at rest count_    *)
(* and live_ agree with it.                                                *)
HandedOutOnce ==
  /\ \A t, u \in Users : t # u => held[t] \cap held[u] = {}
  /\ Walk[Size] = NoIndex
  /\ Listed = Indices \ (Between \cup UNION {held[t] : t \in Users})
  /\ (\A t \in Users : step[t] = "idle") =>
       free = Cardinality(Listed) /\ live = Indices \ Listed
=============================================================================
