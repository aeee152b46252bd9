----------------------------- MODULE TimingWheel -----------------------------
(***************************************************************************)
(* The hierarchical timing wheel of include/part/time/timing_wheel.hpp.    *)
(* A timer hangs in the bucket of the tick it expires in, at a level that  *)
(* is the coarser the further away that tick is; when the time comes to    *)
(* the bucket of a coarse level, its timers are spread over finer ones.    *)
(* advance runs the ticks up to a new time and calls back for each timer   *)
(* that has expired; a callback adds and cancels timers itself.            *)
(*                                                                         *)
(* One thread uses a wheel: what makes it hard is the arithmetic of levels *)
(* and slots, jumps of time over several slots, and calls from callbacks   *)
(* in the middle of a slot.                                                *)
(***************************************************************************)
EXTENDS Integers, Sequences, FiniteSets, SequencesExt

CONSTANTS
  Timers,
  Levels,    (* timing_wheel_levels                                        *)
  Slots,     (* timing_wheel_slots                                         *)
  TickNs,    (* timing_wheel_tick_ns                                       *)
  Capacities,(* what a wheel may be created with                           *)
  Starts,    (* times a wheel is created at                                *)
  Delays,    (* what timers are added with                                 *)
  Strides,   (* by how much a call of advance moves the time               *)
  MaxNow,    (* bound on the time                                          *)
  MaxInside, (* bound on the calls a callback makes                        *)
  Idle       (* no timer                                                   *)

WheelAssumption ==
  /\ {Levels, TickNs} \cup Capacities \subseteq Nat \ {0} /\ Slots \in Nat /\ Slots > 1
  /\ Starts \cup Delays \cup Strides \cup {MaxNow, MaxInside} \subseteq Nat
  /\ Idle \notin Timers

VARIABLES
  buckets, (* buckets_: the timers of each slot, the head first            *)
  now,     (* now_ns_                                                      *)
  tick,    (* current_tick_, the next to be processed                      *)
  active,  (* the timers whose active_ is set                              *)
  expire,  (* expire_ns_ of each active timer; that of another is not read *)
  size,    (* count_                                                       *)
  capacity,(* capacity_                                                    *)
  level,   (* the level advance is at; Levels outside of advance           *)
  chain,   (* the timers of the slot it has taken and not looked at        *)
  calling, (* the timer whose callback runs, or Idle                       *)
  inside   (* history: the calls this callback has made                    *)

vars == <<buckets, now, tick, active, expire, size, capacity, level, chain, calling,
          inside>>

Advancing == level < Levels
SlotsAt(l) == Slots ^ l         (* the ticks that a slot of level l covers *)

Init ==
  /\ \E t \in Starts : now = t /\ tick = t \div TickNs + 1
  /\ buckets = [l \in 0..Levels-1 |-> [s \in 0..Slots-1 |-> << >>]]
  /\ active = {} /\ size = 0 /\ capacity \in Capacities
  /\ expire = [n \in Timers |-> 0]
  /\ level = Levels /\ chain = << >> /\ calling = Idle /\ inside = 0

-----------------------------------------------------------------------------
(* link *)

(* level_of: the finest level whose slots reach that far, or the coarsest. *)
LevelOf(delay) ==
  CHOOSE l \in 0..Levels-1 :
    /\ delay < SlotsAt(l + 1) \/ l = Levels - 1
    /\ \A k \in 0..l-1 : delay >= SlotsAt(k + 1)

(* variant: a timer expires in the tick its time falls into, not the next *)
ExpireTickSame(e) == e \div TickNs

ExpireTick(e) == e \div TickNs + 1

Link(n, e) ==
  LET delay == IF ExpireTick(e) > tick THEN ExpireTick(e) - tick ELSE 1
      l == LevelOf(delay)
  IN  buckets' = [buckets EXCEPT ![l][(ExpireTick(e) \div SlotsAt(l)) % Slots] = <<n>> \o @]

-----------------------------------------------------------------------------
(* add and cancel, from outside of advance or from a callback *)

Calls ==
  \/ ~Advancing /\ UNCHANGED inside
  \/ calling # Idle /\ inside < MaxInside /\ inside' = inside + 1

Leave(n) ==
  /\ active' = active \ {n}
  /\ expire' = [expire EXCEPT ![n] = 0]
  /\ size' = IF size > 0 THEN size - 1 ELSE 0

Add(n, delay) ==
  /\ Calls
  /\ n \notin active /\ size < capacity
  /\ expire' = [expire EXCEPT ![n] = now + delay]
  /\ active' = active \cup {n}
  /\ Link(n, now + delay)
  /\ size' = size + 1
  /\ UNCHANGED <<now, tick, capacity, level, chain, calling>>

(* The timer is taken out of its bucket, or out of the slot advance is     *)
(* working on.  process_slot has already noted the next timer of the slot: *)
(* a callback that cancels that one breaks the chain (README), and here    *)
(* none does.                                                              *)
Cancel(n) ==
  /\ Calls
  /\ n \in active
  /\ chain # << >> => n # Head(chain)
  /\ buckets' = [l \in DOMAIN buckets |->
                   [s \in DOMAIN buckets[l] |-> SelectSeq(buckets[l][s], LAMBDA m : m # n)]]
  /\ chain' = SelectSeq(chain, LAMBDA m : m # n)
  /\ Leave(n)
  /\ UNCHANGED <<now, tick, capacity, level, calling>>

-----------------------------------------------------------------------------
(* advance *)

(* process_slot takes the whole slot of a level. *)
TakeSlot(l, t) ==
  LET slot == (t \div SlotsAt(l)) % Slots
  IN  /\ chain' = buckets[l][slot]
      /\ buckets' = [buckets EXCEPT ![l][slot] = << >>]
      /\ level' = l

NothingTaken == level' = Levels /\ chain' = << >> /\ UNCHANGED buckets

Advance(stride) ==
  /\ ~Advancing /\ stride > 0 /\ now + stride <= MaxNow
  /\ now' = now + stride
  /\ IF tick <= now' \div TickNs THEN TakeSlot(0, tick) ELSE NothingTaken
  /\ UNCHANGED <<tick, active, expire, size, capacity, calling, inside>>

(* The next timer of the slot has expired: it is called back. *)
Fire ==
  /\ Advancing /\ calling = Idle /\ chain # << >>
  /\ expire[Head(chain)] <= now
  /\ calling' = Head(chain) /\ inside' = 0
  /\ chain' = Tail(chain)
  /\ Leave(Head(chain))
  /\ UNCHANGED <<buckets, now, tick, capacity, level>>

Return ==
  /\ calling # Idle /\ calling' = Idle /\ inside' = 0
  /\ UNCHANGED <<buckets, now, tick, active, expire, size, capacity, level, chain>>

(* It has not: it is linked anew, at a finer level. *)
Spread ==
  /\ Advancing /\ calling = Idle /\ chain # << >>
  /\ expire[Head(chain)] > now
  /\ Link(Head(chain), expire[Head(chain)])
  /\ chain' = Tail(chain)
  /\ UNCHANGED <<now, tick, active, expire, size, capacity, level, calling, inside>>

(* A coarser level has its turn in the ticks that begin one of its slots;  *)
(* after the last level the next tick does, unless the time is reached.    *)
NextSlot ==
  /\ Advancing /\ calling = Idle /\ chain = << >>
  /\ LET due == {l \in level+1..Levels-1 : tick % SlotsAt(l) = 0}
     IN  IF due # {}
           THEN TakeSlot(CHOOSE l \in due : \A k \in due : l <= k, tick) /\ UNCHANGED tick
           ELSE /\ tick' = tick + 1
                /\ IF tick' <= now \div TickNs THEN TakeSlot(0, tick') ELSE NothingTaken
  /\ UNCHANGED <<now, active, expire, size, capacity, calling, inside>>

Next ==
  \/ \E n \in Timers : Cancel(n) \/ \E delay \in Delays : Add(n, delay)
  \/ \E stride \in Strides : Advance(stride)
  \/ Fire \/ Return \/ Spread \/ NextSlot

-----------------------------------------------------------------------------
(* Where a timer hangs, how often. *)
Hangs(n) ==
  {at \in (0..Levels-1) \X (0..Slots-1) \X (1..Cardinality(Timers)) :
     LET bucket == buckets[at[1]][at[2]] IN at[3] \in DOMAIN bucket /\ bucket[at[3]] = n}

(* count_ is the number of active timers; each of them hangs in one place, *)
(* or waits in the slot that is being processed, and no other timer hangs  *)
(* anywhere; and when advance returns, nobody is overdue by a tick: a      *)
(* timer that has expired by then is called back.                          *)
NobodyOverdue ==
  /\ size = Cardinality(active)
  /\ \A n \in Timers :
       Cardinality(Hangs(n)) = IF n \in active \ ToSet(chain) THEN 1 ELSE 0
  /\ ToSet(chain) \subseteq active
  /\ ~Advancing => \A n \in active : expire[n] \div TickNs + 1 >= tick
  /\ ~Advancing => tick = now \div TickNs + 1
=============================================================================
