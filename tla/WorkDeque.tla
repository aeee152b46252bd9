----------------------------- MODULE WorkDeque -----------------------------
(***************************************************************************)
(* The work-stealing deque of include/thread/queue/work_deque.hpp: one     *)
(* owner pushes and pops at the bottom, any number of thieves take batches *)
(* from the top with a single compare-and-swap, and the owner doubles the  *)
(* buffer when it fills up.  Retired buffers stay readable until the deque *)
(* is destroyed, so a thief may copy out of one.                           *)
(*                                                                         *)
(* One action is one access to top_, bottom_, buffer_ or a slot.  The      *)
(* accesses are sequentially consistent here: the seq_cst fences of pop    *)
(* and steal order the pairs the algorithm depends on.                     *)
(***************************************************************************)
EXTENDS Integers, Sequences, FiniteSets

CONSTANTS
  Owner,        (* the worker that owns the deque                          *)
  Thieves,      (* the workers that steal from it                          *)
  Jobs,         (* the jobs pushed, each at most once                      *)
  None,         (* the null job pointer                                    *)
  InitCapacity, (* capacity of the first buffer, a power of two            *)
  MaxGrow,      (* how often the buffer may double (bound)                 *)
  MaxCount      (* max_count a thief passes to steal                       *)

ASSUME DequeAssumption ==
  /\ Owner \notin Thieves
  /\ None \notin Jobs
  /\ InitCapacity \in Nat /\ InitCapacity >= 2
  /\ MaxGrow \in Nat
  /\ MaxCount \in Nat \ {0}

VARIABLES
  top,          (* top_: the next position a thief takes                   *)
  bottom,       (* bottom_: one past the position pushed last              *)
  gen,          (* which buffer buffer_ points to: 0 is the first          *)
  capacity,     (* capacity[g]: slots of the g-th buffer, 0 until it is made *)
  slots,        (* slots[g][i]: slot i of the g-th buffer                  *)
  pc,           (* what each worker does next                              *)
  arg,          (* the job the owner is pushing, or the one it has read    *)
  seenTop,      (* the value of top_ each worker loaded last               *)
  seenBottom,   (* the value of bottom_ each thief loaded last             *)
  seenGen,      (* the buffer each thief loaded last                       *)
  copied,       (* the jobs each thief has copied so far                   *)
  unpushed,     (* jobs still in the hands of the owner                    *)
  taken         (* taken[j]: how often pop or steal has returned j         *)

ownerVars == <<arg, unpushed>>
thiefVars == <<seenBottom, seenGen, copied>>
bufferVars == <<gen, capacity, slots>>
vars == <<top, bottom, gen, capacity, slots, pc, arg, seenTop, seenBottom, seenGen,
          copied, unpushed, taken>>

Workers   == Thieves \cup {Owner}
Gens      == 0..MaxGrow
Slot(g, i)  == i % capacity[g]
At(g, i)    == slots[g][Slot(g, i)]

Least(a, b) == IF a <= b THEN a ELSE b

Goto(w, from, to) == pc[w] = from /\ pc' = [pc EXCEPT ![w] = to]

Init ==
  /\ top = 0 /\ bottom = 0 /\ gen = 0
  /\ capacity = [g \in Gens |-> IF g = 0 THEN InitCapacity ELSE 0]
  /\ slots = [g \in Gens |-> [i \in 0..capacity[g]-1 |-> None]]
  /\ pc = [w \in Workers |-> "idle"]
  /\ arg = None
  /\ seenTop = [w \in Workers |-> 0]
  /\ seenBottom = [t \in Thieves |-> 0]
  /\ seenGen = [t \in Thieves |-> 0]
  /\ copied = [t \in Thieves |-> << >>]
  /\ unpushed = Jobs
  /\ taken = [j \in Jobs |-> 0]

-----------------------------------------------------------------------------
(* The owner: push *)

(* One slot stays free: a buffer of capacity c holds at most c - 1 jobs. *)
Full(t) == bottom - t + 1 >= capacity[gen]

(* Jobs are interchangeable: they are pushed in one order. *)
Push(j) ==
  /\ unpushed # {} /\ j = CHOOSE k \in unpushed : TRUE
  /\ Goto(Owner, "idle", IF Full(top) THEN "grow" ELSE "store")
  /\ arg' = j
  /\ UNCHANGED <<top, bottom, bufferVars, seenTop, thiefVars, unpushed, taken>>

(* The slots of a new buffer of c slots after the given positions have     *)
(* been copied into it.                                                    *)
CopyOf(positions, c) ==
  [i \in 0..c-1 |->
     IF \E p \in positions : p % c = i
       THEN At(gen, CHOOSE p \in positions : p % c = i)
       ELSE None]

(* variant: the copy stops one short *)
GrowCopyShort ==
  /\ gen < MaxGrow
  /\ Goto(Owner, "grow", "publish_buffer")
  /\ capacity' = [capacity EXCEPT ![gen + 1] = 2 * capacity[gen]]
  /\ slots' = [slots EXCEPT ![gen + 1] = CopyOf(top..bottom-2, 2 * capacity[gen])]
  /\ UNCHANGED <<top, bottom, gen, seenTop, ownerVars, thiefVars, taken>>

(* grow() copies the live range into a private buffer of twice the size... *)
GrowCopy ==
  /\ gen < MaxGrow
  /\ Goto(Owner, "grow", "publish_buffer")
  /\ capacity' = [capacity EXCEPT ![gen + 1] = 2 * capacity[gen]]
  /\ slots' = [slots EXCEPT ![gen + 1] = CopyOf(top..bottom-1, 2 * capacity[gen])]
  /\ UNCHANGED <<top, bottom, gen, seenTop, ownerVars, thiefVars, taken>>

(* ... and publishes it; push then checks again whether there is room. *)
GrowPublish ==
  /\ Goto(Owner, "publish_buffer", "recheck")
  /\ gen' = gen + 1
  /\ UNCHANGED <<top, bottom, capacity, slots, seenTop, ownerVars, thiefVars, taken>>

PushRecheck ==
  /\ Goto(Owner, "recheck", IF Full(top) THEN "grow" ELSE "store")
  /\ UNCHANGED <<top, bottom, bufferVars, seenTop, ownerVars, thiefVars, taken>>

(* At the largest capacity, or when the allocation fails, push gives up:   *)
(* the job stays with the caller.                                          *)
PushDrop ==
  /\ Goto(Owner, "grow", "idle")
  /\ arg' = None
  /\ UNCHANGED <<top, bottom, bufferVars, seenTop, thiefVars, unpushed, taken>>

PushStore ==
  /\ Goto(Owner, "store", "publish")
  /\ slots' = [slots EXCEPT ![gen][Slot(gen, bottom)] = arg]
  /\ UNCHANGED <<top, bottom, gen, capacity, seenTop, ownerVars, thiefVars, taken>>

PushPublish ==
  /\ Goto(Owner, "publish", "idle")
  /\ bottom' = bottom + 1
  /\ unpushed' = unpushed \ {arg}
  /\ arg' = None
  /\ UNCHANGED <<top, bufferVars, seenTop, thiefVars, taken>>

-----------------------------------------------------------------------------
(* The owner: pop *)

Deliver(js) == taken' = [j \in Jobs |->
                 taken[j] + Cardinality({i \in DOMAIN js : js[i] = j})]

PopReserve ==
  /\ Goto(Owner, "idle", "pop")
  /\ bottom' = bottom - 1
  /\ UNCHANGED <<top, bufferVars, seenTop, ownerVars, thiefVars, taken>>

(* More than one job is left: the owner takes the last without a CAS. *)
PopTake ==
  /\ top < bottom
  /\ Goto(Owner, "pop", "idle")
  /\ Deliver(<<At(gen, bottom)>>)
  /\ UNCHANGED <<top, bottom, bufferVars, seenTop, ownerVars, thiefVars>>

(* Exactly one is left: the owner competes for it with the thieves. *)
PopLast ==
  /\ top = bottom
  /\ Goto(Owner, "pop", "pop_cas")
  /\ arg' = At(gen, bottom)
  /\ seenTop' = [seenTop EXCEPT ![Owner] = top]
  /\ UNCHANGED <<top, bottom, bufferVars, thiefVars, unpushed, taken>>

PopEmpty ==
  /\ top > bottom
  /\ Goto(Owner, "pop", "restore")
  /\ UNCHANGED <<top, bottom, bufferVars, seenTop, ownerVars, thiefVars, taken>>

(* variant: the owner keeps the last job without winning it *)
PopCasUnchecked ==
  /\ Goto(Owner, "pop_cas", "restore")
  /\ arg' = None
  /\ Deliver(<<arg>>)
  /\ top' = IF top = seenTop[Owner] THEN top + 1 ELSE top
  /\ UNCHANGED <<bottom, bufferVars, seenTop, thiefVars, unpushed>>

PopCas ==
  /\ Goto(Owner, "pop_cas", "restore")
  /\ arg' = None
  /\ IF top = seenTop[Owner]
       THEN top' = top + 1 /\ Deliver(<<arg>>)
       ELSE UNCHANGED <<top, taken>>
  /\ UNCHANGED <<bottom, bufferVars, seenTop, thiefVars, unpushed>>

PopRestore ==
  /\ Goto(Owner, "restore", "idle")
  /\ bottom' = bottom + 1
  /\ UNCHANGED <<top, bufferVars, seenTop, ownerVars, thiefVars, taken>>

-----------------------------------------------------------------------------
(* A thief: steal *)

(* Half of what is there, at most a quarter of the buffer (when that is at *)
(* least one slot) and at most max_count, but never less than one.         *)
Wanted(avail, cap) ==
  LET half    == avail \div 2
      quarter == cap \div 4
      batch   == Least(IF quarter > 0 THEN Least(half, quarter) ELSE half,
                       MaxCount)
  IN  IF batch < 1 THEN 1 ELSE batch

Batch(t) == Wanted(seenBottom[t] - seenTop[t], capacity[seenGen[t]])

StealTop(t) ==
  /\ Goto(t, "idle", "bottom")
  /\ seenTop' = [seenTop EXCEPT ![t] = top]
  /\ UNCHANGED <<top, bottom, bufferVars, ownerVars, thiefVars, taken>>

StealBottom(t) ==
  /\ Goto(t, "bottom", IF seenTop[t] >= bottom THEN "idle" ELSE "buffer")
  /\ seenBottom' = [seenBottom EXCEPT ![t] = bottom]
  /\ UNCHANGED <<top, bottom, bufferVars, seenTop, seenGen, copied, ownerVars,
                 taken>>

StealBuffer(t) ==
  /\ Goto(t, "buffer", "copy")
  /\ seenGen' = [seenGen EXCEPT ![t] = gen]
  /\ copied' = [copied EXCEPT ![t] = << >>]
  /\ UNCHANGED <<top, bottom, bufferVars, seenTop, seenBottom, ownerVars, taken>>

StealCopy(t) ==
  /\ Len(copied[t]) < Batch(t)
  /\ Goto(t, "copy", IF Len(copied[t]) + 1 = Batch(t) THEN "cas" ELSE "copy")
  /\ copied' = [copied EXCEPT ![t] =
                  Append(@, At(seenGen[t], seenTop[t] + Len(@)))]
  /\ UNCHANGED <<top, bottom, bufferVars, seenTop, seenBottom, seenGen,
                 ownerVars, taken>>

(* variant: top_ is advanced without comparing *)
StealAdd(t) ==
  /\ Goto(t, "cas", "idle")
  /\ top' = top + Batch(t)
  /\ Deliver(copied[t])
  /\ UNCHANGED <<bottom, bufferVars, seenTop, thiefVars, ownerVars>>

StealCas(t) ==
  /\ Goto(t, "cas", "idle")
  /\ IF top = seenTop[t]
       THEN top' = top + Batch(t) /\ Deliver(copied[t])
       ELSE UNCHANGED <<top, taken>>
  /\ UNCHANGED <<bottom, bufferVars, seenTop, thiefVars, ownerVars>>

-----------------------------------------------------------------------------
OwnerStep == \/ GrowCopy \/ GrowPublish \/ PushRecheck \/ PushDrop
             \/ PushStore \/ PushPublish
             \/ PopTake \/ PopLast \/ PopEmpty \/ PopCas \/ PopRestore

Steal(t) == \/ StealTop(t) \/ StealBottom(t) \/ StealBuffer(t)
            \/ StealCopy(t) \/ StealCas(t)

Next == \/ \E j \in Jobs : Push(j)
        \/ PopReserve
        \/ OwnerStep
        \/ \E t \in Thieves : Steal(t)

Spec == Init /\ [][Next]_vars

(* An operation the owner began is finished, and the thieves keep trying:  *)
(* worker::run_loop never leaves a deque call and steals in every round.   *)
FairSpec == Spec /\ WF_vars(OwnerStep) /\ \A t \in Thieves : WF_vars(Steal(t))

-----------------------------------------------------------------------------
(* Properties *)

TypeOK ==
  /\ top \in Nat /\ bottom \in Nat \cup {-1} /\ gen \in Gens
  /\ capacity \in [Gens -> Nat] /\ DOMAIN slots = Gens
  /\ \A g \in Gens : slots[g] \in [0..capacity[g]-1 -> Jobs \cup {None}]
  /\ arg \in Jobs \cup {None}
  /\ seenTop \in [Workers -> Nat]
  /\ seenBottom \in [Thieves -> Int] /\ seenGen \in [Thieves -> Gens]
  /\ copied \in [Thieves -> Seq(Jobs \cup {None})]
  /\ unpushed \subseteq Jobs
  /\ taken \in [Jobs -> Nat]

(* A job is handed to at most one worker, once: pop and steal never both   *)
(* return it, nor do two thieves (every job runs exactly once).            *)
NoDoubleTake == \A j \in Jobs : taken[j] <= 1

(* bottom_ as pop found it: until it has decided, pop has not taken the    *)
(* job it reserved.                                                        *)
LogicalBottom ==
  IF pc[Owner] \in {"pop", "pop_cas", "restore"} THEN bottom + 1 ELSE bottom

Live == [i \in 1..(LogicalBottom - top) |-> At(gen, top + i - 1)]

(* No job is lost: a job that push accepted is in the live range of the    *)
(* buffer in use until pop or steal returns it, across every growth.       *)
NoLoss == \A j \in Jobs \ unpushed :
            taken[j] = 0 => \E i \in DOMAIN Live : Live[i] = j

(* The window never inverts: top_ never passes what the owner published.   *)
(* A deque whose top_ has run ahead of bottom_ swallows the next pushes.   *)
NoOvershoot == top <= LogicalBottom

(* A job that push accepted is returned by pop or steal exactly once.      *)
ExactlyOnce == TypeOK /\ NoDoubleTake /\ NoLoss /\ NoOvershoot

(* While thieves keep trying, a job the owner has pushed and forgotten     *)
(* about is still taken by somebody.                                       *)
NothingStranded ==
  \A j \in Jobs : (j \notin unpushed) ~> (taken[j] > 0)

(* The promise: a deque whose owner works at one end and whose thieves     *)
(* work at the other, each call taking effect at once.                     *)
AbstractDeque == INSTANCE DequeSpec WITH items <- Live
Linearizable == AbstractDeque!Spec
=============================================================================
