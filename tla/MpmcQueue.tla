----------------------------- MODULE MpmcQueue -----------------------------
(***************************************************************************)
(* The bounded multi-producer multi-consumer queue the pool hands indices  *)
(* around with: include/thread/queue/mpmc_queue.hpp (the inject queue) and *)
(* its template twin mpmc_ring.hpp (mailboxes, command rings, the group's  *)
(* inboxes).  Every slot carries a sequence number that says whose turn it *)
(* is: i means "free for the push of position i", i + 1 "filled by it",    *)
(* and the pop of position i hands the slot on with i + capacity.          *)
(*                                                                         *)
(* A thread claims a position by moving tail_ or head_ with a CAS and only *)
(* then touches the plain field value_; the window between the two is open *)
(* to every other thread.  A spurious failure of the weak CAS goes back to *)
(* the check with the same position, a state the thread has just left.     *)
(***************************************************************************)
EXTENDS Integers, Sequences

CONSTANTS
  Producers, Consumers, (* threads in try_push and in try_pop              *)
  Values,               (* what is pushed: job indices, tickets, messages  *)
  None,                 (* mpmc_index_none                                 *)
  Capacity,             (* number of slots                                 *)
  MaxPushes             (* bound on the pushes of a behaviour              *)

(* create() rounds up to a power of two and refuses less than two slots:   *)
(* with one, "filled by i" and "free for i + 1" would be the same number.  *)
ASSUME QueueAssumption ==
  /\ Producers \cap Consumers = {}
  /\ None \notin Values
  /\ Capacity \in Nat /\ Capacity >= 2
  /\ MaxPushes \in Nat

VARIABLES
  head, tail,   (* head_ and tail_                                         *)
  seq, value,   (* sequence_ and value_ of each slot                       *)
  pc,           (* what each thread does next                              *)
  pos,          (* the position each thread works on                       *)
  val,          (* the value each thread pushes, or has popped             *)
  pushed        (* history: the value of each position claimed by a push   *)

vars == <<head, tail, seq, value, pc, pos, val, pushed>>

Threads  == Producers \cup Consumers
Index(i) == i % Capacity
Slots    == 0..Capacity-1

Goto(t, from, to) == pc[t] = from /\ pc' = [pc EXCEPT ![t] = to]

Init ==
  /\ head = 0 /\ tail = 0
  /\ seq = [s \in Slots |-> s]
  /\ value = [s \in Slots |-> None]
  /\ pc = [t \in Threads |-> "idle"]
  /\ pos = [t \in Threads |-> 0]
  /\ val = [t \in Threads |-> None]
  /\ pushed = << >>

-----------------------------------------------------------------------------
(* try_push *)

PushLoad(p, v) ==
  /\ Goto(p, "idle", "check")
  /\ pos' = [pos EXCEPT ![p] = tail]
  /\ val' = [val EXCEPT ![p] = v]
  /\ UNCHANGED <<head, tail, seq, value, pushed>>

(* variant: a slot of the previous lap is taken for a free one *)
PushFreeLax(p) ==
  /\ seq[Index(pos[p])] <= pos[p]
  /\ Goto(p, "check", "cas")
  /\ UNCHANGED <<head, tail, seq, value, pos, val, pushed>>

(* diff = 0: the slot is free for this position *)
PushFree(p) ==
  /\ seq[Index(pos[p])] = pos[p]
  /\ Goto(p, "check", "cas")
  /\ UNCHANGED <<head, tail, seq, value, pos, val, pushed>>

(* variant: a free slot is reported as full *)
PushFullLax(p) ==
  /\ seq[Index(pos[p])] <= pos[p]
  /\ Goto(p, "check", "idle")
  /\ UNCHANGED <<head, tail, seq, value, pos, val, pushed>>

(* diff < 0: the slot still belongs to the previous lap *)
PushFull(p) ==
  /\ seq[Index(pos[p])] < pos[p]
  /\ Goto(p, "check", "idle")
  /\ UNCHANGED <<head, tail, seq, value, pos, val, pushed>>

(* diff > 0: another producer has been here *)
PushReload(p) ==
  /\ pc[p] = "check"
  /\ seq[Index(pos[p])] > pos[p]
  /\ pos' = [pos EXCEPT ![p] = tail]
  /\ UNCHANGED <<head, tail, seq, value, pc, val, pushed>>

(* variant: tail_ is stored, not compared and swapped *)
PushClaimStore(p) ==
  /\ Len(pushed) < MaxPushes
  /\ Goto(p, "cas", "write")
  /\ tail' = pos[p] + 1
  /\ pushed' = Append(pushed, val[p])
  /\ UNCHANGED <<head, seq, value, pos, val>>

PushClaim(p) ==
  /\ tail = pos[p]
  /\ Len(pushed) < MaxPushes
  /\ Goto(p, "cas", "write")
  /\ tail' = tail + 1
  /\ pushed' = Append(pushed, val[p])
  /\ UNCHANGED <<head, seq, value, pos, val>>

PushLost(p) ==
  /\ tail # pos[p]
  /\ Goto(p, "cas", "check")
  /\ pos' = [pos EXCEPT ![p] = tail]
  /\ UNCHANGED <<head, tail, seq, value, val, pushed>>

PushWrite(p) ==
  /\ Goto(p, "write", "publish")
  /\ value' = [value EXCEPT ![Index(pos[p])] = val[p]]
  /\ UNCHANGED <<head, tail, seq, pos, val, pushed>>

PushPublish(p) ==
  /\ Goto(p, "publish", "idle")
  /\ seq' = [seq EXCEPT ![Index(pos[p])] = pos[p] + 1]
  /\ UNCHANGED <<head, tail, value, pos, val, pushed>>

-----------------------------------------------------------------------------
(* try_pop *)

PopLoad(c) ==
  /\ Goto(c, "idle", "check")
  /\ pos' = [pos EXCEPT ![c] = head]
  /\ UNCHANGED <<head, tail, seq, value, val, pushed>>

PopFilled(c) ==
  /\ seq[Index(pos[c])] = pos[c] + 1
  /\ Goto(c, "check", "cas")
  /\ UNCHANGED <<head, tail, seq, value, pos, val, pushed>>

(* variant: a filled slot is reported as empty *)
PopEmptyLax(c) ==
  /\ seq[Index(pos[c])] <= pos[c] + 1
  /\ Goto(c, "check", "idle")
  /\ UNCHANGED <<head, tail, seq, value, pos, val, pushed>>

PopEmpty(c) ==
  /\ seq[Index(pos[c])] < pos[c] + 1
  /\ Goto(c, "check", "idle")
  /\ UNCHANGED <<head, tail, seq, value, pos, val, pushed>>

PopReload(c) ==
  /\ pc[c] = "check"
  /\ seq[Index(pos[c])] > pos[c] + 1
  /\ pos' = [pos EXCEPT ![c] = head]
  /\ UNCHANGED <<head, tail, seq, value, pc, val, pushed>>

PopClaim(c) ==
  /\ head = pos[c]
  /\ Goto(c, "cas", "read")
  /\ head' = head + 1
  /\ UNCHANGED <<tail, seq, value, pos, val, pushed>>

PopLost(c) ==
  /\ head # pos[c]
  /\ Goto(c, "cas", "check")
  /\ pos' = [pos EXCEPT ![c] = head]
  /\ UNCHANGED <<head, tail, seq, value, val, pushed>>

PopRead(c) ==
  /\ Goto(c, "read", "release")
  /\ val' = [val EXCEPT ![c] = value[Index(pos[c])]]
  /\ UNCHANGED <<head, tail, seq, value, pos, pushed>>

(* variant: the slot is handed on one position too far *)
PopReleaseFar(c) ==
  /\ Goto(c, "release", "idle")
  /\ seq' = [seq EXCEPT ![Index(pos[c])] = pos[c] + Capacity + 1]
  /\ UNCHANGED <<head, tail, value, pos, val, pushed>>

PopRelease(c) ==
  /\ Goto(c, "release", "idle")
  /\ seq' = [seq EXCEPT ![Index(pos[c])] = pos[c] + Capacity]
  /\ UNCHANGED <<head, tail, value, pos, val, pushed>>

-----------------------------------------------------------------------------
Push(p) == \/ PushFree(p) \/ PushFull(p) \/ PushReload(p) \/ PushClaim(p)
           \/ PushLost(p) \/ PushWrite(p) \/ PushPublish(p)

Pop(c) == \/ PopLoad(c) \/ PopFilled(c) \/ PopEmpty(c) \/ PopReload(c)
          \/ PopClaim(c) \/ PopLost(c) \/ PopRead(c) \/ PopRelease(c)

Next == \/ \E p \in Producers : Push(p) \/ \E v \in Values : PushLoad(p, v)
        \/ \E c \in Consumers : Pop(c)

Spec == Init /\ [][Next]_vars

-----------------------------------------------------------------------------
(* Properties *)

Writing(p) == pc[p] \in {"write", "publish"}
Reading(c) == pc[c] \in {"read", "release"}

Stages == {"idle", "check", "cas", "write", "publish", "read", "release"}

TypeOK ==
  /\ head \in Nat /\ tail \in Nat
  /\ seq \in [Slots -> Nat]
  /\ value \in [Slots -> Values \cup {None}]
  /\ pc \in [Threads -> Stages]
  /\ \A p \in Producers : pc[p] \in Stages \ {"read", "release"}
  /\ \A c \in Consumers : pc[c] \in Stages \ {"write", "publish"}
  /\ pos \in [Threads -> Nat]
  /\ val \in [Threads -> Values \cup {None}]
  /\ pushed \in Seq(Values)
  /\ Len(pushed) = tail

(* The queue never holds more than it has slots, and a pop never overtakes *)
(* the pushes, although head_ and tail_ are moved without a common lock.   *)
Bounded == head <= tail /\ tail <= head + Capacity

(* value_ is a plain field: at no time do two threads that hold a claim    *)
(* work on the same slot, so it is never read while it is written.         *)
NoSlotRace ==
  \A s, t \in Threads :
    /\ s # t
    /\ Writing(s) \/ Reading(s)
    /\ Writing(t) \/ Reading(t)
    => Index(pos[s]) # Index(pos[t])

(* First in, first out and exactly once: the pop that claimed position i   *)
(* returns what the push of position i put in, and no other thread holds   *)
(* that position.                                                          *)
PopsItsPush ==
  \A c \in Consumers :
    /\ pc[c] = "release" => val[c] = pushed[pos[c] + 1]
    /\ \A d \in Consumers \ {c} :
         Reading(c) /\ Reading(d) => pos[c] # pos[d]

(* try_pop says "empty" only when it is, or when the element at the head   *)
(* is claimed by a push that has not published it.                         *)
EmptyIsHonest ==
  [][\A c \in Consumers :
       pc[c] = "check" /\ pc'[c] = "idle" =>
         \/ head = tail
         \/ \E p \in Producers : Writing(p) /\ pos[p] = head]_vars

(* try_push says "full" only when it is, or when a pop that has claimed    *)
(* the slot has not handed it back.                                        *)
FullIsHonest ==
  [][\A p \in Producers :
       pc[p] = "check" /\ pc'[p] = "idle" =>
         \/ tail = head + Capacity
         \/ \E c \in Consumers : Reading(c) /\ pos[c] = tail - Capacity]_vars

(* Every strengthening the induction needs; see MpmcQueue_proof.           *)
WriterInv ==
  \A p \in Producers : Writing(p) =>
    /\ head <= pos[p] /\ pos[p] < tail
    /\ seq[Index(pos[p])] = pos[p]
    /\ val[p] = pushed[pos[p] + 1]
    /\ pc[p] = "publish" => value[Index(pos[p])] = val[p]
    /\ \A q \in Producers \ {p} : Writing(q) => pos[q] # pos[p]

ReaderInv ==
  \A c \in Consumers : Reading(c) =>
    /\ tail - Capacity <= pos[c] /\ pos[c] < head
    /\ seq[Index(pos[c])] = pos[c] + 1
    /\ value[Index(pos[c])] = pushed[pos[c] + 1]
    /\ pc[c] = "release" => val[c] = pushed[pos[c] + 1]
    /\ \A d \in Consumers \ {c} : Reading(d) => pos[d] # pos[c]

(* the slots between head_ and tail_: claimed by a push, or filled *)
FilledInv ==
  \A i \in head..tail-1 :
    \/ /\ seq[Index(i)] = i
       /\ \E p \in Producers : Writing(p) /\ pos[p] = i
    \/ seq[Index(i)] = i + 1 /\ value[Index(i)] = pushed[i + 1]

(* the slots between tail_ and the end of the window: free, or being read *)
FreeInv ==
  \A i \in tail..head+Capacity-1 :
    \/ seq[Index(i)] = i
    \/ /\ seq[Index(i)] = i - Capacity + 1
       /\ \E c \in Consumers : Reading(c) /\ pos[c] = i - Capacity

(* what a thread has seen still holds if its CAS is going to succeed *)
CasInv ==
  /\ \A t \in Producers : pos[t] <= tail
  /\ \A t \in Consumers : pos[t] <= head
  /\ \A p \in Producers : pc[p] \in {"check", "cas"} => val[p] \in Values
  /\ \A p \in Producers : pc[p] = "cas" /\ pos[p] = tail => seq[Index(tail)] = tail
  /\ \A c \in Consumers : pc[c] = "cas" /\ pos[c] = head => seq[Index(head)] = head + 1

IInv == TypeOK /\ Bounded /\ WriterInv /\ ReaderInv /\ FilledInv /\ FreeInv /\ CasInv
=============================================================================
