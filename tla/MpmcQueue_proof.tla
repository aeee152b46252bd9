-------------------------- MODULE MpmcQueue_proof --------------------------
(***************************************************************************)
(* Proofs about MpmcQueue and about three of the structures that share its *)
(* run: the free list of indices, admission and the table of contexts.     *)
(*                                                                         *)
(* The queue has the inductive invariant IInv, and from it follow the      *)
(* properties TLC checks on a two-slot queue, for every number of threads, *)
(* every capacity of at least two and every length of a behaviour.  Ten    *)
(* of its sixteen actions only look at the queue: they move a thread that  *)
(* holds no claim (LookingActions).  The others change head, tail, a slot  *)
(* or the value a claim holder carries and have a lemma each.              *)
(*                                                                         *)
(* The others have an inductive invariant each, PoolInv, TokenInv and      *)
(* ContextInv, and the last theorems put them together as MCMpmcQueue      *)
(* does.                                                                   *)
(***************************************************************************)
EXTENDS MCMpmcQueue, FiniteSetTheorems, WellFoundedInduction, TLAPS

-----------------------------------------------------------------------------
(* A ring of R slots, in which position i lives in slot i % R, as the mask *)
(* of the queue computes it.                                               *)

LEMMA DivMod ==
  ASSUME NEW R \in Nat, R >= 1, NEW i \in Nat
  PROVE  i \div R \in Nat /\ i % R \in 0..R-1 /\ i = R * (i \div R) + (i % R)
  BY SMT

LEMMA ModOfSum ==
  ASSUME NEW R \in Nat, R >= 1,
         NEW a \in Nat, NEW r \in 0..R-1, NEW i \in Nat, i = R * a + r
  PROVE  i % R = r
  BY SMT

LEMMA MultiplesApart ==
  ASSUME NEW R \in Nat, R >= 1, NEW a \in Nat, NEW b \in Nat, a < b
  PROVE  R * a + R <= R * b
<1>1. PICK d \in Nat : b = a + 1 + d  BY SMT
<1>2. R * b = R * a + R + R * d  BY <1>1, SMT
<1>3. R * d >= 0 /\ R * a \in Nat /\ R * d \in Nat  BY SMT
<1> QED BY <1>2, <1>3, SMT

(* A position has a slot. *)
LEMMA SlotOf ==
  ASSUME NEW R \in Nat, R >= 1, NEW i \in Nat
  PROVE  i % R \in 0..R-1
  BY DivMod

(* One lap later a position has the same slot. *)
LEMMA SameSlotNextLap ==
  ASSUME NEW R \in Nat, R >= 1, NEW i \in Nat
  PROVE  (i + R) % R = i % R
<1> DEFINE p == i \div R  r == i % R
<1>1. p \in Nat /\ r \in 0..R-1 /\ i = R * p + r  BY DivMod
<1> HIDE DEF p, r
<1>2. i + R = R * (p + 1) + r /\ i + R \in Nat /\ p + 1 \in Nat  BY <1>1, SMT
<1>3. (i + R) % R = r  BY <1>1, <1>2, ModOfSum
<1>4. i % R = r  BY <1>1, ModOfSum
<1> QED BY <1>3, <1>4

(* Within one lap no two positions share a slot. *)
LEMMA OneSlotPerLap ==
  ASSUME NEW R \in Nat, R >= 1, NEW i \in Nat, NEW j \in Nat,
         i < j, j < i + R
  PROVE  i % R # j % R
<1> DEFINE p == i \div R  q == j \div R  r == i % R  s == j % R
<1>1. p \in Nat /\ r \in 0..R-1 /\ i = R * p + r  BY DivMod
<1>2. q \in Nat /\ s \in 0..R-1 /\ j = R * q + s  BY DivMod
<1> HIDE DEF p, q, r, s
<1>3. SUFFICES ASSUME r = s PROVE FALSE  BY DEF r, s
<1>4. p < q => R * p + R <= R * q  BY MultiplesApart, <1>1, <1>2
<1>5. q < p => R * q + R <= R * p  BY MultiplesApart, <1>1, <1>2
<1>6. R * p \in Nat /\ R * q \in Nat  BY <1>1, <1>2, SMT
<1> QED BY <1>1, <1>2, <1>3, <1>4, <1>5, <1>6, SMT

(* Every slot has a position in any stretch of R positions. *)
LEMMA SlotInWindow ==
  ASSUME NEW R \in Nat, R >= 1, NEW h \in Nat, NEW s \in 0..R-1
  PROVE  \E j \in h..h+R-1 : j % R = s
<1> DEFINE p == h \div R  r == h % R
<1>1. p \in Nat /\ r \in 0..R-1 /\ h = R * p + r  BY DivMod
<1> HIDE DEF p, r
<1>2. R * p \in Nat /\ p + 1 \in Nat /\ R * (p + 1) = R * p + R  BY <1>1, SMT
<1>3. CASE r <= s
  <2>1. R * p + s \in h..h+R-1  BY <1>1, <1>2, <1>3, SMT
  <2>2. (R * p + s) % R = s  BY <1>1, <2>1, ModOfSum
  <2> QED BY <2>1, <2>2
<1>4. CASE s < r
  <2>1. R * (p + 1) + s \in h..h+R-1  BY <1>1, <1>2, <1>4, SMT
  <2>2. (R * (p + 1) + s) % R = s  BY <1>1, <1>2, <2>1, ModOfSum
  <2> QED BY <2>1, <2>2
<1> QED BY <1>1, <1>3, <1>4, SMT

-----------------------------------------------------------------------------
(* A position has a slot, a lap later it has the same one, and within one  *)
(* lap no two positions share a slot.                                      *)
LEMMA IndexFacts ==
  /\ \A i \in Nat : Index(i) \in Slots
  /\ \A i \in Nat : Index(i + Capacity) = Index(i)
  /\ \A i, j \in Nat : i # j /\ i < j + Capacity /\ j < i + Capacity
                         => Index(i) # Index(j)
<1>1. Capacity \in Nat /\ Capacity >= 1  BY QueueAssumption, SMT
<1>2. \A i \in Nat : Index(i) \in Slots  BY <1>1, SlotOf DEF Index, Slots
<1>3. \A i \in Nat : Index(i + Capacity) = Index(i)
  BY <1>1, SameSlotNextLap DEF Index
<1>4. ASSUME NEW i \in Nat, NEW j \in Nat, i # j,
             i < j + Capacity, j < i + Capacity
      PROVE  Index(i) # Index(j)
  <2>1. CASE i < j  BY <2>1, <1>1, <1>4, OneSlotPerLap DEF Index
  <2>2. CASE j < i  BY <2>2, <1>1, <1>4, OneSlotPerLap DEF Index
  <2> QED BY <1>4, <2>1, <2>2, SMT
<1> QED BY <1>2, <1>3, <1>4

LEMMA InitIInv == Init => IInv
<1> SUFFICES ASSUME Init PROVE IInv  OBVIOUS
<1> USE QueueAssumption
<1>0. \A i \in 0..Capacity-1 : Index(i) = i  BY SMT DEF Index
<1>1. TypeOK  BY SMT DEF Init, TypeOK, Slots, Stages, Threads
<1>2. Bounded  BY SMT DEF Init, Bounded
<1>3. WriterInv /\ ReaderInv
  BY SMT DEF Init, WriterInv, ReaderInv, Writing, Reading, Threads
<1>4. FilledInv /\ FreeInv  BY <1>0, SMT DEF Init, FilledInv, FreeInv, Slots
<1>5. CasInv  BY SMT DEF Init, CasInv, Threads
<1> QED BY <1>1, <1>2, <1>3, <1>4, <1>5 DEF IInv

(* What the actions that only look have in common: thread t, which holds   *)
(* no claim before or after, changes its program counter, its position and *)
(* its value, and nothing else changes.                                    *)
Look(t) ==
  /\ UNCHANGED <<head, tail, seq, value, pushed>>
  /\ pc[t] \in {"idle", "check", "cas"}
  /\ pc' = [pc EXCEPT ![t] = pc'[t]]
  /\ pc'[t] \in {"idle", "check", "cas"}
  /\ pos' = [pos EXCEPT ![t] = pos'[t]]
  /\ pos'[t] \in Nat
  /\ val' = [val EXCEPT ![t] = val'[t]]
  /\ val'[t] \in Values \cup {None}
  /\ t \in Producers =>
       /\ pos'[t] <= tail
       /\ pc'[t] # "idle" => val'[t] \in Values
       /\ pc'[t] = "cas" /\ pos'[t] = tail => seq[Index(tail)] = tail
  /\ t \in Consumers =>
       /\ pos'[t] <= head
       /\ pc'[t] = "cas" /\ pos'[t] = head => seq[Index(head)] = head + 1

LEMMA LookKeepsIInv ==
  ASSUME IInv, NEW t \in Threads, Look(t)
  PROVE  IInv'
<1> USE IInv, Look(t), QueueAssumption DEF IInv
<1>0. \A s \in Threads : s # t => pc'[s] = pc[s] /\ pos'[s] = pos[s] /\ val'[s] = val[s]
  BY DEF Look, TypeOK
<1>1. /\ \A s \in Threads : Writing(s)' <=> Writing(s)
      /\ \A s \in Threads : Reading(s)' <=> Reading(s)
      /\ ~ Writing(t) /\ ~ Reading(t)
  BY <1>0 DEF Look, Writing, Reading, TypeOK
<1>2. /\ Producers \subseteq Threads /\ Consumers \subseteq Threads  BY DEF Threads
<1>3. TypeOK'  BY <1>0 DEF Look, TypeOK, Stages, Threads
<1>4. Bounded'  BY DEF Look, Bounded
<1>5. WriterInv'  BY <1>0, <1>1, <1>2 DEF Look, WriterInv
<1>6. ReaderInv'  BY <1>0, <1>1, <1>2 DEF Look, ReaderInv
<1>7. FilledInv'
  <2>1. \A i : (\E p \in Producers : Writing(p) /\ pos[p] = i)
                 => \E p \in Producers : Writing(p)' /\ pos'[p] = i
    BY <1>0, <1>1, <1>2
  <2> QED BY <2>1 DEF Look, FilledInv
<1>8. FreeInv'
  <2>1. \A i : (\E c \in Consumers : Reading(c) /\ pos[c] = i)
                 => \E c \in Consumers : Reading(c)' /\ pos'[c] = i
    BY <1>0, <1>1, <1>2
  <2> QED BY <2>1 DEF Look, FreeInv
<1>9. CasInv'  BY <1>0, <1>2 DEF Look, CasInv
<1> QED BY <1>3, <1>4, <1>5, <1>6, <1>7, <1>8, <1>9 DEF IInv

(* The actions that only look. *)
LEMMA LookingActions ==
  ASSUME IInv,
         NEW t \in Threads,
         \/ t \in Producers /\ \/ \E v \in Values : PushLoad(t, v)
                               \/ PushFree(t) \/ PushFull(t)
                               \/ PushReload(t) \/ PushLost(t)
         \/ t \in Consumers /\ \/ PopLoad(t) \/ PopFilled(t) \/ PopEmpty(t)
                               \/ PopReload(t) \/ PopLost(t)
  PROVE  Look(t)
<1> USE IInv, QueueAssumption DEF IInv, Goto
<1>1. CASE t \in Producers /\ \E v \in Values : PushLoad(t, v)
  BY <1>1 DEF PushLoad, Look, TypeOK, Bounded
<1>2. CASE t \in Producers /\ (PushFree(t) \/ PushFull(t) \/ PushReload(t) \/ PushLost(t))
  BY <1>2 DEF PushFree, PushFull, PushReload, PushLost, Look, TypeOK, CasInv
<1>3. CASE t \in Consumers /\ PopLoad(t)
  BY <1>3 DEF PopLoad, Look, TypeOK, Bounded
<1>4. CASE t \in Consumers /\ (PopFilled(t) \/ PopEmpty(t) \/ PopReload(t) \/ PopLost(t))
  BY <1>4 DEF PopFilled, PopEmpty, PopReload, PopLost, Look, TypeOK, CasInv
<1> QED BY <1>1, <1>2, <1>3, <1>4

(* A push claims position tail.  Its slot is free, and it is not the slot  *)
(* of the head: a full queue would have "filled by head" there.            *)
LEMMA PushClaimKeepsIInv ==
  ASSUME IInv, NEW p \in Producers, PushClaim(p)
  PROVE  IInv'
<1> USE IInv, PushClaim(p), QueueAssumption DEF IInv, Goto
<1>1. /\ pc[p] = "cas" /\ pos[p] = tail /\ tail' = tail + 1
      /\ pushed' = Append(pushed, val[p])
      /\ pc' = [pc EXCEPT ![p] = "write"]
      /\ UNCHANGED <<head, seq, value, pos, val>>
  BY DEF PushClaim
<1>2. seq[Index(tail)] = tail /\ val[p] \in Values  BY <1>1 DEF CasInv
<1>3. head \in Nat /\ tail \in Nat /\ head <= tail /\ tail <= head + Capacity
      /\ pushed \in Seq(Values) /\ Len(pushed) = tail
  BY DEF TypeOK, Bounded
<1>4. tail < head + Capacity
  <2> SUFFICES ASSUME tail = head + Capacity PROVE FALSE  BY <1>3, SMT
  <2>1. Index(tail) = Index(head)  BY <1>3, IndexFacts
  <2>2. seq[Index(head)] \in {head, head + 1}  BY <1>3, SMT DEF FilledInv
  <2> QED BY <1>2, <1>3, <2>1, <2>2, SMT
<1>5. /\ \A i \in 1..tail : pushed'[i] = pushed[i]
      /\ pushed'[tail + 1] = val[p]
      /\ pushed' \in Seq(Values) /\ Len(pushed') = tail + 1
  BY <1>1, <1>2, <1>3
<1>6. /\ \A q \in Producers : q # p => (Writing(q)' <=> Writing(q)) /\ pc'[q] = pc[q]
      /\ \A c \in Consumers : (Reading(c)' <=> Reading(c)) /\ pc'[c] = pc[c]
      /\ ~ Writing(p) /\ Writing(p)' /\ pc'[p] = "write"
  BY <1>1 DEF TypeOK, Writing, Reading, Threads
<1>7. TypeOK'  BY <1>1, <1>3, <1>5 DEF TypeOK, Stages, Threads
<1>8. Bounded'  BY <1>1, <1>3, <1>4, SMT DEF Bounded
<1>9. \A q \in Producers : Writing(q) => pos[q] \in head..tail-1  
  BY <1>3 DEF WriterInv, TypeOK, Threads
<1>10. WriterInv'
  <2> SUFFICES ASSUME NEW q \in Producers, Writing(q)'
               PROVE  /\ head <= pos[q] /\ pos[q] < tail + 1
                      /\ seq[Index(pos[q])] = pos[q]
                      /\ val[q] = pushed'[pos[q] + 1]
                      /\ pc'[q] = "publish" => value[Index(pos[q])] = val[q]
                      /\ \A r \in Producers \ {q} : Writing(r)' => pos[r] # pos[q]
    BY <1>1 DEF WriterInv
  <2>1. CASE q = p  BY <2>1, <1>1, <1>2, <1>3, <1>5, <1>6, <1>9, SMT
  <2>2. CASE q # p
    <3>1. Writing(q) /\ pos[q] \in head..tail-1  BY <2>2, <1>6, <1>9
    <3>2. pos[q] + 1 \in 1..tail  BY <3>1, <1>3, SMT
    <3>3. \A r \in Producers \ {q} : Writing(r)' => pos[r] # pos[q]
      BY <3>1, <2>2, <1>1, <1>3, <1>6, SMT DEF WriterInv
    <3> QED BY <3>1, <3>2, <3>3, <2>2, <1>3, <1>5, <1>6, SMT DEF WriterInv
  <2> QED BY <2>1, <2>2
<1>11. ReaderInv'
  <2> SUFFICES ASSUME NEW c \in Consumers, Reading(c)'
               PROVE  /\ tail' - Capacity <= pos[c] /\ pos[c] < head
                      /\ seq[Index(pos[c])] = pos[c] + 1
                      /\ value[Index(pos[c])] = pushed'[pos[c] + 1]
                      /\ pc'[c] = "release" => val[c] = pushed'[pos[c] + 1]
                      /\ \A d \in Consumers \ {c} : Reading(d)' => pos[d] # pos[c]
    BY <1>1 DEF ReaderInv
  <2>0. Reading(c) /\ pos[c] \in Nat  BY <1>6 DEF TypeOK, Threads
  <2>1. /\ tail - Capacity <= pos[c] /\ pos[c] < head
        /\ seq[Index(pos[c])] = pos[c] + 1
        /\ value[Index(pos[c])] = pushed[pos[c] + 1]
        /\ pc[c] = "release" => val[c] = pushed[pos[c] + 1]
        /\ \A d \in Consumers \ {c} : Reading(d) => pos[d] # pos[c]
    BY <2>0 DEF ReaderInv
  <2>2. pos[c] + Capacity # tail
    <3> SUFFICES ASSUME pos[c] + Capacity = tail PROVE FALSE  OBVIOUS
    <3>1. Index(tail) = Index(pos[c])  BY <2>0, IndexFacts
    <3> QED BY <3>1, <2>0, <2>1, <1>2, <1>3, SMT
  <2>3. pos[c] + 1 \in 1..tail  BY <2>0, <2>1, <1>3, SMT
  <2>4. tail' - Capacity <= pos[c]
    <3>1. tail' = tail + 1 /\ tail \in Nat /\ Capacity \in Nat  BY <1>1, <1>3
    <3>2. pos[c] \in Nat /\ tail - Capacity <= pos[c] /\ pos[c] + Capacity # tail
      BY <2>0, <2>1, <2>2
    <3> QED BY <3>1, <3>2, SMT
  <2> QED BY <2>1, <2>3, <2>4, <1>5, <1>6
<1>12. FilledInv'
  <2> SUFFICES ASSUME NEW i \in head..tail
               PROVE  \/ /\ seq[Index(i)] = i
                         /\ \E q \in Producers : Writing(q)' /\ pos[q] = i
                      \/ seq[Index(i)] = i + 1 /\ value[Index(i)] = pushed'[i + 1]
    BY <1>1, <1>3, SMT DEF FilledInv
  <2>1. CASE i = tail  BY <2>1, <1>1, <1>2, <1>6
  <2>2. CASE i # tail
    <3>1. i \in head..tail-1 /\ i + 1 \in 1..tail  BY <2>2, <1>3, SMT
    <3> QED BY <3>1, <1>5, <1>6 DEF FilledInv
  <2> QED BY <2>1, <2>2
<1>13. FreeInv'
  <2>1. \A i \in tail'..head'+Capacity-1 : i \in tail..head+Capacity-1
    BY <1>1, <1>3, SMT
  <2> QED BY <2>1, <1>1, <1>6 DEF FreeInv
<1>14. CasInv'
  <2>1. \A q \in Producers : pos[q] <= tail + 1 /\ pos[q] # tail + 1
    BY <1>3, SMT DEF CasInv, TypeOK, Threads
  <2>2. \A q \in Producers : pc'[q] \in {"check", "cas"} => val[q] \in Values
    BY <1>6, <1>2 DEF CasInv
  <2> QED BY <2>1, <2>2, <1>1, <1>6 DEF CasInv
<1> QED BY <1>7, <1>8, <1>10, <1>11, <1>12, <1>13, <1>14 DEF IInv

(* Two claims never share a slot, a claim never shares one with another    *)
(* position of the window, and a slot that a thread saw free (or filled)   *)
(* at the end it works at really is inside the window.                     *)
LEMMA Apart ==
  ASSUME IInv
  PROVE  /\ seq[Index(tail)] = tail => tail < head + Capacity
         /\ seq[Index(head)] = head + 1 => head < tail
         /\ \A p \in Producers : Writing(p) =>
              \A i \in head..head+Capacity-1 : i # pos[p] => Index(i) # Index(pos[p])
         /\ \A c \in Consumers : Reading(c) =>
              /\ \A i \in head..tail-1 : Index(i) # Index(pos[c])
              /\ \A i \in tail..head+Capacity-1 :
                   i # pos[c] + Capacity => Index(i) # Index(pos[c])
         /\ \A p \in Producers, c \in Consumers :
              Writing(p) /\ Reading(c) => Index(pos[p]) # Index(pos[c])
         /\ \A c, d \in Consumers :
              c # d /\ Reading(c) /\ Reading(d) => Index(pos[c]) # Index(pos[d])
         /\ \A p, q \in Producers :
              p # q /\ Writing(p) /\ Writing(q) => Index(pos[p]) # Index(pos[q])
<1> USE QueueAssumption
<1>1. /\ head \in Nat /\ tail \in Nat /\ head <= tail /\ tail <= head + Capacity
      /\ Capacity \in Nat /\ Capacity >= 2
  BY DEF IInv, TypeOK, Bounded
<1>2. /\ \A p \in Producers : Writing(p) =>
           /\ pos[p] \in Nat /\ head <= pos[p] /\ pos[p] < tail
           /\ seq[Index(pos[p])] = pos[p]
      /\ \A c \in Consumers : Reading(c) =>
           /\ pos[c] \in Nat /\ tail - Capacity <= pos[c] /\ pos[c] < head
           /\ seq[Index(pos[c])] = pos[c] + 1
  BY DEF IInv, TypeOK, WriterInv, ReaderInv, Threads
<1>3. seq[Index(tail)] = tail => tail < head + Capacity
  <2> SUFFICES ASSUME seq[Index(tail)] = tail, tail = head + Capacity PROVE FALSE
    BY <1>1, SMT
  <2>1. Index(tail) = Index(head)  BY <1>1, IndexFacts
  <2>2. head \in head..tail-1  BY <1>1, SMT
  <2>3. seq[Index(head)] \in {head, head + 1}  BY <2>2 DEF IInv, FilledInv
  <2> QED BY <1>1, <2>1, <2>3, SMT
<1>4. seq[Index(head)] = head + 1 => head < tail
  <2> SUFFICES ASSUME seq[Index(head)] = head + 1, head = tail PROVE FALSE
    BY <1>1, SMT
  <2>1. head \in tail..head+Capacity-1  BY <1>1, SMT
  <2>2. seq[Index(head)] \in {head, head - Capacity + 1}
    BY <2>1 DEF IInv, FreeInv
  <2> QED BY <1>1, <2>2, SMT
<1>5. ASSUME NEW p \in Producers, Writing(p),
             NEW i \in head..head+Capacity-1, i # pos[p]
      PROVE  Index(i) # Index(pos[p])
  <2>1. /\ i \in Nat /\ pos[p] \in Nat
        /\ i < pos[p] + Capacity /\ pos[p] < i + Capacity
    BY <1>1, <1>2, <1>5, SMT
  <2> QED BY <2>1, <1>5, IndexFacts
<1>6. ASSUME NEW c \in Consumers, Reading(c), NEW i \in head..tail-1
      PROVE  Index(i) # Index(pos[c])
  <2>0. pos[c] \in Nat /\ tail - Capacity <= pos[c] /\ pos[c] < head
    BY <1>2, <1>6
  <2>1. /\ i \in Nat /\ i # pos[c]
        /\ i < pos[c] + Capacity /\ pos[c] < i + Capacity
    BY <1>1, <2>0, SMT
  <2> QED BY <2>0, <2>1, IndexFacts
<1>7. ASSUME NEW c \in Consumers, Reading(c),
             NEW i \in tail..head+Capacity-1, i # pos[c] + Capacity
      PROVE  Index(i) # Index(pos[c])
  <2>0. pos[c] \in Nat /\ tail - Capacity <= pos[c] /\ pos[c] < head
    BY <1>2, <1>7
  <2>1. /\ i \in Nat /\ pos[c] + Capacity \in Nat
        /\ i < pos[c] + Capacity + Capacity /\ pos[c] + Capacity < i + Capacity
    BY <1>1, <2>0, SMT
  <2>2. Index(i) # Index(pos[c] + Capacity)  BY <2>1, <1>7, IndexFacts
  <2> QED BY <2>0, <2>2, IndexFacts
<1>8. ASSUME NEW p \in Producers, NEW c \in Consumers, Writing(p), Reading(c)
      PROVE  Index(pos[p]) # Index(pos[c])
  <2>1. pos[p] \in head..tail-1  BY <1>1, <1>2, <1>8, SMT
  <2> QED BY <2>1, <1>6, <1>8
<1>9. ASSUME NEW c \in Consumers, NEW d \in Consumers,
             c # d, Reading(c), Reading(d)
      PROVE  Index(pos[c]) # Index(pos[d])
  <2>0. /\ pos[c] \in Nat /\ tail - Capacity <= pos[c] /\ pos[c] < head
        /\ pos[d] \in Nat /\ tail - Capacity <= pos[d] /\ pos[d] < head
    BY <1>2, <1>9
  <2>1. pos[c] # pos[d]  BY <1>9 DEF IInv, ReaderInv
  <2>2. pos[c] < pos[d] + Capacity /\ pos[d] < pos[c] + Capacity
    BY <1>1, <2>0, SMT
  <2> QED BY <2>0, <2>1, <2>2, IndexFacts
<1>10. ASSUME NEW p \in Producers, NEW q \in Producers,
              p # q, Writing(p), Writing(q)
       PROVE  Index(pos[p]) # Index(pos[q])
  <2>1. pos[p] # pos[q]  BY <1>10 DEF IInv, WriterInv
  <2>2. pos[p] \in head..head+Capacity-1  BY <1>1, <1>2, <1>10, SMT
  <2> QED BY <2>1, <2>2, <1>5, <1>10
<1> QED BY <1>3, <1>4, <1>5, <1>6, <1>7, <1>8, <1>9, <1>10

(* A push stores its value in the slot it holds. *)
LEMMA PushWriteKeepsIInv ==
  ASSUME IInv, NEW p \in Producers, PushWrite(p)
  PROVE  IInv'
<1>1. /\ pc[p] = "write" /\ pc' = [pc EXCEPT ![p] = "publish"]
      /\ value' = [value EXCEPT ![Index(pos[p])] = val[p]]
      /\ UNCHANGED <<head, tail, seq, pos, val, pushed>>
  BY DEF PushWrite, Goto
<1>2. TypeOK /\ pos[p] \in Nat /\ Index(pos[p]) \in Slots
  BY IndexFacts DEF IInv, TypeOK, Threads
<1>3. /\ \A q \in Producers : (Writing(q)' <=> Writing(q)) /\ (q # p => pc'[q] = pc[q])
      /\ \A c \in Consumers : (Reading(c)' <=> Reading(c)) /\ pc'[c] = pc[c]
      /\ Writing(p)
  BY <1>1, <1>2, QueueAssumption DEF TypeOK, Writing, Reading, Threads
<1>4. /\ value'[Index(pos[p])] = val[p]
      /\ \A s \in Slots : s # Index(pos[p]) => value'[s] = value[s]
  BY <1>1, <1>2 DEF TypeOK
<1>5. TypeOK'
  BY <1>1, <1>2, QueueAssumption DEF TypeOK, Stages, Threads
<1>6. Bounded'  BY <1>1 DEF IInv, Bounded
<1>7. WriterInv'
  <2> SUFFICES ASSUME NEW q \in Producers, Writing(q)'
               PROVE  /\ head <= pos[q] /\ pos[q] < tail
                      /\ seq[Index(pos[q])] = pos[q]
                      /\ val[q] = pushed[pos[q] + 1]
                      /\ pc'[q] = "publish" => value'[Index(pos[q])] = val[q]
                      /\ \A r \in Producers \ {q} : Writing(r)' => pos[r] # pos[q]
    BY <1>1 DEF WriterInv
  <2>1. pc'[q] = "publish" => value'[Index(pos[q])] = val[q]
    <3>1. CASE q = p  BY <3>1, <1>4
    <3>2. CASE q # p
      <4>1. Index(pos[q]) # Index(pos[p])  BY <3>2, <1>3, Apart
      <4>2. Index(pos[q]) \in Slots  BY IndexFacts, <1>2 DEF TypeOK, Threads
      <4> QED BY <4>1, <4>2, <3>2, <1>3, <1>4 DEF IInv, WriterInv
    <3> QED BY <3>1, <3>2
  <2> QED BY <2>1, <1>3 DEF IInv, WriterInv
<1>8. ReaderInv'
  <2> SUFFICES ASSUME NEW c \in Consumers, Reading(c)'
               PROVE  value'[Index(pos[c])] = value[Index(pos[c])]
    BY <1>1, <1>3 DEF IInv, ReaderInv
  <2>1. Index(pos[c]) # Index(pos[p])  BY <1>3, Apart
  <2>2. Index(pos[c]) \in Slots  BY IndexFacts, <1>2 DEF TypeOK, Threads
  <2> QED BY <2>1, <2>2, <1>4
<1>9. FilledInv'
  <2> SUFFICES ASSUME NEW i \in head..tail-1
               PROVE  \/ /\ seq[Index(i)] = i
                         /\ \E q \in Producers : Writing(q)' /\ pos[q] = i
                      \/ seq[Index(i)] = i + 1 /\ value'[Index(i)] = pushed[i + 1]
    BY <1>1 DEF FilledInv
  <2>1. CASE i = pos[p]  BY <2>1, <1>3 DEF IInv, WriterInv
  <2>2. CASE i # pos[p]
    <3>1. i \in head..head+Capacity-1 /\ i \in Nat
      BY QueueAssumption, SMT DEF IInv, TypeOK, Bounded
    <3>2. Index(i) # Index(pos[p])  BY <3>1, <2>2, <1>3, Apart
    <3>3. Index(i) \in Slots  BY <3>1, IndexFacts
    <3> QED BY <3>2, <3>3, <1>3, <1>4 DEF IInv, FilledInv
  <2> QED BY <2>1, <2>2
<1>10. FreeInv'  BY <1>1, <1>3 DEF IInv, FreeInv
<1>11. CasInv'  BY <1>1, <1>3 DEF IInv, CasInv
<1> QED BY <1>5, <1>6, <1>7, <1>8, <1>9, <1>10, <1>11 DEF IInv

(* A push publishes the slot it has filled. *)
LEMMA PushPublishKeepsIInv ==
  ASSUME IInv, NEW p \in Producers, PushPublish(p)
  PROVE  IInv'
<1>1. /\ pc[p] = "publish" /\ pc' = [pc EXCEPT ![p] = "idle"]
      /\ seq' = [seq EXCEPT ![Index(pos[p])] = pos[p] + 1]
      /\ UNCHANGED <<head, tail, value, pos, val, pushed>>
  BY DEF PushPublish, Goto
<1>2. TypeOK /\ pos[p] \in Nat /\ Index(pos[p]) \in Slots
  BY IndexFacts DEF IInv, TypeOK, Threads
<1>3. /\ \A q \in Producers : q # p => (Writing(q)' <=> Writing(q)) /\ pc'[q] = pc[q]
      /\ \A c \in Consumers : (Reading(c)' <=> Reading(c)) /\ pc'[c] = pc[c]
      /\ Writing(p) /\ ~ Writing(p)' /\ pc'[p] = "idle"
  BY <1>1, <1>2, QueueAssumption DEF TypeOK, Writing, Reading, Threads
<1>4. /\ seq'[Index(pos[p])] = pos[p] + 1
      /\ \A s \in Slots : s # Index(pos[p]) => seq'[s] = seq[s]
  BY <1>1, <1>2 DEF TypeOK
<1>5. /\ head <= pos[p] /\ pos[p] < tail /\ seq[Index(pos[p])] = pos[p]
      /\ value[Index(pos[p])] = pushed[pos[p] + 1]
      /\ head \in Nat /\ tail \in Nat /\ tail <= head + Capacity
      /\ Capacity \in Nat /\ Capacity >= 2
  BY <1>1, <1>3, QueueAssumption DEF IInv, WriterInv, TypeOK, Bounded
<1>6. TypeOK'
  BY <1>1, <1>2, QueueAssumption DEF TypeOK, Stages, Threads
<1>7. Bounded'  BY <1>1 DEF IInv, Bounded
<1>8. ASSUME NEW i \in head..head+Capacity-1, i # pos[p]
      PROVE  Index(i) \in Slots /\ seq'[Index(i)] = seq[Index(i)]
  <2>1. Index(i) \in Slots  BY <1>5, IndexFacts
  <2> QED BY <2>1, <1>3, <1>4, <1>8, Apart
<1>9. WriterInv'
  <2> SUFFICES ASSUME NEW q \in Producers, Writing(q)'
               PROVE  /\ seq'[Index(pos[q])] = seq[Index(pos[q])]
                      /\ Writing(q) /\ pc'[q] = pc[q]
                      /\ \A r \in Producers : Writing(r)' => Writing(r)
    BY <1>1 DEF IInv, WriterInv
  <2>1. q # p /\ Writing(q)  BY <1>3
  <2>2. pos[q] \in head..head+Capacity-1
    BY <2>1, <1>5, SMT DEF IInv, WriterInv, TypeOK, Threads
  <2>3. pos[q] # pos[p]  BY <2>1, <1>3 DEF IInv, WriterInv
  <2> QED BY <2>1, <2>2, <2>3, <1>3, <1>8
<1>10. ReaderInv'
  <2> SUFFICES ASSUME NEW c \in Consumers, Reading(c)'
               PROVE  seq'[Index(pos[c])] = seq[Index(pos[c])]
    BY <1>1, <1>3 DEF IInv, ReaderInv
  <2>1. Index(pos[c]) # Index(pos[p])  BY <1>3, Apart
  <2>2. Index(pos[c]) \in Slots  BY IndexFacts, <1>2 DEF TypeOK, Threads
  <2> QED BY <2>1, <2>2, <1>4
<1>11. FilledInv'
  <2> SUFFICES ASSUME NEW i \in head..tail-1
               PROVE  \/ /\ seq'[Index(i)] = i
                         /\ \E q \in Producers : Writing(q)' /\ pos[q] = i
                      \/ seq'[Index(i)] = i + 1 /\ value[Index(i)] = pushed[i + 1]
    BY <1>1 DEF FilledInv
  <2>1. CASE i = pos[p]  BY <2>1, <1>4, <1>5
  <2>2. CASE i # pos[p]
    <3>1. i \in head..head+Capacity-1  BY <1>5, SMT
    <3> QED BY <3>1, <2>2, <1>3, <1>8 DEF IInv, FilledInv
  <2> QED BY <2>1, <2>2
<1>12. FreeInv'
  <2> SUFFICES ASSUME NEW i \in tail..head+Capacity-1
               PROVE  seq'[Index(i)] = seq[Index(i)]
    BY <1>1, <1>3 DEF IInv, FreeInv
  <2>1. i \in head..head+Capacity-1 /\ i # pos[p]  BY <1>2, <1>5, SMT
  <2> QED BY <2>1, <1>8
<1>13. CasInv'
  <2>1. ASSUME seq[Index(tail)] = tail PROVE seq'[Index(tail)] = tail
    <3>1. tail < head + Capacity  BY <2>1, Apart
    <3>2. tail \in head..head+Capacity-1 /\ tail # pos[p]
      BY <3>1, <1>2, <1>5, SMT
    <3> QED BY <3>2, <2>1, <1>8
  <2>2. ASSUME seq[Index(head)] = head + 1 PROVE seq'[Index(head)] = head + 1
    <3>1. head \in head..head+Capacity-1 /\ head # pos[p]  BY <2>2, <1>5, SMT
    <3> QED BY <3>1, <2>2, <1>8
  <2> QED BY <2>1, <2>2, <1>1, <1>3 DEF IInv, CasInv
<1> QED BY <1>6, <1>7, <1>9, <1>10, <1>11, <1>12, <1>13 DEF IInv

(* A pop claims position head.  Its slot is filled, so it is not free. *)
LEMMA PopClaimKeepsIInv ==
  ASSUME IInv, NEW c \in Consumers, PopClaim(c)
  PROVE  IInv'
<1>1. /\ pc[c] = "cas" /\ pos[c] = head /\ head' = head + 1
      /\ pc' = [pc EXCEPT ![c] = "read"]
      /\ UNCHANGED <<tail, seq, value, pos, val, pushed>>
  BY DEF PopClaim, Goto
<1>2. TypeOK /\ head \in Nat /\ tail \in Nat /\ Capacity \in Nat /\ Capacity >= 2
      /\ tail <= head + Capacity
  BY QueueAssumption DEF IInv, TypeOK, Bounded
<1>3. /\ \A d \in Consumers : d # c => (Reading(d)' <=> Reading(d)) /\ pc'[d] = pc[d]
      /\ \A p \in Producers : (Writing(p)' <=> Writing(p)) /\ pc'[p] = pc[p]
      /\ ~ Reading(c) /\ Reading(c)' /\ pc'[c] = "read"
  BY <1>1, <1>2, QueueAssumption DEF TypeOK, Writing, Reading, Threads
<1>4. seq[Index(head)] = head + 1 /\ head < tail
  BY <1>1, Apart DEF IInv, CasInv
<1>5. value[Index(head)] = pushed[head + 1]
  <2>1. head \in head..tail-1  BY <1>2, <1>4, SMT
  <2> QED BY <2>1, <1>2, <1>4 DEF IInv, FilledInv
<1>6. TypeOK'  BY <1>1, <1>2, QueueAssumption DEF TypeOK, Stages, Threads
<1>7. Bounded'  BY <1>1, <1>2, <1>4, SMT DEF Bounded
<1>8. WriterInv'
  <2> SUFFICES ASSUME NEW p \in Producers, Writing(p)'
               PROVE  head' <= pos[p]
    BY <1>1, <1>3 DEF IInv, WriterInv
  <2>1. pos[p] \in Nat /\ head <= pos[p] /\ seq[Index(pos[p])] = pos[p]
    BY <1>2, <1>3 DEF IInv, WriterInv, TypeOK, Threads
  <2>2. pos[p] # head  BY <2>1, <1>2, <1>4, SMT
  <2> QED BY <2>1, <2>2, <1>1, <1>2, SMT
<1>9. ReaderInv'
  <2>1. \A d \in Consumers : Reading(d) => pos[d] \in Nat /\ pos[d] < head
    BY <1>2 DEF IInv, ReaderInv, TypeOK, Threads
  <2> SUFFICES ASSUME NEW d \in Consumers, Reading(d)'
               PROVE  /\ tail - Capacity <= pos[d] /\ pos[d] < head'
                      /\ seq[Index(pos[d])] = pos[d] + 1
                      /\ value[Index(pos[d])] = pushed[pos[d] + 1]
                      /\ pc'[d] = "release" => val[d] = pushed[pos[d] + 1]
                      /\ \A e \in Consumers \ {d} : Reading(e)' => pos[e] # pos[d]
    BY <1>1 DEF ReaderInv
  <2>2. CASE d = c
    <3>1. \A e \in Consumers \ {d} : Reading(e)' => pos[e] # pos[d]
      BY <2>1, <2>2, <1>1, <1>2, <1>3, SMT
    <3>2. tail - Capacity <= head /\ head < head'  BY <1>1, <1>2, SMT
    <3> QED BY <3>1, <3>2, <2>2, <1>1, <1>3, <1>4, <1>5
  <2>3. CASE d # c
    <3>1. Reading(d) /\ pos[d] \in Nat /\ pos[d] < head  BY <2>1, <2>3, <1>3
    <3>2. pos[d] < head' /\ pos[d] # pos[c]  BY <3>1, <1>1, <1>2, SMT
    <3> QED BY <3>1, <3>2, <2>3, <1>1, <1>3 DEF IInv, ReaderInv
  <2> QED BY <2>2, <2>3
<1>10. FilledInv'
  <2>1. \A i \in head'..tail'-1 : i \in head..tail-1  BY <1>1, <1>2, SMT
  <2> QED BY <2>1, <1>1, <1>3 DEF IInv, FilledInv
<1>11. FreeInv'
  <2> SUFFICES ASSUME NEW i \in tail..head'+Capacity-1
               PROVE  \/ seq[Index(i)] = i
                      \/ /\ seq[Index(i)] = i - Capacity + 1
                         /\ \E d \in Consumers : Reading(d)' /\ pos[d] = i - Capacity
    BY <1>1 DEF FreeInv
  <2>1. CASE i = head + Capacity
    <3>1. Index(i) = Index(head)  BY <2>1, <1>2, IndexFacts
    <3>2. i - Capacity = head  BY <2>1, <1>2, SMT
    <3> QED BY <3>1, <3>2, <1>1, <1>3, <1>4
  <2>2. CASE i # head + Capacity
    <3>1. i \in tail..head+Capacity-1  BY <2>2, <1>1, <1>2, SMT
    <3> QED BY <3>1, <1>3 DEF IInv, FreeInv
  <2> QED BY <2>1, <2>2
<1>12. CasInv'
  <2>1. \A d \in Consumers : pos[d] <= head' /\ pos[d] # head'
    BY <1>1, <1>2, SMT DEF IInv, CasInv, TypeOK, Threads
  <2> QED BY <2>1, <1>1, <1>3 DEF IInv, CasInv
<1> QED BY <1>6, <1>7, <1>8, <1>9, <1>10, <1>11, <1>12 DEF IInv

(* A pop reads the value of the slot it holds. *)
LEMMA PopReadKeepsIInv ==
  ASSUME IInv, NEW c \in Consumers, PopRead(c)
  PROVE  IInv'
<1>1. /\ pc[c] = "read" /\ pc' = [pc EXCEPT ![c] = "release"]
      /\ val' = [val EXCEPT ![c] = value[Index(pos[c])]]
      /\ UNCHANGED <<head, tail, seq, value, pos, pushed>>
  BY DEF PopRead, Goto
<1>2. TypeOK /\ value[Index(pos[c])] \in Values \cup {None}
  BY IndexFacts DEF IInv, TypeOK, Threads
<1>3. /\ \A d \in Consumers : (Reading(d)' <=> Reading(d))
                              /\ (d # c => pc'[d] = pc[d] /\ val'[d] = val[d])
      /\ \A p \in Producers : (Writing(p)' <=> Writing(p)) /\ pc'[p] = pc[p]
                              /\ val'[p] = val[p]
      /\ Reading(c) /\ pc'[c] = "release" /\ val'[c] = value[Index(pos[c])]
  BY <1>1, <1>2, QueueAssumption DEF TypeOK, Writing, Reading, Threads
<1>4. TypeOK'  BY <1>1, <1>2, QueueAssumption DEF TypeOK, Stages, Threads
<1>5. Bounded'  BY <1>1 DEF IInv, Bounded
<1>6. WriterInv'  BY <1>1, <1>3 DEF IInv, WriterInv
<1>7. ReaderInv'  BY <1>1, <1>3 DEF IInv, ReaderInv
<1>8. FilledInv' /\ FreeInv'  BY <1>1, <1>3 DEF IInv, FilledInv, FreeInv
<1>9. CasInv'  BY <1>1, <1>3 DEF IInv, CasInv
<1> QED BY <1>4, <1>5, <1>6, <1>7, <1>8, <1>9 DEF IInv

(* A pop hands its slot on to the push one lap later. *)
LEMMA PopReleaseKeepsIInv ==
  ASSUME IInv, NEW c \in Consumers, PopRelease(c)
  PROVE  IInv'
<1>1. /\ pc[c] = "release" /\ pc' = [pc EXCEPT ![c] = "idle"]
      /\ seq' = [seq EXCEPT ![Index(pos[c])] = pos[c] + Capacity]
      /\ UNCHANGED <<head, tail, value, pos, val, pushed>>
  BY DEF PopRelease, Goto
<1>2. TypeOK /\ pos[c] \in Nat /\ Index(pos[c]) \in Slots
  BY IndexFacts DEF IInv, TypeOK, Threads
<1>3. /\ \A d \in Consumers : d # c => (Reading(d)' <=> Reading(d)) /\ pc'[d] = pc[d]
      /\ \A p \in Producers : (Writing(p)' <=> Writing(p)) /\ pc'[p] = pc[p]
      /\ Reading(c) /\ ~ Reading(c)' /\ pc'[c] = "idle"
  BY <1>1, <1>2, QueueAssumption DEF TypeOK, Writing, Reading, Threads
<1>4. /\ seq'[Index(pos[c])] = pos[c] + Capacity
      /\ \A s \in Slots : s # Index(pos[c]) => seq'[s] = seq[s]
  BY <1>1, <1>2 DEF TypeOK
<1>5. /\ tail - Capacity <= pos[c] /\ pos[c] < head
      /\ head \in Nat /\ tail \in Nat /\ head <= tail /\ tail <= head + Capacity
      /\ Capacity \in Nat /\ Capacity >= 2
  BY <1>3, QueueAssumption DEF IInv, ReaderInv, TypeOK, Bounded
<1>6. TypeOK'
  BY <1>1, <1>2, QueueAssumption DEF TypeOK, Stages, Threads
<1>7. Bounded'  BY <1>1 DEF IInv, Bounded
<1>8. WriterInv'
  <2> SUFFICES ASSUME NEW p \in Producers, Writing(p)'
               PROVE  seq'[Index(pos[p])] = seq[Index(pos[p])]
    BY <1>1, <1>3 DEF IInv, WriterInv
  <2>1. Index(pos[p]) # Index(pos[c])  BY <1>3, Apart
  <2>2. Index(pos[p]) \in Slots  BY IndexFacts, <1>2 DEF TypeOK, Threads
  <2> QED BY <2>1, <2>2, <1>4
<1>9. ReaderInv'
  <2> SUFFICES ASSUME NEW d \in Consumers, Reading(d)'
               PROVE  /\ seq'[Index(pos[d])] = seq[Index(pos[d])]
                      /\ Reading(d) /\ pc'[d] = pc[d]
                      /\ \A e \in Consumers : Reading(e)' => Reading(e)
    BY <1>1 DEF IInv, ReaderInv
  <2>1. d # c /\ Reading(d)  BY <1>3
  <2>2. Index(pos[d]) # Index(pos[c])  BY <2>1, <1>3, Apart
  <2>3. Index(pos[d]) \in Slots  BY IndexFacts, <1>2 DEF TypeOK, Threads
  <2> QED BY <2>1, <2>2, <2>3, <1>3, <1>4
<1>10. ASSUME NEW i \in head..tail-1
       PROVE  seq'[Index(i)] = seq[Index(i)]
  <2>1. Index(i) # Index(pos[c])  BY <1>3, Apart
  <2>2. Index(i) \in Slots  BY <1>5, IndexFacts
  <2> QED BY <2>1, <2>2, <1>4
<1>11. ASSUME NEW i \in tail..head+Capacity-1, i # pos[c] + Capacity
       PROVE  seq'[Index(i)] = seq[Index(i)]
  <2>1. Index(i) # Index(pos[c])  BY <1>3, <1>11, Apart
  <2>2. Index(i) \in Slots  BY <1>5, IndexFacts
  <2> QED BY <2>1, <2>2, <1>4
<1>12. FilledInv'  BY <1>1, <1>3, <1>10 DEF IInv, FilledInv
<1>13. FreeInv'
  <2> SUFFICES ASSUME NEW i \in tail..head+Capacity-1
               PROVE  \/ seq'[Index(i)] = i
                      \/ /\ seq'[Index(i)] = i - Capacity + 1
                         /\ \E d \in Consumers : Reading(d)' /\ pos[d] = i - Capacity
    BY <1>1 DEF FreeInv
  <2>1. CASE i = pos[c] + Capacity
    <3>1. Index(i) = Index(pos[c])  BY <2>1, <1>2, IndexFacts
    <3> QED BY <3>1, <2>1, <1>4
  <2>2. CASE i # pos[c] + Capacity
    <3>1. seq'[Index(i)] = seq[Index(i)]  BY <2>2, <1>11
    <3>2. pos[c] # i - Capacity  BY <2>2, <1>2, <1>5, SMT
    <3>3. \A d \in Consumers : Reading(d) /\ pos[d] = i - Capacity => Reading(d)'
      BY <3>2, <1>3
    <3> QED BY <3>1, <3>3 DEF IInv, FreeInv
  <2> QED BY <2>1, <2>2
<1>14. CasInv'
  <2>1. ASSUME seq[Index(tail)] = tail PROVE seq'[Index(tail)] = tail
    <3>1. tail < head + Capacity  BY <2>1, Apart
    <3>2. tail \in tail..head+Capacity-1  BY <3>1, <1>5, SMT
    <3>3. CASE tail = pos[c] + Capacity
      <4>1. Index(tail) = Index(pos[c])  BY <3>3, <1>2, IndexFacts
      <4> QED BY <4>1, <3>3, <1>4
    <3>4. CASE tail # pos[c] + Capacity  BY <3>2, <3>4, <2>1, <1>11
    <3> QED BY <3>3, <3>4
  <2>2. ASSUME seq[Index(head)] = head + 1 PROVE seq'[Index(head)] = head + 1
    <3>1. head \in head..tail-1  BY <2>2, <1>5, Apart, SMT
    <3> QED BY <3>1, <2>2, <1>10
  <2> QED BY <2>1, <2>2, <1>1, <1>3 DEF IInv, CasInv
<1> QED BY <1>6, <1>7, <1>8, <1>9, <1>12, <1>13, <1>14 DEF IInv

-----------------------------------------------------------------------------
(* The invariant is inductive, so it holds in every behaviour. *)
THEOREM InductiveInvariant == Spec => []IInv
<1>1. ASSUME IInv, [Next]_vars PROVE IInv'
  <2> USE IInv
  <2>1. CASE UNCHANGED vars
    BY <2>1 DEF vars, IInv, TypeOK, Bounded, WriterInv, ReaderInv, FilledInv,
                FreeInv, CasInv, Writing, Reading
  <2>2. ASSUME NEW p \in Producers, Push(p) \/ \E v \in Values : PushLoad(p, v)
        PROVE  IInv'
    <3>1. CASE PushClaim(p)  BY <3>1, PushClaimKeepsIInv
    <3>2. CASE PushWrite(p)  BY <3>2, PushWriteKeepsIInv
    <3>3. CASE PushPublish(p)  BY <3>3, PushPublishKeepsIInv
    <3>4. CASE \/ \E v \in Values : PushLoad(p, v)
               \/ PushFree(p) \/ PushFull(p) \/ PushReload(p) \/ PushLost(p)
      <4>1. p \in Threads  BY DEF Threads
      <4>2. Look(p)  BY <3>4, <4>1, LookingActions
      <4> QED BY <4>1, <4>2, LookKeepsIInv
    <3> QED BY <2>2, <3>1, <3>2, <3>3, <3>4 DEF Push
  <2>3. ASSUME NEW c \in Consumers, Pop(c) PROVE IInv'
    <3>1. CASE PopClaim(c)  BY <3>1, PopClaimKeepsIInv
    <3>2. CASE PopRead(c)  BY <3>2, PopReadKeepsIInv
    <3>3. CASE PopRelease(c)  BY <3>3, PopReleaseKeepsIInv
    <3>4. CASE \/ PopLoad(c) \/ PopFilled(c) \/ PopEmpty(c) \/ PopReload(c)
               \/ PopLost(c)
      <4>1. c \in Threads  BY DEF Threads
      <4>2. Look(c)  BY <3>4, <4>1, LookingActions
      <4> QED BY <4>1, <4>2, LookKeepsIInv
    <3> QED BY <2>3, <3>1, <3>2, <3>3, <3>4 DEF Pop
  <2> QED BY <1>1, <2>1, <2>2, <2>3 DEF Next
<1> QED BY InitIInv, <1>1, PTL DEF Spec

(* Type correctness. *)
THEOREM TypeCorrect == Spec => []TypeOK
<1>1. IInv => TypeOK  BY DEF IInv
<1> QED BY <1>1, InductiveInvariant, PTL

(* The queue never holds more than it has slots, and head_ never passes    *)
(* tail_.                                                                  *)
THEOREM NeverOverfull == Spec => []Bounded
<1>1. IInv => Bounded  BY DEF IInv
<1> QED BY <1>1, InductiveInvariant, PTL

(* The plain field value_ of a slot is never touched by two threads at a   *)
(* time, whatever the number of threads.                                   *)
THEOREM DataRaceFree == Spec => []NoSlotRace
<1>1. ASSUME IInv PROVE NoSlotRace
  <2> SUFFICES ASSUME NEW s \in Threads, NEW t \in Threads, s # t,
                      Writing(s) \/ Reading(s), Writing(t) \/ Reading(t)
               PROVE  Index(pos[s]) # Index(pos[t])
    BY DEF NoSlotRace
  <2>1. \A u \in Threads : /\ Writing(u) => u \in Producers
                           /\ Reading(u) => u \in Consumers
    BY <1>1 DEF IInv, TypeOK, Threads, Writing, Reading, Stages
  <2> QED BY <2>1, <1>1, Apart
<1> QED BY <1>1, InductiveInvariant, PTL

(* Every value pushed comes out once, in the order of the positions: the   *)
(* pop of position i returns what the push of position i stored.           *)
THEOREM FirstInFirstOut == Spec => []PopsItsPush
<1>1. IInv => PopsItsPush
  BY DEF IInv, ReaderInv, PopsItsPush, Reading
<1> QED BY <1>1, InductiveInvariant, PTL

(* A pop that gives up has found the slot of its position short of         *)
(* "filled", and so has a push that gives up short of "free".              *)
LEMMA GivingUp ==
  ASSUME IInv, [Next]_vars
  PROVE  /\ \A c \in Consumers : pc[c] = "check" /\ pc'[c] = "idle"
                                   => seq[Index(pos[c])] < pos[c] + 1
         /\ \A p \in Producers : pc[p] = "check" /\ pc'[p] = "idle"
                                   => seq[Index(pos[p])] < pos[p]
<1> USE QueueAssumption DEF IInv, TypeOK, Threads, Goto
<1>1. CASE UNCHANGED vars  BY <1>1 DEF vars
<1>2. ASSUME NEW p \in Producers, NEW v \in Values, PushLoad(p, v)
      PROVE  pc' = [pc EXCEPT ![p] = "check"]
  BY <1>2 DEF PushLoad
<1>3. CASE \E p \in Producers, v \in Values : PushLoad(p, v)  BY <1>2, <1>3
<1>4. CASE \E p \in Producers : Push(p)
  <2>1. PICK p \in Producers : Push(p)  BY <1>4
  <2>2. CASE PushFull(p)  BY <2>2 DEF PushFull
  <2>3. CASE PushFree(p) \/ PushReload(p) \/ PushClaim(p) \/ PushLost(p) \/ PushWrite(p)
    BY <2>3 DEF PushFree, PushReload, PushClaim, PushLost, PushWrite
  <2>4. CASE PushPublish(p)  BY <2>4 DEF PushPublish
  <2> QED BY <2>1, <2>2, <2>3, <2>4 DEF Push
<1>5. CASE \E c \in Consumers : Pop(c)
  <2>1. PICK c \in Consumers : Pop(c)  BY <1>5
  <2>2. CASE PopEmpty(c)  BY <2>2 DEF PopEmpty
  <2>3. CASE PopLoad(c) \/ PopFilled(c) \/ PopReload(c) \/ PopClaim(c) \/ PopLost(c) \/ PopRead(c)
    BY <2>3 DEF PopLoad, PopFilled, PopReload, PopClaim, PopLost, PopRead
  <2>4. CASE PopRelease(c)  BY <2>4 DEF PopRelease
  <2> QED BY <2>1, <2>2, <2>3, <2>4 DEF Pop
<1> QED BY <1>1, <1>3, <1>4, <1>5 DEF Next

(* A position the pops are past has been filled at least once, and one the *)
(* pushes are past has been free: a stale position never looks unready.    *)
LEMMA StalePositions ==
  ASSUME IInv
  PROVE  /\ \A i \in 0..head-1 : seq[Index(i)] >= i + 1
         /\ \A i \in 0..tail-1 : seq[Index(i)] >= i
<1>0. /\ head \in Nat /\ tail \in Nat /\ head <= tail /\ tail <= head + Capacity
      /\ Capacity \in Nat /\ Capacity >= 2 /\ Capacity >= 1
  BY QueueAssumption, SMT DEF IInv, TypeOK, Bounded
<1>1. ASSUME NEW i \in 0..head-1 PROVE seq[Index(i)] >= i + 1
  <2>0. i \in Nat /\ i < head /\ Index(i) \in 0..Capacity-1
    BY <1>0, IndexFacts, SMT DEF Slots
  <2>1. PICK j \in head..head+Capacity-1 : Index(j) = Index(i)
    BY <1>0, <2>0, SlotInWindow DEF Index
  <2>2. j \in Nat /\ j > i  BY <1>0, <2>0, SMT
  <2>3. j >= i + Capacity  BY <1>0, <2>0, <2>1, <2>2, IndexFacts, SMT
  <2>4. seq[Index(j)] \in {j, j + 1, j - Capacity + 1}
    <3>1. j \in head..tail-1 \/ j \in tail..head+Capacity-1  BY <1>0, SMT
    <3> QED BY <3>1 DEF IInv, FilledInv, FreeInv
  <2> QED BY <1>0, <2>0, <2>1, <2>2, <2>3, <2>4, SMT
<1>2. ASSUME NEW i \in 0..tail-1 PROVE seq[Index(i)] >= i
  <2>1. CASE i \in head..tail-1
    <3>1. seq[Index(i)] \in {i, i + 1}  BY <2>1 DEF IInv, FilledInv
    <3> QED BY <3>1, <1>0, SMT
  <2>2. CASE i \in 0..head-1
    <3>1. seq[Index(i)] \in Nat  BY <1>0, IndexFacts DEF IInv, TypeOK
    <3> QED BY <2>2, <3>1, <1>1, <1>0, SMT
  <2> QED BY <2>1, <2>2, <1>0, SMT
<1> QED BY <1>1, <1>2

(* "Empty" is only reported of an empty queue, or of one whose head a push *)
(* has claimed and not yet published.                                      *)
THEOREM EmptyReportsAreHonest == Spec => EmptyIsHonest
<1>1. ASSUME IInv, [Next]_vars
      PROVE  [\A c \in Consumers :
                pc[c] = "check" /\ pc'[c] = "idle" =>
                  \/ head = tail
                  \/ \E p \in Producers : Writing(p) /\ pos[p] = head]_vars
  <2> SUFFICES ASSUME NEW c \in Consumers, pc[c] = "check", pc'[c] = "idle",
                      head # tail
               PROVE  \E p \in Producers : Writing(p) /\ pos[p] = head
    OBVIOUS
  <2>1. seq[Index(pos[c])] < pos[c] + 1  BY <1>1, GivingUp
  <2>2. /\ head \in Nat /\ tail \in Nat /\ head <= tail
        /\ pos[c] \in Nat /\ pos[c] <= head
    BY <1>1 DEF IInv, TypeOK, Bounded, CasInv, Threads
  <2>3. seq[Index(pos[c])] \in Nat
    BY <1>1, <2>2, IndexFacts DEF IInv, TypeOK
  <2>4. pos[c] = head
    <3> SUFFICES ASSUME pos[c] \in 0..head-1 PROVE FALSE  BY <2>2, SMT
    <3>1. seq[Index(pos[c])] >= pos[c] + 1  BY <1>1, StalePositions
    <3> QED BY <3>1, <2>1, <2>2, <2>3, SMT
  <2>5. head \in head..tail-1 /\ seq[Index(head)] # head + 1
    BY <2>1, <2>2, <2>3, <2>4, SMT
  <2> QED BY <1>1, <2>5 DEF IInv, FilledInv
<1> QED BY <1>1, InductiveInvariant, PTL DEF Spec, EmptyIsHonest

(* "Full" is only reported of a full queue, or of one whose next slot a    *)
(* pop has claimed and not yet handed back.                                *)
THEOREM FullReportsAreHonest == Spec => FullIsHonest
<1>1. ASSUME IInv, [Next]_vars
      PROVE  [\A p \in Producers :
                pc[p] = "check" /\ pc'[p] = "idle" =>
                  \/ tail = head + Capacity
                  \/ \E c \in Consumers : Reading(c) /\ pos[c] = tail - Capacity]_vars
  <2> SUFFICES ASSUME NEW p \in Producers, pc[p] = "check", pc'[p] = "idle",
                      tail # head + Capacity
               PROVE  \E c \in Consumers : Reading(c) /\ pos[c] = tail - Capacity
    OBVIOUS
  <2>1. seq[Index(pos[p])] < pos[p]  BY <1>1, GivingUp
  <2>2. /\ head \in Nat /\ tail \in Nat /\ tail <= head + Capacity /\ Capacity \in Nat
        /\ pos[p] \in Nat /\ pos[p] <= tail
    BY <1>1, QueueAssumption DEF IInv, TypeOK, Bounded, CasInv, Threads
  <2>3. seq[Index(pos[p])] \in Nat
    BY <1>1, <2>2, IndexFacts DEF IInv, TypeOK
  <2>4. pos[p] = tail
    <3> SUFFICES ASSUME pos[p] \in 0..tail-1 PROVE FALSE  BY <2>2, SMT
    <3>1. seq[Index(pos[p])] >= pos[p]  BY <1>1, StalePositions
    <3> QED BY <3>1, <2>1, <2>2, <2>3, SMT
  <2>5. tail \in tail..head+Capacity-1 /\ seq[Index(tail)] # tail
    BY <2>1, <2>2, <2>3, <2>4, SMT
  <2> QED BY <1>1, <2>5 DEF IInv, FreeInv
<1> QED BY <1>1, InductiveInvariant, PTL DEF Spec, FullIsHonest

(* The instances count with a Cardinality of their own, which is the same. *)
LEMMA SameSizes ==
  \A S : /\ P!IsFiniteSet(S) <=> IsFiniteSet(S)
         /\ A!IsFiniteSet(S) <=> IsFiniteSet(S)
         /\ C!IsFiniteSet(S) <=> IsFiniteSet(S)
         /\ P!Cardinality(S) = Cardinality(S)
         /\ A!Cardinality(S) = Cardinality(S)
         /\ C!Cardinality(S) = Cardinality(S)
BY DEF P!IsFiniteSet, A!IsFiniteSet, C!IsFiniteSet, IsFiniteSet,
       P!Cardinality, A!Cardinality, C!Cardinality, Cardinality

-----------------------------------------------------------------------------
(* The free list of indices.  What nobody holds and nobody is giving back  *)
(* is a list without repetition from the first free index on (ListOK); an  *)
(* allocation that has read what follows the first index has read what     *)
(* still follows it when its CAS succeeds, as each value of head_ has a    *)
(* generation of its own (TagsOK, ReadOK).                                 *)

(* What nobody holds and nobody is giving back. *)
Giving(t) == step[t] \in {"load", "link", "give"}
HeldByAny == UNION {held[t] : t \in Producers}
Unheld == P!Indices \ (P!Between \cup HeldByAny)

Heads == [index : P!Indices \cup {None}, tag : Nat]

PoolTypes ==
  /\ first \in Heads /\ next \in [P!Indices -> P!Indices \cup {None}]
  /\ live \in SUBSET P!Indices /\ free \in Int
  /\ step \in [Producers -> {"idle", "look", "take", "mark", "taken", "load", "link", "give", "given"}]
  /\ seen \in [Producers -> Heads] /\ after \in [Producers -> P!Indices \cup {None}]
  /\ giving \in [Producers -> P!Indices \cup {None}]
  /\ held \in [Producers -> SUBSET P!Indices] /\ calls \in Nat

(* Each value of head_ has a generation of its own. *)
TagsOK ==
  \A t \in Producers :
    /\ seen[t].tag <= first.tag
    /\ seen[t].tag = first.tag => seen[t].index = first.index

(* Every index is on the list, in one hand, or about to be given back.     *)
HandsOK ==
  /\ \A t, u \in Producers : t # u => held[t] \cap held[u] = {}
  /\ \A t \in Producers : step[t] \in {"mark", "taken"} => seen[t].index \in held[t]
  /\ \A t \in Producers : Giving(t) => giving[t] \in P!Indices
     /\ \A u \in Producers : giving[t] \notin held[u]
  /\ \A t, u \in Producers : Giving(t) /\ Giving(u) /\ giving[t] = giving[u] => t = u
  /\ live = HeldByAny \ {seen[t].index : t \in {u \in Producers : step[u] = "mark"}}

(* What a thread has read is so for as long as its CAS can succeed.        *)
ReadOK ==
  \A t \in Producers :
    /\ step[t] = "take" => seen[t].index \in P!Indices
    /\ step[t] = "take" /\ seen[t] = first => after[t] = next[seen[t].index]
    /\ step[t] = "give" => next[giving[t]] = seen[t].index

(* The indices s[0], ..., s[n-1] are the list.                             *)
PlaceIn(s, n, k) == IF k < n THEN s[k] ELSE None
IsList(s, n) ==
  /\ \A k, m \in 0..n-1 : s[k] = s[m] => k = m
  /\ first.index = PlaceIn(s, n, 0)
  /\ \A k \in 0..n-1 : next[s[k]] = PlaceIn(s, n, k + 1)
  /\ {s[k] : k \in 0..n-1} = Unheld

ListOK == \E n \in Nat : \E s \in [0..n-1 -> P!Indices] : IsList(s, n)

Holding == {t \in Producers : step[t] \in {"mark", "taken"}}
Given   == {t \in Producers : step[t] = "given"}
CountOK == free = Cardinality(Unheld) + Cardinality(Holding) - Cardinality(Given)

PoolInv == PoolTypes /\ TagsOK /\ HandsOK /\ ReadOK /\ ListOK /\ CountOK

(* What PoolAssumption says of the constants. *)
LEMMA PoolFacts ==
  /\ Size \in Nat \ {0} /\ MaxCalls \in Nat /\ None \notin P!Indices /\ IsFiniteSet(Producers)
BY MCAssumption, SameSizes DEF MCAssumption, P!PoolAssumption, P!Indices

(* The threads that have taken or given are finitely many. *)
LEMMA PoolSizes ==
  /\ IsFiniteSet(P!Indices) /\ Cardinality(P!Indices) = Size
  /\ IsFiniteSet(Unheld) /\ Cardinality(Unheld) \in Nat
  /\ IsFiniteSet(Holding) /\ Cardinality(Holding) \in Nat
  /\ IsFiniteSet(Given) /\ Cardinality(Given) \in Nat
<1>1. IsFiniteSet(P!Indices) /\ Cardinality(P!Indices) = Size
  <2>1. 0 \in Int /\ Size - 1 \in Int /\ ~ (0 > Size - 1) /\ Size - 1 - 0 + 1 = Size
    BY PoolFacts
  <2>2. QED
    BY <2>1, FS_Interval DEF P!Indices
<1>2. Unheld \subseteq P!Indices /\ Holding \subseteq Producers /\ Given \subseteq Producers
  BY DEF Unheld, Holding, Given
<1>3. QED
  BY <1>1, <1>2, PoolFacts, FS_Subset, FS_CardinalityType

(* What Pack makes of an index and a generation. *)
LEMMA PackFacts ==
  ASSUME NEW i, NEW g \in Nat
  PROVE  P!Pack(i, g).index = i /\ P!Pack(i, g).tag \in Nat /\ P!Pack(i, g).tag >= g
         /\ (i \in P!Indices \cup {None} => P!Pack(i, g) \in Heads)
BY DEF P!Pack, Heads

(* What is between the hands is what a release under way is giving back. *)
LEMMA BetweenFacts ==
  ASSUME NEW i PROVE i \in P!Between <=> \E t \in Producers : Giving(t) /\ giving[t] = i
BY DEF P!Between, Giving

(* The list is as it was when nothing on it has changed. *)
LEMMA SameList ==
  ASSUME ListOK, first' = first, Unheld' = Unheld, \A i \in Unheld : next'[i] = next[i]
  PROVE  ListOK'
<1>0. PICK n \in Nat : \E s \in [0..n-1 -> P!Indices] : IsList(s, n)
  BY DEF ListOK
<1>1. PICK s \in [0..n-1 -> P!Indices] : IsList(s, n)
  BY <1>0
<1>2. \A k \in 0..n-1 : s[k] \in Unheld
  BY <1>1 DEF IsList
<1>3. IsList(s, n)'
  BY <1>1, <1>2 DEF IsList, PlaceIn
<1>4. QED
  BY <1>1, <1>3 DEF ListOK

(* Steps of threads that leave the pool and who holds what alone.          *)
Quiet ==
  /\ UNCHANGED <<first, next, live, free, giving, held>>
  /\ \A t \in Producers :
       /\ Giving(t)' = Giving(t)
       /\ step'[t] \in {"mark", "taken"} <=> step[t] \in {"mark", "taken"}
       /\ step'[t] = "mark" <=> step[t] = "mark"
       /\ step'[t] = "given" <=> step[t] = "given"
       /\ step[t] \in {"mark", "taken"} => seen'[t] = seen[t]

(* A step that takes and gives nothing keeps the invariant. *)
LEMMA QuietKeeps ==
  ASSUME Quiet, HandsOK, ListOK, CountOK
  PROVE  HandsOK' /\ ListOK' /\ CountOK'
<1>1. P!Between' = P!Between /\ HeldByAny' = HeldByAny /\ Unheld' = Unheld
  BY DEF Quiet, P!Between, HeldByAny, Unheld, Giving
<1>2. HandsOK'
  BY <1>1 DEF Quiet, HandsOK
<1>3. ListOK'
  BY <1>1, SameList DEF Quiet
<1>4. Holding' = Holding /\ Given' = Given
  BY DEF Quiet, Holding, Given
<1>5. CountOK'
  BY <1>1, <1>4 DEF Quiet, CountOK
<1>6. QED
  BY <1>2, <1>3, <1>5

(* The first list has every index, in order. *)
LEMMA InitPool == P!Init => PoolInv
<1> SUFFICES ASSUME P!Init PROVE PoolInv
  OBVIOUS
<1>1. first \in Heads /\ first.index = 0 /\ 0 \in P!Indices
  BY PoolFacts, PackFacts DEF P!Init, P!Indices
<1>2. PoolTypes
  BY <1>1, PoolFacts DEF P!Init, PoolTypes, P!Indices
<1>3. TagsOK /\ ReadOK
  BY <1>1 DEF P!Init, TagsOK, ReadOK, Heads
<1>4. P!Between = {} /\ HeldByAny = {} /\ Unheld = P!Indices
  BY DEF P!Init, P!Between, HeldByAny, Unheld
<1>5. HandsOK
  BY <1>4 DEF P!Init, HandsOK, Giving
<1>6. ListOK
  <2> DEFINE s == [k \in 0..Size-1 |-> k]
  <2>1. s \in [0..Size-1 -> P!Indices] /\ Size \in Nat
    BY PoolFacts DEF P!Indices
  <2>2. \A k \in 0..Size-1 : next[s[k]] = PlaceIn(s, Size, k + 1)
    BY PoolFacts DEF P!Init, PlaceIn, P!Indices
  <2>3. {s[k] : k \in 0..Size-1} = Unheld
    BY <1>4 DEF P!Indices
  <2>4. first.index = PlaceIn(s, Size, 0)
    BY <1>1, PoolFacts DEF PlaceIn
  <2>5. IsList(s, Size)
    BY <2>2, <2>3, <2>4 DEF IsList
  <2>6. QED
    BY <2>1, <2>5 DEF ListOK
<1>7. CountOK
  <2>1. Holding = {} /\ Given = {}
    BY DEF P!Init, Holding, Given
  <2>2. QED
    BY <1>4, <2>1, PoolSizes, PoolFacts, FS_EmptySet DEF P!Init, CountOK
<1>8. QED
  BY <1>2, <1>3, <1>5, <1>6, <1>7 DEF PoolInv

(* allocate reads head_. *)
LEMMA AllocateKeeps ==
  ASSUME NEW t \in Producers, PoolInv, P!Allocate(t)
  PROVE  PoolInv'
<1> USE DEF PoolInv
<1>1. PoolTypes'
  BY DEF P!Allocate, P!Call, P!Go, PoolTypes, Heads
<1>2. TagsOK'
  BY DEF P!Allocate, P!Call, P!Go, PoolTypes, Heads, TagsOK
<1>3. Quiet
  BY DEF P!Allocate, P!Call, P!Go, PoolTypes, Quiet, Giving
<1>4. ReadOK'
  BY DEF P!Allocate, P!Call, P!Go, PoolTypes, Heads, TagsOK, ReadOK
<1>5. QED
  BY <1>1, <1>2, <1>3, <1>4, QuietKeeps

(* allocate finds the list empty. *)
LEMMA ExhaustedKeeps ==
  ASSUME NEW t \in Producers, PoolInv, P!Exhausted(t)
  PROVE  PoolInv'
<1> USE DEF PoolInv
<1>1. PoolTypes'
  BY DEF P!Exhausted, P!Go, PoolTypes, Heads
<1>2. TagsOK'
  BY DEF P!Exhausted, P!Go, PoolTypes, Heads, TagsOK
<1>3. Quiet
  BY DEF P!Exhausted, P!Go, PoolTypes, Quiet, Giving
<1>4. ReadOK'
  BY DEF P!Exhausted, P!Go, PoolTypes, Heads, TagsOK, ReadOK
<1>5. QED
  BY <1>1, <1>2, <1>3, <1>4, QuietKeeps

(* allocate reads what follows the first index. *)
LEMMA FollowKeeps ==
  ASSUME NEW t \in Producers, PoolInv, P!Follow(t)
  PROVE  PoolInv'
<1> USE DEF PoolInv
<1>1. PoolTypes'
  BY DEF P!Follow, P!Go, PoolTypes, Heads
<1>2. TagsOK'
  BY DEF P!Follow, P!Go, PoolTypes, Heads, TagsOK
<1>3. Quiet
  BY DEF P!Follow, P!Go, PoolTypes, Quiet, Giving
<1>4. ReadOK'
  BY DEF P!Follow, P!Go, PoolTypes, Heads, TagsOK, ReadOK
<1>5. QED
  BY <1>1, <1>2, <1>3, <1>4, QuietKeeps

(* allocate loses the CAS on head_ and reads it again. *)
LEMMA TakeLostKeeps ==
  ASSUME NEW t \in Producers, PoolInv, P!TakeLost(t)
  PROVE  PoolInv'
<1> USE DEF PoolInv
<1>1. PoolTypes'
  BY DEF P!TakeLost, P!Go, PoolTypes, Heads
<1>2. TagsOK'
  BY DEF P!TakeLost, P!Go, PoolTypes, Heads, TagsOK
<1>3. Quiet
  BY DEF P!TakeLost, P!Go, PoolTypes, Quiet, Giving
<1>4. ReadOK'
  BY DEF P!TakeLost, P!Go, PoolTypes, Heads, TagsOK, ReadOK
<1>5. QED
  BY <1>1, <1>2, <1>3, <1>4, QuietKeeps

(* release reads head_. *)
LEMMA LoadKeeps ==
  ASSUME NEW t \in Producers, PoolInv, P!Load(t)
  PROVE  PoolInv'
<1> USE DEF PoolInv
<1>1. PoolTypes'
  BY DEF P!Load, P!Go, PoolTypes, Heads
<1>2. TagsOK'
  BY DEF P!Load, P!Go, PoolTypes, Heads, TagsOK
<1>3. Quiet
  BY DEF P!Load, P!Go, PoolTypes, Quiet, Giving
<1>4. ReadOK'
  BY DEF P!Load, P!Go, PoolTypes, Heads, TagsOK, ReadOK
<1>5. QED
  BY <1>1, <1>2, <1>3, <1>4, QuietKeeps

(* release loses the CAS on head_ and reads it again. *)
LEMMA GiveLostKeeps ==
  ASSUME NEW t \in Producers, PoolInv, P!GiveLost(t)
  PROVE  PoolInv'
<1> USE DEF PoolInv
<1>1. PoolTypes'
  BY DEF P!GiveLost, P!Go, PoolTypes, Heads
<1>2. TagsOK'
  BY DEF P!GiveLost, P!Go, PoolTypes, Heads, TagsOK
<1>3. Quiet
  BY DEF P!GiveLost, P!Go, PoolTypes, Quiet, Giving
<1>4. ReadOK'
  BY DEF P!GiveLost, P!Go, PoolTypes, Heads, TagsOK, ReadOK
<1>5. QED
  BY <1>1, <1>2, <1>3, <1>4, QuietKeeps

(* release of an index that is not live does nothing. *)
LEMMA ReleaseAgainKeeps ==
  ASSUME NEW t \in Producers, NEW i \in P!Indices, PoolInv, P!ReleaseAgain(t, i)
  PROVE  PoolInv'
<1> USE DEF PoolInv, P!ReleaseAgain, P!Call, P!Go
<1>1. step' = step
  BY DEF PoolTypes
<1>2. PoolTypes' /\ TagsOK' /\ ReadOK'
  BY <1>1 DEF PoolTypes, TagsOK, ReadOK
<1>3. Quiet
  BY <1>1 DEF Quiet, Giving
<1>4. QED
  BY <1>2, <1>3, QuietKeeps

(* Counting: a set loses or gets one thread. *)
LEMMA OneMore ==
  ASSUME NEW S, IsFiniteSet(S), NEW x, x \notin S, NEW Y, Y = S \cup {x}
  PROVE  Cardinality(Y) = Cardinality(S) + 1
BY FS_AddElement

(* A finite set without one of its elements has one element less. *)
LEMMA OneLess ==
  ASSUME NEW S, IsFiniteSet(S), NEW x \in S, NEW Y, Y = S \ {x}
  PROVE  Cardinality(Y) = Cardinality(S) - 1
BY FS_RemoveElement

(* allocate marks the index it has taken as live. *)
LEMMA MarkKeeps ==
  ASSUME NEW t \in Producers, PoolInv, P!Mark(t)
  PROVE  PoolInv'
<1> USE DEF PoolInv, P!Mark, P!Go
<1>1. seen[t].index \in held[t] /\ seen[t].index \in P!Indices
  BY DEF PoolTypes, HandsOK
<1>2. PoolTypes'
  BY <1>1 DEF PoolTypes
<1>3. TagsOK' /\ ReadOK'
  BY DEF PoolTypes, TagsOK, ReadOK
<1>4. P!Between' = P!Between /\ HeldByAny' = HeldByAny /\ Unheld' = Unheld
  <2>1. \A u \in Producers : Giving(u)' = Giving(u)
    BY DEF PoolTypes, Giving
  <2>2. HeldByAny' = HeldByAny
    BY DEF HeldByAny
  <2>3. P!Between' = P!Between
    BY <2>1 DEF P!Between, Giving
  <2>4. QED
    BY <2>2, <2>3 DEF Unheld
<1>5. HandsOK'
  <2>1. live' = HeldByAny' \ {seen'[u].index : u \in {v \in Producers : step'[v] = "mark"}}
    <3>1. {v \in Producers : step'[v] = "mark"} = {v \in Producers : step[v] = "mark"} \ {t}
      BY DEF PoolTypes
    <3>2. seen[t].index \in HeldByAny
      BY <1>1 DEF HeldByAny
    <3>3. \A v \in Producers : step[v] = "mark" /\ v # t => seen[v].index # seen[t].index
      BY <1>1 DEF HandsOK
    <3>4. live = HeldByAny \ {seen[u].index : u \in {v \in Producers : step[v] = "mark"}}
      BY DEF HandsOK
    <3>5. QED
      BY <1>4, <3>1, <3>2, <3>3, <3>4
  <2>2. \A u \in Producers : step'[u] \in {"mark", "taken"} => step[u] \in {"mark", "taken"}
    BY DEF PoolTypes
  <2>3. \A u \in Producers : Giving(u)' = Giving(u)
    BY DEF PoolTypes, Giving
  <2>4. QED
    BY <2>1, <2>2, <2>3 DEF HandsOK
<1>6. ListOK'
  BY <1>4, SameList
<1>7. CountOK'
  <2>1. Holding' = Holding /\ Given' = Given
    BY DEF PoolTypes, Holding, Given
  <2>2. QED
    BY <1>4, <2>1 DEF CountOK
<1>8. QED
  BY <1>2, <1>3, <1>5, <1>6, <1>7

(* allocate counts the index it has taken. *)
LEMMA CountTakenKeeps ==
  ASSUME NEW t \in Producers, PoolInv, P!CountTaken(t)
  PROVE  PoolInv'
<1> USE DEF PoolInv, P!CountTaken, P!Go
<1>1. PoolTypes' /\ TagsOK' /\ ReadOK'
  BY DEF PoolTypes, TagsOK, ReadOK
<1>2. P!Between' = P!Between /\ HeldByAny' = HeldByAny /\ Unheld' = Unheld
  <2>1. \A u \in Producers : Giving(u)' = Giving(u)
    BY DEF PoolTypes, Giving
  <2>2. HeldByAny' = HeldByAny
    BY DEF HeldByAny
  <2>3. P!Between' = P!Between
    BY <2>1 DEF P!Between, Giving
  <2>4. QED
    BY <2>2, <2>3 DEF Unheld
<1>3. HandsOK'
  <2>1. {v \in Producers : step'[v] = "mark"} = {v \in Producers : step[v] = "mark"}
    BY DEF PoolTypes
  <2>2. \A u \in Producers : step'[u] \in {"mark", "taken"} => step[u] \in {"mark", "taken"}
    BY DEF PoolTypes
  <2>3. \A u \in Producers : Giving(u)' = Giving(u)
    BY DEF PoolTypes, Giving
  <2>4. QED
    BY <1>2, <2>1, <2>2, <2>3 DEF HandsOK
<1>4. ListOK'
  BY <1>2, SameList
<1>5. CountOK'
  <2>1. t \in Holding /\ Holding' = Holding \ {t} /\ Given' = Given
    BY DEF PoolTypes, Holding, Given
  <2>2. Cardinality(Holding') = Cardinality(Holding) - 1
    BY <2>1, PoolSizes, OneLess
  <2>3. QED
    BY <1>2, <2>1, <2>2, PoolSizes DEF PoolTypes, CountOK
<1>6. QED
  BY <1>1, <1>3, <1>4, <1>5

(* release counts the index it has given back. *)
LEMMA CountGivenKeeps ==
  ASSUME NEW t \in Producers, PoolInv, P!CountGiven(t)
  PROVE  PoolInv'
<1> USE DEF PoolInv, P!CountGiven, P!Go
<1>1. PoolTypes' /\ TagsOK' /\ ReadOK'
  BY DEF PoolTypes, TagsOK, ReadOK
<1>2. \A u \in Producers : Giving(u)' = Giving(u) /\ (Giving(u) => giving'[u] = giving[u])
  BY DEF PoolTypes, Giving
<1>3. P!Between' = P!Between /\ HeldByAny' = HeldByAny /\ Unheld' = Unheld
  <2>1. HeldByAny' = HeldByAny
    BY DEF HeldByAny
  <2>2. P!Between' = P!Between
    BY <1>2 DEF P!Between, Giving
  <2>3. QED
    BY <2>1, <2>2 DEF Unheld
<1>4. HandsOK'
  <2>1. {v \in Producers : step'[v] = "mark"} = {v \in Producers : step[v] = "mark"}
    BY DEF PoolTypes
  <2>2. \A u \in Producers : step'[u] \in {"mark", "taken"} => step[u] \in {"mark", "taken"}
    BY DEF PoolTypes
  <2>3. QED
    BY <1>2, <1>3, <2>1, <2>2 DEF HandsOK
<1>5. ListOK'
  BY <1>3, SameList
<1>6. CountOK'
  <2>1. t \in Given /\ Given' = Given \ {t} /\ Holding' = Holding
    BY DEF PoolTypes, Holding, Given
  <2>2. Cardinality(Given') = Cardinality(Given) - 1
    BY <2>1, PoolSizes, OneLess
  <2>3. QED
    BY <1>3, <2>1, <2>2, PoolSizes DEF PoolTypes, CountOK
<1>7. QED
  BY <1>1, <1>4, <1>5, <1>6

(* allocate wins its CAS: the list loses its first index.  The read of what *)
(* follows it is still true, as head_ has had one value since.             *)
LEMMA TakeKeeps ==
  ASSUME NEW t \in Producers, PoolInv, P!Take(t)
  PROVE  PoolInv'
<1> USE DEF PoolInv, P!Take, P!Go
<1> DEFINE i == seen[t].index
<1>1. /\ step[t] = "take" /\ first = seen[t] /\ i \in P!Indices /\ first.index = i
      /\ after[t] = next[i] /\ first.tag \in Nat
  BY DEF PoolTypes, ReadOK, Heads
<1>2. /\ first'.index = next[i] /\ first'.tag \in Nat /\ first'.tag > first.tag
         /\ first' \in Heads
  BY <1>1, PackFacts DEF PoolTypes, Heads
<1>3. /\ step' = [step EXCEPT ![t] = "mark"]
      /\ held' = [held EXCEPT ![t] = @ \cup {i}]
      /\ UNCHANGED <<next, live, free, seen, after, giving, calls>>
  BY DEF PoolTypes
<1>4. PICK n \in Nat : \E s \in [0..n-1 -> P!Indices] : IsList(s, n)
  BY DEF ListOK
<1>5. PICK s \in [0..n-1 -> P!Indices] : IsList(s, n)
  BY <1>4
<1>6. n > 0 /\ s[0] = i
  BY <1>1, <1>5, PoolFacts DEF IsList, PlaceIn
<1>7. i \in Unheld
  BY <1>5, <1>6 DEF IsList
<1>8. \A u \in Producers : i \notin held[u] /\ (Giving(u) => giving[u] # i)
  BY <1>7, BetweenFacts DEF Unheld, HeldByAny
<1>9. /\ held'[t] = held[t] \cup {i} /\ \A u \in Producers : u # t => held'[u] = held[u]
      /\ HeldByAny' = HeldByAny \cup {i} /\ \A u \in Producers : Giving(u)' = Giving(u)
  <2>1. held'[t] = held[t] \cup {i} /\ \A u \in Producers : u # t => held'[u] = held[u]
    BY <1>3 DEF PoolTypes
  <2>2. HeldByAny' = HeldByAny \cup {i}
    BY <2>1 DEF HeldByAny
  <2>3. \A u \in Producers : Giving(u)' = Giving(u)
    BY <1>1, <1>3 DEF PoolTypes, Giving
  <2>4. QED
    BY <2>1, <2>2, <2>3
<1>10. P!Between' = P!Between /\ Unheld' = Unheld \ {i}
  <2>1. P!Between' = P!Between
    BY <1>3, <1>9 DEF P!Between, Giving
  <2>2. QED
    BY <1>9, <2>1 DEF Unheld
<1>11. PoolTypes'
  BY <1>1, <1>2, <1>3 DEF PoolTypes
<1>12. TagsOK'
  BY <1>1, <1>2, <1>3 DEF TagsOK, PoolTypes, Heads
<1>13. HandsOK'
  <2>1. \A u, v \in Producers : u # v => held'[u] \cap held'[v] = {}
    BY <1>8, <1>9 DEF HandsOK
  <2>2. \A u \in Producers : step'[u] \in {"mark", "taken"} => seen'[u].index \in held'[u]
    BY <1>3, <1>9 DEF HandsOK, PoolTypes
  <2>3. \A u \in Producers : Giving(u)' =>
           giving'[u] \in P!Indices /\ \A v \in Producers : giving'[u] \notin held'[v]
    BY <1>3, <1>8, <1>9 DEF HandsOK
  <2>4. \A u, v \in Producers : Giving(u)' /\ Giving(v)' /\ giving'[u] = giving'[v] => u = v
    BY <1>3, <1>9 DEF HandsOK
  <2>5. live' = HeldByAny' \ {seen'[u].index : u \in {v \in Producers : step'[v] = "mark"}}
    <3>1. {v \in Producers : step'[v] = "mark"} = {v \in Producers : step[v] = "mark"} \cup {t}
      BY <1>3 DEF PoolTypes
    <3>2. i \notin HeldByAny
      BY <1>8 DEF HeldByAny
    <3>3. live = HeldByAny \ {seen[u].index : u \in {v \in Producers : step[v] = "mark"}}
      BY DEF HandsOK
    <3>4. QED
      BY <1>3, <1>9, <3>1, <3>2, <3>3
  <2>6. QED
    BY <2>1, <2>2, <2>3, <2>4, <2>5 DEF HandsOK
<1>14. ReadOK'
  BY <1>2, <1>3 DEF ReadOK, TagsOK, PoolTypes, Heads
<1>15. ListOK'
  <2> DEFINE r == [k \in 0..(n-1)-1 |-> s[k + 1]]
  <2>1. n - 1 \in Nat /\ r \in [0..(n-1)-1 -> P!Indices]
    BY <1>6
  <2>2. \A k, m \in 0..n-1 : s[k] = s[m] => k = m
    BY <1>5 DEF IsList
  <2>3. \A k, m \in 0..(n-1)-1 : r[k] = r[m] => k = m
    <3> TAKE k, m \in 0..(n-1)-1
    <3>1. k + 1 \in 0..n-1 /\ m + 1 \in 0..n-1 /\ r[k] = s[k+1] /\ r[m] = s[m+1]
      BY <1>6
    <3>2. QED
      BY <2>2, <3>1
  <2>4. first'.index = PlaceIn(r, n-1, 0)
    <3>1. next[s[0]] = PlaceIn(s, n, 1)
      BY <1>5, <1>6 DEF IsList
    <3>2. QED
      BY <1>2, <1>6, <3>1 DEF PlaceIn
  <2>5. \A k \in 0..(n-1)-1 : next'[r[k]] = PlaceIn(r, n-1, k + 1)
    <3> TAKE k \in 0..(n-1)-1
    <3>1. k + 1 \in 0..n-1 /\ r[k] = s[k+1]
      BY <1>6
    <3>2. next[s[k+1]] = PlaceIn(s, n, k + 2)
      BY <1>5, <3>1 DEF IsList
    <3>3. QED
      BY <1>3, <1>6, <3>1, <3>2 DEF PlaceIn
  <2>6. {r[k] : k \in 0..(n-1)-1} = Unheld'
    <3>1. ASSUME NEW k \in 0..(n-1)-1 PROVE r[k] \in Unheld \ {i}
      <4>1. k + 1 \in 0..n-1 /\ 0 \in 0..n-1 /\ k + 1 # 0 /\ r[k] = s[k+1]
        BY <1>6
      <4>2. s[k+1] # s[0] /\ s[k+1] \in Unheld
        BY <1>5, <2>2, <4>1 DEF IsList
      <4>3. QED
        BY <1>6, <4>1, <4>2
    <3>2. ASSUME NEW j \in Unheld \ {i} PROVE \E k \in 0..(n-1)-1 : r[k] = j
      <4>1. PICK k \in 0..n-1 : s[k] = j
        BY <1>5 DEF IsList
      <4>2. k # 0 /\ k - 1 \in 0..(n-1)-1 /\ (k - 1) + 1 = k
        BY <1>6, <4>1
      <4>3. QED
        BY <4>1, <4>2
    <3>3. QED
      BY <1>10, <3>1, <3>2
  <2>7. IsList(r, n-1)'
    <3> HIDE DEF r
    <3>1. QED
      BY <2>3, <2>4, <2>5, <2>6 DEF IsList, PlaceIn
  <2>8. QED
    BY <2>1, <2>7 DEF ListOK
<1>16. CountOK'
  <2>1. t \notin Holding /\ Holding' = Holding \cup {t} /\ Given' = Given
    BY <1>1, <1>3 DEF PoolTypes, Holding, Given
  <2>2. Cardinality(Holding') = Cardinality(Holding) + 1
    BY <2>1, PoolSizes, OneMore
  <2>3. Cardinality(Unheld') = Cardinality(Unheld) - 1
    BY <1>7, <1>10, PoolSizes, OneLess
  <2>4. QED
    BY <1>3, <2>1, <2>2, <2>3, PoolSizes DEF PoolTypes, CountOK
<1>17. QED
  BY <1>11, <1>12, <1>13, <1>14, <1>15, <1>16

(* release of a live index takes it out of the hand that has it. *)
LEMMA ReleaseKeeps ==
  ASSUME NEW t \in Producers, NEW i \in P!Indices, PoolInv, P!Release(t, i)
  PROVE  PoolInv'
<1> USE DEF PoolInv, P!Release, P!Call, P!Go
<1>1. PICK v \in Producers : i \in held[v] \ (IF step[v] \in {"mark", "taken"} THEN {seen[v].index} ELSE {})
  BY DEF P!Returned
<1>2. /\ step[t] = "idle" /\ step' = [step EXCEPT ![t] = "load"]
      /\ giving' = [giving EXCEPT ![t] = i] /\ live' = live \ {i}
      /\ held' = [u \in Producers |-> held[u] \ {i}]
      /\ UNCHANGED <<first, next, free, seen, after>>
  OBVIOUS
<1>3. PoolTypes'
  BY <1>2, PoolFacts DEF PoolTypes
<1>4. TagsOK' /\ ReadOK'
  BY <1>2 DEF PoolTypes, TagsOK, ReadOK
<1>5. \A u \in Producers : i \in held[u] => u = v
  BY <1>1 DEF HandsOK
<1>6. \A u \in Producers : step[u] \in {"mark", "taken"} => seen[u].index # i
  BY <1>1, <1>5 DEF HandsOK
<1>7. \A u \in Producers : Giving(u) => u # t /\ giving[u] # i
  BY <1>1, <1>2 DEF HandsOK, Giving
<1>8. /\ Giving(t)' /\ giving'[t] = i
      /\ \A u \in Producers : u # t => Giving(u)' = Giving(u) /\ giving'[u] = giving[u]
  BY <1>2 DEF PoolTypes, Giving
<1>9. P!Between' = P!Between \cup {i} /\ HeldByAny' = HeldByAny \ {i} /\ i \in HeldByAny
  <2>1. ASSUME NEW j
        PROVE  j \in P!Between' <=> \E u \in Producers : Giving(u)' /\ giving'[u] = j
    BY DEF P!Between, Giving
  <2>2. P!Between' = P!Between \cup {i}
    BY <1>7, <1>8, <2>1, BetweenFacts
  <2>3. HeldByAny' = HeldByAny \ {i} /\ i \in HeldByAny
    BY <1>1, <1>2 DEF HeldByAny
  <2>4. QED
    BY <2>2, <2>3
<1>10. Unheld' = Unheld
  BY <1>9 DEF Unheld
<1>11. HandsOK'
  <2>1. \A u, x \in Producers : u # x => held'[u] \cap held'[x] = {}
    BY <1>2 DEF HandsOK
  <2>2. \A u \in Producers : step'[u] \in {"mark", "taken"} =>
           step[u] \in {"mark", "taken"} /\ seen'[u].index \in held'[u]
    BY <1>2, <1>6 DEF HandsOK, PoolTypes
  <2>3. \A u \in Producers : Giving(u)' =>
           giving'[u] \in P!Indices /\ \A x \in Producers : giving'[u] \notin held'[x]
    BY <1>2, <1>8 DEF HandsOK
  <2>4. \A u, x \in Producers : Giving(u)' /\ Giving(x)' /\ giving'[u] = giving'[x] => u = x
    BY <1>7, <1>8 DEF HandsOK
  <2>5. live' = HeldByAny' \ {seen'[u].index : u \in {x \in Producers : step'[x] = "mark"}}
    <3>1. {x \in Producers : step'[x] = "mark"} = {x \in Producers : step[x] = "mark"}
      BY <1>2 DEF PoolTypes
    <3>2. live = HeldByAny \ {seen[u].index : u \in {x \in Producers : step[x] = "mark"}}
      BY DEF HandsOK
    <3>3. QED
      BY <1>2, <1>9, <3>1, <3>2
  <2>6. QED
    BY <2>1, <2>2, <2>3, <2>4, <2>5 DEF HandsOK
<1>12. ListOK'
  BY <1>2, <1>10, SameList
<1>13. CountOK'
  <2>1. Holding' = Holding /\ Given' = Given
    BY <1>2 DEF PoolTypes, Holding, Given
  <2>2. QED
    BY <1>2, <1>10, <2>1 DEF CountOK
<1>14. QED
  BY <1>3, <1>4, <1>11, <1>12, <1>13

(* release links the index before what it saw as the first. *)
LEMMA LinkKeeps ==
  ASSUME NEW t \in Producers, PoolInv, P!Link(t)
  PROVE  PoolInv'
<1> USE DEF PoolInv, P!Link, P!Go
<1>1. /\ step[t] = "link" /\ step' = [step EXCEPT ![t] = "give"]
      /\ next' = [next EXCEPT ![giving[t]] = seen[t].index]
      /\ UNCHANGED <<first, live, free, seen, after, giving, held, calls>>
  OBVIOUS
<1>2. Giving(t) /\ giving[t] \in P!Indices
  BY <1>1 DEF Giving, HandsOK
<1>3. PoolTypes' /\ TagsOK'
  BY <1>1, <1>2 DEF PoolTypes, TagsOK, Heads
<1>4. \A u \in Producers : Giving(u)' = Giving(u)
  BY <1>1 DEF PoolTypes, Giving
<1>5. P!Between' = P!Between /\ HeldByAny' = HeldByAny /\ Unheld' = Unheld
  <2>1. P!Between' = P!Between /\ HeldByAny' = HeldByAny
    BY <1>1, <1>4 DEF P!Between, HeldByAny, Giving
  <2>2. QED
    BY <2>1 DEF Unheld
<1>6. giving[t] \notin Unheld
  BY <1>2, BetweenFacts DEF Unheld
<1>7. ListOK'
  <2>1. \A i \in Unheld : next'[i] = next[i]
    BY <1>1, <1>6 DEF PoolTypes, Unheld
  <2>2. QED
    BY <1>1, <1>5, <2>1, SameList
<1>8. first.index \in P!Indices => first.index \in Unheld
  <2>1. PICK n \in Nat : \E s \in [0..n-1 -> P!Indices] : IsList(s, n)
    BY DEF ListOK
  <2>2. PICK s \in [0..n-1 -> P!Indices] : IsList(s, n)
    BY <2>1
  <2>3. first.index \in P!Indices => 0 \in 0..n-1 /\ s[0] = first.index
    BY <2>1, <2>2, PoolFacts DEF IsList, PlaceIn
  <2>4. QED
    BY <2>2, <2>3 DEF IsList
<1>9. ReadOK'
  <2>1. ASSUME NEW u \in Producers, step'[u] = "give" PROVE next'[giving[u]] = seen[u].index
    <3>1. CASE u = t
      BY <1>1, <1>2, <3>1 DEF PoolTypes
    <3>2. CASE u # t
      <4>1. step[u] = "give" /\ Giving(u)
        BY <1>1, <2>1, <3>2 DEF PoolTypes, Giving
      <4>2. giving[u] \in P!Indices /\ giving[u] # giving[t]
        BY <1>2, <3>2, <4>1 DEF HandsOK
      <4>3. QED
        BY <1>1, <4>1, <4>2 DEF PoolTypes, ReadOK
    <3>3. QED
      BY <3>1, <3>2
  <2>2. ASSUME NEW u \in Producers, step'[u] = "take"
        PROVE  seen[u].index \in P!Indices
               /\ (seen[u] = first => after[u] = next'[seen[u].index])
    <3>1. step[u] = "take" /\ seen[u].index \in P!Indices
      BY <1>1, <2>2 DEF PoolTypes, ReadOK
    <3>2. ASSUME seen[u] = first PROVE after[u] = next'[seen[u].index]
      <4>1. after[u] = next[seen[u].index] /\ seen[u].index # giving[t]
        BY <1>6, <1>8, <3>1, <3>2 DEF ReadOK
      <4>2. QED
        BY <1>1, <3>1, <4>1 DEF PoolTypes
    <3>3. QED
      BY <3>1, <3>2
  <2>3. QED
    BY <1>1, <2>1, <2>2 DEF ReadOK
<1>10. HandsOK'
  <2>1. \A u \in Producers : /\ step'[u] \in {"mark", "taken"} <=> step[u] \in {"mark", "taken"}
                             /\ step'[u] = "mark" <=> step[u] = "mark"
    BY <1>1 DEF PoolTypes
  <2>2. QED
    BY <1>1, <1>4, <1>5, <2>1 DEF HandsOK
<1>11. CountOK'
  <2>1. Holding' = Holding /\ Given' = Given
    BY <1>1 DEF PoolTypes, Holding, Given
  <2>2. QED
    BY <1>1, <1>5, <2>1 DEF CountOK
<1>12. QED
  BY <1>3, <1>7, <1>9, <1>10, <1>11

(* release wins its CAS: its index is the first of the list. *)
LEMMA GiveKeeps ==
  ASSUME NEW t \in Producers, PoolInv, P!Give(t)
  PROVE  PoolInv'
<1> USE DEF PoolInv, P!Give, P!Go
<1>0. PICK i \in P!Indices : i = giving[t]
  <2>1. Giving(t)
    BY DEF Giving
  <2>2. QED
    BY <2>1 DEF HandsOK
<1>1. /\ step[t] = "give" /\ first = seen[t] /\ step' = [step EXCEPT ![t] = "given"]
      /\ UNCHANGED <<next, live, free, seen, after, giving, held, calls>>
  OBVIOUS
<1>2. Giving(t) /\ next[i] = first.index /\ first.tag \in Nat
  BY <1>0, <1>1 DEF Giving, HandsOK, ReadOK, PoolTypes, Heads
<1>3. first'.index = i /\ first'.tag \in Nat /\ first'.tag > first.tag /\ first' \in Heads
  BY <1>0, <1>2, PackFacts
<1>4. \A u \in Producers : /\ u # t => Giving(u)' = Giving(u)
                           /\ ~ Giving(t)'
  BY <1>1 DEF PoolTypes, Giving
<1>5. HeldByAny' = HeldByAny /\ P!Between' = P!Between \ {i} /\ i \notin HeldByAny
      /\ i \in P!Between
  <2>1. HeldByAny' = HeldByAny
    BY <1>1 DEF HeldByAny
  <2>2. ASSUME NEW j
        PROVE  j \in P!Between' <=> \E u \in Producers : Giving(u)' /\ giving'[u] = j
    BY DEF P!Between, Giving
  <2>3. P!Between' = P!Between \ {i}
    BY <1>0, <1>1, <1>2, <1>4, <2>2, BetweenFacts DEF HandsOK
  <2>4. i \notin HeldByAny /\ i \in P!Between
    BY <1>0, <1>2, BetweenFacts DEF HeldByAny, HandsOK
  <2>5. QED
    BY <2>1, <2>3, <2>4
<1>6. Unheld' = Unheld \cup {i} /\ i \notin Unheld
  BY <1>5 DEF Unheld
<1>7. PoolTypes'
  BY <1>1, <1>3 DEF PoolTypes
<1>8. TagsOK'
  BY <1>1, <1>2, <1>3 DEF TagsOK, PoolTypes, Heads
<1>9. HandsOK'
  <2>1. \A u \in Producers : /\ step'[u] \in {"mark", "taken"} <=> step[u] \in {"mark", "taken"}
                             /\ step'[u] = "mark" <=> step[u] = "mark"
                             /\ Giving(u)' => Giving(u)
    BY <1>1, <1>4 DEF PoolTypes
  <2>2. QED
    BY <1>1, <1>5, <2>1 DEF HandsOK
<1>10. ReadOK'
  BY <1>1, <1>2, <1>3 DEF ReadOK, TagsOK, PoolTypes, Heads
<1>11. ListOK'
  <2>1. PICK n \in Nat : \E s \in [0..n-1 -> P!Indices] : IsList(s, n)
    BY DEF ListOK
  <2>2. PICK s \in [0..n-1 -> P!Indices] : IsList(s, n)
    BY <2>1
  <2> DEFINE r == [k \in 0..(n+1)-1 |-> IF k = 0 THEN i ELSE s[k - 1]]
  <2>3. n + 1 \in Nat /\ r \in [0..(n+1)-1 -> P!Indices]
    BY <1>2
  <2>4. r[0] = i /\ \A k \in 0..n-1 : k + 1 \in 0..(n+1)-1 /\ r[k + 1] = s[k]
    OBVIOUS
  <2>5. \A k \in 0..(n+1)-1 : k # 0 => k - 1 \in 0..n-1 /\ r[k] = s[k - 1]
    OBVIOUS
  <2>6. \A k \in 0..n-1 : s[k] \in Unheld /\ \A m \in 0..n-1 : s[k] = s[m] => k = m
    BY <2>2 DEF IsList
  <2>7. \A k, m \in 0..(n+1)-1 : r[k] = r[m] => k = m
    <3> TAKE k, m \in 0..(n+1)-1
    <3> HIDE DEF r
    <3>1. CASE k = 0
      BY <1>6, <2>4, <2>5, <2>6, <3>1
    <3>2. CASE m = 0
      BY <1>6, <2>4, <2>5, <2>6, <3>2
    <3>3. CASE k # 0 /\ m # 0
      <4>1. r[k] = r[m] => k - 1 = m - 1
        BY <2>5, <2>6, <3>3
      <4>2. QED
        BY <4>1
    <3>4. QED
      BY <3>1, <3>2, <3>3
  <2>8. first'.index = PlaceIn(r, n+1, 0)
    BY <1>3, <2>4 DEF PlaceIn
  <2>9. \A k \in 0..(n+1)-1 : next'[r[k]] = PlaceIn(r, n+1, k + 1)
    <3> TAKE k \in 0..(n+1)-1
    <3>1. CASE k = 0
      <4>1. next[i] = PlaceIn(s, n, 0)
        BY <1>2, <2>2 DEF IsList
      <4>2. QED
        BY <1>1, <2>4, <3>1, <4>1 DEF PlaceIn
    <3>2. CASE k # 0
      <4>1. k - 1 \in 0..n-1 /\ r[k] = s[k - 1] /\ (k - 1) + 1 = k
        BY <3>2
      <4>2. next[s[k - 1]] = PlaceIn(s, n, k)
        BY <2>2, <4>1 DEF IsList
      <4>3. PlaceIn(r, n+1, k + 1) = PlaceIn(s, n, k)
        BY <2>4, <3>2 DEF PlaceIn
      <4>4. QED
        BY <1>1, <4>1, <4>2, <4>3
    <3>3. QED
      BY <3>1, <3>2
  <2>10. {r[k] : k \in 0..(n+1)-1} = Unheld'
    <3>1. {s[k] : k \in 0..n-1} = Unheld
      BY <2>2 DEF IsList
    <3> HIDE DEF r
    <3>2. 0 \in 0..(n+1)-1
      OBVIOUS
    <3>3. QED
      BY <1>6, <2>4, <2>5, <3>1, <3>2
  <2>11. IsList(r, n+1)'
    <3> HIDE DEF r
    <3>1. QED
      BY <2>7, <2>8, <2>9, <2>10 DEF IsList, PlaceIn
  <2>12. QED
    BY <2>3, <2>11 DEF ListOK
<1>12. CountOK'
  <2>1. t \notin Given /\ Given' = Given \cup {t} /\ Holding' = Holding
    BY <1>1 DEF PoolTypes, Holding, Given
  <2>2. Cardinality(Given') = Cardinality(Given) + 1
    BY <2>1, PoolSizes, OneMore
  <2>3. Cardinality(Unheld') = Cardinality(Unheld) + 1
    BY <1>6, PoolSizes, OneMore
  <2>4. QED
    BY <1>1, <2>1, <2>2, <2>3, PoolSizes DEF PoolTypes, CountOK
<1>13. QED
  BY <1>7, <1>8, <1>9, <1>10, <1>11, <1>12

(* Every step keeps the invariant. *)
LEMMA PoolStep == PoolInv /\ [P!Next]_(P!vars) => PoolInv'
<1> SUFFICES ASSUME PoolInv, [P!Next]_(P!vars) PROVE PoolInv'
  OBVIOUS
<1>1. ASSUME UNCHANGED P!vars PROVE PoolInv'
  <2>1. Quiet /\ UNCHANGED <<seen, after, calls, step>>
    BY <1>1 DEF P!vars, Quiet, Giving
  <2>2. HandsOK' /\ ListOK' /\ CountOK'
    BY <2>1, QuietKeeps DEF PoolInv
  <2>3. PoolTypes' /\ TagsOK' /\ ReadOK'
    BY <1>1 DEF P!vars, PoolInv, PoolTypes, TagsOK, ReadOK
  <2>4. QED
    BY <2>2, <2>3 DEF PoolInv
<1>2. ASSUME NEW t \in Producers, P!User(t) PROVE PoolInv'
  <2>1. CASE \/ P!Allocate(t) \/ P!Exhausted(t) \/ P!Follow(t) \/ P!Take(t) \/ P!TakeLost(t)
             \/ P!Mark(t) \/ P!CountTaken(t)
    BY <2>1, AllocateKeeps, ExhaustedKeeps, FollowKeeps, TakeKeeps, TakeLostKeeps, MarkKeeps,
       CountTakenKeeps
  <2>2. CASE \E i \in P!Indices : P!Release(t, i) \/ P!ReleaseAgain(t, i)
    BY <2>2, ReleaseKeeps, ReleaseAgainKeeps
  <2>3. CASE P!Load(t) \/ P!Link(t) \/ P!Give(t) \/ P!GiveLost(t) \/ P!CountGiven(t)
    BY <2>3, LoadKeeps, LinkKeeps, GiveKeeps, GiveLostKeeps, CountGivenKeeps
  <2>4. QED
    BY <1>2, <2>1, <2>2, <2>3 DEF P!User
<1>3. QED
  BY <1>1, <1>2 DEF P!Next, P!Finished

(* A set that has zero, and the number after each of its own, has them all: *)
(* there would be a least one that it has not.                              *)
LEMMA Upwards ==
  ASSUME NEW n \in Nat, NEW Y, 0 \in Y, \A i \in 1..n : i - 1 \in Y => i \in Y
  PROVE  \A i \in 0..n : i \in Y
<1> DEFINE R == {p \in Nat \X Nat : p[1] < p[2]}
           U == {i \in 0..n : i \notin Y}
<1>1. SUFFICES ASSUME U # {} PROVE FALSE
  OBVIOUS
<1>2. PICK i \in U : \A j \in U : ~ <<j, i>> \in R
  <2>1. IsWellFoundedOn(R, Nat)
    BY NatLessThanWellFounded, Zenon DEF OpToRel
  <2>2. U \in SUBSET Nat
    OBVIOUS
  <2> HIDE DEF R, U
  <2>3. QED
    BY <1>1, <2>1, <2>2, WFMin
<1>3. i \in 1..n /\ i - 1 \in 0..n
  OBVIOUS
<1>4. i - 1 \in U => <<i - 1, i>> \in R
  BY <1>3
<1>5. QED
  BY <1>2, <1>3, <1>4

(* What Walk finds is the list, and nothing behind it. *)
LEMMA WalksTheList ==
  ASSUME PoolTypes, NEW n \in Nat, NEW s \in [0..n-1 -> P!Indices], IsList(s, n)
  PROVE  \A k \in 0..Size : P!Walk[k] = PlaceIn(s, n, k)
<1> DEFINE Step(f, k) ==
             IF k = 0 THEN first.index
             ELSE IF f[k-1] = None THEN None ELSE next[f[k-1]]
           g == [k \in 0..Size |-> PlaceIn(s, n, k)]
<1>1. ASSUME NEW k \in 1..Size
      PROVE  PlaceIn(s, n, k) = IF PlaceIn(s, n, k-1) = None THEN None
                              ELSE next[PlaceIn(s, n, k-1)]
  <2>1. k - 1 \in Nat /\ k \in Nat /\ (k - 1) + 1 = k
    BY PoolFacts
  <2>2. CASE k - 1 < n
    <3>1. k - 1 \in 0..n-1
      BY <2>1, <2>2
    <3>2. next[s[k-1]] = PlaceIn(s, n, k) /\ s[k-1] # None
      BY <2>1, <3>1, PoolFacts DEF IsList
    <3>3. QED
      BY <2>2, <3>2 DEF PlaceIn
  <2>3. CASE ~ (k - 1 < n)
    BY <2>1, <2>3 DEF PlaceIn
  <2>4. QED
    BY <2>2, <2>3
<1>2. g = [k \in 0..Size |-> Step(g, k)]
  <2>1. ASSUME NEW k \in 0..Size PROVE g[k] = Step(g, k)
    <3>1. CASE k = 0
      BY <3>1 DEF IsList
    <3>2. CASE k # 0
      <4>1. k \in 1..Size /\ k - 1 \in 0..Size
        BY <3>2, PoolFacts
      <4>2. g[k] = PlaceIn(s, n, k) /\ g[k-1] = PlaceIn(s, n, k-1)
        BY <4>1
      <4>3. QED
        BY <1>1, <3>2, <4>1, <4>2
    <3>3. QED
      BY <3>1, <3>2
  <2>2. QED
    BY <2>1
<1>3. P!Walk = [k \in 0..Size |-> Step(P!Walk, k)]
  <2>1. \E f : f = [k \in 0..Size |-> Step(f, k)]
    BY <1>2
  <2>2. QED
    BY <2>1 DEF P!Walk
<1>4. \A k \in 0..Size : k \in {m \in 0..Size : P!Walk[m] = g[m]}
  <2> DEFINE Y == {m \in 0..Size : P!Walk[m] = g[m]}
  <2>1. 0 \in Y
    BY <1>3, PoolFacts DEF IsList
  <2>2. ASSUME NEW k \in 1..Size, k - 1 \in Y PROVE k \in Y
    <3>1. k \in 0..Size /\ k - 1 \in 0..Size /\ k # 0
      BY PoolFacts
    <3>2. P!Walk[k] = Step(P!Walk, k) /\ g[k] = Step(g, k) /\ P!Walk[k-1] = g[k-1]
      BY <1>2, <1>3, <2>2, <3>1
    <3>3. QED
      BY <3>1, <3>2
  <2> HIDE DEF Y
  <2>3. QED
    BY <2>1, <2>2, PoolFacts, Upwards DEF Y
<1>5. QED
  BY <1>4

(* What the invariant says of hands and list is the property; the list is  *)
(* walked to its end, as it has no more than Size indices.                 *)
LEMMA PoolSafe == PoolInv => P!HandedOutOnce
<1> SUFFICES ASSUME PoolInv PROVE P!HandedOutOnce
  OBVIOUS
<1>1. PICK n \in Nat : \E s \in [0..n-1 -> P!Indices] : IsList(s, n)
  BY DEF PoolInv, ListOK
<1>2. PICK s \in [0..n-1 -> P!Indices] : IsList(s, n)
  BY <1>1
<1>3. \A k \in 0..Size : P!Walk[k] = PlaceIn(s, n, k)
  BY <1>2, WalksTheList DEF PoolInv
<1>4. n <= Size
  <2>1. ASSUME n > Size PROVE FALSE
    <3>1. 0 \in Int /\ n - 1 \in Int /\ ~ (0 > n - 1) /\ n - 1 - 0 + 1 = n
      BY <2>1, PoolFacts
    <3>2. IsFiniteSet(0..n-1) /\ Cardinality(0..n-1) = n
      BY <3>1, FS_Interval
    <3>3. s \in [0..n-1 -> P!Indices] /\ Cardinality(0..n-1) > Cardinality(P!Indices)
      BY <2>1, <3>2, PoolSizes
    <3>4. \E k, m \in 0..n-1 : k # m /\ s[k] = s[m]
      BY <3>2, <3>3, PoolSizes, FS_PigeonHole
    <3>5. QED
      BY <1>2, <3>4 DEF IsList
  <2>2. QED
    BY <2>1, PoolFacts
<1>5. P!Walk[Size] = None
  BY <1>3, <1>4, PoolFacts DEF PlaceIn
<1>6. P!Listed = Unheld
  <2>1. ASSUME NEW i \in Unheld PROVE i \in P!Listed
    <3>1. PICK k \in 0..n-1 : s[k] = i
      BY <1>2 DEF IsList
    <3>2. k \in 0..Size /\ P!Walk[k] = i
      BY <1>3, <1>4, <3>1, PoolFacts DEF PlaceIn
    <3>3. QED
      BY <3>2, PoolFacts DEF P!Listed, Unheld
  <2>2. ASSUME NEW i \in P!Listed PROVE i \in Unheld
    <3>1. PICK k \in 0..Size : P!Walk[k] = i /\ i # None
      BY DEF P!Listed
    <3>2. k < n /\ s[k] = i
      BY <1>3, <3>1 DEF PlaceIn
    <3>3. k \in 0..n-1
      BY <3>2
    <3>4. QED
      BY <1>2, <3>2, <3>3 DEF IsList
  <2>3. QED
    BY <2>1, <2>2
<1>7. ASSUME \A t \in Producers : step[t] = "idle"
      PROVE  free = Cardinality(P!Listed) /\ live = P!Indices \ P!Listed
  <2>1. Holding = {} /\ Given = {} /\ P!Between = {}
    BY <1>7 DEF Holding, Given, P!Between
  <2>2. free = Cardinality(Unheld)
    BY <2>1, PoolSizes, FS_EmptySet DEF PoolInv, CountOK
  <2>3. live = HeldByAny
    BY <1>7 DEF PoolInv, HandsOK
  <2>4. HeldByAny \subseteq P!Indices
    BY DEF PoolInv, PoolTypes, HeldByAny
  <2>5. QED
    BY <1>6, <2>1, <2>2, <2>3, <2>4 DEF Unheld
<1>8. QED
  BY <1>5, <1>6, <1>7, SameSizes DEF P!HandedOutOnce, PoolInv, HandsOK, Unheld, HeldByAny

(* The invariant holds in every behaviour of the pool. *)
LEMMA PoolInductive == (P!Init /\ [][P!Next]_(P!vars)) => []PoolInv
<1>1. QED
  BY InitPool, PoolStep, PTL

-----------------------------------------------------------------------------
(* Admission.  An activation has a ticket: it is in one hand, or routed    *)
(* (TicketsOK), and the tokens are those of the tickets between try_admit  *)
(* and on_complete, so that the counts are sums of what the threads are at *)
(* (SumsOK).  As long as nothing is deactivated, a task has one ticket and *)
(* is ready or running while it has it (SingleOK).                         *)

(* What a thread does with a ticket, and when its activation has a token.  *)
WithToken == {"tenant", "route", "run", "untenant", "untotal"}
WithTicket == WithToken \cup {"look", "take", "count", "end"}

Activations == [task : Values, epoch : Nat]
Acts == {A!Idle} \cup [at : {"stamp", "retire"}, task : Values]
         \cup [at : WithTicket, seen : Nat, into : {"dormant", "running", "completed", "faulted"},
               ticket : Activations]

TokenTypes ==
  /\ policy \in {"refuse", "degrade"} /\ total \in Int /\ tenant \in Int
  /\ phase \in [Values -> {"dormant", "ready", "running", "completed", "faulted"}]
  /\ epoch \in [Values -> Nat] /\ acts \in [Producers -> Acts]
  /\ tickets \in SUBSET Activations /\ tokens \in SUBSET Activations
  /\ IsFiniteSet(tokens) /\ withdrawn \in BOOLEAN

Has(u) == acts[u].at \in WithTicket

(* Every activation is in one hand, or routed; it has a token from         *)
(* try_admit to on_complete.                                               *)
TicketsOK ==
  /\ \A k \in tickets \cup tokens : k.epoch <= epoch[k.task]
  /\ \A u \in Producers : Has(u) => A!Mine(u).epoch <= epoch[A!Mine(u).task]
     /\ A!Mine(u) \notin tickets
  /\ \A u, v \in Producers : Has(u) /\ Has(v) /\ A!Mine(u) = A!Mine(v) => u = v
  /\ \A u \in Producers : Has(u) => (A!Mine(u) \in tokens <=> acts[u].at \in WithToken)
  /\ tickets \subseteq tokens

(* try_admit takes a token only below the limit. *)
LimitOK ==
  /\ policy = "refuse" => total <= Limit
  /\ \A u \in Producers : acts[u].at = "take" => acts[u].seen < Limit
  /\ \A u \in Producers : acts[u].at = "count" => policy = "degrade"

SumsOK ==
  /\ total = Cardinality(tokens)
  /\ tenant = total - Cardinality(A!Where({"tenant"})) - Cardinality(A!Where({"untotal"}))

(* As long as nothing is deactivated a task has one activation at a time,  *)
(* and is ready or running while it has.                                   *)
Subject(u) == IF acts[u].at = "stamp" THEN acts[u].task ELSE A!Mine(u).task
Before == {"stamp", "look", "take", "count", "tenant", "route"}
Under(t) == phase[t] \in {"ready", "running"}
SingleOK ==
  /\ \A u \in Producers : acts[u].at # "retire"
  /\ \A u \in Producers : acts[u].at # "idle" => Under(Subject(u))
  /\ \A u \in Producers : acts[u].at \in Before => phase[Subject(u)] = "ready"
  /\ \A u \in Producers : Has(u) => A!Mine(u) = A!Ticket(A!Mine(u).task)
  /\ \A k \in tickets : k = A!Ticket(k.task) /\ phase[k.task] = "ready"
  /\ \A u, v \in Producers :
       acts[u].at # "idle" /\ acts[v].at # "idle" /\ Subject(u) = Subject(v) => u = v
  /\ \A u \in Producers, k \in tickets : acts[u].at # "idle" => k.task # Subject(u)
  /\ \A k \in tokens : k \in tickets \/ \E u \in Producers : Has(u) /\ A!Mine(u) = k

TokenInv == TokenTypes /\ TicketsOK /\ LimitOK /\ SumsOK /\ (~ withdrawn => SingleOK)

(* What AdmissionAssumption says of the constants. *)
LEMMA TokenFacts ==
  Limit \in Nat \ {0} /\ Policies \subseteq {"refuse", "degrade"} /\ IsFiniteSet(Producers)
BY MCAssumption, SameSizes DEF MCAssumption, A!AdmissionAssumption

(* What a thread is doing, by where it is. *)
LEMMA ActFacts ==
  ASSUME TokenTypes, NEW u \in Producers
  PROVE  /\ acts[u] \in Acts
         /\ acts[u].at \in {"idle", "stamp", "retire"} \cup WithTicket
         /\ acts[u].at \in {"stamp", "retire"} => acts[u].task \in Values
         /\ Has(u) => /\ A!Mine(u) \in Activations /\ A!Mine(u).task \in Values /\ A!Mine(u).epoch \in Nat
                      /\ acts[u].seen \in Nat
                      /\ acts[u].into \in {"dormant", "running", "completed", "faulted"}
<1>1. acts[u] \in Acts
  BY DEF TokenTypes
<1>2. CASE acts[u] = A!Idle
  BY <1>1, <1>2 DEF A!Idle, Has, WithTicket, WithToken
<1>3. CASE acts[u] \in [at : {"stamp", "retire"}, task : Values]
  BY <1>1, <1>3 DEF Has, WithTicket, WithToken
<1>4. CASE acts[u] \in [at : WithTicket, seen : Nat,
                        into : {"dormant", "running", "completed", "faulted"},
                        ticket : Activations]
  BY <1>1, <1>4 DEF Has, WithTicket, WithToken, A!Mine, Activations
<1>5. QED
  BY <1>1, <1>2, <1>3, <1>4 DEF Acts

(* One thread goes on, the others stay where they are. *)
LEMMA Doing ==
  ASSUME TokenTypes, NEW u \in Producers, NEW what, acts' = [acts EXCEPT ![u] = what]
  PROVE  acts'[u] = what /\ \A v \in Producers : v # u => acts'[v] = acts[v]
BY DEF TokenTypes

In(d, where) == IF d.at = where THEN 1 ELSE 0

(* How many threads are at one place, after one of them has moved. *)
LEMMA Counted ==
  ASSUME TokenTypes, NEW u \in Producers, NEW what, acts' = [acts EXCEPT ![u] = what], NEW where
  PROVE  /\ Cardinality(A!Where({where})) \in Nat /\ Cardinality(A!Where({where})') \in Nat
         /\ Cardinality(A!Where({where})')
              = Cardinality(A!Where({where})) - In(acts[u], where) + In(what, where)
<1> DEFINE W == A!Where({where})
<1>1. IsFiniteSet(W) /\ W \subseteq Producers /\ (u \in W <=> acts[u].at = where)
  BY TokenFacts, FS_Subset DEF A!Where
<1>2. W' = IF what.at = where THEN W \cup {u} ELSE W \ {u}
  <2>1. \A v \in Producers : v \in W' <=> acts'[v].at = where
    BY DEF A!Where
  <2>2. acts'[u] = what /\ \A v \in Producers : v # u => (v \in W' <=> v \in W)
    BY <2>1, Doing DEF A!Where
  <2>3. W' \subseteq Producers /\ W \subseteq Producers /\ (u \in W' <=> what.at = where)
    BY <2>1, <2>2 DEF A!Where
  <2> HIDE DEF W
  <2>4. QED
    BY <2>2, <2>3
<1>3. Cardinality(W \cup {u}) = Cardinality(W) + (IF u \in W THEN 0 ELSE 1)
      /\ Cardinality(W) \in Nat /\ IsFiniteSet(W \cup {u})
  <2> HIDE DEF W
  <2>1. QED
    BY <1>1, FS_AddElement, FS_CardinalityType
<1>4. Cardinality(W \ {u}) = Cardinality(W) - (IF u \in W THEN 1 ELSE 0)
      /\ IsFiniteSet(W \ {u})
  <2> HIDE DEF W
  <2>1. CASE u \in W
    <3>1. IsFiniteSet(W \ {u}) /\ Cardinality(W \ {u}) = Cardinality(W) - 1
      BY <1>1, <2>1, FS_RemoveElement
    <3>2. QED
      BY <2>1, <3>1
  <2>2. CASE u \notin W
    <3>1. W \ {u} = W
      BY <2>2
    <3>2. IsFiniteSet(W \ {u}) /\ Cardinality(W \ {u}) = Cardinality(W)
      BY <1>1, <3>1, Zenon
    <3>3. QED
      BY <1>3, <2>2, <3>2
  <2>3. QED
    BY <2>1, <2>2
<1>5. Cardinality(W \cup {u}) \in Nat /\ Cardinality(W \ {u}) \in Nat
  BY <1>3, <1>4, FS_CardinalityType
<1> HIDE DEF W
<1>6. Cardinality(W') = Cardinality(W) - In(acts[u], where) + In(what, where)
      /\ Cardinality(W') \in Nat
  BY <1>1, <1>2, <1>3, <1>4, <1>5 DEF In
<1>7. QED
  BY <1>3, <1>6 DEF W

(* The size of tokens after one more or one less. *)
LEMMA TokenSizes ==
  ASSUME IsFiniteSet(tokens), NEW k
  PROVE  /\ Cardinality(tokens) \in Nat
         /\ IsFiniteSet(tokens \cup {k}) /\ IsFiniteSet(tokens \ {k})
         /\ Cardinality(tokens \cup {k}) = Cardinality(tokens) + (IF k \in tokens THEN 0 ELSE 1)
         /\ Cardinality(tokens \ {k}) = Cardinality(tokens) - (IF k \in tokens THEN 1 ELSE 0)
BY FS_AddElement, FS_RemoveElement, FS_CardinalityType

(* A thread goes on with the ticket it has. *)
LEMMA Carries ==
  ASSUME TokenTypes, TicketsOK, ~ withdrawn => SingleOK,
         NEW u \in Producers, NEW what \in Acts, Has(u),
         acts' = [acts EXCEPT ![u] = what],
         what.at \in WithTicket, what.ticket = A!Mine(u),
         what.at \in Before => acts[u].at \in Before,
         tokens' = IF what.at \in WithToken THEN tokens \cup {A!Mine(u)} ELSE tokens \ {A!Mine(u)},
         total' \in Int, tenant' \in Int, UNCHANGED <<policy, phase, epoch, tickets, withdrawn>>
  PROVE  TokenTypes' /\ TicketsOK' /\ (~ withdrawn' => SingleOK')
<1>1. acts'[u] = what /\ \A v \in Producers : v # u => acts'[v] = acts[v]
  BY Doing
<1>2. Has(u)' /\ A!Mine(u)' = A!Mine(u) /\ A!Mine(u) \in Activations
  BY <1>1, ActFacts DEF Has, A!Mine
<1>3. \A v \in Producers : Has(v)' = Has(v) /\ (Has(v) => A!Mine(v)' = A!Mine(v))
  BY <1>1, <1>2 DEF Has, A!Mine
<1>4. TokenTypes'
  <2>1. acts' \in [Producers -> Acts]
    BY DEF TokenTypes
  <2>2. tokens' \in SUBSET Activations /\ IsFiniteSet(tokens')
    BY <1>2, TokenSizes DEF TokenTypes
  <2>3. QED
    BY <2>1, <2>2 DEF TokenTypes
<1>5. TicketsOK'
  <2>1. \A k \in tickets' \cup tokens' : k.epoch <= epoch'[k.task]
    BY <1>2 DEF TicketsOK
  <2>2. \A v \in Producers : Has(v)' => A!Mine(v)'.epoch <= epoch'[A!Mine(v)'.task]
        /\ A!Mine(v)' \notin tickets'
    BY <1>3 DEF TicketsOK
  <2>3. \A v, w \in Producers : Has(v)' /\ Has(w)' /\ A!Mine(v)' = A!Mine(w)' => v = w
    BY <1>3 DEF TicketsOK
  <2>4. ASSUME NEW v \in Producers, Has(v)'
        PROVE  A!Mine(v)' \in tokens' <=> acts'[v].at \in WithToken
    <3>1. CASE v = u
      BY <1>1, <1>2, <3>1
    <3>2. CASE v # u
      BY <1>1, <1>3, <2>4, <3>2 DEF TicketsOK
    <3>3. QED
      BY <3>1, <3>2
  <2>5. tickets' \subseteq tokens'
    BY DEF TicketsOK
  <2>6. QED
    BY <2>1, <2>2, <2>3, <2>4, <2>5 DEF TicketsOK
<1>6. ASSUME ~ withdrawn PROVE SingleOK'
  <2>1. SingleOK
    BY <1>6
  <2>2. \A v \in Producers : /\ Subject(v)' = Subject(v)
                             /\ acts'[v].at = "idle" <=> acts[v].at = "idle"
                             /\ acts'[v].at = "retire" <=> acts[v].at = "retire"
                             /\ acts'[v].at \in Before => acts[v].at \in Before
    <3>1. what.at \notin {"idle", "retire", "stamp"}
          /\ acts[u].at \notin {"idle", "retire", "stamp"}
      BY DEF Has, WithTicket, WithToken
    <3>2. QED
      BY <1>1, <1>2, <3>1 DEF Subject, A!Mine
  <2>3. \A k \in tokens' : k \in tickets' \/ \E v \in Producers : Has(v)' /\ A!Mine(v)' = k
    BY <1>2, <1>3, <2>1 DEF SingleOK
  <2>4. \A v \in Producers : acts'[v].at # "retire"
    BY <2>1, <2>2 DEF SingleOK
  <2>5. \A v \in Producers : acts'[v].at # "idle" => Under(Subject(v))'
    BY <2>1, <2>2 DEF SingleOK, Under
  <2>6. \A v \in Producers : acts'[v].at \in Before => phase'[Subject(v)'] = "ready"
    BY <2>1, <2>2 DEF SingleOK
  <2>7. \A v \in Producers : Has(v)' => A!Mine(v)' = A!Ticket(A!Mine(v).task)'
    BY <1>3, <2>1 DEF SingleOK, A!Ticket
  <2>8. \A k \in tickets' : k = A!Ticket(k.task)' /\ phase'[k.task] = "ready"
    BY <2>1 DEF SingleOK, A!Ticket
  <2>9. \A v, w \in Producers :
          acts'[v].at # "idle" /\ acts'[w].at # "idle" /\ Subject(v)' = Subject(w)' => v = w
    BY <2>1, <2>2 DEF SingleOK
  <2>10. \A v \in Producers, k \in tickets' : acts'[v].at # "idle" => k.task # Subject(v)'
    BY <2>1, <2>2 DEF SingleOK
  <2>11. QED
    BY <1>3, <2>3, <2>4, <2>5, <2>6, <2>7, <2>8, <2>9, <2>10 DEF SingleOK
<1>7. QED
  BY <1>4, <1>5, <1>6

(* The sums follow when they move as the thread does. *)
LEMMA SumsMove ==
  ASSUME TokenTypes, SumsOK, NEW u \in Producers, NEW what, acts' = [acts EXCEPT ![u] = what],
         total' = Cardinality(tokens'),
         tenant' - total' - In(acts[u], "tenant") - In(acts[u], "untotal")
           = tenant - total - In(what, "tenant") - In(what, "untotal"),
         total' \in Int, tenant' \in Int
  PROVE  SumsOK'
<1>1. \A where \in {"tenant", "untotal"} :
        /\ Cardinality(A!Where({where})) \in Nat /\ Cardinality(A!Where({where})') \in Nat
        /\ Cardinality(A!Where({where})')
             = Cardinality(A!Where({where})) - In(acts[u], where) + In(what, where)
  BY Counted
<1>2. \A where \in {"tenant", "untotal"} : In(acts[u], where) \in Int /\ In(what, where) \in Int
  BY DEF In
<1> DEFINE a == Cardinality(A!Where({"tenant"}))  b == Cardinality(A!Where({"untotal"}))
<1>3. tenant = total - a - b /\ total \in Int /\ tenant \in Int
  BY DEF SumsOK, TokenTypes
<1>4. /\ a \in Nat /\ a' \in Nat /\ a' = a - In(acts[u], "tenant") + In(what, "tenant")
      /\ b \in Nat /\ b' \in Nat /\ b' = b - In(acts[u], "untotal") + In(what, "untotal")
  BY <1>1
<1> HIDE DEF a, b
<1>5. tenant' = total' - a' - b'
  BY <1>2, <1>3, <1>4
<1>6. QED
  BY <1>5 DEF SumsOK, a, b

(* The limit holds when the thread that moves respects it. *)
LEMMA LimitMoves ==
  ASSUME TokenTypes, LimitOK, NEW u \in Producers, NEW what, acts' = [acts EXCEPT ![u] = what],
         what.at = "take" => what.seen < Limit, what.at = "count" => policy = "degrade",
         policy = "refuse" => total' <= Limit, policy' = policy
  PROVE  LimitOK'
<1>1. acts'[u] = what /\ \A v \in Producers : v # u => acts'[v] = acts[v]
  BY Doing
<1>2. QED
  BY <1>1 DEF LimitOK

(* try_admit reads the count, or loses its CAS. *)
LEMMA CompareKeeps ==
  ASSUME NEW u \in Producers, TokenInv, acts[u].at \in {"look", "take"}, A!Compare(u),
         UNCHANGED <<policy, total, tenant, phase, epoch, tickets, tokens, withdrawn>>
  PROVE  TokenInv'
<1> DEFINE what == [acts[u] EXCEPT !.at = IF total < Limit THEN "take" ELSE "end", !.seen = total]
<1>1. Has(u) /\ total \in Nat /\ acts[u].at \notin WithToken
  BY TokenSizes DEF TokenInv, SumsOK, TokenTypes, Has, WithTicket, WithToken
<1>2. acts[u] \in [at : WithTicket, seen : Nat, into : {"dormant", "running", "completed", "faulted"},
                   ticket : Activations]
  BY <1>1, ActFacts DEF TokenInv, Acts, A!Idle, Has, WithTicket, WithToken
<1>3. /\ what \in Acts /\ what.ticket = A!Mine(u) /\ what.seen = total
      /\ what.at = (IF total < Limit THEN "take" ELSE "end")
  BY <1>1, <1>2 DEF Acts, WithTicket, A!Mine
<1>4. what.at \in WithTicket \ WithToken /\ (what.at \in Before => acts[u].at \in Before)
      /\ what.at # "count"
  BY <1>3 DEF WithTicket, WithToken, Before
<1>5. acts' = [acts EXCEPT ![u] = what]
  BY DEF A!Compare, A!Do
<1>6. tokens' = tokens \ {A!Mine(u)}
  BY <1>1 DEF TokenInv, TicketsOK
<1>7. In(acts[u], "tenant") = 0 /\ In(acts[u], "untotal") = 0 /\ In(what, "tenant") = 0
      /\ In(what, "untotal") = 0
  BY <1>3 DEF In
<1>8. what.at = "take" => what.seen < Limit
  BY <1>3
<1> HIDE DEF what
<1>9. TokenTypes' /\ TicketsOK' /\ (~ withdrawn' => SingleOK')
  BY <1>1, <1>3, <1>4, <1>5, <1>6, Carries DEF TokenInv, TokenTypes
<1>10. SumsOK'
  BY <1>5, <1>7, SumsMove DEF TokenInv, TokenTypes, SumsOK
<1>11. LimitOK'
  BY <1>4, <1>5, <1>8, LimitMoves DEF TokenInv, LimitOK
<1>12. QED
  BY <1>9, <1>10, <1>11 DEF TokenInv

(* The other steps with a ticket only move on. *)
LEMMA GoFacts ==
  ASSUME NEW u \in Producers, TokenTypes, Has(u), NEW where \in WithTicket
  PROVE  /\ [acts[u] EXCEPT !.at = where] \in Acts
         /\ [acts[u] EXCEPT !.at = where].ticket = A!Mine(u)
         /\ [acts[u] EXCEPT !.at = where].at = where
<1>1. acts[u] \in [at : WithTicket, seen : Nat, into : {"dormant", "running", "completed", "faulted"},
                   ticket : Activations]
  BY ActFacts DEF Acts, A!Idle, Has, WithTicket, WithToken
<1>2. QED
  BY <1>1 DEF Acts, A!Mine

(* try_admit counts the token it takes; below the limit, or whatever it    *)
(* is.                                                                     *)
LEMMA TakesKeep ==
  ASSUME NEW u \in Producers, TokenInv, A!Take(u) \/ A!TakeOver(u)
  PROVE  TokenInv'
<1> DEFINE what == [acts[u] EXCEPT !.at = "tenant"]
<1>1. /\ Has(u) /\ acts[u].at \in {"take", "count"} /\ acts[u].at \notin WithToken
      /\ "tenant" \in WithTicket /\ "tenant" \in WithToken
  BY DEF A!Take, A!TakeOver, A!At, Has, WithTicket, WithToken
<1>2. what \in Acts /\ what.ticket = A!Mine(u) /\ what.at = "tenant"
  BY <1>1, GoFacts DEF TokenInv
<1>3. /\ acts' = [acts EXCEPT ![u] = what] /\ total' = total + 1
      /\ tokens' = tokens \cup {A!Mine(u)}
      /\ UNCHANGED <<policy, tenant, phase, epoch, tickets, withdrawn>>
  BY DEF A!Take, A!TakeOver, A!Go, A!Do
<1>4. A!Mine(u) \notin tokens
  BY <1>1 DEF TokenInv, TicketsOK
<1>5. total' = Cardinality(tokens') /\ total' \in Int /\ total \in Nat
  <2>1. total = Cardinality(tokens) /\ IsFiniteSet(tokens)
    BY DEF TokenInv, SumsOK, TokenTypes
  <2>2. Cardinality(tokens \cup {A!Mine(u)}) = total + 1 /\ total \in Nat
    BY <1>4, <2>1, TokenSizes
  <2>3. QED
    BY <1>3, <2>2
<1>6. /\ In(acts[u], "tenant") = 0 /\ In(acts[u], "untotal") = 0 /\ In(what, "tenant") = 1
      /\ In(what, "untotal") = 0
  BY <1>1, <1>2 DEF In
<1>7. policy = "refuse" => total' <= Limit
  <2>1. acts[u].at = "take" => total < Limit
    BY <1>1 DEF A!Take, A!TakeOver, A!At, TokenInv, LimitOK
  <2>2. acts[u].at = "count" => policy # "refuse"
    BY DEF TokenInv, LimitOK
  <2>3. QED
    BY <1>1, <1>3, <1>5, <2>1, <2>2, TokenFacts
<1> HIDE DEF what
<1>8. TokenTypes' /\ TicketsOK' /\ (~ withdrawn' => SingleOK')
  BY <1>1, <1>2, <1>3, <1>5, Carries DEF TokenInv, TokenTypes, Before
<1>9. SumsOK'
  <2>1. tenant' - total' - In(acts[u], "tenant") - In(acts[u], "untotal")
          = tenant - total - In(what, "tenant") - In(what, "untotal")
          /\ tenant' \in Int
    BY <1>3, <1>5, <1>6 DEF TokenInv, TokenTypes
  <2>2. QED
    BY <1>3, <1>5, <2>1, SumsMove DEF TokenInv
<1>10. LimitOK'
  BY <1>2, <1>3, <1>7, LimitMoves DEF TokenInv
<1>11. QED
  BY <1>8, <1>9, <1>10 DEF TokenInv

(* A thread that goes on with its token keeps the invariant. *)
LEMMA TokenKept ==
  ASSUME NEW u \in Producers, TokenInv, NEW what \in Acts,
         what.at \in {"route", "untenant", "untotal"}, what.ticket = A!Mine(u),
         what.at = "route" => acts[u].at \in Before,
         acts[u].at \in WithToken, acts' = [acts EXCEPT ![u] = what],
         tenant' = tenant + In(acts[u], "tenant") - In(what, "untotal"), acts[u].at # "untotal",
         UNCHANGED <<policy, total, phase, epoch, tickets, tokens, withdrawn>>
  PROVE  TokenInv'
<1>1. Has(u) /\ what.at \in WithToken /\ what.at \in WithTicket
      /\ (what.at \in Before => acts[u].at \in Before)
  BY DEF Has, WithTicket, WithToken, Before
<1>2. A!Mine(u) \in tokens
  BY <1>1 DEF TokenInv, TicketsOK
<1>3. In(acts[u], "untotal") = 0 /\ In(what, "tenant") = 0 /\ In(acts[u], "tenant") \in {0, 1}
      /\ In(what, "untotal") \in {0, 1}
  BY DEF In
<1>4. tenant' \in Int /\ total' = Cardinality(tokens')
  BY <1>3 DEF TokenInv, TokenTypes, SumsOK
<1>5. TokenTypes' /\ TicketsOK' /\ (~ withdrawn' => SingleOK')
  BY <1>1, <1>2, <1>4, Carries DEF TokenInv, TokenTypes
<1>6. SumsOK'
  <2>1. tenant' - total' - In(acts[u], "tenant") - In(acts[u], "untotal")
          = tenant - total - In(what, "tenant") - In(what, "untotal")
          /\ tenant' \in Int /\ total' \in Int
    BY <1>3, <1>4 DEF TokenInv, TokenTypes
  <2>2. QED
    BY <1>4, <2>1, SumsMove DEF TokenInv
<1>7. LimitOK'
  BY LimitMoves DEF TokenInv, LimitOK
<1>8. QED
  BY <1>5, <1>6, <1>7 DEF TokenInv

(* The steps between a token taken and a token given back. *)
LEMMA GoesOn ==
  ASSUME NEW u \in Producers, TokenInv,
         \/ A!Tenant(u) \/ A!RouteRefused(u) \/ A!Untenant(u)
         \/ \E outcome \in {"completed", "faulted"} : A!Finish(u, outcome)
  PROVE  TokenInv'
<1>1. CASE A!Tenant(u)
  <2> DEFINE what == [acts[u] EXCEPT !.at = "route"]
  <2>1. acts[u].at = "tenant" /\ Has(u) /\ acts[u].at \in WithToken
    BY <1>1 DEF A!Tenant, A!At, Has, WithTicket, WithToken
  <2>2. what \in Acts /\ what.ticket = A!Mine(u) /\ what.at = "route"
    BY <2>1, GoFacts DEF TokenInv, WithTicket, WithToken
  <2>3. In(acts[u], "tenant") = 1 /\ In(what, "untotal") = 0
    BY <2>1, <2>2 DEF In
  <2> HIDE DEF what
  <2>4. acts' = [acts EXCEPT ![u] = what] /\ tenant' = tenant + 1 - 0
    BY <1>1 DEF A!Tenant, A!Go, A!Do, what, TokenInv, TokenTypes
  <2>5. QED
    BY <1>1, <2>1, <2>2, <2>3, <2>4, TokenKept DEF A!Tenant, Before
<1>2. CASE A!RouteRefused(u)
  <2> DEFINE what == [acts[u] EXCEPT !.at = "untenant"]
  <2>1. acts[u].at = "route" /\ Has(u) /\ acts[u].at \in WithToken
    BY <1>2 DEF A!RouteRefused, A!At, Has, WithTicket, WithToken
  <2>2. what \in Acts /\ what.ticket = A!Mine(u) /\ what.at = "untenant"
    BY <2>1, GoFacts DEF TokenInv, WithTicket, WithToken
  <2>3. In(acts[u], "tenant") = 0 /\ In(what, "untotal") = 0
    BY <2>1, <2>2 DEF In
  <2> HIDE DEF what
  <2>4. acts' = [acts EXCEPT ![u] = what] /\ tenant' = tenant + 0 - 0
    BY <1>2 DEF A!RouteRefused, A!Go, A!Do, what, TokenInv, TokenTypes
  <2>5. QED
    BY <1>2, <2>1, <2>2, <2>3, <2>4, TokenKept DEF A!RouteRefused
<1>3. CASE A!Untenant(u)
  <2> DEFINE what == [acts[u] EXCEPT !.at = "untotal"]
  <2>1. acts[u].at = "untenant" /\ Has(u) /\ acts[u].at \in WithToken
    BY <1>3 DEF A!Untenant, A!At, Has, WithTicket, WithToken
  <2>2. what \in Acts /\ what.ticket = A!Mine(u) /\ what.at = "untotal"
    BY <2>1, GoFacts DEF TokenInv, WithTicket, WithToken
  <2>3. In(acts[u], "tenant") = 0 /\ In(what, "untotal") = 1
    BY <2>1, <2>2 DEF In
  <2> HIDE DEF what
  <2>4. acts' = [acts EXCEPT ![u] = what] /\ tenant' = tenant + 0 - 1
    BY <1>3 DEF A!Untenant, A!Go, A!Do, what, TokenInv, TokenTypes
  <2>5. QED
    BY <1>3, <2>1, <2>2, <2>3, <2>4, TokenKept DEF A!Untenant
<1>4. ASSUME NEW outcome \in {"completed", "faulted"}, A!Finish(u, outcome) PROVE TokenInv'
  <2> DEFINE what == [acts[u] EXCEPT !.at = "untenant", !.into = outcome]
  <2>1. acts[u].at = "run" /\ Has(u) /\ acts[u].at \in WithToken
    BY <1>4 DEF A!Finish, A!At, Has, WithTicket, WithToken
  <2>2. what \in Acts /\ what.ticket = A!Mine(u) /\ what.at = "untenant"
    <3>1. acts[u] \in [at : WithTicket, seen : Nat, into : {"dormant", "running", "completed", "faulted"},
                       ticket : Activations]
      BY <2>1, ActFacts DEF TokenInv, Acts, A!Idle, Has, WithTicket, WithToken
    <3>2. QED
      BY <3>1 DEF Acts, A!Mine, WithTicket, WithToken
  <2>3. In(acts[u], "tenant") = 0 /\ In(what, "untotal") = 0
    BY <2>1, <2>2 DEF In
  <2> HIDE DEF what
  <2>4. acts' = [acts EXCEPT ![u] = what] /\ tenant' = tenant + 0 - 0
    BY <1>4 DEF A!Finish, A!Do, what, TokenInv, TokenTypes
  <2>5. QED
    BY <1>4, <2>1, <2>2, <2>3, <2>4, TokenKept DEF A!Finish
<1>5. QED
  BY <1>1, <1>2, <1>3, <1>4

(* on_complete gives the token back. *)
LEMMA UntotalKeeps ==
  ASSUME NEW u \in Producers, TokenInv, A!Untotal(u)
  PROVE  TokenInv'
<1> DEFINE what == [acts[u] EXCEPT !.at = "end"]
<1>1. /\ Has(u) /\ acts[u].at = "untotal" /\ acts[u].at \in WithToken
      /\ "end" \in WithTicket /\ "end" \notin WithToken
  BY DEF A!Untotal, A!At, Has, WithTicket, WithToken
<1>2. what \in Acts /\ what.ticket = A!Mine(u) /\ what.at = "end"
  BY <1>1, GoFacts DEF TokenInv
<1>3. /\ acts' = [acts EXCEPT ![u] = what] /\ total' = total - 1
      /\ tokens' = tokens \ {A!Mine(u)}
      /\ UNCHANGED <<policy, tenant, phase, epoch, tickets, withdrawn>>
  BY DEF A!Untotal, A!Go, A!Do
<1>4. A!Mine(u) \in tokens
  BY <1>1 DEF TokenInv, TicketsOK
<1>5. total' = Cardinality(tokens') /\ total' \in Int /\ total \in Nat
  BY <1>3, <1>4, TokenSizes DEF TokenInv, SumsOK, TokenTypes
<1>6. /\ In(acts[u], "tenant") = 0 /\ In(acts[u], "untotal") = 1 /\ In(what, "tenant") = 0
      /\ In(what, "untotal") = 0
  BY <1>1, <1>2 DEF In
<1>7. policy = "refuse" => total' <= Limit
  BY <1>3, <1>5, TokenFacts DEF TokenInv, LimitOK
<1> HIDE DEF what
<1>8. TokenTypes' /\ TicketsOK' /\ (~ withdrawn' => SingleOK')
  BY <1>1, <1>2, <1>3, <1>5, Carries DEF TokenInv, TokenTypes, Before
<1>9. SumsOK'
  <2>1. tenant' - total' - In(acts[u], "tenant") - In(acts[u], "untotal")
          = tenant - total - In(what, "tenant") - In(what, "untotal")
          /\ tenant' \in Int
    BY <1>3, <1>5, <1>6 DEF TokenInv, TokenTypes
  <2>2. QED
    BY <1>3, <1>5, <2>1, SumsMove DEF TokenInv
<1>10. LimitOK'
  BY <1>2, <1>3, <1>7, LimitMoves DEF TokenInv
<1>11. QED
  BY <1>8, <1>9, <1>10 DEF TokenInv

(* The other steps leave the tokens and the sums alone.                    *)
LEMMA Aside ==
  ASSUME TokenInv, NEW u \in Producers, NEW what, acts' = [acts EXCEPT ![u] = what],
         acts[u].at \notin {"tenant", "untotal"}, what.at \notin {"tenant", "untotal", "take"},
         what.at = "count" => policy = "degrade",
         UNCHANGED <<policy, total, tenant, tokens>>
  PROVE  SumsOK' /\ LimitOK'
<1>1. In(acts[u], "tenant") = 0 /\ In(acts[u], "untotal") = 0 /\ In(what, "tenant") = 0
      /\ In(what, "untotal") = 0
  BY DEF In
<1>2. /\ tenant' - total' - In(acts[u], "tenant") - In(acts[u], "untotal")
           = tenant - total - In(what, "tenant") - In(what, "untotal")
      /\ tenant' \in Int /\ total' \in Int /\ total' = Cardinality(tokens')
  BY <1>1 DEF TokenInv, TokenTypes, SumsOK
<1>3. SumsOK'
  BY <1>2, SumsMove DEF TokenInv
<1>4. LimitOK'
  BY LimitMoves DEF TokenInv, LimitOK
<1>5. QED
  BY <1>3, <1>4

(* activate makes a dormant or completed task ready. *)
LEMMA ActivateKeeps ==
  ASSUME NEW u \in Producers, NEW t \in Values, TokenInv, A!Activate(u, t)
  PROVE  TokenInv'
<1> DEFINE what == [at |-> "stamp", task |-> t]
<1>1. /\ acts[u].at = "idle" /\ acts' = [acts EXCEPT ![u] = what]
         /\ phase[t] \in {"dormant", "completed"}
      /\ phase' = [phase EXCEPT ![t] = "ready"]
      /\ UNCHANGED <<policy, total, tenant, epoch, tickets, tokens, withdrawn>>
  BY DEF A!Activate, A!At, A!Do
<1>2. what \in Acts /\ what.at = "stamp" /\ what.task = t
  BY DEF Acts
<1> HIDE DEF what
<1>3. acts'[u] = what /\ \A v \in Producers : v # u => acts'[v] = acts[v]
  BY <1>1, Doing DEF TokenInv
<1>4. SumsOK' /\ LimitOK'
  BY <1>1, <1>2, Aside
<1>5. TokenTypes'
  BY <1>1, <1>2 DEF TokenInv, TokenTypes
<1>6. ~ Has(u) /\ ~ Has(u)' /\ \A v \in Producers : Has(v)' = Has(v)
      /\ (Has(v) => A!Mine(v)' = A!Mine(v) /\ acts'[v] = acts[v])
  BY <1>1, <1>2, <1>3 DEF Has, A!Mine, WithTicket, WithToken
<1>7. TicketsOK'
  BY <1>1, <1>6 DEF TokenInv, TicketsOK
<1>8. ASSUME ~ withdrawn PROVE SingleOK'
  <2>1. SingleOK
    BY <1>8 DEF TokenInv
  <2>2. ~ Under(t) /\ phase'[t] = "ready" /\ \A s \in Values : s # t => phase'[s] = phase[s]
    BY <1>1 DEF Under, TokenInv, TokenTypes
  <2>3. \A v \in Producers : v # u => Subject(v)' = Subject(v) /\ acts'[v] = acts[v]
    BY <1>3 DEF Subject, A!Mine
  <2>4. Subject(u)' = t /\ acts'[u].at = "stamp"
    BY <1>2, <1>3 DEF Subject
  <2>5. \A v \in Producers : acts[v].at # "idle" => Subject(v) # t /\ Subject(v) \in Values
    BY <2>1, <2>2, ActFacts DEF SingleOK, Subject, TokenInv, Has
  <2>6. \A k \in tickets : k.task # t /\ k.task \in Values
    BY <2>1, <2>2 DEF SingleOK, TokenInv, TokenTypes, Activations, Under
  <2>7. \A v \in Producers : acts'[v].at # "retire"
    BY <2>1, <2>3, <2>4 DEF SingleOK
  <2>8. \A v \in Producers : acts'[v].at # "idle" => Under(Subject(v))'
    BY <2>1, <2>2, <2>3, <2>4, <2>5 DEF SingleOK, Under
  <2>9. \A v \in Producers : acts'[v].at \in Before => phase'[Subject(v)'] = "ready"
    BY <2>1, <2>2, <2>3, <2>4, <2>5 DEF SingleOK, Before
  <2>10. \A v \in Producers : Has(v)' => A!Mine(v)' = A!Ticket(A!Mine(v).task)'
    BY <1>1, <1>6, <2>1 DEF SingleOK, A!Ticket
  <2>11. \A k \in tickets' : k = A!Ticket(k.task)' /\ phase'[k.task] = "ready"
    BY <1>1, <2>1, <2>2, <2>6 DEF SingleOK, A!Ticket
  <2>12. \A v, w \in Producers :
           acts'[v].at # "idle" /\ acts'[w].at # "idle" /\ Subject(v)' = Subject(w)' => v = w
    BY <2>1, <2>3, <2>4, <2>5 DEF SingleOK
  <2>13. \A v \in Producers, k \in tickets' : acts'[v].at # "idle" => k.task # Subject(v)'
    BY <1>1, <2>1, <2>3, <2>4, <2>6 DEF SingleOK
  <2>14. \A k \in tokens' : k \in tickets' \/ \E v \in Producers : Has(v)' /\ A!Mine(v)' = k
    BY <1>1, <1>6, <2>1 DEF SingleOK
  <2>15. QED
    BY <1>6, <2>7, <2>8, <2>9, <2>10, <2>11, <2>12, <2>13, <2>14 DEF SingleOK
<1>9. QED
  BY <1>1, <1>4, <1>5, <1>7, <1>8 DEF TokenInv

(* A task that is made ready has a new epoch, and a ticket of it. *)
LEMMA StampKeepsTokens ==
  ASSUME NEW u \in Producers, TokenInv, A!Stamp(u)
  PROVE  TokenInv'
<1> DEFINE t == acts[u].task
           k == [task |-> t, epoch |-> epoch[t] + 1]
           what == [at |-> IF policy = "degrade" THEN "count" ELSE "look", seen |-> 0,
                    into |-> "dormant", ticket |-> k]
<1>1. /\ acts[u].at = "stamp" /\ acts' = [acts EXCEPT ![u] = what]
      /\ epoch' = [epoch EXCEPT ![t] = @ + 1]
      /\ UNCHANGED <<policy, total, tenant, phase, tickets, tokens, withdrawn>>
  BY DEF A!Stamp, A!At, A!Do
<1>2. t \in Values /\ epoch[t] \in Nat
  BY <1>1, ActFacts DEF TokenInv, TokenTypes
<1>3. k \in Activations /\ k.task = t /\ k.epoch = epoch[t] + 1
  BY <1>2 DEF Activations
<1>4. /\ what \in Acts /\ what.ticket = k /\ what.at \in {"look", "count"}
      /\ what.at = "count" => policy = "degrade"
  BY <1>3 DEF Acts, WithTicket
<1> HIDE DEF what
<1>5. acts'[u] = what /\ \A v \in Producers : v # u => acts'[v] = acts[v]
  BY <1>1, Doing DEF TokenInv
<1>6. SumsOK' /\ LimitOK'
  BY <1>1, <1>4, Aside
<1>7. TokenTypes'
  <2>1. epoch' \in [Values -> Nat] /\ acts' \in [Producers -> Acts]
    BY <1>1, <1>2, <1>4 DEF TokenInv, TokenTypes
  <2>2. QED
    BY <1>1, <2>1 DEF TokenInv, TokenTypes
<1>8. /\ ~ Has(u) /\ Has(u)' /\ A!Mine(u)' = k /\ acts'[u].at \in {"look", "count"}
      /\ \A v \in Producers : v # u => Has(v)' = Has(v) /\ A!Mine(v)' = A!Mine(v)
         /\ acts'[v] = acts[v]
  BY <1>1, <1>4, <1>5 DEF Has, A!Mine, WithTicket, WithToken
<1>9. /\ epoch'[t] = epoch[t] + 1 /\ \A s \in Values : s # t => epoch'[s] = epoch[s]
      /\ \A s \in Values : epoch'[s] >= epoch[s] /\ epoch[s] \in Nat /\ epoch'[s] \in Nat
  BY <1>1, <1>2 DEF TokenInv, TokenTypes
<1>10. \A j \in tickets \cup tokens : j.task \in Values /\ j.epoch \in Nat
       /\ j.epoch <= epoch[j.task] /\ j # k
  <2>1. \A j \in tickets \cup tokens : j.task \in Values /\ j.epoch \in Nat
        /\ j.epoch <= epoch[j.task]
    BY DEF TokenInv, TokenTypes, TicketsOK, Activations
  <2>2. QED
    BY <1>2, <1>3, <2>1
<1>11. \A v \in Producers : Has(v) =>
         A!Mine(v).task \in Values /\ A!Mine(v).epoch \in Nat
         /\ A!Mine(v).epoch <= epoch[A!Mine(v).task] /\ A!Mine(v) # k
  <2>1. \A v \in Producers : Has(v) =>
         A!Mine(v).task \in Values /\ A!Mine(v).epoch \in Nat
         /\ A!Mine(v).epoch <= epoch[A!Mine(v).task]
    BY ActFacts DEF TokenInv, TicketsOK
  <2>2. QED
    BY <1>2, <1>3, <2>1
<1> HIDE DEF k
<1>12. TicketsOK'
  <2>1. \A j \in tickets' \cup tokens' : j.epoch <= epoch'[j.task]
    BY <1>1, <1>9, <1>10
  <2>2. \A v \in Producers : Has(v)' => A!Mine(v)'.epoch <= epoch'[A!Mine(v)'.task]
        /\ A!Mine(v)' \notin tickets'
    <3>1. A!Mine(u)'.epoch <= epoch'[A!Mine(u)'.task] /\ A!Mine(u)' \notin tickets'
      BY <1>1, <1>2, <1>3, <1>8, <1>9, <1>10
    <3>2. \A v \in Producers : v # u /\ Has(v) => A!Mine(v).epoch <= epoch'[A!Mine(v).task]
          /\ A!Mine(v) \notin tickets'
      BY <1>1, <1>9, <1>11 DEF TokenInv, TicketsOK
    <3>3. QED
      BY <1>8, <3>1, <3>2
  <2>3. \A v, w \in Producers : Has(v)' /\ Has(w)' /\ A!Mine(v)' = A!Mine(w)' => v = w
    BY <1>8, <1>11 DEF TokenInv, TicketsOK
  <2>4. \A v \in Producers : Has(v)' => (A!Mine(v)' \in tokens' <=> acts'[v].at \in WithToken)
    <3>1. A!Mine(u)' \notin tokens' /\ acts'[u].at \notin WithToken
      BY <1>1, <1>8, <1>10 DEF WithToken
    <3>2. QED
      BY <1>1, <1>8, <3>1 DEF TokenInv, TicketsOK
  <2>5. QED
    BY <1>1, <2>1, <2>2, <2>3, <2>4 DEF TokenInv, TicketsOK
<1>13. ASSUME ~ withdrawn PROVE SingleOK'
  <2>1. SingleOK
    BY <1>13 DEF TokenInv
  <2>2. \A v \in Producers : /\ Subject(v)' = Subject(v)
                             /\ acts'[v].at = "idle" <=> acts[v].at = "idle"
                             /\ acts'[v].at = "retire" <=> acts[v].at = "retire"
                             /\ acts'[v].at \in Before <=> acts[v].at \in Before
    BY <1>1, <1>3, <1>4, <1>5 DEF Subject, A!Mine, Before
  <2>3. Subject(u) = t /\ acts[u].at # "idle"
    BY <1>1 DEF Subject
  <2>4. \A v \in Producers : v # u /\ Has(v) => A!Mine(v).task # t
    <3>1. \A v \in Producers : Has(v) => acts[v].at # "idle" /\ Subject(v) = A!Mine(v).task
      BY DEF Has, Subject, WithTicket, WithToken
    <3>2. QED
      BY <2>1, <2>3, <3>1 DEF SingleOK
  <2>5. \A j \in tickets : j.task # t
    BY <2>1, <2>3 DEF SingleOK
  <2>6. \A v \in Producers : Has(v)' => A!Mine(v)' = A!Ticket(A!Mine(v).task)'
    <3>1. A!Mine(u)' = A!Ticket(A!Mine(u).task)'
      BY <1>3, <1>8, <1>9 DEF A!Ticket, k
    <3>2. ASSUME NEW v \in Producers, v # u, Has(v) PROVE A!Mine(v) = A!Ticket(A!Mine(v).task)'
      <4>1. A!Mine(v) = A!Ticket(A!Mine(v).task) /\ A!Mine(v).task \in Values
        BY <1>11, <2>1, <3>2 DEF SingleOK
      <4>2. QED
        BY <1>8, <1>9, <2>4, <3>2, <4>1 DEF A!Ticket
    <3>3. QED
      BY <1>8, <3>1, <3>2
  <2>7. \A j \in tickets' : j = A!Ticket(j.task)' /\ phase'[j.task] = "ready"
    BY <1>1, <1>9, <1>10, <2>1, <2>5 DEF SingleOK, A!Ticket
  <2>8. \A j \in tokens' : j \in tickets' \/ \E v \in Producers : Has(v)' /\ A!Mine(v)' = j
    <3>1. \A j \in tokens : j \in tickets \/ \E v \in Producers : v # u /\ Has(v)
          /\ A!Mine(v) = j
      BY <1>8, <2>1 DEF SingleOK
    <3>2. QED
      BY <1>1, <1>8, <3>1
  <2>9. \A v \in Producers : acts'[v].at # "retire"
    BY <2>1, <2>2 DEF SingleOK
  <2>10. \A v \in Producers : acts'[v].at # "idle" => Under(Subject(v))'
    BY <1>1, <2>1, <2>2 DEF SingleOK, Under
  <2>11. \A v \in Producers : acts'[v].at \in Before => phase'[Subject(v)'] = "ready"
    BY <1>1, <2>1, <2>2 DEF SingleOK
  <2>12. \A v, w \in Producers :
           acts'[v].at # "idle" /\ acts'[w].at # "idle" /\ Subject(v)' = Subject(w)' => v = w
    BY <2>1, <2>2 DEF SingleOK
  <2>13. \A v \in Producers, j \in tickets' : acts'[v].at # "idle" => j.task # Subject(v)'
    BY <1>1, <2>1, <2>2 DEF SingleOK
  <2>14. QED
    BY <2>6, <2>7, <2>8, <2>9, <2>10, <2>11, <2>12, <2>13 DEF SingleOK
<1>14. QED
  BY <1>1, <1>6, <1>7, <1>12, <1>13 DEF TokenInv

(* A ticket is routed, and so out of the hand of its thread. *)
LEMMA RouteKeeps ==
  ASSUME NEW u \in Producers, TokenInv, A!Route(u)
  PROVE  TokenInv'
<1> DEFINE k == A!Mine(u)
<1>1. /\ acts[u].at = "route" /\ acts' = [acts EXCEPT ![u] = A!Idle]
      /\ tickets' = tickets \cup {k} /\ A!Idle \in Acts /\ A!Idle.at = "idle"
      /\ UNCHANGED <<policy, total, tenant, phase, epoch, tokens, withdrawn>>
  BY DEF A!Route, A!At, A!Do, Acts, A!Idle
<1>2. Has(u) /\ acts[u].at \in WithToken /\ k \in Activations /\ k.task \in Values
  BY <1>1, ActFacts DEF TokenInv, Has, WithTicket, WithToken
<1>3. acts'[u] = A!Idle /\ \A v \in Producers : v # u => acts'[v] = acts[v]
  BY <1>1, Doing DEF TokenInv
<1>4. tenant' = tenant /\ SumsOK' /\ LimitOK'
  BY <1>1, Aside
<1>5. TokenTypes'
  BY <1>1, <1>2 DEF TokenInv, TokenTypes
<1>6. /\ ~ Has(u)' /\ acts'[u].at = "idle"
      /\ \A v \in Producers : v # u => Has(v)' = Has(v) /\ A!Mine(v)' = A!Mine(v)
         /\ acts'[v] = acts[v]
                                         /\ Subject(v)' = Subject(v)
  BY <1>1, <1>3 DEF Has, A!Mine, Subject, WithTicket, WithToken
<1>7. k \in tokens /\ k.epoch <= epoch[k.task] /\ \A v \in Producers : v # u /\ Has(v)
        => A!Mine(v) # k
  BY <1>2 DEF TokenInv, TicketsOK
<1> HIDE DEF k
<1>8. TicketsOK'
  BY <1>1, <1>6, <1>7 DEF TokenInv, TicketsOK
<1>9. ASSUME ~ withdrawn PROVE SingleOK'
  <2>1. SingleOK
    BY <1>9 DEF TokenInv
  <2>2. Subject(u) = k.task /\ acts[u].at # "idle" /\ phase[k.task] = "ready"
        /\ k = A!Ticket(k.task)
    BY <1>1, <1>2, <2>1 DEF SingleOK, Subject, Before, k
  <2>3. \A v \in Producers : acts'[v].at # "retire"
    BY <1>6, <2>1 DEF SingleOK
  <2>4. \A v \in Producers : acts'[v].at # "idle" => Under(Subject(v))'
    BY <1>1, <1>6, <2>1 DEF SingleOK, Under
  <2>5. \A v \in Producers : acts'[v].at \in Before => phase'[Subject(v)'] = "ready"
    BY <1>1, <1>6, <2>1 DEF SingleOK, Before
  <2>6. \A v \in Producers : Has(v)' => A!Mine(v)' = A!Ticket(A!Mine(v).task)'
    BY <1>1, <1>6, <2>1 DEF SingleOK, A!Ticket
  <2>7. \A j \in tickets' : j = A!Ticket(j.task)' /\ phase'[j.task] = "ready"
    BY <1>1, <2>1, <2>2 DEF SingleOK, A!Ticket
  <2>8. \A v, w \in Producers :
          acts'[v].at # "idle" /\ acts'[w].at # "idle" /\ Subject(v)' = Subject(w)' => v = w
    BY <1>6, <2>1 DEF SingleOK
  <2>9. \A v \in Producers, j \in tickets' : acts'[v].at # "idle" => j.task # Subject(v)'
    BY <1>1, <1>6, <2>1, <2>2 DEF SingleOK
  <2>10. \A j \in tokens' : j \in tickets' \/ \E v \in Producers : Has(v)' /\ A!Mine(v)' = j
    <3>1. \A j \in tokens : j \in tickets \/ j = k \/ \E v \in Producers : v # u /\ Has(v)
          /\ A!Mine(v) = j
      BY <2>1 DEF SingleOK, k
    <3>2. QED
      BY <1>1, <1>6, <3>1
  <2>11. QED
    BY <2>3, <2>4, <2>5, <2>6, <2>7, <2>8, <2>9, <2>10 DEF SingleOK
<1>10. QED
  BY <1>1, <1>4, <1>5, <1>8, <1>9 DEF TokenInv

(* A ticket that is out of date is dropped; nothing else is, as long as    *)
(* nothing is deactivated.                                                 *)
LEMMA RunKeeps ==
  ASSUME NEW u \in Producers, NEW k \in tickets, TokenInv, A!Run(u, k)
  PROVE  TokenInv'
<1> DEFINE fresh == k = A!Ticket(k.task) /\ phase[k.task] = "ready"
           what == [at |-> "run", seen |-> 0, into |-> "running", ticket |-> k]
<1>1. /\ acts[u].at = "idle" /\ tickets' = tickets \ {k} /\ tokens' = tokens
      /\ UNCHANGED <<policy, total, tenant, epoch, tokens, withdrawn>>
      /\ fresh => phase' = [phase EXCEPT ![k.task] = "running"]
         /\ acts' = [acts EXCEPT ![u] = what]
      /\ ~ fresh => phase' = phase /\ acts' = acts
  BY DEF A!Run, A!At, A!Do
<1>2. /\ k \in Activations /\ k.task \in Values /\ k \in tokens /\ k.epoch <= epoch[k.task]
      /\ \A v \in Producers : Has(v) => A!Mine(v) # k
  BY DEF TokenInv, TokenTypes, TicketsOK, Activations
<1>3. CASE ~ fresh
  <2>1. withdrawn
    BY <1>3 DEF TokenInv, SingleOK
  <2>2. TokenTypes'
    BY <1>1, <1>3 DEF TokenInv, TokenTypes
  <2>3. /\ \A v \in Producers : Has(v)' = Has(v) /\ (Has(v) => A!Mine(v)' = A!Mine(v))
        /\ A!Where({"tenant"})' = A!Where({"tenant"})
           /\ A!Where({"untotal"})' = A!Where({"untotal"})
    BY <1>1, <1>3 DEF Has, A!Mine, A!Where
  <2>4. TicketsOK'
    BY <1>1, <1>3, <2>3 DEF TokenInv, TicketsOK
  <2>5. LimitOK' /\ SumsOK'
    BY <1>1, <1>3, <2>3 DEF TokenInv, LimitOK, SumsOK
  <2>6. QED
    BY <1>1, <2>1, <2>2, <2>4, <2>5 DEF TokenInv
<1>4. CASE fresh
  <2>1. /\ what \in Acts /\ what.ticket = k /\ what.at = "run"
    BY <1>2 DEF Acts, WithTicket, WithToken
  <2>2. acts' = [acts EXCEPT ![u] = what] /\ phase' = [phase EXCEPT ![k.task] = "running"]
    BY <1>1, <1>4
  <2> HIDE DEF what
  <2>3. acts'[u] = what /\ \A v \in Producers : v # u => acts'[v] = acts[v]
    BY <2>2, Doing DEF TokenInv
  <2>4. SumsOK' /\ LimitOK'
    BY <1>1, <2>1, <2>2, Aside
  <2>5. TokenTypes'
    BY <1>1, <1>2, <2>1, <2>2 DEF TokenInv, TokenTypes
  <2>6. /\ ~ Has(u) /\ Has(u)' /\ A!Mine(u)' = k /\ acts'[u].at = "run"
        /\ \A v \in Producers : v # u => Has(v)' = Has(v) /\ A!Mine(v)' = A!Mine(v)
           /\ acts'[v] = acts[v]
                                           /\ Subject(v)' = Subject(v)
    BY <1>1, <2>1, <2>3 DEF Has, A!Mine, Subject, WithTicket, WithToken
  <2>7. TicketsOK'
    BY <1>1, <1>2, <2>6 DEF TokenInv, TicketsOK, WithToken
  <2>8. ASSUME ~ withdrawn PROVE SingleOK'
    <3>1. SingleOK
      BY <2>8 DEF TokenInv
    <3>2. \A v \in Producers : acts[v].at # "idle" => Subject(v) # k.task
      BY <3>1 DEF SingleOK
    <3>3. Subject(u)' = k.task
      BY <2>6 DEF Subject
    <3>4. phase'[k.task] = "running" /\ \A s : s \in Values /\ s # k.task
            => phase'[s] = phase[s]
      BY <1>2, <2>2 DEF TokenInv, TokenTypes
    <3>5. \A v \in Producers : acts[v].at # "idle" => Subject(v) \in Values
      BY <3>1, ActFacts DEF SingleOK, Subject, TokenInv, Has
    <3>6. \A j \in tickets' : j.task # k.task /\ j.task \in Values
      <4>1. \A j \in tickets : j = A!Ticket(j.task) /\ j.task \in Values
        BY <3>1 DEF SingleOK, TokenInv, TokenTypes, Activations
      <4>2. QED
        BY <1>1, <1>4, <4>1
    <3>7. \A v \in Producers : acts'[v].at # "retire"
      BY <2>6, <3>1 DEF SingleOK
    <3>8. \A v \in Producers : acts'[v].at # "idle" => Under(Subject(v))'
      BY <2>6, <3>1, <3>2, <3>3, <3>4, <3>5 DEF SingleOK, Under
    <3>9. \A v \in Producers : acts'[v].at \in Before => phase'[Subject(v)'] = "ready"
      BY <2>6, <3>1, <3>2, <3>4, <3>5 DEF SingleOK, Before
    <3>10. \A v \in Producers : Has(v)' => A!Mine(v)' = A!Ticket(A!Mine(v).task)'
      BY <1>1, <1>4, <2>6, <3>1 DEF SingleOK, A!Ticket
    <3>11. \A j \in tickets' : j = A!Ticket(j.task)' /\ phase'[j.task] = "ready"
      BY <1>1, <3>1, <3>4, <3>6 DEF SingleOK, A!Ticket
    <3>12. \A v, w \in Producers :
             acts'[v].at # "idle" /\ acts'[w].at # "idle" /\ Subject(v)' = Subject(w)' => v = w
      BY <2>6, <3>1, <3>2, <3>3 DEF SingleOK
    <3>13. \A v \in Producers, j \in tickets' : acts'[v].at # "idle" => j.task # Subject(v)'
      BY <1>1, <2>6, <3>1, <3>3, <3>6 DEF SingleOK
    <3>14. \A j \in tokens' : j \in tickets' \/ \E v \in Producers : Has(v)' /\ A!Mine(v)' = j
      BY <1>1, <2>6, <3>1 DEF SingleOK
    <3>15. QED
      BY <3>7, <3>8, <3>9, <3>10, <3>11, <3>12, <3>13, <3>14 DEF SingleOK
  <2>9. QED
    BY <1>1, <2>4, <2>5, <2>7, <2>8 DEF TokenInv
<1>5. QED
  BY <1>3, <1>4

(* The task of a ticket that is done with has ended, or is dormant again. *)
LEMMA EndKeeps ==
  ASSUME NEW u \in Producers, TokenInv, A!End(u)
  PROVE  TokenInv'
<1> DEFINE k == A!Mine(u)
<1>1. /\ acts[u].at = "end" /\ acts' = [acts EXCEPT ![u] = A!Idle]
      /\ phase' = [phase EXCEPT ![k.task] = acts[u].into] /\ A!Idle \in Acts
         /\ A!Idle.at = "idle"
      /\ UNCHANGED <<policy, total, tenant, epoch, tickets, tokens, withdrawn>>
  BY DEF A!End, A!At, A!Do, Acts, A!Idle
<1>2. /\ Has(u) /\ acts[u].at \notin WithToken /\ k \in Activations /\ k.task \in Values
      /\ acts[u].into \in {"dormant", "running", "completed", "faulted"}
  BY <1>1, ActFacts DEF TokenInv, Has, WithTicket, WithToken
<1>3. acts'[u] = A!Idle /\ \A v \in Producers : v # u => acts'[v] = acts[v]
  BY <1>1, Doing DEF TokenInv
<1>4. tenant' = tenant /\ SumsOK' /\ LimitOK'
  BY <1>1, Aside
<1>5. TokenTypes'
  BY <1>1, <1>2 DEF TokenInv, TokenTypes
<1>6. /\ ~ Has(u)' /\ acts'[u].at = "idle"
      /\ \A v \in Producers : v # u => Has(v)' = Has(v) /\ A!Mine(v)' = A!Mine(v)
         /\ acts'[v] = acts[v]
                                         /\ Subject(v)' = Subject(v)
  BY <1>1, <1>3 DEF Has, A!Mine, Subject, WithTicket, WithToken
<1>7. k \notin tokens
  BY <1>2 DEF TokenInv, TicketsOK
<1>8. TicketsOK'
  BY <1>1, <1>6 DEF TokenInv, TicketsOK
<1>9. ASSUME ~ withdrawn PROVE SingleOK'
  <2>1. SingleOK
    BY <1>9 DEF TokenInv
  <2>2. Subject(u) = k.task /\ acts[u].at # "idle"
    BY <1>1 DEF Subject
  <2>3. \A s \in Values : s # k.task => phase'[s] = phase[s]
    BY <1>1 DEF TokenInv, TokenTypes
  <2>4. \A v \in Producers : v # u /\ acts[v].at # "idle" => Subject(v) # k.task
        /\ Subject(v) \in Values
    BY <2>1, <2>2, ActFacts DEF SingleOK, Subject, TokenInv, Has
  <2>5. \A j \in tickets : j.task # k.task /\ j.task \in Values
    BY <2>1, <2>2 DEF SingleOK, TokenInv, TokenTypes, Activations
  <2>6. \A v \in Producers : acts'[v].at # "retire"
    BY <1>6, <2>1 DEF SingleOK
  <2>7. \A v \in Producers : acts'[v].at # "idle" => Under(Subject(v))'
    BY <1>6, <2>1, <2>3, <2>4 DEF SingleOK, Under
  <2>8. \A v \in Producers : acts'[v].at \in Before => phase'[Subject(v)'] = "ready"
    <3>1. \A v \in Producers : acts'[v].at \in Before => v # u /\ acts[v].at \in Before
          /\ acts[v].at # "idle"
      BY <1>6 DEF Before
    <3>2. QED
      BY <1>6, <2>1, <2>3, <2>4, <3>1 DEF SingleOK
  <2>9. \A v \in Producers : Has(v)' => A!Mine(v)' = A!Ticket(A!Mine(v).task)'
    BY <1>1, <1>6, <2>1 DEF SingleOK, A!Ticket
  <2>10. \A j \in tickets' : j = A!Ticket(j.task)' /\ phase'[j.task] = "ready"
    BY <1>1, <2>1, <2>3, <2>5 DEF SingleOK, A!Ticket
  <2>11. \A v, w \in Producers :
           acts'[v].at # "idle" /\ acts'[w].at # "idle" /\ Subject(v)' = Subject(w)' => v = w
    BY <1>6, <2>1 DEF SingleOK
  <2>12. \A v \in Producers, j \in tickets' : acts'[v].at # "idle" => j.task # Subject(v)'
    BY <1>1, <1>6, <2>1 DEF SingleOK
  <2>13. \A j \in tokens' : j \in tickets' \/ \E v \in Producers : Has(v)' /\ A!Mine(v)' = j
    <3>1. \A j \in tokens : j \in tickets \/ \E v \in Producers : v # u /\ Has(v)
          /\ A!Mine(v) = j
      BY <1>7, <2>1 DEF SingleOK
    <3>2. QED
      BY <1>1, <1>6, <3>1
  <2>14. QED
    BY <2>6, <2>7, <2>8, <2>9, <2>10, <2>11, <2>12, <2>13 DEF SingleOK
<1>10. QED
  BY <1>1, <1>4, <1>5, <1>8, <1>9 DEF TokenInv

(* deactivate makes a ready task dormant; its ticket stays about. *)
LEMMA DeactivateKeeps ==
  ASSUME NEW u \in Producers, NEW t \in Values, TokenInv, A!Deactivate(u, t)
  PROVE  TokenInv'
<1> DEFINE what == [at |-> "retire", task |-> t]
<1>1. /\ acts[u].at = "idle" /\ acts' = [acts EXCEPT ![u] = what]
      /\ phase' = [phase EXCEPT ![t] = "dormant"] /\ withdrawn' = TRUE
      /\ UNCHANGED <<policy, total, tenant, epoch, tickets, tokens>>
  BY DEF A!Deactivate, A!At, A!Do
<1>2. what \in Acts /\ what.at = "retire" /\ what.task = t
  BY DEF Acts
<1> HIDE DEF what
<1>3. acts'[u] = what /\ \A v \in Producers : v # u => acts'[v] = acts[v]
  BY <1>1, Doing DEF TokenInv
<1>4. SumsOK' /\ LimitOK'
  BY <1>1, <1>2, Aside
<1>5. TokenTypes'
  BY <1>1, <1>2 DEF TokenInv, TokenTypes
<1>6. ~ Has(u) /\ ~ Has(u)' /\ \A v \in Producers : Has(v)' = Has(v)
      /\ (Has(v) => A!Mine(v)' = A!Mine(v) /\ acts'[v] = acts[v])
  BY <1>1, <1>2, <1>3 DEF Has, A!Mine, WithTicket, WithToken
<1>7. TicketsOK'
  BY <1>1, <1>6 DEF TokenInv, TicketsOK
<1>8. QED
  BY <1>1, <1>4, <1>5, <1>7 DEF TokenInv

(* A deactivated task has its epoch raised: its ticket is stale. *)
LEMMA RetireKeeps ==
  ASSUME NEW u \in Producers, TokenInv, A!Retire(u)
  PROVE  TokenInv'
<1> DEFINE t == acts[u].task
<1>1. /\ acts[u].at = "retire" /\ acts' = [acts EXCEPT ![u] = A!Idle] /\ A!Idle \in Acts
         /\ A!Idle.at = "idle"
      /\ epoch' = [epoch EXCEPT ![t] = @ + 1]
      /\ UNCHANGED <<policy, total, tenant, phase, tickets, tokens, withdrawn>>
  BY DEF A!Retire, A!At, A!Do, Acts, A!Idle
<1>2. withdrawn' /\ t \in Values
  BY <1>1, ActFacts DEF TokenInv, SingleOK
<1>3. acts'[u] = A!Idle /\ \A v \in Producers : v # u => acts'[v] = acts[v]
  BY <1>1, Doing DEF TokenInv
<1>4. SumsOK' /\ LimitOK'
  BY <1>1, Aside
<1>5. epoch' \in [Values -> Nat] /\ \A s \in Values : epoch[s] \in Nat /\ epoch'[s] \in Nat
      /\ epoch[s] <= epoch'[s]
  BY <1>1, <1>2 DEF TokenInv, TokenTypes
<1>6. TokenTypes'
  BY <1>1, <1>5 DEF TokenInv, TokenTypes
<1>7. ~ Has(u) /\ ~ Has(u)' /\ \A v \in Producers : Has(v)' = Has(v)
      /\ (Has(v) => A!Mine(v)' = A!Mine(v) /\ acts'[v] = acts[v])
  BY <1>1, <1>3 DEF Has, A!Mine, WithTicket, WithToken
<1>8. TicketsOK'
  <2>1. \A k \in tickets \cup tokens : k.task \in Values /\ k.epoch \in Nat
        /\ k.epoch <= epoch[k.task]
    BY DEF TokenInv, TokenTypes, TicketsOK, Activations
  <2>2. \A v \in Producers : Has(v) => A!Mine(v).task \in Values /\ A!Mine(v).epoch \in Nat
        /\ A!Mine(v).epoch <= epoch[A!Mine(v).task]
    BY ActFacts DEF TokenInv, TicketsOK
  <2>3. \A k \in tickets' \cup tokens' : k.epoch <= epoch'[k.task]
    BY <1>1, <1>5, <2>1
  <2>4. \A v \in Producers : Has(v)' => A!Mine(v)'.epoch <= epoch'[A!Mine(v)'.task]
        /\ A!Mine(v)' \notin tickets'
    BY <1>1, <1>5, <1>7, <2>2 DEF TokenInv, TicketsOK
  <2>5. QED
    BY <1>1, <1>7, <2>3, <2>4 DEF TokenInv, TicketsOK
<1>9. QED
  BY <1>1, <1>2, <1>4, <1>6, <1>8 DEF TokenInv

(* No token is out, and none is counted. *)
LEMMA InitTokens == A!Init => TokenInv
<1> SUFFICES ASSUME A!Init PROVE TokenInv
  OBVIOUS
<1>1. \A u \in Producers : acts[u] = A!Idle /\ acts[u].at = "idle" /\ ~ Has(u)
  BY DEF A!Init, A!Idle, Has, WithTicket, WithToken
<1>2. TokenTypes
  <2>1. acts \in [Producers -> Acts]
    BY DEF A!Init, Acts
  <2>2. IsFiniteSet(tokens) /\ policy \in {"refuse", "degrade"}
    BY TokenFacts, FS_EmptySet DEF A!Init
  <2>3. withdrawn \in BOOLEAN /\ tickets \in SUBSET Activations /\ tokens \in SUBSET Activations
    BY DEF A!Init
  <2>4. /\ phase \in [Values -> {"dormant", "ready", "running", "completed", "faulted"}]
        /\ epoch \in [Values -> Nat] /\ total \in Int /\ tenant \in Int
    BY DEF A!Init
  <2>5. QED
    BY <2>1, <2>2, <2>3, <2>4 DEF TokenTypes
<1>3. TicketsOK /\ LimitOK /\ SingleOK
  BY <1>1, TokenFacts DEF A!Init, TicketsOK, LimitOK, SingleOK, Before
<1>4. SumsOK
  <2>1. A!Where({"tenant"}) = {} /\ A!Where({"untotal"}) = {}
    BY <1>1 DEF A!Where
  <2>2. QED
    BY <2>1, FS_EmptySet DEF A!Init, SumsOK
<1>5. QED
  BY <1>2, <1>3, <1>4 DEF TokenInv

(* Every step keeps the invariant. *)
LEMMA TokenStep == TokenInv /\ [A!Next]_(A!vars) => TokenInv'
<1> SUFFICES ASSUME TokenInv, [A!Next]_(A!vars) PROVE TokenInv'
  OBVIOUS
<1>1. CASE UNCHANGED A!vars
  <2>1. TokenTypes' /\ LimitOK'
    BY <1>1 DEF A!vars, TokenInv, TokenTypes, LimitOK
  <2>2. \A u \in Producers : Has(u)' = Has(u) /\ A!Mine(u)' = A!Mine(u)
        /\ Subject(u)' = Subject(u)
    BY <1>1 DEF A!vars, Has, A!Mine, Subject
  <2>3. \A t : Under(t)' = Under(t) /\ A!Ticket(t)' = A!Ticket(t)
    BY <1>1 DEF A!vars, Under, A!Ticket
  <2>4. TicketsOK'
    BY <1>1, <2>2 DEF A!vars, TokenInv, TicketsOK
  <2>5. SumsOK'
    BY <1>1 DEF A!vars, TokenInv, SumsOK, A!Where
  <2>6. ~ withdrawn' => SingleOK'
    BY <1>1, <2>2, <2>3 DEF A!vars, TokenInv, SingleOK
  <2>7. QED
    BY <2>1, <2>4, <2>5, <2>6 DEF TokenInv
<1>2. ASSUME NEW u \in Producers, NEW t \in Values, A!Activate(u, t) \/ A!Deactivate(u, t)
      PROVE  TokenInv'
  BY <1>2, ActivateKeeps, DeactivateKeeps
<1>3. ASSUME NEW u \in Producers, A!Look(u) \/ A!TakeLost(u) PROVE TokenInv'
  <2>1. acts[u].at \in {"look", "take"} /\ A!Compare(u)
        /\ UNCHANGED <<policy, total, tenant, phase, epoch, tickets, tokens, withdrawn>>
    BY <1>3 DEF A!Look, A!TakeLost, A!At
  <2>2. QED
    BY <2>1, CompareKeeps
<1>4. ASSUME NEW u \in Producers,
             \/ A!Stamp(u) \/ A!Take(u) \/ A!TakeOver(u) \/ A!Tenant(u)
             \/ A!Route(u) \/ A!RouteRefused(u)
             \/ \E k \in tickets : A!Run(u, k)
             \/ \E outcome \in {"completed", "faulted"} : A!Finish(u, outcome)
             \/ A!Untenant(u) \/ A!Untotal(u) \/ A!End(u) \/ A!Retire(u)
      PROVE  TokenInv'
  BY <1>4, StampKeepsTokens, TakesKeep, GoesOn, RouteKeeps, RunKeeps, UntotalKeeps, EndKeeps,
     RetireKeeps
<1>5. QED
  BY <1>1, <1>2, <1>3, <1>4 DEF A!Next, A!Rest

(* The property is part of the invariant. *)
LEMMA TokensSafe == TokenInv => A!TokensExact
<1> SUFFICES ASSUME TokenInv PROVE A!TokensExact
  OBVIOUS
<1>1. ASSUME ~ withdrawn, NEW k \in tokens
      PROVE  k = A!Ticket(k.task) /\ phase[k.task] \in {"ready", "running"}
  <2>1. SingleOK
    BY <1>1 DEF TokenInv
  <2>2. CASE k \in tickets
    BY <2>1, <2>2 DEF SingleOK
  <2>3. ASSUME NEW u \in Producers, Has(u), A!Mine(u) = k
        PROVE  k = A!Ticket(k.task) /\ phase[k.task] \in {"ready", "running"}
    <3>1. acts[u].at # "idle" /\ Subject(u) = k.task
      BY <2>3 DEF Has, Subject, WithTicket, WithToken
    <3>2. QED
      BY <2>1, <2>3, <3>1 DEF SingleOK, Under
  <2>4. QED
    BY <1>1, <2>1, <2>2, <2>3 DEF SingleOK
<1>2. QED
  BY <1>1, SameSizes DEF TokenInv, SumsOK, LimitOK, A!TokensExact

(* The invariant holds in every behaviour of the admission. *)
LEMMA TokensInductive == (A!Init /\ [][A!Next]_(A!vars)) => []TokenInv
BY InitTokens, TokenStep, PTL

-----------------------------------------------------------------------------
(* The table of contexts.  A slot's generation never goes down, and goes   *)
(* up only when nobody has a reference to it; so a reference stays one of  *)
(* the context it was taken of (HoldingOK), whatever a retain or release   *)
(* that has read the slot before does to it.  Who takes or frees a slot is *)
(* alone with it (BusyOK), and each reference, a stray one too, is counted *)
(* once (RefsOK).                                                          *)

Ids == [index : C!Indices, generation : Nat]
Retaining == {"retain", "match", "load", "raise"}
Dropping == {"drop", "check", "lower"}
Does ==
    {C!Idle} \cup [at : {"probe"}, n : Nat] \cup [at : {"stamp"}, index : C!Indices]
      \cup [at : {"count", "move"}, id : Ids]
      \cup [at : {"retain", "match", "load"}, place : C!Tasks \cup {"inherit"}, id : Ids]
      \cup [at : {"raise"}, place : C!Tasks \cup {"inherit"}, id : Ids, seen : Nat]
      \cup [at : Dropping \cup {"free"}, place : C!Tasks \cup {"own"}, id : Ids]

Refs == [by : Producers, place : C!Tasks \cup {"own"}, id : Ids]

ContextTypes ==
  /\ slots \in [C!Indices -> [used : BOOLEAN, generation : Nat, refs : Nat]]
  /\ cursor \in C!Indices /\ task \in [Producers -> [C!Tasks -> Ids \cup {None}]]
  /\ doing \in [Producers -> Does] /\ own \in [Producers -> SUBSET Ids]
  /\ holding \in SUBSET Refs /\ IsFiniteSet(holding) /\ strays \in [C!Indices -> Nat]
  /\ begun \in Nat

Ref(u, place, id) == [by |-> u, place |-> place, id |-> id]
Generation(id) == slots[id.index].generation
Stale(id) == id.generation < Generation(id)
Inherits(u) == doing[u].at \in Retaining /\ doing[u].place = "inherit"
Drops(u, place, id) ==
  doing[u].at \in Dropping /\ doing[u].place = place /\ doing[u].id = id

(* What a thread retains there has been, and it has not got it already;    *)
(* whatever it lets go it has, or the slot has been reused.                *)
RetainOK(u) ==
  doing[u].at \in Retaining =>
    /\ doing[u].id.generation <= Generation(doing[u].id)
    /\ doing[u].place # "inherit" => task[u][doing[u].place] # doing[u].id
    /\ doing[u].place = "inherit" => task[u].child = doing[u].id /\ task[u].task = doing[u].id
    /\ doing[u].at = "raise" /\ doing[u].place = "inherit"
         => doing[u].seen # 0 \/ Stale(doing[u].id)
DropOK(u) ==
  doing[u].at \in Dropping =>
    /\ \/ Ref(u, doing[u].place, doing[u].id) \in holding
       \/ doing[u].at # "lower" /\ Stale(doing[u].id)
    /\ doing[u].place # "own" => task[u][doing[u].place] # doing[u].id
    /\ doing[u].place = "own" => doing[u].id \notin own[u]
HasOK(u) ==
  /\ \A t \in C!Tasks : task[u][t] # None =>
       \/ Ref(u, t, task[u][t]) \in holding \/ Stale(task[u][t])
       \/ t = "child" /\ Inherits(u)
  /\ \A id \in own[u] : Ref(u, "own", id) \in holding
  /\ doing[u].at = "move" => Ref(u, "own", doing[u].id) \in holding
ThreadOK(u) == RetainOK(u) /\ DropOK(u) /\ HasOK(u)

(* A reference is of the context it was taken of, and a task has one of    *)
(* the context it has, or is about to give it back.                        *)
Accounted(r) ==
  r.place # "own" =>
    \/ r.id = task[r.by][r.place] /\ ~ (r.place = "child" /\ Inherits(r.by))
    \/ Drops(r.by, r.place, r.id)
HoldingOK ==
  \A r \in holding :
    slots[r.id.index].used /\ Generation(r.id) = r.id.generation /\ Accounted(r)

(* Who takes or frees a slot is alone with it.                             *)
BusyWith(u, i) ==
  \/ C!At(u, "stamp") /\ doing[u].index = i
  \/ (C!At(u, "count") \/ C!At(u, "free")) /\ doing[u].id.index = i
BusyOK ==
  /\ \A u \in Producers, i \in C!Indices : BusyWith(u, i) => slots[i].refs = 0
  /\ \A u, v \in Producers, i \in C!Indices : BusyWith(u, i) /\ BusyWith(v, i) => u = v
  /\ \A u \in Producers : C!At(u, "count") => doing[u].id.generation = Generation(doing[u].id)

Of(i) == {r \in holding : r.id.index = i}
RefsOK ==
  \A i \in C!Indices :
    /\ slots[i].refs = Cardinality(Of(i)) + strays[i]
    /\ slots[i].used <=> slots[i].refs > 0 \/ C!Busy(i)

ContextInv ==
  ContextTypes /\ (\A u \in Producers : ThreadOK(u)) /\ HoldingOK /\ BusyOK /\ RefsOK

(* What ContextAssumption says of the constants. *)
LEMMA ContextFacts ==
  ContextSlots \in Nat \ {0} /\ MaxBegun \in Nat /\ IsFiniteSet(Producers) /\ None \notin Ids
BY MCAssumption, SameSizes DEF MCAssumption, C!ContextAssumption, Ids, C!Indices

(* What a thread is doing, by where it is. *)
LEMMA DoingTypes ==
  ASSUME ContextTypes, NEW u \in Producers
  PROVE  /\ doing[u] \in Does
         /\ doing[u].at = "stamp" => doing[u] \in [at : {"stamp"}, index : C!Indices]
         /\ doing[u].at = "probe" => doing[u] \in [at : {"probe"}, n : Nat]
         /\ doing[u].at \in {"count", "move"} => doing[u] \in [at : {"count", "move"}, id : Ids]
         /\ doing[u].at \in {"retain", "match", "load"} =>
              doing[u] \in [at : {"retain", "match", "load"}, place : C!Tasks \cup {"inherit"}, id : Ids]
         /\ doing[u].at = "raise" =>
              doing[u] \in [at : {"raise"}, place : C!Tasks \cup {"inherit"}, id : Ids, seen : Nat]
         /\ doing[u].at \in Dropping \cup {"free"} =>
              doing[u] \in [at : Dropping \cup {"free"}, place : C!Tasks \cup {"own"}, id : Ids]
<1>1. doing[u] \in Does
  BY DEF ContextTypes
<1>2. QED
  BY <1>1 DEF Does, C!Idle, Dropping

(* What it is doing has a context and a place. *)
LEMMA DoingFacts ==
  ASSUME ContextTypes, NEW u \in Producers
  PROVE  /\ doing[u].at = "stamp" => doing[u].index \in C!Indices
         /\ doing[u].at \in {"count", "move", "free"} \cup Retaining \cup Dropping =>
              doing[u].id \in Ids /\ doing[u].id.index \in C!Indices
              /\ doing[u].id.generation \in Nat
         /\ doing[u].at \in Retaining => doing[u].place \in C!Tasks \cup {"inherit"}
         /\ doing[u].at \in Dropping \cup {"free"} => doing[u].place \in C!Tasks \cup {"own"}
BY DoingTypes DEF Ids, Retaining, Dropping

(* What the fields of a slot are. *)
LEMMA SlotFacts ==
  ASSUME ContextTypes, NEW i \in C!Indices
  PROVE  slots[i].used \in BOOLEAN /\ slots[i].generation \in Nat /\ slots[i].refs \in Nat
         /\ strays[i] \in Nat
BY DEF ContextTypes

(* One thread goes on, the others stay where they are. *)
LEMMA DoesOne ==
  ASSUME ContextTypes, NEW u \in Producers, NEW what, doing' = [doing EXCEPT ![u] = what]
  PROVE  doing'[u] = what /\ \A v \in Producers : v # u => doing'[v] = doing[v]
BY DEF ContextTypes

Grows == \A i \in C!Indices : slots'[i].generation \in Nat
/\ slots[i].generation <= slots'[i].generation

(* A generation never goes down, so what is stale stays so. *)
LEMMA StaysStale ==
  ASSUME ContextTypes, Grows, NEW id \in Ids
  PROVE  /\ Stale(id) => Stale(id)'
         /\ id.generation <= Generation(id) => id.generation <= Generation(id)'
<1>1. id.index \in C!Indices /\ id.generation \in Nat
  BY DEF Ids
<1>2. slots[id.index].generation \in Nat /\ slots'[id.index].generation \in Nat
      /\ slots[id.index].generation <= slots'[id.index].generation
  BY <1>1, SlotFacts DEF Grows
<1>3. QED
  BY <1>1, <1>2 DEF Stale, Generation

(* What a thread does is nothing to the others as long as their references *)
(* stay.                                                                   *)
LEMMA OthersOK ==
  ASSUME ContextTypes, Grows, NEW v \in Producers, ThreadOK(v),
         doing'[v] = doing[v], task'[v] = task[v], own'[v] = own[v],
         \A r \in holding : r.by = v => r \in holding'
  PROVE  ThreadOK(v)'
<1>1. \A p, id : Ref(v, p, id) \in holding => Ref(v, p, id) \in holding'
  BY DEF Ref
<1>2. Inherits(v)' = Inherits(v)
  BY DEF Inherits
<1>3. RetainOK(v)'
  <2>1. SUFFICES ASSUME doing[v].at \in Retaining PROVE RetainOK(v)'
    BY DEF RetainOK
  <2>2. doing[v].id \in Ids
    BY <2>1, DoingFacts
  <2>3. QED
    BY <2>1, <2>2, StaysStale DEF ThreadOK, RetainOK
<1>4. DropOK(v)'
  <2>1. SUFFICES ASSUME doing[v].at \in Dropping PROVE DropOK(v)'
    BY DEF DropOK
  <2>2. doing[v].id \in Ids
    BY <2>1, DoingFacts
  <2>3. QED
    BY <1>1, <2>1, <2>2, StaysStale DEF ThreadOK, DropOK
<1>5. HasOK(v)'
  <2>1. \A t \in C!Tasks : task[v][t] # None => task[v][t] \in Ids
    BY DEF ContextTypes
  <2>2. \A t \in C!Tasks : task[v][t] # None => (Stale(task[v][t]) => Stale(task[v][t])')
    BY <2>1, StaysStale
  <2>3. QED
    BY <1>1, <1>2, <2>2 DEF ThreadOK, HasOK
<1>6. QED
  BY <1>3, <1>4, <1>5 DEF ThreadOK

(* What to show of a step: the thread that takes it, and the slots. *)
LEMMA AllOK ==
  ASSUME ContextInv, Grows, NEW u \in Producers, NEW what, doing' = [doing EXCEPT ![u] = what],
         \A v \in Producers : v # u => task'[v] = task[v] /\ own'[v] = own[v],
         ThreadOK(u)', \A r \in holding : r.by # u => r \in holding',
         holding' \in SUBSET Refs,
         \A r \in holding' :
           /\ slots'[r.id.index].used /\ Generation(r.id)' = r.id.generation
           /\ r.by # u => r \in holding
           /\ r.by = u => Accounted(r)'
  PROVE  (\A v \in Producers : ThreadOK(v)') /\ HoldingOK'
<1>1. doing'[u] = what /\ \A v \in Producers : v # u => doing'[v] = doing[v]
  BY DoesOne DEF ContextInv
<1>2. \A v \in Producers : ThreadOK(v)'
  <2>1. ASSUME NEW v \in Producers, v # u PROVE ThreadOK(v)'
    BY <1>1, <2>1, OthersOK DEF ContextInv
  <2>2. QED
    BY <2>1
<1>3. ASSUME NEW r \in holding', r.by # u PROVE Accounted(r)'
  <2>1. r \in holding /\ r.by \in Producers /\ Accounted(r)
    BY <1>3 DEF ContextInv, HoldingOK, Refs
  <2>2. Inherits(r.by)' = Inherits(r.by) /\ task'[r.by] = task[r.by]
        /\ Drops(r.by, r.place, r.id)' = Drops(r.by, r.place, r.id)
    BY <1>1, <1>3, <2>1 DEF Inherits, Drops
  <2>3. QED
    BY <2>1, <2>2 DEF Accounted
<1>4. QED
  BY <1>2, <1>3 DEF HoldingOK

(* The references of one slot. *)
LEMMA OfFacts ==
  ASSUME ContextTypes, NEW i \in C!Indices
  PROVE  IsFiniteSet(Of(i)) /\ Cardinality(Of(i)) \in Nat
         /\ (Cardinality(Of(i)) = 0 <=> Of(i) = {})
<1>1. IsFiniteSet(Of(i))
  <2>1. Of(i) \subseteq holding /\ IsFiniteSet(holding)
    BY DEF Of, ContextTypes
  <2>2. QED
    BY <2>1, FS_Subset
<1>2. QED
  BY <1>1, FS_CardinalityType, FS_EmptySet

(* A reference counts in its slot, so nobody is taking or freeing that. *)
LEMMA HeldFacts ==
  ASSUME ContextInv, NEW r \in holding
  PROVE  /\ r.id \in Ids /\ r.id.index \in C!Indices
         /\ slots[r.id.index].refs # 0 /\ \A v \in Producers : ~ BusyWith(v, r.id.index)
         /\ ~ Stale(r.id)
<1>1. r.id \in Ids /\ r.id.index \in C!Indices /\ r.id.generation \in Nat
  BY DEF ContextInv, ContextTypes, Refs, Ids
<1>2. r \in Of(r.id.index)
  BY DEF Of
<1>3. Cardinality(Of(r.id.index)) \in Nat /\ Cardinality(Of(r.id.index)) # 0
  BY <1>1, <1>2, OfFacts DEF ContextInv
<1>4. slots[r.id.index].refs # 0
  BY <1>1, <1>3, SlotFacts DEF ContextInv, RefsOK
<1>5. ~ Stale(r.id)
  BY <1>1 DEF ContextInv, HoldingOK, Stale
<1>6. QED
  BY <1>1, <1>4, <1>5 DEF ContextInv, BusyOK

(* A context that is inherited is the parent's, and has a reference or is  *)
(* gone.                                                                   *)
LEMMA InheritedFacts ==
  ASSUME ContextInv, NEW u \in Producers, Inherits(u)
  PROVE  \/ Stale(doing[u].id)
         \/ C!Slot(u).used /\ C!Matches(u) /\ C!Slot(u).refs # 0
<1>1. doing[u].at \in Retaining /\ doing[u].id \in Ids /\ task[u].task = doing[u].id
  BY DoingFacts DEF ContextInv, Inherits, ThreadOK, RetainOK
<1>2. Ref(u, "task", doing[u].id) \in holding \/ Stale(doing[u].id)
  BY <1>1, ContextFacts DEF ContextInv, ThreadOK, HasOK, C!Tasks
<1>3. ASSUME Ref(u, "task", doing[u].id) \in holding
      PROVE  C!Slot(u).used /\ C!Matches(u) /\ C!Slot(u).refs # 0
  <2>1. Ref(u, "task", doing[u].id).id = doing[u].id
    BY DEF Ref
  <2>2. QED
    BY <1>3, <2>1, HeldFacts DEF ContextInv, HoldingOK, C!Slot, C!Matches, Generation
<1>4. QED
  BY <1>2, <1>3

(* A step that takes, counts and frees no slot.                            *)
LEMMA CalmKeeps ==
  ASSUME ContextInv, NEW u \in Producers, NEW what \in Does, doing' = [doing EXCEPT ![u] = what],
         UNCHANGED <<slots, holding, strays>>, cursor' \in C!Indices, begun' \in Nat,
         task' \in [Producers -> [C!Tasks -> Ids \cup {None}]], own' \in [Producers -> SUBSET Ids],
         \A v \in Producers : v # u => task'[v] = task[v] /\ own'[v] = own[v],
         doing[u].at \notin {"stamp", "count", "free"}, what.at \notin {"stamp", "count", "free"},
         ThreadOK(u)', \A r \in holding : r.by = u => Accounted(r)'
  PROVE  ContextInv'
<1>1. doing'[u] = what /\ \A v \in Producers : v # u => doing'[v] = doing[v]
  BY DoesOne DEF ContextInv
<1>2. ContextTypes'
  <2>1. doing' \in [Producers -> Does]
    BY DEF ContextInv, ContextTypes
  <2>2. QED
    BY <2>1 DEF ContextInv, ContextTypes
<1>3. Grows
  BY SlotFacts DEF ContextInv, Grows
<1>4. holding' \in SUBSET Refs /\ \A r \in holding' :
        slots'[r.id.index].used /\ Generation(r.id)' = r.id.generation
  BY <1>2 DEF ContextInv, HoldingOK, Generation, ContextTypes
<1>5. (\A v \in Producers : ThreadOK(v)') /\ HoldingOK'
  BY <1>3, <1>4, AllOK
<1>6. \A v \in Producers, i \in C!Indices : (BusyWith(v, i)' <=> BusyWith(v, i))
  <2>1. \A i \in C!Indices : ~ BusyWith(u, i) /\ ~ BusyWith(u, i)'
    BY <1>1 DEF BusyWith, C!At
  <2>2. \A v \in Producers, i \in C!Indices : v # u => (BusyWith(v, i)' <=> BusyWith(v, i))
    BY <1>1 DEF BusyWith, C!At
  <2>3. QED
    BY <2>1, <2>2
<1>7. BusyOK'
  <2>1. \A v \in Producers : C!At(v, "count")' => C!At(v, "count") /\ doing'[v] = doing[v]
    BY <1>1 DEF C!At
  <2>2. QED
    BY <1>6, <2>1 DEF ContextInv, BusyOK, Generation
<1>8. RefsOK'
  <2>1. \A i \in C!Indices : Of(i)' = Of(i)
    BY DEF Of
  <2>2. \A i \in C!Indices : C!Busy(i) <=> \E v \in Producers : BusyWith(v, i)
    BY DEF C!Busy, BusyWith
  <2>3. \A i \in C!Indices : C!Busy(i)' <=> \E v \in Producers : BusyWith(v, i)'
    BY DEF C!Busy, BusyWith
  <2>4. QED
    BY <1>6, <2>1, <2>2, <2>3 DEF ContextInv, RefsOK
<1>9. QED
  BY <1>2, <1>5, <1>7, <1>8 DEF ContextInv

(* A step in which the thread's tasks stay as they are, and that lets      *)
(* nothing go.                                                             *)
LEMMA PlainKeeps ==
  ASSUME ContextInv, NEW u \in Producers, NEW what \in Does, doing' = [doing EXCEPT ![u] = what],
         UNCHANGED <<slots, cursor, task, own, holding, strays>>, begun' \in Nat,
         doing[u].at \in {"idle", "probe"} \cup Retaining, what.at \in {"idle", "probe"}
           \cup Retaining,
         Inherits(u)' => Inherits(u), Inherits(u) /\ ~ Inherits(u)' => Stale(doing[u].id),
         RetainOK(u)'
  PROVE  ContextInv'
<1>1. doing'[u] = what
  BY DoesOne DEF ContextInv
<1>2. /\ doing[u].at \notin {"stamp", "count", "free", "move"} \cup Dropping
      /\ what.at \notin {"stamp", "count", "free", "move"} \cup Dropping
  BY DEF Retaining, Dropping
<1>3. DropOK(u)'
  BY <1>1, <1>2 DEF DropOK
<1>4. HasOK(u)'
  <2>1. \A id : Stale(id)' = Stale(id)
    BY DEF Stale, Generation
  <2>2. Inherits(u) => task[u].child = doing[u].id
    BY DEF ContextInv, ThreadOK, RetainOK, Inherits
  <2>3. QED
    BY <1>1, <1>2, <2>1, <2>2 DEF ContextInv, ThreadOK, HasOK
<1>5. \A r \in holding : r.by = u => Accounted(r)'
  <2>1. \A r \in holding : r.by = u => ~ Drops(r.by, r.place, r.id) /\ Accounted(r)
    BY <1>2 DEF Drops, ContextInv, HoldingOK
  <2>2. QED
    BY <2>1 DEF Accounted
<1>6. ContextTypes
  BY DEF ContextInv
<1>7. QED
  BY <1>2, <1>3, <1>4, <1>5, <1>6, CalmKeeps DEF ThreadOK, ContextTypes

(* create starts to look for a slot, and looks on when one is used. *)
LEMMA ProbesKeep ==
  ASSUME NEW u \in Producers, ContextInv, C!Create(u) \/ C!ProbeNext(u)
  PROVE  ContextInv'
<1>1. CASE C!Create(u)
  <2> DEFINE what == [at |-> "probe", n |-> 0]
  <2>1. /\ doing[u].at = "idle" /\ doing' = [doing EXCEPT ![u] = what] /\ begun' \in Nat
        /\ UNCHANGED <<slots, cursor, task, own, holding, strays>>
    BY <1>1 DEF C!Create, C!Call, C!At, C!Do, ContextInv, ContextTypes
  <2>2. what \in Does /\ what.at = "probe"
    BY DEF Does
  <2> HIDE DEF what
  <2>3. doing'[u] = what
    BY <2>1, DoesOne DEF ContextInv
  <2>4. ~ Inherits(u) /\ ~ Inherits(u)' /\ RetainOK(u)'
    BY <2>1, <2>2, <2>3 DEF Inherits, RetainOK, Retaining
  <2>5. QED
    BY <2>1, <2>2, <2>4, PlainKeeps
<1>2. CASE C!ProbeNext(u)
  <2> DEFINE what == IF doing[u].n + 1 < ContextSlots THEN [doing[u] EXCEPT !.n = @ + 1] ELSE C!Idle
  <2>1. /\ doing[u].at = "probe" /\ doing' = [doing EXCEPT ![u] = what] /\ begun' \in Nat
        /\ UNCHANGED <<slots, cursor, task, own, holding, strays>>
    BY <1>2 DEF C!ProbeNext, C!At, C!Do, ContextInv, ContextTypes
  <2>2. doing[u] \in [at : {"probe"}, n : Nat]
    BY <2>1, DoingTypes DEF ContextInv
  <2>3. what \in Does /\ what.at \in {"idle", "probe"}
    BY <2>2 DEF Does, C!Idle
  <2> HIDE DEF what
  <2>4. doing'[u] = what
    BY <2>1, DoesOne DEF ContextInv
  <2>5. ~ Inherits(u) /\ ~ Inherits(u)' /\ RetainOK(u)'
    BY <2>1, <2>3, <2>4 DEF Inherits, RetainOK, Retaining
  <2>6. QED
    BY <2>1, <2>3, <2>5, PlainKeeps
<1>3. QED
  BY <1>1, <1>2

(* set begins to retain another context. *)
LEMMA SetKeeps ==
  ASSUME NEW u \in Producers, NEW t \in C!Tasks, NEW id \in C!Returned, ContextInv, C!Set(u, t, id)
  PROVE  ContextInv'
<1> DEFINE what == [at |-> "retain", place |-> t, id |-> id]
<1>1. /\ doing[u].at = "idle" /\ doing' = [doing EXCEPT ![u] = what] /\ begun' \in Nat
      /\ task[u][t] # id
      /\ UNCHANGED <<slots, cursor, task, own, holding, strays>>
  BY DEF C!Set, C!Call, C!At, C!Do, ContextInv, ContextTypes
<1>2. id \in Ids /\ id.generation <= Generation(id)
  <2>1. PICK i \in C!Indices, g \in 2..MaxBegun + 1 : id = C!Id(i, g)
    BY DEF C!Returned
  <2>2. id \in Ids
    BY <2>1, ContextFacts DEF C!Id, Ids
  <2>3. QED
    BY <2>2 DEF C!Returned, Generation
<1>3. what \in Does /\ what.at = "retain" /\ what.place = t /\ what.id = id /\ t # "inherit"
  BY <1>2 DEF Does, C!Tasks
<1> HIDE DEF what
<1>4. doing'[u] = what
  BY <1>1, DoesOne DEF ContextInv
<1>5. ~ Inherits(u) /\ ~ Inherits(u)'
  BY <1>1, <1>3, <1>4 DEF Inherits, Retaining
<1>6. RetainOK(u)'
  BY <1>1, <1>2, <1>3, <1>4 DEF RetainOK, Generation
<1>7. QED
  BY <1>1, <1>3, <1>5, <1>6, PlainKeeps DEF Retaining

(* A retain goes on, or gives up; it gives up on a context it inherits     *)
(* only when that is gone.                                                 *)
LEMMA RetainMoves ==
  ASSUME NEW u \in Producers, ContextInv, NEW what \in Does, doing[u].at \in Retaining,
         doing' = [doing EXCEPT ![u] = what],
         UNCHANGED <<slots, cursor, task, own, holding, strays, begun>>,
         \/ /\ what.at \in Retaining /\ what.place = doing[u].place /\ what.id = doing[u].id
            /\ what.at = "raise" => what.seen = C!Slot(u).refs
         \/ what = C!Idle /\ (Inherits(u) => Stale(doing[u].id))
  PROVE  ContextInv'
<1>1. doing'[u] = what
  BY DoesOne DEF ContextInv
<1>2. CASE what = C!Idle
  <2>1. what.at = "idle" /\ ~ Inherits(u)' /\ RetainOK(u)'
    BY <1>1, <1>2 DEF C!Idle, Inherits, RetainOK, Retaining
  <2>2. Inherits(u) => Stale(doing[u].id)
    BY <1>2 DEF C!Idle, Retaining
  <2>3. QED
    BY <2>1, <2>2, PlainKeeps DEF ContextInv, ContextTypes
<1>3. CASE /\ what.at \in Retaining /\ what.place = doing[u].place /\ what.id = doing[u].id
           /\ what.at = "raise" => what.seen = C!Slot(u).refs
  <2>1. Inherits(u)' = Inherits(u)
    BY <1>1, <1>3 DEF Inherits
  <2>2. RetainOK(u)'
    <3>1. \A id : Generation(id)' = Generation(id) /\ Stale(id)' = Stale(id)
      BY DEF Generation, Stale
    <3>2. Inherits(u) => Stale(doing[u].id) \/ C!Slot(u).refs # 0
      BY InheritedFacts
    <3>3. QED
      BY <1>1, <1>3, <3>1, <3>2 DEF ContextInv, ThreadOK, RetainOK, Inherits
  <2>3. QED
    BY <1>3, <2>1, <2>2, PlainKeeps DEF ContextInv, ContextTypes
<1>4. QED
  BY <1>2, <1>3

(* retain reads the slot, and gives up when it finds another context there; *)
(* it reads the count again when its CAS is lost.                          *)
LEMMA RetainsKeep ==
  ASSUME NEW u \in Producers, ContextInv,
         C!RetainLook(u) \/ C!RetainMatch(u) \/ C!RetainLoad(u) \/ C!RetainRefused(u) \/ C!RetainLost(u)
  PROVE  ContextInv'
<1> DEFINE d == doing[u]
<1>0. ContextTypes /\ C!Idle \in Does
  BY DEF ContextInv, Does
<1>1. CASE C!RetainLook(u)
  <2> DEFINE what == IF C!Slot(u).used THEN [d EXCEPT !.at = "match"] ELSE C!Idle
  <2>1. d \in [at : {"retain", "match", "load"}, place : C!Tasks \cup {"inherit"}, id : Ids]
        /\ d.at = "retain"
    BY <1>0, <1>1, DoingTypes DEF C!RetainLook, C!At
  <2>2. doing' = [doing EXCEPT ![u] = what]
        /\ UNCHANGED <<slots, cursor, task, own, holding, strays, begun>>
    BY <1>1 DEF C!RetainLook, C!Do
  <2>3. CASE C!Slot(u).used
    <3>1. what = [d EXCEPT !.at = "match"]
      BY <2>3
    <3>2. what \in Does /\ what.at = "match" /\ what.place = d.place /\ what.id = d.id
      BY <2>1, <3>1 DEF Does
    <3> HIDE DEF what
    <3>3. QED
      BY <2>1, <2>2, <3>2, RetainMoves DEF Retaining
  <2>4. CASE ~ C!Slot(u).used
    <3>1. what = C!Idle
      BY <2>4
    <3>2. Inherits(u) => Stale(d.id)
      BY <2>4, InheritedFacts
    <3> HIDE DEF what
    <3>3. QED
      BY <1>0, <2>1, <2>2, <3>1, <3>2, RetainMoves DEF Retaining
  <2>5. QED
    BY <2>3, <2>4
<1>2. CASE C!RetainMatch(u)
  <2> DEFINE what == IF C!Matches(u) THEN [d EXCEPT !.at = "load"] ELSE C!Idle
  <2>1. d \in [at : {"retain", "match", "load"}, place : C!Tasks \cup {"inherit"}, id : Ids]
        /\ d.at = "match"
    BY <1>0, <1>2, DoingTypes DEF C!RetainMatch, C!At
  <2>2. doing' = [doing EXCEPT ![u] = what]
        /\ UNCHANGED <<slots, cursor, task, own, holding, strays, begun>>
    BY <1>2 DEF C!RetainMatch, C!Do
  <2>3. CASE C!Matches(u)
    <3>1. what = [d EXCEPT !.at = "load"]
      BY <2>3
    <3>2. what \in Does /\ what.at = "load" /\ what.place = d.place /\ what.id = d.id
      BY <2>1, <3>1 DEF Does
    <3> HIDE DEF what
    <3>3. QED
      BY <2>1, <2>2, <3>2, RetainMoves DEF Retaining
  <2>4. CASE ~ C!Matches(u)
    <3>1. what = C!Idle
      BY <2>4
    <3>2. Inherits(u) => Stale(d.id)
      BY <2>4, InheritedFacts
    <3> HIDE DEF what
    <3>3. QED
      BY <1>0, <2>1, <2>2, <3>1, <3>2, RetainMoves DEF Retaining
  <2>5. QED
    BY <2>3, <2>4
<1>3. CASE C!RetainLoad(u)
  <2> DEFINE what == [at |-> "raise", place |-> d.place, id |-> d.id, seen |-> C!Slot(u).refs]
  <2>1. d \in [at : {"retain", "match", "load"}, place : C!Tasks \cup {"inherit"}, id : Ids]
        /\ d.at = "load"
    BY <1>0, <1>3, DoingTypes DEF C!RetainLoad, C!At
  <2>2. doing' = [doing EXCEPT ![u] = what]
        /\ UNCHANGED <<slots, cursor, task, own, holding, strays, begun>>
    BY <1>3 DEF C!RetainLoad, C!Do
  <2>3. C!Slot(u).refs \in Nat
    BY <1>0, <2>1, SlotFacts DEF C!Slot, Ids
  <2>4. /\ what \in Does /\ what.at = "raise" /\ what.place = d.place /\ what.id = d.id
        /\ what.seen = C!Slot(u).refs
    BY <2>1, <2>3 DEF Does
  <2> HIDE DEF what
  <2>5. QED
    BY <2>1, <2>2, <2>4, RetainMoves DEF Retaining
<1>4. CASE C!RetainRefused(u)
  <2>1. d.at = "raise" /\ d.seen = 0 /\ doing' = [doing EXCEPT ![u] = C!Idle]
        /\ UNCHANGED <<slots, cursor, task, own, holding, strays, begun>>
    BY <1>4 DEF C!RetainRefused, C!At, C!Do
  <2>2. Inherits(u) => Stale(d.id)
    BY <2>1 DEF ContextInv, ThreadOK, RetainOK, Inherits
  <2>3. QED
    BY <1>0, <2>1, <2>2, RetainMoves DEF Retaining
<1>5. CASE C!RetainLost(u)
  <2> DEFINE what == [d EXCEPT !.seen = C!Slot(u).refs]
  <2>1. d \in [at : {"raise"}, place : C!Tasks \cup {"inherit"}, id : Ids, seen : Nat]
        /\ d.at = "raise"
    BY <1>0, <1>5, DoingTypes DEF C!RetainLost, C!At
  <2>2. doing' = [doing EXCEPT ![u] = what]
        /\ UNCHANGED <<slots, cursor, task, own, holding, strays, begun>>
    BY <1>5 DEF C!RetainLost, C!Do
  <2>3. C!Slot(u).refs \in Nat
    BY <1>0, <2>1, SlotFacts DEF C!Slot, Ids
  <2>4. /\ what \in Does /\ what.at = "raise" /\ what.place = d.place /\ what.id = d.id
        /\ what.seen = C!Slot(u).refs
    BY <2>1, <2>3 DEF Does
  <2> HIDE DEF what
  <2>5. QED
    BY <2>1, <2>2, <2>4, RetainMoves DEF Retaining
<1>6. QED
  BY <1>1, <1>2, <1>3, <1>4, <1>5

(* A child takes the context of its parent. *)
LEMMA InheritKeeps ==
  ASSUME NEW u \in Producers, ContextInv, C!Inherit(u)
  PROVE  ContextInv'
<1> DEFINE id == task[u].task
           what == [at |-> "retain", place |-> "inherit", id |-> id]
<1>1. /\ doing[u].at = "idle" /\ doing' = [doing EXCEPT ![u] = what] /\ begun' \in Nat
      /\ task[u].child = None /\ id # None /\ task' = [task EXCEPT ![u].child = id]
      /\ UNCHANGED <<slots, cursor, own, holding, strays>>
  BY DEF C!Inherit, C!Call, C!At, C!Do, ContextInv, ContextTypes
<1>2. id \in Ids /\ task[u] \in [C!Tasks -> Ids \cup {None}]
  BY <1>1 DEF ContextInv, ContextTypes, C!Tasks
<1>3. what \in Does /\ what.at = "retain" /\ what.place = "inherit" /\ what.id = id
  BY <1>2 DEF Does
<1> HIDE DEF what
<1>4. doing'[u] = what
  BY <1>1, DoesOne DEF ContextInv
<1>5. /\ task' \in [Producers -> [C!Tasks -> Ids \cup {None}]]
      /\ task'[u].child = id /\ task'[u].task = id
      /\ \A v \in Producers : v # u => task'[v] = task[v]
  BY <1>1, <1>2 DEF ContextInv, ContextTypes, C!Tasks
<1>6. ~ Inherits(u) /\ Inherits(u)'
  BY <1>1, <1>3, <1>4 DEF Inherits, Retaining
<1>7. Ref(u, "task", id) \in holding \/ Stale(id)
  BY <1>1, <1>6 DEF ContextInv, ThreadOK, HasOK, C!Tasks
<1>8. id.generation <= Generation(id)
  <2>1. Ref(u, "task", id).id = id /\ id.index \in C!Indices /\ id.generation \in Nat
    BY <1>2 DEF Ref, Ids
  <2>2. Generation(id) \in Nat
    BY <2>1, SlotFacts DEF ContextInv, Generation
  <2>3. QED
    BY <1>7, <2>1, <2>2 DEF ContextInv, HoldingOK, Stale
<1>9. \A x : Generation(x)' = Generation(x) /\ (Stale(x)' <=> Stale(x))
  BY <1>1 DEF Generation, Stale
<1>10. ThreadOK(u)'
  <2>1. RetainOK(u)'
    BY <1>3, <1>4, <1>5, <1>8, <1>9 DEF RetainOK
  <2>2. DropOK(u)'
    BY <1>3, <1>4 DEF DropOK, Dropping
  <2>3. HasOK(u)'
    <3>1. \A t \in C!Tasks : task'[u][t] # None =>
            Ref(u, t, task'[u][t]) \in holding' \/ Stale(task[u][t])' \/ (t = "child" /\ Inherits(u)')
      BY <1>1, <1>5, <1>6, <1>7, <1>9 DEF C!Tasks
    <3>2. QED
      BY <1>1, <1>3, <1>4, <3>1 DEF ContextInv, ThreadOK, HasOK
  <2>4. QED
    BY <2>1, <2>2, <2>3 DEF ThreadOK
<1>11. ASSUME NEW r \in holding, r.by = u PROVE Accounted(r)'
  <2>1. Accounted(r) /\ ~ Drops(u, r.place, r.id) /\ r.id \in Ids /\ r.place \in C!Tasks
          \cup {"own"}
    BY <1>1 DEF ContextInv, ContextTypes, HoldingOK, Drops, Dropping, Refs
  <2>2. r.place # "child"
    BY <1>1, <1>11, <2>1, ContextFacts DEF Accounted
  <2>3. QED
    BY <1>5, <1>11, <2>1, <2>2 DEF Accounted, C!Tasks
<1>12. QED
  BY <1>1, <1>3, <1>5, <1>10, <1>11, CalmKeeps DEF ContextInv, ContextTypes

(* clear begins to let the context go. *)
LEMMA ClearKeeps ==
  ASSUME NEW u \in Producers, NEW t \in C!Tasks, ContextInv, C!Clear(u, t)
  PROVE  ContextInv'
<1> DEFINE id == task[u][t]
           what == [at |-> "drop", place |-> t, id |-> id]
<1>1. /\ doing[u].at = "idle" /\ doing' = [doing EXCEPT ![u] = what] /\ begun' \in Nat
      /\ id # None /\ task' = [task EXCEPT ![u][t] = None]
      /\ UNCHANGED <<slots, cursor, own, holding, strays>>
  BY DEF C!Clear, C!Give, C!At, C!Do, ContextInv, ContextTypes
<1>2. id \in Ids
  BY <1>1 DEF ContextInv, ContextTypes
<1>3. what \in Does /\ what.at = "drop" /\ what.place = t /\ what.id = id /\ t # "own"
      /\ t # "inherit"
  BY <1>2 DEF Does, Dropping, C!Tasks
<1> HIDE DEF what
<1>4. doing'[u] = what
  BY <1>1, DoesOne DEF ContextInv
<1>5. /\ task' \in [Producers -> [C!Tasks -> Ids \cup {None}]]
      /\ task'[u][t] = None /\ \A s \in C!Tasks : s # t => task'[u][s] = task[u][s]
      /\ \A v \in Producers : v # u => task'[v] = task[v]
  BY <1>1 DEF ContextInv, ContextTypes
<1>6. ~ Inherits(u) /\ ~ Inherits(u)'
  BY <1>1, <1>3, <1>4 DEF Inherits, Retaining
<1>7. \A x : Generation(x)' = Generation(x) /\ (Stale(x)' <=> Stale(x))
  BY <1>1 DEF Generation, Stale
<1>8. Ref(u, t, id) \in holding \/ Stale(id)
  BY <1>1, <1>6 DEF ContextInv, ThreadOK, HasOK
<1>9. ThreadOK(u)'
  <2>1. RetainOK(u)'
    BY <1>3, <1>4 DEF RetainOK, Retaining
  <2>2. DropOK(u)'
    BY <1>1, <1>2, <1>3, <1>4, <1>5, <1>7, <1>8, ContextFacts DEF DropOK
  <2>3. HasOK(u)'
    BY <1>1, <1>3, <1>4, <1>5, <1>6, <1>7 DEF ContextInv, ThreadOK, HasOK
  <2>4. QED
    BY <2>1, <2>2, <2>3 DEF ThreadOK
<1>10. ASSUME NEW r \in holding, r.by = u PROVE Accounted(r)'
  <2>1. Accounted(r) /\ ~ Drops(u, r.place, r.id) /\ r.place \in C!Tasks \cup {"own"}
    BY <1>1 DEF ContextInv, ContextTypes, HoldingOK, Drops, Dropping, Refs
  <2>2. CASE r.place = t
    <3>1. r.id = id
      BY <1>3, <1>10, <2>1, <2>2 DEF Accounted
    <3>2. QED
      BY <1>3, <1>4, <1>10, <2>2, <3>1 DEF Accounted, Drops, Dropping
  <2>3. CASE r.place # t
    BY <1>5, <1>6, <1>10, <2>1, <2>3 DEF Accounted
  <2>4. QED
    BY <2>2, <2>3
<1>11. QED
  BY <1>1, <1>3, <1>5, <1>9, <1>10, CalmKeeps DEF ContextInv, ContextTypes

(* Who created a context begins to release it. *)
LEMMA ReleaseContextKeeps ==
  ASSUME NEW u \in Producers, NEW id \in own[u], ContextInv, C!Release(u, id)
  PROVE  ContextInv'
<1> DEFINE what == [at |-> "drop", place |-> "own", id |-> id]
<1>1. /\ doing[u].at = "idle" /\ doing' = [doing EXCEPT ![u] = what] /\ begun' \in Nat
      /\ own' = [own EXCEPT ![u] = @ \ {id}]
      /\ UNCHANGED <<slots, cursor, task, holding, strays>>
  BY DEF C!Release, C!Call, C!At, C!Do, ContextInv, ContextTypes
<1>2. id \in Ids
  BY DEF ContextInv, ContextTypes
<1>3. what \in Does /\ what.at = "drop" /\ what.place = "own" /\ what.id = id
  BY <1>2 DEF Does, Dropping
<1> HIDE DEF what
<1>4. doing'[u] = what
  BY <1>1, DoesOne DEF ContextInv
<1>5. /\ own' \in [Producers -> SUBSET Ids] /\ own'[u] = own[u] \ {id}
      /\ \A v \in Producers : v # u => own'[v] = own[v]
  BY <1>1 DEF ContextInv, ContextTypes
<1>6. ~ Inherits(u) /\ ~ Inherits(u)'
  BY <1>1, <1>3, <1>4 DEF Inherits, Retaining
<1>7. \A x : Generation(x)' = Generation(x) /\ (Stale(x)' <=> Stale(x))
  BY <1>1 DEF Generation, Stale
<1>8. Ref(u, "own", id) \in holding
  BY DEF ContextInv, ThreadOK, HasOK
<1>9. ThreadOK(u)'
  <2>1. RetainOK(u)'
    BY <1>3, <1>4 DEF RetainOK, Retaining
  <2>2. DropOK(u)'
    BY <1>1, <1>3, <1>4, <1>5, <1>8 DEF DropOK
  <2>3. HasOK(u)'
    BY <1>1, <1>3, <1>4, <1>5, <1>6, <1>7 DEF ContextInv, ThreadOK, HasOK
  <2>4. QED
    BY <2>1, <2>2, <2>3 DEF ThreadOK
<1>10. ASSUME NEW r \in holding, r.by = u PROVE Accounted(r)'
  <2>1. Accounted(r) /\ ~ Drops(u, r.place, r.id)
    BY <1>1 DEF ContextInv, HoldingOK, Drops, Dropping
  <2>2. QED
    BY <1>1, <1>6, <1>10, <2>1 DEF Accounted
<1>11. QED
  BY <1>1, <1>3, <1>5, <1>9, <1>10, CalmKeeps DEF ContextInv, ContextTypes

(* A drop goes on, or gives up when the context is gone.                   *)
LEMMA DropMoves ==
  ASSUME NEW u \in Producers, ContextInv, NEW what \in Does, doing[u].at \in Dropping,
         doing' = [doing EXCEPT ![u] = what],
         UNCHANGED <<slots, cursor, task, own, holding, strays, begun>>,
         \/ /\ what.at \in Dropping /\ what.place = doing[u].place /\ what.id = doing[u].id
            /\ what.at = "lower" => Ref(u, what.place, what.id) \in holding
         \/ what = C!Idle /\ Ref(u, doing[u].place, doing[u].id) \notin holding
  PROVE  ContextInv'
<1>1. doing'[u] = what
  BY DoesOne DEF ContextInv
<1>2. \A x : Generation(x)' = Generation(x) /\ (Stale(x)' <=> Stale(x))
  BY DEF Generation, Stale
<1>3. /\ what.at \in Dropping \cup {"idle"} /\ what.at \notin Retaining
      /\ what.at \notin {"move", "count", "stamp", "free"}
      /\ doing[u].at \notin Retaining \cup {"count", "stamp", "free"}
  BY DEF C!Idle, Dropping, Retaining
<1>4. ~ Inherits(u) /\ ~ Inherits(u)'
  BY <1>1, <1>3 DEF Inherits
<1>5. ThreadOK(u)'
  <2>1. RetainOK(u)'
    BY <1>1, <1>3 DEF RetainOK
  <2>2. DropOK(u)'
    <3>1. CASE what = C!Idle
      BY <1>1, <3>1 DEF DropOK, Dropping, C!Idle
    <3>2. CASE /\ what.at \in Dropping /\ what.place = doing[u].place /\ what.id = doing[u].id
               /\ what.at = "lower" => Ref(u, what.place, what.id) \in holding
      BY <1>1, <1>2, <3>2 DEF DropOK, ContextInv, ThreadOK
    <3>3. QED
      BY <3>1, <3>2
  <2>3. HasOK(u)'
    BY <1>1, <1>2, <1>3, <1>4 DEF ContextInv, ThreadOK, HasOK
  <2>4. QED
    BY <2>1, <2>2, <2>3 DEF ThreadOK
<1>6. ASSUME NEW r \in holding, r.by = u PROVE Accounted(r)'
  <2>1. Accounted(r) /\ r = Ref(u, r.place, r.id)
    BY <1>6 DEF ContextInv, ContextTypes, HoldingOK, Refs, Ref
  <2>2. Drops(u, r.place, r.id) => Drops(u, r.place, r.id)'
    BY <1>1, <2>1 DEF Drops
  <2>3. QED
    BY <1>4, <1>6, <2>1, <2>2 DEF Accounted
<1>7. QED
  BY <1>3, <1>5, <1>6, CalmKeeps DEF ContextInv, ContextTypes

(* release looks at the slot, and leaves one with another context alone. *)
LEMMA DropsKeep ==
  ASSUME NEW u \in Producers, ContextInv, C!DropLook(u) \/ C!DropCheck(u)
  PROVE  ContextInv'
<1> DEFINE d == doing[u]
           r == Ref(u, d.place, d.id)
<1>1. /\ d \in [at : Dropping \cup {"free"}, place : C!Tasks \cup {"own"}, id : Ids]
      /\ d.at \in {"drop", "check"} /\ d.at \in Dropping /\ ContextTypes
  BY DoingTypes DEF C!DropLook, C!DropCheck, C!At, ContextInv, Dropping
<1>2. r.id = d.id /\ (r \in holding \/ Stale(d.id))
  BY <1>1 DEF ContextInv, ThreadOK, DropOK, Ref
<1>3. r \in holding => C!Slot(u).used /\ C!Matches(u)
  BY <1>2 DEF ContextInv, HoldingOK, C!Slot, C!Matches, Generation
<1>4. C!Matches(u) => r \in holding
  <2>1. d.id.generation \in Nat
    BY <1>1 DEF Ids
  <2>2. QED
    BY <1>2, <2>1 DEF Stale, C!Matches, C!Slot, Generation
<1> HIDE DEF r
<1>5. C!Idle \in Does
  BY DEF Does
<1>6. CASE C!DropLook(u)
  <2> DEFINE what == IF C!Slot(u).used THEN [d EXCEPT !.at = "check"] ELSE C!Idle
  <2>1. doing' = [doing EXCEPT ![u] = what]
        /\ UNCHANGED <<slots, cursor, task, own, holding, strays, begun>>
    BY <1>6 DEF C!DropLook, C!Do
  <2>2. CASE C!Slot(u).used
    <3>1. what = [d EXCEPT !.at = "check"]
      BY <2>2
    <3>2. /\ what \in Does /\ what.at = "check" /\ what.place = d.place /\ what.id = d.id
          /\ what.at \in Dropping
      BY <1>1, <3>1 DEF Does, Dropping
    <3> HIDE DEF what
    <3>3. QED
      BY <1>1, <2>1, <3>2, DropMoves
  <2>3. CASE ~ C!Slot(u).used
    <3>1. what = C!Idle
      BY <2>3
    <3> HIDE DEF what
    <3>2. QED
      BY <1>1, <1>3, <1>5, <2>1, <2>3, <3>1, DropMoves DEF r
  <2>4. QED
    BY <2>2, <2>3
<1>7. CASE C!DropCheck(u)
  <2> DEFINE what == IF C!Matches(u) THEN [d EXCEPT !.at = "lower"] ELSE C!Idle
  <2>1. doing' = [doing EXCEPT ![u] = what]
        /\ UNCHANGED <<slots, cursor, task, own, holding, strays, begun>>
    BY <1>7 DEF C!DropCheck, C!Do
  <2>2. CASE C!Matches(u)
    <3>1. what = [d EXCEPT !.at = "lower"]
      BY <2>2
    <3>2. /\ what \in Does /\ what.at = "lower" /\ what.place = d.place /\ what.id = d.id
          /\ what.at \in Dropping
      BY <1>1, <3>1 DEF Does, Dropping
    <3>3. Ref(u, what.place, what.id) \in holding
      BY <1>4, <2>2, <3>2 DEF r
    <3> HIDE DEF what
    <3>4. QED
      BY <1>1, <2>1, <3>2, <3>3, DropMoves
  <2>3. CASE ~ C!Matches(u)
    <3>1. what = C!Idle
      BY <2>3
    <3> HIDE DEF what
    <3>2. QED
      BY <1>1, <1>3, <1>5, <2>1, <2>3, <3>1, DropMoves DEF r
  <2>4. QED
    BY <2>2, <2>3
<1>8. QED
  BY <1>6, <1>7

(* create moves the cursor on and returns the context it has made. *)
LEMMA MoveKeeps ==
  ASSUME NEW u \in Producers, ContextInv, C!Move(u)
  PROVE  ContextInv'
<1> DEFINE id == doing[u].id
<1>1. /\ doing[u].at = "move" /\ doing' = [doing EXCEPT ![u] = C!Idle]
      /\ own' = [own EXCEPT ![u] = @ \cup {id}] /\ cursor' = (id.index + 1) % ContextSlots
      /\ UNCHANGED <<slots, task, holding, strays, begun>>
  BY DEF C!Move, C!At, C!Do
<1>2. id \in Ids /\ id.index \in C!Indices /\ C!Idle \in Does /\ C!Idle.at = "idle"
  BY <1>1, DoingFacts DEF ContextInv, Does, C!Idle
<1>3. cursor' \in C!Indices
  BY <1>1, <1>2, ContextFacts DEF C!Indices
<1>4. doing'[u] = C!Idle
  BY <1>1, DoesOne DEF ContextInv
<1>5. /\ own' \in [Producers -> SUBSET Ids] /\ own'[u] = own[u] \cup {id}
      /\ \A v \in Producers : v # u => own'[v] = own[v]
  BY <1>1, <1>2 DEF ContextInv, ContextTypes
<1>6. ~ Inherits(u) /\ ~ Inherits(u)'
  BY <1>1, <1>2, <1>4 DEF Inherits, Retaining
<1>7. \A x : Generation(x)' = Generation(x) /\ (Stale(x)' <=> Stale(x))
  BY <1>1 DEF Generation, Stale
<1>8. Ref(u, "own", id) \in holding
  BY <1>1 DEF ContextInv, ThreadOK, HasOK
<1> HIDE DEF id
<1>9. ThreadOK(u)'
  <2>1. RetainOK(u)' /\ DropOK(u)'
    BY <1>2, <1>4 DEF RetainOK, Retaining, DropOK, Dropping
  <2>2. HasOK(u)'
    BY <1>1, <1>2, <1>4, <1>5, <1>6, <1>7, <1>8 DEF ContextInv, ThreadOK, HasOK
  <2>3. QED
    BY <2>1, <2>2 DEF ThreadOK
<1>10. ASSUME NEW r \in holding, r.by = u PROVE Accounted(r)'
  <2>1. Accounted(r) /\ ~ Drops(u, r.place, r.id)
    BY <1>1 DEF ContextInv, HoldingOK, Drops, Dropping
  <2>2. QED
    BY <1>1, <1>6, <1>10, <2>1 DEF Accounted
<1>11. QED
  BY <1>1, <1>2, <1>3, <1>5, <1>9, <1>10, CalmKeeps DEF ContextInv, ContextTypes

(* A step that changes one slot, with which nobody else is busy.           *)
LEMMA OneSlot ==
  ASSUME ContextInv, NEW u \in Producers, NEW what \in Does, doing' = [doing EXCEPT ![u] = what],
         NEW j \in C!Indices,
         \A i \in C!Indices : i # j =>
           slots'[i] = slots[i] /\ Of(i)' = Of(i) /\ strays'[i] = strays[i],
         \A i \in C!Indices : BusyWith(u, i) \/ BusyWith(u, i)' => i = j,
         \A v \in Producers : v # u => ~ BusyWith(v, j),
         BusyWith(u, j)' => slots'[j].refs = 0,
         what.at = "count" => what.id.generation = Generation(what.id)',
         slots'[j].refs = Cardinality(Of(j)') + strays'[j],
         slots'[j].used <=> slots'[j].refs > 0 \/ BusyWith(u, j)'
  PROVE  BusyOK' /\ RefsOK'
<1>1. doing'[u] = what /\ \A v \in Producers : v # u => doing'[v] = doing[v]
  BY DoesOne DEF ContextInv
<1>2. \A v \in Producers, i \in C!Indices : v # u => (BusyWith(v, i)' <=> BusyWith(v, i))
  BY <1>1 DEF BusyWith, C!At
<1>3. BusyOK'
  <2>1. \A v \in Producers, i \in C!Indices : BusyWith(v, i)' => slots'[i].refs = 0
    BY <1>2 DEF ContextInv, BusyOK
  <2>2. \A v, w \in Producers, i \in C!Indices : BusyWith(v, i)' /\ BusyWith(w, i)' => v = w
    BY <1>2 DEF ContextInv, BusyOK
  <2>3. ASSUME NEW v \in Producers, C!At(v, "count")', v # u
        PROVE  doing'[v].id.generation = Generation(doing[v].id)'
    <3>1. C!At(v, "count") /\ doing'[v] = doing[v]
      BY <1>1, <2>3 DEF C!At
    <3>2. doing[v].id.index \in C!Indices
      BY <3>1, DoingFacts DEF C!At, ContextInv
    <3>3. doing[v].id.index # j
      BY <2>3, <3>1, <3>2 DEF BusyWith
    <3>4. QED
      BY <3>1, <3>2, <3>3 DEF ContextInv, BusyOK, Generation
  <2>4. C!At(u, "count")' => doing'[u].id.generation = Generation(doing[u].id)'
    BY <1>1 DEF C!At, Generation
  <2>5. QED
    BY <2>1, <2>2, <2>3, <2>4 DEF BusyOK
<1>4. RefsOK'
  <2>1. \A i \in C!Indices : C!Busy(i) <=> \E v \in Producers : BusyWith(v, i)
    BY DEF C!Busy, BusyWith
  <2>2. \A i \in C!Indices : C!Busy(i)' <=> \E v \in Producers : BusyWith(v, i)'
    BY DEF C!Busy, BusyWith
  <2>3. C!Busy(j)' <=> BusyWith(u, j)'
    BY <1>2, <2>2
  <2>4. \A i \in C!Indices : i # j => (C!Busy(i)' <=> C!Busy(i))
    BY <1>2, <2>1, <2>2
  <2>5. QED
    BY <2>3, <2>4 DEF ContextInv, RefsOK
<1>5. QED
  BY <1>3, <1>4

(* create takes a free slot. *)
LEMMA ProbeTakeKeeps ==
  ASSUME NEW u \in Producers, ContextInv, C!ProbeTake(u)
  PROVE  ContextInv'
<1>0. PICK j, what : j = C!Probed(u) /\ what = [at |-> "stamp", index |-> j]
  OBVIOUS
<1>1. /\ doing[u].at = "probe" /\ doing' = [doing EXCEPT ![u] = what] /\ ~ slots[j].used
      /\ slots' = [slots EXCEPT ![j].used = TRUE]
      /\ UNCHANGED <<cursor, task, own, holding, strays, begun>>
  BY <1>0 DEF C!ProbeTake, C!At, C!Do
<1>2. j \in C!Indices
  <2>1. doing[u].n \in Nat /\ cursor \in Nat
    BY <1>0, <1>1, DoingTypes DEF ContextInv, ContextTypes, C!Indices
  <2>2. QED
    BY <1>0, <2>1, ContextFacts DEF C!Probed, C!Indices
<1>3. what \in Does /\ what.at = "stamp" /\ what.index = j
  BY <1>0, <1>2 DEF Does
<1>4. doing'[u] = what
  BY <1>0, <1>1, DoesOne DEF ContextInv
<1>5. slots[j].refs = 0 /\ \A v \in Producers : ~ BusyWith(v, j)
  <2>1. ~ C!Busy(j) /\ ~ (slots[j].refs > 0) /\ slots[j].refs \in Nat
    BY <1>1, <1>2, SlotFacts DEF ContextInv, RefsOK
  <2>2. QED
    BY <2>1 DEF C!Busy, BusyWith
<1>6. /\ slots' \in [C!Indices -> [used : BOOLEAN, generation : Nat, refs : Nat]]
      /\ slots'[j].used /\ slots'[j].refs = slots[j].refs
      /\ \A i \in C!Indices : slots'[i].generation = slots[i].generation
      /\ \A i \in C!Indices : i # j => slots'[i] = slots[i]
  BY <1>1, <1>2 DEF ContextInv, ContextTypes
<1>7. ContextTypes'
  BY <1>1, <1>3, <1>6 DEF ContextInv, ContextTypes
<1>8. Grows
  BY <1>6, SlotFacts DEF Grows, ContextInv
<1>9. ThreadOK(u)'
  <2>1. RetainOK(u)' /\ DropOK(u)' /\ ~ Inherits(u)
    BY <1>1, <1>3, <1>4 DEF RetainOK, Retaining, DropOK, Dropping, Inherits
  <2>2. \A t \in C!Tasks : task[u][t] # None => (Stale(task[u][t]) => Stale(task[u][t])')
    BY <1>1, <1>8, StaysStale DEF ContextInv, ContextTypes
  <2>3. HasOK(u)'
    BY <1>1, <1>3, <1>4, <2>1, <2>2 DEF ContextInv, ThreadOK, HasOK
  <2>4. QED
    BY <2>1, <2>3 DEF ThreadOK
<1>10. ASSUME NEW r \in holding
       PROVE  /\ slots'[r.id.index].used /\ Generation(r.id)' = r.id.generation
              /\ r.by = u => Accounted(r)'
  <2>1. r.id.index \in C!Indices /\ Accounted(r) /\ slots[r.id.index].used
        /\ slots[r.id.index].generation = r.id.generation
    BY HeldFacts DEF ContextInv, HoldingOK, Generation
  <2>2. slots'[r.id.index].used /\ Generation(r.id)' = r.id.generation
    BY <1>6, <2>1 DEF Generation
  <2>3. ASSUME r.by = u PROVE Accounted(r)'
    BY <1>1, <1>3, <1>4, <2>1, <2>3 DEF Accounted, Drops, Dropping, Inherits, Retaining
  <2>4. QED
    BY <2>2, <2>3
<1>11. (\A v \in Producers : ThreadOK(v)') /\ HoldingOK'
  BY <1>1, <1>7, <1>8, <1>9, <1>10, AllOK DEF ContextTypes
<1>12. BusyOK' /\ RefsOK'
  <2>1. \A i \in C!Indices : Of(i)' = Of(i) /\ strays'[i] = strays[i]
    BY <1>1 DEF Of
  <2>2. \A i \in C!Indices : ~ BusyWith(u, i) /\ (BusyWith(u, i)' <=> i = j)
    BY <1>1, <1>3, <1>4 DEF BusyWith, C!At
  <2>3. slots'[j].refs = Cardinality(Of(j)') + strays'[j]
    BY <1>2, <1>6, <2>1 DEF ContextInv, RefsOK
  <2>4. slots'[j].used <=> slots'[j].refs > 0 \/ BusyWith(u, j)'
    BY <1>2, <1>6, <2>2
  <2>5. /\ \A i \in C!Indices : BusyWith(u, i) \/ BusyWith(u, i)' => i = j
        /\ what.at # "count" /\ slots'[j].refs = 0
    BY <1>3, <1>5, <1>6, <2>2
  <2>6. QED
    <3>1. doing' = [doing EXCEPT ![u] = what] /\ what \in Does /\ j \in C!Indices
      BY <1>1, <1>2, <1>3
    <3>2. \A i \in C!Indices : i # j =>
            slots'[i] = slots[i] /\ Of(i)' = Of(i) /\ strays'[i] = strays[i]
      BY <1>6, <2>1
    <3>3. \A v \in Producers : v # u => ~ BusyWith(v, j)
      BY <1>5
    <3>4. QED
      BY <2>3, <2>4, <2>5, <3>1, <3>2, <3>3, OneSlot
<1>13. QED
  BY <1>7, <1>11, <1>12 DEF ContextInv

(* Nobody has a reference of a slot somebody is busy with.                 *)
LEMMA BusyFacts ==
  ASSUME ContextInv, NEW u \in Producers, NEW j \in C!Indices, BusyWith(u, j)
  PROVE  /\ slots[j].refs = 0 /\ slots[j].used /\ Of(j) = {} /\ strays[j] = 0
         /\ \A r \in holding : r.id.index # j
         /\ \A v \in Producers : v # u => ~ BusyWith(v, j)
<1>1. slots[j].refs = 0 /\ \A v \in Producers : v # u => ~ BusyWith(v, j)
  BY DEF ContextInv, BusyOK
<1>2. C!Busy(j)
  BY DEF C!Busy, BusyWith
<1>3. slots[j].used /\ slots[j].refs = Cardinality(Of(j)) + strays[j]
  BY <1>2 DEF ContextInv, RefsOK
<1>4. Of(j) = {} /\ strays[j] = 0
  <2>1. Cardinality(Of(j)) \in Nat /\ strays[j] \in Nat
        /\ (Cardinality(Of(j)) = 0 <=> Of(j) = {})
    BY OfFacts, SlotFacts DEF ContextInv
  <2>2. QED
    BY <1>1, <1>3, <2>1
<1>5. \A r \in holding : r.id.index # j
  BY <1>4 DEF Of
<1>6. QED
  BY <1>1, <1>3, <1>4, <1>5

(* create stamps the slot with a new generation: who had the old one is    *)
(* stale.                                                                  *)
LEMMA StampKeepsContexts ==
  ASSUME NEW u \in Producers, ContextInv, C!Stamp(u)
  PROVE  ContextInv'
<1>0. PICK j, id, what :
        /\ j = doing[u].index /\ id = C!Id(j, slots[j].generation + 1)
        /\ what = [at |-> "count", id |-> id]
  OBVIOUS
<1>1. /\ doing[u].at = "stamp" /\ doing' = [doing EXCEPT ![u] = what]
      /\ slots' = [slots EXCEPT ![j].generation = @ + 1]
      /\ UNCHANGED <<cursor, task, own, holding, strays, begun>>
  BY <1>0 DEF C!Stamp, C!At, C!Do
<1>2. j \in C!Indices /\ BusyWith(u, j)
  BY <1>0, <1>1, DoingFacts DEF ContextInv, BusyWith, C!At
<1>3. id \in Ids /\ id.index = j /\ id.generation = slots[j].generation + 1
  BY <1>0, <1>2, SlotFacts DEF ContextInv, Ids, C!Id
<1>4. what \in Does /\ what.at = "count" /\ what.id = id
  BY <1>0, <1>3 DEF Does
<1>5. \A i \in C!Indices : BusyWith(u, i) => i = j
  BY <1>0, <1>1 DEF BusyWith, C!At
<1>6. doing'[u] = what
  BY <1>1, DoesOne DEF ContextInv
<1>7. /\ slots' \in [C!Indices -> [used : BOOLEAN, generation : Nat, refs : Nat]]
      /\ slots'[j].used = slots[j].used /\ slots'[j].refs = slots[j].refs
      /\ slots'[j].generation = slots[j].generation + 1
      /\ \A i \in C!Indices : i # j => slots'[i] = slots[i]
  <2>1. slots[j].generation + 1 \in Nat
    BY <1>2, SlotFacts DEF ContextInv
  <2>2. QED
    BY <1>1, <1>2, <2>1 DEF ContextInv, ContextTypes
<1>8. ContextTypes'
  BY <1>1, <1>4, <1>7 DEF ContextInv, ContextTypes
<1>9. Grows
  <2>1. \A i \in C!Indices : slots[i].generation \in Nat
    BY SlotFacts DEF ContextInv
  <2>2. QED
    BY <1>2, <1>7, <2>1 DEF Grows
<1>10. ThreadOK(u)'
  <2>1. RetainOK(u)' /\ DropOK(u)' /\ ~ Inherits(u)
    BY <1>1, <1>4, <1>6 DEF RetainOK, Retaining, DropOK, Dropping, Inherits
  <2>2. \A t \in C!Tasks : task[u][t] # None => (Stale(task[u][t]) => Stale(task[u][t])')
    BY <1>1, <1>9, StaysStale DEF ContextInv, ContextTypes
  <2>3. HasOK(u)'
    BY <1>1, <1>4, <1>6, <2>1, <2>2 DEF ContextInv, ThreadOK, HasOK
  <2>4. QED
    BY <2>1, <2>3 DEF ThreadOK
<1>11. ASSUME NEW r \in holding
       PROVE  /\ slots'[r.id.index].used /\ Generation(r.id)' = r.id.generation
              /\ r.by = u => Accounted(r)'
  <2>1. r.id.index \in C!Indices /\ Accounted(r) /\ slots[r.id.index].used
        /\ slots[r.id.index].generation = r.id.generation /\ r.id.index # j
    BY <1>2, HeldFacts, BusyFacts DEF ContextInv, HoldingOK, Generation
  <2>2. slots'[r.id.index].used /\ Generation(r.id)' = r.id.generation
    BY <1>7, <2>1 DEF Generation
  <2>3. ASSUME r.by = u PROVE Accounted(r)'
    BY <1>1, <1>4, <1>6, <2>1, <2>3 DEF Accounted, Drops, Dropping, Inherits, Retaining
  <2>4. QED
    BY <2>2, <2>3
<1>12. (\A v \in Producers : ThreadOK(v)') /\ HoldingOK'
  BY <1>1, <1>8, <1>9, <1>10, <1>11, AllOK DEF ContextTypes
<1>13. BusyOK' /\ RefsOK'
  <2>1. \A i \in C!Indices : Of(i)' = Of(i) /\ strays'[i] = strays[i]
    BY <1>1 DEF Of
  <2>2. \A i \in C!Indices : BusyWith(u, i)' <=> i = j
    BY <1>3, <1>4, <1>6 DEF BusyWith, C!At
  <2>3. slots'[j].refs = Cardinality(Of(j)') + strays'[j] /\ slots'[j].used
        /\ slots'[j].refs = 0
    BY <1>2, <1>7, <2>1, BusyFacts DEF ContextInv, RefsOK
  <2>4. what.id.generation = Generation(what.id)'
    BY <1>3, <1>4, <1>7 DEF Generation
  <2>5. \A v \in Producers : v # u => ~ BusyWith(v, j)
    BY <1>2, BusyFacts
  <2>6. QED
    BY <1>1, <1>2, <1>4, <1>5, <1>7, <2>1, <2>2, <2>3, <2>4, <2>5, OneSlot
<1>14. QED
  BY <1>8, <1>12, <1>13 DEF ContextInv

(* create counts the first reference. *)
LEMMA CountKeeps ==
  ASSUME NEW u \in Producers, ContextInv, C!Count(u)
  PROVE  ContextInv'
<1>0. PICK id, j, ref, what :
        /\ id = doing[u].id /\ j = id.index /\ ref = Ref(u, "own", id)
        /\ what = [doing[u] EXCEPT !.at = "move"]
  OBVIOUS
<1>1. /\ doing[u].at = "count" /\ doing' = [doing EXCEPT ![u] = what]
      /\ slots' = [slots EXCEPT ![j].refs = 1]
      /\ holding' = holding \cup {ref}
      /\ UNCHANGED <<cursor, task, own, strays, begun>>
  BY <1>0 DEF C!Count, C!At, C!Do, Ref
<1>2. doing[u] \in [at : {"count", "move"}, id : Ids] /\ id \in Ids /\ j \in C!Indices
      /\ BusyWith(u, j)
      /\ id.generation = Generation(id)
  BY <1>0, <1>1, DoingTypes, DoingFacts DEF ContextInv, BusyWith, C!At, BusyOK
<1>3. what \in Does /\ what.at = "move" /\ what.id = id
  BY <1>0, <1>2 DEF Does
<1>4. ref \in Refs /\ ref.by = u /\ ref.id = id /\ ref.place = "own" /\ ref.id.index = j
  BY <1>0, <1>2 DEF Refs, Ref
<1>5. \A i \in C!Indices : BusyWith(u, i) => i = j
  BY <1>0, <1>1 DEF BusyWith, C!At
<1>6. doing'[u] = what
  BY <1>1, DoesOne DEF ContextInv
<1>7. /\ slots' \in [C!Indices -> [used : BOOLEAN, generation : Nat, refs : Nat]]
      /\ slots'[j].used = slots[j].used /\ slots'[j].refs = 1
      /\ \A i \in C!Indices : slots'[i].generation = slots[i].generation
      /\ \A i \in C!Indices : slots'[i].used = slots[i].used
      /\ \A i \in C!Indices : i # j => slots'[i] = slots[i]
  BY <1>1, <1>2 DEF ContextInv, ContextTypes
<1>8. ContextTypes'
  <2>1. holding' \in SUBSET Refs /\ IsFiniteSet(holding')
    BY <1>1, <1>4, FS_AddElement DEF ContextInv, ContextTypes
  <2>2. QED
    BY <1>1, <1>3, <1>7, <2>1 DEF ContextInv, ContextTypes
<1>9. Grows
  BY <1>7, SlotFacts DEF Grows, ContextInv
<1>10. ThreadOK(u)'
  <2>1. RetainOK(u)' /\ DropOK(u)' /\ ~ Inherits(u)
    BY <1>1, <1>3, <1>6 DEF RetainOK, Retaining, DropOK, Dropping, Inherits
  <2>2. \A t \in C!Tasks : task[u][t] # None => (Stale(task[u][t]) => Stale(task[u][t])')
    BY <1>1, <1>9, StaysStale DEF ContextInv, ContextTypes
  <2>3. HasOK(u)'
    BY <1>0, <1>1, <1>3, <1>6, <2>1, <2>2 DEF ContextInv, ThreadOK, HasOK
  <2>4. QED
    BY <2>1, <2>3 DEF ThreadOK
<1>11. ASSUME NEW r \in holding'
       PROVE  /\ slots'[r.id.index].used /\ Generation(r.id)' = r.id.generation
              /\ r.by # u => r \in holding
              /\ r.by = u => Accounted(r)'
  <2>1. CASE r = ref
    <3>1. slots'[j].used
      BY <1>2, <1>7, BusyFacts
    <3>2. Generation(r.id)' = r.id.generation
      BY <1>2, <1>4, <1>7, <2>1 DEF Generation
    <3>3. Accounted(r)'
      BY <1>4, <2>1 DEF Accounted
    <3>4. QED
      BY <1>4, <2>1, <3>1, <3>2, <3>3
  <2>2. CASE r \in holding
    <3>1. r.id.index \in C!Indices /\ Accounted(r) /\ slots[r.id.index].used
          /\ slots[r.id.index].generation = r.id.generation
      BY <2>2, HeldFacts DEF ContextInv, HoldingOK, Generation
    <3>2. slots'[r.id.index].used /\ Generation(r.id)' = r.id.generation
      BY <1>7, <3>1 DEF Generation
    <3>3. ASSUME r.by = u PROVE Accounted(r)'
      BY <1>1, <1>3, <1>6, <3>1, <3>3 DEF Accounted, Drops, Dropping, Inherits, Retaining
    <3>4. QED
      BY <2>2, <3>2, <3>3
  <2>3. QED
    BY <1>1, <2>1, <2>2
<1>12. (\A v \in Producers : ThreadOK(v)') /\ HoldingOK'
  BY <1>1, <1>8, <1>9, <1>10, <1>11, AllOK DEF ContextTypes
<1>13. BusyOK' /\ RefsOK'
  <2>1. \A i \in C!Indices : strays'[i] = strays[i] /\ (i # j => Of(i)' = Of(i))
    BY <1>1, <1>4 DEF Of
  <2>2. Of(j)' = {ref}
    <3>1. \A r \in holding : r.id.index # j
      BY <1>2, BusyFacts
    <3>2. QED
      BY <1>1, <1>4, <3>1 DEF Of
  <2>3. \A i \in C!Indices : ~ BusyWith(u, i)'
    BY <1>3, <1>6 DEF BusyWith, C!At
  <2>4. slots'[j].refs = Cardinality(Of(j)') + strays'[j] /\ slots'[j].used
        /\ slots'[j].refs > 0
    <3>1. Cardinality(Of(j)') = 1
      BY <2>2, FS_Singleton
    <3>2. strays'[j] = 0 /\ slots[j].used
      BY <1>2, <2>1, BusyFacts
    <3>3. QED
      BY <1>2, <1>7, <3>1, <3>2
  <2>5. \A v \in Producers : v # u => ~ BusyWith(v, j)
    BY <1>2, BusyFacts
  <2>6. QED
    BY <1>1, <1>2, <1>3, <1>5, <1>7, <2>1, <2>3, <2>4, <2>5, OneSlot
<1>14. QED
  BY <1>8, <1>12, <1>13 DEF ContextInv

(* Who has lowered the count to zero frees the slot. *)
LEMMA FreeKeeps ==
  ASSUME NEW u \in Producers, ContextInv, C!Free(u)
  PROVE  ContextInv'
<1>0. PICK j : j = doing[u].id.index
  OBVIOUS
<1>1. /\ doing[u].at = "free" /\ doing' = [doing EXCEPT ![u] = C!Idle]
      /\ slots' = [slots EXCEPT ![j].used = FALSE]
      /\ UNCHANGED <<cursor, task, own, holding, strays, begun>>
  BY <1>0 DEF C!Free, C!At, C!Do
<1>2. j \in C!Indices /\ BusyWith(u, j)
  BY <1>0, <1>1, DoingFacts DEF ContextInv, BusyWith, C!At
<1>3. C!Idle \in Does /\ C!Idle.at = "idle"
  BY <1>0 DEF Does, C!Idle
<1>4. \A i \in C!Indices : BusyWith(u, i) => i = j
  BY <1>0, <1>1 DEF BusyWith, C!At
<1>5. doing'[u] = C!Idle
  BY <1>0, <1>1, DoesOne DEF ContextInv
<1>6. /\ slots' \in [C!Indices -> [used : BOOLEAN, generation : Nat, refs : Nat]]
      /\ slots'[j].used = FALSE /\ slots'[j].refs = slots[j].refs
      /\ \A i \in C!Indices : slots'[i].generation = slots[i].generation
      /\ \A i \in C!Indices : i # j => slots'[i] = slots[i]
  BY <1>1, <1>2 DEF ContextInv, ContextTypes
<1>7. ContextTypes'
  BY <1>1, <1>3, <1>6 DEF ContextInv, ContextTypes
<1>8. Grows
  BY <1>6, SlotFacts DEF Grows, ContextInv
<1>9. ThreadOK(u)'
  <2>1. RetainOK(u)' /\ DropOK(u)' /\ ~ Inherits(u)
    BY <1>1, <1>3, <1>5 DEF RetainOK, Retaining, DropOK, Dropping, Inherits
  <2>2. \A t \in C!Tasks : task[u][t] # None => (Stale(task[u][t]) => Stale(task[u][t])')
    BY <1>1, <1>8, StaysStale DEF ContextInv, ContextTypes
  <2>3. HasOK(u)'
    BY <1>1, <1>3, <1>5, <2>1, <2>2 DEF ContextInv, ThreadOK, HasOK
  <2>4. QED
    BY <2>1, <2>3 DEF ThreadOK
<1>10. ASSUME NEW r \in holding
       PROVE  /\ slots'[r.id.index].used /\ Generation(r.id)' = r.id.generation
              /\ r.by = u => Accounted(r)'
  <2>1. r.id.index \in C!Indices /\ Accounted(r) /\ slots[r.id.index].used
        /\ slots[r.id.index].generation = r.id.generation /\ r.id.index # j
    BY <1>2, HeldFacts, BusyFacts DEF ContextInv, HoldingOK, Generation
  <2>2. slots'[r.id.index].used /\ Generation(r.id)' = r.id.generation
    BY <1>6, <2>1 DEF Generation
  <2>3. ASSUME r.by = u PROVE Accounted(r)'
    BY <1>1, <1>3, <1>5, <2>1, <2>3 DEF Accounted, Drops, Dropping, Inherits, Retaining
  <2>4. QED
    BY <2>2, <2>3
<1>11. (\A v \in Producers : ThreadOK(v)') /\ HoldingOK'
  BY <1>1, <1>7, <1>8, <1>9, <1>10, AllOK DEF ContextTypes
<1>12. BusyOK' /\ RefsOK'
  <2>1. \A i \in C!Indices : Of(i)' = Of(i) /\ strays'[i] = strays[i]
    BY <1>1 DEF Of
  <2>2. \A i \in C!Indices : ~ BusyWith(u, i)'
    BY <1>3, <1>5 DEF BusyWith, C!At
  <2>3. slots'[j].refs = Cardinality(Of(j)') + strays'[j] /\ ~ slots'[j].used
        /\ slots'[j].refs = 0
    BY <1>2, <1>6, <2>1, BusyFacts DEF ContextInv, RefsOK
  <2>4. \A v \in Producers : v # u => ~ BusyWith(v, j)
    BY <1>2, BusyFacts
  <2>5. slots'[j].used <=> slots'[j].refs > 0 \/ BusyWith(u, j)'
    BY <1>2, <2>2, <2>3
  <2>6. /\ \A i \in C!Indices : BusyWith(u, i) \/ BusyWith(u, i)' => i = j
        /\ C!Idle.at # "count" /\ slots'[j].refs = 0
    BY <1>3, <1>4, <2>2, <2>3
  <2>7. QED
    BY <1>1, <1>2, <1>3, <1>6, <2>1, <2>3, <2>4, <2>5, <2>6, OneSlot
<1>13. QED
  BY <1>7, <1>11, <1>12 DEF ContextInv

(* The reference is the new one's; a stray one is of a context that is     *)
(* gone.                                                                   *)
LEMMA RetainKeeps ==
  ASSUME NEW u \in Producers, ContextInv, C!Retain(u)
  PROVE  ContextInv'
<1>0. PICK d, id, j, place, ref, old, what :
        /\ d = doing[u] /\ id = d.id /\ j = id.index
        /\ place = IF d.place = "inherit" THEN "child" ELSE d.place
        /\ ref = Ref(u, place, id) /\ old = task[u][place]
        /\ what = IF d.place = "inherit" \/ old = None THEN C!Idle
                  ELSE [at |-> "drop", place |-> place, id |-> old]
  OBVIOUS
<1>1. /\ d.at = "raise" /\ d.seen # 0 /\ d.seen = slots[j].refs
      /\ slots' = [slots EXCEPT ![j].refs = @ + 1]
      /\ IF C!Matches(u) THEN holding' = holding \cup {ref} /\ UNCHANGED strays
         ELSE strays' = [strays EXCEPT ![j] = @ + 1] /\ UNCHANGED holding
      /\ doing' = [doing EXCEPT ![u] = what]
      /\ task' = IF d.place = "inherit" THEN task ELSE [task EXCEPT ![u][place] = id]
      /\ UNCHANGED <<cursor, own, begun>>
  BY <1>0 DEF C!Retain, C!Raised, C!Give, C!At, C!Do, C!Slot, Ref
<1>2. /\ d \in [at : {"raise"}, place : C!Tasks \cup {"inherit"}, id : Ids, seen : Nat]
      /\ id \in Ids /\ j \in C!Indices /\ id.generation \in Nat /\ d.at \in Retaining
      /\ place \in C!Tasks /\ place # "own" /\ place # "inherit" /\ id # None
  <2>1. d \in [at : {"raise"}, place : C!Tasks \cup {"inherit"}, id : Ids, seen : Nat]
    BY <1>0, <1>1, DoingTypes DEF ContextInv
  <2>2. id \in Ids /\ j \in C!Indices /\ id.generation \in Nat
    BY <1>0, <2>1 DEF Ids
  <2>3. place \in C!Tasks /\ place # "own" /\ place # "inherit"
    BY <1>0, <2>1 DEF C!Tasks
  <2>4. QED
    BY <1>1, <2>1, <2>2, <2>3, ContextFacts DEF Retaining
<1>3. /\ id.generation <= Generation(id)
      /\ d.place = "inherit" => task[u].child = id /\ place = "child" /\ Inherits(u)
      /\ d.place # "inherit" => task[u][place] # id /\ ~ Inherits(u) /\ d.place = place
  BY <1>0, <1>2 DEF ContextInv, ThreadOK, RetainOK, Inherits
<1>4. C!Matches(u) <=> Generation(id) = id.generation
  BY <1>0 DEF C!Matches, C!Slot, Generation
<1>5. ~ C!Matches(u) => Stale(id)
  <2>1. Generation(id) \in Nat
    BY <1>0, <1>2, SlotFacts DEF ContextInv, Generation
  <2>2. QED
    BY <1>2, <1>3, <1>4, <2>1 DEF Stale
<1>6. old \in Ids \cup {None} /\ (d.place # "inherit" => old # id)
  BY <1>0, <1>2, <1>3 DEF ContextInv, ContextTypes
<1>7. /\ what \in Does /\ what.at \in {"idle", "drop"}
      /\ what = C!Idle \/ (what = [at |-> "drop", place |-> place, id |-> old] /\ d.place # "inherit")
      /\ d.place # "inherit" /\ old # None
           => what = [at |-> "drop", place |-> place, id |-> old]
  <2>1. what = C!Idle \/ (what = [at |-> "drop", place |-> place, id |-> old] /\ d.place # "inherit" /\ old # None)
    <3>1. CASE d.place = "inherit" \/ old = None
      BY <1>0, <3>1
    <3>2. CASE ~ (d.place = "inherit" \/ old = None)
      BY <1>0, <3>2
    <3>3. QED
      BY <3>1, <3>2
  <2>2. d.place # "inherit" /\ old # None => what = [at |-> "drop", place |-> place, id |-> old]
    BY <1>0
  <2>3. CASE what = C!Idle
    <3>1. C!Idle \in Does /\ C!Idle.at = "idle"
      BY DEF Does, C!Idle
    <3>2. QED
      BY <2>2, <2>3, <3>1
  <2>4. CASE what = [at |-> "drop", place |-> place, id |-> old] /\ d.place # "inherit"
        /\ old # None
    <3>1. old \in Ids /\ "drop" \in Dropping \cup {"free"} /\ place \in C!Tasks \cup {"own"}
      BY <1>2, <1>6, <2>4 DEF Dropping
    <3>2. what \in Does /\ what.at = "drop"
      BY <2>4, <3>1 DEF Does
    <3>3. QED
      BY <2>2, <2>4, <3>2
  <2>5. QED
    BY <2>1, <2>3, <2>4
<1>8. doing'[u] = what
  BY <1>1, DoesOne DEF ContextInv
<1>9. slots[j].refs \in Nat /\ slots[j].refs > 0 /\ slots[j].used
  <2>1. slots[j].refs \in Nat
    BY <1>2, SlotFacts DEF ContextInv
  <2>2. QED
    BY <1>1, <1>2, <2>1 DEF ContextInv, RefsOK
<1>10. \A v \in Producers : ~ BusyWith(v, j)
  BY <1>2, <1>9 DEF ContextInv, BusyOK
<1>11. /\ slots' \in [C!Indices -> [used : BOOLEAN, generation : Nat, refs : Nat]]
       /\ slots'[j].refs = slots[j].refs + 1
       /\ \A i \in C!Indices : slots'[i].generation = slots[i].generation
          /\ slots'[i].used = slots[i].used
       /\ \A i \in C!Indices : i # j => slots'[i] = slots[i]
  <2>1. slots[j].refs + 1 \in Nat
    BY <1>9
  <2>2. QED
    BY <1>1, <1>2, <2>1 DEF ContextInv, ContextTypes
<1>12. \A x \in Ids : Generation(x)' = Generation(x) /\ (Stale(x)' <=> Stale(x))
  BY <1>11 DEF Ids, Generation, Stale
<1>13. ref \in Refs /\ ref.by = u /\ ref.place = place /\ ref.id = id /\ ref.id.index = j
  BY <1>0, <1>2 DEF Refs, Ref
<1>14. ref \notin holding
  <2>1. ASSUME ref \in holding PROVE FALSE
    <3>1. Accounted(ref) /\ ~ Drops(u, place, id)
      BY <1>0, <1>1, <2>1 DEF ContextInv, HoldingOK, Drops, Dropping
    <3>2. QED
      BY <1>2, <1>3, <1>13, <3>1 DEF Accounted
  <2>2. QED
    BY <2>1
<1>15. /\ task' \in [Producers -> [C!Tasks -> Ids \cup {None}]]
       /\ task'[u][place] = id /\ \A t \in C!Tasks : t # place => task'[u][t] = task[u][t]
       /\ \A v \in Producers : v # u => task'[v] = task[v]
  <2>1. CASE d.place = "inherit"
    BY <1>1, <1>3, <2>1 DEF ContextInv, ContextTypes
  <2>2. CASE d.place # "inherit"
    <3>1. task' = [task EXCEPT ![u][place] = id]
      BY <1>1, <2>2
    <3>2. QED
      BY <1>2, <3>1 DEF ContextInv, ContextTypes
  <2>3. QED
    BY <2>1, <2>2
<1>16. holding \subseteq holding' /\ holding' \subseteq holding \cup {ref}
       /\ IsFiniteSet(holding') /\ holding' \in SUBSET Refs
  <2>1. IsFiniteSet(holding) /\ holding \in SUBSET Refs /\ IsFiniteSet(holding \cup {ref})
    BY FS_AddElement DEF ContextInv, ContextTypes
  <2>2. holding' = holding \cup {ref} \/ holding' = holding
    BY <1>1
  <2>3. QED
    BY <1>13, <2>1, <2>2
<1>17. /\ strays' \in [C!Indices -> Nat] /\ \A i \in C!Indices : i # j => strays'[i] = strays[i]
       /\ C!Matches(u) => strays'[j] = strays[j]
       /\ ~ C!Matches(u) => strays'[j] = strays[j] + 1
  <2>1. strays[j] \in Nat /\ strays[j] + 1 \in Nat
    BY <1>2, SlotFacts DEF ContextInv
  <2>2. QED
    BY <1>1, <1>2, <2>1 DEF ContextInv, ContextTypes
<1>18. ContextTypes'
  <2>1. doing' \in [Producers -> Does]
    BY <1>1, <1>7 DEF ContextInv, ContextTypes
  <2>2. QED
    BY <1>1, <1>11, <1>15, <1>16, <1>17, <2>1 DEF ContextInv, ContextTypes
<1>19. Grows
  BY <1>11, SlotFacts DEF Grows, ContextInv
<1>20. ~ Inherits(u)' /\ what.at # "move" /\ d.at # "move"
       /\ what.at \notin {"stamp", "count", "free", "lower"}
  BY <1>1, <1>7, <1>8 DEF Inherits, Retaining
<1>21. ref \in holding' \/ Stale(id)'
  BY <1>1, <1>2, <1>5, <1>12
<1>22. ThreadOK(u)'
  <2>1. RetainOK(u)'
    BY <1>7, <1>8 DEF RetainOK, Retaining
  <2>2. DropOK(u)'
    <3>1. SUFFICES ASSUME what.at \in Dropping PROVE DropOK(u)'
      BY <1>8 DEF DropOK
    <3>2. what = [at |-> "drop", place |-> place, id |-> old] /\ d.place # "inherit"
          /\ old # None
      BY <1>0, <1>7, <3>1 DEF C!Idle, Dropping
    <3>3. old \in Ids /\ (Ref(u, place, old) \in holding \/ Stale(old))
      BY <1>0, <1>2, <1>3, <1>6, <3>2 DEF ContextInv, ThreadOK, HasOK
    <3>4. Ref(u, place, old) \in holding' \/ Stale(old)'
      BY <1>12, <1>16, <3>3
    <3>5. QED
      BY <1>2, <1>6, <1>8, <1>15, <3>2, <3>4 DEF DropOK
  <2>3. HasOK(u)'
    <3>1. ASSUME NEW t \in C!Tasks, task'[u][t] # None
          PROVE  Ref(u, t, task'[u][t]) \in holding' \/ Stale(task[u][t])'
      <4>1. CASE t = place
        BY <1>0, <1>15, <1>21, <4>1
      <4>2. CASE t # place
        <5>1. task'[u][t] = task[u][t] /\ task[u][t] \in Ids
          BY <1>15, <3>1, <4>2 DEF ContextInv, ContextTypes
        <5>2. Ref(u, t, task[u][t]) \in holding \/ Stale(task[u][t])
          BY <1>3, <3>1, <4>2, <5>1 DEF ContextInv, ThreadOK, HasOK
        <5>3. \A x \in Ids : Stale(x) => Stale(x)'
          BY <1>12
        <5>4. QED
          BY <1>16, <5>1, <5>2, <5>3
      <4>3. QED
        BY <4>1, <4>2
    <3>2. \A x \in own[u] : Ref(u, "own", x) \in holding'
      BY <1>16 DEF ContextInv, ThreadOK, HasOK
    <3>3. QED
      BY <1>1, <1>8, <1>20, <3>1, <3>2 DEF HasOK
  <2>4. QED
    BY <2>1, <2>2, <2>3 DEF ThreadOK
<1>23. ASSUME NEW r \in holding'
       PROVE  /\ slots'[r.id.index].used /\ Generation(r.id)' = r.id.generation
              /\ r.by # u => r \in holding
              /\ r.by = u => Accounted(r)'
  <2>1. CASE r \in holding
    <3>1. /\ r.id.index \in C!Indices /\ Accounted(r) /\ slots[r.id.index].used /\ r.id \in Ids
          /\ slots[r.id.index].generation = r.id.generation /\ r.place \in C!Tasks \cup {"own"}
      BY <2>1, HeldFacts DEF ContextInv, HoldingOK, Generation, ContextTypes, Refs
    <3>2. slots'[r.id.index].used /\ Generation(r.id)' = r.id.generation
      BY <1>11, <3>1 DEF Generation
    <3>3. ASSUME r.by = u PROVE Accounted(r)'
      <4>1. ~ Drops(u, r.place, r.id)
        BY <1>0, <1>1 DEF Drops, Dropping
      <4>2. CASE r.place = "own"
        BY <4>2 DEF Accounted
      <4>3. CASE r.place # "own" /\ r.place # place
        BY <1>15, <1>20, <3>1, <3>3, <4>1, <4>3 DEF Accounted
      <4>4. CASE r.place = place
        <5>1. r.id = old /\ ~ (place = "child" /\ Inherits(u))
          BY <1>0, <1>2, <3>1, <3>3, <4>1, <4>4 DEF Accounted
        <5>2. d.place # "inherit" /\ old # None
          BY <1>3, <3>1, <5>1, ContextFacts
        <5>3. what = [at |-> "drop", place |-> place, id |-> old]
          BY <1>7, <5>2
        <5>4. QED
          BY <1>8, <3>3, <4>4, <5>1, <5>3 DEF Accounted, Drops, Dropping
      <4>5. QED
        BY <4>2, <4>3, <4>4
    <3>4. QED
      BY <2>1, <3>2, <3>3
  <2>2. CASE r \notin holding
    <3>1. r = ref /\ C!Matches(u)
      BY <1>1, <1>16, <2>2
    <3>2. slots'[r.id.index].used
      BY <1>2, <1>9, <1>11, <1>13, <3>1
    <3>3. Generation(r.id)' = r.id.generation
      BY <1>2, <1>4, <1>12, <1>13, <3>1
    <3>4. Accounted(r)'
      BY <1>13, <1>15, <1>20, <3>1 DEF Accounted
    <3>5. QED
      BY <1>13, <3>1, <3>2, <3>3, <3>4
  <2>3. QED
    BY <2>1, <2>2
<1>24. (\A v \in Producers : ThreadOK(v)') /\ HoldingOK'
  BY <1>1, <1>15, <1>16, <1>19, <1>22, <1>23, AllOK
<1>25. BusyOK' /\ RefsOK'
  <2>1. \A i \in C!Indices : i # j => Of(i)' = Of(i)
    BY <1>13, <1>16 DEF Of
  <2>2. \A i \in C!Indices : ~ BusyWith(u, i) /\ ~ BusyWith(u, i)'
    BY <1>0, <1>1, <1>8, <1>20 DEF BusyWith, C!At
  <2>3. slots[j].refs = Cardinality(Of(j)) + strays[j] /\ Cardinality(Of(j)) \in Nat
        /\ strays[j] \in Nat /\ IsFiniteSet(Of(j))
    BY <1>2, OfFacts, SlotFacts DEF ContextInv, RefsOK
  <2>4. /\ doing' = [doing EXCEPT ![u] = what] /\ what \in Does /\ j \in C!Indices
           /\ what.at # "count"
        /\ \A i \in C!Indices : i # j =>
             slots'[i] = slots[i] /\ Of(i)' = Of(i) /\ strays'[i] = strays[i]
        /\ \A v \in Producers : v # u => ~ BusyWith(v, j)
    BY <1>1, <1>2, <1>7, <1>10, <1>11, <1>17, <1>20, <2>1
  <2>5. slots'[j].used <=> slots'[j].refs > 0 \/ BusyWith(u, j)'
    BY <1>2, <1>9, <1>11
  <2>6. /\ \A i \in C!Indices : BusyWith(u, i) \/ BusyWith(u, i)' => i = j
        /\ BusyWith(u, j)' => slots'[j].refs = 0
    BY <1>2, <2>2
  <2>7. CASE C!Matches(u)
    <3>1. Of(j)' = Of(j) \cup {ref} /\ ref \notin Of(j)
      BY <1>1, <1>13, <1>14, <2>7 DEF Of
    <3>2. Cardinality(Of(j)') = Cardinality(Of(j)) + 1
      BY <2>3, <3>1, FS_AddElement
    <3>3. slots'[j].refs = Cardinality(Of(j)') + strays'[j]
      <4>1. strays'[j] = strays[j] /\ slots'[j].refs = slots[j].refs + 1
        BY <1>11, <1>17, <2>7
      <4>2. QED
        BY <2>3, <3>2, <4>1
    <3>4. QED
      BY <2>4, <2>5, <2>6, <3>3, OneSlot
  <2>8. CASE ~ C!Matches(u)
    <3>1. Of(j)' = Of(j)
      BY <1>1, <2>8 DEF Of
    <3>2. slots'[j].refs = Cardinality(Of(j)') + strays'[j]
      BY <1>11, <1>17, <2>3, <2>8, <3>1
    <3>3. QED
      BY <2>4, <2>5, <2>6, <3>2, OneSlot
  <2>9. QED
    BY <2>7, <2>8
<1>26. QED
  BY <1>18, <1>24, <1>25 DEF ContextInv

(* release lowers the count of references. *)
LEMMA LowerKeeps ==
  ASSUME NEW u \in Producers, ContextInv, C!Lower(u)
  PROVE  ContextInv'
<1>0. PICK d, id, j, ref, what :
        /\ d = doing[u] /\ id = d.id /\ j = id.index /\ ref = Ref(u, d.place, id)
        /\ what = IF slots[j].refs = 1 THEN [d EXCEPT !.at = "free"] ELSE C!Idle
  OBVIOUS
<1>1. /\ d.at = "lower" /\ doing' = [doing EXCEPT ![u] = what]
      /\ slots' = [slots EXCEPT ![j].refs = @ - 1] /\ holding' = holding \ {ref}
      /\ UNCHANGED <<cursor, task, own, strays, begun>>
  BY <1>0 DEF C!Lower, C!At, C!Do, C!Slot, Ref
<1>2. /\ d \in [at : Dropping \cup {"free"}, place : C!Tasks \cup {"own"}, id : Ids]
      /\ id \in Ids /\ j \in C!Indices /\ ref \in holding
      /\ d.place # "own" => task[u][d.place] # id
      /\ d.place = "own" => id \notin own[u]
  BY <1>0, <1>1, DoingTypes DEF ContextInv, ThreadOK, DropOK, Dropping, Ids
<1>3. ref.by = u /\ ref.place = d.place /\ ref.id = id /\ ref.id.index = j
  BY <1>0 DEF Ref
<1>4. what \in Does /\ what.at \in {"idle", "free"} /\ (what.at = "free" => what.id = id)
      /\ (what.at = "free" <=> slots[j].refs = 1)
  BY <1>0, <1>2 DEF Does, C!Idle
<1>5. doing'[u] = what
  BY <1>1, DoesOne DEF ContextInv
<1>6. slots[j].refs \in Nat /\ slots[j].refs # 0 /\ slots[j].used
      /\ \A v \in Producers : ~ BusyWith(v, j)
  BY <1>2, <1>3, HeldFacts, SlotFacts DEF ContextInv, HoldingOK
<1>7. /\ slots' \in [C!Indices -> [used : BOOLEAN, generation : Nat, refs : Nat]]
      /\ slots'[j].refs = slots[j].refs - 1
      /\ \A i \in C!Indices : slots'[i].generation = slots[i].generation
         /\ slots'[i].used = slots[i].used
      /\ \A i \in C!Indices : i # j => slots'[i] = slots[i]
  <2>1. slots[j].refs - 1 \in Nat
    BY <1>6
  <2>2. QED
    BY <1>1, <1>2, <2>1 DEF ContextInv, ContextTypes
<1>8. ContextTypes'
  <2>1. doing' \in [Producers -> Does]
    BY <1>1, <1>4 DEF ContextInv, ContextTypes
  <2>2. holding' \in SUBSET Refs /\ IsFiniteSet(holding')
    BY <1>1, FS_Subset DEF ContextInv, ContextTypes
  <2>3. QED
    BY <1>1, <1>7, <2>1, <2>2 DEF ContextInv, ContextTypes
<1>9. Grows
  BY <1>7, SlotFacts DEF Grows, ContextInv
<1>10. ~ Inherits(u) /\ ~ Inherits(u)'
  BY <1>0, <1>1, <1>4, <1>5 DEF Inherits, Retaining
<1>11. ThreadOK(u)'
  <2>1. RetainOK(u)' /\ DropOK(u)'
    BY <1>4, <1>5 DEF RetainOK, Retaining, DropOK, Dropping
  <2>2. \A t \in C!Tasks : task[u][t] # None => (Stale(task[u][t]) => Stale(task[u][t])')
    BY <1>1, <1>9, StaysStale DEF ContextInv, ContextTypes
  <2>3. \A t \in C!Tasks : Ref(u, t, task[u][t]) \in holding
          => Ref(u, t, task[u][t]) \in holding'
    <3>1. \A t \in C!Tasks : Ref(u, t, task[u][t]).place = t
          /\ Ref(u, t, task[u][t]).id = task[u][t] /\ t # "own"
      BY DEF Ref, C!Tasks
    <3>2. QED
      BY <1>1, <1>2, <1>3, <3>1
  <2>4. \A x \in own[u] : Ref(u, "own", x) \in holding'
    <3>1. \A x : Ref(u, "own", x).place = "own" /\ Ref(u, "own", x).id = x
      BY DEF Ref
    <3>2. QED
      BY <1>1, <1>2, <1>3, <3>1 DEF ContextInv, ThreadOK, HasOK
  <2>5. HasOK(u)'
    BY <1>1, <1>4, <1>5, <1>10, <2>2, <2>3, <2>4 DEF ContextInv, ThreadOK, HasOK
  <2>6. QED
    BY <2>1, <2>5 DEF ThreadOK
<1>12. ASSUME NEW r \in holding'
       PROVE  /\ slots'[r.id.index].used /\ Generation(r.id)' = r.id.generation
              /\ r \in holding
              /\ r.by = u => Accounted(r)'
  <2>1. r \in holding /\ r # ref
    BY <1>1
  <2>2. /\ r.id.index \in C!Indices /\ Accounted(r) /\ slots[r.id.index].used
        /\ slots[r.id.index].generation = r.id.generation /\ r = Ref(r.by, r.place, r.id)
    BY <2>1, HeldFacts DEF ContextInv, HoldingOK, Generation, ContextTypes, Refs, Ref
  <2>3. slots'[r.id.index].used /\ Generation(r.id)' = r.id.generation
    BY <1>7, <2>2 DEF Generation
  <2>4. ASSUME r.by = u PROVE Accounted(r)'
    <3>1. ~ Drops(u, r.place, r.id)
      BY <1>0, <2>1, <2>2, <2>4 DEF Drops
    <3>2. QED
      BY <1>1, <1>10, <2>2, <2>4, <3>1 DEF Accounted
  <2>5. QED
    BY <2>1, <2>3, <2>4
<1>13. (\A v \in Producers : ThreadOK(v)') /\ HoldingOK'
  <2>1. \A r \in holding : r.by # u => r \in holding'
    BY <1>1, <1>3
  <2>2. QED
    BY <1>1, <1>8, <1>9, <1>11, <1>12, <2>1, AllOK DEF ContextTypes
<1>14. BusyOK' /\ RefsOK'
  <2>1. \A i \in C!Indices : strays'[i] = strays[i] /\ (i # j => Of(i)' = Of(i))
    BY <1>1, <1>3 DEF Of
  <2>2. \A i \in C!Indices : ~ BusyWith(u, i) /\ (BusyWith(u, i)' <=> what.at = "free" /\ i = j)
    BY <1>0, <1>1, <1>4, <1>5 DEF BusyWith, C!At
  <2>3. slots[j].refs = Cardinality(Of(j)) + strays[j] /\ Cardinality(Of(j)) \in Nat
        /\ strays[j] \in Nat /\ IsFiniteSet(Of(j))
    BY <1>2, OfFacts, SlotFacts DEF ContextInv, RefsOK
  <2>4. Of(j)' = Of(j) \ {ref} /\ ref \in Of(j)
    BY <1>1, <1>2, <1>3 DEF Of
  <2>5. Cardinality(Of(j)') = Cardinality(Of(j)) - 1
    BY <2>3, <2>4, FS_RemoveElement
  <2>6. slots'[j].refs = Cardinality(Of(j)') + strays'[j]
    BY <1>2, <1>7, <2>1, <2>3, <2>5
  <2>7. slots'[j].used /\ (slots'[j].refs > 0 \/ what.at = "free")
        /\ (what.at = "free" => slots'[j].refs = 0)
    BY <1>2, <1>4, <1>6, <1>7
  <2>8. /\ slots'[j].used <=> slots'[j].refs > 0 \/ BusyWith(u, j)'
        /\ \A i \in C!Indices : BusyWith(u, i) \/ BusyWith(u, i)' => i = j
        /\ BusyWith(u, j)' => slots'[j].refs = 0
        /\ what.at # "count"
    BY <1>2, <1>4, <2>2, <2>7
  <2>9. QED
    BY <1>1, <1>2, <1>4, <1>6, <1>7, <2>1, <2>6, <2>8, OneSlot
<1>15. QED
  BY <1>8, <1>13, <1>14 DEF ContextInv

(* Every slot is free, and nobody has a context. *)
LEMMA InitContexts == C!Init => ContextInv
<1> SUFFICES ASSUME C!Init PROVE ContextInv
  OBVIOUS
<1>1. \A u \in Producers : doing[u] = C!Idle /\ doing[u].at = "idle" /\ ~ Inherits(u)
  BY DEF C!Init, C!Idle, Inherits, Retaining
<1>2. holding = {} /\ \A i \in C!Indices : slots[i].refs = 0 /\ slots[i].used = FALSE
      /\ strays[i] = 0
  BY DEF C!Init
<1>3. ContextTypes
  <2>1. doing \in [Producers -> Does]
        /\ slots \in [C!Indices -> [used : BOOLEAN, generation : Nat, refs : Nat]]
    BY DEF C!Init, Does
  <2>2. IsFiniteSet(holding) /\ cursor \in C!Indices
    BY FS_EmptySet, ContextFacts DEF C!Init, C!Indices
  <2>3. QED
    BY <2>1, <2>2 DEF C!Init, ContextTypes
<1>4. ASSUME NEW u \in Producers PROVE ThreadOK(u)
  BY <1>1 DEF C!Init, ThreadOK, RetainOK, DropOK, HasOK, Retaining, Dropping
<1>5. HoldingOK
  BY <1>2 DEF HoldingOK
<1>6. \A u \in Producers, i \in C!Indices : ~ BusyWith(u, i)
  BY <1>1 DEF BusyWith, C!At
<1>7. BusyOK
  BY <1>1, <1>6 DEF BusyOK, C!At
<1>8. RefsOK
  <2>1. \A i \in C!Indices : Of(i) = {} /\ ~ C!Busy(i)
    BY <1>1, <1>2 DEF Of, C!Busy, C!At
  <2>2. QED
    BY <1>2, <2>1, FS_EmptySet DEF RefsOK
<1>9. QED
  BY <1>3, <1>4, <1>5, <1>7, <1>8 DEF ContextInv

(* Every step keeps the invariant. *)
LEMMA ContextStep == ContextInv /\ [C!Next]_(C!vars) => ContextInv'
<1> SUFFICES ASSUME ContextInv, [C!Next]_(C!vars) PROVE ContextInv'
  OBVIOUS
<1>1. CASE UNCHANGED C!vars
  <2>1. ContextTypes'
    BY <1>1 DEF C!vars, ContextInv, ContextTypes
  <2>2. \A u \in Producers : ThreadOK(u)'
    <3>1. ContextTypes /\ Grows
      BY <1>1, SlotFacts DEF C!vars, ContextInv, Grows
    <3>2. QED
      BY <1>1, <3>1, OthersOK DEF C!vars, ContextInv
  <2>3. \A u \in Producers : /\ Inherits(u)' <=> Inherits(u)
                             /\ \A p, id : Drops(u, p, id)' <=> Drops(u, p, id)
                             /\ \A i : BusyWith(u, i)' <=> BusyWith(u, i)
    BY <1>1 DEF C!vars, Inherits, Drops, BusyWith, C!At
  <2>4. \A r \in holding : r.by \in Producers
    BY DEF ContextInv, ContextTypes, Refs
  <2>5. HoldingOK'
    BY <1>1, <2>3, <2>4 DEF C!vars, ContextInv, HoldingOK, Accounted, Generation
  <2>6. BusyOK'
    BY <1>1, <2>3 DEF C!vars, ContextInv, BusyOK, C!At, Generation
  <2>7. RefsOK'
    BY <1>1 DEF C!vars, ContextInv, RefsOK, Of, C!Busy, C!At
  <2>8. QED
    BY <2>1, <2>2, <2>5, <2>6, <2>7 DEF ContextInv
<1>2. ASSUME NEW u \in Producers, NEW t \in C!Tasks, C!Clear(u, t) \/ \E id \in C!Returned : C!Set(u, t, id)
      PROVE  ContextInv'
  BY <1>2, ClearKeeps, SetKeeps
<1>3. ASSUME NEW u \in Producers,
             \/ C!Create(u) \/ C!ProbeTake(u) \/ C!ProbeNext(u) \/ C!Stamp(u) \/ C!Count(u) \/ C!Move(u)
             \/ C!Inherit(u) \/ C!RetainLook(u) \/ C!RetainMatch(u) \/ C!RetainLoad(u)
             \/ C!RetainRefused(u) \/ C!RetainLost(u) \/ C!Retain(u)
      PROVE  ContextInv'
  BY <1>3, ProbesKeep, ProbeTakeKeeps, StampKeepsContexts, CountKeeps, MoveKeeps, InheritKeeps,
     RetainsKeep, RetainKeeps
<1>4. ASSUME NEW u \in Producers,
             \/ \E id \in own[u] : C!Release(u, id)
             \/ C!DropLook(u) \/ C!DropCheck(u) \/ C!Lower(u) \/ C!Free(u)
      PROVE  ContextInv'
  BY <1>4, ReleaseContextKeeps, DropsKeep, LowerKeeps, FreeKeeps
<1>5. QED
  BY <1>1, <1>2, <1>3, <1>4 DEF C!Next, C!Rest

(* The property is part of the invariant. *)
LEMMA ContextsSafe == ContextInv => C!ReferencesExact
<1> SUFFICES ASSUME ContextInv PROVE C!ReferencesExact
  OBVIOUS
<1>1. \A i \in C!Indices : Of(i) = {r \in holding : r.id.index = i}
  BY DEF Of
<1>2. QED
  BY <1>1, SameSizes DEF ContextInv, HoldingOK, RefsOK, C!ReferencesExact, Generation

(* The invariant holds in every behaviour of the table. *)
LEMMA ContextsInductive == (C!Init /\ [][C!Next]_(C!vars)) => []ContextInv
BY InitContexts, ContextStep, PTL

-----------------------------------------------------------------------------
(* The ways of MCMpmcQueue: a behaviour exercises one of the structures.   *)

(* A behaviour of MCMpmcQueue is one of the pool, or has nothing to do     *)
(* with it.                                                                *)
LEMMA PoolWay ==
  MCSpec => (way = "pool" /\ P!Init /\ [][P!Next]_(P!vars)) \/ [](way # "pool")
<1>1. MCInit /\ way = "pool" => P!Init
  BY DEF MCInit
<1>2. way = "pool" /\ [MCNext]_all => [P!Next]_(P!vars) /\ (way = "pool")'
  BY DEF MCNext, all, pool, P!vars
<1>3. way # "pool" /\ [MCNext]_all => (way # "pool")'
  BY DEF MCNext, all
<1>4. way # "pool" <=> ~ (way = "pool")
  OBVIOUS
<1>5. way = "pool" /\ MCSpec => P!Init /\ [][P!Next]_(P!vars)
  BY <1>1, <1>2, PTL DEF MCSpec
<1>6. way # "pool" /\ MCSpec => [](way # "pool")
  BY <1>3, PTL DEF MCSpec
<1>7. QED
  BY <1>4, <1>5, <1>6, PTL

(* The same of admission. *)
LEMMA AdmissionWay ==
  MCSpec => (way = "admission" /\ A!Init /\ [][A!Next]_(A!vars)) \/ [](way # "admission")
<1>1. MCInit /\ way = "admission" => A!Init
  BY DEF MCInit
<1>2. way = "admission" /\ [MCNext]_all => [A!Next]_(A!vars) /\ (way = "admission")'
  BY DEF MCNext, all, admission, A!vars
<1>3. way # "admission" /\ [MCNext]_all => (way # "admission")'
  BY DEF MCNext, all
<1>4. way # "admission" <=> ~ (way = "admission")
  OBVIOUS
<1>5. way = "admission" /\ MCSpec => A!Init /\ [][A!Next]_(A!vars)
  BY <1>1, <1>2, PTL DEF MCSpec
<1>6. way # "admission" /\ MCSpec => [](way # "admission")
  BY <1>3, PTL DEF MCSpec
<1>7. QED
  BY <1>4, <1>5, <1>6, PTL

(* The same of the table of contexts. *)
LEMMA ContextsWay ==
  MCSpec => (way = "contexts" /\ C!Init /\ [][C!Next]_(C!vars)) \/ [](way # "contexts")
<1>1. MCInit /\ way = "contexts" => C!Init
  BY DEF MCInit
<1>2. way = "contexts" /\ [MCNext]_all => [C!Next]_(C!vars) /\ (way = "contexts")'
  BY DEF MCNext, all, contexts, C!vars
<1>3. way # "contexts" /\ [MCNext]_all => (way # "contexts")'
  BY DEF MCNext, all
<1>4. way # "contexts" <=> ~ (way = "contexts")
  OBVIOUS
<1>5. way = "contexts" /\ MCSpec => C!Init /\ [][C!Next]_(C!vars)
  BY <1>1, <1>2, PTL DEF MCSpec
<1>6. way # "contexts" /\ MCSpec => [](way # "contexts")
  BY <1>3, PTL DEF MCSpec
<1>7. QED
  BY <1>4, <1>5, <1>6, PTL

(* allocate and release of the index pool: no index is in two hands, and   *)
(* none is lost, however the calls of any number of threads interleave.    *)
THEOREM IndexesHandedOutOnce == MCSpec => []HandedOutOnce
<1>1. PoolInv => HandedOutOnce
  BY PoolSafe DEF HandedOutOnce
<1>2. way # "pool" => HandedOutOnce
  BY DEF HandedOutOnce
<1>3. QED
  BY <1>1, <1>2, PoolInductive, PoolWay, PTL

(* create, retain and release of the table of contexts, set and inherit of *)
(* the store; try_admit and on_complete: a context stays who it is for as  *)
(* long as somebody refers to it, and its slot is free when nobody does;   *)
(* as many tokens are out as are counted, and no more than there may be.   *)
THEOREM ReferencesAreExact == MCSpec => []ReferencesExact
<1>1. ContextInv => (way = "contexts" => C!ReferencesExact)
  BY ContextsSafe
<1>2. way # "contexts" => (way = "contexts" => C!ReferencesExact)
  OBVIOUS
<1>3. MCSpec => [](way = "contexts" => C!ReferencesExact)
  BY <1>1, <1>2, ContextsInductive, ContextsWay, PTL
<1>4. TokenInv => (way = "admission" => A!TokensExact)
  BY TokensSafe
<1>5. way # "admission" => (way = "admission" => A!TokensExact)
  OBVIOUS
<1>6. MCSpec => [](way = "admission" => A!TokensExact)
  BY <1>4, <1>5, TokensInductive, AdmissionWay, PTL
<1>7. (way = "contexts" => C!ReferencesExact) /\ (way = "admission" => A!TokensExact)
        => ReferencesExact
  BY DEF ReferencesExact
<1>8. QED
  BY <1>3, <1>6, <1>7, PTL
=============================================================================
