-------------------------- MODULE WaitPoint_proof --------------------------
(***************************************************************************)
(* Proofs about the ways of waiting that MCWaiting composes, for any       *)
(* number of threads, tasks, jobs and lanes: a coroutine that waits for a  *)
(* counter is woken once and not early; a task that runs after others      *)
(* starts when they have ended; the jobs of a lane keep their order.       *)
(***************************************************************************)
EXTENDS MCWaiting, FiniteSetTheorems, WellFoundedInduction, NaturalsInduction, TLAPS

Early == {"await", "attach", "push"}
AtWait == Early \cup {"recheck", "refused", "suspend", "pending", "asleep"}
AtComplete == {"complete", "drain"}

(* TypeOK, with the sequences and the places in the code. *)
Types ==
  /\ count \in 0..Units
  /\ list \in Seq(Waiters) /\ todo \in [Threads -> Seq(Waiters)]
  /\ signalled \in [Waiters -> BOOLEAN] /\ armed \in [Waiters -> BOOLEAN]
  /\ suspended \in [Waiters -> BOOLEAN] /\ pending \in [Waiters -> BOOLEAN]
  /\ waking \in [Threads -> {"node", "exchange", "pending"}]
  /\ continued \in [Waiters -> Nat]
  /\ pc \in [Threads -> AtWait \cup AtComplete \cup {"done"}]
  /\ \A c \in Waiters : pc[c] \notin AtComplete
  /\ \A s \in Completers : pc[s] \notin AtWait

Once(s) == \A i, j \in DOMAIN s : s[i] = s[j] => i = j

(* No node is in two lists, nor twice in one. *)
Apart ==
  /\ Once(list)
  /\ \A t \in Threads : Once(todo[t]) /\ Elements(list) \cap Elements(todo[t]) = {}
  /\ \A t, u \in Threads : t # u => Elements(todo[t]) \cap Elements(todo[u]) = {}

(* A node that its waiter has not pushed is nowhere. *)
NodeOK(c) ==
  pc[c] \in Early =>
    /\ ~ signalled[c] /\ c \notin Elements(list)
    /\ \A t \in Threads : c \notin Elements(todo[t])

(* Lists are drained only of a counter that is ready; one who is waking    *)
(* has marked the node.                                                    *)
ThreadOK(t) ==
  /\ pc[t] \in {"drain", "refused"} => Ready
  /\ todo[t] # << >> => Ready /\ pc[t] \in {"refused", "done"}
  /\ waking[t] # "node" => todo[t] # << >> /\ signalled[Head(todo[t])]

(* t has marked the node of c and not yet left word, nor resumed it. *)
Busy(t, c) == waking[t] # "node" /\ Head(todo[t]) = c

(* The coroutine goes on in one of three ways: it never suspends, it takes *)
(* its suspension back itself, or one who wakes it does; and once that one *)
(* has, nobody is left who could leave word for it.                        *)
WaiterOK(c) ==
  /\ pending[c] => Ready /\ signalled[c] /\ \A t \in Threads : ~ Busy(t, c)
  /\ pc[c] \in Early \cup {"recheck", "refused", "suspend"} =>
       continued[c] = 0 /\ ~ suspended[c] /\ (pc[c] # "await" => armed[c])
  /\ pc[c] \in {"pending", "asleep"} /\ suspended[c] => continued[c] = 0 /\ armed[c]
  /\ pc[c] \in {"pending", "asleep"} /\ ~ suspended[c] => continued[c] = 1 /\ Ready
  /\ pc[c] = "pending" /\ ~ suspended[c] =>
       signalled[c] /\ ~ pending[c] /\ \A t \in Threads : ~ Busy(t, c)
  /\ pc[c] = "done" => continued[c] = 1 /\ ~ suspended[c] /\ Ready

IInv ==
  /\ Types /\ Apart
  /\ \A c \in Waiters : NodeOK(c) /\ WaiterOK(c)
  /\ \A t \in Threads : ThreadOK(t)

-----------------------------------------------------------------------------
(* Sequences without repetition *)

LEMMA Popping ==
  ASSUME NEW R, NEW s \in Seq(R), s # << >>
  PROVE  /\ Head(s) \in R /\ Head(s) \in Elements(s)
         /\ Tail(s) \in Seq(R) /\ Elements(Tail(s)) \subseteq Elements(s)
         /\ Once(s) => Once(Tail(s)) /\ Head(s) \notin Elements(Tail(s))
<1>1. /\ Len(s) \in Nat \ {0} /\ DOMAIN s = 1..Len(s) /\ Head(s) = s[1]
      /\ Tail(s) \in Seq(R) /\ DOMAIN Tail(s) = 1..Len(s)-1
      /\ \A i \in DOMAIN Tail(s) : Tail(s)[i] = s[i+1]
  OBVIOUS
<1>2. Head(s) \in R /\ Head(s) \in Elements(s)
  BY <1>1 DEF Elements
<1>3. Elements(Tail(s)) \subseteq Elements(s)
  BY <1>1 DEF Elements
<1>4. ASSUME Once(s) PROVE Once(Tail(s)) /\ Head(s) \notin Elements(Tail(s))
  BY <1>1, <1>4 DEF Once, Elements
<1>5. QED
  BY <1>1, <1>2, <1>3, <1>4

LEMMA Pushing ==
  ASSUME NEW R, NEW s \in Seq(R), NEW c \in R
  PROVE  /\ Append(s, c) \in Seq(R) /\ Elements(Append(s, c)) = Elements(s) \cup {c}
         /\ Once(s) /\ c \notin Elements(s) => Once(Append(s, c))
<1>1. /\ Len(s) \in Nat /\ DOMAIN s = 1..Len(s) /\ Append(s, c) \in Seq(R)
      /\ DOMAIN Append(s, c) = 1..Len(s)+1 /\ Append(s, c)[Len(s)+1] = c
      /\ \A i \in 1..Len(s) : Append(s, c)[i] = s[i]
  OBVIOUS
<1>2. \A i \in DOMAIN Append(s, c) : i \in DOMAIN s \/ i = Len(s) + 1
  BY <1>1
<1>3. Elements(Append(s, c)) = Elements(s) \cup {c}
  <2>1. Elements(Append(s, c)) \subseteq Elements(s) \cup {c}
    BY <1>1, <1>2 DEF Elements
  <2>2. Elements(s) \subseteq Elements(Append(s, c)) /\ c \in Elements(Append(s, c))
    BY <1>1 DEF Elements
  <2>3. QED
    BY <2>1, <2>2
<1>4. ASSUME Once(s), c \notin Elements(s) PROVE Once(Append(s, c))
  BY <1>1, <1>2, <1>4 DEF Once, Elements
<1>5. QED
  BY <1>1, <1>3, <1>4

LEMMA Rest ==
  ASSUME NEW R, NEW s \in Seq(R), NEW i \in 1..Len(s)
  PROVE  /\ SubSeq(s, i+1, Len(s)) \in Seq(R) /\ Len(SubSeq(s, i+1, Len(s))) = Len(s)-i
         /\ \A k \in 1..Len(s)-i : SubSeq(s, i+1, Len(s))[k] = s[i+k]
<1>1. SubSeq(s, i+1, Len(s)) \in Seq(R) /\ Len(SubSeq(s, i+1, Len(s))) = Len(s)-i
  OBVIOUS
<1>2. \A k \in 1..Len(s)-i : SubSeq(s, i+1, Len(s))[k] = s[i+k]
  OBVIOUS
<1>3. QED
  BY <1>1, <1>2

LEMMA Joined ==
  ASSUME NEW R, NEW a \in Seq(R), NEW b \in Seq(R)
  PROVE  /\ a \o b \in Seq(R) /\ Len(a \o b) = Len(a) + Len(b)
         /\ \A k \in 1..Len(a)+Len(b) : (a \o b)[k] = IF k <= Len(a) THEN a[k] ELSE b[k - Len(a)]
OBVIOUS

LEMMA Skipping ==
  ASSUME NEW R, NEW s \in Seq(R), NEW c, Once(s)
  PROVE  /\ Without(s, c) \in Seq(R) /\ Once(Without(s, c))
         /\ Elements(Without(s, c)) \subseteq Elements(s) \ {c}
<1>1. CASE c \notin Elements(s)
  BY <1>1 DEF Without
<1>2. CASE c \in Elements(s)
  <2> DEFINE i == CHOOSE k \in DOMAIN s : s[k] = c
             o == Without(s, c)
  <2>1. i \in DOMAIN s /\ s[i] = c
    BY <1>2 DEF Elements
  <2>2. o = SubSeq(s, 1, i-1) \o SubSeq(s, i+1, Len(s))
    BY <1>2 DEF Without, RemoveAt
  <2> HIDE DEF i, o
  <2>3. Len(s) \in Nat /\ DOMAIN s = 1..Len(s) /\ i \in 1..Len(s)
    BY <2>1
  <2>4. /\ o \in Seq(R) /\ DOMAIN o = 1..Len(s)-1
        /\ \A k \in DOMAIN o : o[k] = IF k < i THEN s[k] ELSE s[k+1]
    <3> DEFINE front == SubSeq(s, 1, i-1)
               back == SubSeq(s, i+1, Len(s))
    <3>1. front \in Seq(R) /\ Len(front) = i-1
      BY <2>3
    <3>2. \A k \in 1..i-1 : front[k] = s[k]
      BY <2>3
    <3>3. back \in Seq(R) /\ Len(back) = Len(s)-i /\ \A k \in 1..Len(s)-i : back[k] = s[i+k]
      BY <2>3, Rest
    <3>5. o = front \o back
      BY <2>2
    <3> HIDE DEF front, back
    <3>6. /\ o \in Seq(R) /\ Len(o) = Len(front) + Len(back)
          /\ \A k \in 1..Len(front)+Len(back) :
               o[k] = IF k <= Len(front) THEN front[k] ELSE back[k - Len(front)]
      BY <3>1, <3>3, <3>5, Joined
    <3>7. Len(o) = Len(s)-1 /\ Len(front) + Len(back) = Len(s)-1
      BY <2>3, <3>1, <3>3, <3>6
    <3>8. ASSUME NEW k \in 1..Len(s)-1 PROVE o[k] = IF k < i THEN s[k] ELSE s[k+1]
      <4>1. CASE k < i
        BY <2>3, <3>1, <3>2, <3>6, <3>7, <4>1
      <4>2. CASE ~ k < i
        <5>1. k - (i-1) \in 1..Len(s)-i /\ i + (k - (i-1)) = k + 1
          BY <2>3, <4>2
        <5>2. back[k - (i-1)] = s[k+1]
          BY <3>3, <5>1
        <5>3. QED
          BY <2>3, <3>1, <3>6, <3>7, <4>2, <5>2
      <4>3. QED
        BY <4>1, <4>2
    <3>9. QED
      <4>1. DOMAIN o = 1..Len(o)
        BY <3>6
      <4>2. QED
        BY <3>6, <3>7, <3>8, <4>1
  <2>5. Once(o)
    BY <2>3, <2>4 DEF Once
  <2>6. \A k \in DOMAIN o : o[k] \in Elements(s) /\ o[k] # c
    BY <2>1, <2>3, <2>4 DEF Once, Elements
  <2>7. Elements(o) \subseteq Elements(s) \ {c}
    BY <2>6 DEF Elements
  <2>8. QED
    BY <2>4, <2>5, <2>7 DEF o
<1>3. QED
  BY <1>1, <1>2

-----------------------------------------------------------------------------
(* What happens to the lists *)

LEMMA OneOfThem == Waiters \subseteq Threads /\ Completers \subseteq Threads
                   /\ \A c \in Waiters : c \notin Completers
BY WaitAssumption DEF Threads

LEMMA HeadsDiffer ==
  ASSUME Types, Apart, NEW t \in Threads, NEW u \in Threads, t # u,
         todo[t] # << >>, todo[u] # << >>
  PROVE  Head(todo[t]) # Head(todo[u])
<1>1. Head(todo[t]) \in Elements(todo[t]) /\ Head(todo[u]) \in Elements(todo[u])
  BY Popping DEF Types
<1>2. QED
  BY <1>1 DEF Apart

LEMMA Popped ==
  ASSUME Types, Apart, NEW t \in Threads, todo[t] # << >>,
         todo' = [todo EXCEPT ![t] = Tail(@)], list' = list
  PROVE  /\ todo' \in [Threads -> Seq(Waiters)] /\ Apart' /\ Head(todo[t]) \in Waiters
         /\ \A u \in Threads : Elements(todo'[u]) \subseteq Elements(todo[u])
         /\ \A u \in Threads : u # t => todo'[u] = todo[u]
<1>1. /\ Tail(todo[t]) \in Seq(Waiters) /\ Head(todo[t]) \in Waiters
      /\ Elements(Tail(todo[t])) \subseteq Elements(todo[t])
      /\ Once(Tail(todo[t]))
  BY Popping DEF Types, Apart
<1>2. todo'[t] = Tail(todo[t]) /\ \A u \in Threads : u # t => todo'[u] = todo[u]
  BY DEF Types
<1>3. todo' \in [Threads -> Seq(Waiters)]
  BY <1>1 DEF Types
<1>4. \A u \in Threads : Elements(todo'[u]) \subseteq Elements(todo[u]) /\ Once(todo'[u])
  BY <1>1, <1>2 DEF Apart
<1>5. Apart'
  BY <1>4 DEF Apart
<1>6. QED
  BY <1>1, <1>2, <1>3, <1>4, <1>5

LEMMA Drained ==
  ASSUME Types, Apart, NEW t \in Threads, NEW c, todo[t] = << >>, Drain(t, c)
  PROVE  /\ todo' \in [Threads -> Seq(Waiters)] /\ list' \in Seq(Waiters) /\ Apart'
         /\ list' = << >> /\ \A u \in Threads : u # t => todo'[u] = todo[u]
         /\ Elements(todo'[t]) \subseteq Elements(list)
<1>1. /\ Without(list, c) \in Seq(Waiters) /\ Once(Without(list, c))
      /\ Elements(Without(list, c)) \subseteq Elements(list)
  BY Skipping DEF Types, Apart
<1>2. todo'[t] = Without(list, c) /\ \A u \in Threads : u # t => todo'[u] = todo[u]
  BY DEF Types, Drain
<1>3. todo' \in [Threads -> Seq(Waiters)]
  BY <1>1 DEF Types, Drain
<1>4. Elements(list') = {} /\ Once(list') /\ list' \in Seq(Waiters)
  BY DEF Drain, Elements, Once
<1>5. Apart'
  BY <1>1, <1>2, <1>4 DEF Apart
<1>6. QED
  BY <1>1, <1>2, <1>3, <1>4, <1>5 DEF Drain

-----------------------------------------------------------------------------
(* The steps of a thread that wakes *)

LEMMA WakeNodeStep ==
  ASSUME IInv, NEW t \in Threads, WakeNode(t)
  PROVE  IInv'
<1>0. PICK c \in Waiters : c = Head(todo[t])
  BY Popping DEF IInv, WakeNode, Types
<1>1. /\ Types /\ Apart /\ todo[t] # << >> /\ waking[t] = "node" /\ c = Head(todo[t])
      /\ c \in Elements(todo[t]) /\ UNCHANGED <<count, list, armed, suspended, pending, pc, continued>>
  BY <1>0, Popping DEF IInv, WakeNode, Types
<1>2. CASE signalled[c]
  <2>1. todo' = [todo EXCEPT ![t] = Tail(@)] /\ UNCHANGED <<signalled, waking>>
    BY <1>1, <1>2 DEF WakeNode
  <2>2. /\ todo' \in [Threads -> Seq(Waiters)] /\ Apart'
        /\ \A u \in Threads : Elements(todo'[u]) \subseteq Elements(todo[u])
        /\ \A u \in Threads : u # t => todo'[u] = todo[u]
    BY <1>1, <2>1, Popped
  <2>3. Types'
    BY <1>1, <2>1, <2>2 DEF Types
  <2>4. \A u \in Threads, d \in Waiters : Busy(u, d)' => Busy(u, d)
    BY <1>1, <2>1, <2>2 DEF Busy
  <2>5. ASSUME NEW d \in Waiters PROVE NodeOK(d)' /\ WaiterOK(d)'
    <3>1. NodeOK(d)'
      BY <1>1, <2>1, <2>2 DEF NodeOK, IInv
    <3>2. WaiterOK(d)'
      BY <1>1, <2>1, <2>4 DEF WaiterOK, IInv, Ready
    <3>3. QED
      BY <3>1, <3>2
  <2>6. ASSUME NEW u \in Threads PROVE ThreadOK(u)'
    BY <1>1, <2>1, <2>2 DEF ThreadOK, IInv, Ready
  <2>7. QED
    BY <2>2, <2>3, <2>5, <2>6 DEF IInv
<1>3. CASE ~ signalled[c]
  <2>1. /\ signalled' = [signalled EXCEPT ![c] = TRUE]
        /\ waking' = [waking EXCEPT ![t] = "exchange"] /\ todo' = todo
    BY <1>1, <1>3 DEF WakeNode
  <2>2. Types' /\ Apart'
    BY <1>1, <2>1 DEF Types, Apart
  <2>3. signalled'[c] /\ \A d \in Waiters : d # c => signalled'[d] = signalled[d]
    BY <1>1, <2>1 DEF Types
  <2>4. waking'[t] = "exchange" /\ \A u \in Threads : u # t => waking'[u] = waking[u]
    BY <1>1, <2>1 DEF Types
  <2>5. ASSUME NEW d \in Waiters PROVE NodeOK(d)' /\ WaiterOK(d)'
    <3>1. NodeOK(d)'
      BY <1>1, <2>1, <2>3 DEF NodeOK, IInv
    <3>2. CASE d = c
      BY <1>1, <1>3, <2>1, <2>3, <3>1, <3>2 DEF WaiterOK, IInv, Ready
    <3>3. CASE d # c
      <4>1. \A u \in Threads : Busy(u, d)' => Busy(u, d)
        BY <1>1, <2>1, <2>4, <3>3 DEF Busy
      <4>2. QED
        BY <1>1, <2>1, <2>3, <3>1, <3>3, <4>1 DEF WaiterOK, IInv, Ready
    <3>4. QED
      BY <3>1, <3>2, <3>3
  <2>6. ASSUME NEW u \in Threads PROVE ThreadOK(u)'
    <3>1. \A d \in Waiters : signalled[d] => signalled'[d]
      BY <2>3
    <3>2. todo[u] # << >> => Head(todo[u]) \in Waiters
      BY <1>1, Popping DEF Types
    <3>3. QED
      BY <1>1, <2>1, <2>3, <2>4, <3>1, <3>2 DEF ThreadOK, IInv, Ready
  <2>7. QED
    BY <2>2, <2>5, <2>6 DEF IInv
<1>4. QED
  BY <1>2, <1>3

LEMMA WakeResumeStep ==
  ASSUME IInv, NEW t \in Threads, WakeResume(t)
  PROVE  IInv'
<1>0. PICK c \in Waiters : c = Head(todo[t])
  BY Popping DEF IInv, WakeResume, ThreadOK, Types
<1>1. /\ c = Head(todo[t]) /\ Types /\ Apart /\ todo[t] # << >> /\ Ready /\ waking[t] # "node" /\ signalled[c]
      /\ UNCHANGED <<count, list, signalled, armed, pending, pc>>
      /\ suspended' = [suspended EXCEPT ![c] = FALSE] /\ suspended[c]
      /\ todo' = [todo EXCEPT ![t] = Tail(@)] /\ waking' = [waking EXCEPT ![t] = "node"]
  BY <1>0 DEF IInv, WakeResume, Woken, ThreadOK
<1>2. /\ todo' \in [Threads -> Seq(Waiters)] /\ Apart'
      /\ \A u \in Threads : Elements(todo'[u]) \subseteq Elements(todo[u])
      /\ \A u \in Threads : u # t => todo'[u] = todo[u]
  BY <1>1, Popped
<1>3. WaiterOK(c) /\ pc[c] \in {"pending", "asleep"} /\ armed[c] /\ continued[c] = 0
  <2>1. WaiterOK(c)
    BY DEF IInv
  <2>2. pc[c] \in AtWait \cup {"done"}
    BY <1>1, OneOfThem DEF Types
  <2>3. pc[c] \in {"pending", "asleep"}
    BY <1>1, <2>1, <2>2 DEF WaiterOK, AtWait
  <2>4. QED
    BY <1>1, <2>1, <2>3 DEF WaiterOK
<1>4. continued' = [continued EXCEPT ![c] = @ + 1]
  BY <1>1, <1>3 DEF WakeResume, Continue
<1>5. waking'[t] = "node" /\ \A u \in Threads : u # t => waking'[u] = waking[u]
  BY <1>1 DEF Types
<1>6. \A u \in Threads, d \in Waiters : Busy(u, d)' => u # t /\ Busy(u, d)
  BY <1>2, <1>5 DEF Busy
<1>7. \A u \in Threads : ~ Busy(u, c)'
  <2>1. ASSUME NEW u \in Threads, Busy(u, c), u # t PROVE FALSE
    <3>1. todo[u] # << >> /\ Head(todo[u]) = Head(todo[t])
      BY <1>1, <2>1 DEF IInv, ThreadOK, Busy
    <3>2. QED
      BY <1>1, <2>1, <3>1, HeadsDiffer
  <2>2. QED
    BY <1>2, <1>6, <2>1
<1>8. Types'
  BY <1>1, <1>2, <1>3, <1>4 DEF Types
<1>9. /\ ~ suspended'[c] /\ continued'[c] = 1
      /\ \A d \in Waiters : d # c => suspended'[d] = suspended[d] /\ continued'[d] = continued[d]
  BY <1>1, <1>2, <1>3, <1>4 DEF Types
<1>10. ASSUME NEW d \in Waiters PROVE NodeOK(d)' /\ WaiterOK(d)'
  <2>1. NodeOK(d)'
    BY <1>1, <1>2 DEF NodeOK, IInv
  <2>2. CASE d = c
    <3>1. pc[c] = "pending" => ~ pending[c]
      BY <1>1, <1>2, <1>3 DEF WaiterOK, Busy
    <3>2. QED
      BY <1>1, <1>3, <1>7, <1>9, <2>1, <2>2, <3>1 DEF WaiterOK, Ready, Early
  <2>3. CASE d # c
    BY <1>1, <1>6, <1>9, <2>1, <2>3 DEF WaiterOK, IInv, Ready
  <2>4. QED
    BY <2>1, <2>2, <2>3
<1>11. ASSUME NEW u \in Threads PROVE ThreadOK(u)'
  BY <1>1, <1>2, <1>5 DEF ThreadOK, IInv, Ready
<1>12. QED
  BY <1>2, <1>8, <1>10, <1>11 DEF IInv

LEMMA WakeTooEarlyStep ==
  ASSUME IInv, NEW t \in Threads, WakeTooEarly(t)
  PROVE  IInv'
<1>1. /\ Types /\ Apart /\ waking[t] = "exchange" /\ waking' = [waking EXCEPT ![t] = "pending"]
      /\ UNCHANGED <<count, list, signalled, armed, suspended, pending, pc, todo, continued>>
  BY DEF IInv, WakeTooEarly
<1>2. waking'[t] = "pending" /\ \A u \in Threads : u # t => waking'[u] = waking[u]
  BY <1>1 DEF Types
<1>3. \A u \in Threads, d \in Waiters : Busy(u, d)' => Busy(u, d)
  BY <1>1, <1>2 DEF Busy
<1>4. Types' /\ Apart'
  BY <1>1 DEF Types, Apart
<1>5. ASSUME NEW d \in Waiters PROVE NodeOK(d)' /\ WaiterOK(d)'
  BY <1>1, <1>3 DEF NodeOK, WaiterOK, IInv, Ready
<1>6. ASSUME NEW u \in Threads PROVE ThreadOK(u)'
  BY <1>1, <1>2 DEF ThreadOK, IInv, Ready
<1>7. QED
  BY <1>4, <1>5, <1>6 DEF IInv

LEMMA WakePendingStep ==
  ASSUME IInv, NEW t \in Threads, WakePending(t)
  PROVE  IInv'
<1>0. PICK c \in Waiters : c = Head(todo[t])
  BY Popping DEF IInv, WakePending, ThreadOK, Types
<1>1. /\ c = Head(todo[t]) /\ Types /\ Apart /\ todo[t] # << >> /\ Ready /\ waking[t] # "node" /\ signalled[c]
      /\ UNCHANGED <<count, list, signalled, armed, suspended, pc, continued>>
      /\ pending' = [pending EXCEPT ![c] = TRUE]
      /\ todo' = [todo EXCEPT ![t] = Tail(@)] /\ waking' = [waking EXCEPT ![t] = "node"]
  BY <1>0 DEF IInv, WakePending, Woken, ThreadOK
<1>2. /\ todo' \in [Threads -> Seq(Waiters)] /\ Apart'
      /\ \A u \in Threads : Elements(todo'[u]) \subseteq Elements(todo[u])
      /\ \A u \in Threads : u # t => todo'[u] = todo[u]
  BY <1>1, Popped
<1>3. waking'[t] = "node" /\ \A u \in Threads : u # t => waking'[u] = waking[u]
  BY <1>1 DEF Types
<1>4. \A u \in Threads, d \in Waiters : Busy(u, d)' => u # t /\ Busy(u, d)
  BY <1>2, <1>3 DEF Busy
<1>5. \A u \in Threads : ~ Busy(u, c)'
  <2>1. ASSUME NEW u \in Threads, Busy(u, c), u # t PROVE FALSE
    <3>1. todo[u] # << >> /\ Head(todo[u]) = Head(todo[t])
      BY <1>1, <2>1 DEF IInv, ThreadOK, Busy
    <3>2. QED
      BY <1>1, <2>1, <3>1, HeadsDiffer
  <2>2. QED
    BY <1>2, <1>4, <2>1
<1>6. Types'
  BY <1>1, <1>2 DEF Types
<1>7. \A d \in Waiters : d # c => pending'[d] = pending[d]
  BY <1>1, <1>2 DEF Types
<1>8. ASSUME NEW d \in Waiters PROVE NodeOK(d)' /\ WaiterOK(d)'
  <2>1. NodeOK(d)'
    BY <1>1, <1>2 DEF NodeOK, IInv
  <2>2. CASE d = c
    <3>1. ~ (pc[c] = "pending" /\ ~ suspended[c])
      BY <1>1, <1>2 DEF WaiterOK, IInv, Busy
    <3>2. QED
      BY <1>1, <1>5, <2>1, <2>2, <3>1 DEF WaiterOK, IInv, Ready
  <2>3. CASE d # c
    BY <1>1, <1>4, <1>7, <2>1, <2>3 DEF WaiterOK, IInv, Ready
  <2>4. QED
    BY <2>1, <2>2, <2>3
<1>9. ASSUME NEW u \in Threads PROVE ThreadOK(u)'
  BY <1>1, <1>2, <1>3 DEF ThreadOK, IInv, Ready
<1>10. QED
  BY <1>2, <1>6, <1>8, <1>9 DEF IInv

-----------------------------------------------------------------------------
(* The steps of a thread that completes *)

LEMMA CompleteStep ==
  ASSUME IInv, NEW s \in Completers, Complete(s)
  PROVE  IInv'
<1> DEFINE to == IF count = 1 THEN "drain" ELSE "done"
<1>1. /\ Types /\ Apart /\ s \in Threads /\ s \notin Waiters /\ ~ Ready /\ pc[s] = "complete"
      /\ pc' = [pc EXCEPT ![s] = to] /\ count' = count - 1 /\ count \in 1..Units
      /\ UNCHANGED <<list, signalled, armed, suspended, pending, todo, waking, continued>>
  BY OneOfThem, WaitAssumption DEF IInv, Complete, Goto, Types, Ready
<1>2. pc'[s] = to /\ \A u \in Threads : u # s => pc'[u] = pc[u]
  BY <1>1 DEF Types
<1>3. Types'
  <2>1. count' \in 0..Units /\ pc' \in [Threads -> AtWait \cup AtComplete \cup {"done"}]
    BY <1>1, WaitAssumption DEF Types, AtComplete
  <2>2. \A c \in Waiters : pc'[c] \notin AtComplete
    BY <1>1, <1>2, OneOfThem DEF Types
  <2>3. \A u \in Completers : pc'[u] \notin AtWait
    BY <1>1, <1>2, OneOfThem DEF Types, AtWait, Early
  <2>4. QED
    BY <1>1, <2>1, <2>2, <2>3 DEF Types
<1>4. Apart'
  BY <1>1 DEF Apart
<1>5. ASSUME NEW c \in Waiters PROVE NodeOK(c)' /\ WaiterOK(c)'
  <2>1. pc'[c] = pc[c] /\ \A t \in Threads : Busy(t, c)' <=> Busy(t, c)
    BY <1>1, <1>2, OneOfThem DEF Busy
  <2>2. QED
    BY <1>1, <2>1 DEF NodeOK, WaiterOK, IInv, Ready
<1>6. ASSUME NEW t \in Threads PROVE ThreadOK(t)'
  <2>1. CASE t = s
    BY <1>1, <1>2, <2>1 DEF ThreadOK, IInv, Ready
  <2>2. CASE t # s
    BY <1>1, <1>2, <2>2 DEF ThreadOK, IInv, Ready
  <2>3. QED
    BY <2>1, <2>2
<1>7. QED
  BY <1>3, <1>4, <1>5, <1>6 DEF IInv

(* A list drained of a ready counter is in the hands of who has drained it.*)
LEMMA DrainStep ==
  ASSUME IInv, NEW t \in Threads, NEW to, Ready, Drain(t, t),
         \/ t \in Completers /\ pc[t] = "drain" /\ to = "done"
         \/ t \in Waiters /\ pc[t] = "recheck" /\ to = "refused",
         pc' = [pc EXCEPT ![t] = to],
         UNCHANGED <<count, signalled, armed, suspended, pending, waking, continued>>
  PROVE  IInv'
<1>1. Types /\ Apart /\ todo[t] = << >> /\ waking[t] = "node"
  BY DEF IInv, ThreadOK, Types
<1>2. /\ todo' \in [Threads -> Seq(Waiters)] /\ list' \in Seq(Waiters) /\ Apart'
      /\ list' = << >> /\ \A u \in Threads : u # t => todo'[u] = todo[u]
      /\ Elements(todo'[t]) \subseteq Elements(list)
  BY <1>1, Drained
<1>3. pc'[t] = to /\ \A u \in Threads : u # t => pc'[u] = pc[u]
  BY <1>1 DEF Types
<1>4. Types'
  <2>1. pc' \in [Threads -> AtWait \cup AtComplete \cup {"done"}]
    BY <1>1 DEF Types, AtWait
  <2>2. \A c \in Waiters : pc'[c] \notin AtComplete
    BY <1>1, <1>3, OneOfThem DEF Types, AtComplete
  <2>3. \A u \in Completers : pc'[u] \notin AtWait
    BY <1>1, <1>3, OneOfThem DEF Types, AtWait, Early
  <2>4. QED
    BY <1>1, <1>2, <2>1, <2>2, <2>3 DEF Types
<1>5. ASSUME NEW c \in Waiters PROVE NodeOK(c)' /\ WaiterOK(c)'
  <2>1. \A u \in Threads : Busy(u, c)' => Busy(u, c)
    BY <1>1, <1>2 DEF Busy
  <2>2. Elements(list') = {}
    BY <1>2 DEF Elements
  <2>3. NodeOK(c)'
    <3>1. SUFFICES ASSUME pc'[c] \in Early
                   PROVE  /\ ~ signalled[c] /\ \A u \in Threads : c \notin Elements(todo'[u])
      BY <2>2 DEF NodeOK
    <3>2. pc[c] \in Early
      BY <1>3, <3>1 DEF Early, Threads
    <3>3. ~ signalled[c] /\ c \notin Elements(list) /\ \A u \in Threads : c \notin Elements(todo[u])
      BY <3>2 DEF NodeOK, IInv
    <3>4. QED
      BY <1>2, <3>3
  <2>4. WaiterOK(c)'
    <3>1. CASE c = t
      BY <1>3, <2>1, <3>1, OneOfThem DEF WaiterOK, IInv, Ready, Early
    <3>2. CASE c # t
      BY <1>3, <2>1, <3>2, OneOfThem DEF WaiterOK, IInv, Ready
    <3>3. QED
      BY <3>1, <3>2
  <2>5. QED
    BY <2>3, <2>4
<1>6. ASSUME NEW u \in Threads PROVE ThreadOK(u)'
  <2>1. CASE u = t
    BY <1>1, <1>3, <2>1 DEF ThreadOK, Ready
  <2>2. CASE u # t
    BY <1>2, <1>3, <2>2 DEF ThreadOK, IInv, Ready
  <2>3. QED
    BY <2>1, <2>2
<1>7. QED
  BY <1>2, <1>4, <1>5, <1>6 DEF IInv

-----------------------------------------------------------------------------
(* The steps of a waiter *)

LEMMA AttachPushStep ==
  ASSUME IInv, NEW c \in Waiters, AttachPush(c)
  PROVE  IInv'
<1>1. /\ Types /\ Apart /\ c \in Threads /\ pc[c] = "push" /\ pc' = [pc EXCEPT ![c] = "recheck"]
      /\ list' = Append(list, c)
      /\ UNCHANGED <<count, signalled, armed, suspended, pending, todo, waking, continued>>
  BY OneOfThem DEF IInv, AttachPush, Goto
<1>2. pc'[c] = "recheck" /\ \A u \in Threads : u # c => pc'[u] = pc[u]
  BY <1>1 DEF Types
<1>3. c \notin Elements(list) /\ \A t \in Threads : c \notin Elements(todo[t])
  BY <1>1 DEF IInv, NodeOK, Early
<1>4. list' \in Seq(Waiters) /\ Elements(list') = Elements(list) \cup {c} /\ Once(list')
  BY <1>1, <1>3, Pushing DEF Types, Apart
<1>5. Types'
  <2>1. pc' \in [Threads -> AtWait \cup AtComplete \cup {"done"}]
    BY <1>1 DEF Types, AtWait
  <2>2. \A d \in Waiters : pc'[d] \notin AtComplete
    BY <1>1, <1>2, OneOfThem DEF Types, AtComplete
  <2>3. \A u \in Completers : pc'[u] \notin AtWait
    BY <1>1, <1>2, OneOfThem DEF Types
  <2>4. QED
    BY <1>1, <1>4, <2>1, <2>2, <2>3 DEF Types
<1>6. Apart'
  BY <1>1, <1>3, <1>4 DEF Apart
<1>7. ASSUME NEW d \in Waiters PROVE NodeOK(d)' /\ WaiterOK(d)'
  <2>1. \A u \in Threads : Busy(u, d)' <=> Busy(u, d)
    BY <1>1 DEF Busy
  <2>2. CASE d = c
    BY <1>1, <1>2, <2>1, <2>2 DEF NodeOK, WaiterOK, IInv, Ready, Early
  <2>3. CASE d # c
    BY <1>1, <1>2, <1>4, <2>1, <2>3, OneOfThem DEF NodeOK, WaiterOK, IInv, Ready
  <2>4. QED
    BY <2>2, <2>3
<1>8. ASSUME NEW u \in Threads PROVE ThreadOK(u)'
  BY <1>1, <1>2 DEF ThreadOK, IInv, Ready
<1>9. QED
  BY <1>4, <1>5, <1>6, <1>7, <1>8 DEF IInv

(* The other steps of a waiter concern its own record and no list.         *)
OwnSteps(c) ==
  \/ AwaitReady(c) \/ AwaitArm(c) \/ AttachCheck(c) \/ AttachAccept(c) \/ AwaitRefused(c)
  \/ AwaitSuspend(c) \/ AwaitPending(c) \/ AwaitAsleep(c)

LEMMA OwnStep ==
  ASSUME IInv, NEW c \in Waiters, OwnSteps(c)
  PROVE  IInv'
<1>1. Types /\ Apart /\ c \in Threads /\ WaiterOK(c) /\ NodeOK(c) /\ ThreadOK(c)
  BY OneOfThem DEF IInv
<1>2. UNCHANGED <<count, list, signalled, todo, waking>>
  BY DEF OwnSteps, AwaitReady, AwaitArm, AttachCheck, AttachAccept, AwaitRefused,
         AwaitSuspend, AwaitPending, AwaitAsleep
<1>3. PICK to \in {"attach", "push", "suspend", "pending", "asleep", "done"} :
        /\ pc' = [pc EXCEPT ![c] = to]
        /\ to \in {"attach", "push"} => pc[c] \in Early
        /\ pc[c] = "refused" => todo[c] = << >>
        /\ pc[c] # "done"
  BY DEF OwnSteps, AwaitReady, AwaitArm, AttachCheck, AttachAccept, AwaitRefused,
         AwaitSuspend, AwaitPending, AwaitAsleep, Goto, Early
<1>4. pc'[c] = to /\ \A u \in Threads : u # c => pc'[u] = pc[u]
  BY <1>1, <1>3 DEF Types
<1>5. /\ armed' \in [Waiters -> BOOLEAN] /\ suspended' \in [Waiters -> BOOLEAN]
      /\ pending' \in [Waiters -> BOOLEAN] /\ continued' \in [Waiters -> Nat]
      /\ \A d \in Waiters : d # c =>
           /\ armed'[d] = armed[d] /\ suspended'[d] = suspended[d]
           /\ pending'[d] = pending[d] /\ continued'[d] = continued[d]
  <2>1. /\ armed' = armed \/ \E v \in BOOLEAN : armed' = [armed EXCEPT ![c] = v]
        /\ suspended' = suspended \/ \E v \in BOOLEAN : suspended' = [suspended EXCEPT ![c] = v]
        /\ pending' = pending \/ pending' = [pending EXCEPT ![c] = FALSE]
        /\ continued' = continued \/ continued' = [continued EXCEPT ![c] = @ + 1]
    BY DEF OwnSteps, AwaitReady, AwaitArm, AttachCheck, AttachAccept, AwaitRefused,
           AwaitSuspend, AwaitPending, AwaitAsleep, Continue
  <2>2. /\ armed' \in [Waiters -> BOOLEAN]
        /\ \A d \in Waiters : d # c => armed'[d] = armed[d]
    BY <1>1, <2>1 DEF Types
  <2>3. /\ suspended' \in [Waiters -> BOOLEAN]
        /\ \A d \in Waiters : d # c => suspended'[d] = suspended[d]
    BY <1>1, <2>1 DEF Types
  <2>4. /\ pending' \in [Waiters -> BOOLEAN]
        /\ \A d \in Waiters : d # c => pending'[d] = pending[d]
    BY <1>1, <2>1 DEF Types
  <2>5. /\ continued' \in [Waiters -> Nat]
        /\ \A d \in Waiters : d # c => continued'[d] = continued[d]
    <3>1. continued \in [Waiters -> Nat] /\ continued[c] + 1 \in Nat
      BY <1>1 DEF Types
    <3>2. QED
      BY <2>1, <3>1
  <2>6. QED
    BY <2>2, <2>3, <2>4, <2>5
<1>6. Types'
  <2>1. pc' \in [Threads -> AtWait \cup AtComplete \cup {"done"}]
    BY <1>1, <1>3 DEF Types, AtWait, Early
  <2>2. \A d \in Waiters : pc'[d] \notin AtComplete
    BY <1>1, <1>4, OneOfThem DEF Types, AtComplete
  <2>3. \A u \in Completers : pc'[u] \notin AtWait
    BY <1>1, <1>4, OneOfThem DEF Types
  <2>4. QED
    BY <1>1, <1>2, <1>5, <2>1, <2>2, <2>3 DEF Types
<1>7. Apart'
  BY <1>1, <1>2 DEF Apart
<1>8. \A u \in Threads, d \in Waiters : Busy(u, d)' <=> Busy(u, d)
  BY <1>2 DEF Busy
<1>9. NodeOK(c)'
  BY <1>1, <1>2, <1>3, <1>4 DEF NodeOK, Early
<1>10. WaiterOK(c)'
  <2>1. \A u \in Threads : Busy(u, c)' <=> Busy(u, c)
    BY <1>8
  <2>2. CASE AwaitReady(c)
    <3>1. /\ pc[c] \in {"await", "attach"} /\ to = "done" /\ Ready
          /\ continued'[c] = continued[c] + 1 /\ UNCHANGED <<suspended, pending>>
      BY <1>1, <1>4, <2>2 DEF AwaitReady, Goto, Continue, Types
    <3>2. QED
      BY <1>1, <1>2, <1>4, <2>1, <3>1 DEF WaiterOK, Early, Ready, Types
  <2>3. CASE AwaitArm(c)
    <3>1. /\ pc[c] = "await" /\ to = "attach" /\ armed'[c] /\ ~ pending'[c]
          /\ UNCHANGED <<suspended, continued>>
      BY <1>1, <1>4, <2>3 DEF AwaitArm, Goto, Types
    <3>2. QED
      BY <1>1, <1>2, <1>4, <2>1, <3>1 DEF WaiterOK, Early, Ready, Types
  <2>4. CASE AttachCheck(c)
    <3>1. /\ pc[c] = "attach" /\ to = "push" /\ UNCHANGED <<armed, pending, suspended, continued>>
      BY <1>1, <1>4, <2>4 DEF AttachCheck, Goto, Types
    <3>2. QED
      BY <1>1, <1>2, <1>4, <2>1, <3>1 DEF WaiterOK, Early, Ready, Types
  <2>5. CASE AttachAccept(c)
    <3>1. /\ pc[c] = "recheck" /\ to = "suspend" /\ UNCHANGED <<armed, pending, suspended, continued>>
      BY <1>1, <1>4, <2>5 DEF AttachAccept, Goto, Types
    <3>2. QED
      BY <1>1, <1>2, <1>4, <2>1, <3>1 DEF WaiterOK, Early, Ready, Types
  <2>6. CASE AwaitRefused(c)
    <3>1. /\ pc[c] = "refused" /\ to = "done" /\ Ready
          /\ continued'[c] = continued[c] + 1 /\ UNCHANGED <<suspended, pending>>
      BY <1>1, <1>4, <2>6 DEF AwaitRefused, Goto, Continue, Types, ThreadOK
    <3>2. QED
      BY <1>1, <1>2, <1>4, <2>1, <3>1 DEF WaiterOK, Early, Ready, Types
  <2>7. CASE AwaitSuspend(c)
    <3>1. /\ pc[c] = "suspend" /\ to = "pending" /\ suspended'[c]
          /\ UNCHANGED <<armed, pending, continued>>
      BY <1>1, <1>4, <2>7 DEF AwaitSuspend, Goto, Types
    <3>2. QED
      BY <1>1, <1>2, <1>4, <2>1, <3>1 DEF WaiterOK, Early, Ready, Types
  <2>8. CASE AwaitPending(c)
    <3>1. /\ pc[c] = "pending" /\ to = "done" /\ pending[c] /\ ~ suspended'[c]
          /\ continued'[c] = continued[c] + 1 /\ UNCHANGED pending
      BY <1>1, <1>4, <2>8 DEF AwaitPending, Goto, Continue, Types
    <3>2. QED
      BY <1>1, <1>2, <1>4, <2>1, <3>1 DEF WaiterOK, Early, Ready, Types
  <2>9. CASE AwaitAsleep(c)
    <3>1. /\ pc[c] = "pending" /\ to = "asleep" /\ UNCHANGED <<armed, pending, suspended, continued>>
      BY <1>1, <1>4, <2>9 DEF AwaitAsleep, Goto, Types
    <3>2. QED
      BY <1>1, <1>2, <1>4, <2>1, <3>1 DEF WaiterOK, Early, Ready, Types
  <2>10. QED
    BY <2>2, <2>3, <2>4, <2>5, <2>6, <2>7, <2>8, <2>9 DEF OwnSteps
<1>11. ASSUME NEW d \in Waiters, d # c PROVE NodeOK(d)' /\ WaiterOK(d)'
  BY <1>2, <1>4, <1>5, <1>8, <1>11, OneOfThem DEF NodeOK, WaiterOK, IInv, Ready
<1>12. ASSUME NEW u \in Threads PROVE ThreadOK(u)'
  <2>1. CASE u = c
    BY <1>1, <1>2, <1>3, <1>4, <2>1 DEF ThreadOK, Ready
  <2>2. CASE u # c
    BY <1>2, <1>4, <2>2 DEF ThreadOK, IInv, Ready
  <2>3. QED
    BY <2>1, <2>2
<1>13. QED
  BY <1>6, <1>7, <1>9, <1>10, <1>11, <1>12 DEF IInv

-----------------------------------------------------------------------------
(* The theorems *)

LEMMA InitIInv == Init => IInv
<1> SUFFICES ASSUME Init PROVE IInv
  OBVIOUS
<1>1. Types
  BY OneOfThem, WaitAssumption DEF Init, Types, Threads, AtWait, AtComplete, Early
<1>2. Elements(list) = {} /\ Once(list)
  BY DEF Init, Elements, Once
<1>3. \A t \in Threads : todo[t] = << >> /\ Elements(todo[t]) = {} /\ Once(todo[t])
  BY DEF Init, Elements, Once
<1>4. Apart
  BY <1>2, <1>3 DEF Apart
<1>5. ASSUME NEW c \in Waiters PROVE NodeOK(c) /\ WaiterOK(c)
  BY <1>2, <1>3, OneOfThem DEF Init, NodeOK, WaiterOK
<1>6. ASSUME NEW t \in Threads PROVE ThreadOK(t)
  BY <1>3 DEF Init, ThreadOK
<1>7. QED
  BY <1>1, <1>4, <1>5, <1>6 DEF IInv

LEMMA StepIInv == IInv /\ [Next]_vars => IInv'
<1> SUFFICES ASSUME IInv, [Next]_vars PROVE IInv'
  OBVIOUS
<1>1. ASSUME NEW t \in Threads, Wake(t) PROVE IInv'
  BY <1>1, WakeNodeStep, WakeResumeStep, WakeTooEarlyStep, WakePendingStep DEF Wake
<1>2. ASSUME NEW s \in Completers, Complete(s) PROVE IInv'
  BY <1>2, CompleteStep
<1>3. ASSUME NEW s \in Completers, CompleteDrain(s) PROVE IInv'
  <2>1. Ready
    BY <1>3, OneOfThem DEF IInv, ThreadOK, CompleteDrain, Goto
  <2>2. QED
    BY <1>3, <2>1, OneOfThem, DrainStep DEF CompleteDrain, Goto
<1>4. ASSUME NEW c \in Waiters, Await(c) PROVE IInv'
  <2>1. CASE OwnSteps(c)
    BY <2>1, OwnStep
  <2>2. CASE AttachPush(c)
    BY <2>2, AttachPushStep
  <2>3. CASE AttachRefuse(c)
    BY <2>3, OneOfThem, DrainStep DEF AttachRefuse, Goto
  <2>4. QED
    BY <1>4, <2>1, <2>2, <2>3 DEF Await, OwnSteps
<1>5. CASE UNCHANGED vars
  BY <1>5 DEF vars, IInv, Types, Apart, NodeOK, WaiterOK, ThreadOK, Busy, Ready
<1>6. QED
  BY <1>1, <1>2, <1>3, <1>4, <1>5 DEF Next

(* The invariant holds: what is recorded of lists, nodes and coroutines    *)
(* fits together, however the threads cross.                               *)
THEOREM InductiveInvariant == Spec => []IInv
<1>1. QED
  BY InitIInv, StepIInv, PTL DEF Spec

LEMMA AtMostOne ==
  ASSUME NEW R, \A x, y \in R : x = y
  PROVE  Cardinality(R) \in 0..1 /\ (R = {} => Cardinality(R) = 0)
<1>1. CASE R = {}
  BY <1>1, FS_EmptySet
<1>2. CASE R # {}
  <2>1. PICK x : R = {x}
    BY <1>2
  <2>2. Cardinality(R) = 1
    BY <2>1, FS_Singleton, Zenon
  <2>3. QED
    BY <1>2, <2>2
<1>3. QED
  BY <1>1, <1>2

(* However many threads take the list at a time, a coroutine that waits    *)
(* for a counter goes on once at most, never before the counter is zero,   *)
(* and no node is in two hands.                                            *)
THEOREM NobodyWokenTwice == Spec => []WokenOnceAtZero
<1>1. ASSUME IInv PROVE WokenOnceAtZero
  <2>1. TypeOK
    <3>1. Elements(list) \subseteq Waiters /\ \A t \in Threads : Elements(todo[t]) \subseteq Waiters
      BY <1>1 DEF IInv, Types, Elements
    <3>2. QED
      BY <1>1, <3>1 DEF IInv, Types, TypeOK
  <2>2. ASSUME NEW c \in Waiters PROVE continued[c] <= 1 /\ (continued[c] > 0 => Ready)
    <3>1. pc[c] \in AtWait \cup {"done"}
      BY <1>1, OneOfThem DEF IInv, Types
    <3>2. QED
      BY <1>1, <3>1 DEF IInv, WaiterOK, AtWait
  <2>3. ASSUME NEW c \in Waiters
        PROVE  Cardinality({i \in DOMAIN list : list[i] = c})
                 + Cardinality({p \in Threads \X (1..Cardinality(Waiters)) :
                                  p[2] \in DOMAIN todo[p[1]] /\ todo[p[1]][p[2]] = c}) <= 1
    <3> DEFINE here == {i \in DOMAIN list : list[i] = c}
               there == {p \in Threads \X (1..Cardinality(Waiters)) :
                           p[2] \in DOMAIN todo[p[1]] /\ todo[p[1]][p[2]] = c}
    <3>1. \A i, j \in here : i = j
      BY <1>1 DEF IInv, Apart, Once
    <3>2. ASSUME NEW p \in there, NEW q \in there PROVE p = q
      <4>1. c \in Elements(todo[p[1]]) /\ c \in Elements(todo[q[1]]) /\ p[1] \in Threads /\ q[1] \in Threads
        BY DEF Elements
      <4>2. p[1] = q[1]
        BY <1>1, <4>1 DEF IInv, Apart
      <4>3. p[2] = q[2]
        BY <1>1, <4>1, <4>2 DEF IInv, Apart, Once
      <4>4. QED
        BY <4>2, <4>3
    <3>3. here = {} \/ there = {}
      <4>1. ASSUME NEW i \in here, NEW p \in there PROVE FALSE
        <5>1. c \in Elements(list) /\ c \in Elements(todo[p[1]]) /\ p[1] \in Threads
          BY DEF Elements
        <5>2. QED
          BY <1>1, <5>1 DEF IInv, Apart
      <4>2. QED
        BY <4>1
    <3> HIDE DEF here, there
    <3>4. /\ Cardinality(here) \in 0..1 /\ Cardinality(there) \in 0..1
          /\ Cardinality(here) = 0 \/ Cardinality(there) = 0
      BY <3>1, <3>2, <3>3, AtMostOne
    <3>5. Cardinality(here) + Cardinality(there) <= 1
      BY <3>4
    <3>6. QED
      BY <3>5 DEF here, there
  <2>4. QED
    BY <2>1, <2>2, <2>3 DEF WokenOnceAtZero, WokenOnce, ContinuesOnce, NotBeforeZero, NodeOnce
<1>2. QED
  BY <1>1, InductiveInvariant, PTL

-----------------------------------------------------------------------------
(* Dependencies.  What is counted down is the ends of the predecessors,    *)
(* less the notifications that workers still owe (Counted); as long as     *)
(* that is less than the number of predecessors, the count is what is      *)
(* missing, and no later wrap takes it back to one (CountOK).  So one      *)
(* worker finds the one that makes it zero (FireOK), and whoever gets past *)
(* the refusal of an early activation has seen a count that was counted    *)
(* down to the end (PlaceOK).                                              *)

(* The instance counts with a Cardinality of its own, which is the same. *)
LEMMA SameSizes ==
  \A R : (D!IsFiniteSet(R) <=> IsFiniteSet(R)) /\ D!Cardinality(R) = Cardinality(R)
BY DEF D!IsFiniteSet, IsFiniteSet, D!Cardinality, Cardinality

DepTypes ==
  /\ D!TypeOK
  /\ last \in [D!Threads -> 0..(Wrap - 1)]
  /\ asked \in [Tasks -> Nat] /\ runs \in [Tasks -> Nat] /\ done \in SUBSET Tasks
  /\ step[Client] \in {"idle", "check", "swap"} /\ edges[Client] = {}

UnderWay(t) == state[t] \in {"ready", "running"}

(* How often t has ended; the ends of what t runs after, and who has still *)
(* to take one of them off the count of t; how often it has been taken.    *)
Ends(t) == IF UnderWay(t) THEN runs[t] - 1 ELSE runs[t]
EndsBefore(t) == UNION {{p} \X (1..Ends(p)) : p \in D!Before(t)}
Owing(t) == {w \in Workers : t \in edges[w]}
Into(t) == {d \in D!Edges : d[2] = t}
Due(t) == Cardinality(Into(t))
Counted(t) == Cardinality(EndsBefore(t)) - Cardinality(Owing(t))
Enough(t) == Counted(t) >= Due(t)

LifeOK(t) ==
  /\ Ends(t) \in Nat
  /\ state[t] = "dormant" => runs[t] = 0
  /\ state[t] = "completed" => t \in done
  /\ t \in done <=> Ends(t) > 0
  /\ UnderWay(t) => Enough(t)

(* The count is what is missing; from zero on it is zero, or has been      *)
(* taken below zero by a predecessor that ended again.                     *)
CountOK(t) ==
  /\ Counted(t) \in Nat
  /\ ~ Enough(t) => before[t] = Due(t) - Counted(t)
  /\ Enough(t) => before[t] = 0 \/ before[t] >= Wrap - (Counted(t) - Due(t))

PlaceOK(p) ==
  /\ step[p] = "swap" => Enough(job[p])
  /\ step[p] = "counted" /\ last[p] \in {0, 1} => Enough(job[p])
  /\ step[p] = "body" => state[job[p]] = "running" /\ edges[p] = {}
  /\ step[p] = "idle" => edges[p] = {}

OneBody(v, w) == v # w /\ step[v] = "body" /\ step[w] = "body" => job[v] # job[w]

(* w took the count of t to zero and is about to activate t. *)
Fires(w, t) ==
  /\ job[w] = t
  /\ step[w] \in {"check", "swap"} \/ (step[w] = "counted" /\ last[w] = 1)
Asks(t) == job[Client] = t /\ step[Client] \in {"check", "swap"}

OneIf(b) == IF b THEN 1 ELSE 0

(* A task is made ready once for each call of the client, and once by the  *)
(* one that took its count to zero.                                        *)
FireOK(t) ==
  /\ asked[t] <= graph.runs
  /\ \A w \in Workers : Fires(w, t) => Enough(t) /\ Due(t) > 0
  /\ \A v, w \in Workers : Fires(v, t) /\ Fires(w, t) => v = w
  /\ runs[t] + OneIf(Asks(t)) + OneIf(\E w \in Workers : Fires(w, t))
       <= asked[t] + OneIf(Enough(t) /\ Due(t) > 0)

DepInv ==
  /\ DepTypes
  /\ \A t \in Tasks : LifeOK(t) /\ CountOK(t) /\ FireOK(t)
  /\ \A p \in D!Threads : PlaceOK(p)
  /\ \A v, w \in Workers : OneBody(v, w)

(* What DepsAssumption says of a graph, and what before and dependents     *)
(* are.                                                                    *)
LEMMA GraphFacts ==
  ASSUME graph \in Graphs
  PROVE  /\ graph.added \subseteq Tasks \X Tasks /\ graph.asked \subseteq Tasks
            /\ graph.runs \in Nat
         /\ Wrap > Cardinality(Tasks) * (1 + graph.runs) /\ Wrap \in Nat
         /\ \A t \in Tasks : D!Kept(t) \in SUBSET Tasks
         /\ D!Edges \in SUBSET (Tasks \X Tasks)
         /\ \A t \in Tasks : D!Before(t) \in SUBSET Tasks
         /\ \A p \in Tasks : \A t : t \in D!Dependents(p) <=> t \in Tasks /\ p \in D!Before(t)
         /\ \A t \in Tasks : Into(t) = {<<p, t>> : p \in D!Before(t)}
<1>1. /\ graph.added \subseteq Tasks \X Tasks /\ graph.asked \subseteq Tasks
         /\ graph.runs \in Nat
      /\ Wrap > Cardinality(Tasks) * (1 + graph.runs) /\ Wrap \in Nat
      /\ graph.after \in [Tasks -> Seq(Tasks)]
  BY MCAssumption, SameSizes DEF MCAssumption, D!DepsAssumption
<1>2. ASSUME NEW t \in Tasks PROVE D!Kept(t) \in SUBSET Tasks
  <2>1. graph.after[t] \in Seq(Tasks)
    BY <1>1
  <2>2. graph.after[t] # << >> => D!Last(graph.after[t]) \in Tasks
    BY <2>1 DEF D!Last
  <2>3. QED
    BY <2>2 DEF D!Kept
<1>3. D!Edges \in SUBSET (Tasks \X Tasks)
  BY <1>1 DEF D!Edges
<1>4. ASSUME NEW t \in Tasks
      PROVE  D!Before(t) \in SUBSET Tasks /\ \A p \in Tasks : p \in D!Before(t)
               <=> <<p, t>> \in D!Edges
  <2>1. D!Before(t) = {e[1] : e \in {d \in graph.added : d[2] = t}} \cup D!Kept(t)
    BY DEF D!Before, D!Kept
  <2>2. \A p \in Tasks : <<p, t>> \in graph.added
          <=> p \in {e[1] : e \in {d \in graph.added : d[2] = t}}
    <3>1. ASSUME NEW p \in Tasks, <<p, t>> \in graph.added
          PROVE  p \in {e[1] : e \in {d \in graph.added : d[2] = t}}
      <4>1. <<p, t>> \in {d \in graph.added : d[2] = t} /\ <<p, t>>[1] = p
        BY <3>1
      <4>2. QED
        BY <4>1
    <3>2. ASSUME NEW p \in Tasks, p \in {e[1] : e \in {d \in graph.added : d[2] = t}}
          PROVE  <<p, t>> \in graph.added
      <4>1. PICK e \in graph.added : e[2] = t /\ p = e[1]
        BY <3>2
      <4>2. e = <<e[1], e[2]>>
        BY <1>1
      <4>3. QED
        BY <4>1, <4>2
    <3>3. QED
      BY <3>1, <3>2
  <2>3. ASSUME NEW p \in Tasks
        PROVE  <<p, t>> \in D!Edges <=> <<p, t>> \in graph.added \/ p \in D!Kept(t)
    BY DEF D!Edges
  <2>4. {e[1] : e \in {d \in graph.added : d[2] = t}} \subseteq Tasks
    BY <1>1
  <2>5. QED
    BY <1>2, <2>1, <2>2, <2>3, <2>4
<1>5. ASSUME NEW p \in Tasks, NEW t
      PROVE  t \in D!Dependents(p) <=> t \in Tasks /\ p \in D!Before(t)
  <2>1. ASSUME t \in D!Dependents(p) PROVE t \in Tasks /\ p \in D!Before(t)
    <3>1. PICK e \in D!Edges : e[1] = p /\ t = e[2]
      BY <2>1 DEF D!Dependents
    <3>2. e = <<e[1], e[2]>> /\ e[2] \in Tasks
      BY <1>3
    <3>3. QED
      BY <1>4, <3>1, <3>2
  <2>2. ASSUME t \in Tasks, p \in D!Before(t) PROVE t \in D!Dependents(p)
    <3>1. <<p, t>> \in D!Edges /\ <<p, t>>[1] = p /\ <<p, t>>[2] = t
      BY <1>4, <2>2
    <3>2. QED
      BY <3>1, Zenon DEF D!Dependents
  <2>3. QED
    BY <2>1, <2>2
<1>6. ASSUME NEW t \in Tasks PROVE Into(t) = {<<p, t>> : p \in D!Before(t)}
  <2>1. ASSUME NEW d \in Into(t) PROVE d \in {<<p, t>> : p \in D!Before(t)}
    <3>1. d \in D!Edges /\ d[2] = t
      BY <2>1 DEF Into
    <3>2. d = <<d[1], t>> /\ d[1] \in Tasks
      BY <1>3, <3>1
    <3>3. QED
      BY <1>4, <3>1, <3>2
  <2>2. ASSUME NEW p \in D!Before(t) PROVE <<p, t>> \in Into(t)
    BY <1>4, <2>2 DEF Into
  <2>3. QED
    BY <2>1, <2>2
<1>7. QED
  BY <1>1, <1>2, <1>3, <1>4, <1>5, <1>6

(* A task waits for as many as it has predecessors. *)
LEMMA DueIs ==
  ASSUME graph \in Graphs, NEW t \in Tasks
  PROVE  /\ IsFiniteSet(D!Before(t)) /\ Due(t) = Cardinality(D!Before(t))
         /\ Due(t) \in Nat /\ Due(t) <= Cardinality(Tasks) /\ Cardinality(Tasks) \in Nat
         /\ Cardinality(Tasks) > 0
<1>1. IsFiniteSet(Tasks) /\ Tasks # {}
  BY MCAssumption, SameSizes DEF MCAssumption, D!DepsAssumption
<1>2. IsFiniteSet(D!Before(t)) /\ Cardinality(D!Before(t)) <= Cardinality(Tasks)
  BY <1>1, GraphFacts, FS_Subset
<1> DEFINE f == [p \in D!Before(t) |-> <<p, t>>]
<1>3. f \in Surjection(D!Before(t), Into(t))
  BY GraphFacts DEF Surjection
<1>4. f \in Injection(D!Before(t), Into(t))
  BY GraphFacts DEF Injection, IsInjective
<1>5. Cardinality(Into(t)) = Cardinality(D!Before(t))
  <2> HIDE DEF f
  <2>1. QED
    BY <1>2, <1>3, <1>4, FS_Surjection
<1>6. Cardinality(Tasks) > 0
  BY <1>1, FS_EmptySet, FS_CardinalityType
<1>7. QED
  BY <1>1, <1>2, <1>5, <1>6, FS_CardinalityType DEF Due

(* An end is of a predecessor, and is numbered. *)
LEMMA EndsIs ==
  \A t, e : e \in EndsBefore(t) <=> \E p \in D!Before(t) : \E i \in 1..Ends(p) : e = <<p, i>>
BY DEF EndsBefore

(* The ends of what t runs after are counted, and are not so many that the *)
(* count could wrap round as far as one.                                   *)
LEMMA EndsAre ==
  ASSUME graph \in Graphs, NEW t \in Tasks,
         \A p \in Tasks : Ends(p) \in Nat /\ Ends(p) <= 1 + graph.runs
  PROVE  /\ IsFiniteSet(EndsBefore(t)) /\ Cardinality(EndsBefore(t)) \in Nat
         /\ Cardinality(EndsBefore(t)) < Wrap
<1> DEFINE every == Tasks \X (1..(1 + graph.runs))
<1>1. IsFiniteSet(Tasks) /\ graph.runs \in Nat /\ D!Before(t) \in SUBSET Tasks
  BY GraphFacts, MCAssumption, SameSizes DEF MCAssumption, D!DepsAssumption
<1>2. IsFiniteSet(1..(1 + graph.runs)) /\ Cardinality(1..(1 + graph.runs)) = 1 + graph.runs
  <2>1. 1 \in Int /\ 1 + graph.runs \in Int /\ ~ 1 > 1 + graph.runs
        /\ (1 + graph.runs) - 1 + 1 = 1 + graph.runs
    BY <1>1
  <2>2. QED
    BY <2>1, FS_Interval
<1>3. IsFiniteSet(every) /\ Cardinality(every) = Cardinality(Tasks) * (1 + graph.runs)
  BY <1>1, <1>2, FS_Product
<1>4. EndsBefore(t) \in SUBSET every
  <2>1. ASSUME NEW p \in D!Before(t), NEW i \in 1..Ends(p) PROVE <<p, i>> \in every
    <3>1. p \in Tasks /\ i \in 1..(1 + graph.runs)
      BY <1>1, <2>1
    <3>2. QED
      BY <3>1
  <2> HIDE DEF every
  <2>2. QED
    BY <2>1, EndsIs
<1>5. IsFiniteSet(EndsBefore(t)) /\ Cardinality(EndsBefore(t)) <= Cardinality(every)
  <2> HIDE DEF every
  <2>1. QED
    BY <1>3, <1>4, FS_Subset
<1>6. QED
  BY <1>1, <1>3, <1>5, FS_CardinalityType, GraphFacts

(* Finitely many workers owe a notification. *)
LEMMA OwingIs ==
  ASSUME NEW t
  PROVE  IsFiniteSet(Owing(t)) /\ Cardinality(Owing(t)) \in Nat
<1>1. IsFiniteSet(Workers) /\ Owing(t) \in SUBSET Workers
  BY MCAssumption, SameSizes DEF MCAssumption, D!DepsAssumption, Owing
<1>2. QED
  BY <1>1, FS_Subset, FS_CardinalityType

(* What has been counted is not more than what there was. *)
LEMMA CountedIs ==
  ASSUME graph \in Graphs, NEW t \in Tasks, CountOK(t),
         \A p \in Tasks : Ends(p) \in Nat /\ Ends(p) <= 1 + graph.runs
  PROVE  /\ Counted(t) \in Nat /\ Counted(t) <= Cardinality(EndsBefore(t)) /\ Counted(t) < Wrap
         /\ Enough(t) <=> Counted(t) >= Due(t)
<1>1. \A a, b \in Nat : a - b \in Nat => a - b <= a
  OBVIOUS
<1>2. Counted(t) \in Nat /\ Counted(t) <= Cardinality(EndsBefore(t))
  BY <1>1, EndsAre, OwingIs, Zenon DEF CountOK, Counted
<1>3. Cardinality(EndsBefore(t)) \in Nat /\ Cardinality(EndsBefore(t)) < Wrap /\ Wrap \in Nat
  BY EndsAre, GraphFacts
<1>4. \A a, b, c \in Nat : a <= b /\ b < c => a < c
  OBVIOUS
<1>5. Counted(t) < Wrap
  BY <1>2, <1>3, <1>4, Zenon
<1>6. QED
  BY <1>2, <1>5 DEF Enough

(* A step that begins and ends no task and takes nothing off a count.      *)
LEMMA SameCounts ==
  ASSUME UNCHANGED <<graph, edges>>, \A p \in Tasks : Ends(p)' = Ends(p), graph \in Graphs
  PROVE  /\ \A t \in Tasks : Counted(t)' = Counted(t) /\ (Enough(t)' <=> Enough(t))
         /\ \A t : Due(t)' = Due(t) /\ D!Before(t)' = D!Before(t)
            /\ D!Dependents(t)' = D!Dependents(t)
<1>1. /\ \A t : Due(t)' = Due(t) /\ D!Before(t)' = D!Before(t) /\ Owing(t)' = Owing(t)
      /\ \A t : D!Dependents(t)' = D!Dependents(t)
  BY DEF Due, Into, D!Before, Owing, D!Dependents, D!Edges, D!Kept
<1>2. ASSUME NEW t \in Tasks PROVE EndsBefore(t)' = EndsBefore(t)
  <2>1. \A e : e \in EndsBefore(t)'
          <=> \E p \in D!Before(t)' : \E i \in 1..(Ends(p)') : e = <<p, i>>
    BY DEF EndsBefore
  <2>2. \A p \in D!Before(t) : Ends(p)' = Ends(p)
    BY GraphFacts
  <2>3. D!Before(t)' = D!Before(t)
    BY <1>1
  <2>4. \A e : e \in EndsBefore(t)' <=> e \in EndsBefore(t)
    BY <2>1, <2>2, <2>3, EndsIs
  <2>5. QED
    BY <2>4
<1>3. QED
  BY <1>1, <1>2 DEF Counted, Enough

(* What the invariant says that every step needs. *)
LEMMA InvFacts ==
  ASSUME DepInv
  PROVE  /\ graph \in Graphs /\ graph.runs \in Nat /\ DepTypes
         /\ Client \notin Workers /\ Client \in D!Threads /\ Workers \subseteq D!Threads
         /\ \A t \in Tasks : /\ Ends(t) \in Nat /\ Ends(t) <= 1 + graph.runs
                             /\ runs[t] \in Nat /\ asked[t] \in Nat /\ runs[t] <= 1 + asked[t]
         /\ \A t \in Tasks : Counted(t) \in Nat /\ Counted(t) < Wrap /\ Due(t) \in Nat
<1>1. DepTypes /\ graph \in Graphs /\ graph.runs \in Nat
  BY GraphFacts DEF DepInv, DepTypes, D!TypeOK
<1>2. ASSUME NEW t \in Tasks
      PROVE  /\ Ends(t) \in Nat /\ Ends(t) <= 1 + graph.runs
             /\ runs[t] \in Nat /\ asked[t] \in Nat /\ runs[t] <= 1 + asked[t]
  <2>1. LifeOK(t) /\ FireOK(t) /\ runs[t] \in Nat /\ asked[t] \in Nat
    BY <1>1 DEF DepInv, DepTypes
  <2>2. /\ OneIf(Asks(t)) \in {0, 1} /\ OneIf(\E w \in Workers : Fires(w, t)) \in {0, 1}
        /\ OneIf(Enough(t) /\ Due(t) > 0) \in {0, 1}
    BY DEF OneIf
  <2>3. \A r, a, g \in Nat, x, y, z \in {0, 1} :
          a <= g /\ r + x + y <= a + z => r <= 1 + a /\ r <= 1 + g
    OBVIOUS
  <2>4. runs[t] <= 1 + asked[t] /\ runs[t] <= 1 + graph.runs
    <3>1. asked[t] <= graph.runs
      BY <2>1 DEF FireOK
    <3>2. PICK x \in {0, 1}, y \in {0, 1}, z \in {0, 1} : runs[t] + x + y <= asked[t] + z
      BY <2>1, <2>2, Zenon DEF FireOK
    <3>3. QED
      BY <1>1, <2>1, <2>3, <3>1, <3>2
  <2>5. Ends(t) \in Nat /\ Ends(t) <= runs[t]
    BY <2>1 DEF LifeOK, Ends
  <2>6. QED
    BY <1>1, <2>1, <2>4, <2>5
<1>3. ASSUME NEW t \in Tasks PROVE Counted(t) \in Nat /\ Counted(t) < Wrap /\ Due(t) \in Nat
  BY <1>1, <1>2, CountedIs, DueIs DEF DepInv
<1>4. QED
  BY <1>1, <1>2, <1>3, MCAssumption DEF D!DepsAssumption, D!Threads

(* A step that moves one thread and neither begins nor ends a task.        *)
LEMMA CalmDeps ==
  ASSUME DepInv, UNCHANGED <<graph, state, runs, done, before, edges>>
  PROVE  /\ \A t \in Tasks : LifeOK(t)' /\ CountOK(t)' /\ (Enough(t)' <=> Enough(t))
            /\ Due(t)' = Due(t)
         /\ graph \in Graphs
<1>1. graph \in Graphs /\ \A t \in Tasks : LifeOK(t) /\ CountOK(t)
  BY InvFacts DEF DepInv
<1>2. \A t \in Tasks : Ends(t)' = Ends(t) /\ (UnderWay(t)' <=> UnderWay(t))
  BY DEF Ends, UnderWay
<1>3. \A t \in Tasks : Counted(t)' = Counted(t) /\ (Enough(t)' <=> Enough(t))
      /\ Due(t)' = Due(t)
  BY <1>1, <1>2, SameCounts
<1>4. \A t \in Tasks : LifeOK(t)'
  BY <1>1, <1>2, <1>3 DEF LifeOK
<1>5. \A t \in Tasks : CountOK(t)'
  BY <1>1, <1>3 DEF CountOK
<1>6. QED
  BY <1>1, <1>3, <1>4, <1>5

(* The client calls activate. *)
LEMMA AskKeeps ==
  ASSUME DepInv, D!Ask
  PROVE  DepInv'
<1>1. PICK t \in graph.asked :
        /\ asked[t] < graph.runs /\ asked' = [asked EXCEPT ![t] = @ + 1]
        /\ job' = [job EXCEPT ![Client] = t]
  BY DEF D!Ask
<1>2. /\ step[Client] = "idle" /\ step' = [step EXCEPT ![Client] = "check"]
      /\ UNCHANGED <<graph, state, runs, done, before, edges, last>>
  BY DEF D!Ask, D!Goto, D!tasks
<1>3. /\ DepTypes /\ graph \in Graphs /\ Client \in D!Threads /\ Client \notin Workers
      /\ Workers \subseteq D!Threads /\ graph.runs \in Nat
  BY InvFacts
<1>4. t \in Tasks
  BY <1>1, <1>3, GraphFacts
<1>5. DepTypes'
  <2>1. asked' \in [Tasks -> Nat]
    BY <1>1, <1>3, <1>4 DEF DepTypes
  <2>2. QED
    BY <1>1, <1>2, <1>3, <1>4, <2>1 DEF DepTypes, D!TypeOK, D!Threads
<1>6. \A w \in Workers : step'[w] = step[w] /\ job'[w] = job[w]
  BY <1>1, <1>2, <1>3 DEF DepTypes, D!TypeOK
<1>7. step'[Client] = "check" /\ job'[Client] = t
  BY <1>1, <1>2, <1>3 DEF DepTypes, D!TypeOK
<1>8. ASSUME NEW p \in D!Threads PROVE PlaceOK(p)'
  <2>1. CASE p = Client
    BY <1>7, <2>1 DEF PlaceOK
  <2>2. CASE p \in Workers
    <3>1. PlaceOK(p) /\ job[p] \in Tasks
      BY <1>3 DEF DepInv, DepTypes, D!TypeOK
    <3>2. QED
      BY <1>2, <1>6, <2>2, <3>1, CalmDeps DEF PlaceOK
  <2>3. QED
    BY <2>1, <2>2 DEF D!Threads
<1>9. \A v, w \in Workers : OneBody(v, w)'
  BY <1>2, <1>6 DEF DepInv, OneBody
<1>10. ASSUME NEW u \in Tasks PROVE FireOK(u)'
  <2>1. FireOK(u) /\ (Enough(u)' <=> Enough(u)) /\ Due(u)' = Due(u)
        /\ runs[u] \in Nat /\ asked[u] \in Nat
    BY <1>2, <1>3, CalmDeps DEF DepInv, DepTypes
  <2>2. \A w \in Workers : Fires(w, u)' <=> Fires(w, u)
    BY <1>2, <1>6 DEF Fires
  <2>3. ~ Asks(u) /\ (Asks(u)' <=> u = t)
    BY <1>2, <1>7 DEF Asks
  <2>4. asked'[u] = IF u = t THEN asked[u] + 1 ELSE asked[u]
    BY <1>1, <1>3, <1>4 DEF DepTypes
  <2>5. asked'[u] <= graph.runs
    <3>1. asked[u] <= graph.runs
      BY <2>1 DEF FireOK
    <3>2. QED
      BY <1>1, <1>3, <2>1, <2>4, <3>1
  <2>6. runs'[u] + OneIf(Asks(u)') + OneIf(\E w \in Workers : Fires(w, u)')
          <= asked'[u] + OneIf(Enough(u)' /\ Due(u)' > 0)
    <3>1. runs[u] + OneIf(Asks(u)) + OneIf(\E w \in Workers : Fires(w, u))
            <= asked[u] + OneIf(Enough(u) /\ Due(u) > 0)
      BY <2>1 DEF FireOK
    <3>2. OneIf(\E w \in Workers : Fires(w, u)') = OneIf(\E w \in Workers : Fires(w, u))
      BY <2>2 DEF OneIf
    <3>3. OneIf(Enough(u)' /\ Due(u)' > 0) = OneIf(Enough(u) /\ Due(u) > 0)
      BY <2>1 DEF OneIf
    <3>4. /\ OneIf(Asks(u)) = 0 /\ OneIf(Asks(u)') = IF u = t THEN 1 ELSE 0
      BY <2>3 DEF OneIf
    <3>5. OneIf(\E w \in Workers : Fires(w, u)) \in {0, 1}
          /\ OneIf(Enough(u) /\ Due(u) > 0) \in {0, 1}
      BY DEF OneIf
    <3>6. \A r, a \in Nat, x, y \in {0, 1} : r + 0 + x <= a + y => r + 1 + x <= (a + 1) + y
      OBVIOUS
    <3>7. QED
      BY <1>2, <2>1, <2>4, <3>1, <3>2, <3>3, <3>4, <3>5, <3>6
  <2>7. QED
    BY <1>2, <2>1, <2>2, <2>5, <2>6 DEF FireOK
<1>11. QED
  BY <1>2, <1>5, <1>8, <1>9, <1>10, CalmDeps DEF DepInv

(* A step that calls for no more runs of u. *)
LEMMA FireKeeps ==
  ASSUME NEW u \in Tasks, FireOK(u), runs[u] \in Nat, asked[u] \in Nat,
         graph' = graph, asked'[u] = asked[u], runs'[u] = runs[u], Due(u)' = Due(u),
         Enough(u) => Enough(u)', Asks(u)' => Asks(u),
         \A w \in Workers : Fires(w, u)' => Fires(w, u)
  PROVE  FireOK(u)'
<1>1. /\ OneIf(Asks(u)) \in {0, 1} /\ OneIf(Asks(u)') \in {0, 1}
      /\ OneIf(Asks(u)') = 1 => OneIf(Asks(u)) = 1
  BY DEF OneIf
<1>2. /\ OneIf(\E w \in Workers : Fires(w, u)) \in {0, 1}
      /\ OneIf(\E w \in Workers : Fires(w, u)') \in {0, 1}
      /\ OneIf(\E w \in Workers : Fires(w, u)') = 1 => OneIf(\E w \in Workers : Fires(w, u)) = 1
  BY DEF OneIf
<1>3. /\ OneIf(Enough(u) /\ Due(u) > 0) \in {0, 1}
         /\ OneIf(Enough(u)' /\ Due(u)' > 0) \in {0, 1}
      /\ OneIf(Enough(u) /\ Due(u) > 0) = 1 => OneIf(Enough(u)' /\ Due(u)' > 0) = 1
  BY DEF OneIf
<1>4. runs[u] + OneIf(Asks(u)) + OneIf(\E w \in Workers : Fires(w, u))
        <= asked[u] + OneIf(Enough(u) /\ Due(u) > 0)
  BY DEF FireOK
<1>5. \A r, a \in Nat, x, y, z, i, j, k \in {0, 1} :
        /\ (i = 1 => x = 1) /\ (j = 1 => y = 1) /\ (z = 1 => k = 1)
        /\ r + x + y <= a + z
        => r + i + j <= a + k
  OBVIOUS
<1>6. runs[u] + OneIf(Asks(u)') + OneIf(\E w \in Workers : Fires(w, u)')
        <= asked[u] + OneIf(Enough(u)' /\ Due(u)' > 0)
  BY <1>1, <1>2, <1>3, <1>4, <1>5
<1>7. /\ asked'[u] <= graph'.runs
      /\ \A w \in Workers : Fires(w, u)' => Enough(u)' /\ Due(u)' > 0
      /\ \A v, w \in Workers : Fires(v, u)' /\ Fires(w, u)' => v = w
  BY DEF FireOK
<1>8. runs'[u] + OneIf(Asks(u)') + OneIf(\E w \in Workers : Fires(w, u)')
        <= asked'[u] + OneIf(Enough(u)' /\ Due(u)' > 0)
  BY <1>6
<1>9. QED
  BY <1>7, <1>8 DEF FireOK

(* Of one thread that moves, and changes nothing but its place. *)
LEMMA MoveKeeps ==
  ASSUME DepInv, NEW p \in D!Threads, NEW from, NEW to \in {"idle", "swap", "notify"},
         step[p] = from, step' = [step EXCEPT ![p] = to],
         UNCHANGED <<graph, state, runs, done, before, job, edges, last, asked>>,
         p = Client => to # "notify", to = "swap" => from = "check" /\ Enough(job[p]),
         to = "idle" => edges[p] = {}
  PROVE  DepInv'
<1>1. DepTypes /\ graph \in Graphs /\ Client \notin Workers /\ Workers \subseteq D!Threads
      /\ step'[p] = to /\ \A q \in D!Threads : q # p => step'[q] = step[q]
  BY InvFacts DEF DepTypes, D!TypeOK
<1>2. DepTypes'
  BY <1>1 DEF DepTypes, D!TypeOK, D!Threads
<1>3. \A t \in Tasks : LifeOK(t)' /\ CountOK(t)' /\ (Enough(t)' <=> Enough(t))
      /\ Due(t)' = Due(t)
  BY CalmDeps
<1>4. ASSUME NEW q \in D!Threads PROVE PlaceOK(q)'
  <2>1. PlaceOK(q) /\ job[q] \in Tasks
    BY <1>1 DEF DepInv, DepTypes, D!TypeOK
  <2>2. CASE q = p
    BY <1>1, <1>3, <2>1, <2>2 DEF PlaceOK
  <2>3. CASE q # p
    BY <1>1, <1>3, <2>1, <2>3 DEF PlaceOK
  <2>4. QED
    BY <2>2, <2>3
<1>5. \A v, w \in Workers : OneBody(v, w)'
  BY <1>1 DEF DepInv, OneBody
<1>6. ASSUME NEW u \in Tasks PROVE FireOK(u)'
  <2>1. FireOK(u) /\ runs[u] \in Nat /\ asked[u] \in Nat
    BY <1>1 DEF DepInv, DepTypes
  <2>2. Asks(u)' => Asks(u)
    BY <1>1 DEF Asks
  <2>3. \A w \in Workers : Fires(w, u)' => Fires(w, u)
    BY <1>1 DEF Fires
  <2>4. QED
    BY <1>3, <2>1, <2>2, <2>3, FireKeeps
<1>7. QED
  BY <1>2, <1>3, <1>4, <1>5, <1>6 DEF DepInv

(* activate reads the count of pending dependencies: zero, or not. *)
LEMMA AllowKeeps ==
  ASSUME DepInv, NEW p \in D!Threads, D!Allow(p, job[p]) \/ D!Refuse(p, job[p])
  PROVE  DepInv'
<1>1. job[p] \in Tasks /\ CountOK(job[p]) /\ Counted(job[p]) \in Nat /\ Due(job[p]) \in Nat
      /\ edges[Client] = {}
  BY InvFacts DEF DepInv, DepTypes, D!TypeOK
<1>2. CASE D!Allow(p, job[p])
  <2>1. Enough(job[p])
    <3>1. \A c, n \in Nat : ~ c >= n => n - c # 0
      OBVIOUS
    <3>2. before[job[p]] = 0
      BY <1>2 DEF D!Allow
    <3>3. QED
      BY <1>1, <3>1, <3>2 DEF CountOK, Enough
  <2>2. QED
    BY <1>2, <2>1, MoveKeeps DEF D!Allow, D!Goto, D!tasks
<1>3. CASE D!Refuse(p, job[p])
  BY <1>1, <1>3, MoveKeeps DEF D!Refuse, D!Goto, D!tasks, D!Return
<1>4. QED
  BY <1>2, <1>3

(* A worker has notified all dependents of the task it ended. *)
LEMMA NotifyDoneKeeps ==
  ASSUME DepInv, NEW w \in Workers, D!NotifyDone(w)
  PROVE  DepInv'
BY InvFacts, MoveKeeps DEF D!NotifyDone, D!Goto, D!tasks

(* activate makes the task ready, unless it is on its way already. *)
LEMMA ReadyKeeps ==
  ASSUME DepInv, NEW p \in D!Threads, D!Ready(p, job[p])
  PROVE  DepInv'
<1>1. PICK t \in Tasks : t = job[p]
  BY InvFacts DEF DepTypes, D!TypeOK
<1>2. PICK to \in {"idle", "notify"} :
        /\ step[p] = "swap" /\ step' = [step EXCEPT ![p] = to]
        /\ to = "idle" <=> p = Client
        /\ UNCHANGED <<graph, done, before, job, edges, last, asked>>
  BY DEF D!Ready, D!Goto, D!Return
<1>3. CASE state[t] \notin {"dormant", "completed"}
  <2>1. UNCHANGED <<state, runs>>
    BY <1>1, <1>3 DEF D!Ready
  <2>2. edges[Client] = {}
    BY DEF DepInv, DepTypes
  <2>3. QED
    BY <1>2, <2>1, <2>2, MoveKeeps
<1>4. CASE state[t] \in {"dormant", "completed"}
  <2>1. DepTypes /\ graph \in Graphs /\ Client \notin Workers /\ Workers \subseteq D!Threads
        /\ step'[p] = to /\ \A q \in D!Threads : q # p => step'[q] = step[q]
    BY <1>2, InvFacts DEF DepTypes, D!TypeOK
  <2>2. state' = [state EXCEPT ![t] = "ready"] /\ runs' = [runs EXCEPT ![t] = @ + 1]
    BY <1>1, <1>4 DEF D!Ready
  <2>3. /\ state'[t] = "ready" /\ runs'[t] = runs[t] + 1 /\ runs[t] \in Nat /\ asked[t] \in Nat
        /\ \A u \in Tasks : u # t => state'[u] = state[u] /\ runs'[u] = runs[u]
    BY <2>1, <2>2 DEF DepTypes, D!TypeOK
  <2>4. \A u \in Tasks : Ends(u)' = Ends(u)
    BY <1>4, <2>3 DEF Ends, UnderWay
  <2>5. \A u \in Tasks : Counted(u)' = Counted(u) /\ (Enough(u)' <=> Enough(u))
        /\ Due(u)' = Due(u)
    BY <1>2, <2>1, <2>4, SameCounts
  <2>6. Enough(t)
    BY <1>1, <1>2 DEF DepInv, PlaceOK
  <2>7. DepTypes'
    BY <1>2, <2>1, <2>2 DEF DepTypes, D!TypeOK, D!Threads
  <2>8. ASSUME NEW u \in Tasks PROVE LifeOK(u)' /\ CountOK(u)'
    <3>1. LifeOK(u) /\ CountOK(u)
      BY DEF DepInv
    <3>2. CountOK(u)'
      BY <1>2, <2>5, <3>1 DEF CountOK
    <3>3. LifeOK(u)'
      <4>1. CASE u = t
        BY <1>2, <2>3, <2>4, <2>5, <2>6, <3>1, <4>1 DEF LifeOK
      <4>2. CASE u # t
        BY <1>2, <2>3, <2>4, <2>5, <3>1, <4>2 DEF LifeOK, UnderWay
      <4>3. QED
        BY <4>1, <4>2
    <3>4. QED
      BY <3>2, <3>3
  <2>9. ASSUME NEW q \in D!Threads PROVE PlaceOK(q)'
    <3>1. PlaceOK(q) /\ job[q] \in Tasks /\ edges[Client] = {}
      BY <2>1 DEF DepInv, DepTypes, D!TypeOK
    <3>2. CASE q = p
      BY <1>2, <2>1, <3>1, <3>2 DEF PlaceOK
    <3>3. CASE q # p
      BY <1>2, <1>4, <2>1, <2>3, <2>5, <3>1, <3>3 DEF PlaceOK
    <3>4. QED
      BY <3>2, <3>3
  <2>10. \A v, w \in Workers : OneBody(v, w)'
    BY <1>2, <2>1 DEF DepInv, OneBody
  <2>11. FireOK(t)'
    <3>1. FireOK(t)
      BY DEF DepInv
    <3>2. Asks(t)' => Asks(t)
      BY <1>2, <2>1 DEF Asks
    <3>3. \A w \in Workers : Fires(w, t)' => Fires(w, t)
      BY <1>2, <2>1 DEF Fires
    <3>4. /\ OneIf(Asks(t)) \in {0, 1} /\ OneIf(Asks(t)') \in {0, 1}
          /\ OneIf(Asks(t)') = 1 => OneIf(Asks(t)) = 1
          /\ p = Client => OneIf(Asks(t)) = 1 /\ OneIf(Asks(t)') = 0
      BY <1>1, <1>2, <2>1, <3>2 DEF OneIf, Asks
    <3>5. /\ OneIf(\E w \in Workers : Fires(w, t)) \in {0, 1}
          /\ OneIf(\E w \in Workers : Fires(w, t)') \in {0, 1}
          /\ OneIf(\E w \in Workers : Fires(w, t)') = 1
               => OneIf(\E w \in Workers : Fires(w, t)) = 1
          /\ p # Client => /\ OneIf(\E w \in Workers : Fires(w, t)) = 1
                           /\ OneIf(\E w \in Workers : Fires(w, t)') = 0
      <4>1. ASSUME p # Client
            PROVE  (\E w \in Workers : Fires(w, t)) /\ ~ \E w \in Workers : Fires(w, t)'
        <5>1. p \in Workers /\ Fires(p, t) /\ ~ Fires(p, t)'
          BY <1>1, <1>2, <2>1, <4>1 DEF Fires, D!Threads
        <5>2. \A w \in Workers : Fires(w, t) => w = p
          BY <3>1, <5>1 DEF FireOK
        <5>3. QED
          BY <3>3, <5>1, <5>2
      <4>2. QED
        BY <3>3, <4>1 DEF OneIf
    <3>6. OneIf(Enough(t)' /\ Due(t)' > 0) = OneIf(Enough(t) /\ Due(t) > 0)
          /\ OneIf(Enough(t) /\ Due(t) > 0) \in {0, 1}
      BY <2>5 DEF OneIf
    <3>7. runs[t] + OneIf(Asks(t)) + OneIf(\E w \in Workers : Fires(w, t))
            <= asked[t] + OneIf(Enough(t) /\ Due(t) > 0)
      BY <3>1 DEF FireOK
    <3>8. \A r, a \in Nat, x, y, z, i, j \in {0, 1} :
            /\ (i = 1 => x = 1) /\ (j = 1 => y = 1)
            /\ (x = 1 /\ i = 0) \/ (y = 1 /\ j = 0)
            /\ r + x + y <= a + z
            => (r + 1) + i + j <= a + z
      OBVIOUS
    <3>9. (runs[t] + 1) + OneIf(Asks(t)') + OneIf(\E w \in Workers : Fires(w, t)')
            <= asked[t] + OneIf(Enough(t) /\ Due(t) > 0)
      BY <2>3, <3>4, <3>5, <3>6, <3>7, <3>8
    <3>10. runs'[t] + OneIf(Asks(t)') + OneIf(\E w \in Workers : Fires(w, t)')
             <= asked'[t] + OneIf(Enough(t)' /\ Due(t)' > 0)
      BY <1>2, <2>3, <3>6, <3>9
    <3>11. QED
      BY <1>2, <2>5, <3>1, <3>3, <3>10 DEF FireOK
  <2>12. ASSUME NEW u \in Tasks, u # t PROVE FireOK(u)'
    <3>1. FireOK(u) /\ runs[u] \in Nat /\ asked[u] \in Nat
      BY <2>1 DEF DepInv, DepTypes
    <3>2. Asks(u)' => Asks(u)
      BY <1>2, <2>1 DEF Asks
    <3>3. \A w \in Workers : Fires(w, u)' => Fires(w, u)
      BY <1>2, <2>1 DEF Fires
    <3>4. QED
      BY <1>2, <2>3, <2>5, <2>12, <3>1, <3>2, <3>3, FireKeeps
  <2>13. QED
    BY <2>7, <2>8, <2>9, <2>10, <2>11, <2>12 DEF DepInv
<1>5. QED
  BY <1>3, <1>4

(* A worker takes a ready task. *)
LEMMA RunTaskKeeps ==
  ASSUME DepInv, NEW w \in Workers, D!Run(w)
  PROVE  DepInv'
<1>1. PICK t \in Tasks : /\ state[t] = "ready" /\ state' = [state EXCEPT ![t] = "running"]
                         /\ job' = [job EXCEPT ![w] = t]
  BY DEF D!Run
<1>2. /\ step[w] = "idle" /\ step' = [step EXCEPT ![w] = "body"]
      /\ UNCHANGED <<graph, runs, done, before, edges, last, asked>>
  BY DEF D!Run, D!Goto
<1>3. /\ DepTypes /\ graph \in Graphs /\ Client \notin Workers /\ Workers \subseteq D!Threads
      /\ Client \in D!Threads
  BY InvFacts
<1>4. /\ step'[w] = "body" /\ job'[w] = t /\ state'[t] = "running"
      /\ \A q \in D!Threads : q # w => step'[q] = step[q] /\ job'[q] = job[q]
      /\ \A u \in Tasks : u # t => state'[u] = state[u]
  BY <1>1, <1>2, <1>3 DEF DepTypes, D!TypeOK
<1>5. \A u \in Tasks : Ends(u)' = Ends(u) /\ (UnderWay(u)' <=> UnderWay(u))
  BY <1>1, <1>2, <1>4 DEF Ends, UnderWay
<1>6. \A u \in Tasks : Counted(u)' = Counted(u) /\ (Enough(u)' <=> Enough(u))
      /\ Due(u)' = Due(u)
  BY <1>2, <1>3, <1>5, SameCounts
<1>7. DepTypes'
  BY <1>1, <1>2, <1>3 DEF DepTypes, D!TypeOK, D!Threads
<1>8. ASSUME NEW u \in Tasks PROVE LifeOK(u)' /\ CountOK(u)'
  <2>1. LifeOK(u) /\ CountOK(u)
    BY DEF DepInv
  <2>2. CountOK(u)'
    BY <1>2, <1>6, <2>1 DEF CountOK
  <2>3. state'[u] \in {"dormant", "completed"} => state'[u] = state[u]
    BY <1>4
  <2>4. LifeOK(u)'
    BY <1>2, <1>5, <1>6, <2>1, <2>3 DEF LifeOK
  <2>5. QED
    BY <2>2, <2>4
<1>9. ASSUME NEW q \in D!Threads PROVE PlaceOK(q)'
  <2>1. PlaceOK(q) /\ job[q] \in Tasks
    BY <1>3 DEF DepInv, DepTypes, D!TypeOK
  <2>2. CASE q = w
    BY <1>2, <1>4, <2>1, <2>2 DEF PlaceOK
  <2>3. CASE q # w
    BY <1>1, <1>2, <1>4, <1>6, <2>1, <2>3 DEF PlaceOK
  <2>4. QED
    BY <2>2, <2>3
<1>10. ASSUME NEW u \in Workers, NEW v \in Workers PROVE OneBody(u, v)'
  <2>1. \A q \in Workers : step[q] = "body" => job[q] # t
    BY <1>1, <1>3 DEF DepInv, PlaceOK
  <2>2. OneBody(u, v)
    BY DEF DepInv
  <2>3. QED
    BY <1>3, <1>4, <2>1, <2>2 DEF OneBody
<1>11. ASSUME NEW u \in Tasks PROVE FireOK(u)'
  <2>1. FireOK(u) /\ runs[u] \in Nat /\ asked[u] \in Nat
    BY <1>3 DEF DepInv, DepTypes
  <2>2. Asks(u)' => Asks(u)
    BY <1>3, <1>4 DEF Asks
  <2>3. \A v \in Workers : Fires(v, u)' => Fires(v, u)
    BY <1>2, <1>3, <1>4 DEF Fires
  <2>4. QED
    BY <1>2, <1>6, <2>1, <2>2, <2>3, FireKeeps
<1>12. QED
  BY <1>7, <1>8, <1>9, <1>10, <1>11 DEF DepInv

(* Who has taken the count to zero stores zero and activates the           *)
(* dependent.                                                              *)
LEMMA NotifyCountedKeeps ==
  ASSUME DepInv, NEW w \in Workers, D!NotifyCounted(w)
  PROVE  DepInv'
<1>1. PICK t \in Tasks : t = job[w]
  BY InvFacts DEF DepTypes, D!TypeOK
<1>2. PICK to \in {"check", "notify"} :
        /\ step[w] = "counted" /\ step' = [step EXCEPT ![w] = to]
           /\ (to = "check" <=> last[w] = 1)
        /\ before' = [before EXCEPT ![t] = IF last[w] \in {0, 1} THEN 0 ELSE @]
        /\ UNCHANGED <<graph, state, runs, done, job, edges, last, asked>>
  BY <1>1 DEF D!NotifyCounted, D!Goto, D!tasks
<1>3. /\ DepTypes /\ graph \in Graphs /\ Client \notin Workers /\ Workers \subseteq D!Threads
      /\ Wrap > 0 /\ Wrap \in Nat
  <2>1. \A n \in Nat, m \in Nat : n < m => m > 0
    OBVIOUS
  <2>2. Counted(t) \in Nat /\ Counted(t) < Wrap /\ Wrap \in Nat
    BY InvFacts, GraphFacts
  <2>3. QED
    BY <2>1, <2>2, InvFacts
<1>4. /\ step'[w] = to /\ \A q \in D!Threads : q # w => step'[q] = step[q]
      /\ \A u \in Tasks : before'[u] = IF u = t /\ last[w] \in {0, 1} THEN 0 ELSE before[u]
  BY <1>2, <1>3 DEF DepTypes, D!TypeOK
<1>5. \A u \in Tasks : Ends(u)' = Ends(u) /\ (UnderWay(u)' <=> UnderWay(u))
  BY <1>2 DEF Ends, UnderWay
<1>6. \A u \in Tasks : Counted(u)' = Counted(u) /\ (Enough(u)' <=> Enough(u))
      /\ Due(u)' = Due(u)
  BY <1>2, <1>3, <1>5, SameCounts
<1>7. DepTypes'
  <2>1. before' \in [Tasks -> 0..(Wrap - 1)]
    BY <1>2, <1>3 DEF DepTypes, D!TypeOK
  <2>2. QED
    BY <1>2, <1>3, <2>1 DEF DepTypes, D!TypeOK, D!Threads
<1>8. ASSUME NEW u \in Tasks PROVE LifeOK(u)' /\ CountOK(u)'
  <2>1. LifeOK(u) /\ CountOK(u)
    BY DEF DepInv
  <2>2. last[w] \in {0, 1} => Enough(t)
    BY <1>1, <1>2, <1>3 DEF DepInv, PlaceOK
  <2>3. CountOK(u)'
    BY <1>4, <1>6, <2>1, <2>2 DEF CountOK
  <2>4. LifeOK(u)'
    BY <1>2, <1>5, <1>6, <2>1 DEF LifeOK
  <2>5. QED
    BY <2>3, <2>4
<1>9. ASSUME NEW q \in D!Threads PROVE PlaceOK(q)'
  <2>1. PlaceOK(q) /\ job[q] \in Tasks
    BY <1>3 DEF DepInv, DepTypes, D!TypeOK
  <2>2. CASE q = w
    BY <1>2, <1>4, <2>1, <2>2 DEF PlaceOK
  <2>3. CASE q # w
    BY <1>2, <1>4, <1>6, <2>1, <2>3 DEF PlaceOK
  <2>4. QED
    BY <2>2, <2>3
<1>10. \A u, v \in Workers : OneBody(u, v)'
  BY <1>2, <1>3, <1>4 DEF DepInv, OneBody
<1>11. ASSUME NEW u \in Tasks PROVE FireOK(u)'
  <2>1. FireOK(u) /\ runs[u] \in Nat /\ asked[u] \in Nat
    BY <1>3 DEF DepInv, DepTypes
  <2>2. Asks(u)' => Asks(u)
    BY <1>2, <1>3, <1>4 DEF Asks, DepTypes, D!Threads
  <2>3. \A v \in Workers : Fires(v, u)' => Fires(v, u)
    BY <1>2, <1>3, <1>4 DEF Fires
  <2>4. QED
    BY <1>2, <1>6, <2>1, <2>2, <2>3, FireKeeps
<1>12. QED
  BY <1>7, <1>8, <1>9, <1>10, <1>11 DEF DepInv

(* The end of t is one more to count for each of its dependents, and the   *)
(* worker owes it to each.                                                 *)
LEMMA FinishKeeps ==
  ASSUME DepInv, NEW w \in Workers, D!Finish(w)
  PROVE  DepInv'
<1>1. PICK t \in Tasks : t = job[w]
  BY InvFacts DEF DepTypes, D!TypeOK
<1>2. /\ step[w] = "body" /\ step' = [step EXCEPT ![w] = "notify"]
      /\ state' = [state EXCEPT ![t] = "completed"] /\ done' = done \cup {t}
      /\ edges' = [edges EXCEPT ![w] = D!Dependents(t)]
      /\ UNCHANGED <<graph, runs, before, job, last, asked>>
  BY <1>1 DEF D!Finish, D!Goto
<1>3. /\ DepTypes /\ graph \in Graphs /\ Client \notin Workers /\ Workers \subseteq D!Threads
      /\ Client \in D!Threads /\ \A u \in Tasks : Ends(u) \in Nat /\ Ends(u) <= 1 + graph.runs
      /\ \A u \in Tasks : runs[u] \in Nat /\ Counted(u) \in Nat
  BY InvFacts
<1>4. state[t] = "running" /\ edges[w] = {}
  BY <1>1, <1>2, <1>3 DEF DepInv, PlaceOK
<1>5. D!Dependents(t) \in SUBSET Tasks
  BY <1>3, GraphFacts
<1>6. /\ step'[w] = "notify" /\ state'[t] = "completed" /\ edges'[w] = D!Dependents(t)
      /\ \A q \in D!Threads : q # w => step'[q] = step[q] /\ edges'[q] = edges[q]
      /\ \A u \in Tasks : u # t => state'[u] = state[u]
  BY <1>2, <1>3 DEF DepTypes, D!TypeOK
<1>7. DepTypes'
  BY <1>2, <1>3, <1>5 DEF DepTypes, D!TypeOK, D!Threads
<1>8. /\ Ends(t)' = Ends(t) + 1 /\ \A u \in Tasks : u # t => Ends(u)' = Ends(u)
      /\ ~ UnderWay(t)' /\ \A u \in Tasks : u # t => (UnderWay(u)' <=> UnderWay(u))
  <2>1. Ends(t) = runs[t] - 1 /\ Ends(t)' = runs[t]
    BY <1>2, <1>4, <1>6 DEF Ends, UnderWay
  <2>2. \A u \in Tasks : u # t => Ends(u)' = Ends(u) /\ (UnderWay(u)' <=> UnderWay(u))
    BY <1>2, <1>6 DEF Ends, UnderWay
  <2>3. QED
    BY <1>3, <1>6, <2>1, <2>2 DEF UnderWay
<1>9. ASSUME NEW u \in Tasks
      PROVE  Counted(u)' = Counted(u) /\ (Enough(u)' <=> Enough(u)) /\ Due(u)' = Due(u)
  <2>1. D!Before(u)' = D!Before(u) /\ Due(u)' = Due(u) /\ D!Before(u) \in SUBSET Tasks
    BY <1>2, <1>3, GraphFacts DEF D!Before, Due, Into, D!Edges, D!Kept
  <2>2. \A e : e \in EndsBefore(u)'
          <=> \E p \in D!Before(u) : \E i \in 1..(Ends(p)') : e = <<p, i>>
    BY <2>1 DEF EndsBefore
  <2>3. CASE t \notin D!Before(u)
    <3>1. \A p \in D!Before(u) : Ends(p)' = Ends(p)
      BY <1>8, <2>1, <2>3
    <3>2. EndsBefore(u)' = EndsBefore(u)
      BY <2>2, <3>1, EndsIs
    <3>3. u \notin D!Dependents(t)
      BY <1>3, <2>3, GraphFacts
    <3>4. Owing(u)' = Owing(u)
      BY <1>3, <1>4, <1>6, <3>3 DEF Owing
    <3>5. QED
      BY <2>1, <3>2, <3>4 DEF Counted, Enough
  <2>4. CASE t \in D!Before(u)
    <3>1. EndsBefore(u)' = EndsBefore(u) \cup {<<t, Ends(t) + 1>>}
      <4>1. \A i : i \in 1..(Ends(t) + 1) <=> i \in 1..Ends(t) \/ i = Ends(t) + 1
        BY <1>3
      <4>2. ASSUME NEW e \in EndsBefore(u)' PROVE e \in EndsBefore(u) \cup {<<t, Ends(t) + 1>>}
        <5>0. PICK p \in D!Before(u) : \E i \in 1..(Ends(p)') : e = <<p, i>>
          BY <2>2
        <5>1. PICK i \in 1..(Ends(p)') : e = <<p, i>>
          BY <5>0
        <5>2. CASE p = t
          BY <1>8, <4>1, <5>1, <5>2, EndsIs
        <5>3. CASE p # t
          BY <1>8, <2>1, <5>1, <5>3, EndsIs
        <5>4. QED
          BY <5>2, <5>3
      <4>3. ASSUME NEW e \in EndsBefore(u) PROVE e \in EndsBefore(u)'
        <5>0. PICK p \in D!Before(u) : \E i \in 1..Ends(p) : e = <<p, i>>
          BY EndsIs
        <5>1. PICK i \in 1..Ends(p) : e = <<p, i>>
          BY <5>0
        <5>2. i \in 1..(Ends(p)')
          BY <1>8, <2>1, <4>1, <5>1
        <5>3. QED
          BY <2>2, <5>1, <5>2
      <4>4. <<t, Ends(t) + 1>> \in EndsBefore(u)'
        BY <1>8, <2>2, <2>4, <4>1
      <4>5. QED
        BY <4>2, <4>3, <4>4
    <3>2. <<t, Ends(t) + 1>> \notin EndsBefore(u)
      <4>1. Ends(t) + 1 \notin 1..Ends(t)
        BY <1>3
      <4>2. QED
        BY <4>1, EndsIs
    <3>3. Cardinality(EndsBefore(u)') = Cardinality(EndsBefore(u)) + 1
          /\ Cardinality(EndsBefore(u)) \in Nat
      BY <1>3, <3>1, <3>2, EndsAre, FS_AddElement
    <3>4. u \in D!Dependents(t)
      BY <1>3, <2>4, GraphFacts
    <3>5. Owing(u)' = Owing(u) \cup {w} /\ w \notin Owing(u)
      BY <1>3, <1>4, <1>6, <3>4 DEF Owing
    <3>6. Cardinality(Owing(u)') = Cardinality(Owing(u)) + 1 /\ Cardinality(Owing(u)) \in Nat
      BY <3>5, OwingIs, FS_AddElement
    <3>7. \A a, b \in Nat : (a + 1) - (b + 1) = a - b
      OBVIOUS
    <3>8. Counted(u)' = Counted(u)
      BY <3>3, <3>6, <3>7 DEF Counted
    <3>9. QED
      BY <2>1, <3>8 DEF Enough
  <2>5. QED
    BY <2>3, <2>4
<1>10. ASSUME NEW u \in Tasks PROVE LifeOK(u)' /\ CountOK(u)'
  <2>1. LifeOK(u) /\ CountOK(u)
    BY DEF DepInv
  <2>2. CountOK(u)'
    BY <1>2, <1>9, <2>1 DEF CountOK
  <2>3. LifeOK(u)'
    <3>1. CASE u = t
      BY <1>2, <1>3, <1>6, <1>8, <3>1 DEF LifeOK
    <3>2. CASE u # t
      BY <1>2, <1>6, <1>8, <1>9, <2>1, <3>2 DEF LifeOK
    <3>3. QED
      BY <3>1, <3>2
  <2>4. QED
    BY <2>2, <2>3
<1>11. ASSUME NEW q \in D!Threads PROVE PlaceOK(q)'
  <2>1. PlaceOK(q) /\ job[q] \in Tasks
    BY <1>3 DEF DepInv, DepTypes, D!TypeOK
  <2>2. CASE q = w
    BY <1>6, <2>2 DEF PlaceOK
  <2>3. CASE q # w
    <3>1. step[q] = "body" => job[q] # t
      <4>1. q = Client => step[q] # "body"
        BY <1>3 DEF DepTypes
      <4>2. q \in Workers => OneBody(q, w)
        BY DEF DepInv
      <4>3. QED
        BY <1>1, <1>2, <2>3, <4>1, <4>2 DEF OneBody, D!Threads
    <3>2. QED
      BY <1>2, <1>6, <1>9, <2>1, <2>3, <3>1 DEF PlaceOK
  <2>4. QED
    BY <2>2, <2>3
<1>12. \A u, v \in Workers : OneBody(u, v)'
  BY <1>2, <1>3, <1>6 DEF DepInv, OneBody
<1>13. ASSUME NEW u \in Tasks PROVE FireOK(u)'
  <2>1. FireOK(u) /\ runs[u] \in Nat /\ asked[u] \in Nat
    BY <1>3 DEF DepInv, DepTypes
  <2>2. Asks(u)' => Asks(u)
    BY <1>2, <1>3, <1>6 DEF Asks
  <2>3. \A v \in Workers : Fires(v, u)' => Fires(v, u)
    BY <1>2, <1>3, <1>6 DEF Fires
  <2>4. QED
    BY <1>2, <1>9, <2>1, <2>2, <2>3, FireKeeps
<1>14. QED
  BY <1>7, <1>10, <1>11, <1>12, <1>13 DEF DepInv

(* One off the count of t, and one less who owes it. *)
LEMMA NotifyNextKeeps ==
  ASSUME DepInv, NEW w \in Workers, D!NotifyNext(w)
  PROVE  DepInv'
<1>1. PICK t \in edges[w] :
        /\ edges' = [edges EXCEPT ![w] = @ \ {t}] /\ job' = [job EXCEPT ![w] = t]
        /\ last' = [last EXCEPT ![w] = before[t]]
        /\ before' = [before EXCEPT ![t] = (@ - 1) % Wrap]
  BY DEF D!NotifyNext
<1>2. /\ step[w] = "notify" /\ step' = [step EXCEPT ![w] = "counted"]
      /\ UNCHANGED <<graph, state, runs, done, asked>>
  BY DEF D!NotifyNext, D!Goto, D!tasks
<1>3. /\ DepTypes /\ graph \in Graphs /\ Client \notin Workers /\ Workers \subseteq D!Threads
      /\ Client \in D!Threads /\ \A u \in Tasks : Ends(u) \in Nat /\ Ends(u) <= 1 + graph.runs
      /\ \A u \in Tasks : runs[u] \in Nat /\ Counted(u) \in Nat /\ Due(u) \in Nat
  BY InvFacts
<1>4. t \in Tasks
  BY <1>1, <1>3 DEF DepTypes, D!TypeOK
<1>5. PICK n \in Nat : before[t] = n /\ n < Wrap /\ Wrap \in Nat
  BY <1>3, <1>4, GraphFacts DEF DepTypes, D!TypeOK
<1>6. /\ step'[w] = "counted" /\ job'[w] = t /\ last'[w] = n /\ edges'[w] = edges[w] \ {t}
      /\ \A q \in D!Threads : q # w => /\ step'[q] = step[q] /\ job'[q] = job[q]
                                       /\ last'[q] = last[q] /\ edges'[q] = edges[q]
      /\ before'[t] = (n - 1) % Wrap /\ \A u \in Tasks : u # t => before'[u] = before[u]
  BY <1>1, <1>2, <1>3, <1>4, <1>5 DEF DepTypes, D!TypeOK
<1>7. before'[t] = (IF n = 0 THEN Wrap - 1 ELSE n - 1) /\ before'[t] \in 0..(Wrap - 1)
  <2>1. \A a, m \in Nat : a < m => /\ (a - 1) % m = (IF a = 0 THEN m - 1 ELSE a - 1)
                                   /\ (IF a = 0 THEN m - 1 ELSE a - 1) \in 0..(m - 1)
    OBVIOUS
  <2>2. (n - 1) % Wrap = (IF n = 0 THEN Wrap - 1 ELSE n - 1)
        /\ (IF n = 0 THEN Wrap - 1 ELSE n - 1) \in 0..(Wrap - 1)
    BY <1>5, <2>1, Zenon
  <2>3. QED
    BY <1>6, <2>2, Zenon
<1>8. DepTypes'
  <2>1. before' \in [Tasks -> 0..(Wrap - 1)]
    BY <1>1, <1>3, <1>4, <1>6, <1>7 DEF DepTypes, D!TypeOK
  <2>2. n \in 0..(Wrap - 1)
    BY <1>5
  <2>3. QED
    BY <1>1, <1>2, <1>3, <1>4, <1>5, <2>1, <2>2 DEF DepTypes, D!TypeOK, D!Threads
<1>9. \A u \in Tasks : Ends(u)' = Ends(u) /\ (UnderWay(u)' <=> UnderWay(u))
  BY <1>2 DEF Ends, UnderWay
<1>10. \A u : Due(u)' = Due(u) /\ D!Before(u)' = D!Before(u)
  BY <1>2 DEF Due, Into, D!Before, D!Edges, D!Kept
<1>11. \A u \in Tasks : EndsBefore(u)' = EndsBefore(u)
  BY <1>3, <1>9, <1>10, GraphFacts DEF EndsBefore
<1>12. \A u \in Tasks : u # t => Owing(u)' = Owing(u)
  BY <1>3, <1>6 DEF Owing
<1>13. Counted(t)' = Counted(t) + 1
  <2>1. Owing(t)' = Owing(t) \ {w} /\ w \in Owing(t)
    BY <1>1, <1>3, <1>6 DEF Owing
  <2>2. Cardinality(Owing(t)') = Cardinality(Owing(t)) - 1 /\ Cardinality(Owing(t)) \in Nat
    BY <2>1, OwingIs, FS_RemoveElement
  <2>3. Cardinality(EndsBefore(t)) \in Nat
    BY <1>3, <1>4, EndsAre
  <2>4. \A a, b \in Nat : a - (b - 1) = (a - b) + 1
    OBVIOUS
  <2>5. QED
    BY <1>4, <1>11, <2>2, <2>3, <2>4 DEF Counted
<1>14. \A u \in Tasks : u # t => Counted(u)' = Counted(u) /\ (Enough(u)' <=> Enough(u))
  BY <1>10, <1>11, <1>12 DEF Counted, Enough
<1>15. PICK c \in Nat, d \in Nat : c = Counted(t) /\ d = Due(t)
  BY <1>3, <1>4
<1>16. /\ Counted(t)' = c + 1 /\ Due(t)' = d
       /\ Enough(t) <=> c >= d
       /\ Enough(t)' <=> c + 1 >= d
  BY <1>10, <1>13, <1>15 DEF Enough
<1>17. c + 1 < Wrap
  <2>1. \A a, b, m \in Nat : a - b = c + 1 /\ a < m => c + 1 < m
    OBVIOUS
  <2>2. Cardinality(EndsBefore(t)) \in Nat /\ Cardinality(EndsBefore(t)) < Wrap
    BY <1>3, <1>4, EndsAre
  <2>3. Cardinality(Owing(t)) \in Nat /\ Cardinality(Owing(t)') \in Nat
    <3>1. Owing(t)' \in SUBSET Owing(t)
      BY <1>3, <1>6 DEF Owing
    <3>2. QED
      BY <3>1, OwingIs, FS_Subset, FS_CardinalityType
  <2>4. Cardinality(EndsBefore(t)) - Cardinality(Owing(t)') = c + 1
    BY <1>4, <1>11, <1>16 DEF Counted
  <2>5. QED
    BY <1>5, <2>1, <2>2, <2>3, <2>4
(* The count was what is missing, or it is zero or far above one. *)
<1>18. /\ ~ Enough(t) => c < d /\ n = d - c
       /\ Enough(t) => c >= d /\ (n = 0 \/ n >= Wrap - (c - d))
  <2>1. \A a, b \in Nat : ~ a >= b => a < b
    OBVIOUS
  <2>2. CountOK(t)
    BY <1>4 DEF DepInv
  <2>3. QED
    BY <1>5, <1>15, <1>16, <2>1, <2>2, Zenon DEF CountOK
<1>19. /\ Enough(t) => n # 1 /\ Enough(t)'
       /\ n \in {0, 1} => Enough(t)'
       /\ n = 1 => c + 1 = d
  <2>1. /\ \A a, b, m, k \in Nat : a >= b /\ a + 1 < m /\ (k = 0 \/ k >= m - (a - b)) => k # 1
        /\ \A a, b \in Nat : a >= b => a + 1 >= b
        /\ \A a, b \in Nat : a < b /\ b - a \in {0, 1} => a + 1 >= b
        /\ \A a, b \in Nat : b - a = 1 => a + 1 = b
    OBVIOUS
  <2>2. Enough(t) => n # 1 /\ Enough(t)'
    BY <1>5, <1>16, <1>17, <1>18, <2>1, Zenon
  <2>3. ~ Enough(t) /\ n \in {0, 1} => Enough(t)'
    BY <1>16, <1>18, <2>1
  <2>4. n = 1 => c + 1 = d
    BY <1>18, <2>1, <2>2
  <2>5. QED
    BY <2>2, <2>3, <2>4
<1>20. CountOK(t)'
  <2>1. \A a, b, m, k \in Nat :
          /\ a < b /\ k = b - a => k # 0 /\ k - 1 = b - (a + 1)
          /\ a < b /\ k = b - a /\ a + 1 >= b => k - 1 = 0
          /\ a >= b => ~ ~ a + 1 >= b
          /\ a >= b /\ k = 0 => m - 1 >= m - ((a + 1) - b)
          /\ a >= b /\ k # 0 /\ (k = 0 \/ k >= m - (a - b)) => k - 1 >= m - ((a + 1) - b)
    OBVIOUS
  <2>2. Counted(t)' \in Nat
    BY <1>16
  <2>3. CASE Enough(t)
    <3>1. before'[t] >= Wrap - ((c + 1) - d)
      <4>1. c >= d /\ (n = 0 \/ n >= Wrap - (c - d)) /\ Wrap \in Nat
        BY <1>5, <1>18, <2>3
      <4>2. CASE n = 0
        <5>1. before'[t] = Wrap - 1
          BY <1>7, <4>2
        <5>2. Wrap - 1 >= Wrap - ((c + 1) - d)
          BY <2>1, <4>1, <4>2, Zenon
        <5>3. QED
          BY <5>1, <5>2, Zenon
      <4>3. CASE n # 0
        <5>1. before'[t] = n - 1
          BY <1>7, <4>3
        <5>2. n - 1 >= Wrap - ((c + 1) - d)
          BY <2>1, <4>1, <4>3, Zenon
        <5>3. QED
          BY <5>1, <5>2, Zenon
      <4>4. QED
        BY <4>2, <4>3
    <3>2. QED
      BY <1>16, <1>19, <2>2, <2>3, <3>1, Zenon DEF CountOK
  <2>4. CASE ~ Enough(t)
    <3>1. before'[t] = n - 1 /\ n - 1 = d - (c + 1) /\ (c + 1 >= d => n - 1 = 0)
      BY <1>5, <1>7, <1>18, <2>1, <2>4, Zenon
    <3>2. QED
      BY <1>16, <2>2, <3>1, Zenon DEF CountOK
  <2>5. QED
    BY <2>3, <2>4
<1>21. \A u \in Tasks : Enough(u) => Enough(u)'
  BY <1>14, <1>19
<1>22. ASSUME NEW u \in Tasks PROVE LifeOK(u)' /\ CountOK(u)'
  <2>1. LifeOK(u) /\ CountOK(u)
    BY DEF DepInv
  <2>2. CASE u = t
    BY <1>2, <1>9, <1>20, <1>21, <2>1, <2>2 DEF LifeOK
  <2>3. CASE u # t
    <3>1. LifeOK(u)'
      BY <1>2, <1>9, <1>21, <2>1 DEF LifeOK
    <3>2. CountOK(u)'
      BY <1>6, <1>10, <1>14, <2>1, <2>3 DEF CountOK
    <3>3. QED
      BY <3>1, <3>2
  <2>4. QED
    BY <2>2, <2>3
<1>23. ASSUME NEW q \in D!Threads PROVE PlaceOK(q)'
  <2>1. PlaceOK(q) /\ job[q] \in Tasks
    BY <1>3 DEF DepInv, DepTypes, D!TypeOK
  <2>2. CASE q = w
    BY <1>6, <1>19, <2>2 DEF PlaceOK
  <2>3. CASE q # w
    BY <1>2, <1>6, <1>21, <2>1, <2>3 DEF PlaceOK
  <2>4. QED
    BY <2>2, <2>3
<1>24. \A u, v \in Workers : OneBody(u, v)'
  BY <1>2, <1>3, <1>6 DEF DepInv, OneBody
<1>25. ASSUME NEW u \in Tasks PROVE FireOK(u)'
  <2>1. FireOK(u) /\ runs[u] \in Nat /\ asked[u] \in Nat
    BY <1>3 DEF DepInv, DepTypes
  <2>2. Asks(u)' => Asks(u)
    BY <1>3, <1>6 DEF Asks
  <2>3. \A v \in Workers : v # w => (Fires(v, u)' <=> Fires(v, u))
    BY <1>3, <1>6 DEF Fires
  <2>4. Fires(w, u)' <=> u = t /\ n = 1
    BY <1>6 DEF Fires
  <2>5. CASE ~ (u = t /\ n = 1)
    <3>1. \A v \in Workers : Fires(v, u)' => Fires(v, u)
      BY <2>3, <2>4, <2>5
    <3>2. QED
      BY <1>2, <1>10, <1>21, <2>1, <2>2, <3>1, FireKeeps
  (* The one that takes the count to zero, and the first to do so. *)
  <2>6. CASE u = t /\ n = 1
    <3>1. ~ Enough(t) /\ Enough(t)' /\ c + 1 = d /\ d > 0
      <4>1. \A a, b \in Nat : a + 1 = b => b > 0
        OBVIOUS
      <4>2. QED
        BY <1>19, <2>6, <4>1
    <3>2. \A v \in Workers : ~ Fires(v, t)
      BY <2>1, <2>6, <3>1 DEF FireOK
    <3>3. \A v \in Workers : Fires(v, u)' <=> v = w
      BY <2>3, <2>4, <2>6, <3>2
    <3>4. /\ OneIf(\E v \in Workers : Fires(v, u)) = 0
          /\ OneIf(\E v \in Workers : Fires(v, u)') = 1
          /\ OneIf(Enough(u) /\ Due(u) > 0) = 0
          /\ OneIf(Enough(u)' /\ Due(u)' > 0) = 1
      BY <1>16, <2>6, <3>1, <3>2, <3>3, Zenon DEF OneIf
    <3>5. /\ OneIf(Asks(u)) \in {0, 1} /\ OneIf(Asks(u)') \in {0, 1}
          /\ OneIf(Asks(u)') = 1 => OneIf(Asks(u)) = 1
      BY <2>2 DEF OneIf
    <3>6. runs[u] + OneIf(Asks(u)) + 0 <= asked[u] + 0
      BY <2>1, <3>4, Zenon DEF FireOK
    <3>7. \A r, a \in Nat, x, y \in {0, 1} :
            r + x + 0 <= a + 0 /\ (y = 1 => x = 1) => r + y + 1 <= a + 1
      OBVIOUS
    <3>8. runs[u] + OneIf(Asks(u)') + 1 <= asked[u] + 1
      BY <2>1, <3>5, <3>6, <3>7, Zenon
    <3>9. runs'[u] + OneIf(Asks(u)') + OneIf(\E v \in Workers : Fires(v, u)')
            <= asked'[u] + OneIf(Enough(u)' /\ Due(u)' > 0)
      BY <1>2, <3>4, <3>8, Zenon
    <3>10. asked'[u] <= graph'.runs
      BY <1>2, <2>1 DEF FireOK
    <3>11. \A v \in Workers : Fires(v, u)' => Enough(u)' /\ Due(u)' > 0
      BY <1>16, <2>6, <3>1
    <3>12. QED
      BY <3>3, <3>9, <3>10, <3>11 DEF FireOK
  <2>7. QED
    BY <2>5, <2>6
<1>26. QED
  BY <1>8, <1>22, <1>23, <1>24, <1>25 DEF DepInv

(* At first no task has ended and every count is that of the predecessors. *)
LEMMA DepsInitially == ASSUME D!Init PROVE DepInv
<1>1. /\ graph \in Graphs /\ Client \notin Workers /\ IsFiniteSet(Workers)
      /\ state = [t \in Tasks |-> "dormant"] /\ step = [p \in D!Threads |-> "idle"]
      /\ edges = [p \in D!Threads |-> {}] /\ last = [p \in D!Threads |-> 0]
      /\ asked = [t \in Tasks |-> 0] /\ runs = [t \in Tasks |-> 0] /\ done = {}
      /\ Workers \subseteq D!Threads /\ Client \in D!Threads
  BY MCAssumption, SameSizes DEF MCAssumption, D!Init, D!DepsAssumption, D!Threads
<1>2. before = [t \in Tasks |-> Due(t)]
  BY SameSizes DEF D!Init, Due, Into
<1>3. \A t \in Tasks : ~ UnderWay(t) /\ Ends(t) = 0
  BY <1>1 DEF UnderWay, Ends
<1>4. graph.runs \in Nat /\ \A t \in Tasks : D!Before(t) \in SUBSET Tasks
  BY <1>1, GraphFacts
<1>5. \A t \in Tasks : EndsBefore(t) = {} /\ Owing(t) = {}
  BY <1>1, <1>3, <1>4 DEF EndsBefore, Owing
<1>6. \A t \in Tasks : Counted(t) = 0
  BY <1>5, FS_EmptySet DEF Counted
<1>7. \A t \in Tasks : Due(t) \in Nat /\ Due(t) <= Cardinality(Tasks)
      /\ Cardinality(Tasks) \in Nat
  BY <1>1, DueIs
<1>8. \A t \in Tasks : before[t] = Due(t) /\ before[t] \in 0..(Wrap - 1)
  <2>1. Wrap \in Nat /\ Wrap > Cardinality(Tasks) * (1 + graph.runs)
    BY <1>1, GraphFacts
  <2>2. \A n, g \in Nat : n <= n * (1 + g)
    <3>1. \A n, g \in Nat : n * (1 + g) = n + n * g /\ n * g \in Nat
      OBVIOUS
    <3>2. \A n, m \in Nat : n <= n + m
      OBVIOUS
    <3>3. QED
      BY <3>1, <3>2, Zenon
  <2>3. \A d, n, m, k \in Nat : d <= n /\ n <= k /\ m > k => d \in 0..(m - 1)
    OBVIOUS
  <2>4. \A n, g \in Nat : n * (1 + g) \in Nat
    OBVIOUS
  <2>5. ASSUME NEW t \in Tasks PROVE Due(t) \in 0..(Wrap - 1)
    BY <1>4, <1>7, <2>1, <2>2, <2>3, <2>4, Zenon
  <2>6. QED
    BY <1>2, <2>5
<1>9. DepTypes
  <2>1. before \in [Tasks -> 0..(Wrap - 1)]
    BY <1>2, <1>8
  <2>2. job \in [D!Threads -> Tasks]
    <3>1. Tasks # {}
      BY MCAssumption, SameSizes DEF MCAssumption, D!DepsAssumption
    <3>2. QED
      BY <3>1 DEF D!Init
  <2>3. 0 \in 0..(Wrap - 1)
    <3>1. \A k, m \in Nat : k \in 0..(m - 1) => 0 \in 0..(m - 1)
      OBVIOUS
    <3>2. QED
      BY <1>1, <1>7, <1>8, <2>2, <3>1, GraphFacts
  <2>4. QED
    BY <1>1, <2>1, <2>2, <2>3 DEF DepTypes, D!TypeOK
<1>10. ASSUME NEW t \in Tasks PROVE LifeOK(t) /\ CountOK(t) /\ FireOK(t)
  <2>1. state[t] = "dormant" /\ runs[t] = 0 /\ asked[t] = 0 /\ t \notin done
    BY <1>1
  <2>2. LifeOK(t)
    BY <1>3, <2>1 DEF LifeOK
  <2>3. CountOK(t)
    <3>1. \A d \in Nat : /\ d - 0 = d /\ (0 >= d => d = 0)
      OBVIOUS
    <3>2. QED
      BY <1>6, <1>7, <1>8, <3>1 DEF CountOK, Enough
  <2>4. \A w \in Workers : ~ Fires(w, t)
    BY <1>1 DEF Fires
  <2>5. ~ Asks(t)
    BY <1>1 DEF Asks
  <2>6. ~ (Enough(t) /\ Due(t) > 0)
    <3>1. \A d \in Nat : 0 >= d => ~ d > 0
      OBVIOUS
    <3>2. QED
      BY <1>6, <1>7, <3>1 DEF Enough
  <2>7. OneIf(Asks(t)) = 0 /\ OneIf(\E w \in Workers : Fires(w, t)) = 0
        /\ OneIf(Enough(t) /\ Due(t) > 0) = 0
    BY <2>4, <2>5, <2>6, Zenon DEF OneIf
  <2>8. runs[t] + OneIf(Asks(t)) + OneIf(\E w \in Workers : Fires(w, t))
          <= asked[t] + OneIf(Enough(t) /\ Due(t) > 0)
    <3>1. 0 + 0 + 0 <= 0 + 0
      OBVIOUS
    <3>2. QED
      BY <2>1, <2>7, <3>1, Zenon
  <2>9. asked[t] <= graph.runs
    BY <1>4, <2>1
  <2>10. FireOK(t)
    BY <2>4, <2>8, <2>9 DEF FireOK
  <2>11. QED
    BY <2>2, <2>3, <2>10
<1>11. \A p \in D!Threads : PlaceOK(p)
  BY <1>1 DEF PlaceOK
<1>12. \A v, w \in Workers : OneBody(v, w)
  BY <1>1 DEF OneBody
<1>13. QED
  BY <1>9, <1>10, <1>11, <1>12 DEF DepInv

(* Every step keeps the invariant. *)
LEMMA DepsStep == ASSUME DepInv, [D!Next]_(D!vars) PROVE DepInv'
<1>1. CASE UNCHANGED D!vars
  <2>1. UNCHANGED <<graph, state, before, step, job, edges, last, asked, runs, done>>
    BY <1>1 DEF D!vars
  <2>2. \A t \in Tasks : LifeOK(t)' /\ CountOK(t)' /\ (Enough(t)' <=> Enough(t))
        /\ Due(t)' = Due(t)
    BY <2>1, CalmDeps
  <2>3. DepTypes'
    BY <2>1 DEF DepInv, DepTypes, D!TypeOK, D!Threads
  <2>4. ASSUME NEW p \in D!Threads PROVE PlaceOK(p)'
    <3>1. job[p] \in Tasks
      BY InvFacts DEF DepTypes, D!TypeOK
    <3>2. QED
      BY <2>1, <2>2, <3>1 DEF DepInv, PlaceOK
  <2>5. \A v, w \in Workers : OneBody(v, w)'
    BY <2>1 DEF DepInv, OneBody
  <2>6. ASSUME NEW t \in Tasks PROVE FireOK(t)'
    <3>1. FireOK(t) /\ runs[t] \in Nat /\ asked[t] \in Nat
      BY InvFacts DEF DepInv
    <3>2. (Asks(t)' => Asks(t)) /\ \A w \in Workers : Fires(w, t)' => Fires(w, t)
      BY <2>1 DEF Asks, Fires
    <3>3. QED
      BY <2>1, <2>2, <3>1, <3>2, FireKeeps
  <2>7. QED
    BY <2>2, <2>3, <2>4, <2>5, <2>6 DEF DepInv
<1>2. CASE D!Ask
  BY <1>2, AskKeeps
<1>3. CASE \E p \in D!Threads : D!Activate(p, job[p])
  <2>1. PICK p \in D!Threads : D!Activate(p, job[p])
    BY <1>3
  <2>2. QED
    BY <2>1, AllowKeeps, ReadyKeeps DEF D!Activate
<1>4. CASE \E w \in Workers : D!Worker(w)
  <2>1. PICK w \in Workers : D!Worker(w)
    BY <1>4
  <2>2. QED
    BY <2>1, RunTaskKeeps, FinishKeeps, NotifyNextKeeps, NotifyCountedKeeps,
       NotifyDoneKeeps DEF D!Worker
<1>5. QED
  BY <1>1, <1>2, <1>3, <1>4 DEF D!Next

(* A task under way has been counted down by as many ends as it has tasks  *)
(* to run after.  None of them ended twice, so each of them has ended.     *)
LEMMA DepsFollow == ASSUME DepInv PROVE D!TypeOK /\ D!RunsAfterAll /\ D!DependentOnce
<1>1. D!TypeOK
  BY DEF DepInv, DepTypes
<1>2. D!DependentOnce
  BY InvFacts DEF D!DependentOnce
<1>3. D!RunsAfterAll
  <2>1. SUFFICES ASSUME NEW t \in Tasks, UnderWay(t),
                        D!Repeated(t) => Cardinality(D!Before(t)) = 1,
                        NEW p \in D!Before(t), p \notin done
                 PROVE  FALSE
    BY SameSizes DEF D!RunsAfterAll, UnderWay
  <2>2. graph \in Graphs /\ D!Before(t) \in SUBSET Tasks /\ p \in Tasks
    BY InvFacts, GraphFacts
  <2>3. \A q \in Tasks : Ends(q) \in Nat /\ Ends(q) <= 1 + graph.runs /\ runs[q] \in Nat
    BY InvFacts
  <2>4. LifeOK(t) /\ CountOK(t) /\ LifeOK(p)
    BY <2>2 DEF DepInv
  <2>5. Ends(p) = 0
    BY <2>1, <2>2, <2>3, <2>4 DEF LifeOK
  <2>6. IsFiniteSet(D!Before(t)) /\ Due(t) = Cardinality(D!Before(t)) /\ Due(t) \in Nat
    BY <2>2, DueIs
  <2>7. /\ IsFiniteSet(EndsBefore(t)) /\ Cardinality(EndsBefore(t)) \in Nat
        /\ Counted(t) \in Nat /\ Counted(t) <= Cardinality(EndsBefore(t))
           /\ Counted(t) >= Due(t)
    BY <2>1, <2>2, <2>3, <2>4, EndsAre, CountedIs DEF LifeOK, Enough
  <2>8. CASE D!Repeated(t)
    <3>1. PICK q : D!Before(t) = {q}
      BY <2>1, <2>6, <2>8, FS_CardinalityType, FS_Singleton
    <3>2. EndsBefore(t) = {}
      BY <2>1, <2>5, <3>1, EndsIs
    <3>3. \A a, b \in Nat : a <= 0 /\ a >= b => b # 1
      OBVIOUS
    <3>4. QED
      BY <2>1, <2>6, <2>7, <2>8, <3>2, <3>3, FS_EmptySet
  <2>9. CASE ~ D!Repeated(t)
    <3>1. EndsBefore(t) \subseteq (D!Before(t) \ {p}) \X {1}
      <4>1. ASSUME NEW e \in EndsBefore(t) PROVE e \in (D!Before(t) \ {p}) \X {1}
        <5>1. PICK q \in D!Before(t) : \E i \in 1..Ends(q) : e = <<q, i>>
          BY EndsIs
        <5>2. PICK i \in 1..Ends(q) : e = <<q, i>>
          BY <5>1
        <5>3. Ends(q) <= 1 /\ Ends(q) \in Nat
          <6>1. ~ runs[q] > 1 /\ runs[q] \in Nat
            BY <2>2, <2>3, <2>9 DEF D!Repeated
          <6>2. QED
            BY <2>2, <2>3, <6>1 DEF Ends
        <5>4. i = 1 /\ q # p
          BY <2>5, <5>2, <5>3
        <5>5. QED
          BY <5>2, <5>4
      <4>2. QED
        BY <4>1
    <3>2. IsFiniteSet(D!Before(t) \ {p}) /\ Cardinality(D!Before(t) \ {p}) = Due(t) - 1
      BY <2>6, FS_RemoveElement
    <3>3. /\ IsFiniteSet((D!Before(t) \ {p}) \X {1})
          /\ Cardinality((D!Before(t) \ {p}) \X {1})
               = Cardinality(D!Before(t) \ {p}) * Cardinality({1})
      BY <3>2, FS_Product, FS_Singleton
    <3>4. Cardinality(EndsBefore(t)) <= Cardinality((D!Before(t) \ {p}) \X {1})
      BY <3>1, <3>3, FS_Subset
    <3>5. Cardinality({1}) = 1
      BY FS_Singleton
    <3>6. \A a, b, c \in Nat, k \in Int : a >= b /\ a <= c /\ k = b - 1 => ~ c <= k * 1
      OBVIOUS
    <3>7. QED
      BY <2>6, <2>7, <3>2, <3>3, <3>4, <3>5, <3>6
  <2>10. QED
    BY <2>8, <2>9
<1>4. QED
  BY <1>1, <1>2, <1>3

-----------------------------------------------------------------------------
(* Lanes.  The jobs that have left a lane are the first to have entered it *)
(* (LaneQueueOK); a thread has each of them in hand from the pop to its    *)
(* end, and no job is in two hands (CrewOK, ApartOK).  A bound lane is     *)
(* drained by one thread at a time, so that all but the last of the jobs   *)
(* that have left it have ended (BoundOK).                                 *)

Crew == Submitters \cup Workers
LaneJobs == DOMAIN use.job

(* What a thread does from the pop to the end of the job. *)
WithJob == {"size", "clear", "recheck", "again", "run", "running"}
Draining == WithJob \cup {"pop", "release"}

LaneTypes ==
  /\ use \in LanePlans
  /\ cells \in [L!Lanes -> Seq([job : LaneJobs, ready : BOOLEAN])]
  /\ entered \in [L!Lanes -> Seq(LaneJobs)]
  /\ bits \in SUBSET L!Lanes
  /\ owner \in [L!Lanes -> {Nobody, Pump} \cup Workers]
  /\ fate \in [LaneJobs -> {"caller", "refused", "queued", "taken", "running", "done"}]
  /\ at \in [Crew -> Draining \cup {"idle", "publish", "mark", "scan", "acquire"}]
  /\ hand \in [Crew -> LaneJobs \cup {Nobody}]
  /\ ahead \in [Workers -> SUBSET L!Lanes]
  /\ lane \in [Crew -> L!Lanes \cup {0}]

(* The jobs that have left lane l are the first to have entered it. *)
Gone(l) == Len(entered[l]) - Len(cells[l])

LaneQueueOK(l) ==
  /\ Gone(l) \in Nat
  /\ \A i \in 1..Len(cells[l]) : cells[l][i].job = entered[l][Gone(l) + i]
  /\ \A i \in 1..Len(entered[l]) :
       /\ use.job[entered[l][i]] = l
       /\ fate[entered[l][i]] \in IF i > Gone(l) THEN {"queued"} ELSE {"taken", "running", "done"}
  /\ \A i, k \in 1..Len(entered[l]) : entered[l][i] = entered[l][k] => i = k

HoldsJob(d) == at[d] \in WithJob \/ (at[d] = "release" /\ hand[d] # Nobody)

(* A thread has a job in hand from the pop on; it is of the lane the       *)
(* thread works on.  Who drains a bound lane is the one it is bound to,    *)
(* and owns it if that is one of several.                                  *)
CrewOK(d) ==
  /\ at[d] \notin {"idle", "publish", "mark"} => d \in Workers
  /\ at[d] \in Draining \cup {"publish", "mark", "acquire"} => lane[d] \in L!Lanes
  /\ at[d] \in {"idle", "scan", "acquire", "pop"} => hand[d] = Nobody
  /\ HoldsJob(d) => /\ hand[d] \in LaneJobs /\ use.job[hand[d]] = lane[d]
                    /\ fate[hand[d]] = IF at[d] = "running" THEN "running" ELSE "taken"
  /\ at[d] = "release" /\ hand[d] # Nobody => L!Shared(lane[d])
  /\ at[d] \in Draining \cup {"acquire"} /\ ~ L!Shared(lane[d]) => use.bound[lane[d]] = L!Me(d)
  /\ at[d] = "acquire" => d \in use.pumping \/ L!Shared(lane[d])
  /\ at[d] \in Draining /\ ~ L!Shared(lane[d]) /\ d \in use.pumping => owner[lane[d]] = Pump

(* Two threads have two jobs, and a bound lane is drained by one. *)
ApartOK(d, e) ==
  d # e => /\ HoldsJob(d) /\ HoldsJob(e) => hand[d] # hand[e]
           /\ at[d] \in Draining /\ at[e] \in Draining /\ lane[d] = lane[e] => L!Shared(lane[d])

(* Of the jobs that have left a bound lane, all but the last have ended. *)
BoundOK(l) ==
  ~ L!Shared(l) =>
    \A i \in 1..Gone(l) :
      \/ fate[entered[l][i]] = "done"
      \/ i = Gone(l) /\ \E d \in Crew : HoldsJob(d) /\ hand[d] = entered[l][i]

LaneInv ==
  /\ LaneTypes
  /\ \A l \in L!Lanes : LaneQueueOK(l) /\ BoundOK(l)
  /\ \A d \in Crew : CrewOK(d)
  /\ \A d, e \in Crew : ApartOK(d, e)

(* Min of numbers is one of them. *)
LEMMA LowestOf ==
  ASSUME NEW T \in SUBSET Nat, T # {}
  PROVE  L!Min(T) \in T
<1> DEFINE R == {p \in Nat \X Nat : p[1] < p[2]}
<1>1. IsWellFoundedOn(R, Nat)
  BY NatLessThanWellFounded, Zenon DEF OpToRel
<1>2. PICK i \in T : \A j \in T : ~ <<j, i>> \in R
  <2> HIDE DEF R
  <2>1. QED
    BY <1>1, WFMin
<1>3. ASSUME NEW j \in T PROVE i <= j
  <2>1. i \in Nat /\ j \in Nat /\ <<j, i>> \notin R
    BY <1>2
  <2>2. ~ j < i
    BY <2>1
  <2>3. QED
    BY <2>1, <2>2
<1>4. QED
  BY <1>3 DEF L!Min

(* What LaneAssumption says of the plan of a behaviour. *)
LEMMA PlanFacts ==
  ASSUME LaneTypes
  PROVE  /\ L!Lanes \subseteq Nat /\ use.hidden \subseteq L!Lanes
         /\ use.pumping \subseteq Workers /\ Pump \notin Workers /\ Pump # Nobody
         /\ Nobody \notin LaneJobs /\ Nobody \notin Workers
         /\ \A j \in LaneJobs : use.job[j] \in L!Lanes
         /\ \A d \in Workers : L!Me(d) \in {d, Pump} /\ L!Me(d) # Nobody
         /\ \A d \in Workers : d \in Crew
<1>1. use \in LanePlans
  BY DEF LaneTypes
<1>2. QED
  BY <1>1, MCAssumption DEF MCAssumption, L!LaneAssumption, LaneJobs, L!Lanes, L!Me, Crew

(* At first every lane is empty. *)
LEMMA LaneInitially == L!Init => LaneInv
<1> SUFFICES ASSUME L!Init PROVE LaneInv
  OBVIOUS
<1>1. LaneTypes
  BY DEF L!Init, LaneTypes, Crew, LaneJobs, L!Lanes
<1>2. ASSUME NEW l \in L!Lanes PROVE LaneQueueOK(l) /\ BoundOK(l)
  <2>1. Len(entered[l]) = 0 /\ Len(cells[l]) = 0
    BY DEF L!Init
  <2>2. QED
    BY <2>1 DEF LaneQueueOK, BoundOK, Gone
<1>3. \A d \in Crew : CrewOK(d)
  BY DEF L!Init, Crew, CrewOK, HoldsJob, WithJob, Draining
<1>4. \A d, e \in Crew : ApartOK(d, e)
  BY DEF L!Init, Crew, ApartOK, HoldsJob, WithJob, Draining
<1>5. QED
  BY <1>1, <1>2, <1>3, <1>4 DEF LaneInv

(* A step that neither moves nor changes a job: the lanes are as they      *)
(* were, and what is left to show is about the thread that takes it.       *)
LEMMA CalmStep ==
  ASSUME LaneInv, NEW d \in Crew, LaneTypes', UNCHANGED <<use, cells, entered, fate>>,
         \A t \in Crew : t # d => at'[t] = at[t] /\ hand'[t] = hand[t] /\ lane'[t] = lane[t],
         \A t \in Crew :
           t # d /\ at[t] \in Draining /\ ~ L!Shared(lane[t]) /\ t \in use.pumping =>
             owner'[lane[t]] = owner[lane[t]],
         HoldsJob(d) => HoldsJob(d)' /\ hand'[d] = hand[d],
         CrewOK(d)', \A e \in Crew : ApartOK(d, e)'
  PROVE  LaneInv'
<1>1. \A t \in Crew : t # d => (HoldsJob(t) <=> HoldsJob(t)')
  BY DEF HoldsJob
<1>2. \A l : Gone(l)' = Gone(l) /\ (L!Shared(l) <=> L!Shared(l)')
  BY DEF Gone, L!Shared
<1>3. ASSUME NEW l \in L!Lanes PROVE LaneQueueOK(l)' /\ BoundOK(l)'
  <2>1. LaneQueueOK(l)'
    BY <1>2 DEF LaneInv, LaneQueueOK
  <2>2. ASSUME NEW i \in 1..Gone(l), ~ L!Shared(l), fate[entered[l][i]] # "done"
        PROVE  i = Gone(l) /\ \E t \in Crew : HoldsJob(t)' /\ hand'[t] = entered[l][i]
    <3>1. i = Gone(l) /\ \E t \in Crew : HoldsJob(t) /\ hand[t] = entered[l][i]
      BY <2>2 DEF LaneInv, BoundOK
    <3>2. QED
      BY <1>1, <3>1
  <2>3. BoundOK(l)'
    BY <1>2, <2>2 DEF BoundOK
  <2>4. QED
    BY <2>1, <2>3
<1>4. ASSUME NEW t \in Crew PROVE CrewOK(t)'
  <2>1. CASE t = d
    BY <2>1
  <2>2. CASE t # d
    <3>1. CrewOK(t) /\ at'[t] = at[t] /\ hand'[t] = hand[t] /\ lane'[t] = lane[t]
      BY <2>2 DEF LaneInv
    <3>2. QED
      BY <1>1, <1>2, <2>2, <3>1 DEF CrewOK, L!Me, L!Lanes, LaneJobs, L!Shared
  <2>3. QED
    BY <2>1, <2>2
<1>5. ASSUME NEW t \in Crew, NEW e \in Crew PROVE ApartOK(t, e)'
  <2>1. CASE t = d
    BY <2>1
  <2>2. CASE e = d
    <3>1. ApartOK(e, t)'
      BY <2>2
    <3>2. QED
      BY <3>1 DEF ApartOK
  <2>3. CASE t # d /\ e # d
    <3>1. ApartOK(t, e)
      BY DEF LaneInv
    <3>2. QED
      BY <1>1, <1>2, <2>3, <3>1 DEF ApartOK
  <2>4. QED
    BY <2>1, <2>2, <2>3
<1>6. QED
  BY <1>3, <1>4, <1>5 DEF LaneInv, L!Lanes

(* What a step of d that leaves the jobs alone does not touch. *)
LEMMA LookKeeps ==
  ASSUME LaneInv, NEW d \in Workers, L!Look(d)
  PROVE  LaneInv'
<1>1. LaneTypes /\ CrewOK(d) /\ d \in Crew
  BY DEF LaneInv, Crew
<1>2. LaneTypes'
  <2>1. bits \cup use.hidden \in SUBSET L!Lanes
    BY <1>1, PlanFacts DEF LaneTypes
  <2>2. QED
    BY <1>1, <2>1 DEF LaneTypes, L!Look, L!Go, L!Lanes, LaneJobs
<1>3. CrewOK(d)' /\ \A e \in Crew : ApartOK(d, e)'
  BY <1>1 DEF L!Look, L!Go, CrewOK, ApartOK, HoldsJob, WithJob, Draining, LaneTypes
<1>4. QED
  BY <1>1, <1>2, <1>3, CalmStep DEF L!Look, L!Go, HoldsJob, WithJob, LaneTypes

(* A drainer has looked at all the lanes it saw. *)
LEMMA LookedKeeps ==
  ASSUME LaneInv, NEW d \in Workers, L!LookedAtAll(d)
  PROVE  LaneInv'
<1>1. LaneTypes /\ CrewOK(d) /\ d \in Crew
  BY DEF LaneInv, Crew
<1>2. LaneTypes'
  BY <1>1 DEF LaneTypes, L!LookedAtAll, L!Go, L!Lanes, LaneJobs
<1>3. CrewOK(d)' /\ \A e \in Crew : ApartOK(d, e)'
  BY <1>1 DEF L!LookedAtAll, L!Go, CrewOK, ApartOK, HoldsJob, WithJob, Draining, LaneTypes
<1>4. QED
  BY <1>1, <1>2, <1>3, CalmStep DEF L!LookedAtAll, L!Go, HoldsJob, WithJob, LaneTypes

(* A drainer looks at the first lane that is left. *)
LEMMA ScanKeeps ==
  ASSUME LaneInv, NEW d \in Workers, L!Scan(d)
  PROVE  LaneInv'
<1> DEFINE l == L!Min(ahead[d])
           mine == use.bound[l] = L!Me(d)
           to == IF d \notin use.pumping /\ cells[l] = << >> THEN "scan"
                 ELSE IF L!Shared(l) \/ (mine /\ d \in use.pumping) THEN "acquire"
                 ELSE IF mine THEN "pop" ELSE "scan"
<1>1. LaneTypes /\ CrewOK(d) /\ d \in Crew
  BY DEF LaneInv, Crew
<1>2. l \in L!Lanes
  BY <1>1, PlanFacts, LowestOf DEF L!Scan, LaneTypes
<1>3. /\ at[d] = "scan" /\ at' = [at EXCEPT ![d] = to]
      /\ ahead' = [ahead EXCEPT ![d] = @ \ {l}] /\ lane' = [lane EXCEPT ![d] = l]
      /\ UNCHANGED <<use, cells, bits, owner, fate, entered, hand>>
  BY DEF L!Scan, L!Go
<1>4. /\ to \in {"scan", "acquire", "pop"}
      /\ to \in {"acquire", "pop"} /\ ~ L!Shared(l) => mine
      /\ to = "acquire" => L!Shared(l) \/ d \in use.pumping
      /\ to = "pop" => ~ L!Shared(l) /\ d \notin use.pumping /\ mine
  OBVIOUS
<1> HIDE DEF l, to, mine
<1>5. at'[d] = to /\ lane'[d] = l /\ hand'[d] = Nobody
  BY <1>1, <1>3 DEF LaneTypes, CrewOK
<1>6. LaneTypes'
  BY <1>1, <1>2, <1>3, <1>4 DEF LaneTypes, L!Lanes, LaneJobs, Draining
<1>7. CrewOK(d)'
  BY <1>1, <1>2, <1>3, <1>4, <1>5
     DEF CrewOK, HoldsJob, WithJob, Draining, L!Lanes, L!Shared, L!Me, mine
<1>8. ASSUME NEW e \in Crew, e # d PROVE ApartOK(d, e)'
  <2>1. ~ HoldsJob(d)'
    BY <1>4, <1>5 DEF HoldsJob, WithJob
  <2>2. CrewOK(e) /\ at'[e] = at[e] /\ lane'[e] = lane[e]
    BY <1>1, <1>3, <1>8 DEF LaneInv, LaneTypes
  <2>3. ASSUME at'[d] \in Draining, at'[e] \in Draining, lane'[e] = l, ~ L!Shared(l) PROVE FALSE
    <3>1. d \notin use.pumping /\ use.bound[l] = d /\ use.bound[l] = L!Me(e) /\ e \in Workers
      BY <1>4, <1>5, <2>2, <2>3 DEF Draining, WithJob, CrewOK, L!Me, mine
    <3>2. QED
      BY <1>1, <1>8, <3>1, PlanFacts DEF L!Me
  <2>4. QED
    BY <1>3, <1>5, <2>1, <2>2, <2>3 DEF ApartOK, L!Shared
<1>9. ApartOK(d, d)'
  BY DEF ApartOK
<1>10. ~ HoldsJob(d)
  BY <1>3 DEF HoldsJob, WithJob
<1>11. \A t \in Crew : t # d => at'[t] = at[t] /\ hand'[t] = hand[t] /\ lane'[t] = lane[t]
  BY <1>1, <1>3 DEF LaneTypes
<1>12. QED
  BY <1>1, <1>3, <1>6, <1>7, <1>8, <1>9, <1>10, <1>11, CalmStep

(* A drainer takes the ownership of a lane, or goes on to the next. *)
LEMMA AcquireKeeps ==
  ASSUME LaneInv, NEW d \in Workers, L!Acquire(d)
  PROVE  LaneInv'
<1>1. LaneTypes /\ CrewOK(d) /\ d \in Crew
  BY DEF LaneInv, Crew
<1>2. at[d] = "acquire" /\ lane[d] \in L!Lanes /\ hand[d] = Nobody
  BY <1>1 DEF L!Acquire, L!Go, CrewOK
<1>3. CASE owner[lane[d]] # Nobody
  <2>1. at' = [at EXCEPT ![d] = "scan"] /\ owner' = owner
    BY <1>1, <1>2, <1>3 DEF L!Acquire, L!Go, LaneTypes
  <2>2. LaneTypes'
    BY <1>1, <2>1 DEF LaneTypes, L!Acquire, L!Lanes, LaneJobs
  <2>3. CrewOK(d)' /\ \A e \in Crew : ApartOK(d, e)'
    BY <1>1, <1>2, <2>1 DEF L!Acquire, CrewOK, ApartOK, HoldsJob, WithJob, Draining, LaneTypes
  <2>4. QED
    BY <1>1, <1>2, <2>1, <2>2, <2>3, CalmStep DEF L!Acquire, HoldsJob, WithJob, LaneTypes
<1>4. CASE owner[lane[d]] = Nobody
  <2>1. /\ at' = [at EXCEPT ![d] = "pop"] /\ owner' = [owner EXCEPT ![lane[d]] = L!Me(d)]
        /\ UNCHANGED <<use, cells, bits, fate, entered, hand, ahead, lane>>
    BY <1>1, <1>2, <1>4 DEF L!Acquire, L!Go, LaneTypes
  <2>2. L!Me(d) \in {Nobody, Pump} \cup Workers /\ (d \in use.pumping => L!Me(d) = Pump)
    BY DEF L!Me
  <2>3. LaneTypes'
    BY <1>1, <2>1, <2>2 DEF LaneTypes, L!Lanes, LaneJobs, Draining
  <2>4. at'[d] = "pop" /\ owner'[lane[d]] = L!Me(d)
    BY <1>1, <1>2, <2>1 DEF LaneTypes
  <2>5. CrewOK(d)'
    BY <1>1, <1>2, <2>1, <2>2, <2>4
       DEF CrewOK, HoldsJob, WithJob, Draining, L!Lanes, L!Shared, L!Me
  <2>6. ASSUME NEW e \in Crew, e # d, at[e] \in Draining, lane[e] = lane[d], ~ L!Shared(lane[d])
        PROVE  FALSE
    <3>1. CrewOK(e) /\ e \in Workers
      BY <2>6 DEF LaneInv, CrewOK, Draining, WithJob
    <3>2. d \in use.pumping /\ use.bound[lane[d]] = Pump
      BY <1>1, <1>2, <2>2, <2>6 DEF CrewOK
    <3>3. L!Me(e) = Pump
      BY <2>6, <3>1, <3>2 DEF CrewOK
    <3>4. e \in use.pumping
      BY <1>1, <3>1, <3>3, PlanFacts DEF L!Me
    <3>5. owner[lane[e]] = Pump
      BY <2>6, <3>1, <3>4 DEF CrewOK
    <3>6. QED
      BY <1>1, <1>4, <2>6, <3>5, PlanFacts
  <2>7. ASSUME NEW e \in Crew PROVE ApartOK(d, e)'
    <3>1. ~ HoldsJob(d)'
      BY <2>4 DEF HoldsJob, WithJob
    <3>2. QED
      BY <1>1, <2>1, <2>6, <3>1 DEF ApartOK, L!Shared, LaneTypes
  <2>8. \A t \in Crew :
          t # d /\ at[t] \in Draining /\ ~ L!Shared(lane[t]) /\ t \in use.pumping =>
            owner'[lane[t]] = owner[lane[t]]
    <3>1. ASSUME NEW t \in Crew, t # d, at[t] \in Draining, ~ L!Shared(lane[t])
          PROVE  owner'[lane[t]] = owner[lane[t]]
      <4>1. lane[t] # lane[d] /\ lane[t] \in L!Lanes
        BY <2>6, <3>1 DEF LaneInv, CrewOK
      <4>2. QED
        BY <1>1, <2>1, <4>1 DEF LaneTypes
    <3>2. QED
      BY <3>1
  <2>9. ~ HoldsJob(d)
    BY <1>2 DEF HoldsJob, WithJob
  <2>10. QED
    BY <1>1, <2>1, <2>3, <2>5, <2>7, <2>8, <2>9, CalmStep DEF LaneTypes
<1>5. QED
  BY <1>3, <1>4

(* A pop finds no job, or none that is published. *)
LEMMA PopNothingKeeps ==
  ASSUME LaneInv, NEW d \in Workers, L!PopNothing(d)
  PROVE  LaneInv'
<1>1. LaneTypes /\ CrewOK(d) /\ d \in Crew
  BY DEF LaneInv, Crew
<1>2. PICK to \in {"release", "scan"} :
        /\ at[d] = "pop" /\ at' = [at EXCEPT ![d] = to]
        /\ UNCHANGED <<use, cells, bits, owner, fate, entered, hand, ahead, lane>>
  BY DEF L!PopNothing, L!Go
<1>3. at'[d] = to /\ hand[d] = Nobody
  BY <1>1, <1>2 DEF LaneTypes, CrewOK
<1>4. LaneTypes'
  BY <1>1, <1>2 DEF LaneTypes, L!Lanes, LaneJobs, Draining
<1>5. CrewOK(d)'
  BY <1>1, <1>2, <1>3 DEF CrewOK, HoldsJob, WithJob, Draining, L!Lanes, L!Shared, L!Me
<1>6. ASSUME NEW e \in Crew PROVE ApartOK(d, e)'
  <2>1. ApartOK(d, e) /\ ~ HoldsJob(d)' /\ at[d] \in Draining
    BY <1>1, <1>2, <1>3 DEF LaneInv, HoldsJob, WithJob, Draining
  <2>2. QED
    BY <1>1, <1>2, <2>1 DEF ApartOK, L!Shared, LaneTypes
<1>7. ~ HoldsJob(d)
  BY <1>2 DEF HoldsJob, WithJob
<1>8. QED
  BY <1>1, <1>2, <1>4, <1>5, <1>6, <1>7, CalmStep DEF LaneTypes

(* The steps between the pop and the run of a job. *)
LEMMA WithJobStep ==
  ASSUME LaneInv, NEW d \in Workers, NEW from \in {"size", "clear", "recheck", "again"},
         NEW to \in {"clear", "recheck", "again", "run", "release"},
         at[d] = from, at' = [at EXCEPT ![d] = to], to = "release" => L!Shared(lane[d]),
         bits' \in SUBSET L!Lanes, UNCHANGED <<use, cells, owner, fate, entered, hand, ahead, lane>>
  PROVE  LaneInv'
<1>1. LaneTypes /\ CrewOK(d) /\ d \in Crew
  BY DEF LaneInv, Crew
<1>2. HoldsJob(d) /\ hand[d] \in LaneJobs /\ hand[d] # Nobody /\ at'[d] = to
      /\ at[d] \in Draining
  BY <1>1, PlanFacts DEF LaneTypes, CrewOK, HoldsJob, WithJob, Draining
<1>3. HoldsJob(d)'
  BY <1>2 DEF HoldsJob, WithJob
<1>4. LaneTypes'
  BY <1>1 DEF LaneTypes, L!Lanes, LaneJobs, Draining, WithJob
<1>5. CrewOK(d)'
  BY <1>1, <1>2, <1>3 DEF CrewOK, WithJob, Draining, L!Lanes, LaneJobs, L!Shared, L!Me
<1>6. ASSUME NEW e \in Crew PROVE ApartOK(d, e)'
  <2>1. ApartOK(d, e)
    BY <1>1 DEF LaneInv
  <2>2. d # e => (HoldsJob(e) <=> HoldsJob(e)') /\ at'[e] = at[e]
    BY <1>1 DEF LaneTypes, HoldsJob
  <2>3. QED
    BY <1>2, <2>1, <2>2 DEF ApartOK, L!Shared
<1>7. QED
  BY <1>1, <1>2, <1>3, <1>4, <1>5, <1>6, CalmStep DEF LaneTypes

(* The steps between the pop and the run that touch bits only. *)
LEMMA BetweenKeeps ==
  ASSUME LaneInv, NEW d \in Workers,
         L!PopSize(d) \/ L!PopClear(d) \/ L!PopRecheck(d) \/ L!PopAgain(d)
  PROVE  LaneInv'
<1>1. L!AfterPop(d) \in {"run", "release"} /\ (L!AfterPop(d) = "release" => L!Shared(lane[d]))
  BY DEF L!AfterPop
<1>2. LaneTypes
  BY DEF LaneInv
<1>3. CASE L!PopSize(d)
  <2>1. PICK to \in {"clear", "run", "release"} :
          /\ at[d] = "size" /\ at' = [at EXCEPT ![d] = to]
             /\ (to = "release" => L!Shared(lane[d]))
          /\ UNCHANGED <<use, cells, bits, owner, fate, entered, hand, ahead, lane>>
    BY <1>1, <1>3 DEF L!PopSize, L!Go
  <2>2. QED
    BY <1>2, <2>1, WithJobStep DEF LaneTypes
<1>4. CASE L!PopClear(d)
  <2>1. bits' \in SUBSET L!Lanes
    BY <1>2, <1>4 DEF L!PopClear, L!ClearReady, LaneTypes
  <2>2. QED
    BY <1>4, <2>1, WithJobStep DEF L!PopClear, L!Go
<1>5. CASE L!PopRecheck(d)
  <2>1. PICK to \in {"again", "run", "release"} :
          /\ at[d] = "recheck" /\ at' = [at EXCEPT ![d] = to]
          /\ (to = "release" => L!Shared(lane[d]))
          /\ UNCHANGED <<use, cells, bits, owner, fate, entered, hand, ahead, lane>>
    BY <1>1, <1>5 DEF L!PopRecheck, L!Go
  <2>2. QED
    BY <1>2, <2>1, WithJobStep DEF LaneTypes
<1>6. CASE L!PopAgain(d)
  <2>1. lane[d] \in L!Lanes /\ at[d] = "again"
    BY <1>6 DEF L!PopAgain, L!Go, LaneInv, CrewOK, Draining, WithJob, Crew
  <2>2. bits' \in SUBSET L!Lanes
    BY <1>2, <1>6, <2>1 DEF L!PopAgain, L!MarkReady, LaneTypes
  <2>3. QED
    BY <1>1, <1>6, <2>1, <2>2, WithJobStep DEF L!PopAgain, L!Go
<1>7. QED
  BY <1>3, <1>4, <1>5, <1>6

(* A drainer gives the ownership of a shared lane back. *)
LEMMA ReleaseKeeps ==
  ASSUME LaneInv, NEW d \in Workers, L!Release(d)
  PROVE  LaneInv'
<1> DEFINE to == IF hand[d] = Nobody THEN "scan" ELSE "run"
<1>1. LaneTypes /\ CrewOK(d) /\ d \in Crew
  BY DEF LaneInv, Crew
<1>2. /\ at[d] = "release" /\ at' = [at EXCEPT ![d] = to]
      /\ UNCHANGED <<use, cells, bits, fate, entered, hand, ahead, lane>>
  BY DEF L!Release, L!Go
<1>3. lane[d] \in L!Lanes /\ at[d] \in Draining /\ at'[d] = to
  BY <1>1, <1>2 DEF LaneTypes, CrewOK, Draining
<1>4. \A l \in L!Lanes : l # lane[d] => owner'[l] = owner[l]
  BY <1>1 DEF L!Release, LaneTypes
<1>5. owner[lane[d]] # L!Me(d) => owner' = owner
  BY <1>1, <1>3 DEF L!Release, LaneTypes
<1>6. LaneTypes'
  <2>1. owner' \in [L!Lanes -> {Nobody, Pump} \cup Workers]
    BY <1>1 DEF L!Release, LaneTypes
  <2>2. QED
    BY <1>1, <1>2, <2>1 DEF LaneTypes, L!Lanes, LaneJobs, Draining, WithJob
<1>7. HoldsJob(d) <=> hand[d] # Nobody
  BY <1>2 DEF HoldsJob, WithJob
<1>8. HoldsJob(d)' <=> hand[d] # Nobody
  BY <1>2, <1>3 DEF HoldsJob, WithJob
<1>9. CrewOK(d)'
  BY <1>1, <1>2, <1>3, <1>7, <1>8 DEF CrewOK, WithJob, Draining, L!Lanes, LaneJobs, L!Shared,
     L!Me
<1>10. ASSUME NEW e \in Crew PROVE ApartOK(d, e)'
  <2>1. ApartOK(d, e)
    BY <1>1 DEF LaneInv
  <2>2. d # e => (HoldsJob(e) <=> HoldsJob(e)') /\ at'[e] = at[e]
    BY <1>1, <1>2 DEF LaneTypes, HoldsJob
  <2>3. QED
    BY <1>2, <1>3, <1>7, <1>8, <2>1, <2>2 DEF ApartOK, L!Shared
<1>11. ASSUME NEW t \in Crew, t # d, at[t] \in Draining, ~ L!Shared(lane[t])
       PROVE  owner'[lane[t]] = owner[lane[t]]
  <2>1. lane[t] \in L!Lanes /\ ApartOK(t, d)
    BY <1>1, <1>11 DEF LaneInv, CrewOK
  <2>2. lane[t] # lane[d]
    BY <1>3, <1>11, <2>1 DEF ApartOK
  <2>3. QED
    BY <1>4, <2>1, <2>2
<1>12. \A t \in Crew : t # d => at'[t] = at[t] /\ hand'[t] = hand[t] /\ lane'[t] = lane[t]
  BY <1>1, <1>2 DEF LaneTypes
<1>13. QED
  BY <1>1, <1>2, <1>6, <1>7, <1>8, <1>9, <1>10, <1>11, <1>12, CalmStep

(* submit sets the bit of the lane. *)
LEMMA MarkKeeps ==
  ASSUME LaneInv, NEW s \in Submitters, L!SubmitMark(s)
  PROVE  LaneInv'
<1>1. LaneTypes /\ CrewOK(s) /\ s \in Crew
  BY DEF LaneInv, Crew
<1>2. at[s] = "mark" /\ at' = [at EXCEPT ![s] = "idle"] /\ hand' = [hand EXCEPT ![s] = Nobody]
  BY DEF L!SubmitMark, L!Go
<1>3. at'[s] = "idle" /\ hand'[s] = Nobody
  BY <1>1, <1>2 DEF LaneTypes
<1>4. LaneTypes'
  <2>1. bits' \in SUBSET L!Lanes
    BY <1>1, <1>2 DEF L!SubmitMark, L!MarkReady, LaneTypes, CrewOK
  <2>2. QED
    BY <1>1, <1>2, <2>1 DEF L!SubmitMark, LaneTypes, L!Lanes, LaneJobs
<1>5. CrewOK(s)' /\ \A e \in Crew : ApartOK(s, e)'
  BY <1>3 DEF CrewOK, ApartOK, HoldsJob, WithJob, Draining
<1>6. ~ HoldsJob(s)
  BY <1>2 DEF HoldsJob, WithJob
<1>7. \A t \in Crew : t # s => at'[t] = at[t] /\ hand'[t] = hand[t] /\ lane'[t] = lane[t]
  BY <1>1, <1>2 DEF LaneTypes, L!SubmitMark
<1>8. QED
  BY <1>1, <1>4, <1>5, <1>6, <1>7, CalmStep DEF L!SubmitMark

(* What becomes of the job in the hand of d concerns no other thread. *)
LEMMA OthersKeep ==
  ASSUME LaneInv, NEW d \in Workers, NEW f, HoldsJob(d), fate' = [fate EXCEPT ![hand[d]] = f],
         UNCHANGED <<use, owner, lane>>,
         \A t \in Crew : t # d => at'[t] = at[t] /\ hand'[t] = hand[t]
  PROVE  \A t \in Crew : t # d => CrewOK(t)' /\ \A e \in Crew : e # d => ApartOK(t, e)'
<1>1. ASSUME NEW t \in Crew, t # d
      PROVE  (HoldsJob(t) <=> HoldsJob(t)') /\ at'[t] = at[t] /\ hand'[t] = hand[t]
  BY <1>1 DEF HoldsJob
<1>2. ASSUME NEW t \in Crew, t # d PROVE CrewOK(t)'
  <2>1. CrewOK(t) /\ ApartOK(t, d) /\ LaneTypes
    BY DEF LaneInv, Crew
  <2>2. HoldsJob(t) => hand[t] # hand[d] /\ hand[t] \in LaneJobs
    BY <1>2, <2>1 DEF ApartOK, CrewOK
  <2>3. HoldsJob(t) => fate'[hand[t]] = fate[hand[t]]
    BY <2>1, <2>2 DEF LaneTypes
  <2>4. QED
    BY <1>1, <1>2, <2>1, <2>3 DEF CrewOK, L!Lanes, LaneJobs, L!Shared, L!Me
<1>3. ASSUME NEW t \in Crew, t # d, NEW e \in Crew, e # d PROVE ApartOK(t, e)'
  <2>1. ApartOK(t, e)
    BY DEF LaneInv
  <2>2. QED
    BY <1>1, <1>3, <2>1 DEF ApartOK, L!Shared
<1>4. QED
  BY <1>2, <1>3

(* A drainer starts the job it has in hand. *)
LEMMA RunKeeps ==
  ASSUME LaneInv, NEW d \in Workers, L!Run(d)
  PROVE  LaneInv'
<1>1. LaneTypes /\ CrewOK(d) /\ d \in Crew
  BY DEF LaneInv, Crew
<1>2. /\ at[d] = "run" /\ at' = [at EXCEPT ![d] = "running"]
      /\ fate' = [fate EXCEPT ![hand[d]] = "running"]
      /\ UNCHANGED <<use, cells, bits, owner, entered, hand, ahead, lane>>
  BY DEF L!Run, L!Go
<1>3. HoldsJob(d) /\ hand[d] \in LaneJobs /\ fate[hand[d]] = "taken" /\ at'[d] = "running"
      /\ fate'[hand[d]] = "running" /\ at[d] \in Draining
  BY <1>1, <1>2 DEF HoldsJob, WithJob, CrewOK, LaneTypes, Draining
<1>4. \A t \in Crew : t # d => at'[t] = at[t] /\ hand'[t] = hand[t] /\ lane'[t] = lane[t]
  BY <1>1, <1>2 DEF LaneTypes
<1>5. HoldsJob(d)'
  BY <1>3 DEF HoldsJob, WithJob
<1>6. LaneTypes'
  BY <1>1, <1>2 DEF LaneTypes, L!Lanes, LaneJobs, Draining, WithJob
<1>7. CrewOK(d)'
  BY <1>1, <1>2, <1>3, <1>5 DEF CrewOK, WithJob, Draining, L!Lanes, LaneJobs, L!Shared, L!Me
<1>8. ASSUME NEW e \in Crew PROVE ApartOK(d, e)' /\ ApartOK(e, d)'
  <2>1. ApartOK(d, e) /\ ApartOK(e, d)
    BY <1>1 DEF LaneInv
  <2>2. e # d => (HoldsJob(e) <=> HoldsJob(e)')
    BY <1>4 DEF HoldsJob
  <2>3. QED
    BY <1>2, <1>3, <1>4, <1>5, <2>1, <2>2 DEF ApartOK, L!Shared
<1>9. ASSUME NEW t \in Crew PROVE CrewOK(t)' /\ \A e \in Crew : ApartOK(t, e)'
  BY <1>2, <1>3, <1>4, <1>7, <1>8, OthersKeep
<1>10. ASSUME NEW l \in L!Lanes PROVE LaneQueueOK(l)' /\ BoundOK(l)'
  <2>1. LaneQueueOK(l) /\ BoundOK(l) /\ Gone(l)' = Gone(l) /\ (L!Shared(l) <=> L!Shared(l)')
    BY <1>2 DEF LaneInv, Gone, L!Shared
  <2>2. \A i \in 1..Len(entered[l]) : entered[l][i] \in LaneJobs
    BY <1>1 DEF LaneTypes
  <2>3. LaneQueueOK(l)'
    BY <1>1, <1>2, <1>3, <2>1, <2>2 DEF LaneQueueOK, LaneTypes
  <2>4. \A t \in Crew : HoldsJob(t) => HoldsJob(t)' /\ hand'[t] = hand[t]
    BY <1>2, <1>4, <1>5 DEF HoldsJob
  <2>5. Gone(l) <= Len(entered[l]) /\ Gone(l) \in Nat /\ Len(entered[l]) \in Nat
    BY <1>1, <2>1 DEF Gone, LaneQueueOK, LaneTypes
  <2>6. \A i \in 1..Gone(l) : fate[entered[l][i]] = "done" => fate'[entered[l][i]] = "done"
    BY <1>1, <1>2, <1>3, <2>2, <2>5 DEF LaneTypes
  <2>7. BoundOK(l)'
    BY <1>2, <2>1, <2>4, <2>6 DEF BoundOK
  <2>8. QED
    BY <2>3, <2>7
<1>11. QED
  BY <1>2, <1>6, <1>9, <1>10 DEF LaneInv, L!Lanes

(* The job ends. *)
LEMMA RanKeeps ==
  ASSUME LaneInv, NEW d \in Workers, L!Ran(d)
  PROVE  LaneInv'
<1>1. LaneTypes /\ CrewOK(d) /\ d \in Crew
  BY DEF LaneInv, Crew
<1>2. PICK to \in {"pop", "release", "idle"} :
        /\ at[d] = "running" /\ at' = [at EXCEPT ![d] = to]
        /\ fate' = [fate EXCEPT ![hand[d]] = "done"]
        /\ hand' = [hand EXCEPT ![d] = Nobody]
        /\ UNCHANGED <<use, cells, bits, owner, entered, ahead, lane>>
  BY DEF L!Ran, L!Go
<1>3. HoldsJob(d) /\ hand[d] \in LaneJobs /\ fate[hand[d]] = "running" /\ at'[d] = to
      /\ fate'[hand[d]] = "done" /\ hand'[d] = Nobody /\ at[d] \in Draining
  BY <1>1, <1>2 DEF HoldsJob, WithJob, CrewOK, LaneTypes, Draining
<1>4. \A t \in Crew : t # d => at'[t] = at[t] /\ hand'[t] = hand[t] /\ lane'[t] = lane[t]
  BY <1>1, <1>2 DEF LaneTypes
<1>5. ~ HoldsJob(d)'
  BY <1>3 DEF HoldsJob, WithJob
<1>6. LaneTypes'
  BY <1>1, <1>2 DEF LaneTypes, L!Lanes, LaneJobs, Draining, WithJob
<1>7. CrewOK(d)'
  BY <1>1, <1>2, <1>3, <1>5 DEF CrewOK, WithJob, Draining, L!Lanes, LaneJobs, L!Shared, L!Me
<1>8. ASSUME NEW e \in Crew PROVE ApartOK(d, e)' /\ ApartOK(e, d)'
  <2>1. ApartOK(d, e) /\ ApartOK(e, d)
    BY <1>1 DEF LaneInv
  <2>2. e # d => (HoldsJob(e) <=> HoldsJob(e)')
    BY <1>4 DEF HoldsJob
  <2>3. QED
    BY <1>2, <1>3, <1>4, <1>5, <2>1, <2>2 DEF ApartOK, L!Shared
<1>9. ASSUME NEW t \in Crew PROVE CrewOK(t)' /\ \A e \in Crew : ApartOK(t, e)'
  BY <1>2, <1>3, <1>4, <1>7, <1>8, OthersKeep
<1>10. ASSUME NEW l \in L!Lanes PROVE LaneQueueOK(l)' /\ BoundOK(l)'
  <2>1. LaneQueueOK(l) /\ BoundOK(l) /\ Gone(l)' = Gone(l) /\ (L!Shared(l) <=> L!Shared(l)')
    BY <1>2 DEF LaneInv, Gone, L!Shared
  <2>2. \A i \in 1..Len(entered[l]) : entered[l][i] \in LaneJobs
    BY <1>1 DEF LaneTypes
  <2>3. LaneQueueOK(l)'
    BY <1>1, <1>2, <1>3, <2>1, <2>2 DEF LaneQueueOK, LaneTypes
  <2>4. \A t \in Crew : t # d /\ HoldsJob(t) => HoldsJob(t)' /\ hand'[t] = hand[t]
    BY <1>2, <1>4 DEF HoldsJob
  <2>5. Gone(l) <= Len(entered[l]) /\ Gone(l) \in Nat /\ Len(entered[l]) \in Nat
    BY <1>1, <2>1 DEF Gone, LaneQueueOK, LaneTypes
  <2>6. \A i \in 1..Gone(l) :
          fate[entered[l][i]] = "done" \/ entered[l][i] = hand[d]
            => fate'[entered[l][i]] = "done"
    BY <1>1, <1>2, <1>3, <2>2, <2>5 DEF LaneTypes
  <2>7. BoundOK(l)'
    BY <1>2, <2>1, <2>4, <2>6 DEF BoundOK
  <2>8. QED
    BY <2>3, <2>7
<1>11. QED
  BY <1>2, <1>6, <1>9, <1>10 DEF LaneInv, L!Lanes

(* What a sequence is. *)
LEMMA SeqFacts ==
  ASSUME NEW R, NEW s \in Seq(R)
  PROVE  Len(s) \in Nat /\ DOMAIN s = 1..Len(s) /\ \A i \in 1..Len(s) : s[i] \in R
OBVIOUS

(* The lengths of a lane and of its history, and their difference. *)
LEMMA LaneLengths ==
  ASSUME LaneTypes, NEW l \in L!Lanes
  PROVE  Len(cells[l]) \in Nat /\ Len(entered[l]) \in Nat
<1>1. cells[l] \in Seq([job : LaneJobs, ready : BOOLEAN]) /\ entered[l] \in Seq(LaneJobs)
  BY DEF LaneTypes
<1>2. QED
  BY <1>1, SeqFacts

(* submit claims a place in the lane, the last. *)
LEMMA ClaimLaneKeeps ==
  ASSUME LaneInv, NEW s \in Submitters, NEW j \in LaneJobs, L!SubmitClaim(s, j)
  PROVE  LaneInv'
<1>0. PICK m \in L!Lanes : m = use.job[j]
  BY PlanFacts DEF LaneInv
<1>1. LaneTypes /\ CrewOK(s) /\ s \in Crew /\ m \in L!Lanes
  BY DEF LaneInv, Crew
<1>2. /\ at[s] = "idle" /\ at' = [at EXCEPT ![s] = "publish"]
      /\ hand' = [hand EXCEPT ![s] = j] /\ lane' = [lane EXCEPT ![s] = m]
      /\ cells' = [cells EXCEPT ![m] = Append(@, [job |-> j, ready |-> FALSE])]
      /\ entered' = [entered EXCEPT ![m] = Append(@, j)]
      /\ fate[j] = "caller" /\ fate' = [fate EXCEPT ![j] = "queued"]
      /\ UNCHANGED <<use, bits, owner, ahead>>
  BY <1>0 DEF L!SubmitClaim, L!Go
<1>3. at'[s] = "publish" /\ lane'[s] = m /\ fate'[j] = "queued"
  BY <1>1, <1>2 DEF LaneTypes
<1>4. \A t \in Crew : t # s => at'[t] = at[t] /\ hand'[t] = hand[t] /\ lane'[t] = lane[t]
  BY <1>1, <1>2 DEF LaneTypes
<1>5. /\ cells[m] \in Seq([job : LaneJobs, ready : BOOLEAN]) /\ entered[m] \in Seq(LaneJobs)
      /\ cells'[m] = Append(cells[m], [job |-> j, ready |-> FALSE])
      /\ entered'[m] = Append(entered[m], j)
      /\ \A l \in L!Lanes : l # m => cells'[l] = cells[l] /\ entered'[l] = entered[l]
  BY <1>1, <1>2 DEF LaneTypes
<1>6. LaneTypes'
  <2>1. cells' \in [L!Lanes -> Seq([job : LaneJobs, ready : BOOLEAN])]
    BY <1>1, <1>2, <1>5 DEF LaneTypes
  <2>2. entered' \in [L!Lanes -> Seq(LaneJobs)]
    BY <1>1, <1>2, <1>5 DEF LaneTypes
  <2>3. QED
    BY <1>1, <1>2, <2>1, <2>2 DEF LaneTypes, L!Lanes, LaneJobs
<1>7. \A t \in Crew : HoldsJob(t) <=> HoldsJob(t)'
  BY <1>2, <1>3, <1>4 DEF HoldsJob, WithJob
<1>8. ASSUME NEW t \in Crew PROVE CrewOK(t)'
  <2>1. CASE t = s
    BY <1>0, <1>1, <1>2, <1>3, <1>7, <2>1 DEF CrewOK, HoldsJob, WithJob, Draining, L!Lanes
  <2>2. CASE t # s
    <3>1. CrewOK(t)
      BY DEF LaneInv
    <3>2. HoldsJob(t) => hand[t] # j /\ fate'[hand[t]] = fate[hand[t]]
      BY <1>1, <1>2, <3>1 DEF CrewOK, LaneTypes
    <3>3. QED
      BY <1>2, <1>4, <1>7, <2>2, <3>1, <3>2 DEF CrewOK, L!Lanes, LaneJobs, L!Shared, L!Me
  <2>3. QED
    BY <2>1, <2>2
<1>9. ASSUME NEW t \in Crew, NEW e \in Crew PROVE ApartOK(t, e)'
  <2>1. ApartOK(t, e)
    BY DEF LaneInv
  <2>2. ~ HoldsJob(s) /\ at'[s] \notin Draining
    BY <1>2, <1>3 DEF HoldsJob, WithJob, Draining
  <2>3. QED
    BY <1>2, <1>4, <1>7, <2>1, <2>2 DEF ApartOK, L!Shared
<1>10. ASSUME NEW l \in L!Lanes, NEW i \in 1..Len(entered[l])
       PROVE  entered[l][i] # j /\ fate'[entered[l][i]] = fate[entered[l][i]]
  <2>1. entered[l][i] \in LaneJobs
    BY <1>1 DEF LaneTypes
  <2>2. fate[entered[l][i]] # "caller"
    BY DEF LaneInv, LaneQueueOK
  <2>3. QED
    BY <1>1, <1>2, <2>1, <2>2 DEF LaneTypes
<1>11. ASSUME NEW l \in L!Lanes
       PROVE  Gone(l)' = Gone(l) /\ Gone(l) \in Nat /\ Gone(l) <= Len(entered[l])
  <2>1. /\ cells[l] \in Seq([job : LaneJobs, ready : BOOLEAN]) /\ entered[l] \in Seq(LaneJobs)
        /\ LaneQueueOK(l)
    BY <1>1 DEF LaneTypes, LaneInv
  <2>a. Len(cells[l]) \in Nat /\ Len(entered[l]) \in Nat
  /\ Len(entered[l]) - Len(cells[l]) \in Nat
    BY <1>1, <2>1, LaneLengths DEF Gone, LaneQueueOK
  <2>b. Gone(l) \in Nat /\ Gone(l) <= Len(entered[l])
    <3>1. \A e, c \in Nat : e - c \in Nat => e - c <= e
      OBVIOUS
    <3>2. QED
      BY <2>a, <3>1, Zenon DEF Gone
  <2>2. CASE l # m
    BY <1>5, <2>b, <2>2 DEF Gone
  <2>3. CASE l = m
    <3>1. Len(cells'[m]) = Len(cells[m]) + 1 /\ Len(entered'[m]) = Len(entered[m]) + 1
      BY <1>1, <1>5
    <3>2. Gone(l)' = Gone(l)
      BY <2>a, <2>3, <3>1 DEF Gone
    <3>3. QED
      BY <2>b, <3>2
  <2>4. QED
    BY <2>2, <2>3
<1>12. ASSUME NEW l \in L!Lanes PROVE LaneQueueOK(l)'
  <2>1. LaneQueueOK(l)
    BY DEF LaneInv
  <2>2. CASE l # m
    BY <1>2, <1>5, <1>10, <1>11, <2>1, <2>2 DEF LaneQueueOK
  <2>3. CASE l = m
    <3> DEFINE n == Len(entered[m])
               k == Len(cells[m])
    <3>1. /\ Len(cells'[m]) = k + 1 /\ Len(entered'[m]) = n + 1 /\ n \in Nat /\ k \in Nat
          /\ \A i \in 1..n : entered'[m][i] = entered[m][i]
          /\ \A i \in 1..k : cells'[m][i] = cells[m][i]
          /\ entered'[m][n + 1] = j /\ cells'[m][k + 1].job = j
      BY <1>1, <1>5
    <3>2. Gone(m) = n - k /\ Gone(m)' = Gone(m) /\ Gone(m) \in Nat
      BY <1>1, <1>11, <2>3 DEF Gone
    <3> HIDE DEF n, k
    <3>3. \A i \in 1..(k + 1) : cells'[m][i].job = entered'[m][Gone(m) + i]
      <4>1. ASSUME NEW i \in 1..k PROVE cells'[m][i].job = entered'[m][Gone(m) + i]
        <5>1. cells[m][i].job = entered[m][Gone(m) + i] /\ Gone(m) + i \in 1..n
          <6>1. cells[m][i].job = entered[m][Gone(m) + i]
            BY <2>1, <2>3 DEF LaneQueueOK, k
          <6>2. QED
            BY <3>1, <3>2, <6>1
        <5>2. QED
          BY <3>1, <5>1
      <4>2. QED
        BY <3>1, <3>2, <4>1
    <3>4. ASSUME NEW i \in 1..(n + 1)
          PROVE  /\ use.job[entered'[m][i]] = m
                 /\ fate'[entered'[m][i]] \in IF i > Gone(m) THEN {"queued"}
                                              ELSE {"taken", "running", "done"}
      <4>1. CASE i = n + 1
        BY <1>0, <1>2, <1>3, <3>1, <3>2, <4>1
      <4>2. CASE i \in 1..n
        <5>1. entered'[m][i] = entered[m][i] /\ fate'[entered[m][i]] = fate[entered[m][i]]
          BY <1>1, <1>10, <3>1, <4>2 DEF n
        <5>2. QED
          BY <2>1, <2>3, <4>2, <5>1 DEF LaneQueueOK, n
      <4>3. QED
        BY <3>1, <4>1, <4>2
    <3>5. ASSUME NEW i \in 1..(n + 1), NEW p \in 1..(n + 1), entered'[m][i] = entered'[m][p]
          PROVE  i = p
      <4>1. CASE i \in 1..n /\ p \in 1..n
        BY <2>1, <2>3, <3>1, <3>5, <4>1 DEF LaneQueueOK, n
      <4>2. CASE i = n + 1 /\ p \in 1..n
        BY <1>1, <1>10, <3>1, <3>5, <4>2 DEF n
      <4>3. CASE i \in 1..n /\ p = n + 1
        BY <1>1, <1>10, <3>1, <3>5, <4>3 DEF n
      <4>4. QED
        BY <3>1, <4>1, <4>2, <4>3
    <3>6. QED
      <4>1. LaneQueueOK(m)'
        <5>1. use'.job = use.job
          BY <1>2
        <5>2. /\ Gone(m)' \in Nat
              /\ \A i \in 1..Len(cells'[m]) : cells'[m][i].job = entered'[m][Gone(m)' + i]
              /\ \A i, p \in 1..Len(entered'[m]) : entered'[m][i] = entered'[m][p] => i = p
          BY <3>1, <3>2, <3>3, <3>5
        <5>3. \A i \in 1..Len(entered'[m]) :
                /\ use'.job[entered'[m][i]] = m
                /\ fate'[entered'[m][i]] \in IF i > Gone(m)' THEN {"queued"}
                                              ELSE {"taken", "running", "done"}
          BY <3>1, <3>2, <3>4, <5>1
        <5>4. QED
          BY <5>2, <5>3 DEF LaneQueueOK
      <4>2. QED
        BY <2>3, <4>1
  <2>4. QED
    BY <2>2, <2>3
<1>13. ASSUME NEW l \in L!Lanes PROVE BoundOK(l)'
  <2>1. BoundOK(l) /\ Len(entered[l]) \in Nat
    BY <1>1 DEF LaneInv, LaneTypes
  <2>2. \A i \in 1..Gone(l) : i \in 1..Len(entered[l]) /\ entered'[l][i] = entered[l][i]
    <3>1. ASSUME NEW i \in 1..Gone(l) PROVE i \in 1..Len(entered[l])
      BY <1>11, <2>1
    <3>2. ASSUME NEW i \in 1..Len(entered[l]) PROVE entered'[l][i] = entered[l][i]
      <4>1. CASE l = m
        BY <1>1, <1>5, <4>1
      <4>2. CASE l # m
        BY <1>5, <4>2
      <4>3. QED
        BY <4>1, <4>2
    <3>3. QED
      BY <3>1, <3>2
  <2>3. \A t \in Crew : HoldsJob(t) => HoldsJob(t)' /\ hand'[t] = hand[t]
    BY <1>2, <1>4, <1>7 DEF HoldsJob, WithJob
  <2>4. QED
    BY <1>2, <1>10, <1>11, <2>1, <2>2, <2>3 DEF BoundOK, L!Shared
<1>14. QED
  BY <1>2, <1>6, <1>8, <1>9, <1>12, <1>13 DEF LaneInv, L!Lanes

(* A job that never enters a lane, or enters it in two steps. *)
LEMMA FullLaneKeeps ==
  ASSUME LaneInv, NEW s \in Submitters, NEW j \in LaneJobs, L!SubmitFull(s, j)
  PROVE  LaneInv'
<1>1. LaneTypes
  BY DEF LaneInv
<1>2. /\ fate[j] = "caller" /\ fate' = [fate EXCEPT ![j] = "refused"]
      /\ UNCHANGED <<use, cells, bits, owner, entered, at, hand, ahead, lane>>
  BY DEF L!SubmitFull
<1>3. \A k \in LaneJobs : fate[k] # "caller" => fate'[k] = fate[k]
  BY <1>1, <1>2 DEF LaneTypes
<1>4. LaneTypes'
  BY <1>1, <1>2 DEF LaneTypes, L!Lanes, LaneJobs
<1>5. ASSUME NEW t \in Crew PROVE CrewOK(t)'
  <2>1. CrewOK(t)
    BY DEF LaneInv
  <2>2. HoldsJob(t) => fate'[hand[t]] = fate[hand[t]]
    BY <1>3, <2>1 DEF CrewOK
  <2>3. QED
    BY <1>2, <2>1, <2>2 DEF CrewOK, HoldsJob, L!Lanes, LaneJobs, L!Shared, L!Me
<1>6. \A t, e \in Crew : ApartOK(t, e)'
  BY <1>2 DEF LaneInv, ApartOK, HoldsJob, L!Shared
<1>7. ASSUME NEW l \in L!Lanes PROVE LaneQueueOK(l)' /\ BoundOK(l)'
  <2>1. LaneQueueOK(l) /\ BoundOK(l) /\ Gone(l)' = Gone(l) /\ Len(entered[l]) \in Nat
    BY <1>1, <1>2 DEF LaneInv, Gone, LaneTypes
  <2>2. \A i \in 1..Len(entered[l]) : fate'[entered[l][i]] = fate[entered[l][i]]
    <3>1. ASSUME NEW i \in 1..Len(entered[l])
          PROVE  entered[l][i] \in LaneJobs /\ fate[entered[l][i]] # "caller"
      <4>1. entered[l] \in Seq(LaneJobs)
        BY <1>1 DEF LaneTypes
      <4>2. QED
        BY <2>1, <4>1, SeqFacts DEF LaneQueueOK
    <3>2. QED
      BY <1>3, <3>1
  <2>3. LaneQueueOK(l)'
    BY <1>2, <2>1, <2>2 DEF LaneQueueOK
  <2>4. \A i \in 1..Gone(l) : i \in 1..Len(entered[l])
    BY <1>1, <2>1 DEF LaneQueueOK, Gone, LaneTypes
  <2>5. BoundOK(l)'
    BY <1>2, <2>1, <2>2, <2>4 DEF BoundOK, L!Shared, HoldsJob
  <2>6. QED
    BY <2>3, <2>5
<1>8. QED
  BY <1>2, <1>4, <1>5, <1>6, <1>7 DEF LaneInv, L!Lanes

(* submit publishes the job it has claimed a place for. *)
LEMMA PublishLaneKeeps ==
  ASSUME LaneInv, NEW s \in Submitters, L!SubmitPublish(s)
  PROVE  LaneInv'
<1> DEFINE m == lane[s]
           new == [i \in DOMAIN cells[m] |->
                     IF cells[m][i].job = hand[s] THEN [cells[m][i] EXCEPT !.ready = TRUE]
                                                  ELSE cells[m][i]]
<1>1. LaneTypes /\ CrewOK(s) /\ s \in Crew
  BY DEF LaneInv, Crew
<1>2. /\ at[s] = "publish" /\ at' = [at EXCEPT ![s] = "mark"]
      /\ UNCHANGED <<use, bits, owner, fate, entered, hand, ahead, lane>>
  BY DEF L!SubmitPublish, L!Go
<1>3. m \in L!Lanes /\ at'[s] = "mark"
  BY <1>1, <1>2 DEF CrewOK, LaneTypes
<1>4. cells[m] \in Seq([job : LaneJobs, ready : BOOLEAN])
  BY <1>1, <1>3 DEF LaneTypes
<1>5. cells' = [cells EXCEPT ![m] = new]
  BY <1>1, <1>3 DEF L!SubmitPublish, LaneTypes
<1>6. /\ new \in Seq([job : LaneJobs, ready : BOOLEAN]) /\ Len(new) = Len(cells[m])
      /\ \A i \in 1..Len(cells[m]) : new[i].job = cells[m][i].job
  <2>1. DOMAIN new = 1..Len(cells[m]) /\ Len(cells[m]) \in Nat
        /\ DOMAIN cells[m] = 1..Len(cells[m])
    BY <1>4, SeqFacts
  <2>2. ASSUME NEW i \in 1..Len(cells[m])
        PROVE  new[i] \in [job : LaneJobs, ready : BOOLEAN] /\ new[i].job = cells[m][i].job
    <3>1. cells[m][i] \in [job : LaneJobs, ready : BOOLEAN]
      BY <1>4, SeqFacts
    <3>2. QED
      BY <2>1, <3>1
  <2> HIDE DEF new
  <2>3. new \in [1..Len(cells[m]) -> [job : LaneJobs, ready : BOOLEAN]]
    <3>1. new = [i \in 1..Len(cells[m]) |-> new[i]]
      BY <2>1 DEF new
    <3>2. QED
      BY <2>2, <3>1
  <2>4. new \in Seq([job : LaneJobs, ready : BOOLEAN])
    <3> DEFINE R == [job : LaneJobs, ready : BOOLEAN]
    <3> HIDE DEF R
    <3>1. new \in [1..Len(cells[m]) -> R]
      BY <2>3 DEF R
    <3>2. new \in Seq(R)
      BY <2>1, <3>1
    <3>3. QED
      BY <3>2 DEF R
  <2>5. Len(new) = Len(cells[m])
    BY <2>1, <2>4, SeqFacts
  <2>6. QED
    BY <2>2, <2>4, <2>5
<1> HIDE DEF new, m
<1>7. LaneTypes'
  BY <1>1, <1>2, <1>3, <1>5, <1>6 DEF LaneTypes, L!Lanes, LaneJobs
<1>8. ASSUME NEW l \in L!Lanes
      PROVE  Len(cells'[l]) = Len(cells[l])
             /\ \A i \in 1..Len(cells[l]) : cells'[l][i].job = cells[l][i].job
  BY <1>1, <1>5, <1>6 DEF LaneTypes
<1>9. \A t \in Crew : t # s => at'[t] = at[t]
  BY <1>1, <1>2 DEF LaneTypes
<1>10. \A t \in Crew : HoldsJob(t) <=> HoldsJob(t)'
  BY <1>2, <1>3, <1>9 DEF HoldsJob, WithJob
<1>11. ASSUME NEW t \in Crew PROVE CrewOK(t)'
  <2>1. CrewOK(t)
    BY DEF LaneInv
  <2>2. CASE t = s
    BY <1>1, <1>2, <1>3, <1>10, <2>2 DEF CrewOK, HoldsJob, WithJob, Draining, L!Lanes
  <2>3. CASE t # s
    BY <1>2, <1>9, <1>10, <2>1, <2>3 DEF CrewOK, L!Lanes, LaneJobs, L!Shared, L!Me
  <2>4. QED
    BY <2>2, <2>3
<1>12. ASSUME NEW t \in Crew, NEW e \in Crew PROVE ApartOK(t, e)'
  <2>1. ApartOK(t, e) /\ at'[s] \notin Draining
    BY <1>3 DEF LaneInv, Draining, WithJob
  <2>2. QED
    BY <1>2, <1>9, <1>10, <2>1 DEF ApartOK, L!Shared
<1>13. ASSUME NEW l \in L!Lanes PROVE LaneQueueOK(l)' /\ BoundOK(l)'
  <2>1. LaneQueueOK(l) /\ BoundOK(l) /\ Gone(l)' = Gone(l)
    BY <1>2, <1>8 DEF LaneInv, Gone
  <2>2. LaneQueueOK(l)'
    BY <1>2, <1>8, <2>1 DEF LaneQueueOK
  <2>3. BoundOK(l)'
    BY <1>2, <1>10, <2>1 DEF BoundOK, L!Shared
  <2>4. QED
    BY <2>2, <2>3
<1>14. QED
  BY <1>2, <1>7, <1>11, <1>12, <1>13 DEF LaneInv, L!Lanes

(* A pop takes the first job of the lane. *)
LEMMA PopKeeps ==
  ASSUME LaneInv, NEW d \in Workers, L!Pop(d)
  PROVE  LaneInv'
<1>1. LaneTypes /\ CrewOK(d) /\ d \in Crew
  BY DEF LaneInv, Crew
<1>2. PICK m \in L!Lanes : m = lane[d]
  BY <1>1 DEF L!Pop, L!Go, CrewOK, Draining, WithJob
<1>3. PICK j : j = Head(cells[m]).job
  OBVIOUS
<1>4. /\ at[d] = "pop" /\ at' = [at EXCEPT ![d] = "size"] /\ cells[m] # << >>
      /\ hand' = [hand EXCEPT ![d] = j] /\ fate' = [fate EXCEPT ![j] = "taken"]
      /\ cells' = [cells EXCEPT ![m] = Tail(@)]
      /\ UNCHANGED <<use, bits, owner, entered, ahead, lane>>
  BY <1>2, <1>3 DEF L!Pop, L!Go, L!HeadReady
<1>5. cells[m] \in Seq([job : LaneJobs, ready : BOOLEAN]) /\ cells'[m] = Tail(cells[m])
      /\ \A l \in L!Lanes : l # m => cells'[l] = cells[l]
  BY <1>1, <1>4 DEF LaneTypes
<1>6. /\ Tail(cells[m]) \in Seq([job : LaneJobs, ready : BOOLEAN])
      /\ Len(cells[m]) \in Nat \ {0} /\ Len(cells'[m]) = Len(cells[m]) - 1
      /\ j \in LaneJobs /\ j = cells[m][1].job
      /\ \A i \in 1..(Len(cells[m]) - 1) : cells'[m][i] = cells[m][i + 1]
  <2> DEFINE R == [job : LaneJobs, ready : BOOLEAN]
  <2>1. \A r \in R : r.job \in LaneJobs
    OBVIOUS
  <2> HIDE DEF R
  <2>2. cells[m] \in Seq(R)
    BY <1>5 DEF R
  <2>3. /\ Tail(cells[m]) \in Seq(R) /\ Len(cells[m]) \in Nat \ {0}
           /\ Head(cells[m]) = cells[m][1]
        /\ Len(Tail(cells[m])) = Len(cells[m]) - 1 /\ cells[m][1] \in R
        /\ \A i \in 1..(Len(cells[m]) - 1) : Tail(cells[m])[i] = cells[m][i + 1]
    BY <1>4, <2>2
  <2>4. j \in LaneJobs /\ j = cells[m][1].job
    BY <1>3, <2>1, <2>3
  <2>5. QED
    BY <1>5, <2>3, <2>4 DEF R
<1>7. LaneQueueOK(m) /\ Len(entered[m]) \in Nat /\ Gone(m) \in Nat
      /\ Len(entered[m]) - Len(cells[m]) \in Nat
  BY <1>1, LaneLengths DEF LaneInv, LaneQueueOK, Gone
<1>8. /\ Gone(m)' = Gone(m) + 1 /\ Gone(m) + 1 \in 1..Len(entered[m])
      /\ \A l \in L!Lanes : l # m => Gone(l)' = Gone(l)
  <2>1. \A e \in Nat, c \in Nat \ {0} :
          e - c \in Nat => e - (c - 1) = (e - c) + 1 /\ (e - c) + 1 \in 1..e
    OBVIOUS
  <2>2. Gone(m)' = Len(entered[m]) - (Len(cells[m]) - 1)
    BY <1>4, <1>6 DEF Gone
  <2>3. Gone(m)' = Gone(m) + 1 /\ Gone(m) + 1 \in 1..Len(entered[m])
    BY <1>6, <1>7, <2>1, <2>2, Zenon DEF Gone
  <2>4. QED
    BY <1>4, <1>5, <2>3 DEF Gone
<1>9. j = entered[m][Gone(m) + 1] /\ fate[j] = "queued" /\ use.job[j] = m
  <2>1. j = entered[m][Gone(m) + 1]
    BY <1>6, <1>7 DEF LaneQueueOK
  <2>2. Gone(m) + 1 > Gone(m)
    BY <1>7
  <2>3. QED
    BY <1>7, <1>8, <2>1, <2>2 DEF LaneQueueOK
<1>10. at'[d] = "size" /\ hand'[d] = j /\ hand[d] = Nobody /\ fate'[j] = "taken"
       /\ j # Nobody /\ \A k \in LaneJobs : k # j => fate'[k] = fate[k]
  BY <1>1, <1>4, <1>6, PlanFacts DEF LaneTypes, CrewOK
<1>11. \A t \in Crew : t # d => at'[t] = at[t] /\ hand'[t] = hand[t]
  BY <1>1, <1>4 DEF LaneTypes
<1>12. /\ \A t \in Crew : t # d => (HoldsJob(t) <=> HoldsJob(t)')
       /\ ~ HoldsJob(d) /\ HoldsJob(d)'
  BY <1>4, <1>10, <1>11 DEF HoldsJob, WithJob
<1>13. LaneTypes'
  <2>1. cells' \in [L!Lanes -> Seq([job : LaneJobs, ready : BOOLEAN])]
    BY <1>1, <1>4, <1>6 DEF LaneTypes
  <2>2. QED
    BY <1>1, <1>4, <1>6, <2>1 DEF LaneTypes, L!Lanes, LaneJobs, Draining, WithJob
<1>14. ASSUME NEW t \in Crew PROVE CrewOK(t)'
  <2>1. CASE t = d
    BY <1>1, <1>2, <1>4, <1>6, <1>9, <1>10, <1>12, <2>1
       DEF CrewOK, Draining, WithJob, L!Lanes, LaneJobs, L!Shared, L!Me
  <2>2. CASE t # d
    <3>1. CrewOK(t)
      BY DEF LaneInv
    <3>2. HoldsJob(t) => fate'[hand[t]] = fate[hand[t]]
      BY <1>9, <1>10, <3>1 DEF CrewOK
    <3>3. QED
      BY <1>4, <1>11, <1>12, <2>2, <3>1, <3>2 DEF CrewOK, L!Lanes, LaneJobs, L!Shared, L!Me
  <2>3. QED
    BY <2>1, <2>2
<1>15. ASSUME NEW t \in Crew, NEW e \in Crew PROVE ApartOK(t, e)'
  <2>1. ApartOK(t, e) /\ at[d] \in Draining
    BY <1>4 DEF LaneInv, Draining
  <2>2. \A u \in Crew : HoldsJob(u) => hand[u] # j
    BY <1>9 DEF LaneInv, CrewOK
  <2>3. QED
    BY <1>4, <1>10, <1>11, <1>12, <2>1, <2>2 DEF ApartOK, L!Shared
<1>16. ASSUME NEW l \in L!Lanes, NEW i \in 1..Len(entered[l]), ~ (l = m /\ i = Gone(m) + 1)
       PROVE  entered[l][i] \in LaneJobs /\ entered[l][i] # j
              /\ fate'[entered[l][i]] = fate[entered[l][i]]
  <2>1. entered[l] \in Seq(LaneJobs) /\ LaneQueueOK(l)
    BY <1>1 DEF LaneInv, LaneTypes
  <2>2. entered[l][i] \in LaneJobs /\ use.job[entered[l][i]] = l
    BY <2>1, SeqFacts DEF LaneQueueOK
  <2>3. entered[l][i] # j
    <3>1. CASE l # m
      BY <1>9, <2>2, <3>1
    <3>2. CASE l = m
      BY <1>7, <1>8, <1>9, <1>16, <3>2 DEF LaneQueueOK
    <3>3. QED
      BY <3>1, <3>2
  <2>4. QED
    BY <1>10, <2>2, <2>3
<1>17. ASSUME NEW l \in L!Lanes PROVE LaneQueueOK(l)'
  <2>1. LaneQueueOK(l)
    BY DEF LaneInv
  <2>2. CASE l # m
    BY <1>4, <1>5, <1>8, <1>16, <2>1, <2>2 DEF LaneQueueOK
  <2>3. CASE l = m
    <3>1. \A i \in 1..Len(cells'[m]) : cells'[m][i].job = entered'[m][Gone(m)' + i]
      <4>1. ASSUME NEW i \in 1..(Len(cells[m]) - 1)
            PROVE  cells'[m][i].job = entered[m][(Gone(m) + 1) + i]
        <5>1. i + 1 \in 1..Len(cells[m]) /\ Gone(m) + (i + 1) = (Gone(m) + 1) + i
          BY <1>6, <1>7
        <5>2. cells[m][i + 1].job = entered[m][Gone(m) + (i + 1)]
          BY <1>7, <5>1 DEF LaneQueueOK
        <5>3. QED
          BY <1>6, <5>1, <5>2
      <4>2. QED
        BY <1>4, <1>6, <1>8, <4>1
    <3>2. ASSUME NEW i \in 1..Len(entered[m])
          PROVE  /\ use.job[entered[m][i]] = m
                 /\ fate'[entered[m][i]] \in IF i > Gone(m) + 1 THEN {"queued"}
                                             ELSE {"taken", "running", "done"}
      <4>1. CASE i = Gone(m) + 1
        BY <1>7, <1>9, <1>10, <4>1
      <4>2. CASE i # Gone(m) + 1
        <5>1. fate'[entered[m][i]] = fate[entered[m][i]]
          BY <1>16, <4>2
        <5>2. i > Gone(m) + 1 <=> i > Gone(m)
          BY <1>7, <4>2
        <5>3. QED
          BY <1>7, <5>1, <5>2 DEF LaneQueueOK
      <4>3. QED
        BY <4>1, <4>2
    <3>3. \A i, k \in 1..Len(entered'[m]) : entered'[m][i] = entered'[m][k] => i = k
      BY <1>4, <1>7 DEF LaneQueueOK
    <3>4. \A i \in 1..Len(entered'[m]) :
            /\ use'.job[entered'[m][i]] = m
            /\ fate'[entered'[m][i]] \in IF i > Gone(m)' THEN {"queued"}
                                          ELSE {"taken", "running", "done"}
      BY <1>4, <1>8, <3>2
    <3>5. Gone(m)' \in Nat
      BY <1>7, <1>8
    <3>6. LaneQueueOK(m)'
      BY <3>1, <3>3, <3>4, <3>5 DEF LaneQueueOK
    <3>7. QED
      BY <2>3, <3>6
  <2>4. QED
    BY <2>2, <2>3
<1>18. ASSUME NEW l \in L!Lanes PROVE BoundOK(l)'
  <2>1. BoundOK(l) /\ Len(entered[l]) \in Nat /\ Gone(l) \in Nat
        /\ (L!Shared(l)' <=> L!Shared(l))
    BY <1>1, <1>4, LaneLengths DEF LaneInv, LaneQueueOK, L!Shared
  <2>2. CASE l # m
    <3>1. \A i \in 1..Gone(l) : i \in 1..Len(entered[l])
      <4>1. Gone(l) <= Len(entered[l])
        <5>1. \A e, c \in Nat : e - c \in Nat => e - c <= e
          OBVIOUS
        <5>2. Len(cells[l]) \in Nat /\ Len(entered[l]) - Len(cells[l]) \in Nat
          BY <1>1, <2>1, LaneLengths DEF Gone
        <5>3. QED
          BY <2>1, <5>1, <5>2, Zenon DEF Gone
      <4>2. QED
        BY <2>1, <4>1
    <3>2. ASSUME NEW i \in 1..Gone(l), ~ L!Shared(l), fate[entered[l][i]] # "done"
          PROVE  i = Gone(l) /\ \E t \in Crew : HoldsJob(t)' /\ hand'[t] = entered[l][i]
      <4>1. i = Gone(l) /\ \E t \in Crew : HoldsJob(t) /\ hand[t] = entered[l][i]
        BY <2>1, <3>2 DEF BoundOK
      <4>2. QED
        BY <1>11, <1>12, <4>1
    <3>3. QED
      BY <1>4, <1>8, <1>16, <2>1, <2>2, <3>1, <3>2 DEF BoundOK
  <2>3. CASE l = m /\ ~ L!Shared(m)
    <3>1. \A t \in Crew : t # d /\ HoldsJob(t) => lane[t] # m
      <4>1. ASSUME NEW t \in Crew, t # d, HoldsJob(t), lane[t] = m PROVE FALSE
        <5>1. ApartOK(d, t) /\ at[t] \in Draining /\ at[d] \in Draining
          BY <1>1, <1>4, <4>1 DEF LaneInv, HoldsJob, Draining, WithJob
        <5>2. QED
          BY <1>2, <2>3, <4>1, <5>1 DEF ApartOK
      <4>2. QED
        BY <4>1
    <3>2. ASSUME NEW i \in 1..Gone(m), i \in 1..Len(entered[m])
          PROVE  fate[entered[m][i]] = "done"
      <4>1. ASSUME NEW t \in Crew, HoldsJob(t), hand[t] = entered[m][i] PROVE FALSE
        <5>1. t # d /\ use.job[hand[t]] = lane[t] /\ use.job[entered[m][i]] = m
          BY <1>7, <1>12, <3>2, <4>1 DEF LaneInv, CrewOK, LaneQueueOK
        <5>2. QED
          BY <3>1, <4>1, <5>1
      <4>2. QED
        BY <2>1, <2>3, <4>1 DEF BoundOK
    <3>3. ASSUME NEW i \in 1..(Gone(m) + 1)
          PROVE  \/ fate'[entered[m][i]] = "done"
                 \/ i = Gone(m) + 1 /\ \E t \in Crew : HoldsJob(t)' /\ hand'[t] = entered[m][i]
      <4>1. CASE i = Gone(m) + 1
        BY <1>1, <1>9, <1>10, <1>12, <4>1
      <4>2. CASE i # Gone(m) + 1
        <5>1. i \in 1..Gone(m) /\ i \in 1..Len(entered[m])
          BY <1>7, <1>8, <4>2
        <5>2. fate'[entered[m][i]] = fate[entered[m][i]]
          BY <1>16, <4>2, <5>1
        <5>3. QED
          BY <3>2, <5>1, <5>2
      <4>3. QED
        BY <4>1, <4>2
    <3>4. QED
      BY <1>4, <1>8, <2>3, <3>3 DEF BoundOK
  <2>4. CASE L!Shared(l)
    BY <2>1, <2>4 DEF BoundOK
  <2>5. QED
    BY <2>2, <2>3, <2>4
<1>19. QED
  BY <1>4, <1>13, <1>14, <1>15, <1>17, <1>18 DEF LaneInv, L!Lanes

-----------------------------------------------------------------------------
(* Every step keeps the invariant. *)
LEMMA LaneStep == LaneInv /\ [L!Next]_(L!vars) => LaneInv'
<1> SUFFICES ASSUME LaneInv, [L!Next]_(L!vars) PROVE LaneInv'
  OBVIOUS
<1>1. CASE UNCHANGED L!vars
  <2>1. UNCHANGED <<use, cells, bits, owner, fate, entered, at, hand, ahead, lane>>
    BY <1>1 DEF L!vars
  <2>2. LaneTypes' <=> LaneTypes
    BY <2>1 DEF LaneTypes, L!Lanes, LaneJobs
  <2>3. \A l : (LaneQueueOK(l)' <=> LaneQueueOK(l)) /\ (BoundOK(l)' <=> BoundOK(l))
    BY <2>1 DEF LaneQueueOK, BoundOK, HoldsJob, Gone, L!Shared
  <2>4. \A t : CrewOK(t)' <=> CrewOK(t)
    BY <2>1 DEF CrewOK, HoldsJob, L!Lanes, LaneJobs, L!Shared, L!Me
  <2>5. \A t, e : ApartOK(t, e)' <=> ApartOK(t, e)
    BY <2>1 DEF ApartOK, HoldsJob, L!Shared
  <2>6. QED
    BY <2>1, <2>2, <2>3, <2>4, <2>5 DEF LaneInv, L!Lanes
<1>2. ASSUME NEW s \in Submitters, L!Submitter(s) PROVE LaneInv'
  <2>1. LaneTypes
    BY DEF LaneInv
  <2>2. DOMAIN fate = LaneJobs
    BY <2>1 DEF LaneTypes
  <2>3. QED
    BY <1>2, <2>2, ClaimLaneKeeps, FullLaneKeeps, PublishLaneKeeps, MarkKeeps DEF L!Submitter,
       L!Submitting
<1>3. ASSUME NEW d \in Workers, L!Drainer(d) PROVE LaneInv'
  BY <1>3, LookKeeps, LookedKeeps, ScanKeeps, AcquireKeeps, PopKeeps, PopNothingKeeps,
     BetweenKeeps, ReleaseKeeps, RunKeeps, RanKeeps DEF L!Drainer
<1>4. QED
  BY <1>1, <1>2, <1>3 DEF L!Next

(* What the invariant says of histories and jobs is the order of the       *)
(* lanes.                                                                  *)
LEMMA LaneOrderFollows == LaneInv => L!InOrder
<1> SUFFICES ASSUME LaneInv, NEW l \in L!Lanes,
                    NEW i \in DOMAIN entered[l], NEW k \in DOMAIN entered[l], i < k
             PROVE  IF L!Shared(l)
                    THEN fate[entered[l][k]] # "queued" => fate[entered[l][i]] # "queued"
                    ELSE fate[entered[l][k]] \in {"running", "done"}
                      => fate[entered[l][i]] = "done"
  BY DEF L!InOrder
<1>1. LaneTypes /\ LaneQueueOK(l) /\ BoundOK(l) /\ entered[l] \in Seq(LaneJobs)
  BY DEF LaneInv, LaneTypes
<1>2. i \in 1..Len(entered[l]) /\ k \in 1..Len(entered[l]) /\ Len(entered[l]) \in Nat
  BY <1>1, SeqFacts
<1>3. Gone(l) \in Nat
  BY <1>1 DEF LaneQueueOK
<1>4. ASSUME fate[entered[l][k]] # "queued" PROVE i \in 1..Gone(l) /\ i # Gone(l)
  <2>1. ~ k > Gone(l)
    BY <1>1, <1>2, <1>4 DEF LaneQueueOK
  <2>2. QED
    BY <1>2, <1>3, <2>1
<1>5. CASE L!Shared(l)
  <2>1. ASSUME fate[entered[l][k]] # "queued" PROVE fate[entered[l][i]] # "queued"
    <3>1. ~ i > Gone(l)
      BY <1>2, <1>3, <1>4, <2>1
    <3>2. QED
      BY <1>1, <1>2, <3>1 DEF LaneQueueOK
  <2>2. QED
    BY <1>5, <2>1
<1>6. CASE ~ L!Shared(l)
  BY <1>1, <1>4, <1>6 DEF BoundOK
<1>7. QED
  BY <1>5, <1>6

-----------------------------------------------------------------------------
(* The ways of MCWaiting: a behaviour exercises one of its modules.        *)

(* The counter moves as in WaitPoint, or stands still. *)
LEMMA WaitPart == MCSpec => Spec
<1>1. MCInit => Init
  BY DEF MCInit
<1>2. [MCNext]_all => [Next]_vars
  BY DEF MCNext, all
<1>3. QED
  BY <1>1, <1>2, PTL DEF MCSpec, Spec

(* A behaviour of the dependencies is one of TaskDeps. *)
LEMMA DepsWay ==
  MCSpec => (way = "deps" /\ D!Init /\ [][D!Next]_(D!vars)) \/ [](way # "deps")
<1>1. MCInit /\ way = "deps" => D!Init
  BY DEF MCInit
<1>2. way = "deps" /\ [MCNext]_all => [D!Next]_(D!vars) /\ (way = "deps")'
  BY DEF MCNext, all, OfDeps, D!vars
<1>3. way # "deps" /\ [MCNext]_all => (way # "deps")'
  BY DEF MCNext, all
<1>4. way # "deps" <=> ~ (way = "deps")
  OBVIOUS
<1>5. way = "deps" /\ MCSpec => D!Init /\ [][D!Next]_(D!vars)
  BY <1>1, <1>2, PTL DEF MCSpec
<1>6. way # "deps" /\ MCSpec => [](way # "deps")
  BY <1>3, PTL DEF MCSpec
<1>7. QED
  BY <1>4, <1>5, <1>6, PTL

(* A behaviour of the lanes is one of Lane. *)
LEMMA LaneWay ==
  MCSpec => (way = "lane" /\ L!Init /\ [][L!Next]_(L!vars)) \/ [](way # "lane")
<1>1. MCInit /\ way = "lane" => L!Init
  BY DEF MCInit
<1>2. way = "lane" /\ [MCNext]_all => [L!Next]_(L!vars) /\ (way = "lane")'
  BY DEF MCNext, all, OfLane, L!vars
<1>3. way # "lane" /\ [MCNext]_all => (way # "lane")'
  BY DEF MCNext, all
<1>4. way # "lane" <=> ~ (way = "lane")
  OBVIOUS
<1>5. way = "lane" /\ MCSpec => L!Init /\ [][L!Next]_(L!vars)
  BY <1>1, <1>2, PTL DEF MCSpec
<1>6. way # "lane" /\ MCSpec => [](way # "lane")
  BY <1>3, PTL DEF MCSpec
<1>7. QED
  BY <1>4, <1>5, <1>6, PTL

(* The same for the composition: awaiting, completing and draining side by *)
(* side wake nobody twice or early, as InductiveInvariant has it.          *)
THEOREM NobodyWokenTwiceHere == MCSpec => []WokenOnceAtZero
<1>1. QED
  BY WaitPart, NobodyWokenTwice, PTL

(* after, add_dependency, notify_dependents and the refusal of early       *)
(* activations: for any graph and any number of workers, a task is ready   *)
(* only when all it runs after have completed, unless one of several has   *)
(* run again, and predecessors that end at the same time activate it once. *)
THEOREM DependentsStartInOrder == MCSpec => []DependentInOrder
<1>1. D!Init => DepInv
  BY DepsInitially
<1>2. DepInv /\ [D!Next]_(D!vars) => DepInv'
  BY DepsStep
<1>3. DepInv => DependentInOrder
  BY DepsFollow DEF DependentInOrder
<1>4. way # "deps" => DependentInOrder
  BY DEF DependentInOrder
<1>5. QED
  BY <1>1, <1>2, <1>3, <1>4, DepsWay, PTL

(* submit, try_drain_lanes and pump_lanes: for any number of lanes, jobs,  *)
(* workers and threads that pump, a job of a bound lane starts when all    *)
(* that entered the lane before it have ended, and a shared lane gives its *)
(* jobs out in the order in which they entered it.                         *)
THEOREM LanesKeepOrder == MCSpec => []LaneInOrder
<1>1. LaneInv => LaneInOrder
  BY LaneOrderFollows DEF LaneInOrder
<1>2. way # "lane" => LaneInOrder
  BY DEF LaneInOrder
<1>3. QED
  BY <1>1, <1>2, LaneInitially, LaneStep, LaneWay, PTL
=============================================================================
