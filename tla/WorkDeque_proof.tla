-------------------------- MODULE WorkDeque_proof --------------------------
(***************************************************************************)
(* Proof that a work deque whose thieves take one job at a time hands out  *)
(* every job exactly once and implements the atomic deque of DequeSpec,    *)
(* for any number of thieves and jobs, any capacity and any number of      *)
(* growths.                                                                *)
(***************************************************************************)
EXTENDS WorkDeque, FiniteSetTheorems, SequenceTheorems, TLAPS

-----------------------------------------------------------------------------
(* A ring of C slots, in which position i lives in slot i % C, as the mask *)
(* of each buffer computes it.                                             *)

LEMMA DivMod ==
  ASSUME NEW C \in Nat, C >= 1, NEW i \in Nat
  PROVE  i \div C \in Nat /\ i % C \in 0..C-1 /\ i = C * (i \div C) + (i % C)
  BY SMT

LEMMA MultiplesApart ==
  ASSUME NEW C \in Nat, C >= 1, NEW a \in Nat, NEW b \in Nat, a < b
  PROVE  C * a + C <= C * b
<1>1. PICK d \in Nat : b = a + 1 + d  BY SMT
<1>2. C * b = C * a + C + C * d  BY <1>1, SMT
<1>3. C * d >= 0 /\ C * a \in Nat /\ C * d \in Nat  BY SMT
<1> QED BY <1>2, <1>3, SMT

(* A position has a slot. *)
LEMMA SlotOf ==
  ASSUME NEW C \in Nat, C >= 1, NEW i \in Nat
  PROVE  i % C \in 0..C-1
  BY DivMod

(* Within one lap no two positions share a slot. *)
LEMMA OneSlotPerLap ==
  ASSUME NEW C \in Nat, C >= 1, NEW i \in Nat, NEW j \in Nat,
         i < j, j < i + C
  PROVE  i % C # j % C
<1> DEFINE p == i \div C  q == j \div C  r == i % C  s == j % C
<1>1. p \in Nat /\ r \in 0..C-1 /\ i = C * p + r  BY DivMod
<1>2. q \in Nat /\ s \in 0..C-1 /\ j = C * q + s  BY DivMod
<1> HIDE DEF p, q, r, s
<1>3. SUFFICES ASSUME r = s PROVE FALSE  BY DEF r, s
<1>4. p < q => C * p + C <= C * q  BY MultiplesApart, <1>1, <1>2
<1>5. q < p => C * q + C <= C * p  BY MultiplesApart, <1>1, <1>2
<1>6. C * p \in Nat /\ C * q \in Nat  BY <1>1, <1>2, SMT
<1> QED BY <1>1, <1>2, <1>3, <1>4, <1>5, <1>6, SMT

-----------------------------------------------------------------------------
OwnerPushing == {"grow", "publish_buffer", "recheck", "store", "publish"}
OwnerPopping == {"pop", "pop_cas", "restore"}

OwnerPcs     == {"idle"} \cup OwnerPushing \cup OwnerPopping
ThiefPcs     == {"idle", "bottom", "buffer", "copy", "cas"}

PcOK ==
  /\ pc \in [Workers -> OwnerPcs \cup ThiefPcs]
  /\ pc[Owner] \in OwnerPcs
  /\ \A t \in Thieves : pc[t] \in ThiefPcs

Types == TypeOK /\ PcOK /\ \A g \in 0..gen : capacity[g] >= 2

(* The positions of the jobs nobody has taken. *)
Window == top..LogicalBottom-1

(* One slot is free; what the owner knows between two of its accesses.     *)
OwnerOK ==
  /\ top <= LogicalBottom
  /\ LogicalBottom - top < capacity[gen]
  /\ pc[Owner] \in OwnerPushing => arg \in unpushed
  /\ pc[Owner] \in {"store", "publish"} => bottom - top + 1 < capacity[gen]
  /\ pc[Owner] = "publish_buffer" =>
       /\ gen < MaxGrow /\ capacity[gen + 1] = 2 * capacity[gen]
       /\ \A p \in Window : At(gen + 1, p) = At(gen, p)
  /\ pc[Owner] = "publish" => At(gen, bottom) = arg
  /\ pc[Owner] = "pop_cas" => /\ seenTop[Owner] = bottom /\ bottom <= top
                              /\ top = bottom => arg = At(gen, bottom)
  /\ pc[Owner] = "restore" => top = bottom + 1

(* Every job pushed so far has been taken once, or is at one position.     *)
JobsOK ==
  /\ \A p \in Window : At(gen, p) \in Jobs \ unpushed /\ taken[At(gen, p)] = 0
  /\ \A p, q \in Window : At(gen, p) = At(gen, q) => p = q
  /\ \A j \in Jobs \ unpushed : taken[j] = 1 \/ \E p \in Window : At(gen, p) = j
  /\ \A j \in unpushed : taken[j] = 0

(* A thief whose compare-and-swap would succeed has copied the job at the  *)
(* top, whichever buffer it copied from.                                   *)
ThiefOK(t) ==
  /\ pc[t] # "idle" => seenTop[t] <= top
  /\ pc[t] \in {"buffer", "copy", "cas"} /\ seenTop[t] = top => top < LogicalBottom
  /\ pc[t] = "copy" => /\ seenGen[t] <= gen /\ copied[t] = << >>
                       /\ seenTop[t] = top => At(seenGen[t], top) = At(gen, top)
  /\ pc[t] = "cas" => /\ Len(copied[t]) = 1
                      /\ seenTop[t] = top => copied[t] = <<At(gen, top)>>

IInv == Types /\ OwnerOK /\ JobsOK /\ \A t \in Thieves : ThiefOK(t)

-----------------------------------------------------------------------------
(* What a step does to the jobs in the window: nothing, or one of the      *)
(* three steps of DequeSpec.                                               *)

(* What stays in the window stays where it is, in every buffer so far.     *)
Frame ==
  /\ gen <= gen'
  /\ \A p \in Window : p \in Window' =>
       /\ At(gen, p)' = At(gen, p)
       /\ \A g \in 0..gen : At(g, p)' = At(g, p)

Counted(j) == taken' = [taken EXCEPT ![j] = @ + 1]

Keeps == Frame /\ UNCHANGED <<top, LogicalBottom, unpushed, taken>>

Appends ==
  /\ Frame
  /\ arg \in unpushed /\ unpushed' = unpushed \ {arg}
  /\ LogicalBottom' = LogicalBottom + 1
  /\ \A p \in {LogicalBottom} : At(gen, p)' = arg
  /\ UNCHANGED <<top, taken>>

TakesLast ==
  /\ Frame
  /\ top < LogicalBottom - 1 /\ LogicalBottom' = LogicalBottom - 1
  /\ Counted(At(gen, LogicalBottom - 1))
  /\ UNCHANGED <<top, unpushed>>

TakesFirst ==
  /\ Frame
  /\ top < LogicalBottom /\ top' = top + 1
  /\ Counted(At(gen, top))
  /\ UNCHANGED <<LogicalBottom, unpushed>>

StepKind == Keeps \/ Appends \/ TakesLast \/ TakesFirst

LEMMA Bounds ==
  ASSUME Types
  PROVE  top \in Nat /\ LogicalBottom \in Int /\ gen \in Nat
BY DequeAssumption DEF Types, TypeOK, LogicalBottom, Gens

LEMMA JobsOKStep ==
  ASSUME Types, OwnerOK, JobsOK, Types', StepKind
  PROVE  JobsOK'
<1>1. top \in Nat /\ LogicalBottom \in Int /\ top' \in Nat /\ LogicalBottom' \in Int
  <2>1. /\ top \in Nat /\ bottom \in Int
        /\ top' \in Nat /\ bottom' \in Int
    BY DEF Types, TypeOK
  <2>2. QED
    BY <2>1 DEF LogicalBottom
<1>2. /\ taken \in [Jobs -> Nat] /\ unpushed \subseteq Jobs
  BY DEF Types, TypeOK
<1> DEFINE at(p) == At(gen, p)
           w == Window
<1>a. /\ \A p \in w : at(p) \in Jobs \ unpushed /\ taken[at(p)] = 0
      /\ \A p, q \in w : at(p) = at(q) => p = q
      /\ \A j \in Jobs \ unpushed : taken[j] = 1 \/ \E p \in w : at(p) = j
      /\ \A j \in unpushed : taken[j] = 0
  BY DEF JobsOK
<1>b. SUFFICES /\ \A p \in w' : at(p)' \in Jobs \ unpushed' /\ taken'[at(p)'] = 0
               /\ \A p, q \in w' : at(p)' = at(q)' => p = q
               /\ \A j \in Jobs \ unpushed' : taken'[j] = 1 \/ \E p \in w' : at(p)' = j
               /\ \A j \in unpushed' : taken'[j] = 0
  BY DEF JobsOK
<1>c. \A p \in w : p \in w' => at(p)' = at(p)
  BY DEF StepKind, Keeps, Appends, TakesLast, TakesFirst, Frame
<1>3. CASE Keeps
  <2>1. w' = w /\ unpushed' = unpushed /\ taken' = taken
    BY <1>3 DEF Keeps, Window
  <2> HIDE DEF at, w
  <2>2. QED
    BY <1>a, <1>c, <2>1
<1>4. CASE Appends
  <2>0. PICK l : l = LogicalBottom
    OBVIOUS
  <2>1. /\ w' = w \cup {l} /\ at(l)' = arg /\ l \notin w
        /\ arg \in unpushed /\ unpushed' = unpushed \ {arg} /\ taken' = taken
    BY <1>1, <1>4, <2>0 DEF Appends, Window, OwnerOK
  <2> HIDE DEF at, w
  <2>2. at(l)' \in Jobs \ unpushed' /\ taken[at(l)'] = 0
    BY <1>2, <1>a, <2>1
  <2>3. \A p \in w' : at(p)' \in Jobs \ unpushed' /\ taken'[at(p)'] = 0
    BY <1>a, <1>c, <2>1, <2>2
  <2>4. \A p \in w : at(p)' = at(p) /\ at(p) # arg
    BY <1>a, <1>c, <2>1
  <2>5. \A p, q \in w' : at(p)' = at(q)' => p = q
    BY <1>a, <2>1, <2>4
  <2>6. \A j \in Jobs \ unpushed' : taken'[j] = 1 \/ \E p \in w' : at(p)' = j
    BY <1>a, <1>c, <2>1
  <2>7. QED
    BY <1>a, <2>1, <2>3, <2>5, <2>6
<1>5. ASSUME NEW l \in w, w' = w \ {l}, unpushed' = unpushed, Counted(at(l))
      PROVE  /\ \A p \in w' : at(p)' \in Jobs \ unpushed' /\ taken'[at(p)'] = 0
             /\ \A p, q \in w' : at(p)' = at(q)' => p = q
             /\ \A j \in Jobs \ unpushed' : taken'[j] = 1 \/ \E p \in w' : at(p)' = j
             /\ \A j \in unpushed' : taken'[j] = 0
  <2> HIDE DEF at, w
  <2>1. at(l) \in Jobs \ unpushed /\ taken'[at(l)] = 1
    BY <1>2, <1>a, <1>5 DEF Counted
  <2>2. \A j \in Jobs : j # at(l) => taken'[j] = taken[j]
    BY <1>2, <1>5 DEF Counted
  <2>3. QED
    BY <1>2, <1>a, <1>c, <1>5, <2>1, <2>2
<1>6. CASE TakesLast
  <2>1. /\ LogicalBottom - 1 \in w /\ w' = w \ {LogicalBottom - 1}
    BY <1>1, <1>6 DEF TakesLast, Window
  <2>2. unpushed' = unpushed /\ Counted(at(LogicalBottom - 1))
    BY <1>6 DEF TakesLast
  <2> HIDE DEF at, w
  <2>3. QED
    BY <1>5, <2>1, <2>2
<1>7. CASE TakesFirst
  <2>1. /\ top \in w /\ w' = w \ {top}
    BY <1>1, <1>7 DEF TakesFirst, Window
  <2>2. unpushed' = unpushed /\ Counted(at(top))
    BY <1>7 DEF TakesFirst
  <2> HIDE DEF at, w
  <2>3. QED
    BY <1>5, <2>1, <2>2
<1>8. QED
  BY <1>3, <1>4, <1>6, <1>7 DEF StepKind

(* A thief that did not move: its compare-and-swap now fails, or what it   *)
(* copied is still at the top.                                             *)
LEMMA ThiefOKStep ==
  ASSUME Types, OwnerOK, Types', StepKind, NEW t \in Thieves, ThiefOK(t),
         UNCHANGED <<pc[t], seenTop[t], seenGen[t], copied[t]>>
  PROVE  ThiefOK(t)'
<1>1. /\ top \in Nat /\ bottom \in Int /\ gen \in Nat
      /\ seenTop[t] \in Nat /\ seenGen[t] \in Nat
      /\ top' \in Nat /\ bottom' \in Int /\ gen' \in Nat
  BY DequeAssumption DEF Types, TypeOK, Workers, Gens
<1>2. LogicalBottom \in Int /\ LogicalBottom' \in Int /\ gen <= gen'
  <2>1. LogicalBottom \in Int /\ LogicalBottom' \in Int
    BY <1>1 DEF LogicalBottom
  <2>2. Frame
    BY DEF StepKind, Keeps, Appends, TakesLast, TakesFirst
  <2>3. QED
    BY <2>1, <2>2 DEF Frame
<1>3. CASE top' = top
  <2>1. top < LogicalBottom => top < LogicalBottom'
    BY <1>1, <1>2, <1>3 DEF StepKind, Keeps, Appends, TakesLast, TakesFirst
  <2>2. gen <= gen' /\ (top < LogicalBottom => \A p \in {top} :
          /\ At(gen, p)' = At(gen, p)
          /\ \A g \in 0..gen : At(g, p)' = At(g, p))
    <3>1. Frame
      BY DEF StepKind, Keeps, Appends, TakesLast, TakesFirst
    <3>2. \A b \in Int : top < b => top \in top..b-1
      BY <1>1
    <3>3. top < LogicalBottom => top \in Window /\ top \in Window'
      BY <1>2, <1>3, <2>1, <3>2 DEF Window
    <3>4. QED
      BY <3>1, <3>3 DEF Frame
  <2>3. QED
    BY <1>1, <1>2, <1>3, <2>1, <2>2 DEF ThiefOK
<1>4. CASE top' = top + 1
  BY <1>1, <1>2, <1>4 DEF ThiefOK
<1>5. QED
  BY <1>3, <1>4 DEF StepKind, Keeps, Appends, TakesLast, TakesFirst

-----------------------------------------------------------------------------
(* Slots *)

LEMMA SlotType ==
  ASSUME Types, NEW g \in 0..gen, NEW p \in Nat
  PROVE  /\ g \in Gens /\ capacity[g] \in Nat /\ capacity[g] >= 2
         /\ Slot(g, p) \in 0..capacity[g]-1
         /\ At(g, p) \in Jobs \cup {None}
<1>1. g \in Gens /\ gen \in Gens
  BY DequeAssumption DEF Types, TypeOK, Gens
<1>2. capacity[g] \in Nat /\ capacity[g] >= 2
  BY <1>1 DEF Types, TypeOK
<1>3. p % capacity[g] \in 0..capacity[g]-1
  BY <1>2, SlotOf
<1>4. slots[g] \in [0..capacity[g]-1 -> Jobs \cup {None}]
  BY <1>1 DEF Types, TypeOK
<1>5. QED
  BY <1>1, <1>2, <1>3, <1>4 DEF Slot, At

(* Positions less than a capacity apart do not share a slot. *)
LEMMA Apart ==
  ASSUME Types, NEW g \in 0..gen, NEW p \in Nat, NEW q \in Nat,
         p < q, q < p + capacity[g]
  PROVE  Slot(g, p) # Slot(g, q)
<1>1. capacity[g] \in Nat /\ capacity[g] >= 1
  BY SlotType
<1>2. QED
  BY <1>1, OneSlotPerLap DEF Slot

LEMMA QuietKeeps ==
  ASSUME Types, UNCHANGED <<top, bufferVars, unpushed, taken>>,
         LogicalBottom' = LogicalBottom
  PROVE  Keeps
<1>1. gen \in Nat
  BY Bounds
<1>2. QED
  BY <1>1 DEF Keeps, Frame, Window, At, Slot, bufferVars

(* What Deliver does for one job. *)
LEMMA DeliverOne ==
  ASSUME Types, NEW j \in Jobs, Deliver(<<j>>)
  PROVE  Counted(j)
<1>1. taken \in [Jobs -> Nat]
  BY DEF Types, TypeOK
<1>2. \A k \in Jobs : Cardinality({i \in DOMAIN <<j>> : <<j>>[i] = k})
                        = IF k = j THEN 1 ELSE 0
  <2>1. TAKE k \in Jobs
  <2>2. CASE k = j
    <3>1. {i \in DOMAIN <<j>> : <<j>>[i] = k} = {1}
      BY <2>2
    <3>2. QED
      BY <2>2, <3>1, FS_Singleton
  <2>3. CASE k # j
    <3>1. {i \in DOMAIN <<j>> : <<j>>[i] = k} = {}
      BY <2>3
    <3>2. QED
      BY <2>3, <3>1, FS_EmptySet
  <2>4. QED
    BY <2>2, <2>3
<1>3. taken' = [k \in Jobs |-> taken[k] + (IF k = j THEN 1 ELSE 0)]
  BY <1>2 DEF Deliver
<1>4. taken' = [k \in Jobs |-> IF k = j THEN taken[j] + 1 ELSE taken[k]]
  BY <1>1, <1>3
<1>5. QED
  BY <1>1, <1>4 DEF Counted

(* A thief allowed one job asks for one. *)
LEMMA BatchOne ==
  ASSUME Types, MaxCount = 1, NEW t \in Thieves
  PROVE  Batch(t) = 1
<1>1. seenBottom[t] - seenTop[t] \in Int /\ capacity[seenGen[t]] \in Nat
  BY DEF Types, TypeOK, Workers
<1>2. ASSUME NEW a \in Int, NEW c \in Nat
      PROVE  Wanted(a, c) = 1
  <2>1. a \div 2 \in Int /\ c \div 4 \in Int
    OBVIOUS
  <2>2. QED
    BY <2>1 DEF Wanted, Least
<1>3. QED
  BY <1>1, <1>2 DEF Batch

-----------------------------------------------------------------------------
(* The owner's steps *)

LEMMA OwnerKnows ==
  ASSUME IInv
  PROVE  /\ top \in Nat /\ bottom \in Int /\ gen \in Nat /\ gen \in Gens /\ gen \in 0..gen
         /\ LogicalBottom \in Nat /\ top <= LogicalBottom
         /\ pc[Owner] \notin OwnerPopping => bottom = LogicalBottom
         /\ pc[Owner] \in OwnerPopping => bottom = LogicalBottom - 1
         /\ Owner \in Workers /\ Owner \notin Thieves
BY DequeAssumption DEF IInv, Types, TypeOK, PcOK, OwnerOK, LogicalBottom, Gens, Workers,
   OwnerPopping

LEMMA OwnerGoes ==
  ASSUME PcOK, NEW to \in OwnerPcs, pc' = [pc EXCEPT ![Owner] = to]
  PROVE  PcOK' /\ pc'[Owner] = to /\ \A t \in Thieves : pc'[t] = pc[t]
BY DequeAssumption DEF PcOK, Workers

LEMMA ThiefGoes ==
  ASSUME PcOK, NEW t \in Thieves, NEW to \in ThiefPcs, pc' = [pc EXCEPT ![t] = to]
  PROVE  PcOK' /\ pc'[t] = to /\ \A w \in Workers \ {t} : pc'[w] = pc[w]
BY DequeAssumption DEF PcOK, Workers

LEMMA PushOK ==
  ASSUME IInv, NEW j \in Jobs, Push(j)
  PROVE  StepKind /\ Types' /\ OwnerOK'
<1> USE DEF OwnerPushing, OwnerPopping
<1>1. /\ j \in unpushed /\ arg' = j /\ pc[Owner] = "idle"
      /\ UNCHANGED <<top, bottom, bufferVars, seenTop, thiefVars, unpushed, taken>>
  BY DEF Push, Goto
<1>2. PICK to \in {"grow", "store"} :
        /\ pc' = [pc EXCEPT ![Owner] = to] 
        /\ to = "store" => ~ Full(top)
  BY DEF Push, Goto
<1>3. PcOK' /\ pc'[Owner] = to
  BY <1>2, OwnerGoes DEF IInv, Types, OwnerPcs
<1>4. LogicalBottom' = LogicalBottom
  BY <1>1, <1>3 DEF LogicalBottom
<1>5. Keeps
  BY <1>1, <1>4, QuietKeeps DEF IInv
<1>6. Types'
  BY <1>1, <1>3 DEF bufferVars, thiefVars, IInv, Types, TypeOK
<1>7. OwnerOK'
  BY <1>1, <1>2, <1>3, <1>4, OwnerKnows DEF bufferVars, Full, IInv, Types, OwnerOK, TypeOK
<1>8. QED
  BY <1>5, <1>6, <1>7 DEF StepKind

LEMMA PushRecheckOK ==
  ASSUME IInv, PushRecheck
  PROVE  StepKind /\ Types' /\ OwnerOK'
<1> USE DEF OwnerPushing, OwnerPopping
<1>1. /\ pc[Owner] = "recheck"
      /\ UNCHANGED <<top, bottom, bufferVars, seenTop, ownerVars, thiefVars, taken>>
  BY DEF PushRecheck, Goto
<1>2. PICK to \in {"grow", "store"} :
        /\ pc' = [pc EXCEPT ![Owner] = to]
        /\ to = "store" => ~ Full(top)
  BY DEF PushRecheck, Goto
<1>3. PcOK' /\ pc'[Owner] = to
  BY <1>2, OwnerGoes DEF IInv, Types, OwnerPcs
<1>4. LogicalBottom' = LogicalBottom
  BY <1>1, <1>3 DEF LogicalBottom
<1>5. Keeps
  BY <1>1, <1>4, QuietKeeps DEF IInv, ownerVars
<1>6. Types'
  BY <1>1, <1>3, OwnerKnows DEF bufferVars, ownerVars, thiefVars, IInv, Types, TypeOK
<1>7. OwnerOK'
  BY <1>1, <1>3, <1>4, OwnerKnows, <1>2 DEF Full, bufferVars, ownerVars, IInv, Types, OwnerOK, TypeOK
<1>8. QED
  BY <1>5, <1>6, <1>7 DEF StepKind

LEMMA PushDropOK ==
  ASSUME IInv, PushDrop
  PROVE  StepKind /\ Types' /\ OwnerOK'
<1> USE DEF OwnerPushing, OwnerPopping
<1>1. /\ pc[Owner] = "grow"
      /\ pc' = [pc EXCEPT ![Owner] = "idle"] /\ arg' = None
      /\ UNCHANGED <<top, bottom, bufferVars, seenTop, thiefVars, unpushed, taken>>
  BY DEF PushDrop, Goto
<1>3. PcOK' /\ pc'[Owner] = "idle"
  BY <1>1, OwnerGoes DEF IInv, Types, OwnerPcs
<1>4. LogicalBottom' = LogicalBottom
  BY <1>1, <1>3, OwnerKnows DEF LogicalBottom
<1>5. Keeps
  BY <1>1, <1>4, QuietKeeps DEF IInv, bufferVars
<1>6. Types'
  BY <1>1, <1>3, OwnerKnows DEF bufferVars, ownerVars, thiefVars, IInv, Types, TypeOK
<1>7. OwnerOK'
  BY <1>1, <1>3, <1>4, OwnerKnows DEF bufferVars, ownerVars, IInv, Types, OwnerOK, TypeOK
<1>8. QED
  BY <1>5, <1>6, <1>7 DEF StepKind

LEMMA PopReserveOK ==
  ASSUME IInv, PopReserve
  PROVE  StepKind /\ Types' /\ OwnerOK'
<1> USE DEF OwnerPushing, OwnerPopping
<1>1. /\ pc[Owner] = "idle"
      /\ pc' = [pc EXCEPT ![Owner] = "pop"] /\ bottom' = bottom - 1
      /\ UNCHANGED <<top, bufferVars, seenTop, ownerVars, thiefVars, taken>>
  BY DEF PopReserve, Goto
<1>3. PcOK' /\ pc'[Owner] = "pop"
  BY <1>1, OwnerGoes DEF IInv, Types, OwnerPcs
<1>4. LogicalBottom' = LogicalBottom
  BY <1>1, <1>3, OwnerKnows DEF LogicalBottom
<1>5. Keeps
  BY <1>1, <1>4, QuietKeeps DEF IInv, bufferVars, ownerVars
<1>6. Types'
  BY <1>1, <1>3, OwnerKnows DEF bufferVars, ownerVars, thiefVars, IInv, Types, TypeOK
<1>7. OwnerOK'
  BY <1>1, <1>3, <1>4, OwnerKnows DEF bufferVars, ownerVars, IInv, Types, OwnerOK, TypeOK
<1>8. QED
  BY <1>5, <1>6, <1>7 DEF StepKind

LEMMA PopLastOK ==
  ASSUME IInv, PopLast
  PROVE  StepKind /\ Types' /\ OwnerOK'
<1> USE DEF OwnerPushing, OwnerPopping
<1>1. /\ pc[Owner] = "pop"
      /\ pc' = [pc EXCEPT ![Owner] = "pop_cas"] /\ top = bottom
      /\ arg' = At(gen, bottom) /\ seenTop' = [seenTop EXCEPT ![Owner] = top]
      /\ UNCHANGED <<top, bottom, bufferVars, thiefVars, unpushed, taken>>
  BY DEF PopLast, Goto
<1>2. At(gen, bottom) \in Jobs \cup {None}
  BY <1>1, OwnerKnows, SlotType DEF IInv
<1>3. PcOK' /\ pc'[Owner] = "pop_cas"
  BY <1>1, OwnerGoes DEF IInv, Types, OwnerPcs
<1>4. LogicalBottom' = LogicalBottom
  BY <1>1, <1>3, OwnerKnows DEF LogicalBottom
<1>5. Keeps
  BY <1>1, <1>4, QuietKeeps DEF IInv, bufferVars
<1>6. Types'
  BY <1>1, <1>3, OwnerKnows, <1>2 DEF bufferVars, ownerVars, thiefVars, IInv, Types, TypeOK
<1>7. OwnerOK'
  BY <1>1, <1>3, <1>4, OwnerKnows DEF bufferVars, ownerVars, IInv, Types, OwnerOK, TypeOK, At, Slot
<1>8. QED
  BY <1>5, <1>6, <1>7 DEF StepKind

LEMMA PopEmptyOK ==
  ASSUME IInv, PopEmpty
  PROVE  StepKind /\ Types' /\ OwnerOK'
<1> USE DEF OwnerPushing, OwnerPopping
<1>1. /\ pc[Owner] = "pop"
      /\ pc' = [pc EXCEPT ![Owner] = "restore"] /\ top > bottom
      /\ UNCHANGED <<top, bottom, bufferVars, seenTop, ownerVars, thiefVars, taken>>
  BY DEF PopEmpty, Goto
<1>3. PcOK' /\ pc'[Owner] = "restore"
  BY <1>1, OwnerGoes DEF IInv, Types, OwnerPcs
<1>4. LogicalBottom' = LogicalBottom
  BY <1>1, <1>3, OwnerKnows DEF LogicalBottom
<1>5. Keeps
  BY <1>1, <1>4, QuietKeeps DEF IInv, bufferVars, ownerVars
<1>6. Types'
  BY <1>1, <1>3, OwnerKnows DEF bufferVars, ownerVars, thiefVars, IInv, Types, TypeOK
<1>7. OwnerOK'
  BY <1>1, <1>3, <1>4, OwnerKnows DEF bufferVars, ownerVars, IInv, Types, OwnerOK, TypeOK
<1>8. QED
  BY <1>5, <1>6, <1>7 DEF StepKind

LEMMA PopRestoreOK ==
  ASSUME IInv, PopRestore
  PROVE  StepKind /\ Types' /\ OwnerOK'
<1> USE DEF OwnerPushing, OwnerPopping
<1>1. /\ pc[Owner] = "restore"
      /\ pc' = [pc EXCEPT ![Owner] = "idle"] /\ bottom' = bottom + 1
      /\ UNCHANGED <<top, bufferVars, seenTop, ownerVars, thiefVars, taken>>
  BY DEF PopRestore, Goto
<1>2. bottom + 1 \in Nat
  BY <1>1, OwnerKnows
<1>3. PcOK' /\ pc'[Owner] = "idle"
  BY <1>1, OwnerGoes DEF IInv, Types, OwnerPcs
<1>4. LogicalBottom' = LogicalBottom
  BY <1>1, <1>3, OwnerKnows DEF LogicalBottom
<1>5. Keeps
  BY <1>1, <1>4, QuietKeeps DEF IInv, bufferVars, ownerVars
<1>6. Types'
  BY <1>1, <1>2, <1>3 DEF bufferVars, ownerVars, thiefVars, IInv, Types, TypeOK
<1>7. OwnerOK'
  BY <1>1, <1>3, <1>4, OwnerKnows DEF bufferVars, ownerVars, IInv, Types, OwnerOK, TypeOK
<1>8. QED
  BY <1>5, <1>6, <1>7 DEF StepKind

LEMMA GrowCopyOK ==
  ASSUME IInv, GrowCopy
  PROVE  StepKind /\ Types' /\ OwnerOK'
<1> USE DEF OwnerPushing, OwnerPopping
<1> DEFINE c == capacity[gen]
           new == CopyOf(top..bottom-1, 2 * c)
<1>1. /\ pc[Owner] = "grow" /\ gen < MaxGrow
      /\ pc' = [pc EXCEPT ![Owner] = "publish_buffer"]
      /\ capacity' = [capacity EXCEPT ![gen + 1] = 2 * c]
      /\ slots' = [slots EXCEPT ![gen + 1] = new]
      /\ UNCHANGED <<top, bottom, gen, seenTop, ownerVars, thiefVars, taken>>
  BY DEF GrowCopy, Goto
<1>2. gen + 1 \in Gens /\ gen + 1 \notin 0..gen /\ c \in Nat /\ c >= 2
  <2>1. c \in Nat /\ c >= 2
    BY OwnerKnows, SlotType DEF IInv
  <2>2. QED
    BY <1>1, <2>1, DequeAssumption, OwnerKnows DEF Gens
<1>3. PcOK' /\ pc'[Owner] = "publish_buffer"
  BY <1>1, OwnerGoes DEF IInv, Types, OwnerPcs
<1>4. LogicalBottom' = LogicalBottom /\ LogicalBottom = bottom
  BY <1>1, <1>3, OwnerKnows DEF LogicalBottom
<1>5. \A g \in 0..gen : \A i : At(g, i)' = At(g, i)
  BY <1>1, <1>2, OwnerKnows DEF At, Slot, IInv, Types, TypeOK, Gens
<1>6. Keeps
  BY <1>1, <1>4, <1>5, OwnerKnows DEF Keeps, Frame, ownerVars, Window
<1>7. new \in [0..2*c-1 -> Jobs \cup {None}]
  <2>1. \A i \in top..bottom-1 : At(gen, i) \in Jobs \cup {None}
    BY OwnerKnows, SlotType DEF IInv
  <2>2. QED
    BY <2>1 DEF CopyOf
<1>8. \A i \in Window : At(gen + 1, i)' = At(gen, i)
  <2>1. TAKE i \in Window
  <2>2. i \in top..bottom-1 /\ i \in Nat
    BY <1>4, OwnerKnows DEF Window
  <2>3. i % (2 * c) \in 0..2*c-1
    <3>1. 2 * c \in Nat /\ 2 * c >= 1
      BY <1>2
    <3>2. QED
      BY <2>2, <3>1, SlotOf
  <2>4. \A k \in top..bottom-1 : k % (2 * c) = i % (2 * c) => k = i
    <3>1. TAKE k \in top..bottom-1
    <3>2. k \in Nat /\ k < i + 2 * c /\ i < k + 2 * c
      BY <1>2, <1>4, <2>2, OwnerKnows DEF IInv, OwnerOK
    <3>3. 2 * c \in Nat /\ 2 * c >= 1
      BY <1>2
    <3>4. k < i => k % (2 * c) # i % (2 * c)
      BY <2>2, <3>2, <3>3, OneSlotPerLap
    <3>5. i < k => k % (2 * c) # i % (2 * c)
      BY <2>2, <3>2, <3>3, OneSlotPerLap
    <3>6. QED
      BY <2>2, <3>2, <3>4, <3>5
  <2>5. new[i % (2 * c)] = At(gen, i)
    BY <2>2, <2>3, <2>4 DEF CopyOf
  <2>6. slots'[gen + 1] = new /\ capacity'[gen + 1] = 2 * c
    BY <1>1, <1>2 DEF IInv, Types, TypeOK
  <2> HIDE DEF new
  <2>7. QED
    BY <1>1, <2>5, <2>6 DEF At, Slot
<1> HIDE DEF new
<1>9. Types'
  <2>1. capacity' \in [Gens -> Nat] /\ DOMAIN slots' = Gens
    BY <1>1, <1>2 DEF IInv, Types, TypeOK
  <2>2. \A g \in Gens : slots'[g] \in [0..capacity'[g]-1 -> Jobs \cup {None}]
    BY <1>1, <1>2, <1>7 DEF IInv, Types, TypeOK
  <2>3. \A g \in 0..gen' : capacity'[g] >= 2
    BY <1>1, <1>2 DEF IInv, Types, TypeOK
  <2>4. QED
    BY <1>1, <1>3, <2>1, <2>2, <2>3 DEF ownerVars, thiefVars, IInv, Types, TypeOK
<1>10. OwnerOK'
  <2>1. capacity'[gen + 1] = 2 * capacity'[gen] /\ capacity'[gen] = capacity[gen]
    BY <1>1, <1>2, OwnerKnows DEF IInv, Types, TypeOK
  <2>2. Window' = Window /\ \A i \in Window : At(gen + 1, i)' = At(gen, i)'
    BY <1>1, <1>4, <1>5, <1>8, OwnerKnows DEF Window
  <2>3. QED
    BY <1>1, <1>3, <1>4, <2>1, <2>2 DEF ownerVars, IInv, OwnerOK
<1>11. QED
  BY <1>6, <1>9, <1>10 DEF StepKind

LEMMA GrowPublishOK ==
  ASSUME IInv, GrowPublish
  PROVE  StepKind /\ Types' /\ OwnerOK'
<1> USE DEF OwnerPushing, OwnerPopping
<1>1. /\ pc[Owner] = "publish_buffer" /\ gen' = gen + 1
      /\ pc' = [pc EXCEPT ![Owner] = "recheck"]
      /\ UNCHANGED <<top, bottom, capacity, slots, seenTop, ownerVars, thiefVars, taken>>
  BY DEF GrowPublish, Goto
<1>2. /\ gen < MaxGrow /\ capacity[gen + 1] = 2 * capacity[gen]
      /\ \A i \in Window : At(gen + 1, i) = At(gen, i)
      /\ capacity[gen] \in Nat /\ capacity[gen] >= 2
  BY <1>1, OwnerKnows, SlotType DEF IInv, OwnerOK
<1>3. PcOK' /\ pc'[Owner] = "recheck"
  BY <1>1, OwnerGoes DEF IInv, Types, OwnerPcs
<1>4. LogicalBottom' = LogicalBottom
  BY <1>1, <1>3, OwnerKnows DEF LogicalBottom
<1>5. Keeps
  BY <1>1, <1>2, <1>4, OwnerKnows DEF Keeps, Frame, At, Slot, Window, ownerVars
<1>6. Types'
  <2>1. gen' \in Gens
    BY <1>1, <1>2, OwnerKnows, DequeAssumption DEF Gens
  <2>2. \A g \in 0..gen' : capacity[g] >= 2
    BY <1>1, <1>2, OwnerKnows DEF IInv, Types
  <2>3. QED
    BY <1>1, <1>3, <2>1, <2>2 DEF ownerVars, thiefVars, IInv, Types, TypeOK
<1>7. OwnerOK'
  BY <1>1, <1>2, <1>3, <1>4, OwnerKnows DEF ownerVars, IInv, OwnerOK
<1>8. QED
  BY <1>5, <1>6, <1>7 DEF StepKind

LEMMA PushStoreOK ==
  ASSUME IInv, PushStore
  PROVE  StepKind /\ Types' /\ OwnerOK'
<1> USE DEF OwnerPushing, OwnerPopping
<1> DEFINE s == Slot(gen, bottom)
<1>1. /\ pc[Owner] = "store" /\ pc' = [pc EXCEPT ![Owner] = "publish"]
      /\ slots' = [slots EXCEPT ![gen][s] = arg]
      /\ UNCHANGED <<top, bottom, gen, capacity, seenTop, ownerVars, thiefVars, taken>>
  BY DEF PushStore, Goto
<1>2. PcOK' /\ pc'[Owner] = "publish"
  BY <1>1, OwnerGoes DEF IInv, Types, OwnerPcs
<1>3. LogicalBottom' = LogicalBottom /\ LogicalBottom = bottom /\ bottom \in Nat
  BY <1>1, <1>2, OwnerKnows DEF LogicalBottom
<1>4. s \in 0..capacity[gen]-1 /\ capacity[gen] \in Nat
  BY <1>3, OwnerKnows, SlotType DEF IInv
<1>5. \A i \in Window : Slot(gen, i) # s
  <2>1. TAKE i \in Window
  <2>2. i \in Nat /\ i < bottom /\ bottom < i + capacity[gen]
    BY <1>3, <1>4, OwnerKnows DEF IInv, OwnerOK, Window
  <2>3. QED
    BY <1>3, <2>2, Apart, OwnerKnows DEF IInv
<1> HIDE DEF s
<1>6. /\ slots'[gen] = [slots[gen] EXCEPT ![s] = arg]
      /\ \A g \in Gens : g # gen => slots'[g] = slots[g]
      /\ DOMAIN slots' = Gens
  BY <1>1, OwnerKnows DEF IInv, Types, TypeOK
<1>7. slots[gen] \in [0..capacity[gen]-1 -> Jobs \cup {None}] /\ arg \in Jobs
  BY <1>1, OwnerKnows DEF IInv, Types, TypeOK, OwnerOK
<1>8. Keeps
  <2>1. \A i \in Window : At(gen, i)' = At(gen, i)
    BY <1>1, <1>5, <1>6, <1>7 DEF At, Slot
  <2>2. \A g \in 0..gen : \A i : g # gen => At(g, i)' = At(g, i)
    BY <1>1, <1>6, OwnerKnows, SlotType DEF At, Slot, Gens, IInv
  <2>3. QED
    BY <1>1, <1>3, <2>1, <2>2, OwnerKnows DEF Keeps, Frame, ownerVars
<1>9. Types'
  <2>1. slots'[gen] \in [0..capacity[gen]-1 -> Jobs \cup {None}]
    <3>1. arg \in Jobs \cup {None}
      BY <1>7
    <3>2. QED
      BY <1>4, <1>6, <1>7, <3>1
  <2>2. \A g \in Gens : slots[g] \in [0..capacity[g]-1 -> Jobs \cup {None}]
    BY DEF IInv, Types, TypeOK
  <2>3. \A g \in Gens : slots'[g] \in [0..capacity[g]-1 -> Jobs \cup {None}]
    BY <1>6, <2>1, <2>2
  <2>4. QED
    BY <1>1, <1>2, <1>6, <2>3 DEF ownerVars, thiefVars, IInv, Types, TypeOK
<1>10. OwnerOK'
  <2>1. At(gen, bottom)' = arg
    BY <1>1, <1>4, <1>6, <1>7 DEF At, Slot, s
  <2>2. QED
    BY <1>1, <1>2, <1>3, <2>1 DEF ownerVars, IInv, OwnerOK
<1>11. QED
  BY <1>8, <1>9, <1>10 DEF StepKind

LEMMA PushPublishOK ==
  ASSUME IInv, PushPublish
  PROVE  StepKind /\ Types' /\ OwnerOK'
<1> USE DEF OwnerPushing, OwnerPopping
<1>1. /\ pc[Owner] = "publish" /\ pc' = [pc EXCEPT ![Owner] = "idle"]
      /\ bottom' = bottom + 1 /\ unpushed' = unpushed \ {arg} /\ arg' = None
      /\ UNCHANGED <<top, bufferVars, seenTop, thiefVars, taken>>
  BY DEF PushPublish, Goto
<1>2. arg \in unpushed /\ At(gen, bottom) = arg /\ bottom - top + 1 < capacity[gen]
  BY <1>1 DEF IInv, OwnerOK
<1>3. PcOK' /\ pc'[Owner] = "idle"
  BY <1>1, OwnerGoes DEF IInv, Types, OwnerPcs
<1>4. LogicalBottom' = LogicalBottom + 1 /\ LogicalBottom = bottom /\ bottom \in Nat
  BY <1>1, <1>3, OwnerKnows DEF LogicalBottom
<1>5. Appends
  BY <1>1, <1>2, <1>4, OwnerKnows DEF Appends, Frame, At, Slot, bufferVars
<1>6. Types'
  BY <1>1, <1>3, <1>4 DEF bufferVars, thiefVars, IInv, Types, TypeOK
<1>7. OwnerOK'
  <2>1. capacity[gen] \in Nat
    BY OwnerKnows, SlotType DEF IInv
  <2>2. top' <= LogicalBottom' /\ LogicalBottom' - top' < capacity'[gen']
    BY <1>1, <1>2, <1>4, <2>1, OwnerKnows DEF bufferVars
  <2>3. QED
    BY <1>3, <2>2 DEF OwnerOK
<1>8. QED
  BY <1>5, <1>6, <1>7 DEF StepKind

LEMMA PopTakeOK ==
  ASSUME IInv, PopTake
  PROVE  StepKind /\ Types' /\ OwnerOK'
<1> USE DEF OwnerPushing, OwnerPopping
<1>1. /\ pc[Owner] = "pop" /\ pc' = [pc EXCEPT ![Owner] = "idle"]
      /\ top < bottom /\ Deliver(<<At(gen, bottom)>>)
      /\ UNCHANGED <<top, bottom, bufferVars, seenTop, ownerVars, thiefVars>>
  BY DEF PopTake, Goto
<1>2. PcOK' /\ pc'[Owner] = "idle"
  BY <1>1, OwnerGoes DEF IInv, Types, OwnerPcs
<1>3. LogicalBottom' = bottom /\ bottom = LogicalBottom - 1
  BY <1>1, <1>2, OwnerKnows DEF LogicalBottom
<1>4. At(gen, bottom) \in Jobs
  BY <1>1, <1>3, OwnerKnows DEF IInv, JobsOK, Window
<1>5. Counted(At(gen, bottom))
  BY <1>1, <1>4, DeliverOne DEF IInv
<1>6. TakesLast
  BY <1>1, <1>3, <1>5, OwnerKnows DEF TakesLast, Frame, At, Slot, bufferVars, ownerVars
<1>7. Types'
  <2>1. taken' \in [Jobs -> Nat]
    BY <1>4, <1>5 DEF Counted, IInv, Types, TypeOK
  <2>2. QED
    BY <1>1, <1>2, <2>1 DEF bufferVars, ownerVars, thiefVars, IInv, Types, TypeOK
<1>8. OwnerOK'
  <2>1. capacity[gen] \in Nat
    BY OwnerKnows, SlotType DEF IInv
  <2>2. top' <= LogicalBottom' /\ LogicalBottom' - top' < capacity'[gen']
    BY <1>1, <1>3, <2>1, OwnerKnows DEF bufferVars, IInv, OwnerOK
  <2>3. QED
    BY <1>2, <2>2 DEF OwnerOK
<1>9. QED
  BY <1>6, <1>7, <1>8 DEF StepKind

LEMMA PopCasOK ==
  ASSUME IInv, PopCas
  PROVE  StepKind /\ Types' /\ OwnerOK'
<1> USE DEF OwnerPushing, OwnerPopping
<1>1. /\ pc[Owner] = "pop_cas" /\ pc' = [pc EXCEPT ![Owner] = "restore"]
      /\ arg' = None /\ seenTop[Owner] = bottom /\ bottom <= top
      /\ UNCHANGED <<bottom, bufferVars, seenTop, thiefVars, unpushed>>
  BY DEF PopCas, Goto, IInv, OwnerOK
<1>2. PcOK' /\ pc'[Owner] = "restore"
  BY <1>1, OwnerGoes DEF IInv, Types, OwnerPcs
<1>3. LogicalBottom' = LogicalBottom /\ bottom = LogicalBottom - 1
  BY <1>1, <1>2, OwnerKnows DEF LogicalBottom
<1>4. capacity[gen] \in Nat /\ capacity[gen] >= 2
  BY OwnerKnows, SlotType DEF IInv
<1>5. CASE top = bottom
  <2>1. top' = top + 1 /\ arg = At(gen, top) /\ Deliver(<<arg>>)
    BY <1>1, <1>5 DEF PopCas, IInv, OwnerOK
  <2>2. arg \in Jobs
    BY <1>3, <1>5, <2>1, OwnerKnows DEF IInv, JobsOK, Window
  <2>3. Counted(At(gen, top))
    BY <2>1, <2>2, DeliverOne DEF IInv
  <2>4. TakesFirst
    BY <1>1, <1>3, <1>5, <2>1, <2>3, OwnerKnows
    DEF TakesFirst, Frame, At, Slot, bufferVars
  <2>5. Types'
    <3>1. taken' \in [Jobs -> Nat]
      BY <2>1, <2>2, <2>3 DEF Counted, IInv, Types, TypeOK
    <3>2. top' \in Nat
      BY <2>1, OwnerKnows
    <3>3. QED
      BY <1>1, <1>2, <3>1, <3>2 DEF bufferVars, thiefVars, IInv, Types, TypeOK
  <2>6. OwnerOK'
    BY <1>1, <1>2, <1>3, <1>4, <1>5, <2>1, OwnerKnows DEF bufferVars, OwnerOK
  <2>7. QED
    BY <2>4, <2>5, <2>6 DEF StepKind
<1>6. CASE top # bottom
  <2>1. top = bottom + 1 /\ UNCHANGED <<top, taken>>
    BY <1>1, <1>3, <1>6, OwnerKnows DEF PopCas
  <2>2. Keeps
    BY <1>1, <1>3, <2>1, QuietKeeps DEF IInv
  <2>3. Types'
    BY <1>1, <1>2, <2>1 DEF bufferVars, thiefVars, IInv, Types, TypeOK
  <2>4. OwnerOK'
    BY <1>1, <1>2, <1>3, <2>1 DEF bufferVars, IInv, OwnerOK
  <2>5. QED
    BY <2>2, <2>3, <2>4 DEF StepKind
<1>7. QED
  BY <1>5, <1>6

-----------------------------------------------------------------------------
(* A thief's steps *)

LEMMA OwnerStays ==
  ASSUME IInv, pc'[Owner] = pc[Owner], seenTop'[Owner] = seenTop[Owner],
         UNCHANGED <<top, bottom, bufferVars, ownerVars, taken>>
  PROVE  OwnerOK' /\ Keeps
<1>1. LogicalBottom' = LogicalBottom
  BY DEF LogicalBottom
<1>2. Keeps
  BY <1>1, QuietKeeps DEF IInv, ownerVars
<1>3. OwnerOK'
  BY <1>1 DEF IInv, OwnerOK, Window, At, Slot, bufferVars, ownerVars
<1>4. QED
  BY <1>2, <1>3

LEMMA StealTopOK ==
  ASSUME IInv, NEW t \in Thieves, StealTop(t)
  PROVE  StepKind /\ Types' /\ OwnerOK' /\ ThiefOK(t)'
<1>1. /\ pc[t] = "idle"
      /\ pc' = [pc EXCEPT ![t] = "bottom"]
      /\ seenTop' = [seenTop EXCEPT ![t] = top]
      /\ UNCHANGED <<top, bottom, bufferVars, ownerVars, seenBottom, seenGen, copied, taken>>
  BY DEF StealTop, Goto, thiefVars
<1>2. t \in Workers /\ t # Owner
  BY DequeAssumption DEF Workers
<1>5. PcOK' /\ pc'[t] = "bottom" /\ pc'[Owner] = pc[Owner]
  BY <1>1, <1>2, ThiefGoes, OwnerKnows DEF IInv, Types, ThiefPcs
<1>6. OwnerOK' /\ Keeps
  BY <1>1, <1>2, <1>5, OwnerStays, OwnerKnows DEF IInv, Types, TypeOK
<1>7. Types'
  BY <1>1, <1>2, <1>5, OwnerKnows DEF bufferVars, ownerVars, thiefVars, IInv, Types, TypeOK
<1>8. ThiefOK(t)'
  BY <1>1, <1>2, <1>5, OwnerKnows DEF ThiefOK, IInv, Types, TypeOK
<1>9. QED
  BY <1>6, <1>7, <1>8 DEF StepKind

LEMMA StealBottomOK ==
  ASSUME IInv, NEW t \in Thieves, StealBottom(t)
  PROVE  StepKind /\ Types' /\ OwnerOK' /\ ThiefOK(t)'
<1>1. /\ pc[t] = "bottom"
      /\ seenBottom' = [seenBottom EXCEPT ![t] = bottom]
      /\ UNCHANGED <<top, bottom, bufferVars, seenTop, seenGen, copied, ownerVars, taken>>
  BY DEF StealBottom, Goto, thiefVars
<1>2. t \in Workers /\ t # Owner
  BY DequeAssumption DEF Workers
<1>3. PICK to \in {"idle", "buffer"} :
        /\ pc' = [pc EXCEPT ![t] = to]
        /\ to = "buffer" => seenTop[t] < bottom
  <2>1. seenTop[t] \in Nat /\ bottom \in Int
    BY <1>2, OwnerKnows DEF IInv, Types, TypeOK
  <2>2. pc' = [pc EXCEPT ![t] = IF seenTop[t] >= bottom THEN "idle" ELSE "buffer"]
    BY DEF StealBottom, Goto
  <2>3. CASE seenTop[t] >= bottom
    BY <2>2, <2>3
  <2>4. CASE seenTop[t] < bottom
    BY <2>1, <2>2, <2>4
  <2>5. QED
    BY <2>1, <2>3, <2>4
<1>5. PcOK' /\ pc'[t] = to /\ pc'[Owner] = pc[Owner]
  BY <1>1, <1>2, <1>3, ThiefGoes, OwnerKnows DEF IInv, Types, ThiefPcs
<1>4. LogicalBottom' = LogicalBottom /\ bottom <= LogicalBottom /\ seenTop[t] <= top
  BY <1>1, <1>5, OwnerKnows DEF LogicalBottom, IInv, ThiefOK
<1>6. OwnerOK' /\ Keeps
  BY <1>1, <1>2, <1>5, OwnerStays, OwnerKnows DEF IInv, Types, TypeOK
<1>7. Types'
  BY <1>1, <1>2, <1>5, OwnerKnows DEF bufferVars, ownerVars, thiefVars, IInv, Types, TypeOK
<1>8. ThiefOK(t)'
  <2>1. seenTop[t] \in Nat
    BY <1>2 DEF IInv, Types, TypeOK
  <2>2. to = "buffer" => seenTop[t] < LogicalBottom
    BY <1>3, <1>4, <2>1, OwnerKnows
  <2>3. QED
    BY <1>1, <1>4, <1>5, <2>2 DEF ThiefOK
<1>9. QED
  BY <1>6, <1>7, <1>8 DEF StepKind

LEMMA StealBufferOK ==
  ASSUME IInv, NEW t \in Thieves, StealBuffer(t)
  PROVE  StepKind /\ Types' /\ OwnerOK' /\ ThiefOK(t)'
<1>1. /\ pc[t] = "buffer"
      /\ pc' = [pc EXCEPT ![t] = "copy"]
      /\ seenGen' = [seenGen EXCEPT ![t] = gen] /\ copied' = [copied EXCEPT ![t] = << >>]
      /\ UNCHANGED <<top, bottom, bufferVars, seenTop, seenBottom, ownerVars, taken>>
  BY DEF StealBuffer, Goto, thiefVars
<1>2. t \in Workers /\ t # Owner
  BY DequeAssumption DEF Workers
<1>5. PcOK' /\ pc'[t] = "copy" /\ pc'[Owner] = pc[Owner]
  BY <1>1, <1>2, ThiefGoes, OwnerKnows DEF IInv, Types, ThiefPcs
<1>4. LogicalBottom' = LogicalBottom
  BY <1>1, <1>5 DEF LogicalBottom
<1>6. OwnerOK' /\ Keeps
  BY <1>1, <1>2, <1>5, OwnerStays, OwnerKnows DEF IInv, Types, TypeOK
<1>7. Types'
  <2>1. seenGen' \in [Thieves -> Gens]
    BY <1>1, OwnerKnows DEF IInv, Types, TypeOK
  <2>a. << >> \in Seq(Jobs \cup {None})
    OBVIOUS
  <2>b. copied' \in [Thieves -> Seq(Jobs \cup {None})]
    BY <1>1, <2>a DEF IInv, Types, TypeOK
  <2>2. QED
    BY <1>1, <1>5, <2>1, <2>b DEF bufferVars, ownerVars, IInv, Types, TypeOK
<1>8. ThiefOK(t)'
  BY <1>1, <1>2, <1>4, <1>5, OwnerKnows DEF ThiefOK, IInv, Types, TypeOK, bufferVars, At, Slot
<1>9. QED
  BY <1>6, <1>7, <1>8 DEF StepKind

LEMMA StealCopyOK ==
  ASSUME IInv, MaxCount = 1, NEW t \in Thieves, StealCopy(t)
  PROVE  StepKind /\ Types' /\ OwnerOK' /\ ThiefOK(t)'
<1>1. /\ pc[t] = "copy"
      /\ copied[t] = << >>
      /\ copied' = [copied EXCEPT ![t] = Append(@, At(seenGen[t], seenTop[t] + Len(@)))]
      /\ UNCHANGED <<top, bottom, bufferVars, seenTop, seenBottom, seenGen, ownerVars, taken>>
  BY DEF StealCopy, Goto, thiefVars, IInv, ThiefOK
<1>2. t \in Workers /\ t # Owner
  BY DequeAssumption DEF Workers
<1>3. pc' = [pc EXCEPT ![t] = "cas"]
  <2>1. Len(copied[t]) + 1 = Batch(t)
    BY <1>1, BatchOne DEF IInv
  <2>2. QED
    BY <2>1 DEF StealCopy, Goto
<1>5. PcOK' /\ pc'[t] = "cas" /\ pc'[Owner] = pc[Owner]
  BY <1>1, <1>2, <1>3, ThiefGoes, OwnerKnows DEF IInv, Types, ThiefPcs
<1>4. /\ copied' = [copied EXCEPT ![t] = <<At(seenGen[t], seenTop[t])>>]
      /\ At(seenGen[t], seenTop[t]) \in Jobs \cup {None}
      /\ LogicalBottom' = LogicalBottom
  <2>1. seenTop[t] \in Nat /\ seenGen[t] \in 0..gen
    BY <1>1, <1>2 DEF IInv, Types, TypeOK, ThiefOK, Gens
  <2>2. At(seenGen[t], seenTop[t]) \in Jobs \cup {None}
    BY <2>1, SlotType DEF IInv
  <2>3. Append(<< >>, At(seenGen[t], seenTop[t])) = <<At(seenGen[t], seenTop[t])>>
    OBVIOUS
  <2>4. seenTop[t] + Len(copied[t]) = seenTop[t]
    BY <1>1, <2>1
  <2>5. LogicalBottom' = LogicalBottom
    BY <1>1, <1>5 DEF LogicalBottom
  <2>6. QED
    BY <1>1, <2>2, <2>3, <2>4, <2>5
<1>6. OwnerOK' /\ Keeps
  BY <1>1, <1>2, <1>5, OwnerStays, OwnerKnows DEF IInv, Types, TypeOK
<1>7. Types'
  BY <1>1, <1>2, <1>5, OwnerKnows, <1>4 DEF bufferVars, ownerVars, thiefVars, IInv, Types, TypeOK
<1>8. ThiefOK(t)'
  <2>1. copied'[t] = <<At(seenGen[t], seenTop[t])>> /\ Len(copied'[t]) = 1
    BY <1>4 DEF IInv, Types, TypeOK
  <2>2. seenTop[t] <= top /\ (seenTop[t] = top => /\ top < LogicalBottom
                                                 /\ At(seenGen[t], top) = At(gen, top))
    BY <1>1 DEF IInv, ThiefOK
  <2>3. \A i : At(gen, i)' = At(gen, i)
    BY <1>1 DEF At, Slot, bufferVars
  <2>4. QED
    BY <1>1, <1>4, <1>5, <2>1, <2>2, <2>3 DEF ThiefOK
<1>9. QED
  BY <1>6, <1>7, <1>8 DEF StepKind

LEMMA StealCasOK ==
  ASSUME IInv, MaxCount = 1, NEW t \in Thieves, StealCas(t)
  PROVE  StepKind /\ Types' /\ OwnerOK' /\ ThiefOK(t)'
<1>1. /\ pc[t] = "cas" /\ pc' = [pc EXCEPT ![t] = "idle"] /\ seenTop[t] <= top
      /\ UNCHANGED <<bottom, bufferVars, seenTop, thiefVars, ownerVars>>
  BY DEF StealCas, Goto, IInv, ThiefOK
<1>2. t \in Workers /\ t # Owner
  BY DequeAssumption DEF Workers
<1>3. PcOK' /\ pc'[t] = "idle" /\ pc'[Owner] = pc[Owner]
  BY <1>1, <1>2, ThiefGoes, OwnerKnows DEF IInv, Types, ThiefPcs
<1>4. ThiefOK(t)'
  BY <1>3 DEF ThiefOK
<1>5. CASE top # seenTop[t]
  <2>1. UNCHANGED <<top, taken>>
    BY <1>5 DEF StealCas
  <2>2. OwnerOK' /\ Keeps
    BY <1>1, <1>3, <2>1, OwnerStays
  <2>3. Types'
    BY <1>1, <1>3, <2>1 DEF bufferVars, ownerVars, thiefVars, IInv, Types, TypeOK
  <2>4. QED
    BY <1>4, <2>2, <2>3 DEF StepKind
<1>6. CASE top = seenTop[t]
  <2>1. top < LogicalBottom /\ copied[t] = <<At(gen, top)>>
    BY <1>1, <1>6 DEF IInv, ThiefOK
  <2>2. top' = top + 1 /\ Deliver(<<At(gen, top)>>)
    BY <1>6, <2>1, BatchOne DEF StealCas, IInv
  <2>3. At(gen, top) \in Jobs
    BY <2>1, OwnerKnows DEF IInv, JobsOK, Window
  <2>4. Counted(At(gen, top))
    BY <2>2, <2>3, DeliverOne DEF IInv
  <2>5. LogicalBottom' = LogicalBottom
    BY <1>1, <1>3 DEF LogicalBottom
  <2>6. TakesFirst
    BY <1>1, <2>1, <2>2, <2>4, <2>5, OwnerKnows
    DEF TakesFirst, Frame, At, Slot, bufferVars, ownerVars
  <2>7. Types'
    <3>1. taken' \in [Jobs -> Nat]
      BY <2>3, <2>4 DEF Counted, IInv, Types, TypeOK
    <3>2. top' \in Nat
      BY <2>2, OwnerKnows
    <3>3. QED
      BY <1>1, <1>3, <3>1, <3>2 DEF bufferVars, ownerVars, thiefVars, IInv, Types, TypeOK
  <2>8. OwnerOK'
    <3>1. capacity[gen] \in Nat
      BY OwnerKnows, SlotType DEF IInv
    <3>2. top' <= LogicalBottom' /\ LogicalBottom' - top' < capacity'[gen']
      BY <1>1, <2>1, <2>2, <2>5, <3>1, OwnerKnows DEF bufferVars, IInv, OwnerOK
    <3>3. pc[Owner] \in {"store", "publish"} => bottom' - top' + 1 < capacity'[gen']
      BY <1>1, <2>1, <2>2, <3>1, OwnerKnows DEF bufferVars, IInv, OwnerOK
    <3>4. Window' \subseteq Window
      BY <2>2, <2>5, OwnerKnows DEF Window
    <3>5. pc[Owner] = "pop_cas" => bottom' <= top' /\ bottom' # top'
      BY <1>1, <2>2, OwnerKnows DEF IInv, OwnerOK
    <3>6. pc[Owner] # "restore"
      BY <2>1, OwnerKnows DEF IInv, OwnerOK
    <3>7. QED
      BY <1>1, <1>3, <3>2, <3>3, <3>4, <3>5, <3>6
      DEF bufferVars, ownerVars, IInv, OwnerOK, At, Slot
  <2>9. QED
    BY <1>4, <2>6, <2>7, <2>8 DEF StepKind
<1>7. QED
  BY <1>5, <1>6

-----------------------------------------------------------------------------
(* The invariant *)

LEMMA InitIInv == Init => IInv
<1> SUFFICES ASSUME Init
             PROVE  IInv
  OBVIOUS
<1>1. LogicalBottom = 0 /\ Window = {}
  BY DEF Init, LogicalBottom, Workers, Window
<1>2. Types
  <2>1. 0 \in Gens /\ capacity \in [Gens -> Nat] /\ capacity[0] = InitCapacity
    BY DequeAssumption DEF Init, Gens
  <2>2. PcOK
    BY DequeAssumption DEF Init, PcOK, OwnerPcs, ThiefPcs, Workers
  <2>3. DOMAIN slots = Gens /\ \A g \in Gens : slots[g] \in [0..capacity[g]-1 -> Jobs \cup {None}]
    BY DEF Init
  <2>4. copied \in [Thieves -> Seq(Jobs \cup {None})]
    BY DEF Init
  <2>5. TypeOK
    BY <2>1, <2>3, <2>4 DEF Init, TypeOK
  <2>6. QED
    BY <2>1, <2>2, <2>5, DequeAssumption DEF Init, Types
<1>3. OwnerOK
  <2>1. pc[Owner] = "idle" /\ capacity[gen] >= 2 /\ top = 0
    BY <1>2 DEF Init, Workers, Types
  <2>2. QED
    BY <1>1, <1>2, <2>1, DequeAssumption DEF Init, Gens, OwnerOK, OwnerPushing
<1>4. JobsOK
  BY <1>1 DEF Init, JobsOK
<1>5. \A t \in Thieves : ThiefOK(t)
  BY DEF Init, ThiefOK, Workers
<1>6. QED
  BY <1>2, <1>3, <1>4, <1>5 DEF IInv

LEMMA OwnerMoves ==
  ASSUME IInv, (\E j \in Jobs : Push(j)) \/ PopReserve \/ OwnerStep
  PROVE  IInv' /\ StepKind
<1>1. StepKind /\ Types' /\ OwnerOK'
  BY PushOK, PopReserveOK, GrowCopyOK, GrowPublishOK, PushRecheckOK, PushDropOK, PushStoreOK,
     PushPublishOK, PopTakeOK, PopLastOK, PopEmptyOK, PopCasOK, PopRestoreOK DEF OwnerStep
<1>2. JobsOK'
  BY <1>1, JobsOKStep DEF IInv
<1>3. ASSUME NEW t \in Thieves
      PROVE  ThiefOK(t)'
  <2>1. t \in Workers /\ t # Owner
    BY DequeAssumption DEF Workers
  <2>2. pc'[t] = pc[t]
    BY <2>1 DEF Push, PopReserve, OwnerStep, GrowCopy, GrowPublish, PushRecheck, PushDrop,
       PushStore, PushPublish, PopTake, PopLast, PopEmpty, PopCas, PopRestore, Goto,
       IInv, Types, PcOK
  <2>3. seenTop'[t] = seenTop[t] /\ UNCHANGED thiefVars
    BY <2>1 DEF Push, PopReserve, OwnerStep, GrowCopy, GrowPublish, PushRecheck, PushDrop,
       PushStore, PushPublish, PopTake, PopLast, PopEmpty, PopCas, PopRestore,
       IInv, Types, TypeOK
  <2>4. QED
    BY <1>1, <2>2, <2>3, ThiefOKStep DEF IInv, thiefVars
<1>4. QED
  BY <1>1, <1>2, <1>3 DEF IInv

LEMMA ThiefMoves ==
  ASSUME IInv, MaxCount = 1, NEW t \in Thieves, Steal(t)
  PROVE  IInv' /\ StepKind
<1>1. StepKind /\ Types' /\ OwnerOK' /\ ThiefOK(t)'
  BY StealTopOK, StealBottomOK, StealBufferOK, StealCopyOK, StealCasOK DEF Steal
<1>2. JobsOK'
  BY <1>1, JobsOKStep DEF IInv
<1>3. ASSUME NEW u \in Thieves, u # t
      PROVE  ThiefOK(u)'
  <2>1. pc'[u] = pc[u] /\ seenTop'[u] = seenTop[u] /\ seenGen'[u] = seenGen[u]
        /\ copied'[u] = copied[u]
    BY <1>3 DEF Steal, StealTop, StealBottom, StealBuffer, StealCopy, StealCas, Goto,
       thiefVars, IInv, Types, TypeOK, PcOK, Workers
  <2>2. QED
    BY <1>1, <2>1, ThiefOKStep DEF IInv
<1>4. QED
  BY <1>1, <1>2, <1>3 DEF IInv

LEMMA StepIInv ==
  ASSUME MaxCount = 1, IInv, [Next]_vars
  PROVE  IInv' /\ (StepKind \/ UNCHANGED vars)
<1>1. CASE UNCHANGED vars
  <2>1. LogicalBottom' = LogicalBottom
    BY <1>1 DEF vars, LogicalBottom
  <2>2. QED
    BY <1>1, <2>1 DEF vars, bufferVars, IInv, Types, TypeOK, PcOK, OwnerOK, JobsOK, ThiefOK,
       Window, At, Slot
<1>2. CASE Next
  BY <1>2, OwnerMoves, ThiefMoves DEF Next
<1>3. QED
  BY <1>1, <1>2

-----------------------------------------------------------------------------
THEOREM InductiveInvariant ==
  ASSUME MaxCount = 1
  PROVE  Spec => []IInv
<1>1. IInv /\ [Next]_vars => IInv'
  BY StepIInv
<1>2. QED
  BY <1>1, InitIInv, PTL DEF Spec

(* push, pop and steal: with batches of one, no job is returned twice or   *)
(* lost, across any growth of the buffer, and top_ never passes the last   *)
(* position the owner published.                                           *)
THEOREM EveryJobOnce ==
  ASSUME MaxCount = 1
  PROVE  Spec => []ExactlyOnce
<1>1. IInv => ExactlyOnce
  <2> SUFFICES ASSUME IInv
               PROVE  ExactlyOnce
    OBVIOUS
  <2>1. NoDoubleTake
    <3>1. SUFFICES ASSUME NEW j \in Jobs
                   PROVE  taken[j] <= 1
      BY DEF NoDoubleTake
    <3>2. CASE j \in unpushed
      BY <3>2 DEF IInv, JobsOK
    <3>3. CASE j \notin unpushed
      BY <3>3 DEF IInv, JobsOK
    <3>4. QED
      BY <3>2, <3>3
  <2>2. NoLoss
    <3>1. SUFFICES ASSUME NEW j \in Jobs \ unpushed, taken[j] = 0
                   PROVE  \E i \in DOMAIN Live : Live[i] = j
      BY DEF NoLoss
    <3>2. PICK p \in Window : At(gen, p) = j
      BY <3>1 DEF IInv, JobsOK
    <3>3. p - top + 1 \in 1..(LogicalBottom - top) /\ top + (p - top + 1) - 1 = p
      BY OwnerKnows DEF Window
    <3>4. QED
      BY <3>2, <3>3 DEF Live
  <2>3. QED
    BY <2>1, <2>2 DEF IInv, Types, OwnerOK, NoOvershoot, ExactlyOnce
<1>2. QED
  BY <1>1, InductiveInvariant, PTL

-----------------------------------------------------------------------------
(* The refinement *)

LiveOK ==
  /\ Live \in Seq(Jobs) /\ Len(Live) = LogicalBottom - top
  /\ \A i \in 1..(LogicalBottom - top) : Live[i] = At(gen, top + i - 1)

LEMMA LiveIs == IInv => LiveOK
<1> SUFFICES ASSUME IInv
             PROVE  LiveOK
  OBVIOUS
<1>1. top \in Nat /\ LogicalBottom - top \in Nat
  <2>1. top \in Nat /\ LogicalBottom \in Int /\ top <= LogicalBottom
    BY Bounds DEF IInv, OwnerOK
  <2>2. QED
    BY <2>1
<1>2. \A i \in 1..(LogicalBottom - top) : top + i - 1 \in Window
  BY <1>1, OwnerKnows DEF Window
<1>3. \A i \in 1..(LogicalBottom - top) : At(gen, top + i - 1) \in Jobs
  BY <1>2 DEF IInv, JobsOK
<1>4. QED
  BY <1>1, <1>3 DEF Live, LiveOK

(* The step of DequeSpec that a step of the window is. *)
LEMMA StepRefines ==
  ASSUME IInv, IInv', StepKind
  PROVE  AbstractDeque!Next \/ UNCHANGED <<Live, unpushed, taken>>
<1> DEFINE n == LogicalBottom - top
           at(p) == At(gen, p)
<1>1. /\ Live \in Seq(Jobs) /\ Len(Live) = n
      /\ \A i \in 1..n : Live[i] = at(top + i - 1)
  BY LiveIs DEF LiveOK
<1>2. LiveOK'
  BY LiveIs, PTL
<1>3. /\ Live' \in Seq(Jobs) /\ Len(Live') = n'
      /\ \A i \in 1..n' : Live'[i] = at(top + i - 1)'
  BY <1>2 DEF LiveOK
<1>4. top \in Nat /\ LogicalBottom \in Nat /\ n \in Nat
  BY OwnerKnows
<1>5. \A p \in Window : p \in Window' => at(p)' = at(p)
  BY DEF StepKind, Keeps, Appends, TakesLast, TakesFirst, Frame
<1>6. CASE Keeps
  <2>1. top' = top /\ n' = n /\ Window' = Window /\ unpushed' = unpushed /\ taken' = taken
    BY <1>6 DEF Keeps, Window
  <2>2. \A i \in 1..n : Live'[i] = Live[i]
    <3>1. TAKE i \in 1..n
    <3>2. top + i - 1 \in Window
      BY <1>4 DEF Window
    <3>3. at(top + i - 1)' = at(top + i - 1)
      BY <1>5, <2>1, <3>2
    <3>4. QED
      BY <1>1, <1>3, <2>1, <3>3
  <2>3. Live' = Live
    BY <1>1, <1>3, <2>1, <2>2, SeqEqual
  <2>4. QED
    BY <2>1, <2>3
<1>7. CASE Appends
  <2>1. /\ top' = top /\ n' = n + 1 /\ taken' = taken
        /\ arg \in unpushed /\ unpushed' = unpushed \ {arg}
        /\ \A p \in {top + n} : at(p)' = arg
    BY <1>4, <1>7 DEF Appends
  <2>2. arg \in Jobs
    BY <2>1 DEF IInv, Types, TypeOK
  <2>3. \A i \in 1..n : Live'[i] = Live[i]
    <3>1. TAKE i \in 1..n
    <3>2. top + i - 1 \in Window /\ top + i - 1 \in Window'
      BY <1>4, <1>7 DEF Window, Appends
    <3>3. at(top + i - 1)' = at(top + i - 1)
      BY <1>5, <2>1, <3>2
    <3>4. QED
      BY <1>1, <1>3, <1>4, <2>1, <3>3
  <2>4. Live'[n + 1] = arg
    <3>1. top + (n + 1) - 1 = top + n /\ n + 1 \in 1..n'
      BY <1>4, <2>1
    <3>2. QED
      BY <1>3, <2>1, <3>1
  <2>5. /\ Append(Live, arg) \in Seq(Jobs) /\ Len(Append(Live, arg)) = n + 1
        /\ \A i \in 1..n + 1 : Append(Live, arg)[i] = IF i = n + 1 THEN arg ELSE Live[i]
    BY <1>1, <1>4, <2>2, AppendProperties
  <2>6. Live' = Append(Live, arg)
    BY <1>3, <1>4, <2>1, <2>3, <2>4, <2>5, SeqEqual
  <2>7. AbstractDeque!Push(arg)
    BY <2>1, <2>6 DEF AbstractDeque!Push
  <2>8. QED
    BY <2>2, <2>7 DEF AbstractDeque!Next
<1>8. CASE TakesLast
  <2>1. /\ top' = top /\ n' = n - 1 /\ n \in Nat \ {0} /\ unpushed' = unpushed
        /\ Counted(at(top + n - 1))
    BY <1>4, <1>8 DEF TakesLast
  <2>2. \A i \in 1..n-1 : Live'[i] = Live[i]
    <3>1. TAKE i \in 1..n-1
    <3>2. top + i - 1 \in Window /\ top + i - 1 \in Window'
      BY <1>4, <1>8 DEF Window, TakesLast
    <3>3. at(top + i - 1)' = at(top + i - 1)
      BY <1>5, <2>1, <3>2
    <3>4. QED
      BY <1>1, <1>3, <1>4, <2>1, <3>3
  <2>3. /\ AbstractDeque!Front(Live) \in Seq(Jobs) /\ Len(AbstractDeque!Front(Live)) = n - 1
        /\ \A i \in 1..n-1 : AbstractDeque!Front(Live)[i] = Live[i]
    BY <1>1, <2>1, SubSeqProperties, ElementOfSeq DEF AbstractDeque!Front
  <2>4. Live' = AbstractDeque!Front(Live)
    BY <1>3, <2>1, <2>2, <2>3, SeqEqual
  <2>5. Live # << >> /\ AbstractDeque!Last(Live) = at(top + n - 1)
    BY <1>1, <2>1 DEF AbstractDeque!Last
  <2>6. AbstractDeque!Pop
    BY <2>1, <2>4, <2>5 DEF AbstractDeque!Pop, AbstractDeque!Take, Counted
  <2>7. QED
    BY <2>6 DEF AbstractDeque!Next
<1>9. CASE TakesFirst
  <2>1. /\ top' = top + 1 /\ n' = n - 1 /\ n \in Nat \ {0} /\ unpushed' = unpushed
        /\ Counted(at(top))
    BY <1>4, <1>9 DEF TakesFirst
  <2>2. Live # << >> /\ Head(Live) = at(top)
    BY <1>1, <1>4, <2>1
  <2>3. /\ Tail(Live) \in Seq(Jobs) /\ Len(Tail(Live)) = n - 1
        /\ \A i \in 1..n-1 : Tail(Live)[i] = Live[i + 1]
    BY <1>1, <2>1, <2>2, HeadTailProperties
  <2>4. \A i \in 1..n-1 : Live'[i] = Live[i + 1]
    <3>1. TAKE i \in 1..n-1
    <3>2. PICK p \in Nat : p = top + i
      BY <1>4
    <3>3. p \in Window /\ p \in Window'
      BY <1>4, <1>9, <3>2 DEF Window, TakesFirst
    <3>4. Live'[i] = at(p)'
      BY <1>3, <1>4, <2>1, <3>2
    <3>5. Live[i + 1] = at(p)
      BY <1>1, <1>4, <2>1, <3>2
    <3>6. QED
      BY <1>5, <3>3, <3>4, <3>5
  <2>5. Live' = Tail(Live)
    BY <1>3, <2>1, <2>3, <2>4, SeqEqual
  <2>6. AbstractDeque!Steal
    BY <2>1, <2>2, <2>5 DEF AbstractDeque!Steal, AbstractDeque!Take, Counted
  <2>7. QED
    BY <2>6 DEF AbstractDeque!Next
<1>10. QED
  BY <1>6, <1>7, <1>8, <1>9 DEF StepKind

(* push, pop and steal: with batches of one every step of the deque is one *)
(* whole operation of DequeSpec, or invisible to it.                       *)
THEOREM Refinement ==
  ASSUME MaxCount = 1
  PROVE  Spec => Linearizable
<1>1. Init => AbstractDeque!Init
  <2> SUFFICES ASSUME Init
               PROVE  AbstractDeque!Init
    OBVIOUS
  <2>1. LogicalBottom = 0 /\ top = 0
    BY DEF Init, LogicalBottom, Workers
  <2>2. Live = << >>
    BY <2>1 DEF Live
  <2>3. QED
    BY <2>2 DEF Init, AbstractDeque!Init
<1>2. IInv /\ IInv' /\ [Next]_vars => [AbstractDeque!Next]_<<Live, unpushed, taken>>
  <2> SUFFICES ASSUME IInv, IInv', [Next]_vars
               PROVE  AbstractDeque!Next \/ UNCHANGED <<Live, unpushed, taken>>
    OBVIOUS
  <2>1. CASE UNCHANGED vars
    <3>1. LogicalBottom' = LogicalBottom
      BY <2>1 DEF vars, LogicalBottom
    <3>2. UNCHANGED <<Live, unpushed, taken>>
      BY <2>1, <3>1 DEF vars, Live, At, Slot
    <3>3. QED
      BY <3>2
  <2>2. CASE StepKind
    BY <2>2, StepRefines
  <2>3. QED
    BY <2>1, <2>2, StepIInv
<1>3. QED
  BY <1>1, <1>2, InductiveInvariant, PTL
  DEF Spec, Linearizable, AbstractDeque!Spec, AbstractDeque!vars
=============================================================================
