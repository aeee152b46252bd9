-------------------------- MODULE WorkerPark_proof --------------------------
(***************************************************************************)
(* Proof that nobody sleeps through an unpark whose store of the word was  *)
(* visible before it looked at parks_, for any number of workers,          *)
(* submitters and jobs, with and without a timeout in park_once.           *)
(***************************************************************************)
EXTENDS WorkerPark, TLAPS, FiniteSetTheorems

Stages == {"none", "gate", "load", "store", "parks", "wake"}
Waking == [stage : Stages, target : Workers \cup {None}, seen : Nat,
           left : SUBSET Workers]

(* Whoever wakes has somebody to wake, and stop wakes after shutdown_ is   *)
(* set, so that it never drops a wake for another.                         *)
WakeOK ==
  /\ wake \in [Threads -> Waking]
  /\ \A t \in Threads : wake[t].stage # "none" => wake[t].target \in Workers
  /\ wake[Stopper].stage # "none" => shutdown

(* parks_ is one exactly between park_once's increment and its decrement,  *)
(* and platform_wait is within that.                                       *)
ParksOK ==
  /\ pc \in [Workers -> {"run", "word", "has_work", "park", "register", "snapshot",
                         "wait", "leave", "exited"}]
  /\ \A w \in Workers :
       /\ parks[w] = IF pc[w] \in {"snapshot", "wait", "leave"} THEN 1 ELSE 0
       /\ asleep[w] => pc[w] = "leave"

(* One element for each job that is in a mailbox. *)
InMailboxes == {p \in Workers \X (Nat \ {0}) : p[2] <= mailbox[p[1]]}

(* Every job that was submitted has been run, or is in a mailbox. *)
JobsOK ==
  /\ IsFiniteSet(InMailboxes)
  /\ Cardinality(InMailboxes) + executed = submitted

(* TypeOK without what follows from JobsOK. *)
Types ==
  /\ mailbox \in [Workers -> Nat]
  /\ word \in [Workers -> Nat] /\ expected \in [Workers -> Nat]
  /\ parks \in [Workers -> 0..1]
  /\ asleep \in [Workers -> BOOLEAN]
  /\ submitted \in 0..MaxJobs /\ executed \in Nat
  /\ closing \in BOOLEAN /\ shutdown \in BOOLEAN
  /\ stores \in [Threads -> SUBSET [target : Workers, value : Nat]]
  /\ late \in [Workers -> BOOLEAN]

(* A worker asleep on an old word is about to be woken, or the word moved  *)
(* too late for its writer to see that it sleeps.                          *)
AboutToBeWoken ==
  \A w \in Workers :
    asleep[w] /\ word[w] # expected[w] => late[w] \/ \E t \in Threads : ToLook(t, w)

IInv == Types /\ WakeOK /\ ParksOK /\ JobsOK /\ AboutToBeWoken

-----------------------------------------------------------------------------
(* A mailbox has no more jobs than all of them together. *)
LEMMA MailboxBound ==
  ASSUME Types, JobsOK, NEW w \in Workers
  PROVE  mailbox[w] <= Cardinality(InMailboxes)
<1> DEFINE n == mailbox[w]
           S == {p \in InMailboxes : p[1] = w}
           f == [i \in 1..n |-> <<w, i>>]
<1>1. n \in Nat
  BY DEF Types
<1>2. IsFiniteSet(S) /\ Cardinality(S) <= Cardinality(InMailboxes)
  BY FS_Subset DEF JobsOK
<1>3. f \in Bijection(1..n, S)
  <2>1. \A i \in 1..n : f[i] \in S
    BY <1>1 DEF InMailboxes
  <2>2. \A i, j \in 1..n : f[i] = f[j] => i = j
    OBVIOUS
  <2>3. \A p \in S : \E i \in 1..n : f[i] = p
    <3>1. TAKE p \in S
    <3>2. p[2] \in 1..n /\ p = <<w, p[2]>>
      BY <3>1, <1>1 DEF InMailboxes
    <3>3. QED
      BY <3>2
  <2>4. QED
    BY <2>1, <2>2, <2>3 DEF Bijection, Injection, Surjection, IsInjective
<1>4. IsFiniteSet(1..n) /\ Cardinality(1..n) = n
  BY <1>1, FS_Interval
<1>5. Cardinality(S) = n
  BY <1>3, <1>4, FS_Bijection DEF ExistsBijection
<1>6. QED
  BY <1>2, <1>5

LEMMA JobsStay ==
  ASSUME JobsOK, UNCHANGED <<mailbox, submitted, executed>>
  PROVE  JobsOK'
BY DEF JobsOK, InMailboxes

LEMMA InitIInv == Init => IInv
<1> SUFFICES ASSUME Init
             PROVE  IInv
  OBVIOUS
<1>1. Types
  <2>1. /\ mailbox \in [Workers -> Nat] /\ word \in [Workers -> Nat]
        /\ expected \in [Workers -> Nat] /\ parks \in [Workers -> 0..1]
        /\ submitted \in 0..MaxJobs /\ executed \in Nat
    BY ParkAssumption DEF Init
  <2>2. /\ asleep \in [Workers -> BOOLEAN] /\ closing \in BOOLEAN /\ shutdown \in BOOLEAN
        /\ stores \in [Threads -> SUBSET [target : Workers, value : Nat]]
        /\ late \in [Workers -> BOOLEAN]
    BY DEF Init
  <2>3. QED
    BY <2>1, <2>2 DEF Types
<1>2. WakeOK
  BY DEF Init, WakeOK, Waking, Stages, Awake, Threads
<1>3. ParksOK
  BY DEF Init, ParksOK
<1>4. JobsOK
  <2>1. InMailboxes = {}
    BY DEF Init, InMailboxes
  <2>2. QED
    BY <2>1, FS_EmptySet DEF Init, JobsOK
<1>5. AboutToBeWoken
  BY DEF Init, AboutToBeWoken
<1>6. QED
  BY <1>1, <1>2, <1>3, <1>4, <1>5 DEF IInv

(* Who is left to be woken gives the next record of a thread that wakes.  *)
LEMMA OnwardWakes ==
  ASSUME NEW left \in SUBSET Workers
  PROVE  /\ Onward(left) \in Waking
         /\ left # {} => Onward(left).target \in Workers
         /\ left = {} => Onward(left).stage = "none"
<1>1. CASE left = {}
  BY <1>1 DEF Onward, Waking, Stages, Awake
<1>2. CASE left # {}
  <2> DEFINE w == CHOOSE v \in left : TRUE
  <2>1. w \in Workers /\ left \ {w} \in SUBSET Workers
    BY <1>2
  <2> HIDE DEF w
  <2>2. Onward(left) = [Awake EXCEPT !.stage = "load", !.target = w, !.left = left \ {w}]
    BY <1>2 DEF Onward, w
  <2>3. Onward(left) = [stage |-> "load", target |-> w, seen |-> 0, left |-> left \ {w}]
    BY <2>2 DEF Awake
  <2>4. Onward(left) \in Waking
    BY <2>1, <2>3 DEF Waking, Stages
  <2>5. QED
    BY <1>2, <2>1, <2>3, <2>4
<1>3. QED
  BY <1>1, <1>2

(* A thread that has woken somebody goes on to the next, or is done; the   *)
(* others stay where they are.                                             *)
LEMMA WakeNextOK ==
  ASSUME WakeOK, NEW t \in Threads, wake[t].stage # "none", WakeNext(t), UNCHANGED shutdown
  PROVE  /\ WakeOK'
         /\ \A u \in Threads \ {t} : wake'[u] = wake[u]
<1>1. wake[t].left \in SUBSET Workers
  BY DEF WakeOK, Waking
<1>2. /\ Onward(wake[t].left) \in Waking
      /\ Onward(wake[t].left).stage # "none" => Onward(wake[t].left).target \in Workers
  BY <1>1, OnwardWakes
<1>3. QED
  BY <1>2 DEF WakeOK, WakeNext

(* Giving a thread that is not stop a record of its own keeps WakeOK. *)
LEMMA WakeSet ==
  ASSUME WakeOK, NEW t \in Threads, NEW r \in Waking, wake' = [wake EXCEPT ![t] = r],
         r.target \in Workers, t = Stopper => shutdown', shutdown => shutdown'
  PROVE  WakeOK'
BY DEF WakeOK, Threads

(* Every step of a thread that wakes somebody. *)
LEMMA WakeKeeps ==
  ASSUME IInv, NEW t \in Threads, Wake(t)
  PROVE  IInv'
<1> USE DEF IInv, Stage, Unwatched, Memory, ToLook
<1>1. wake[t] \in Waking /\ (wake[t].stage # "none" => wake[t].target \in Workers)
  BY DEF WakeOK
<1>2. CASE WakeSkip(t)
  <2>1. WakeOK'
    BY <1>2, <1>1 DEF WakeSkip, WakeOK, Waking, Stages, Awake
  <2>2. AboutToBeWoken'
    BY <1>2, <1>1 DEF WakeSkip, AboutToBeWoken, Types, ParksOK, WakeOK, Waking, Awake
  <2>3. QED
    BY <1>2, <2>1, <2>2, JobsStay DEF WakeSkip, Types, ParksOK
<1>3. CASE WakeGate(t)
  <2>1. WakeOK'
    BY <1>3, <1>1 DEF WakeGate, WakeOK, Waking, Stages, Awake
  <2>2. AboutToBeWoken'
    BY <1>3, <1>1 DEF WakeGate, AboutToBeWoken, Types, ParksOK, WakeOK, Waking, Awake
  <2>3. QED
    BY <1>3, <2>1, <2>2, JobsStay DEF WakeGate, Types, ParksOK
<1>4. CASE WakeLoad(t)
  <2>1. word[wake[t].target] \in Nat
    BY <1>4, <1>1 DEF WakeLoad, Types
  <2> DEFINE r == [wake[t] EXCEPT !.stage = "store", !.seen = word[wake[t].target]]
  <2>2. WakeOK'
    <3>1. r \in Waking /\ r.target \in Workers
      BY <1>4, <1>1, <2>1 DEF WakeLoad, Waking, Stages
    <3>2. wake' = [wake EXCEPT ![t] = r]
      BY <1>4, <1>1 DEF WakeLoad, WakeOK
    <3>3. (t = Stopper => shutdown') /\ shutdown' = shutdown
      BY <1>4 DEF WakeLoad, WakeOK
    <3> HIDE DEF r
    <3>4. QED
      BY <3>1, <3>2, <3>3, WakeSet
  <2>3. AboutToBeWoken'
    BY <1>4, <1>1 DEF WakeLoad, AboutToBeWoken, WakeOK, Waking
  <2>4. QED
    BY <1>4, <2>2, <2>3, JobsStay DEF WakeLoad, Types, ParksOK
<1>5. CASE WakeStore(t)
  <2>1. Types'
    <3>1. [target |-> wake[t].target, value |-> wake[t].seen + 1]
            \in [target : Workers, value : Nat]
      BY <1>5, <1>1 DEF WakeStore, Waking
    <3>2. stores' \in [Threads -> SUBSET [target : Workers, value : Nat]]
      BY <1>5, <3>1 DEF WakeStore, Types
    <3>3. QED
      BY <1>5, <3>2 DEF WakeStore, Types
  <2>2. WakeOK'
    <3> DEFINE r == [wake[t] EXCEPT !.stage = "parks", !.seen = 0]
    <3>1. r \in Waking /\ r.target \in Workers
      BY <1>5, <1>1 DEF WakeStore, Waking, Stages
    <3>2. wake' = [wake EXCEPT ![t] = r]
      BY <1>5, <1>1 DEF WakeStore, WakeOK
    <3>3. (t = Stopper => shutdown') /\ shutdown' = shutdown
      BY <1>5 DEF WakeStore, WakeOK
    <3> HIDE DEF r
    <3>4. QED
      BY <3>1, <3>2, <3>3, WakeSet
  <2>3. AboutToBeWoken'
    BY <1>5, <1>1 DEF WakeStore, AboutToBeWoken, WakeOK, Waking
  <2>4. QED
    BY <1>5, <2>1, <2>2, <2>3, JobsStay DEF WakeStore, ParksOK
<1>6. CASE WakeNobody(t)
  <2>1. WakeOK' /\ \A u \in Threads \ {t} : wake'[u] = wake[u]
    BY <1>6, WakeNextOK DEF WakeNobody
  <2>2. ~ asleep[wake[t].target]
    BY <1>6, <1>1 DEF WakeNobody, ParksOK, Types
  <2>3. AboutToBeWoken'
    <3> SUFFICES ASSUME NEW w \in Workers, asleep'[w], word'[w] # expected'[w], ~ late'[w]
                 PROVE  \E u \in Threads : ToLook(u, w)'
      BY DEF AboutToBeWoken
    <3>1. PICK u \in Threads : ToLook(u, w)
      BY <1>6 DEF WakeNobody, AboutToBeWoken
    <3>2. u # t
      BY <1>6, <2>2, <3>1 DEF WakeNobody
    <3>3. QED
      BY <2>1, <3>1, <3>2
  <2>4. QED
    BY <1>6, <2>1, <2>3, JobsStay DEF WakeNobody, Types, ParksOK
<1>7. CASE WakeSleeper(t)
  <2>1. WakeOK'
    BY <1>7, <1>1 DEF WakeSleeper, WakeOK, Waking, Stages, Awake
  <2>2. AboutToBeWoken'
    BY <1>7, <1>1 DEF WakeSleeper, AboutToBeWoken, Types, ParksOK, WakeOK, Waking, Awake
  <2>3. QED
    BY <1>7, <2>1, <2>2, JobsStay DEF WakeSleeper, Types, ParksOK
<1>8. CASE WakeFutex(t)
  <2>1. WakeOK' /\ \A u \in Threads \ {t} : wake'[u] = wake[u]
    BY <1>8, WakeNextOK DEF WakeFutex
  <2>2. Types' /\ ParksOK'
    BY <1>8, <1>1 DEF WakeFutex, Rouse, Types, ParksOK
  <2>3. AboutToBeWoken'
    <3> SUFFICES ASSUME NEW w \in Workers, asleep'[w], word'[w] # expected'[w], ~ late'[w]
                 PROVE  \E u \in Threads : ToLook(u, w)'
      BY DEF AboutToBeWoken
    <3>1. w # wake[t].target /\ asleep[w] /\ ~ late[w]
      BY <1>8, <1>1 DEF WakeFutex, Rouse, Types
    <3>2. PICK u \in Threads : ToLook(u, w)
      BY <1>8, <3>1 DEF WakeFutex, AboutToBeWoken
    <3>3. QED
      BY <2>1, <3>1, <3>2
  <2>4. QED
    BY <1>8, <2>1, <2>2, <2>3, JobsStay DEF WakeFutex
<1>9. QED
  BY <1>2, <1>3, <1>4, <1>5, <1>6, <1>7, <1>8 DEF Wake

(* A stored word becomes visible while its thread has yet to look at       *)
(* parks_, or too late.                                                    *)
LEMMA DrainKeeps ==
  ASSUME IInv, NEW t \in Threads, Drain(t)
  PROVE  IInv'
<1> USE DEF IInv, Unwatched
<1>1. PICK s \in stores[t] :
        /\ stores' = [stores EXCEPT ![t] = @ \ {s}]
        /\ word' = [word EXCEPT ![s.target] = s.value]
        /\ late' = [late EXCEPT ![s.target] =
                      @ \/ (asleep[s.target] /\ ~ ToLook(t, s.target))]
        /\ UNCHANGED <<wake, asleep, Unwatched>>
  BY DEF Drain
<1>2. s.target \in Workers /\ s.value \in Nat
  BY DEF Types
<1>3. stores' \in [Threads -> SUBSET [target : Workers, value : Nat]]
  BY <1>1 DEF Types
<1>4. word' \in [Workers -> Nat]
  BY <1>1, <1>2 DEF Types
<1>5. late' \in [Workers -> BOOLEAN]
  <2>1. (late[s.target] \/ (asleep[s.target] /\ ~ ToLook(t, s.target))) \in BOOLEAN
    OBVIOUS
  <2>2. QED
    BY <1>1, <1>2, <2>1, Zenon DEF Types
<1>6. Types' /\ WakeOK' /\ ParksOK'
  BY <1>1, <1>3, <1>4, <1>5 DEF Types, WakeOK, ParksOK
<1>7. AboutToBeWoken'
  <2> SUFFICES ASSUME NEW w \in Workers, asleep'[w], word'[w] # expected'[w], ~ late'[w]
               PROVE  \E u \in Threads : ToLook(u, w)'
    BY DEF AboutToBeWoken
  <2>1. asleep[w] /\ expected'[w] = expected[w]
    BY <1>1
  <2>2. CASE w = s.target
    <3>1. late'[w] = (late[w] \/ (asleep[w] /\ ~ ToLook(t, w)))
      BY <1>1, <2>2 DEF Types
    <3>2. ToLook(t, w)
      BY <2>1, <3>1
    <3>3. QED
      BY <1>1, <3>2 DEF ToLook
  <2>3. CASE w # s.target
    <3>1. word'[w] = word[w] /\ late'[w] = late[w]
      BY <1>1, <2>3 DEF Types
    <3>2. PICK u \in Threads : ToLook(u, w)
      BY <2>1, <3>1 DEF AboutToBeWoken
    <3>3. QED
      BY <1>1, <3>2 DEF ToLook
  <2>4. QED
    BY <2>2, <2>3
<1>8. QED
  BY <1>1, <1>6, <1>7, JobsStay

(* A job enters or leaves a mailbox. *)
LEMMA JobsChange ==
  ASSUME Types, NEW w \in Workers
  PROVE  /\ mailbox' = [mailbox EXCEPT ![w] = @ + 1] =>
              InMailboxes' = InMailboxes \cup {<<w, mailbox[w] + 1>>}
         /\ mailbox[w] > 0 /\ mailbox' = [mailbox EXCEPT ![w] = @ - 1] =>
              InMailboxes' = InMailboxes \ {<<w, mailbox[w]>>}
<1>1. mailbox[w] \in Nat
  BY DEF Types
<1>2. ASSUME mailbox' = [mailbox EXCEPT ![w] = @ + 1]
      PROVE  InMailboxes' = InMailboxes \cup {<<w, mailbox[w] + 1>>}
  <2>1. \A v \in Workers, n \in Nat \ {0} :
          n <= mailbox'[v] <=> (n <= mailbox[v] \/ (v = w /\ n = mailbox[w] + 1))
    BY <1>1, <1>2 DEF Types
  <2>2. QED
    BY <1>1, <2>1 DEF InMailboxes
<1>3. ASSUME mailbox[w] > 0, mailbox' = [mailbox EXCEPT ![w] = @ - 1]
      PROVE  InMailboxes' = InMailboxes \ {<<w, mailbox[w]>>}
  <2>1. \A v \in Workers, n \in Nat \ {0} :
          n <= mailbox'[v] <=> (n <= mailbox[v] /\ ~ (v = w /\ n = mailbox[w]))
    BY <1>1, <1>3 DEF Types
  <2>2. QED
    BY <1>1, <2>1 DEF InMailboxes
<1>4. QED
  BY <1>2, <1>3

LEMMA SubmitKeeps ==
  ASSUME IInv, NEW s \in Submitters, NEW w \in Workers, Submit(s, w)
  PROVE  IInv'
<1> USE DEF IInv, Submit, InWake, Memory, ToLook
<1>1. s \in Threads /\ s # Stopper /\ mailbox[w] \in Nat
  BY ParkAssumption DEF Threads, Types
<1>2. Types'
  BY <1>1, ParkAssumption DEF Types
<1>3. WakeOK'
  <2>1. [Awake EXCEPT !.stage = "gate", !.target = w] \in {r \in Waking : r.target = w}
    BY DEF Awake, Waking, Stages
  <2>2. QED
    BY <1>1, <2>1, WakeSet
<1>4. ParksOK'
  BY DEF ParksOK
<1>5. JobsOK'
  <2>1. InMailboxes' = InMailboxes \cup {<<w, mailbox[w] + 1>>}
    BY JobsChange
  <2>2. <<w, mailbox[w] + 1>> \notin InMailboxes
    BY <1>1 DEF InMailboxes
  <2>3. IsFiniteSet(InMailboxes') /\ Cardinality(InMailboxes') = Cardinality(InMailboxes) + 1
    BY <2>1, <2>2, FS_AddElement DEF JobsOK
  <2>4. Cardinality(InMailboxes) \in Nat
    BY FS_CardinalityType DEF JobsOK
  <2>5. QED
    BY <2>3, <2>4 DEF JobsOK, Types
<1>6. AboutToBeWoken'
  BY <1>1 DEF AboutToBeWoken, WakeOK, Waking, Awake
<1>7. QED
  BY <1>2, <1>3, <1>4, <1>5, <1>6

(* Every step of a worker's own loop. *)
LEMMA WorkerKeeps ==
  ASSUME IInv, NEW w \in Workers, Worker(w)
  PROVE  IInv'
<1> USE DEF IInv, At, Goto, Step, Memory, ToLook
<1>1. CASE RunJob(w)
  <2>1. /\ w \in Threads /\ w # Stopper /\ mailbox[w] \in Nat
        /\ mailbox[w] > 0 /\ wake[w].stage = "none"
        /\ mailbox' = [mailbox EXCEPT ![w] = @ - 1] /\ executed' = executed + 1
        /\ UNCHANGED <<Memory, parks, asleep, pc, expected, submitted, closing, shutdown>>
    BY <1>1, ParkAssumption DEF RunJob, InWake, Threads, Types
  <2>2. Types' /\ ParksOK'
    BY <2>1 DEF Types, ParksOK
  <2>3. WakeOK' /\ AboutToBeWoken'
    <3>1. CASE UNCHANGED wake
      BY <1>1, <3>1 DEF RunJob, WakeOK, AboutToBeWoken
    <3>2. ASSUME NEW v \in Workers \ {w},
                 wake' = [wake EXCEPT ![w] = [Awake EXCEPT !.stage = "gate", !.target = v]]
          PROVE  WakeOK' /\ AboutToBeWoken'
      <4>1. WakeOK'
        <5>1. [Awake EXCEPT !.stage = "gate", !.target = v] \in {r \in Waking : r.target = v}
          BY DEF Awake, Waking, Stages
        <5>2. QED
          BY <2>1, <3>2, <5>1, WakeSet
      <4>2. AboutToBeWoken'
        BY <2>1, <3>2 DEF AboutToBeWoken, WakeOK, Waking, Awake
      <4>3. QED
        BY <4>1, <4>2
    <3>3. QED
      BY <1>1, <3>1, <3>2 DEF RunJob
  <2>4. JobsOK'
    <3>1. InMailboxes' = InMailboxes \ {<<w, mailbox[w]>>}
      BY <2>1, JobsChange
    <3>2. <<w, mailbox[w]>> \in InMailboxes
      BY <2>1 DEF InMailboxes
    <3>3. IsFiniteSet(InMailboxes') /\ Cardinality(InMailboxes') = Cardinality(InMailboxes) - 1
      BY <3>1, <3>2, FS_RemoveElement DEF JobsOK
    <3>4. Cardinality(InMailboxes) \in Nat
      BY FS_CardinalityType DEF JobsOK
    <3>5. QED
      BY <2>1, <3>3, <3>4 DEF JobsOK, Types
  <2>5. QED
    BY <2>2, <2>3, <2>4
<1>2. CASE Exit(w)
  <2>1. Types' /\ ParksOK'
    BY <1>2 DEF Exit, Types, ParksOK
  <2>2. AboutToBeWoken'
    BY <1>2 DEF Exit, AboutToBeWoken, Types, ParksOK
  <2>3. QED
    BY <1>2, <2>1, <2>2, JobsStay DEF Exit, WakeOK
<1>3. CASE IdleShutdown(w)
  <2>1. Types' /\ ParksOK'
    BY <1>3 DEF IdleShutdown, Types, ParksOK
  <2>2. AboutToBeWoken'
    BY <1>3 DEF IdleShutdown, AboutToBeWoken, Types, ParksOK
  <2>3. QED
    BY <1>3, <2>1, <2>2, JobsStay DEF IdleShutdown, WakeOK
<1>4. CASE IdleWord(w)
  <2>1. Types' /\ ParksOK'
    BY <1>4 DEF IdleWord, Types, ParksOK
  <2>2. AboutToBeWoken'
    BY <1>4 DEF IdleWord, AboutToBeWoken, Types, ParksOK
  <2>3. QED
    BY <1>4, <2>1, <2>2, JobsStay DEF IdleWord, WakeOK
<1>5. CASE IdleCheck(w)
  <2>1. Types' /\ ParksOK'
    BY <1>5 DEF IdleCheck, Types, ParksOK
  <2>2. AboutToBeWoken'
    BY <1>5 DEF IdleCheck, AboutToBeWoken, Types, ParksOK
  <2>3. QED
    BY <1>5, <2>1, <2>2, JobsStay DEF IdleCheck, WakeOK
<1>6. CASE ParkBegin(w)
  <2>1. Types' /\ ParksOK'
    BY <1>6 DEF ParkBegin, Types, ParksOK
  <2>2. AboutToBeWoken'
    BY <1>6 DEF ParkBegin, AboutToBeWoken, Types, ParksOK
  <2>3. QED
    BY <1>6, <2>1, <2>2, JobsStay DEF ParkBegin, WakeOK
<1>7. CASE ParkRegister(w)
  <2>1. Types' /\ ParksOK'
    BY <1>7 DEF ParkRegister, Types, ParksOK
  <2>2. AboutToBeWoken'
    BY <1>7 DEF ParkRegister, AboutToBeWoken, Types, ParksOK
  <2>3. QED
    BY <1>7, <2>1, <2>2, JobsStay DEF ParkRegister, WakeOK
<1>8. CASE ParkSnapshot(w)
  <2>1. Types' /\ ParksOK'
    BY <1>8 DEF ParkSnapshot, Types, ParksOK
  <2>2. AboutToBeWoken'
    BY <1>8 DEF ParkSnapshot, AboutToBeWoken, Types, ParksOK
  <2>3. QED
    BY <1>8, <2>1, <2>2, JobsStay DEF ParkSnapshot, WakeOK
<1>9. CASE ParkWait(w)
  <2>1. Types' /\ ParksOK'
    BY <1>9 DEF ParkWait, Types, ParksOK
  <2>2. AboutToBeWoken'
    BY <1>9 DEF ParkWait, AboutToBeWoken, Types, ParksOK
  <2>3. QED
    BY <1>9, <2>1, <2>2, JobsStay DEF ParkWait, WakeOK
<1>10. CASE ParkTimeout(w)
  <2>1. Types' /\ ParksOK'
    BY <1>10 DEF ParkTimeout, Rouse, Types, ParksOK
  <2>2. AboutToBeWoken'
    BY <1>10 DEF ParkTimeout, Rouse, AboutToBeWoken, Types, ParksOK
  <2>3. QED
    BY <1>10, <2>1, <2>2, JobsStay DEF ParkTimeout, WakeOK
<1>11. CASE ParkLeave(w)
  <2>1. Types' /\ ParksOK'
    BY <1>11 DEF ParkLeave, Types, ParksOK
  <2>2. AboutToBeWoken'
    BY <1>11 DEF ParkLeave, AboutToBeWoken, Types, ParksOK
  <2>3. QED
    BY <1>11, <2>1, <2>2, JobsStay DEF ParkLeave, WakeOK
<1>12. QED
  BY <1>1, <1>2, <1>3, <1>4, <1>5, <1>6, <1>7, <1>8, <1>9, <1>10, <1>11 DEF Worker

LEMMA StopKeeps ==
  ASSUME IInv, StopClose \/ StopShutdown
  PROVE  IInv'
<1> USE DEF IInv, Memory, ToLook
<1>1. CASE StopClose
  BY <1>1, JobsStay DEF StopClose, Types, WakeOK, ParksOK, AboutToBeWoken
<1>2. CASE StopShutdown
  <2>1. Stopper \in Threads
    BY DEF Threads
  <2>2. WakeOK'
    <3>1. wake' = [wake EXCEPT ![Stopper] = Onward(Workers)] /\ shutdown'
      BY <1>2 DEF StopShutdown
    <3>2. /\ Onward(Workers) \in Waking
          /\ Onward(Workers).stage # "none" => Onward(Workers).target \in Workers
      BY OnwardWakes
    <3>3. QED
      BY <2>1, <3>1, <3>2 DEF WakeOK
  <2>3. AboutToBeWoken'
    <3>1. wake[Stopper].stage = "none"
      BY <1>2 DEF StopShutdown, WakeOK
    <3>2. \A u \in Threads \ {Stopper} : wake'[u] = wake[u]
      BY <1>2 DEF StopShutdown, WakeOK
    <3>3. UNCHANGED <<word, late, asleep, expected>>
      BY <1>2 DEF StopShutdown
    <3>4. QED
      BY <3>1, <3>2, <3>3 DEF AboutToBeWoken
  <2>4. QED
    BY <1>2, <2>2, <2>3, JobsStay DEF StopShutdown, Types, ParksOK
<1>3. QED
  BY <1>1, <1>2

LEMMA StepIInv == IInv /\ [Next]_vars => IInv'
<1> SUFFICES ASSUME IInv, [Next]_vars
             PROVE  IInv'
  OBVIOUS
<1>1. CASE UNCHANGED vars
  BY <1>1, JobsStay DEF vars, IInv, Types, WakeOK, ParksOK, AboutToBeWoken, ToLook
<1>2. CASE Next
  BY <1>2, WakeKeeps, DrainKeeps, SubmitKeeps, WorkerKeeps, StopKeeps DEF Next, Goes
<1>3. QED
  BY <1>1, <1>2

LEMMA IInvTypeOK == IInv => TypeOK
<1> SUFFICES ASSUME IInv
             PROVE  TypeOK
  OBVIOUS
<1>1. Cardinality(InMailboxes) \in Nat
  BY FS_CardinalityType DEF IInv, JobsOK
<1>2. \A w \in Workers : mailbox[w] \in 0..MaxJobs
  BY <1>1, MailboxBound, ParkAssumption DEF IInv, JobsOK, Types
<1>3. mailbox \in [Workers -> 0..MaxJobs]
  BY <1>2 DEF IInv, Types
<1>4. executed \in 0..submitted
  BY <1>1 DEF IInv, JobsOK, Types
<1>5. QED
  BY <1>3, <1>4 DEF IInv, Types, TypeOK

-----------------------------------------------------------------------------
THEOREM InductiveInvariant == Spec => []IInv
<1>1. QED
  BY InitIInv, StepIInv, PTL DEF Spec

(* worker.hpp, run_loop and idle_wait: a mailbox never holds more than was *)
(* submitted, and no more jobs are run than were submitted; parks_ counts  *)
(* the worker once at most.                                                *)
THEOREM TypeCorrect == Spec => []TypeOK
<1>1. QED
  BY InductiveInvariant, IInvTypeOK, PTL

(* park_once and unpark: whatever the interleaving of the two reads of the *)
(* word, the increment of parks_, the store of the word, the moment it     *)
(* becomes visible and the look at parks_, no worker stays asleep on an    *)
(* old wake word with nobody about to wake it, except when the store       *)
(* became visible after its thread had looked.                             *)
THEOREM NobodySleepsThroughUnpark == Spec => []NoSleepThroughUnpark
<1>1. IInv => NoSleepThroughUnpark
  BY IInvTypeOK DEF IInv, AboutToBeWoken, NoSleepThroughUnpark
<1>2. QED
  BY <1>1, InductiveInvariant, PTL
=============================================================================
