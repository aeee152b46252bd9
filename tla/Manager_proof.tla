--------------------------- MODULE Manager_proof ---------------------------
(***************************************************************************)
(* Proof that the manager of a thread pool accounts for every job and that *)
(* a stop which has waited for everybody leaves none behind, for any       *)
(* number of jobs, submitters and workers, and any plans.                  *)
(***************************************************************************)
EXTENDS Manager, FiniteSetTheorems, TLAPS

-----------------------------------------------------------------------------
(* Where a job is *)

(* Job j is in the injection queue, in w's mailbox, on w's stack or run by *)
(* w, as k says, and nowhere else; or, with "none", nowhere.               *)
Only(j, k, w) ==
  /\ j \in inject <=> k = "inject"
  /\ \A v \in Workers :
       /\ j \in mailbox[v] <=> k = "mailbox" /\ v = w
       /\ j \in stack[v] <=> k = "stack" /\ v = w
       /\ running[v] = j <=> k = "run" /\ v = w

(* Precisely the pending jobs are somewhere, each in one place. *)
PlaceOK(j) ==
  \/ fate[j] # "pending" /\ Only(j, "none", None)
  \/ fate[j] = "pending" /\ Only(j, "inject", None)
  \/ fate[j] = "pending" /\ \E k \in {"mailbox", "stack", "run"}, w \in Workers : Only(j, k, w)

(* A submitter between its call and the routing has a job nobody else has. *)
MyOK ==
  /\ \A s \in Submitters :
       /\ pc[s] \in {"enter", "refused", "route", "full", "expect", "park", "asleep", "giveup"}
            => my[s] \in Jobs /\ fate[my[s]] = "caller"
       /\ pc[s] \in {"count", "leave"}
            => my[s] \in Jobs /\ fate[my[s]] \notin {"caller", "refused"}
  /\ \A s, t \in Submitters : s # t /\ my[s] = my[t] => my[s] = None

(* A worker has a job while it runs one; who is not in the plan has none.  *)
WorkersOK ==
  /\ \A w \in Workers : at[w] = "run" <=> running[w] # None
  /\ \A w \in Workers \ plan.workers :
       at[w] = "exited" /\ mailbox[w] = {} /\ stack[w] = {}

-----------------------------------------------------------------------------
(* What is counted *)

Done     == {j \in All : fate[j] = "done"}
Accepted == {j \in Jobs : fate[j] \notin {"caller", "refused"}}
Counting == {s \in Submitters : pc[s] = "count"}
InGate   == {s \in Submitters : pc[s] \in {"route", "full", "expect", "park", "asleep",
                                            "count", "leave", "giveup"}}

CountsOK ==
  /\ completed = Cardinality(Done)
  /\ submitted + Cardinality(Counting) = Cardinality(Accepted)

(* The stop has closed the gate and no start has opened it again. *)
Shut == op \notin {"idle", "close"} \/ phase = "stopped"

GateOK == ~ stale => word = Cardinality(InGate) + (IF Shut THEN Half ELSE 0)

-----------------------------------------------------------------------------
(* How far a stop has come *)

Halted   == \A w \in Workers : at[w] = "exited"
Calm     == ~ gaveUp /\ ~ stale
NoResume == \A r \in Resumes : fate[r] = "caller"
AllRun   == \A j \in Jobs : fate[j] # "pending"

Emptied(p) ==
  /\ p[1] = "inject" => inject = {}
  /\ p[1] = "mailbox" => mailbox[p[2]] = {}
  /\ p[1] = "stack" => stack[p[2]] = {}

StopOK ==
  /\ op = "idle" => phase \in {"running", "stopped"}
  /\ op # "idle" => phase \in {"draining", "aborting"}
  /\ op \in {"empty", "snapshot", "pump", "drain"} => mode = "drain"
  /\ op = "discard" => mode = "abort" /\ todo # {} /\ todo \subseteq Places
  /\ op = "pump" => Threadless
  /\ op \in {"empty", "snapshot", "pump", "drain", "halt", "wake", "join"} => todo = Places
  /\ starts = 0 \/ op \in {"discard", "stopped"} \/ phase = "stopped" => Halted

(* What a stop that has given nothing up has achieved. *)
SettleOK ==
  Calm =>
    /\ op \in {"snapshot", "pump", "drain"} => InGate = {}
    /\ op = "drain" => target = submitted
    /\ op \in {"halt", "wake", "join"} /\ mode = "drain"
         => InGate = {} /\ (NoResume => AllRun)
    /\ op = "discard" /\ todo # Places
         => InGate = {} /\ \A p \in Places \ todo : Emptied(p)
    /\ op = "stopped" \/ phase = "stopped"
         => InGate = {} /\ ((mode = "drain" => NoResume) => AllRun)

-----------------------------------------------------------------------------
Types ==
  /\ plan \in Plans
  /\ phase \in {"running", "draining", "aborting", "stopped"}
  /\ word \in 0..(2 * Half - 1) /\ shutdown \in BOOLEAN
  /\ submitted \in Nat /\ completed \in Nat
  /\ inject \subseteq All /\ Cardinality(inject) <= plan.cap
  /\ mailbox \in [Workers -> SUBSET All] /\ stack \in [Workers -> SUBSET All]
  /\ \A w \in Workers : Cardinality(mailbox[w]) <= plan.cap /\ Cardinality(stack[w]) <= StackCap
  /\ at \in [Workers -> {"loop", "look", "run", "exited"}]
  /\ running \in [Workers -> All \cup {None}]
  /\ pc \in [Submitters -> {"idle", "enter", "refused", "route", "full", "expect", "park",
                            "asleep", "count", "leave", "giveup"}]
  /\ my \in [Submitters -> Jobs \cup {None}]
  /\ op \in {"idle", "close", "empty", "snapshot", "pump", "drain", "halt", "wake", "join",
             "discard", "stopped"}
  /\ mode \in {"drain", "abort"} /\ gaveUp \in BOOLEAN /\ stale \in BOOLEAN
  /\ starts \in Nat /\ target \in Nat
  /\ fate \in [All -> {"caller", "refused", "pending", "done", "discarded", "dropped"}]

JobsOK == (\A j \in All : PlaceOK(j)) /\ MyOK /\ WorkersOK

IInv == Types /\ JobsOK /\ CountsOK /\ GateOK /\ StopOK /\ SettleOK

-----------------------------------------------------------------------------
(* Where a job is tells what has become of it. *)
LEMMA Where ==
  ASSUME NEW j, PlaceOK(j)
  PROVE  /\ j \in inject => fate[j] = "pending" /\ Only(j, "inject", None)
         /\ \A w \in Workers :
              /\ j \in mailbox[w] => fate[j] = "pending" /\ Only(j, "mailbox", w)
              /\ j \in stack[w] => fate[j] = "pending" /\ Only(j, "stack", w)
              /\ running[w] = j => fate[j] = "pending" /\ Only(j, "run", w)
BY DEF PlaceOK, Only

LEMMA SamePlace ==
  ASSUME NEW j, PlaceOK(j), fate'[j] = fate[j],
         j \in inject' <=> j \in inject,
         \A v \in Workers : /\ j \in mailbox'[v] <=> j \in mailbox[v]
                            /\ j \in stack'[v] <=> j \in stack[v]
                            /\ running'[v] = j <=> running[v] = j
  PROVE  PlaceOK(j)'
<1>1. \A k, w : Only(j, k, w) => Only(j, k, w)'
  BY DEF Only
<1>2. QED
  BY <1>1 DEF PlaceOK

LEMMA PlanFacts ==
  ASSUME Types
  PROVE  /\ plan.workers \subseteq Workers
         /\ plan.jobs \subseteq Jobs /\ plan.resumes \subseteq Resumes
         /\ plan.submitters \subseteq Submitters
         /\ plan.modes \subseteq {"drain", "abort"} /\ plan.cap \in Nat
BY ManagerAssumption DEF Types

USE DEF gate, queues, counts, workers, submitters, owner

LEMMA RoutePlace ==
  ASSUME IInv, NEW s \in Submitters, Route(s)
  PROVE  \A j \in All : PlaceOK(j)'
<1>1. PICK i \in All : i = my[s]
  BY DEF IInv, JobsOK, MyOK, Route, Goto, All
<1>2. /\ fate[i] = "caller" /\ fate' = [fate EXCEPT ![i] = "pending"]
      /\ running' = running /\ stack' = stack
      /\ fate \in [All -> {"caller", "refused", "pending", "done", "discarded", "dropped"}]
  BY <1>1 DEF IInv, JobsOK, MyOK, Route, Goto, Types
<1>3. \A j \in All : PlaceOK(j)
  BY DEF IInv, JobsOK
<1>4. Only(i, "none", None)
  BY <1>2, <1>3 DEF PlaceOK
<1>5. CASE inject' = inject \cup {i} /\ UNCHANGED <<mailbox, stack>>
  <2>1. Only(i, "inject", None)'
    BY <1>2, <1>4, <1>5 DEF Only
  <2>2. PlaceOK(i)'
    BY <1>2, <2>1 DEF PlaceOK
  <2>3. \A j \in All : j # i => PlaceOK(j)'
    BY <1>2, <1>3, <1>5, SamePlace
  <2>4. QED
    BY <2>2, <2>3
<1>6. CASE \E w \in plan.workers : /\ mailbox' = [mailbox EXCEPT ![w] = @ \cup {i}]
                                   /\ UNCHANGED <<inject, stack>>
  <2>1. PICK w \in Workers : /\ mailbox' = [mailbox EXCEPT ![w] = @ \cup {i}]
                             /\ UNCHANGED <<inject, stack>>
    BY <1>6, PlanFacts DEF IInv
  <2>2. \A v \in Workers : \A j : j \in mailbox'[v] <=> j \in mailbox[v] \/ (j = i /\ v = w)
    BY <2>1 DEF IInv, Types
  <2>3. Only(i, "mailbox", w)'
    BY <1>2, <1>4, <2>1, <2>2 DEF Only
  <2>4. PlaceOK(i)'
    BY <1>2, <2>3 DEF PlaceOK
  <2>5. \A j \in All : j # i => PlaceOK(j)'
    BY <1>2, <1>3, <2>1, <2>2, SamePlace
  <2>6. QED
    BY <2>4, <2>5
<1>7. QED
  BY <1>1, <1>5, <1>6 DEF Route

(* Refused: GateLeave and SubmitRefused. *)
LEMMA RefusedPlace ==
  ASSUME IInv, NEW s \in Submitters, pc[s] \in {"giveup", "refused"}, Refused(s),
         UNCHANGED <<inject, mailbox, stack, running>>
  PROVE  \A j \in All : PlaceOK(j)'
<1>1. PICK i \in All : i = my[s]
  BY DEF IInv, JobsOK, MyOK, All
<1>2. /\ fate[i] = "caller" /\ fate' = [fate EXCEPT ![i] = "refused"]
      /\ fate \in [All -> {"caller", "refused", "pending", "done", "discarded", "dropped"}]
  BY <1>1 DEF IInv, JobsOK, MyOK, Refused, Types
<1>3. \A j \in All : PlaceOK(j)
  BY DEF IInv, JobsOK
<1>4. \A j \in All : j # i => PlaceOK(j)'
  BY <1>2, <1>3, SamePlace
<1>5. PlaceOK(i)'
  <2>1. Only(i, "none", None)
    BY <1>2, <1>3 DEF PlaceOK
  <2>2. Only(i, "none", None)'
    BY <2>1 DEF Only
  <2>3. QED
    BY <1>2, <2>2 DEF PlaceOK
<1>6. QED
  BY <1>4, <1>5

LEMMA PlaceFacts ==
  ASSUME IInv
  PROVE  /\ \A j \in All : PlaceOK(j)
         /\ fate \in [All -> {"caller", "refused", "pending", "done", "discarded", "dropped"}]
         /\ running \in [Workers -> All \cup {None}] /\ None \notin All
         /\ mailbox \in [Workers -> SUBSET All] /\ stack \in [Workers -> SUBSET All]
         /\ inject \subseteq All
         /\ \A w \in Workers : at[w] = "run" <=> running[w] # None
BY ManagerAssumption DEF IInv, JobsOK, WorkersOK, Types, All

(* A worker takes a job off a stack, its own or another's. *)
LEMMA StackPlace ==
  ASSUME IInv, NEW w \in Workers, NEW v \in Workers, NEW i \in stack[v], Begin(w, i),
         stack' = [stack EXCEPT ![v] = @ \ {i}], UNCHANGED <<inject, mailbox, fate>>
  PROVE  \A j \in All : PlaceOK(j)'
<1>1. /\ i \in All /\ running[w] = None /\ running' = [running EXCEPT ![w] = i]
  BY PlaceFacts DEF Begin, WorkerAt
<1>2. fate[i] = "pending" /\ Only(i, "stack", v)
  BY <1>1, PlaceFacts, Where
<1>3. \A u \in Workers : /\ \A j : j \in stack'[u] <=> j \in stack[u] /\ ~ (j = i /\ u = v)
                         /\ running'[u] = IF u = w THEN i ELSE running[u]
  BY <1>1, PlaceFacts
<1>4. Only(i, "run", w)'
  BY <1>1, <1>2, <1>3, PlaceFacts DEF Only
<1>5. PlaceOK(i)'
  BY <1>2, <1>4 DEF PlaceOK
<1>6. ASSUME NEW j \in All, j # i PROVE PlaceOK(j)'
  <2>1. \A u \in Workers : /\ j \in stack'[u] <=> j \in stack[u]
                           /\ running'[u] = j <=> running[u] = j
    BY <1>1, <1>3, <1>6, PlaceFacts
  <2>2. QED
    BY <2>1, PlaceFacts, SamePlace
<1>7. QED
  BY <1>5, <1>6

LEMMA InjectPlace ==
  ASSUME IInv, NEW w \in Workers, NEW i \in inject, Begin(w, i),
         inject' = inject \ {i}, UNCHANGED <<mailbox, stack, fate>>
  PROVE  \A j \in All : PlaceOK(j)'
<1>1. /\ i \in All /\ running[w] = None /\ running' = [running EXCEPT ![w] = i]
  BY PlaceFacts DEF Begin, WorkerAt
<1>2. fate[i] = "pending" /\ Only(i, "inject", None)
  BY <1>1, PlaceFacts, Where
<1>3. \A u \in Workers : running'[u] = IF u = w THEN i ELSE running[u]
  BY <1>1, PlaceFacts
<1>4. Only(i, "run", w)'
  BY <1>1, <1>2, <1>3, PlaceFacts DEF Only
<1>5. PlaceOK(i)'
  BY <1>2, <1>4 DEF PlaceOK
<1>6. ASSUME NEW j \in All, j # i PROVE PlaceOK(j)'
  <2>1. \A u \in Workers : running'[u] = j <=> running[u] = j
    BY <1>1, <1>3, <1>6, PlaceFacts
  <2>2. QED
    BY <1>6, <2>1, PlaceFacts, SamePlace
<1>7. QED
  BY <1>5, <1>6

(* Of a batch from the mailbox one job is run, and the rest goes onto the  *)
(* stack as far as there is room.                                          *)
LEMMA MailboxPlace ==
  ASSUME IInv, NEW w \in Workers, NEW taken \in SUBSET mailbox[w], NEW i \in taken,
         Begin(w, i), mailbox' = [mailbox EXCEPT ![w] = @ \ taken],
         NEW kept \in SUBSET (taken \ {i}),
         stack' = [stack EXCEPT ![w] = @ \cup kept],
         fate' = [j \in All |-> IF j \in (taken \ {i}) \ kept THEN "dropped" ELSE fate[j]],
         UNCHANGED inject
  PROVE  \A j \in All : PlaceOK(j)'
<1>1. /\ i \in All /\ running[w] = None /\ running' = [running EXCEPT ![w] = i]
  BY PlaceFacts DEF Begin, WorkerAt
<1>2. \A j \in taken : fate[j] = "pending" /\ Only(j, "mailbox", w) /\ j \in All
  BY PlaceFacts, Where
<1>3. \A u \in Workers : /\ \A j : j \in mailbox'[u] <=> j \in mailbox[u] /\ ~ (u = w /\ j \in taken)
                         /\ \A j : j \in stack'[u] <=> j \in stack[u] \/ (u = w /\ j \in kept)
                         /\ running'[u] = IF u = w THEN i ELSE running[u]
  BY <1>1, PlaceFacts
<1>4. PlaceOK(i)'
  <2>1. Only(i, "run", w)'
    BY <1>1, <1>2, <1>3, PlaceFacts DEF Only
  <2>2. QED
    BY <1>1, <1>2, <2>1 DEF PlaceOK
<1>5. ASSUME NEW j \in kept PROVE PlaceOK(j)'
  <2>1. Only(j, "stack", w)'
    BY <1>1, <1>2, <1>3, PlaceFacts DEF Only
  <2>2. QED
    BY <1>2, <2>1 DEF PlaceOK
<1>6. ASSUME NEW j \in (taken \ {i}) \ kept PROVE PlaceOK(j)'
  <2>1. Only(j, "none", None)'
    BY <1>1, <1>2, <1>3, PlaceFacts DEF Only
  <2>2. QED
    BY <1>2, <2>1 DEF PlaceOK
<1>7. ASSUME NEW j \in All, j \notin taken PROVE PlaceOK(j)'
  <2>1. \A u \in Workers : /\ j \in mailbox'[u] <=> j \in mailbox[u]
                           /\ j \in stack'[u] <=> j \in stack[u]
                           /\ running'[u] = j <=> running[u] = j
    BY <1>1, <1>3, <1>7, PlaceFacts
  <2>2. fate'[j] = fate[j]
    BY <1>7
  <2>3. QED
    BY <2>1, <2>2, PlaceFacts, SamePlace
<1>8. QED
  BY <1>4, <1>5, <1>6, <1>7

LEMMA RunPlace ==
  ASSUME IInv, NEW w \in Workers, RunJob(w)
  PROVE  \A j \in All : PlaceOK(j)'
<1>1. PICK i \in All : running[w] = i
  BY PlaceFacts DEF RunJob, WorkerAt
<1>2. /\ running' = [running EXCEPT ![w] = None] /\ fate' = [fate EXCEPT ![i] = "done"]
      /\ UNCHANGED <<inject, mailbox, stack>>
  BY <1>1 DEF RunJob
<1>3. fate[i] = "pending" /\ Only(i, "run", w)
  BY <1>1, PlaceFacts, Where
<1>4. \A u \in Workers : running'[u] = IF u = w THEN None ELSE running[u]
  BY <1>2, PlaceFacts
<1>5. PlaceOK(i)'
  <2>1. Only(i, "none", None)'
    BY <1>1, <1>2, <1>3, <1>4, PlaceFacts DEF Only
  <2>2. QED
    BY <1>2, <2>1, PlaceFacts DEF PlaceOK
<1>6. ASSUME NEW j \in All, j # i PROVE PlaceOK(j)'
  <2>1. \A u \in Workers : running'[u] = j <=> running[u] = j
    BY <1>1, <1>4, <1>6, PlaceFacts
  <2>2. fate'[j] = fate[j]
    BY <1>2, <1>6, PlaceFacts
  <2>3. QED
    BY <1>2, <2>1, <2>2, PlaceFacts, SamePlace
<1>7. QED
  BY <1>5, <1>6

LEMMA PumpPlace ==
  ASSUME IInv, PumpOne
  PROVE  \A j \in All : PlaceOK(j)'
<1>1. PICK i \in inject : inject' = inject \ {i} /\ fate' = [fate EXCEPT ![i] = "done"]
  BY DEF PumpOne
<1>2. UNCHANGED <<mailbox, stack, running>>
  BY DEF PumpOne
<1>3. i \in All /\ fate[i] = "pending" /\ Only(i, "inject", None)
  BY PlaceFacts, Where
<1>4. PlaceOK(i)'
  <2>1. Only(i, "none", None)'
    BY <1>1, <1>2, <1>3 DEF Only
  <2>2. QED
    BY <1>1, <1>3, <2>1, PlaceFacts DEF PlaceOK
<1>5. ASSUME NEW j \in All, j # i PROVE PlaceOK(j)'
  <2>1. fate'[j] = fate[j]
    BY <1>1, <1>5, PlaceFacts
  <2>2. QED
    BY <1>1, <1>2, <1>5, <2>1, PlaceFacts, SamePlace
<1>6. QED
  BY <1>4, <1>5

LEMMA ReschedulePlace ==
  ASSUME IInv, NEW w \in Workers, Reschedule(w)
  PROVE  \A j \in All : PlaceOK(j)'
<1> DEFINE onStack == Cardinality(stack[w]) < StackCap
           injected == ~ onStack /\ Cardinality(inject) < plan.cap
<1>1. PICK r \in plan.resumes :
        /\ fate[r] = "caller"
        /\ stack' = [stack EXCEPT ![w] = IF onStack THEN @ \cup {r} ELSE @]
        /\ inject' = IF injected THEN inject \cup {r} ELSE inject
        /\ fate' = [fate EXCEPT ![r] = IF onStack \/ injected THEN "pending" ELSE "dropped"]
  BY DEF Reschedule
<1>2. r \in All /\ UNCHANGED <<mailbox, running>>
  BY PlanFacts DEF IInv, All, Reschedule
<1>3. Only(r, "none", None)
  BY <1>1, <1>2, PlaceFacts DEF PlaceOK
<1> HIDE DEF onStack, injected
<1>4. \A u \in Workers : \A j : j \in stack'[u] <=> j \in stack[u] \/ (u = w /\ onStack /\ j = r)
  BY <1>1, PlaceFacts
<1>5. \A j \in All : j # r => PlaceOK(j)'
  BY <1>1, <1>2, <1>4, PlaceFacts, SamePlace
<1>6. CASE onStack
  <2>1. ~ injected
    BY <1>6 DEF injected
  <2>2. Only(r, "stack", w)'
    BY <1>1, <1>2, <1>3, <1>4, <1>6, <2>1 DEF Only
  <2>3. QED
    BY <1>1, <1>2, <1>5, <1>6, <2>2, PlaceFacts DEF PlaceOK
<1>7. CASE ~ onStack /\ injected
  <2>1. Only(r, "inject", None)'
    BY <1>1, <1>2, <1>3, <1>4, <1>7 DEF Only
  <2>2. QED
    BY <1>1, <1>2, <1>5, <1>7, <2>1, PlaceFacts DEF PlaceOK
<1>8. CASE ~ onStack /\ ~ injected
  <2>1. Only(r, "none", None)'
    BY <1>1, <1>2, <1>3, <1>4, <1>8 DEF Only
  <2>2. QED
    BY <1>1, <1>2, <1>5, <1>8, <2>1, PlaceFacts DEF PlaceOK
<1>9. QED
  BY <1>6, <1>7, <1>8

(* The queue that a step of the stop discards, and what is in it.          *)
InQueue(p) == IF p[1] = "inject" THEN inject
              ELSE IF p[1] = "mailbox" THEN mailbox[p[2]] ELSE stack[p[2]]

LEMMA DiscardsOne ==
  ASSUME IInv, StopDiscard
  PROVE  \E p \in todo :
           /\ p \in Places
           /\ inject' = IF p[1] = "inject" THEN {} ELSE inject
           /\ mailbox' = [w \in Workers |-> IF p = <<"mailbox", w>> THEN {} ELSE mailbox[w]]
           /\ stack' = [w \in Workers |-> IF p = <<"stack", w>> THEN {} ELSE stack[w]]
           /\ fate' = [j \in All |-> IF j \in InQueue(p) THEN "discarded" ELSE fate[j]]
           /\ todo' = todo \ {p} /\ gaveUp' = (gaveUp \/ Inside # 0)
           /\ op' = IF todo = {p} THEN "stopped" ELSE op
<1>1. todo # {} /\ todo \subseteq Places
  BY DEF IInv, StopOK, StopDiscard
<1> DEFINE p == IF <<"inject", None>> \in todo THEN <<"inject", None>>
                ELSE CHOOSE q \in todo : TRUE
<1>2. p \in todo /\ p \in Places
  BY <1>1
<1>3. QED
  BY <1>2 DEF StopDiscard, InQueue

LEMMA PlacesFacts ==
  ASSUME Types, NEW p \in Places
  PROVE  \/ p = <<"inject", None>>
         \/ \E w \in plan.workers : w \in Workers /\ (p = <<"mailbox", w>> \/ p = <<"stack", w>>)
BY PlanFacts DEF Places

LEMMA DiscardPlace ==
  ASSUME IInv, StopDiscard
  PROVE  \A j \in All : PlaceOK(j)'
<1>1. PICK p \in Places :
           /\ inject' = IF p[1] = "inject" THEN {} ELSE inject
           /\ mailbox' = [w \in Workers |-> IF p = <<"mailbox", w>> THEN {} ELSE mailbox[w]]
           /\ stack' = [w \in Workers |-> IF p = <<"stack", w>> THEN {} ELSE stack[w]]
           /\ fate' = [j \in All |-> IF j \in InQueue(p) THEN "discarded" ELSE fate[j]]
  BY DiscardsOne
<1>2. running' = running
  BY DEF StopDiscard
<1>3. /\ p[1] = "inject" => p = <<"inject", None>>
      /\ p[1] # "inject" => \E w \in Workers : p = <<"mailbox", w>> \/ p = <<"stack", w>>
  BY PlacesFacts DEF IInv
<1>4. CASE p[1] = "inject"
  <2>1. \A j \in InQueue(p) : j \in All /\ Only(j, "inject", None)
    BY <1>4, PlaceFacts, Where DEF InQueue
  <2>2. inject' = {} /\ \A v \in Workers : mailbox'[v] = mailbox[v] /\ stack'[v] = stack[v]
    BY <1>1, <1>3, <1>4
  <2>3. ASSUME NEW j \in All, j \in InQueue(p) PROVE PlaceOK(j)'
    <3>1. Only(j, "none", None)'
      BY <1>2, <2>1, <2>2, <2>3 DEF Only
    <3>2. QED
      BY <1>1, <2>3, <3>1 DEF PlaceOK
  <2>4. ASSUME NEW j \in All, j \notin InQueue(p) PROVE PlaceOK(j)'
    BY <1>1, <1>2, <1>4, <2>2, <2>4, PlaceFacts, SamePlace DEF InQueue
  <2>5. QED
    BY <2>3, <2>4
<1>5. ASSUME NEW w \in Workers, p = <<"mailbox", w>> PROVE \A j \in All : PlaceOK(j)'
  <2>1. \A j \in mailbox[w] : j \in All /\ Only(j, "mailbox", w)
    BY PlaceFacts, Where
  <2>2. InQueue(p) = mailbox[w]
    BY <1>5 DEF InQueue
  <2>3. inject' = inject /\ \A v \in Workers :
           mailbox'[v] = (IF v = w THEN {} ELSE mailbox[v]) /\ stack'[v] = stack[v]
    BY <1>1, <1>5
  <2>4. ASSUME NEW j \in All, j \in mailbox[w] PROVE PlaceOK(j)'
    <3>1. Only(j, "none", None)'
      BY <1>2, <2>1, <2>3, <2>4 DEF Only
    <3>2. QED
      BY <1>1, <2>2, <2>4, <3>1 DEF PlaceOK
  <2>5. ASSUME NEW j \in All, j \notin mailbox[w] PROVE PlaceOK(j)'
    BY <1>1, <1>2, <2>2, <2>3, <2>5, PlaceFacts, SamePlace
  <2>6. QED
    BY <2>4, <2>5
<1>6. ASSUME NEW w \in Workers, p = <<"stack", w>> PROVE \A j \in All : PlaceOK(j)'
  <2>1. \A j \in stack[w] : j \in All /\ Only(j, "stack", w)
    BY PlaceFacts, Where
  <2>2. InQueue(p) = stack[w]
    BY <1>6 DEF InQueue
  <2>3. inject' = inject /\ \A v \in Workers :
           stack'[v] = (IF v = w THEN {} ELSE stack[v]) /\ mailbox'[v] = mailbox[v]
    BY <1>1, <1>6
  <2>4. ASSUME NEW j \in All, j \in stack[w] PROVE PlaceOK(j)'
    <3>1. Only(j, "none", None)'
      BY <1>2, <2>1, <2>3, <2>4 DEF Only
    <3>2. QED
      BY <1>1, <2>2, <2>4, <3>1 DEF PlaceOK
  <2>5. ASSUME NEW j \in All, j \notin stack[w] PROVE PlaceOK(j)'
    BY <1>1, <1>2, <2>2, <2>3, <2>5, PlaceFacts, SamePlace
  <2>6. QED
    BY <2>4, <2>5
<1>7. QED
  BY <1>3, <1>4, <1>5, <1>6

-----------------------------------------------------------------------------
(* The steps of workers *)

(* What becomes of a job by what workers and the owner of the manager do.  *)
Advances(j) ==
  \/ fate'[j] = fate[j]
  \/ fate[j] = "pending" /\ fate'[j] \in {"done", "discarded", "dropped"}
  \/ j \in Resumes /\ fate[j] = "caller" /\ fate'[j] \in {"pending", "dropped"}

LEMMA AdvancesKeeps ==
  ASSUME IInv, \A j \in All : Advances(j), UNCHANGED <<my, pc>>
  PROVE  MyOK' /\ Accepted' = Accepted /\ Counting' = Counting /\ InGate' = InGate
<1>1. \A j \in Jobs : /\ fate[j] = "caller" => fate'[j] = "caller"
                      /\ fate[j] \notin {"caller", "refused"} <=> fate'[j] \notin {"caller", "refused"}
  BY ManagerAssumption DEF Advances, All
<1>2. MyOK'
  BY <1>1 DEF IInv, JobsOK, MyOK
<1>3. Accepted' = Accepted
  BY <1>1 DEF Accepted
<1>4. Counting' = Counting /\ InGate' = InGate
  BY DEF Counting, InGate
<1>5. QED
  BY <1>2, <1>3, <1>4

WorkerFrame == UNCHANGED <<plan, phase, word, shutdown, submitted, pc, my, op, mode,
                           target, gaveUp, todo, starts, stale>>

LEMMA WorkerKeeps ==
  ASSUME IInv, WorkerFrame, NEW w \in Workers, at[w] # "exited",
         \A j \in All : Advances(j)
  PROVE  /\ MyOK' /\ GateOK' /\ StopOK' /\ SettleOK'
         /\ Accepted' = Accepted /\ Counting' = Counting
<1>1. MyOK' /\ Accepted' = Accepted /\ Counting' = Counting /\ InGate' = InGate
  BY AdvancesKeeps DEF WorkerFrame
<1>2. ~ Halted /\ ~ (starts = 0 \/ op \in {"discard", "stopped"} \/ phase = "stopped")
  BY DEF Halted, IInv, StopOK
<1>3. GateOK'
  BY <1>1 DEF WorkerFrame, GateOK, Shut, IInv
<1>4. StopOK'
  BY <1>2 DEF WorkerFrame, StopOK, Places, Threadless, IInv
<1>5. SettleOK'
  <2>1. (NoResume => AllRun) => (NoResume' => AllRun')
    BY ManagerAssumption DEF Advances, All, NoResume, AllRun
  <2>2. Places' = Places
    BY DEF WorkerFrame, Places
  <2>3. QED
    BY <1>1, <1>2, <2>1, <2>2 DEF WorkerFrame, SettleOK, Calm, IInv
<1>6. QED
  BY <1>1, <1>3, <1>4, <1>5

(* Neither the counts nor what is done change. *)
LEMMA CountsKept ==
  ASSUME IInv, Accepted' = Accepted, Counting' = Counting, UNCHANGED <<submitted, completed>>,
         \A j \in All : fate'[j] = "done" <=> fate[j] = "done"
  PROVE  CountsOK'
BY DEF CountsOK, Done, IInv

(* One more job is done. *)
LEMMA OneDone ==
  ASSUME IInv, Accepted' = Accepted, Counting' = Counting, submitted' = submitted,
         completed' = completed + 1, NEW i \in All, fate[i] = "pending",
         fate' = [fate EXCEPT ![i] = "done"]
  PROVE  CountsOK'
<1>1. Done' = Done \cup {i} /\ i \notin Done
  BY DEF Done, IInv, Types
<1>2. IsFiniteSet(Done)
  <2>1. IsFiniteSet(All)
    BY ManagerAssumption, FS_Union DEF All
  <2>2. QED
    BY <2>1, FS_Subset DEF Done
<1>3. Cardinality(Done') = Cardinality(Done) + 1
  BY <1>1, <1>2, FS_AddElement
<1>4. QED
  BY <1>3 DEF CountsOK, IInv

LEMMA Finite ==
  /\ IsFiniteSet(All)
  /\ \A S \in SUBSET All : IsFiniteSet(S) /\ Cardinality(S) \in Nat
  /\ \A S \in SUBSET Submitters : /\ IsFiniteSet(S) /\ Cardinality(S) \in Nat
                                  /\ Cardinality(S) < Half
<1>1. IsFiniteSet(All)
  BY ManagerAssumption, FS_Union DEF All
<1>2. \A S \in SUBSET Submitters : Cardinality(S) <= Cardinality(Submitters)
  BY ManagerAssumption, FS_Subset
<1>3. QED
  BY <1>1, <1>2, ManagerAssumption, FS_Subset, FS_CardinalityType

LEMMA Smaller ==
  ASSUME NEW S \in SUBSET All, NEW T \in SUBSET S, NEW n \in Nat, Cardinality(S) <= n
  PROVE  Cardinality(T) <= n
<1>1. IsFiniteSet(S) /\ Cardinality(S) \in Nat /\ Cardinality(T) \in Nat
  BY Finite
<1>2. Cardinality(T) <= Cardinality(S)
  BY <1>1, FS_Subset
<1>3. QED
  BY <1>1, <1>2

LEMMA OneMore ==
  ASSUME NEW S \in SUBSET All, NEW i, NEW n \in Nat, Cardinality(S) < n
  PROVE  Cardinality(S \cup {i}) <= n
<1>1. IsFiniteSet(S) /\ Cardinality(S) \in Nat
  BY Finite
<1>2. QED
  BY <1>1, FS_AddElement

LEMMA SubsetOfSize ==
  ASSUME NEW S, IsFiniteSet(S), NEW n \in Nat, n <= Cardinality(S)
  PROVE  \E T \in SUBSET S : Cardinality(T) = n
<1>1. Cardinality(S) \in Nat /\ ExistsBijection(1..Cardinality(S), S)
  BY FS_CardinalityType
<1>2. PICK f \in Bijection(1..Cardinality(S), S) : TRUE
  BY <1>1 DEF ExistsBijection
<1> DEFINE T == {f[i] : i \in 1..n}
           g == [i \in 1..n |-> f[i]]
<1>3. 1..n \subseteq 1..Cardinality(S)
  BY <1>1
<1>4. /\ f \in [1..Cardinality(S) -> S]
      /\ \A i, k \in 1..Cardinality(S) : f[i] = f[k] => i = k
  BY <1>2 DEF Bijection, Injection, IsInjective
<1>5. T \in SUBSET S
  BY <1>3, <1>4
<1>6. g \in Bijection(1..n, T)
  BY <1>3, <1>4 DEF Bijection, Injection, Surjection, IsInjective
<1>7. Cardinality(T) = n
  BY <1>6, FS_CountingElements DEF ExistsBijection
<1>8. QED
  BY <1>5, <1>7

(* What a batch from the mailbox puts onto an empty stack fits there.      *)
LEMMA Stacking ==
  ASSUME IInv, NEW w \in Workers, stack[w] = {}, NEW rest \in SUBSET All, Stacked(w, rest)
  PROVE  \E kept \in SUBSET rest :
           /\ Cardinality(kept) <= StackCap
           /\ stack' = [stack EXCEPT ![w] = @ \cup kept]
           /\ fate' = [j \in All |-> IF j \in rest \ kept THEN "dropped" ELSE fate[j]]
<1> DEFINE room == StackCap - Cardinality(stack[w])
           kept == IF Cardinality(rest) <= room THEN rest
                   ELSE CHOOSE r \in SUBSET rest : Cardinality(r) = room
<1>1. Cardinality(stack[w]) = 0
  BY FS_EmptySet
<1>2. room = StackCap /\ StackCap \in Nat
  BY <1>1, ManagerAssumption
<1>3. IsFiniteSet(rest) /\ Cardinality(rest) \in Nat
  BY Finite
<1>4. kept \in SUBSET rest /\ Cardinality(kept) <= StackCap
  <2>1. CASE Cardinality(rest) <= room
    BY <1>2, <2>1
  <2>2. CASE ~ Cardinality(rest) <= room
    <3>1. \E r \in SUBSET rest : Cardinality(r) = room
      BY <1>2, <1>3, <2>2, SubsetOfSize
    <3>2. QED
      BY <1>2, <2>2, <3>1
  <2>3. QED
    BY <2>1, <2>2
<1>5. QED
  BY <1>4 DEF Stacked

LEMMA WorkerCheckStep ==
  ASSUME IInv, NEW w \in plan.workers, WorkerCheck(w) \/ TakeNothing(w)
  PROVE  IInv'
<1>1. w \in Workers /\ w \in plan.workers
  BY PlanFacts DEF IInv
<1>2. /\ at[w] \in {"loop", "look"}
      /\ \E to \in {"loop", "look", "exited"} : at' = [at EXCEPT ![w] = to]
      /\ UNCHANGED <<plan, gate, shutdown, counts, queues, running, submitters, owner, fate, stale>>
  BY DEF WorkerCheck, TakeNothing, WorkerAt
<1>3. \A j \in All : PlaceOK(j)'
  <2>1. \A j \in All : PlaceOK(j) => PlaceOK(j)'
    BY <1>2 DEF PlaceOK, Only
  <2>2. QED
    BY <2>1, PlaceFacts
<1>4. Types'
  BY <1>1, <1>2 DEF IInv, Types
<1>5. MyOK' /\ GateOK' /\ StopOK' /\ SettleOK' /\ Accepted' = Accepted /\ Counting' = Counting
  BY <1>1, <1>2, WorkerKeeps DEF WorkerFrame, Advances
<1>6. CountsOK'
  BY <1>2, <1>5, CountsKept
<1>7. WorkersOK'
  BY <1>1, <1>2 DEF IInv, JobsOK, WorkersOK, Types
<1>8. QED
  BY <1>3, <1>4, <1>5, <1>6, <1>7 DEF IInv, JobsOK

LEMMA TakeStackStep ==
  ASSUME IInv, NEW w \in plan.workers, TakeStack(w) \/ TakeSteal(w)
  PROVE  IInv'
<1>1. w \in Workers /\ w \in plan.workers
  BY PlanFacts DEF IInv
<1>2. PICK v \in plan.workers : \E i \in stack[v] :
        Begin(w, i) /\ stack' = [stack EXCEPT ![v] = @ \ {i}]
  BY DEF TakeStack, TakeSteal
<1>3. PICK i \in stack[v] : Begin(w, i) /\ stack' = [stack EXCEPT ![v] = @ \ {i}]
  BY <1>2
<1>4. UNCHANGED <<plan, gate, shutdown, parkWord, counts, inject, mailbox, submitters,
                  owner, fate, stale>>
  BY DEF TakeStack, TakeSteal
<1>5. /\ at[w] = "look" /\ at' = [at EXCEPT ![w] = "run"]
      /\ running' = [running EXCEPT ![w] = i] /\ v \in Workers /\ i \in All
  BY <1>3, PlanFacts DEF Begin, WorkerAt, IInv, Types
<1>6. \A j \in All : PlaceOK(j)'
  BY <1>1, <1>3, <1>4, <1>5, StackPlace
<1>7. Types'
  <2>1. stack'[v] \subseteq stack[v] /\ stack[v] \subseteq All /\ StackCap \in Nat
    BY <1>3, <1>5, ManagerAssumption DEF IInv, Types
  <2>2. Cardinality(stack'[v]) <= StackCap
    BY <1>5, <2>1, Smaller DEF IInv, Types
  <2>3. \A u \in Workers : Cardinality(stack'[u]) <= StackCap /\ stack'[u] \subseteq All
    BY <1>3, <2>1, <2>2 DEF IInv, Types
  <2>4. QED
    BY <1>1, <1>3, <1>4, <1>5, <2>3 DEF IInv, Types
<1>8. MyOK' /\ GateOK' /\ StopOK' /\ SettleOK' /\ Accepted' = Accepted /\ Counting' = Counting
  BY <1>1, <1>4, <1>5, WorkerKeeps DEF WorkerFrame, Advances
<1>9. CountsOK'
  BY <1>4, <1>8, CountsKept
<1>10. WorkersOK'
  BY <1>1, <1>3, <1>4, <1>5, PlaceFacts DEF IInv, JobsOK, WorkersOK, Types
<1>11. QED
  BY <1>6, <1>7, <1>8, <1>9, <1>10 DEF IInv, JobsOK

LEMMA TakeInjectStep ==
  ASSUME IInv, NEW w \in plan.workers, TakeInject(w)
  PROVE  IInv'
<1>1. w \in Workers /\ w \in plan.workers /\ plan.cap \in Nat
  BY PlanFacts DEF IInv
<1>2. PICK i \in inject : Begin(w, i) /\ inject' = inject \ {i}
  BY DEF TakeInject
<1>3. UNCHANGED <<plan, gate, shutdown, parkWord, counts, mailbox, stack, submitters,
                  owner, fate, stale>>
  BY DEF TakeInject
<1>4. /\ at[w] = "look" /\ at' = [at EXCEPT ![w] = "run"]
      /\ running' = [running EXCEPT ![w] = i] /\ i \in All
  BY <1>2 DEF Begin, WorkerAt, IInv, Types
<1>5. \A j \in All : PlaceOK(j)'
  BY <1>1, <1>2, <1>3, InjectPlace
<1>6. Types'
  <2>1. Cardinality(inject') <= plan.cap /\ inject' \subseteq All
    BY <1>1, <1>2, Smaller DEF IInv, Types
  <2>2. QED
    BY <1>1, <1>3, <1>4, <2>1 DEF IInv, Types
<1>7. MyOK' /\ GateOK' /\ StopOK' /\ SettleOK' /\ Accepted' = Accepted /\ Counting' = Counting
  BY <1>1, <1>3, <1>4, WorkerKeeps DEF WorkerFrame, Advances
<1>8. CountsOK'
  BY <1>3, <1>7, CountsKept
<1>9. WorkersOK'
  BY <1>1, <1>3, <1>4, PlaceFacts DEF IInv, JobsOK, WorkersOK, Types
<1>10. QED
  BY <1>5, <1>6, <1>7, <1>8, <1>9 DEF IInv, JobsOK

LEMMA TakeMailboxStep ==
  ASSUME IInv, NEW w \in plan.workers, TakeMailbox(w)
  PROVE  IInv'
<1>1. w \in Workers /\ w \in plan.workers /\ plan.cap \in Nat /\ stack[w] = {}
  BY PlanFacts DEF IInv, TakeMailbox
<1>2. PICK taken \in SUBSET mailbox[w] : \E i \in taken :
         /\ Begin(w, i)
         /\ mailbox' = [mailbox EXCEPT ![w] = @ \ taken]
         /\ Stacked(w, taken \ {i})
  <2>1. kSubset(Min({Batch, Cardinality(mailbox[w])}), mailbox[w]) \subseteq SUBSET mailbox[w]
    BY DEF kSubset
  <2>2. QED
    BY <2>1 DEF TakeMailbox
<1>3. PICK i \in taken : /\ Begin(w, i)
                         /\ mailbox' = [mailbox EXCEPT ![w] = @ \ taken]
                         /\ Stacked(w, taken \ {i})
  BY <1>2
<1>4. UNCHANGED <<plan, gate, shutdown, parkWord, counts, inject, submitters, owner, stale>>
  BY DEF TakeMailbox
<1>5. /\ at[w] = "look" /\ at' = [at EXCEPT ![w] = "run"]
      /\ running' = [running EXCEPT ![w] = i] /\ taken \subseteq All
  BY <1>1, <1>3 DEF Begin, WorkerAt, IInv, Types
<1>6. PICK kept \in SUBSET (taken \ {i}) :
         /\ Cardinality(kept) <= StackCap
         /\ stack' = [stack EXCEPT ![w] = @ \cup kept]
         /\ fate' = [j \in All |-> IF j \in (taken \ {i}) \ kept THEN "dropped" ELSE fate[j]]
  <2> DEFINE rest == taken \ {i}
  <2>1. rest \in SUBSET All /\ Stacked(w, rest)
    BY <1>3, <1>5
  <2>2. w \in Workers /\ stack[w] = {}
    BY <1>1
  <2> HIDE DEF rest
  <2>3. \E kept \in SUBSET rest :
           /\ Cardinality(kept) <= StackCap
           /\ stack' = [stack EXCEPT ![w] = @ \cup kept]
           /\ fate' = [j \in All |-> IF j \in rest \ kept THEN "dropped" ELSE fate[j]]
    BY <2>1, <2>2, Stacking
  <2>4. QED
    BY <2>3 DEF rest
<1>7. \A j \in All : PlaceOK(j)'
  BY <1>1, <1>3, <1>4, <1>6, MailboxPlace
<1>8. \A j \in taken : fate[j] = "pending"
  BY <1>1, <1>5, PlaceFacts, Where
<1>9. \A j \in All : Advances(j) /\ (fate'[j] = "done" <=> fate[j] = "done")
  BY <1>6, <1>8 DEF Advances
<1>10. Types'
  <2>1. mailbox'[w] \subseteq mailbox[w] /\ mailbox[w] \subseteq All
    BY <1>1, <1>3 DEF IInv, Types
  <2>2. Cardinality(mailbox'[w]) <= plan.cap
    BY <1>1, <2>1, Smaller DEF IInv, Types
  <2>3. /\ mailbox' \in [Workers -> SUBSET All]
        /\ \A u \in Workers : Cardinality(mailbox'[u]) <= plan.cap
    BY <1>1, <1>3, <2>1, <2>2 DEF IInv, Types
  <2>4. stack'[w] = kept
    BY <1>1, <1>6 DEF IInv, Types
  <2>5. /\ stack' \in [Workers -> SUBSET All]
        /\ \A u \in Workers : Cardinality(stack'[u]) <= StackCap
    BY <1>1, <1>5, <1>6, <2>4 DEF IInv, Types
  <2>6. fate' \in [All -> {"caller", "refused", "pending", "done", "discarded", "dropped"}]
    BY <1>6, PlaceFacts
  <2>7. running' \in [Workers -> All \cup {None}] /\ at' \in [Workers -> {"loop", "look", "run", "exited"}]
    BY <1>1, <1>5 DEF IInv, Types
  <2>8. QED
    BY <1>4, <2>3, <2>5, <2>6, <2>7 DEF IInv, Types
<1>11. MyOK' /\ GateOK' /\ StopOK' /\ SettleOK' /\ Accepted' = Accepted /\ Counting' = Counting
  BY <1>1, <1>4, <1>5, <1>9, WorkerKeeps DEF WorkerFrame
<1>12. CountsOK'
  BY <1>4, <1>9, <1>11, CountsKept
<1>13. WorkersOK'
  BY <1>1, <1>3, <1>4, <1>5, <1>6, PlaceFacts DEF IInv, JobsOK, WorkersOK, Types
<1>14. QED
  BY <1>7, <1>10, <1>11, <1>12, <1>13 DEF IInv, JobsOK

LEMMA RunJobStep ==
  ASSUME IInv, NEW w \in plan.workers, RunJob(w)
  PROVE  IInv'
<1>1. w \in Workers /\ w \in plan.workers
  BY PlanFacts DEF IInv
<1>2. PICK i \in All : i = running[w]
  BY <1>1, PlaceFacts DEF RunJob, WorkerAt
<1>3. /\ at[w] = "run" /\ at' = [at EXCEPT ![w] = "loop"]
      /\ fate' = [fate EXCEPT ![i] = "done"] /\ running' = [running EXCEPT ![w] = None]
      /\ completed' = completed + 1
      /\ UNCHANGED <<plan, gate, shutdown, parkWord, submitted, queues, submitters, owner, stale>>
  BY <1>2 DEF RunJob, WorkerAt
<1>4. \A j \in All : PlaceOK(j)'
  BY <1>1, RunPlace
<1>5. fate[i] = "pending"
  BY <1>1, <1>2, PlaceFacts, Where
<1>6. \A j \in All : Advances(j)
  BY <1>3, <1>5, PlaceFacts DEF Advances
<1>7. Types'
  BY <1>1, <1>3 DEF IInv, Types
<1>8. MyOK' /\ GateOK' /\ StopOK' /\ SettleOK' /\ Accepted' = Accepted /\ Counting' = Counting
  BY <1>1, <1>3, <1>6, WorkerKeeps DEF WorkerFrame
<1>9. CountsOK'
  BY <1>3, <1>5, <1>8, OneDone
<1>10. WorkersOK'
  BY <1>1, <1>3, PlaceFacts DEF IInv, JobsOK, WorkersOK, Types
<1>11. QED
  BY <1>4, <1>7, <1>8, <1>9, <1>10 DEF IInv, JobsOK

LEMMA RescheduleStep ==
  ASSUME IInv, NEW w \in plan.workers, Reschedule(w)
  PROVE  IInv'
<1>1. w \in Workers /\ w \in plan.workers /\ plan.cap \in Nat
  BY PlanFacts DEF IInv
<1> DEFINE onStack == Cardinality(stack[w]) < StackCap
           injected == ~ onStack /\ Cardinality(inject) < plan.cap
<1>2. PICK r \in plan.resumes :
        /\ fate[r] = "caller"
        /\ stack' = [stack EXCEPT ![w] = IF onStack THEN @ \cup {r} ELSE @]
        /\ inject' = IF injected THEN inject \cup {r} ELSE inject
        /\ fate' = [fate EXCEPT ![r] = IF onStack \/ injected THEN "pending" ELSE "dropped"]
  BY DEF Reschedule
<1>3. /\ r \in Resumes /\ r \in All /\ at[w] = "run"
      /\ UNCHANGED <<plan, gate, shutdown, parkWord, counts, mailbox, workers, submitters, owner, stale>>
  BY PlanFacts DEF IInv, All, Reschedule
<1>4. \A j \in All : PlaceOK(j)'
  BY <1>1, ReschedulePlace
<1>5. \A j \in All : Advances(j) /\ (fate'[j] = "done" <=> fate[j] = "done")
  BY <1>2, <1>3, PlaceFacts DEF Advances
<1>6. Types'
  <2>1. Cardinality(stack'[w]) <= StackCap /\ stack'[w] \subseteq All
    <3>1. CASE onStack
      <4>1. stack'[w] = stack[w] \cup {r} /\ StackCap \in Nat
        BY <1>1, <1>2, <3>1, ManagerAssumption DEF IInv, Types
      <4>2. QED
        BY <1>1, <1>3, <3>1, <4>1, OneMore DEF IInv, Types
    <3>2. CASE ~ onStack
      BY <1>1, <1>2, <3>2 DEF IInv, Types
    <3>3. QED
      BY <3>1, <3>2
  <2>2. Cardinality(inject') <= plan.cap /\ inject' \subseteq All
    <3>1. CASE injected
      BY <1>1, <1>2, <1>3, <3>1, OneMore DEF IInv, Types
    <3>2. CASE ~ injected
      BY <1>2, <3>2 DEF IInv, Types
    <3>3. QED
      BY <3>1, <3>2
  <2> HIDE DEF onStack, injected
  <2>3. /\ stack' \in [Workers -> SUBSET All]
        /\ \A u \in Workers : Cardinality(stack'[u]) <= StackCap
    <3>1. \A u \in Workers : u # w => stack'[u] = stack[u]
      BY <1>2 DEF IInv, Types
    <3>2. DOMAIN stack' = Workers /\ stack' = [u \in Workers |-> stack'[u]]
      BY <1>2 DEF IInv, Types
    <3>3. \A u \in Workers : Cardinality(stack'[u]) <= StackCap /\ stack'[u] \subseteq All
      BY <2>1, <3>1 DEF IInv, Types
    <3>4. QED
      BY <3>2, <3>3
  <2>4. fate' \in [All -> {"caller", "refused", "pending", "done", "discarded", "dropped"}]
    BY <1>2, PlaceFacts
  <2>5. QED
    BY <1>3, <2>2, <2>3, <2>4 DEF IInv, Types
<1>7. MyOK' /\ GateOK' /\ StopOK' /\ SettleOK' /\ Accepted' = Accepted /\ Counting' = Counting
  BY <1>1, <1>3, <1>5, WorkerKeeps DEF WorkerFrame
<1>8. CountsOK'
  BY <1>3, <1>5, <1>7, CountsKept
<1> HIDE DEF onStack, injected
<1>9. WorkersOK'
  BY <1>1, <1>2, <1>3 DEF IInv, JobsOK, WorkersOK, Types
<1>10. QED
  BY <1>4, <1>6, <1>7, <1>8, <1>9 DEF IInv, JobsOK

LEMMA WorkerStep ==
  ASSUME IInv, NEW w \in plan.workers, Worker(w) \/ Reschedule(w)
  PROVE  IInv'
BY WorkerCheckStep, TakeStackStep, TakeInjectStep, TakeMailboxStep, RunJobStep,
   RescheduleStep DEF Worker

-----------------------------------------------------------------------------
(* The steps of submitters *)

GatePcs == {"route", "full", "expect", "park", "asleep", "count", "leave", "giveup"}

SubmitterFrame == UNCHANGED <<plan, phase, shutdown, completed, inject, mailbox, stack, at,
                              running, op, mode, target, gaveUp, todo, starts, stale>>

LEMMA StopKept ==
  ASSUME IInv, SubmitterFrame
  PROVE  StopOK' /\ WorkersOK'
BY DEF SubmitterFrame, StopOK, WorkersOK, IInv, JobsOK, Halted, Places, Threadless

(* While somebody is inside the gate, no stop has waited for everybody.    *)
LEMMA InsideKeeps ==
  ASSUME IInv, SubmitterFrame, NEW s \in Submitters, pc[s] \in GatePcs
  PROVE  SettleOK'
<1>1. InGate # {}
  BY DEF InGate, GatePcs
<1>2. Places' = Places /\ Calm' = Calm
  BY DEF SubmitterFrame, Places, Calm
<1>3. Calm => ~ (op \in {"snapshot", "pump", "drain"})
              /\ ~ (op \in {"halt", "wake", "join"} /\ mode = "drain")
              /\ ~ (op = "discard" /\ todo # Places)
              /\ ~ (op = "stopped" \/ phase = "stopped")
  BY <1>1 DEF IInv, SettleOK
<1>4. QED
  BY <1>2, <1>3 DEF SettleOK, SubmitterFrame

LEMMA OutsideKeeps ==
  ASSUME IInv, SubmitterFrame, InGate' = InGate, submitted' = submitted,
         \A r \in Resumes : fate'[r] = fate[r],
         \A j \in Jobs : fate'[j] = "pending" <=> fate[j] = "pending"
  PROVE  SettleOK'
<1>1. Places' = Places /\ Calm' = Calm
  BY DEF SubmitterFrame, Places, Calm
<1>2. NoResume' <=> NoResume
  BY DEF NoResume
<1>3. AllRun' <=> AllRun
  BY DEF AllRun
<1>4. \A p : Emptied(p)' <=> Emptied(p)
  BY DEF SubmitterFrame, Emptied
<1>5. QED
  BY <1>1, <1>2, <1>3, <1>4 DEF SettleOK, SubmitterFrame, IInv

LEMMA PcType ==
  ASSUME IInv, NEW s \in Submitters,
         NEW to \in {"idle", "enter", "refused", "route", "full", "expect", "park",
                     "asleep", "count", "leave", "giveup"},
         pc' = [pc EXCEPT ![s] = to]
  PROVE  /\ pc' \in [Submitters -> {"idle", "enter", "refused", "route", "full", "expect",
                                    "park", "asleep", "count", "leave", "giveup"}]
         /\ pc'[s] = to /\ \A t \in Submitters \ {s} : pc'[t] = pc[t]
BY DEF IInv, Types

(* The steps within submit that change nothing but where the thread is.    *)
LEMMA LookingStep ==
  ASSUME IInv, NEW s \in Submitters,
         RouteFull(s) \/ FullStopping(s) \/ FullExpect(s) \/ FullPark(s) \/ FullTimeout(s)
  PROVE  IInv'
<1>1. PICK to \in {"route", "full", "expect", "park", "asleep", "giveup"} :
        pc' = [pc EXCEPT ![s] = to]
  BY DEF RouteFull, FullStopping, FullExpect, FullPark, FullTimeout, Goto
<1>2. /\ pc[s] \in {"route", "full", "expect", "park", "asleep"}
      /\ UNCHANGED <<plan, gate, shutdown, counts, queues, workers, call, my, owner, fate, stale>>
  BY DEF RouteFull, FullStopping, FullExpect, FullPark, FullTimeout, Goto
<1>3. SubmitterFrame
  BY <1>2 DEF SubmitterFrame
<1>4. StopOK' /\ WorkersOK' /\ SettleOK'
  BY <1>2, <1>3, StopKept, InsideKeeps DEF GatePcs
<1>5. pc'[s] = to /\ \A t \in Submitters \ {s} : pc'[t] = pc[t]
  BY <1>1, PcType
<1>6. InGate' = InGate /\ Counting' = Counting
  BY <1>2, <1>5 DEF InGate, Counting
<1>7. MyOK'
  BY <1>2, <1>5 DEF MyOK, IInv, JobsOK
<1>8. \A j \in All : PlaceOK(j)'
  <2>1. \A j \in All : PlaceOK(j) => PlaceOK(j)'
    BY <1>2 DEF PlaceOK, Only
  <2>2. QED
    BY <2>1, PlaceFacts
<1>9. Types'
  <2>1. pc' \in [Submitters -> {"idle", "enter", "refused", "route", "full", "expect",
                                  "park", "asleep", "count", "leave", "giveup"}]
    BY <1>1 DEF IInv, Types
  <2>2. QED
    BY <1>2, <2>1 DEF IInv, Types
<1>10. CountsOK'
  BY <1>2, <1>6 DEF CountsOK, Accepted, Done, IInv
<1>11. GateOK'
  BY <1>2, <1>6 DEF GateOK, Shut, IInv
<1>12. QED
  BY <1>4, <1>7, <1>8, <1>9, <1>10, <1>11 DEF IInv, JobsOK

LEMMA SubmitCallStep ==
  ASSUME IInv, NEW s \in plan.submitters, NEW c, SubmitCall(s, c)
  PROVE  IInv'
<1>1. s \in Submitters /\ pc[s] = "idle"
  BY PlanFacts DEF IInv, SubmitCall
<1>2. PICK j \in Unsubmitted : my' = [my EXCEPT ![s] = j]
  BY DEF SubmitCall
<1>3. j \in Jobs /\ fate[j] = "caller" /\ \A t \in Submitters : my[t] # j
  BY PlanFacts DEF IInv, Unsubmitted
<1>4. PICK to \in {"refused", "enter"} : pc' = [pc EXCEPT ![s] = to]
  BY DEF SubmitCall
<1>5. UNCHANGED <<plan, gate, shutdown, counts, queues, workers, owner, fate, stale>>
  BY DEF SubmitCall
<1>6. SubmitterFrame
  BY <1>5 DEF SubmitterFrame
<1>7. pc'[s] = to /\ \A t \in Submitters \ {s} : pc'[t] = pc[t]
  BY <1>1, <1>4, PcType
<1>8. InGate' = InGate /\ Counting' = Counting
  BY <1>1, <1>7 DEF InGate, Counting
<1>9. StopOK' /\ WorkersOK' /\ SettleOK'
  BY <1>5, <1>6, <1>8, StopKept, OutsideKeeps
<1>10. MyOK'
  <2>1. my'[s] = j /\ \A t \in Submitters \ {s} : my'[t] = my[t]
    BY <1>1, <1>2 DEF IInv, Types
  <2>2. QED
    BY <1>3, <1>4, <1>5, <1>7, <2>1 DEF MyOK, IInv, JobsOK
<1>11. \A i \in All : PlaceOK(i)'
  <2>1. \A i \in All : PlaceOK(i) => PlaceOK(i)'
    BY <1>5 DEF PlaceOK, Only
  <2>2. QED
    BY <2>1, PlaceFacts
<1>12. Types'
  <2>1. my' \in [Submitters -> Jobs \cup {None}]
    BY <1>1, <1>2, <1>3 DEF IInv, Types
  <2>2. QED
    BY <1>1, <1>4, <1>5, <2>1, PcType DEF IInv, Types
<1>13. CountsOK'
  BY <1>5, <1>8 DEF CountsOK, Accepted, Done, IInv
<1>14. GateOK'
  BY <1>5, <1>8 DEF GateOK, Shut, IInv
<1>15. QED
  BY <1>9, <1>10, <1>11, <1>12, <1>13, <1>14 DEF IInv, JobsOK

LEMMA GateEnterStep ==
  ASSUME IInv, NEW s \in Submitters, GateEnter(s)
  PROVE  IInv'
<1>1. /\ pc[s] = "enter" /\ pc' = [pc EXCEPT ![s] = IF Closed THEN "refused" ELSE "route"]
      /\ word' = IF Closed THEN word ELSE word + 1
      /\ UNCHANGED <<plan, phase, shutdown, counts, queues, workers, my, owner, fate, stale>>
  BY DEF GateEnter, Goto
<1>2. SubmitterFrame
  BY <1>1 DEF SubmitterFrame
<1>3. /\ pc'[s] = (IF Closed THEN "refused" ELSE "route")
      /\ \A t \in Submitters \ {s} : pc'[t] = pc[t]
  BY <1>1, PcType
<1>4. Counting' = Counting
  BY <1>1, <1>3 DEF Counting
<1>5. MyOK'
  BY <1>1, <1>3 DEF MyOK, IInv, JobsOK
<1>6. \A j \in All : PlaceOK(j)'
  <2>1. \A j \in All : PlaceOK(j) => PlaceOK(j)'
    BY <1>1 DEF PlaceOK, Only
  <2>2. QED
    BY <2>1, PlaceFacts
<1>7. CountsOK'
  BY <1>1, <1>4 DEF CountsOK, Accepted, Done, IInv
<1>8. Half \in Nat /\ word \in 0..(2 * Half - 1)
  BY ManagerAssumption DEF IInv, Types
<1>9. Types'
  <2>1. word' \in 0..(2 * Half - 1)
    BY <1>1, <1>8 DEF Closed
  <2>2. QED
    BY <1>1, <2>1, PcType DEF IInv, Types
<1>10. CASE Closed
  <2>1. InGate' = InGate
    BY <1>1, <1>3, <1>10 DEF InGate
  <2>2. GateOK' /\ SettleOK'
    BY <1>1, <1>2, <1>10, <2>1, OutsideKeeps DEF GateOK, Shut, IInv
  <2>3. QED
    BY <1>2, <1>5, <1>6, <1>7, <1>9, <2>2, StopKept DEF IInv, JobsOK
<1>11. CASE ~ Closed
  <2>1. InGate' = InGate \cup {s} /\ s \notin InGate /\ InGate \in SUBSET Submitters
    BY <1>1, <1>3, <1>11 DEF InGate
  <2>2. Cardinality(InGate') = Cardinality(InGate) + 1 /\ Cardinality(InGate) \in Nat
    BY <2>1, Finite, FS_AddElement
  <2>3. ~ stale => ~ Shut
    BY <1>8, <1>11, <2>2 DEF IInv, GateOK, Closed
  <2>4. GateOK'
    BY <1>1, <1>8, <1>11, <2>2 DEF GateOK, Shut, IInv
  <2>5. SettleOK'
    BY <1>2, <2>3 DEF SettleOK, Calm, Shut, SubmitterFrame
  <2>6. QED
    BY <1>2, <1>5, <1>6, <1>7, <1>9, <2>4, <2>5, StopKept DEF IInv, JobsOK
<1>12. QED
  BY <1>10, <1>11

LEMMA RouteStep ==
  ASSUME IInv, NEW s \in Submitters, Route(s)
  PROVE  IInv'
<1>1. PICK i \in Jobs : i = my[s] /\ fate[i] = "caller"
  BY DEF IInv, JobsOK, MyOK, Route, Goto
<1>2. /\ pc[s] = "route" /\ pc' = [pc EXCEPT ![s] = "count"]
      /\ fate' = [fate EXCEPT ![i] = "pending"] /\ i \in All
      /\ UNCHANGED <<plan, gate, shutdown, counts, workers, my, owner, stale>>
  BY <1>1 DEF Route, Goto, All
<1>3. pc'[s] = "count" /\ \A t \in Submitters \ {s} : pc'[t] = pc[t]
  BY <1>2, PcType
<1>4. InGate' = InGate /\ Counting' = Counting \cup {s} /\ s \notin Counting
  BY <1>2, <1>3 DEF InGate, Counting
<1>5. Accepted' = Accepted \cup {i} /\ i \notin Accepted
  BY <1>1, <1>2, PlaceFacts DEF Accepted, All
<1>6. CountsOK'
  <2>1. /\ Cardinality(Counting') = Cardinality(Counting) + 1
        /\ Cardinality(Accepted') = Cardinality(Accepted) + 1
        /\ Cardinality(Counting) \in Nat /\ Cardinality(Accepted) \in Nat
    <3>1. Counting \in SUBSET Submitters /\ Accepted \in SUBSET All
      BY DEF Counting, Accepted, All
    <3>2. QED
      BY <1>4, <1>5, <3>1, Finite, FS_AddElement
  <2>2. Done' = Done
    BY <1>1, <1>2, PlaceFacts DEF Done
  <2>3. QED
    BY <1>2, <2>1, <2>2 DEF CountsOK, IInv, Types
<1>7. MyOK'
  <2>1. \A j \in Jobs : j # i => fate'[j] = fate[j]
    BY <1>2, PlaceFacts DEF All
  <2>2. fate'[i] = "pending"
    BY <1>2, PlaceFacts
  <2>3. \A t \in Submitters : my[t] = i => t = s
    BY <1>1, ManagerAssumption DEF IInv, JobsOK, MyOK
  <2>4. QED
    BY <1>1, <1>2, <1>3, <2>1, <2>2, <2>3 DEF MyOK, IInv, JobsOK
<1>8. \A j \in All : PlaceOK(j)'
  BY RoutePlace
<1>9. SettleOK'
  <2>1. /\ InGate # {} /\ Places' = Places /\ Calm' = Calm /\ InGate' = InGate
        /\ UNCHANGED <<phase, owner>>
    BY <1>2, <1>4 DEF InGate, Places, Calm
  <2>2. Calm => ~ (op \in {"snapshot", "pump", "drain"})
                /\ ~ (op \in {"halt", "wake", "join"} /\ mode = "drain")
                /\ ~ (op = "discard" /\ todo # Places)
                /\ ~ (op = "stopped" \/ phase = "stopped")
    BY <2>1 DEF IInv, SettleOK
  <2>3. QED
    BY <2>1, <2>2 DEF SettleOK
<1>10. GateOK' /\ StopOK'
  BY <1>2, <1>4 DEF GateOK, Shut, StopOK, Halted, Places, Threadless, IInv
<1>11. plan.cap \in Nat /\ plan.workers \subseteq Workers
  BY PlanFacts DEF IInv
<1>12. CASE Threadless /\ Cardinality(inject) < plan.cap /\ inject' = inject \cup {i}
            /\ UNCHANGED <<mailbox, stack>>
  <2>1. Cardinality(inject') <= plan.cap
    BY <1>11, <1>12, OneMore DEF IInv, Types
  <2>2. Types'
    BY <1>2, <1>12, <2>1, PcType DEF IInv, Types
  <2>3. WorkersOK'
    BY <1>2, <1>12 DEF WorkersOK, IInv, JobsOK
  <2>4. QED
    BY <1>6, <1>7, <1>8, <1>9, <1>10, <2>2, <2>3 DEF IInv, JobsOK
<1>13. ASSUME NEW w \in plan.workers, Cardinality(mailbox[w]) < plan.cap,
              mailbox' = [mailbox EXCEPT ![w] = @ \cup {i}], UNCHANGED <<inject, stack>>
       PROVE  IInv'
  <2>1. w \in Workers /\ mailbox[w] \in SUBSET All
    BY <1>11 DEF IInv, Types
  <2>2. Cardinality(mailbox[w] \cup {i}) <= plan.cap
    BY <1>11, <1>13, <2>1, OneMore
  <2>3. \A v \in Workers : mailbox'[v] = IF v = w THEN mailbox[w] \cup {i} ELSE mailbox[v]
    BY <1>13 DEF IInv, Types
  <2>4. /\ mailbox' \in [Workers -> SUBSET All]
        /\ \A v \in Workers : Cardinality(mailbox'[v]) <= plan.cap
    BY <1>2, <1>13, <2>1, <2>2, <2>3 DEF IInv, Types
  <2>5. Types'
    BY <1>2, <1>13, <2>4, PcType DEF IInv, Types
  <2>6. WorkersOK'
    BY <1>2, <1>13, <2>3 DEF WorkersOK, IInv, JobsOK
  <2>7. QED
    BY <1>6, <1>7, <1>8, <1>9, <1>10, <2>5, <2>6 DEF IInv, JobsOK
<1>14. QED
  BY <1>1, <1>12, <1>13 DEF Route

LEMMA SubmitCountStep ==
  ASSUME IInv, NEW s \in Submitters, SubmitCount(s)
  PROVE  IInv'
<1>1. /\ pc[s] = "count" /\ pc' = [pc EXCEPT ![s] = "leave"]
      /\ submitted' = submitted + 1
      /\ UNCHANGED <<plan, gate, shutdown, completed, queues, workers, my, owner, fate, stale>>
  BY DEF SubmitCount, Goto
<1>2. SubmitterFrame
  BY <1>1 DEF SubmitterFrame
<1>3. pc'[s] = "leave" /\ \A t \in Submitters \ {s} : pc'[t] = pc[t]
  BY <1>1, PcType
<1>4. InGate' = InGate /\ Counting' = Counting \ {s} /\ s \in Counting
  BY <1>1, <1>3 DEF InGate, Counting
<1>5. CountsOK'
  <2>1. Counting \in SUBSET Submitters
    BY DEF Counting
  <2>2. /\ Cardinality(Counting') = Cardinality(Counting) - 1
        /\ Cardinality(Counting) \in Nat
    BY <1>4, <2>1, Finite, FS_RemoveElement
  <2>3. Done' = Done /\ Accepted' = Accepted
    BY <1>1 DEF Done, Accepted
  <2>4. QED
    BY <1>1, <2>2, <2>3 DEF CountsOK, IInv, Types
<1>6. MyOK'
  BY <1>1, <1>3 DEF MyOK, IInv, JobsOK
<1>7. \A j \in All : PlaceOK(j)'
  <2>1. \A j \in All : PlaceOK(j) => PlaceOK(j)'
    BY <1>1 DEF PlaceOK, Only
  <2>2. QED
    BY <2>1, PlaceFacts
<1>8. Types'
  <2>1. pc' \in [Submitters -> {"idle", "enter", "refused", "route", "full", "expect",
                                  "park", "asleep", "count", "leave", "giveup"}]
    BY <1>1 DEF IInv, Types
  <2>2. submitted' \in Nat
    BY <1>1 DEF IInv, Types
  <2>3. QED
    BY <1>1, <2>1, <2>2 DEF IInv, Types
<1>9. GateOK'
  BY <1>1, <1>4 DEF GateOK, Shut, IInv
<1>10. QED
  BY <1>1, <1>2, <1>5, <1>6, <1>7, <1>8, <1>9, StopKept, InsideKeeps DEF IInv, JobsOK, GatePcs

(* A submitter forgets its job, which somebody has or which is refused.    *)
LEMMA LeaveMy ==
  ASSUME IInv, NEW s \in Submitters, pc' = [pc EXCEPT ![s] = "idle"],
         my' = [my EXCEPT ![s] = None],
         fate' = fate \/ (pc[s] \in {"giveup", "refused"} /\ Refused(s))
  PROVE  MyOK'
<1>1. pc'[s] = "idle" /\ \A t \in Submitters \ {s} : pc'[t] = pc[t]
  BY PcType
<1>2. my'[s] = None /\ \A t \in Submitters \ {s} : my'[t] = my[t]
  BY DEF IInv, Types
<1>3. ASSUME NEW t \in Submitters \ {s}, my[t] \in Jobs PROVE fate'[my[t]] = fate[my[t]]
  BY <1>3, ManagerAssumption, PlaceFacts DEF Refused, IInv, JobsOK, MyOK, All
<1>4. QED
  BY <1>1, <1>2, <1>3 DEF MyOK, IInv, JobsOK

LEMMA GateLeaveStep ==
  ASSUME IInv, NEW s \in Submitters, GateLeave(s)
  PROVE  IInv'
<1>1. /\ pc[s] \in {"leave", "giveup"} /\ pc' = [pc EXCEPT ![s] = "idle"]
      /\ fate' = fate \/ (pc[s] = "giveup" /\ Refused(s))
      /\ word' = (word - 1) % (2 * Half) /\ my' = [my EXCEPT ![s] = None]
      /\ UNCHANGED <<plan, phase, shutdown, counts, queues, workers, owner, stale>>
  BY DEF GateLeave, Goto
<1>2. SubmitterFrame
  BY <1>1 DEF SubmitterFrame
<1>3. pc'[s] = "idle" /\ \A t \in Submitters \ {s} : pc'[t] = pc[t]
  BY <1>1, PcType
<1>4. /\ Counting' = Counting /\ InGate' = InGate \ {s} /\ s \in InGate
      /\ InGate \in SUBSET Submitters
  BY <1>1, <1>3 DEF InGate, Counting
<1>5. /\ Cardinality(InGate') = Cardinality(InGate) - 1
      /\ Cardinality(InGate) \in Nat /\ Cardinality(InGate') \in Nat
      /\ Cardinality(InGate) < Half
  BY <1>4, Finite, FS_RemoveElement
<1>6. MyOK'
  BY <1>1, LeaveMy
<1>7. \A j \in All : PlaceOK(j)'
  <2>1. CASE fate' = fate
    <3>1. \A j \in All : PlaceOK(j) => PlaceOK(j)'
      BY <1>1, <2>1 DEF PlaceOK, Only
    <3>2. QED
      BY <3>1, PlaceFacts
  <2>2. CASE pc[s] = "giveup" /\ Refused(s)
    BY <1>1, <2>2, RefusedPlace
  <2>3. QED
    BY <1>1, <2>1, <2>2
<1>8. \A j \in All : \/ fate'[j] = fate[j]
                     \/ fate[j] = "caller" /\ fate'[j] = "refused"
  BY <1>1, PlaceFacts DEF Refused, IInv, JobsOK, MyOK
<1>9. Accepted' = Accepted /\ Done' = Done
  BY <1>8 DEF Accepted, Done, All
<1>10. CountsOK'
  BY <1>1, <1>4, <1>9 DEF CountsOK, IInv
<1>11. Half \in Nat /\ Half > 0 /\ word \in 0..(2 * Half - 1)
  BY ManagerAssumption, <1>5 DEF IInv, Types
<1>12. word' \in 0..(2 * Half - 1)
  BY <1>1, <1>11
<1>13. GateOK'
  <2>1. ~ stale => word >= 1
    BY <1>5, <1>11 DEF IInv, GateOK
  <2>2. word >= 1 => word' = word - 1
    BY <1>1, <1>11
  <2>3. QED
    BY <1>1, <1>5, <1>11, <2>1, <2>2 DEF GateOK, Shut, IInv
<1>14. Types'
  <2>1. my' \in [Submitters -> Jobs \cup {None}]
    BY <1>1 DEF IInv, Types
  <2>2. fate' \in [All -> {"caller", "refused", "pending", "done", "discarded", "dropped"}]
    BY <1>1, PlaceFacts DEF Refused
  <2>3. QED
    BY <1>1, <1>12, <2>1, <2>2, PcType DEF IInv, Types
<1>15. QED
  BY <1>1, <1>2, <1>6, <1>7, <1>10, <1>13, <1>14, StopKept, InsideKeeps DEF IInv, JobsOK, GatePcs

LEMMA SubmitRefusedStep ==
  ASSUME IInv, NEW s \in Submitters, SubmitRefused(s)
  PROVE  IInv'
<1>1. /\ pc[s] = "refused" /\ pc' = [pc EXCEPT ![s] = "idle"] /\ Refused(s)
      /\ my' = [my EXCEPT ![s] = None]
      /\ UNCHANGED <<plan, gate, shutdown, counts, queues, workers, owner, stale>>
  BY DEF SubmitRefused, Goto
<1>2. SubmitterFrame
  BY <1>1 DEF SubmitterFrame
<1>3. pc'[s] = "idle" /\ \A t \in Submitters \ {s} : pc'[t] = pc[t]
  BY <1>1, PcType
<1>4. Counting' = Counting /\ InGate' = InGate
  BY <1>1, <1>3 DEF InGate, Counting
<1>5. MyOK'
  BY <1>1, LeaveMy
<1>6. \A j \in All : PlaceOK(j)'
  BY <1>1, RefusedPlace
<1>7. \A j \in All : \/ fate'[j] = fate[j]
                     \/ j \in Jobs /\ fate[j] = "caller" /\ fate'[j] = "refused"
  BY <1>1, PlaceFacts DEF Refused, IInv, JobsOK, MyOK
<1>8. Accepted' = Accepted /\ Done' = Done
  BY <1>7 DEF Accepted, Done, All
<1>9. CountsOK'
  BY <1>1, <1>4, <1>8 DEF CountsOK, IInv
<1>10. SettleOK'
  <2>1. \A r \in Resumes : fate'[r] = fate[r]
    BY <1>7, ManagerAssumption DEF All
  <2>2. \A j \in Jobs : fate'[j] = "pending" <=> fate[j] = "pending"
    BY <1>7 DEF All
  <2>3. QED
    BY <1>1, <1>2, <1>4, <2>1, <2>2, OutsideKeeps
<1>11. Types'
  <2>1. my' \in [Submitters -> Jobs \cup {None}]
    BY <1>1 DEF IInv, Types
  <2>2. fate' \in [All -> {"caller", "refused", "pending", "done", "discarded", "dropped"}]
    BY <1>1, PlaceFacts DEF Refused
  <2>3. QED
    BY <1>1, <2>1, <2>2, PcType DEF IInv, Types
<1>12. GateOK'
  BY <1>1, <1>4 DEF GateOK, Shut, IInv
<1>13. QED
  BY <1>2, <1>5, <1>6, <1>9, <1>10, <1>11, <1>12, StopKept DEF IInv, JobsOK

LEMMA SubmitterStep ==
  ASSUME IInv, NEW s \in Submitters, Submitter(s)
  PROVE  IInv'
BY LookingStep, GateEnterStep, RouteStep, SubmitCountStep, GateLeaveStep, SubmitRefusedStep
   DEF Submitter

-----------------------------------------------------------------------------
(* The steps of the thread that owns the manager *)

(* Most of them leave jobs, counts and submitters as they are.             *)
OwnerFrame == UNCHANGED <<plan, counts, queues, running, my, pc, fate>>

LEMMA OwnerKeeps ==
  ASSUME IInv, OwnerFrame
  PROVE  /\ \A j \in All : PlaceOK(j)'
         /\ MyOK' /\ CountsOK' /\ (at' = at => WorkersOK' /\ Halted' = Halted)
         /\ InGate' = InGate /\ Places' = Places /\ (Threadless' <=> Threadless)
         /\ NoResume' <=> NoResume
         /\ AllRun' <=> AllRun
         /\ \A p : Emptied(p)' <=> Emptied(p)
<1>1. \A j \in All : PlaceOK(j)'
  <2>1. \A j \in All : PlaceOK(j) => PlaceOK(j)'
    BY DEF OwnerFrame, PlaceOK, Only
  <2>2. QED
    BY <2>1, PlaceFacts
<1>2. MyOK' /\ CountsOK' /\ (at' = at => WorkersOK' /\ Halted' = Halted)
  BY DEF OwnerFrame, MyOK, CountsOK, Done, Accepted, Counting, WorkersOK, Halted, IInv, JobsOK
<1>3. /\ InGate' = InGate /\ Places' = Places /\ (Threadless' <=> Threadless)
      /\ NoResume' <=> NoResume
      /\ AllRun' <=> AllRun
  BY DEF OwnerFrame, InGate, Places, Threadless, NoResume, AllRun
<1>4. \A p : Emptied(p)' <=> Emptied(p)
  BY DEF OwnerFrame, Emptied
<1>5. QED
  BY <1>1, <1>2, <1>3, <1>4

(* The gate's word tells how many are inside, closed or not. *)
LEMMA InsideCounts ==
  ASSUME NEW n \in Nat, NEW h \in Nat, n < h
  PROVE  n % h = n /\ (n + h) % h = n
<1>1. n % h = n
  BY SMT
<1>2. (n + h) % h = n
  BY SMT
<1>3. QED
  BY <1>1, <1>2

LEMMA StartStep ==
  ASSUME IInv, Start
  PROVE  IInv'
<1>1. /\ op = "idle" /\ op' = "idle" /\ (starts = 0 \/ phase = "stopped")
      /\ starts' = starts + 1 /\ phase' = "running" /\ word' = 0
      /\ stale' = (stale \/ Inside # 0)
      /\ at' = IF Threadless THEN at
               ELSE [w \in Workers |-> IF w \in plan.workers THEN "loop" ELSE "exited"]
      /\ shutdown' \in {shutdown, FALSE}
      /\ UNCHANGED <<mode, target, gaveUp, todo>>
  BY DEF Start, OpGoto
<1>2. OwnerFrame
  BY DEF Start, OwnerFrame
<1>3. Halted
  BY <1>1 DEF IInv, StopOK
<1>4. WorkersOK'
  BY <1>1, <1>2, <1>3 DEF OwnerFrame, WorkersOK, IInv, JobsOK, Halted, Threadless
<1>5. Half \in Nat /\ Half > 0 /\ Cardinality(InGate) \in Nat /\ Cardinality(InGate) < Half
  BY ManagerAssumption, Finite DEF InGate
<1>6. GateOK'
  <2>1. SUFFICES ASSUME ~ stale' PROVE word' = Cardinality(InGate) + 0
    BY <1>1, <1>2, OwnerKeeps DEF GateOK, Shut
  <2>2. word % Half = 0 /\ ~ stale
    BY <1>1, <2>1 DEF Inside
  <2>3. word = Cardinality(InGate) + (IF Shut THEN Half ELSE 0)
    BY <2>2 DEF IInv, GateOK
  <2>4. Cardinality(InGate) = 0
    BY <1>5, <2>2, <2>3, InsideCounts
  <2>5. QED
    BY <1>1, <2>4
<1>7. Types'
  <2>1. at' \in [Workers -> {"loop", "look", "run", "exited"}]
    BY <1>1 DEF IInv, Types
  <2>2. word' \in 0..(2 * Half - 1) /\ stale' \in BOOLEAN /\ starts' \in Nat
    BY <1>1, <1>5 DEF IInv, Types
  <2>3. QED
    BY <1>1, <1>2, <2>1, <2>2 DEF OwnerFrame, IInv, Types
<1>8. StopOK'
  BY <1>1 DEF StopOK, IInv, Types
<1>9. SettleOK'
  BY <1>1 DEF SettleOK
<1>10. QED
  BY <1>2, <1>4, <1>6, <1>7, <1>8, <1>9, OwnerKeeps DEF IInv, JobsOK

LEMMA StopCallStep ==
  ASSUME IInv, NEW m \in plan.modes, Stop(m)
  PROVE  IInv'
<1>1. /\ op = "idle" /\ op' = "close" /\ phase = "running" /\ mode' = m /\ gaveUp' = FALSE
      /\ phase' \in {"draining", "aborting"} /\ m \in {"drain", "abort"} /\ starts' = starts
      /\ UNCHANGED <<word, shutdown, at, target, todo, stale>>
  BY PlanFacts DEF Stop, OpGoto, IInv
<1>2. OwnerFrame
  BY DEF Stop, OwnerFrame
<1>3. Types'
  BY <1>1, <1>2 DEF OwnerFrame, IInv, Types
<1>4. GateOK'
  BY <1>1, <1>2, OwnerKeeps DEF GateOK, Shut, IInv
<1>5. StopOK'
  BY <1>1, <1>2, OwnerKeeps DEF StopOK, IInv
<1>6. SettleOK'
  BY <1>1 DEF SettleOK
<1>7. QED
  BY <1>1, <1>2, <1>3, <1>4, <1>5, <1>6, OwnerKeeps DEF IInv, JobsOK

LEMMA StopCloseStep ==
  ASSUME IInv, StopClose
  PROVE  IInv'
<1>1. /\ op = "close"
      /\ op' = (IF mode = "drain" THEN "empty" ELSE IF Threadless THEN "discard" ELSE "halt")
      /\ word' = (IF Closed THEN word ELSE word + Half) /\ todo' = Places
      /\ UNCHANGED <<phase, shutdown, at, mode, target, gaveUp, starts, stale>>
  BY DEF StopClose, OpGoto
<1>2. OwnerFrame
  BY DEF StopClose, OwnerFrame
<1>3. phase \in {"draining", "aborting"} /\ mode \in {"drain", "abort"}
  BY <1>1 DEF IInv, StopOK, Types
<1>4. Half \in Nat /\ Cardinality(InGate) \in Nat /\ Cardinality(InGate) < Half
      /\ word \in 0..(2 * Half - 1)
  BY ManagerAssumption, Finite DEF InGate, IInv, Types
<1>5. Types'
  <2>1. word' \in 0..(2 * Half - 1)
    BY <1>1, <1>4 DEF Closed
  <2>2. QED
    BY <1>1, <1>2, <2>1 DEF OwnerFrame, IInv, Types
<1>6. GateOK'
  <2>1. ~ stale => word = Cardinality(InGate)
    BY <1>1, <1>3, <1>4 DEF IInv, GateOK, Shut
  <2>2. ~ stale => word' = Cardinality(InGate) + Half
    BY <1>1, <1>4, <2>1 DEF Closed
  <2>3. Shut'
    BY <1>1 DEF Shut
  <2>4. QED
    BY <1>1, <1>2, <2>2, <2>3, OwnerKeeps DEF GateOK
<1>7. Threadless => Halted
  BY DEF IInv, JobsOK, WorkersOK, Halted, Threadless
<1>8. Places # {}
  BY DEF Places
<1>9. StopOK'
  BY <1>1, <1>2, <1>3, <1>7, <1>8, OwnerKeeps DEF StopOK, IInv
<1>10. SettleOK'
  BY <1>1, <1>2, <1>3, OwnerKeeps DEF SettleOK
<1>11. QED
  BY <1>1, <1>2, <1>5, <1>6, <1>9, <1>10, OwnerKeeps DEF IInv, JobsOK

(* A closed gate that nobody is inside of. *)
LEMMA NobodyInside ==
  ASSUME IInv, Shut, ~ stale, Inside = 0
  PROVE  InGate = {}
<1>1. InGate \in SUBSET Submitters
  BY DEF InGate
<1>2. /\ IsFiniteSet(InGate) /\ Cardinality(InGate) \in Nat /\ Cardinality(InGate) < Half
      /\ Half \in Nat
  BY <1>1, Finite, ManagerAssumption
<1>3. word = Cardinality(InGate) + Half
  BY DEF IInv, GateOK
<1>4. Cardinality(InGate) = 0
  BY <1>2, <1>3, InsideCounts DEF Inside
<1>5. QED
  BY <1>2, <1>4, FS_EmptySet

(* A pending job is in a queue or run by a worker: where all queues are    *)
(* empty and no worker runs, none is pending.                              *)
LEMMA NothingLeft ==
  ASSUME \A j \in All : PlaceOK(j)', WorkersOK', Halted', inject' = {},
         \A w \in Workers : w \in plan.workers' => mailbox'[w] = {} /\ stack'[w] = {},
         None \notin All
  PROVE  AllRun'
<1>1. \A w \in Workers : running'[w] = None /\ mailbox'[w] = {} /\ stack'[w] = {}
  BY DEF WorkersOK, Halted
<1>2. ASSUME NEW j \in Jobs, fate'[j] = "pending" PROVE FALSE
  <2>1. j \in All /\ j # None
    BY DEF All
  <2>2. /\ ~ Only(j, "inject", None)'
        /\ \A k \in {"mailbox", "stack", "run"}, w \in Workers : ~ Only(j, k, w)'
    BY <1>1, <2>1 DEF Only
  <2>3. QED
    BY <1>2, <2>1, <2>2 DEF PlaceOK
<1>3. QED
  BY <1>2 DEF AllRun

(* The steps of a stop behind a closed gate. *)
LEMMA ShutKept ==
  ASSUME IInv, InGate' = InGate, UNCHANGED <<word, stale>>,
         op \notin {"idle", "close"}, op' \notin {"idle", "close"} \/ phase' = "stopped"
  PROVE  GateOK'
BY DEF GateOK, Shut, IInv

LEMMA StopEmptyStep ==
  ASSUME IInv, StopEmpty
  PROVE  IInv'
<1>1. /\ op = "empty" /\ op' = "snapshot" /\ gaveUp' = (gaveUp \/ Inside # 0)
      /\ UNCHANGED <<phase, word, shutdown, at, mode, target, todo, starts, stale>>
  BY DEF StopEmpty, OpGoto
<1>2. OwnerFrame
  BY DEF StopEmpty, OwnerFrame
<1>3. phase \in {"draining", "aborting"}
  BY <1>1 DEF IInv, StopOK
<1>4. Types'
  BY <1>1, <1>2 DEF OwnerFrame, IInv, Types
<1>5. StopOK'
  BY <1>1, <1>2, OwnerKeeps DEF StopOK, IInv
<1>6. Calm' => InGate = {}
  BY <1>1, NobodyInside DEF Calm, Shut
<1>7. SettleOK'
  BY <1>1, <1>2, <1>3, <1>6, OwnerKeeps DEF SettleOK
<1>8. QED
  BY <1>1, <1>2, <1>4, <1>5, <1>7, OwnerKeeps, ShutKept DEF IInv, JobsOK

LEMMA StopSnapshotStep ==
  ASSUME IInv, StopSnapshot
  PROVE  IInv'
<1>1. /\ op = "snapshot" /\ op' = (IF Threadless THEN "pump" ELSE "drain")
      /\ target' = submitted
      /\ UNCHANGED <<phase, word, shutdown, at, mode, gaveUp, todo, starts, stale>>
  BY DEF StopSnapshot, OpGoto
<1>2. OwnerFrame
  BY DEF StopSnapshot, OwnerFrame
<1>3. phase \in {"draining", "aborting"}
  BY <1>1 DEF IInv, StopOK
<1>4. Types'
  BY <1>1, <1>2 DEF OwnerFrame, IInv, Types
<1>5. StopOK'
  BY <1>1, <1>2, OwnerKeeps DEF StopOK, IInv
<1>6. SettleOK'
  BY <1>1, <1>2, <1>3, OwnerKeeps DEF SettleOK, Calm, OwnerFrame, IInv
<1>7. QED
  BY <1>1, <1>2, <1>4, <1>5, <1>6, OwnerKeeps, ShutKept DEF IInv, JobsOK

(* The owner runs a job, on its own account or in a stop. *)
LEMMA PumpOneStep ==
  ASSUME IInv, PumpOne, UNCHANGED owner, op = "pump" \/ (op = "idle" /\ phase = "running")
  PROVE  IInv'
<1>1. PICK i \in inject : inject' = inject \ {i} /\ fate' = [fate EXCEPT ![i] = "done"]
  BY DEF PumpOne
<1>2. /\ completed' = completed + 1
      /\ UNCHANGED <<plan, gate, shutdown, submitted, mailbox, stack, workers, my, pc, owner, stale>>
  BY DEF PumpOne
<1>3. i \in All /\ fate[i] = "pending"
  BY PlaceFacts, Where
<1>4. \A j \in All : Advances(j)
  BY <1>1, <1>3, PlaceFacts DEF Advances
<1>5. MyOK' /\ Accepted' = Accepted /\ Counting' = Counting /\ InGate' = InGate
  BY <1>2, <1>4, AdvancesKeeps
<1>6. CountsOK'
  BY <1>1, <1>2, <1>3, <1>5, OneDone
<1>7. Types'
  <2>1. Cardinality(inject') <= plan.cap /\ inject' \subseteq All
    BY <1>1, PlaceFacts, PlanFacts, Smaller DEF IInv, Types
  <2>2. fate' \in [All -> {"caller", "refused", "pending", "done", "discarded", "dropped"}]
    BY <1>1, PlaceFacts
  <2>3. completed' \in Nat
    BY <1>2 DEF IInv, Types
  <2>4. QED
    BY <1>2, <2>1, <2>2, <2>3 DEF IInv, Types
<1>8. WorkersOK'
  BY <1>2 DEF WorkersOK, IInv, JobsOK
<1>9. GateOK' /\ StopOK'
  BY <1>2, <1>5 DEF GateOK, Shut, StopOK, Halted, Places, Threadless, IInv
<1>10. phase # "stopped"
  BY DEF IInv, StopOK
<1>11. SettleOK'
  BY <1>2, <1>5, <1>10 DEF SettleOK, Calm, IInv
<1>12. QED
  BY <1>5, <1>6, <1>7, <1>8, <1>9, <1>11, PumpPlace DEF IInv, JobsOK

LEMMA StopPumpedStep ==
  ASSUME IInv, StopPumped
  PROVE  IInv'
<1>1. /\ op = "pump" /\ op' = "stopped" /\ inject = {}
      /\ UNCHANGED <<phase, word, shutdown, at, mode, target, gaveUp, todo, starts, stale>>
  BY DEF StopPumped, OpGoto
<1>2. OwnerFrame
  BY DEF StopPumped, OwnerFrame
<1>3. phase \in {"draining", "aborting"} /\ Threadless
  BY <1>1 DEF IInv, StopOK
<1>4. Halted
  BY <1>3 DEF IInv, JobsOK, WorkersOK, Halted, Threadless
<1>5. AllRun'
  <2>1. \A w \in Workers : w \notin plan.workers'
    BY <1>2, <1>3 DEF OwnerFrame, Threadless
  <2>2. inject' = {}
    BY <1>1, <1>2 DEF OwnerFrame
  <2>3. WorkersOK' /\ Halted' /\ (\A j \in All : PlaceOK(j)')
    BY <1>1, <1>2, <1>4, OwnerKeeps
  <2>4. QED
    BY <2>1, <2>2, <2>3, PlaceFacts, NothingLeft
<1>6. Types'
  BY <1>1, <1>2 DEF OwnerFrame, IInv, Types
<1>7. StopOK'
  BY <1>1, <1>2, <1>3, <1>4, OwnerKeeps DEF StopOK, IInv
<1>8. SettleOK'
  BY <1>1, <1>2, <1>3, <1>5, OwnerKeeps DEF SettleOK, Calm, IInv
<1>9. QED
  BY <1>1, <1>2, <1>6, <1>7, <1>8, OwnerKeeps, ShutKept DEF IInv, JobsOK

(* As many jobs have run as were submitted: all of them. *)
LEMMA DrainedRuns ==
  ASSUME IInv, InGate = {}, completed >= submitted, NoResume
  PROVE  AllRun
<1>1. Counting = {} /\ Counting \in SUBSET Submitters
  BY DEF InGate, Counting
<1>2. Done \subseteq Accepted /\ Accepted \in SUBSET All
  BY DEF Done, Accepted, NoResume, All
<1>3. /\ IsFiniteSet(Accepted) /\ Cardinality(Accepted) \in Nat /\ Cardinality(Done) \in Nat
      /\ Cardinality({}) = 0
  BY <1>2, Finite, FS_EmptySet
<1>4. Cardinality(Done) >= Cardinality(Accepted)
  BY <1>1, <1>3 DEF IInv, CountsOK, Types
<1>5. Done = Accepted
  BY <1>2, <1>3, <1>4, FS_Subset
<1>6. QED
  BY <1>5 DEF AllRun, Done, Accepted, All

LEMMA StopDrainStep ==
  ASSUME IInv, StopDrain
  PROVE  IInv'
<1>1. /\ op = "drain" /\ op' = "halt" /\ gaveUp' = (gaveUp \/ completed < target)
      /\ UNCHANGED <<phase, word, shutdown, at, mode, target, todo, starts, stale>>
  BY DEF StopDrain, OpGoto
<1>2. OwnerFrame
  BY DEF StopDrain, OwnerFrame
<1>3. phase \in {"draining", "aborting"}
  BY <1>1 DEF IInv, StopOK
<1>4. Types'
  BY <1>1, <1>2 DEF OwnerFrame, IInv, Types
<1>5. StopOK'
  BY <1>1, <1>2, OwnerKeeps DEF StopOK, IInv
<1>6. SettleOK'
  <2>1. Calm' => InGate = {} /\ completed >= submitted
    <3>1. Calm' => Calm /\ ~ (completed < target)
      BY <1>1 DEF Calm
    <3>2. Calm => InGate = {} /\ target = submitted
      BY <1>1 DEF SettleOK, IInv
    <3>3. completed \in Nat /\ submitted \in Nat
      BY DEF IInv, Types
    <3>4. QED
      BY <3>1, <3>2, <3>3
  <2>2. Calm' => InGate = {} /\ (NoResume => AllRun)
    BY <2>1, DrainedRuns
  <2>3. QED
    BY <1>1, <1>2, <1>3, <2>2, OwnerKeeps DEF SettleOK
<1>7. QED
  BY <1>1, <1>2, <1>4, <1>5, <1>6, OwnerKeeps, ShutKept DEF IInv, JobsOK

LEMMA StopHaltStep ==
  ASSUME IInv, StopHalt
  PROVE  IInv'
<1>1. /\ op = "halt" /\ op' = "wake" /\ shutdown' = TRUE
      /\ UNCHANGED <<phase, word, at, mode, target, gaveUp, todo, starts, stale>>
  BY DEF StopHalt, OpGoto
<1>2. OwnerFrame
  BY DEF StopHalt, OwnerFrame
<1>3. phase \in {"draining", "aborting"}
  BY <1>1 DEF IInv, StopOK
<1>4. Types'
  BY <1>1, <1>2 DEF OwnerFrame, IInv, Types
<1>5. StopOK'
  BY <1>1, <1>2, OwnerKeeps DEF StopOK, IInv
<1>6. SettleOK'
  BY <1>1, <1>2, <1>3, OwnerKeeps DEF SettleOK, Calm, IInv
<1>7. QED
  BY <1>1, <1>2, <1>4, <1>5, <1>6, OwnerKeeps, ShutKept DEF IInv, JobsOK

(* Who sleeps until there is room looks again: still the same submission.  *)
LEMMA StopWakeStep ==
  ASSUME IInv, StopWake
  PROVE  IInv'
<1>1. /\ op = "wake" /\ op' = "join"
      /\ pc' = [s \in Submitters |-> IF pc[s] = "asleep" THEN "route" ELSE pc[s]]
      /\ UNCHANGED <<plan, gate, shutdown, counts, queues, workers, my, mode, target,
                     gaveUp, todo, starts, fate, stale>>
  BY DEF StopWake, OpGoto
<1>2. InGate' = InGate /\ Counting' = Counting
  BY <1>1 DEF InGate, Counting
<1>3. MyOK'
  BY <1>1 DEF MyOK, IInv, JobsOK
<1>4. \A j \in All : PlaceOK(j)'
  <2>1. \A j \in All : PlaceOK(j) => PlaceOK(j)'
    BY <1>1 DEF PlaceOK, Only
  <2>2. QED
    BY <2>1, PlaceFacts
<1>5. WorkersOK' /\ CountsOK'
  BY <1>1, <1>2 DEF WorkersOK, CountsOK, Done, Accepted, IInv, JobsOK
<1>6. phase \in {"draining", "aborting"}
  BY <1>1 DEF IInv, StopOK
<1>7. Types'
  <2>1. pc' \in [Submitters -> {"idle", "enter", "refused", "route", "full", "expect",
                                  "park", "asleep", "count", "leave", "giveup"}]
    BY <1>1 DEF IInv, Types
  <2>2. QED
    BY <1>1, <2>1 DEF IInv, Types
<1>8. StopOK'
  BY <1>1 DEF StopOK, Halted, Places, Threadless, IInv
<1>9. SettleOK'
  BY <1>1, <1>2, <1>6 DEF SettleOK, Calm, NoResume, AllRun, IInv
<1>10. QED
  BY <1>1, <1>2, <1>3, <1>4, <1>5, <1>7, <1>8, <1>9, ShutKept DEF IInv, JobsOK

LEMMA StopJoinStep ==
  ASSUME IInv, StopJoin
  PROVE  IInv'
<1>1. /\ op = "join" /\ op' = (IF mode = "abort" THEN "discard" ELSE "stopped")
      /\ \A w \in plan.workers : at[w] = "exited"
      /\ UNCHANGED <<phase, word, shutdown, at, mode, target, gaveUp, todo, starts, stale>>
  BY DEF StopJoin, OpGoto
<1>2. OwnerFrame
  BY DEF StopJoin, OwnerFrame
<1>3. phase \in {"draining", "aborting"} /\ mode \in {"drain", "abort"} /\ todo = Places
  BY <1>1 DEF IInv, StopOK, Types
<1>4. Halted
  BY <1>1 DEF IInv, JobsOK, WorkersOK, Halted
<1>5. Types'
  BY <1>1, <1>2 DEF OwnerFrame, IInv, Types
<1>6. Places # {}
  BY DEF Places
<1>7. StopOK'
  BY <1>1, <1>2, <1>3, <1>4, <1>6, OwnerKeeps DEF StopOK, IInv
<1>8. SettleOK'
  BY <1>1, <1>2, <1>3, OwnerKeeps DEF SettleOK, Calm, IInv
<1>9. QED
  BY <1>1, <1>2, <1>5, <1>7, <1>8, OwnerKeeps, ShutKept DEF IInv, JobsOK

LEMMA StopDiscardStep ==
  ASSUME IInv, StopDiscard
  PROVE  IInv'
<1>1. PICK p \in todo :
        /\ p \in Places
        /\ inject' = IF p[1] = "inject" THEN {} ELSE inject
        /\ mailbox' = [w \in Workers |-> IF p = <<"mailbox", w>> THEN {} ELSE mailbox[w]]
        /\ stack' = [w \in Workers |-> IF p = <<"stack", w>> THEN {} ELSE stack[w]]
        /\ fate' = [j \in All |-> IF j \in InQueue(p) THEN "discarded" ELSE fate[j]]
        /\ todo' = todo \ {p} /\ gaveUp' = (gaveUp \/ Inside # 0)
        /\ op' = IF todo = {p} THEN "stopped" ELSE op
  BY DiscardsOne
<1>2. /\ op = "discard"
      /\ UNCHANGED <<plan, gate, shutdown, counts, workers, my, pc, mode, target, starts, stale>>
  BY DEF StopDiscard
<1>3. phase \in {"draining", "aborting"} /\ mode = "abort" /\ todo \subseteq Places /\ Halted
  BY <1>2 DEF IInv, StopOK
<1>4. \/ p = <<"inject", None>>
      \/ \E w \in plan.workers : w \in Workers /\ (p = <<"mailbox", w>> \/ p = <<"stack", w>>)
  BY <1>1, PlacesFacts DEF IInv
<1>5. \A j \in InQueue(p) : fate[j] = "pending"
  BY <1>4, PlaceFacts, Where DEF InQueue
<1>6. \A j \in All : Advances(j) /\ (fate'[j] = "done" <=> fate[j] = "done")
  BY <1>1, <1>5 DEF Advances
<1>7. MyOK' /\ Accepted' = Accepted /\ Counting' = Counting /\ InGate' = InGate
  BY <1>2, <1>6, AdvancesKeeps
<1>8. CountsOK'
  BY <1>2, <1>6, <1>7, CountsKept
<1>9. /\ inject' \subseteq inject
      /\ \A w \in Workers : mailbox'[w] \subseteq mailbox[w] /\ stack'[w] \subseteq stack[w]
  BY <1>1
<1>10. Types'
  <2>1. /\ mailbox' \in [Workers -> SUBSET All] /\ stack' \in [Workers -> SUBSET All]
        /\ inject' \subseteq All
    BY <1>1, PlaceFacts
  <2>2. plan.cap \in Nat /\ StackCap \in Nat
    BY PlanFacts, ManagerAssumption DEF IInv
  <2>3. Cardinality(inject') <= plan.cap
    BY <1>9, <2>2, PlaceFacts, Smaller DEF IInv, Types
  <2>4. ASSUME NEW w \in Workers
        PROVE  Cardinality(mailbox'[w]) <= plan.cap /\ Cardinality(stack'[w]) <= StackCap
    <3>1. mailbox[w] \in SUBSET All /\ stack[w] \in SUBSET All
      BY PlaceFacts
    <3>2. QED
      BY <1>9, <2>2, <3>1, Smaller DEF IInv, Types
  <2>5. fate' \in [All -> {"caller", "refused", "pending", "done", "discarded", "dropped"}]
    BY <1>1, PlaceFacts
  <2>6. op' \in {"stopped", "discard"} /\ gaveUp' \in BOOLEAN
    BY <1>1, <1>2 DEF IInv, Types
  <2>7. QED
    BY <1>2, <2>1, <2>3, <2>4, <2>5, <2>6 DEF IInv, Types
<1>11. WorkersOK'
  BY <1>2, <1>9, PlaceFacts DEF WorkersOK, IInv, JobsOK
<1>12. Places' = Places /\ Halted'
  BY <1>2, <1>3 DEF Places, Halted
<1>13. StopOK'
  BY <1>1, <1>2, <1>3, <1>12 DEF StopOK, IInv
<1>14. GateOK'
  BY <1>1, <1>2, <1>7, ShutKept
<1>15. Calm' => Calm /\ InGate = {}
  BY <1>1, <1>2, NobodyInside DEF Calm, Shut
<1>16. Calm' => \A q \in Places \ todo' : Emptied(q)'
  <2>1. ASSUME Calm', NEW q \in Places, q \notin todo, Calm PROVE Emptied(q)'
    <3>1. Emptied(q)
      BY <1>1, <1>2, <2>1 DEF IInv, SettleOK
    <3>2. \/ q = <<"inject", None>>
          \/ \E w \in plan.workers : w \in Workers /\ (q = <<"mailbox", w>> \/ q = <<"stack", w>>)
      BY <2>1, PlacesFacts DEF IInv
    <3>3. QED
      BY <1>9, <3>1, <3>2 DEF Emptied
  <2>2. Emptied(p)'
    BY <1>1, <1>4 DEF Emptied
  <2>3. QED
    BY <1>1, <1>15, <2>1, <2>2
<1>17. ASSUME Calm', op' = "stopped" PROVE AllRun'
  <2>1. \A q \in Places : Emptied(q)'
    BY <1>1, <1>2, <1>16, <1>17
  <2>2. inject' = {}
    <3>1. <<"inject", None>> \in Places
      BY DEF Places
    <3>2. QED
      BY <2>1, <3>1 DEF Emptied
  <2>3. ASSUME NEW w \in Workers, w \in plan.workers PROVE mailbox'[w] = {} /\ stack'[w] = {}
    <3>1. <<"mailbox", w>> \in Places /\ <<"stack", w>> \in Places
      BY <2>3 DEF Places
    <3>2. QED
      BY <2>1, <3>1 DEF Emptied
  <2>4. QED
    BY <1>2, <1>11, <1>12, <2>2, <2>3, DiscardPlace, NothingLeft, PlaceFacts
<1>18. SettleOK'
  BY <1>1, <1>2, <1>3, <1>7, <1>12, <1>15, <1>16, <1>17 DEF SettleOK
<1>19. QED
  BY <1>7, <1>8, <1>10, <1>11, <1>13, <1>14, <1>18, DiscardPlace DEF IInv, JobsOK

LEMMA StopStoppedStep ==
  ASSUME IInv, StopStopped
  PROVE  IInv'
<1>1. /\ op = "stopped" /\ op' = "idle" /\ phase' = "stopped"
      /\ UNCHANGED <<word, shutdown, at, mode, target, gaveUp, todo, starts, stale>>
  BY DEF StopStopped, OpGoto
<1>2. OwnerFrame
  BY DEF StopStopped, OwnerFrame
<1>3. Types'
  BY <1>1, <1>2 DEF OwnerFrame, IInv, Types
<1>4. StopOK'
  BY <1>1, <1>2, OwnerKeeps DEF StopOK, IInv
<1>5. SettleOK'
  BY <1>1, <1>2, OwnerKeeps DEF SettleOK, Calm, IInv
<1>6. QED
  BY <1>1, <1>2, <1>3, <1>4, <1>5, OwnerKeeps, ShutKept DEF IInv, JobsOK

LEMMA StopsStep ==
  ASSUME IInv, Stops
  PROVE  IInv'
<1>1. CASE StopPump
  <2>1. op = "pump" /\ PumpOne /\ UNCHANGED owner
    BY <1>1 DEF StopPump
  <2>2. QED
    BY <2>1, PumpOneStep
<1>2. QED
  BY <1>1, StopCloseStep, StopEmptyStep, StopSnapshotStep, StopPumpedStep, StopDrainStep,
     StopHaltStep, StopWakeStep, StopJoinStep, StopDiscardStep, StopStoppedStep DEF Stops

-----------------------------------------------------------------------------
(* The theorems *)

LEMMA InitIInv == Init => IInv
<1> SUFFICES ASSUME Init PROVE IInv
  OBVIOUS
<1>1. /\ plan \in Plans /\ phase = "running" /\ word = 0 /\ shutdown = FALSE
      /\ submitted = 0 /\ completed = 0 /\ inject = {}
      /\ mailbox = [w \in Workers |-> {}] /\ stack = [w \in Workers |-> {}]
      /\ at = [w \in Workers |-> "exited"] /\ running = [w \in Workers |-> None]
      /\ pc = [s \in Submitters |-> "idle"] /\ my = [s \in Submitters |-> None]
      /\ op = "idle" /\ mode = "drain" /\ target = 0 /\ gaveUp = FALSE /\ todo = {}
      /\ starts = 0 /\ fate = [j \in All |-> "caller"] /\ stale = FALSE
  BY DEF Init
<1>2. Cardinality({}) = 0
  BY FS_EmptySet
<1>3. Types
  <2>1. Half \in Nat /\ 0 \in 0..(2 * Half - 1)
    <3>1. Half \in Nat /\ Half > 0
      BY ManagerAssumption, FS_CardinalityType
    <3>2. QED
      BY <3>1
  <2>2. plan.cap \in Nat /\ StackCap \in Nat
    BY <1>1, ManagerAssumption
  <2>3. /\ inject \subseteq All /\ Cardinality(inject) <= plan.cap
        /\ \A w \in Workers : Cardinality(mailbox[w]) <= plan.cap /\ Cardinality(stack[w]) <= StackCap
    BY <1>1, <1>2, <2>2
  <2>4. /\ mailbox \in [Workers -> SUBSET All] /\ stack \in [Workers -> SUBSET All]
        /\ at \in [Workers -> {"loop", "look", "run", "exited"}]
        /\ running \in [Workers -> All \cup {None}]
    BY <1>1
  <2>5. /\ pc \in [Submitters -> {"idle", "enter", "refused", "route", "full", "expect", "park",
                                   "asleep", "count", "leave", "giveup"}]
        /\ my \in [Submitters -> Jobs \cup {None}]
        /\ fate \in [All -> {"caller", "refused", "pending", "done", "discarded", "dropped"}]
    BY <1>1
  <2>6. QED
    BY <1>1, <2>1, <2>3, <2>4, <2>5 DEF Types
<1>4. None \notin All
  BY ManagerAssumption DEF All
<1>5. \A j \in All : PlaceOK(j)
  BY <1>1, <1>4 DEF PlaceOK, Only
<1>6. MyOK /\ WorkersOK
  BY <1>1 DEF MyOK, WorkersOK
<1>7. CountsOK
  <2>1. Done = {} /\ Accepted = {} /\ Counting = {}
    BY <1>1 DEF Done, Accepted, Counting, All
  <2>2. QED
    BY <1>1, <1>2, <2>1 DEF CountsOK
<1>8. GateOK
  <2>1. InGate = {} /\ ~ Shut
    BY <1>1 DEF InGate, Shut
  <2>2. QED
    BY <1>1, <1>2, <2>1 DEF GateOK
<1>9. StopOK
  BY <1>1 DEF StopOK, Halted
<1>10. SettleOK
  BY <1>1 DEF SettleOK
<1>11. QED
  BY <1>3, <1>5, <1>6, <1>7, <1>8, <1>9, <1>10 DEF IInv, JobsOK

LEMMA StutterStep ==
  ASSUME IInv, UNCHANGED vars
  PROVE  IInv'
<1>1. OwnerFrame /\ UNCHANGED <<phase, word, shutdown, at, owner, stale>>
  BY DEF vars, OwnerFrame
<1>2. Types'
  BY <1>1 DEF OwnerFrame, IInv, Types
<1>3. StopOK' /\ GateOK'
  BY <1>1, OwnerKeeps DEF StopOK, GateOK, Shut, IInv
<1>4. SettleOK'
  BY <1>1, OwnerKeeps DEF SettleOK, Calm, OwnerFrame, IInv
<1>5. QED
  BY <1>1, <1>2, <1>3, <1>4, OwnerKeeps DEF IInv, JobsOK

LEMMA StepIInv == IInv /\ [Next]_vars => IInv'
<1> SUFFICES ASSUME IInv, [Next]_vars PROVE IInv'
  OBVIOUS
<1>1. plan.workers \subseteq Workers /\ plan.submitters \subseteq Submitters
  BY PlanFacts DEF IInv
<1>2. CASE \E s \in Submitters : Submitter(s)
  BY <1>2, SubmitterStep
<1>3. CASE \E s \in plan.submitters, c \in plan.calls : SubmitCall(s, c)
  BY <1>1, <1>3, SubmitCallStep
<1>4. CASE \E w \in plan.workers : Worker(w) \/ Reschedule(w)
  BY <1>1, <1>4, WorkerStep, RescheduleStep
<1>5. CASE Start
  BY <1>5, StartStep
<1>6. CASE Pump
  <2>1. op = "idle" /\ phase = "running" /\ PumpOne /\ UNCHANGED owner
    BY <1>6 DEF Pump
  <2>2. QED
    BY <2>1, PumpOneStep
<1>7. CASE \E m \in plan.modes : Stop(m)
  BY <1>7, StopCallStep
<1>8. CASE Stops
  BY <1>8, StopsStep
<1>9. CASE UNCHANGED vars
  BY <1>9, StutterStep
<1>10. QED
  BY <1>2, <1>3, <1>4, <1>5, <1>6, <1>7, <1>8, <1>9 DEF Next

(* The inductive invariant: where every job is, what the counters and the  *)
(* gate's word stand for, and how far a stop has come.                     *)
THEOREM InductiveInvariant == Spec => []IInv
<1>1. Init => IInv
  BY InitIInv
<1>2. IInv /\ [Next]_vars => IInv'
  BY StepIInv
<1>3. QED
  BY <1>1, <1>2, PTL DEF Spec

(* A job is nowhere or in the one place that PlaceOK names. *)
LEMMA OnePlace ==
  ASSUME IInv, NEW j \in All
  PROVE  Cardinality(PlacesOf(j)) = IF fate[j] = "pending" THEN 1 ELSE 0
<1>1. PlaceOK(j)
  BY PlaceFacts
<1>2. CASE fate[j] # "pending" /\ Only(j, "none", None)
  <2>1. PlacesOf(j) = {}
    BY <1>2 DEF Only, PlacesOf
  <2>2. QED
    BY <1>2, <2>1, FS_EmptySet
<1>3. CASE fate[j] = "pending" /\ Only(j, "inject", None)
  <2>1. PlacesOf(j) = {<<"inject", None>>}
    BY <1>3 DEF Only, PlacesOf
  <2>2. QED
    BY <1>3, <2>1, FS_Singleton
<1>4. ASSUME fate[j] = "pending", NEW k \in {"mailbox", "stack", "run"}, NEW w \in Workers,
             Only(j, k, w)
      PROVE  Cardinality(PlacesOf(j)) = 1
  <2>1. PlacesOf(j) = {<<k, w>>}
    BY <1>4 DEF Only, PlacesOf
  <2>2. QED
    BY <2>1, FS_Singleton
<1>5. QED
  BY <1>1, <1>2, <1>3, <1>4 DEF PlaceOK

(* A job that was taken on is in one place until it has run or was given   *)
(* up, one that was refused is nowhere, and the counters that drain        *)
(* compares are exact, but for submissions that have not counted yet.      *)
THEOREM EveryJobAccounted == Spec => []JobsAccounted
<1>1. IInv => JobsAccounted
  <2> SUFFICES ASSUME IInv PROVE JobsAccounted
    OBVIOUS
  <2>1. /\ Cardinality(Accepted) \in Nat /\ Cardinality(Counting) \in Nat
        /\ Cardinality(Accepted) <= Cardinality(Jobs) /\ Cardinality(Jobs) \in Nat
    <3>1. IsFiniteSet(Jobs) /\ Accepted \subseteq Jobs
      BY ManagerAssumption DEF Accepted
    <3>2. Counting \in SUBSET Submitters
      BY DEF Counting
    <3>3. QED
      BY <3>1, <3>2, Finite, FS_Subset, FS_CardinalityType
  <2>2. submitted + Cardinality(Counting) = Cardinality(Accepted) /\ submitted \in Nat
    BY DEF IInv, CountsOK, Types
  <2>3. TypeOK
    BY <2>1, <2>2 DEF TypeOK, IInv, Types
  <2>4. completed = Cardinality({j \in All : fate[j] = "done"})
    BY DEF IInv, CountsOK, Done
  <2>5. Cardinality({j \in Jobs : fate[j] \notin {"caller", "refused"}})
          = submitted + Cardinality({s \in Submitters : pc[s] = "count"})
    BY <2>1, <2>2 DEF Accepted, Counting
  <2>6. QED
    BY <2>3, <2>4, <2>5, OnePlace DEF JobsAccounted
<1>2. QED
  BY <1>1, InductiveInvariant, PTL

(* A stop that has waited for everybody leaves no job behind. *)
THEOREM StopLeavesNothing == Spec => []StopSettles
<1>1. IInv => StopSettles
  BY DEF IInv, SettleOK, Calm, StopSettles, NoResume, AllRun
<1>2. QED
  BY <1>1, InductiveInvariant, PTL

=============================================================================
