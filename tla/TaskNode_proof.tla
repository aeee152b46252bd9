---------------------------- MODULE TaskNode_proof ----------------------------
(***************************************************************************)
(* Proof that a body runs on one worker at a time, that a ready node has   *)
(* exactly one ticket of its epoch, and that what is counted and reported  *)
(* of activations adds up, for any numbers of clients and workers, any     *)
(* calls of theirs and any sizes of the queues.                            *)
(***************************************************************************)
EXTENDS TaskNode, FiniteSetTheorems, TLAPS

-----------------------------------------------------------------------------
(* Steps a thread may be at: on its way with a ticket, or with the node.   *)
Carrying == {"route", "check", "claim"}
Claimed == {"body", "suspend", "park", "finish", "rearm", "complete"}
Steps ==
  {"idle", "try", "pend", "retire", "unfault", "epoch", "count", "wake", "missed", "note",
   "parked"} \cup Carrying \cup Claimed

(* What is assumed of the constants, and types. *)
Types ==
  /\ NodeAssumption /\ TypeOK
  /\ program \in Programs
  /\ pc \in [Threads -> Steps] /\ hand \in [Threads -> Nat]
  /\ activations \in Nat /\ completions \in Nat /\ lost \in Nat /\ failures \in Nat /\ reported \in Nat

(* Each ticket has an epoch of its own, as long as a ticket can tell       *)
(* epochs apart.                                                           *)
EpochsOK ==
  /\ \A t \in Threads : pc[t] \in Carrying => hand[t] <= epoch
  /\ epoch < TicketEpochs =>
       /\ tickets \subseteq 0..epoch
       /\ \A t \in Threads : pc[t] \in Carrying => hand[t] \notin tickets
       /\ \A s, t \in Threads :
            pc[s] \in Carrying /\ pc[t] \in Carrying /\ hand[s] = hand[t] => s = t

(* Who does not call deactivate is not in the middle of it.                *)
RoutedOK ==
  /\ "deactivate" \notin Made => \A t \in Threads : pc[t] # "retire"
  /\ epoch < TicketEpochs => ReadyIsRouted

(* Unless the node is taken back, one thread at most has it, or one ticket *)
(* stands for it.                                                          *)
Holding(t) == pc[t] \in {"epoch"} \cup Carrying \cup Claimed

HeldOK ==
  ~ TakesBack =>
    /\ "disable" \notin Made => state # "disabled"
    /\ \A s, t \in Threads : Holding(s) /\ Holding(t) => s = t
    /\ \A t \in Threads : /\ Holding(t) => tickets = {}
                          /\ pc[t] \in Claimed => state \in {"running", "disabled"}
                          /\ Holding(t) /\ pc[t] \notin Claimed => state \in {"ready", "disabled"}
    /\ tickets # {} => state \in {"ready", "disabled"}
    /\ \A d, e \in tickets : d = e

(* What each thread routes for. *)
WhyOK ==
  /\ \A t \in Threads :
       /\ pc[t] = "try" => why[t] \in {"activate", "again"}
       /\ pc[t] = "pend" => why[t] = "again"
       /\ pc[t] \in {"wake", "missed", "note"} => why[t] = "wake"
       /\ pc[t] = "rearm" => why[t] \in {"resume", "again"}
  /\ "queue" \notin Made => runs = 0 /\ \A t \in Threads : why[t] # "again"

(* An activation is under way once it has been routed, or is about to be   *)
(* counted, and until its completion is counted or its route is refused.   *)
Begun ==
  /\ state \in {"ready", "running", "waiting"}
  /\ \A t \in Threads : pc[t] \in {"epoch", "route"} => why[t] # "activate"
Counting == {t \in Threads : pc[t] = "count"}
CountsOK ==
  {"queue", "deactivate", "disable"} \cap Made = {} =>
    activations + Cardinality(Counting) <= completions + lost + (IF Begun THEN 1 ELSE 0)

(* A fault is reported after a failure, and then no more.                  *)
FaultsReal ==
  /\ {"faulted", "body_failed"} \cap flags # {} => failures >= 1
  /\ reported # 0 => /\ reported = 1 /\ failures >= 1
                     /\ state \in {"faulted", "disabled"} /\ tickets = {}
                     /\ \A t \in Threads : ~ Holding(t)
FaultsOK == ~ TakesBack /\ "enable" \notin Made => FaultsReal

IInv ==
  /\ Types /\ EpochsOK /\ RoutedOK /\ WhyOK
  /\ HeldOK /\ CountsOK /\ FaultsOK


-----------------------------------------------------------------------------
(* Types *)

LEMMA TypesInit ==
  ASSUME NodeAssumption, Init
  PROVE  Types
<1>1. IsFiniteSet({}) /\ Cardinality({}) = 0
  BY FS_EmptySet
<1>2. TypeOK
  <2>1. Cardinality(tickets) <= Slots
    BY <1>1 DEF Init, NodeAssumption
  <2>2. tickets \subseteq 0..(TicketEpochs - 1) /\ wakeup \in BOOLEAN
    BY DEF Init
  <2>3. QED
    BY <2>1, <2>2 DEF NodeAssumption, Init, TypeOK, States, Flags, Threads
<1>3. QED
  BY <1>2 DEF Init, Types, Threads, Steps

LEMMA TypesStay == Types /\ UNCHANGED vars => Types'
BY DEF vars, Types, TypeOK, Threads

(* A ticket more or fewer in queues of bounded length. *)
LEMMA TicketsSmall ==
  ASSUME Types, NEW e
  PROVE  /\ Cardinality(tickets) \in Nat
         /\ Cardinality(tickets) < Slots => Cardinality(tickets \cup {e}) <= Slots
         /\ Cardinality(tickets \ {e}) <= Slots
<1>1. IsFiniteSet(tickets) /\ Cardinality(tickets) <= Slots /\ Slots \in Nat
  <2>1. TicketEpochs - 1 \in Int
    BY DEF Types, NodeAssumption
  <2>2. IsFiniteSet(0..(TicketEpochs - 1))
    BY <2>1, FS_Interval
  <2>3. QED
    BY <2>2, FS_Subset DEF Types, TypeOK, NodeAssumption
<1>2. Cardinality(tickets) \in Nat
  BY <1>1, FS_CardinalityType
<1>3. /\ Cardinality(tickets \cup {e}) = IF e \in tickets THEN Cardinality(tickets) ELSE Cardinality(tickets) + 1
      /\ Cardinality(tickets \ {e}) = IF e \in tickets THEN Cardinality(tickets) - 1 ELSE Cardinality(tickets)
  BY <1>1, FS_AddElement, FS_RemoveElement
<1>4. QED
  BY <1>1, <1>2, <1>3

LEMMA TicketTyped ==
  ASSUME NodeAssumption, NEW e \in Nat
  PROVE  Ticket(e) \in 0..(TicketEpochs - 1) /\ (e < TicketEpochs => Ticket(e) = e)
<1>1. TicketEpochs \in Nat /\ TicketEpochs > 0
  BY DEF NodeAssumption
<1>2. QED
  BY <1>1 DEF Ticket

LEMMA TypesClient ==
  ASSUME Types, NEW c \in Clients, Client(c)
  PROVE  Types'
<1> USE DEF Types, TypeOK, NodeAssumption, Threads, Steps, Carrying, Claimed, States, Flags,
   Goto, Call, RouteFor,
             Swap, node, count, body
<1>1. CASE Activate(c)
  BY <1>1 DEF Activate
<1>2. CASE ActivateSwap(c)
  BY <1>2 DEF ActivateSwap
<1>3. CASE ActivateOverlap(c)
  BY <1>3 DEF ActivateOverlap
<1>4. CASE ActivateRefused(c)
  BY <1>4 DEF ActivateRefused
<1>5. CASE QueuePending(c)
  BY <1>5 DEF QueuePending
<1>6. CASE Deactivate(c)
  BY <1>6 DEF Deactivate
<1>7. CASE DeactivateEpoch(c)
  BY <1>7 DEF DeactivateEpoch
<1>8. CASE Disable(c)
  BY <1>8 DEF Disable
<1>9. CASE Enable(c)
  BY <1>9 DEF Enable
<1>10. CASE EnableFlag(c)
  BY <1>10 DEF EnableFlag
<1>11. CASE Cancel(c)
  BY <1>11 DEF Cancel
<1>12. CASE Signal(c)
  BY <1>12 DEF Signal
<1>13. QED
  BY <1>1, <1>2, <1>3, <1>4, <1>5, <1>6, <1>7, <1>8, <1>9, <1>10, <1>11, <1>12 DEF Client

LEMMA TypesMoving ==
  ASSUME Types, NEW t \in Threads, Moving(t)
  PROVE  Types'
<1> USE DEF Types, TypeOK, NodeAssumption, Threads, Steps, Carrying, Claimed, States, Flags,
   Goto, Call, RouteFor,
             Swap, node, count, body
<1>1. CASE NextEpoch(t)
  BY <1>1 DEF NextEpoch
<1>2. CASE Route(t)
  BY <1>2, TicketsSmall, TicketTyped DEF Route
<1>3. CASE RouteFull(t)
  BY <1>3 DEF RouteFull, Lose
<1>4. CASE CountActivation(t)
  BY <1>4 DEF CountActivation
<1>5. CASE Wake(t)
  BY <1>5 DEF Wake
<1>6. CASE WakeMissed(t)
  BY <1>6 DEF WakeMissed
<1>7. CASE WakeLook(t)
  BY <1>7 DEF WakeLook
<1>8. CASE WakeNote(t)
  BY <1>8 DEF WakeNote
<1>9. QED
  BY <1>1, <1>2, <1>3, <1>4, <1>5, <1>6, <1>7, <1>8 DEF Moving, Waking, Dispatch

LEMMA TypesWorker ==
  ASSUME Types, NEW w \in Workers, Worker(w)
  PROVE  Types'
<1> USE DEF Types, TypeOK, NodeAssumption, Threads, Steps, Carrying, Claimed, States, Flags,
   Goto, Call, RouteFor,
             Swap, node, count, body
<1>1. CASE Take(w)
  <2>1. PICK e \in tickets : tickets' = tickets \ {e} /\ hand' = [hand EXCEPT ![w] = e]
    BY <1>1 DEF Take
  <2>2. Cardinality(tickets') <= Slots
    BY <2>1, TicketsSmall
  <2>3. QED
    BY <1>1, <2>1, <2>2 DEF Take
<1>2. CASE Check(w)
  BY <1>2 DEF Check
<1>3. CASE Claim(w)
  BY <1>3 DEF Claim
<1>4. CASE ClaimLost(w)
  BY <1>4 DEF ClaimLost
<1>5. CASE BodyReturn(w)
  BY <1>5 DEF BodyReturn
<1>6. CASE BodyFail(w)
  BY <1>6 DEF BodyFail
<1>7. CASE BodyAwait(w)
  BY <1>7 DEF BodyAwait
<1>8. CASE SuspendCancelled(w)
  BY <1>8 DEF SuspendCancelled
<1>9. CASE SuspendCheck(w)
  BY <1>9 DEF SuspendCheck
<1>10. CASE SuspendPark(w)
  BY <1>10 DEF SuspendPark
<1>11. CASE SuspendRecheck(w)
  BY <1>11 DEF SuspendRecheck
<1>12. CASE Rearm(w)
  BY <1>12 DEF Rearm
<1>13. CASE RearmFailed(w)
  BY <1>13 DEF RearmFailed
<1>14. CASE FinishFault(w)
  BY <1>14 DEF FinishFault
<1>15. CASE FinishAgain(w)
  BY <1>15 DEF FinishAgain
<1>16. CASE FinishCheck(w)
  BY <1>16 DEF FinishCheck
<1>17. CASE FinishComplete(w)
  BY <1>17 DEF FinishComplete
<1>18. QED
  BY <1>1, <1>2, <1>3, <1>4, <1>5, <1>6, <1>7, <1>8, <1>9, <1>10, <1>11, <1>12, <1>13, <1>14,
     <1>15, <1>16, <1>17 DEF Worker, Suspend, Finish

-----------------------------------------------------------------------------
(* What a step of thread t does to the node and its tickets: nothing, the  *)
(* thread being without the node before and after; take the node up, to    *)
(* route it; go on with it; or let go of it.  The other steps advance the  *)
(* epoch, route, take or check a ticket, claim the node, or call           *)
(* deactivate, disable or enable.                                          *)
Frame(t) ==
  /\ program' = program
  /\ \A s \in Threads \ {t} : pc'[s] = pc[s] /\ hand'[s] = hand[s] /\ why'[s] = why[s]
Same == epoch' = epoch /\ tickets' = tickets /\ hand' = hand

Aside(t) ==
  /\ Frame(t) /\ Same /\ state' = state
  /\ ~ Holding(t) /\ pc'[t] \in Steps \ ({"retire", "epoch"} \cup Carrying \cup Claimed)
TakesUp(t) ==
  /\ Frame(t) /\ Same /\ pc'[t] = "epoch" /\ state' = "ready"
  /\ \/ ~ Holding(t) /\ state \in {"dormant", "completed", "waiting"}
     \/ pc[t] \in Claimed /\ state = "running"
GoesOn(t) == Frame(t) /\ Same /\ state' = state /\ pc[t] \in Claimed /\ pc'[t] \in Claimed
LetsGo(t) ==
  /\ Frame(t) /\ Same /\ Holding(t)
  /\ pc'[t] \in Steps \ ({"retire", "epoch"} \cup Carrying \cup Claimed)
  /\ \/ state' \in {"dormant", "waiting", "completed", "faulted"}
     \/ state' = state /\ (state = "ready" => pc[t] = "rearm")
Enables(t) ==
  /\ Frame(t) /\ Same /\ ~ Holding(t) /\ pc'[t] = "unfault"
  /\ "enable" \in Made /\ state \in {"disabled", "faulted"} /\ state' = "dormant"

StepOf(t) ==
  \/ Aside(t) \/ TakesUp(t) \/ GoesOn(t) \/ LetsGo(t) \/ Enables(t)
  \/ NextEpoch(t) \/ Route(t)
  \/ t \in Workers /\ (Take(t) \/ Check(t) \/ Claim(t))
  \/ t \in Clients /\ (Deactivate(t) \/ DeactivateEpoch(t) \/ Disable(t))

LEMMA ClientStep ==
  ASSUME Types, NEW c \in Clients, Client(c)
  PROVE  StepOf(c)
<1> USE DEF Types, TypeOK, States, Threads, Goto, Call, RouteFor, Swap, node, count, body,
            Frame, Same, Holding, Carrying, Claimed, Steps, Made
<1>1. Activate(c) => Aside(c)
  BY DEF Activate, Aside
<1>2. ActivateSwap(c) => TakesUp(c)
  BY DEF ActivateSwap, TakesUp
<1>3. ActivateOverlap(c) => Aside(c)
  BY DEF ActivateOverlap, Aside
<1>4. ActivateRefused(c) => Aside(c)
  BY DEF ActivateRefused, Aside
<1>5. QueuePending(c) => Aside(c)
  BY DEF QueuePending, Aside
<1>6. Enable(c) => Enables(c)
  BY DEF Enable, Enables
<1>7. EnableFlag(c) => Aside(c)
  BY DEF EnableFlag, Aside
<1>8. Cancel(c) => Aside(c)
  BY DEF Cancel, Aside
<1>9. Signal(c) => Aside(c)
  BY DEF Signal, Aside
<1>10. QED
  BY <1>1, <1>2, <1>3, <1>4, <1>5, <1>6, <1>7, <1>8, <1>9
  DEF Client, StepOf

LEMMA MovingStep ==
  ASSUME Types, NEW t \in Threads, Moving(t)
  PROVE  StepOf(t)
<1> USE DEF Types, TypeOK, States, Threads, Goto, Call, RouteFor, Swap, node, count, body,
            Frame, Same, Holding, Carrying, Claimed, Steps, Made
<1>1. RouteFull(t) => LetsGo(t)
  BY DEF RouteFull, LetsGo
<1>2. CountActivation(t) => Aside(t)
  BY DEF CountActivation, Aside
<1>3. Wake(t) => TakesUp(t)
  BY DEF Wake, TakesUp
<1>4. WakeMissed(t) => Aside(t)
  BY DEF WakeMissed, Aside
<1>5. WakeLook(t) => Aside(t)
  BY DEF WakeLook, Aside
<1>6. WakeNote(t) => Aside(t)
  BY DEF WakeNote, Aside
<1>7. QED
  BY <1>1, <1>2, <1>3, <1>4, <1>5, <1>6
  DEF Moving, Waking, Dispatch, StepOf

LEMMA WorkerStep ==
  ASSUME Types, NEW w \in Workers, Worker(w)
  PROVE  StepOf(w)
<1> USE DEF Types, TypeOK, States, Threads, Goto, Call, RouteFor, Swap, node, count, body,
            Frame, Same, Holding, Carrying, Claimed, Steps, Made
<1>1. ClaimLost(w) => LetsGo(w)
  BY DEF ClaimLost, LetsGo
<1>2. BodyReturn(w) => GoesOn(w)
  BY DEF BodyReturn, GoesOn
<1>3. BodyFail(w) => GoesOn(w)
  BY DEF BodyFail, GoesOn
<1>4. BodyAwait(w) => GoesOn(w)
  BY DEF BodyAwait, GoesOn
<1>5. SuspendCancelled(w) => GoesOn(w)
  BY DEF SuspendCancelled, GoesOn
<1>6. SuspendCheck(w) => GoesOn(w)
  BY DEF SuspendCheck, GoesOn
<1>7. SuspendPark(w) => LetsGo(w)
  BY DEF SuspendPark, LetsGo
<1>8. SuspendRecheck(w) => Aside(w)
  BY DEF SuspendRecheck, Aside
<1>9. Rearm(w) => TakesUp(w)
  BY DEF Rearm, TakesUp
<1>10. RearmFailed(w) => LetsGo(w)
  BY DEF RearmFailed, LetsGo
<1>11. FinishFault(w) => LetsGo(w)
  BY DEF FinishFault, LetsGo
<1>12. FinishAgain(w) => GoesOn(w)
  BY DEF FinishAgain, GoesOn
<1>13. FinishCheck(w) => GoesOn(w)
  BY DEF FinishCheck, GoesOn
<1>14. FinishComplete(w) => LetsGo(w)
  BY DEF FinishComplete, LetsGo
<1>15. QED
  BY <1>1, <1>2, <1>3, <1>4, <1>5, <1>6, <1>7, <1>8, <1>9, <1>10, <1>11, <1>12,
     <1>13, <1>14
  DEF Worker, Suspend, Finish, StepOf

LEMMA StepKind ==
  ASSUME Types, Next
  PROVE  \E t \in Threads : StepOf(t)
BY ClientStep, MovingStep, WorkerStep DEF Next, Threads

-----------------------------------------------------------------------------
(* Epochs: the next one is new to everybody, and a ticket is handed on.    *)

LEMMA EpochsQuiet ==
  ASSUME EpochsOK, Types, Types', Same,
         \A t \in Threads : pc'[t] \in Carrying => pc[t] \in Carrying
  PROVE  EpochsOK'
BY DEF EpochsOK, Same

LEMMA EpochsStep ==
  ASSUME Types, Types', EpochsOK, NEW t \in Threads, StepOf(t)
  PROVE  EpochsOK'
<1>1. /\ epoch \in Nat /\ pc \in [Threads -> Steps] /\ hand \in [Threads -> Nat]
      /\ TicketEpochs \in Nat /\ tickets \subseteq Nat
  BY DEF Types, TypeOK, NodeAssumption
<1>2. CASE Aside(t) \/ TakesUp(t) \/ GoesOn(t) \/ LetsGo(t) \/ Enables(t)
  BY <1>2, EpochsQuiet DEF Aside, TakesUp, GoesOn, LetsGo, Enables, Frame, Carrying, Claimed
<1>3. CASE Check(t) \/ Claim(t) \/ (t \in Clients /\ (Deactivate(t) \/ Disable(t)))
  <2>1. Same /\ \A s \in Threads : pc'[s] \in Carrying => pc[s] \in Carrying
    BY <1>1, <1>3 DEF Check, Claim, Deactivate, Disable, Goto, Call, Swap, Same, Carrying,
       node, count, body
  <2>2. QED
    BY <2>1, EpochsQuiet
<1>4. CASE t \in Clients /\ DeactivateEpoch(t)
  <2>1. /\ epoch' = epoch + 1 /\ tickets' = tickets /\ hand' = hand
        /\ \A s \in Threads : pc'[s] \in Carrying => pc[s] \in Carrying
    BY <1>1, <1>4 DEF DeactivateEpoch, Goto, Carrying
  <2>2. epoch' < TicketEpochs => epoch < TicketEpochs
    BY <1>1, <2>1
  <2>3. \A s \in Threads : hand[s] <= epoch => hand[s] <= epoch + 1
    BY <1>1
  <2>4. 0..epoch \subseteq 0..(epoch + 1)
    BY <1>1
  <2>5. QED
    BY <2>1, <2>2, <2>3, <2>4 DEF EpochsOK
<1>5. CASE NextEpoch(t)
  <2>1. /\ epoch' = epoch + 1 /\ tickets' = tickets /\ hand' = [hand EXCEPT ![t] = epoch + 1]
        /\ \A s \in Threads \ {t} : pc'[s] = pc[s]
    BY <1>1, <1>5 DEF NextEpoch, Goto
  <2>2. /\ epoch' < TicketEpochs => epoch < TicketEpochs
        /\ \A s \in Threads : hand[s] <= epoch => hand[s] <= epoch + 1 /\ hand[s] # epoch + 1
        /\ 0..epoch \subseteq 0..(epoch + 1) /\ epoch + 1 \notin 0..epoch /\ epoch + 1 <= epoch + 1
    BY <1>1, <2>1
  <2>3. hand'[t] = epoch + 1 /\ \A s \in Threads \ {t} : hand'[s] = hand[s]
    BY <1>1, <2>1
  <2>4. \A s \in Threads : pc'[s] \in Carrying => hand'[s] <= epoch'
    BY <2>1, <2>2, <2>3 DEF EpochsOK
  <2>5. ASSUME epoch' < TicketEpochs PROVE tickets' \subseteq 0..epoch' /\ epoch < TicketEpochs /\ epoch + 1 \notin tickets
    BY <2>1, <2>2, <2>5 DEF EpochsOK
  <2>6. QED
    BY <2>1, <2>2, <2>3, <2>4, <2>5 DEF EpochsOK
<1>6. CASE Route(t)
  <2>1. /\ epoch' = epoch /\ hand' = hand /\ tickets' = tickets \cup {Ticket(hand[t])}
        /\ pc[t] \in Carrying /\ pc'[t] \notin Carrying
        /\ \A s \in Threads \ {t} : pc'[s] = pc[s]
    BY <1>1, <1>6 DEF Route, Goto, node, Carrying
  <2>2. epoch < TicketEpochs => Ticket(hand[t]) = hand[t] /\ hand[t] \in 0..epoch
    BY <1>1, <2>1, TicketTyped DEF EpochsOK, Types
  <2>3. QED
    BY <2>1, <2>2 DEF EpochsOK
<1>7. CASE Take(t)
  <2>1. PICK e \in tickets : tickets' = tickets \ {e} /\ hand' = [hand EXCEPT ![t] = e]
    BY <1>7 DEF Take
  <2>2. epoch' = epoch /\ \A s \in Threads \ {t} : pc'[s] = pc[s]
    BY <1>1, <1>7 DEF Take, Goto, node
  <2>3. hand'[t] = e /\ \A s \in Threads \ {t} : hand'[s] = hand[s]
    BY <1>1, <2>1
  <2>4. e <= epoch
    <3>1. e \in 0..(TicketEpochs - 1)
      BY DEF Types, TypeOK
    <3>2. QED
      BY <1>1, <3>1 DEF EpochsOK
  <2>5. QED
    BY <2>1, <2>2, <2>3, <2>4 DEF EpochsOK
<1>8. QED
  BY <1>2, <1>3, <1>4, <1>5, <1>6, <1>7 DEF StepOf

(* What was ready stays on its way.                                        *)
LEMMA RoutedStep ==
  ASSUME Types, Types', RoutedOK, NEW t \in Threads, StepOf(t)
  PROVE  RoutedOK'
<1>1. /\ epoch \in Nat /\ pc \in [Threads -> Steps] /\ hand \in [Threads -> Nat]
      /\ TicketEpochs \in Nat /\ \A s \in Threads : s \in Clients \/ s \in Workers
  BY DEF Types, TypeOK, NodeAssumption, Threads
<1>2. Made' = Made
  <2>1. program' = program
    BY DEF StepOf, Aside, TakesUp, GoesOn, LetsGo, Enables, Frame, NextEpoch, Route, Take,
       Check, Claim,
           Deactivate, DeactivateEpoch, Disable, body
  <2>2. QED
    BY <2>1 DEF Made
<1>3. ASSUME "deactivate" \notin Made
      PROVE  /\ \A s \in Threads : pc'[s] # "retire"
             /\ ~ (t \in Clients /\ (Deactivate(t) \/ DeactivateEpoch(t)))
  <2>1. \A s \in Threads : pc[s] # "retire"
    BY <1>3 DEF RoutedOK
  <2>2. ~ (t \in Clients /\ (Deactivate(t) \/ DeactivateEpoch(t)))
    BY <1>3, <2>1 DEF Deactivate, DeactivateEpoch, Made, Call, Goto
  <2>3. QED
    BY <1>1, <2>1, <2>2 DEF StepOf, Aside, TakesUp, GoesOn, LetsGo, Enables, Frame, NextEpoch,
       Route, Take, Check,
           Claim, Disable, Goto, Call, Claimed
<1>4. ASSUME "deactivate" \notin Made, epoch' < TicketEpochs, state' = "ready" PROVE ReadyIsRouted'
  <2>1. epoch < TicketEpochs => ReadyIsRouted
    BY DEF RoutedOK
  <2>2. CASE TakesUp(t)
    BY <2>2 DEF TakesUp, ReadyIsRouted
  <2>3. CASE NextEpoch(t)
    BY <1>1, <2>3 DEF NextEpoch, Goto, ReadyIsRouted
  <2>4. CASE ~ NextEpoch(t) /\ ~ TakesUp(t)
    <3>1. epoch' = epoch /\ state = "ready"
      BY <1>3, <1>4, <2>4 DEF StepOf, Aside, GoesOn, LetsGo, Enables, Same, Route, Take, Check,
         Claim, Swap,
             Disable, node
    <3>2. ReadyIsRouted
      BY <1>4, <2>1, <3>1
    <3>3. \/ Ticket(epoch) \in tickets
          \/ \E s \in Threads : pc[s] = "epoch"
          \/ \E s \in Threads : pc[s] = "route" /\ hand[s] = epoch
          \/ \E w \in Workers : pc[w] \in {"check", "claim"} /\ hand[w] = Ticket(epoch)
      BY <1>4, <3>1, <3>2 DEF ReadyIsRouted
    <3>4. CASE Aside(t) \/ GoesOn(t) \/ LetsGo(t)
      BY <1>1, <1>4, <3>1, <3>3, <3>4
         DEF Aside, GoesOn, LetsGo, Frame, Same, Holding, Carrying, Claimed, ReadyIsRouted, Threads
    <3>5. CASE Route(t)
      BY <1>1, <3>1, <3>3, <3>5 DEF Route, Goto, ReadyIsRouted, Threads
    <3>6. CASE t \in Workers /\ Take(t)
      <4>1. PICK e \in tickets : tickets' = tickets \ {e} /\ hand' = [hand EXCEPT ![t] = e]
        BY <3>6 DEF Take
      <4>2. pc[t] = "idle" /\ pc' = [pc EXCEPT ![t] = "check"]
        BY <3>6 DEF Take, Goto
      <4>3. QED
        BY <1>1, <3>1, <3>3, <3>6, <4>1, <4>2 DEF ReadyIsRouted, Threads
    <3>7. CASE Check(t)
      <4>1. Ticket(epoch) = epoch
        BY <1>1, <1>4, <3>1, TicketTyped DEF Types
      <4>2. QED
        BY <1>1, <3>1, <3>3, <3>7, <4>1 DEF Check, Goto, ReadyIsRouted, Threads
    <3>8. QED
      BY <1>3, <1>4, <2>4, <3>4, <3>5, <3>6, <3>7 DEF StepOf, Enables, Claim, Swap, Disable
  <2>5. QED
    BY <2>2, <2>3, <2>4
<1>5. QED
  BY <1>2, <1>3, <1>4 DEF RoutedOK, ReadyIsRouted

-----------------------------------------------------------------------------
(* The node, if it is not taken back: only the thread that has it moves    *)
(* it, and a thread takes it up where nobody has it.                       *)

LEMMA MadeStays ==
  ASSUME NEW t \in Threads, StepOf(t)
  PROVE  program' = program /\ Made' = Made /\ TakesBack' = TakesBack
<1>1. program' = program
  BY DEF StepOf, Aside, TakesUp, GoesOn, LetsGo, Enables, Frame, NextEpoch, Route, Take, Check,
     Claim,
         Deactivate, DeactivateEpoch, Disable, body
<1>2. QED
  BY <1>1 DEF Made, TakesBack

(* The steps there are where nobody deactivates.                           *)
LEMMA NotTakenBack ==
  ASSUME Types, RoutedOK, ~ TakesBack, NEW t \in Threads, StepOf(t)
  PROVE  \/ Aside(t) \/ TakesUp(t) \/ GoesOn(t) \/ LetsGo(t) \/ Enables(t)
         \/ NextEpoch(t) \/ Route(t) \/ Take(t) \/ Check(t) \/ Claim(t)
         \/ t \in Clients /\ Disable(t)
<1>1. "deactivate" \notin Made
  BY DEF TakesBack
<1>2. \A s \in Threads : pc[s] # "retire"
  BY <1>1 DEF RoutedOK
<1>3. ~ (t \in Clients /\ (Deactivate(t) \/ DeactivateEpoch(t)))
  BY <1>1, <1>2 DEF Deactivate, DeactivateEpoch, Made, Call, Goto
<1>4. QED
  BY <1>3 DEF StepOf

LEMMA HeldStep ==
  ASSUME Types, Types', RoutedOK, HeldOK, NEW t \in Threads, StepOf(t)
  PROVE  HeldOK'
<1> SUFFICES ASSUME ~ TakesBack' PROVE HeldOK'
  BY DEF HeldOK
<1>1. ~ TakesBack /\ Made' = Made
  BY MadeStays
<1>2. /\ "disable" \notin Made => state # "disabled"
      /\ \A r, s \in Threads : Holding(r) /\ Holding(s) => r = s
      /\ \A s \in Threads : /\ Holding(s) => tickets = {}
                            /\ pc[s] \in Claimed => state \in {"running", "disabled"}
                            /\ Holding(s) /\ pc[s] \notin Claimed => state \in {"ready", "disabled"}
      /\ tickets # {} => state \in {"ready", "disabled"}
      /\ \A d, e \in tickets : d = e
  BY <1>1 DEF HeldOK
<1>3. pc \in [Threads -> Steps]
  BY DEF Types
<1>3a. "disable" \notin Made' => state' # "disabled"
  <2>1. "disable" \notin Made => ~ (t \in Clients /\ Disable(t))
    BY DEF Disable, Call, Made
  <2>2. QED
    BY <1>1, <1>2, <2>1, NotTakenBack DEF Aside, TakesUp, GoesOn, LetsGo, Enables, NextEpoch,
       Route, Take, Check,
           Claim, Swap, node
<1>4. CASE Aside(t)
  <2>1. \A s \in Threads : (Holding(s)' <=> Holding(s)) /\ (pc'[s] \in Claimed <=> pc[s] \in Claimed)
    BY <1>4 DEF Aside, Frame, Holding, Claimed, Carrying
  <2>2. QED
    BY <1>3a, <1>2, <1>4, <2>1 DEF Aside, Same, HeldOK
<1>5. CASE TakesUp(t)
  <2>1. ~ (\E s \in Threads : Holding(s) /\ s # t) /\ tickets = {}
    BY <1>2, <1>5 DEF TakesUp, Holding
  <2>2. /\ \A s \in Threads \ {t} : ~ Holding(s)' /\ pc'[s] \notin Claimed
        /\ pc'[t] \notin Claimed /\ Holding(t)'
    BY <1>5, <2>1 DEF TakesUp, Frame, Holding, Claimed
  <2>3. QED
    BY <1>3a, <1>5, <2>1, <2>2 DEF TakesUp, Same, HeldOK
<1>6. CASE GoesOn(t)
  <2>1. \A s \in Threads : (Holding(s)' <=> Holding(s)) /\ (pc'[s] \in Claimed <=> pc[s] \in Claimed)
    BY <1>6 DEF GoesOn, Frame, Holding
  <2>2. QED
    BY <1>3a, <1>2, <1>6, <2>1 DEF GoesOn, Same, HeldOK
<1>7. CASE LetsGo(t)
  <2>1. ~ (\E s \in Threads : Holding(s) /\ s # t) /\ tickets = {}
    BY <1>2, <1>7 DEF LetsGo
  <2>2. \A s \in Threads : ~ Holding(s)' /\ pc'[s] \notin Claimed
    BY <1>7, <2>1 DEF LetsGo, Frame, Holding, Claimed, Carrying
  <2>3. QED
    BY <1>3a, <1>7, <2>1, <2>2 DEF LetsGo, Same, HeldOK
<1>8. CASE Enables(t)
  <2>1. ~ (\E s \in Threads : Holding(s)) /\ tickets = {}
    BY <1>1, <1>2, <1>8 DEF Enables, Holding, TakesBack
  <2>2. \A s \in Threads : ~ Holding(s)' /\ pc'[s] \notin Claimed
    BY <1>8, <2>1 DEF Enables, Frame, Holding, Claimed, Carrying
  <2>3. QED
    BY <1>3a, <1>8, <2>1, <2>2 DEF Enables, Same, HeldOK
<1>9. CASE NextEpoch(t) \/ Route(t)
  <2>1. Holding(t) /\ state' = state /\ state \in {"ready", "disabled"} /\ tickets = {}
    BY <1>2, <1>9 DEF NextEpoch, Route, Goto, Holding, Carrying, Claimed, node
  <2>2. \A s \in Threads \ {t} : ~ Holding(s)' /\ pc'[s] \notin Claimed
    BY <1>2, <1>3, <1>9, <2>1 DEF NextEpoch, Route, Goto, Holding, Claimed
  <2>3. pc'[t] \notin Claimed /\ (Route(t) => ~ Holding(t)') /\ (NextEpoch(t) => tickets' = {})
    BY <1>3, <1>9, <2>1 DEF NextEpoch, Route, Goto, Holding, Claimed, Carrying
  <2>4. \A d, e \in tickets' : d = e
    BY <1>9, <2>1 DEF NextEpoch, Route
  <2>5. QED
    BY <1>3a, <1>9, <2>1, <2>2, <2>3, <2>4 DEF HeldOK
<1>10. CASE Take(t)
  <2>1. /\ tickets # {} /\ tickets' = {} /\ state' = state /\ state \in {"ready", "disabled"}
    BY <1>2, <1>10 DEF Take, node
  <2>2. \A s \in Threads \ {t} : ~ Holding(s)' /\ pc'[s] \notin Claimed
    BY <1>2, <1>3, <1>10, <2>1 DEF Take, Goto, Holding, Claimed
  <2>3. pc'[t] \notin Claimed
    BY <1>3, <1>10 DEF Take, Goto, Claimed
  <2>4. QED
    BY <1>3a, <2>1, <2>2, <2>3 DEF HeldOK
<1>11. CASE Check(t)
  <2>1. Holding(t) /\ state' = state /\ state \in {"ready", "disabled"} /\ tickets = {} /\ tickets' = tickets
    BY <1>2, <1>11 DEF Check, Goto, Holding, Carrying, Claimed, node
  <2>2. \A s \in Threads \ {t} : ~ Holding(s)' /\ pc'[s] \notin Claimed
    BY <1>2, <1>3, <1>11, <2>1 DEF Check, Goto, Holding, Claimed
  <2>3. pc'[t] \notin Claimed
    BY <1>3, <1>11 DEF Check, Goto, Claimed
  <2>4. QED
    BY <1>3a, <2>1, <2>2, <2>3 DEF HeldOK
<1>12. CASE Claim(t)
  <2>1. Holding(t) /\ state' = "running" /\ tickets = {} /\ tickets' = tickets
    BY <1>2, <1>12 DEF Claim, Goto, Swap, Holding, Carrying
  <2>2. \A s \in Threads \ {t} : ~ Holding(s)' /\ pc'[s] \notin Claimed
    BY <1>2, <1>3, <1>12, <2>1 DEF Claim, Goto, Holding, Claimed
  <2>3. pc'[t] \in Claimed
    BY <1>3, <1>12 DEF Claim, Goto, Claimed
  <2>4. QED
    BY <1>3a, <2>1, <2>2, <2>3 DEF HeldOK
<1>13. CASE t \in Clients /\ Disable(t)
  <2>1. state' = "disabled" /\ tickets' = tickets /\ pc' = pc
    BY <1>3, <1>13 DEF Disable, Call, Goto, Threads
  <2>2. QED
    BY <1>2, <1>3a, <2>1 DEF HeldOK, Holding
<1>14. QED
  BY <1>1, <1>4, <1>5, <1>6, <1>7, <1>8, <1>9, <1>10, <1>11, <1>12, <1>13, NotTakenBack

-----------------------------------------------------------------------------
(* What is routed for. *)

LEMMA WhyStep ==
  ASSUME Types, WhyOK, Next
  PROVE  WhyOK'
<1> USE DEF Types, TypeOK, NodeAssumption, WhyOK, Made, Goto, Call, RouteFor,
           Swap, node, count, body, Threads
<1>1. ASSUME NEW c \in Clients, Client(c) PROVE WhyOK'
  <2>1. CASE Activate(c)
    BY <2>1 DEF Activate
  <2>2. CASE ActivateSwap(c)
    BY <2>2 DEF ActivateSwap
  <2>3. CASE ActivateOverlap(c)
    BY <2>3 DEF ActivateOverlap
  <2>4. CASE ActivateRefused(c)
    BY <2>4 DEF ActivateRefused
  <2>5. CASE QueuePending(c)
    BY <2>5 DEF QueuePending
  <2>6. CASE Deactivate(c)
    BY <2>6 DEF Deactivate
  <2>7. CASE DeactivateEpoch(c)
    BY <2>7 DEF DeactivateEpoch
  <2>8. CASE Disable(c)
    BY <2>8 DEF Disable
  <2>9. CASE Enable(c)
    BY <2>9 DEF Enable
  <2>10. CASE EnableFlag(c)
    BY <2>10 DEF EnableFlag
  <2>11. CASE Cancel(c)
    BY <2>11 DEF Cancel
  <2>12. CASE Signal(c)
    BY <2>12 DEF Signal
  <2>13. QED
    BY <1>1, <2>1, <2>2, <2>3, <2>4, <2>5, <2>6, <2>7, <2>8, <2>9, <2>10, <2>11, <2>12
       DEF Client
<1>2. ASSUME NEW t \in Threads, Moving(t) PROVE WhyOK'
  <2>1. CASE NextEpoch(t)
    BY <2>1 DEF NextEpoch
  <2>2. CASE Route(t)
    BY <2>2 DEF Route
  <2>3. CASE RouteFull(t)
    BY <2>3 DEF RouteFull
  <2>4. CASE CountActivation(t)
    BY <2>4 DEF CountActivation
  <2>5. CASE Wake(t)
    BY <2>5 DEF Wake
  <2>6. CASE WakeMissed(t)
    BY <2>6 DEF WakeMissed
  <2>7. CASE WakeLook(t)
    BY <2>7 DEF WakeLook
  <2>8. CASE WakeNote(t)
    BY <2>8 DEF WakeNote
  <2>9. QED
    BY <1>2, <2>1, <2>2, <2>3, <2>4, <2>5, <2>6, <2>7, <2>8 DEF Moving, Waking, Dispatch
<1>3. ASSUME NEW w \in Workers, Worker(w) PROVE WhyOK'
  <2>1. CASE Take(w)
    BY <2>1 DEF Take
  <2>2. CASE Check(w)
    BY <2>2 DEF Check
  <2>3. CASE Claim(w)
    BY <2>3 DEF Claim
  <2>4. CASE ClaimLost(w)
    BY <2>4 DEF ClaimLost
  <2>5. CASE BodyReturn(w)
    BY <2>5 DEF BodyReturn
  <2>6. CASE BodyFail(w)
    BY <2>6 DEF BodyFail
  <2>7. CASE BodyAwait(w)
    BY <2>7 DEF BodyAwait
  <2>8. CASE SuspendCancelled(w)
    BY <2>8 DEF SuspendCancelled
  <2>9. CASE SuspendCheck(w)
    BY <2>9 DEF SuspendCheck
  <2>10. CASE SuspendPark(w)
    BY <2>10 DEF SuspendPark
  <2>11. CASE SuspendRecheck(w)
    BY <2>11 DEF SuspendRecheck
  <2>12. CASE Rearm(w)
    BY <2>12 DEF Rearm
  <2>13. CASE RearmFailed(w)
    BY <2>13 DEF RearmFailed
  <2>14. CASE FinishFault(w)
    BY <2>14 DEF FinishFault
  <2>15. CASE FinishAgain(w)
    BY <2>15 DEF FinishAgain
  <2>16. CASE FinishCheck(w)
    BY <2>16 DEF FinishCheck
  <2>17. CASE FinishComplete(w)
    BY <2>17 DEF FinishComplete
  <2>18. QED
    BY <1>3, <2>1, <2>2, <2>3, <2>4, <2>5, <2>6, <2>7, <2>8, <2>9, <2>10, <2>11, <2>12, <2>13,
       <2>14, <2>15, <2>16, <2>17 DEF Worker, Suspend, Finish
<1>4. QED
  BY <1>1, <1>2, <1>3 DEF Next

-----------------------------------------------------------------------------
(* Counts *)

(* A step counts nothing and ends no activation that is under way, or      *)
(* counts a completion, or routes or counts an activation, or its ticket   *)
(* is refused.                                                             *)
SameCounting == \A t \in Threads : pc'[t] = "count" <=> pc[t] = "count"
Uncounted == UNCHANGED count /\ (Begun => Begun') /\ SameCounting
Completed ==
  activations' = activations /\ completions' = completions + 1 /\ lost' = lost /\ SameCounting
Counted ==
  \/ Uncounted \/ Completed
  \/ \E t \in Threads : Route(t) \/ RouteFull(t) \/ CountActivation(t)

LEMMA CountedStep ==
  ASSUME Types, WhyOK, HeldOK, {"queue", "deactivate", "disable"} \cap Made = {}, Next
  PROVE  Counted
<1> USE DEF Types, TypeOK, Counted, Uncounted, Completed, SameCounting, Begun,
           WhyOK, HeldOK, Holding, Carrying, Claimed, Made, Goto, Call,
           RouteFor, Swap, node, count, body, Threads
<1>1. ASSUME NEW c \in Clients, Client(c) PROVE Counted
  <2>1. CASE Activate(c)
    BY <2>1 DEF Activate
  <2>2. CASE ActivateSwap(c)
    BY <2>2 DEF ActivateSwap
  <2>3. CASE ActivateOverlap(c)
    BY <2>3 DEF ActivateOverlap
  <2>4. CASE ActivateRefused(c)
    BY <2>4 DEF ActivateRefused
  <2>5. CASE QueuePending(c)
    BY <2>5 DEF QueuePending
  <2>6. CASE Deactivate(c)
    BY <2>6 DEF Deactivate, TakesBack
  <2>7. CASE DeactivateEpoch(c)
    BY <2>7 DEF DeactivateEpoch
  <2>8. CASE Disable(c)
    BY <2>8 DEF Disable
  <2>9. CASE Enable(c)
    BY <2>9 DEF Enable
  <2>10. CASE EnableFlag(c)
    BY <2>10 DEF EnableFlag
  <2>11. CASE Cancel(c)
    BY <2>11 DEF Cancel
  <2>12. CASE Signal(c)
    BY <2>12 DEF Signal
  <2>13. QED
    BY <1>1, <2>1, <2>2, <2>3, <2>4, <2>5, <2>6, <2>7, <2>8, <2>9, <2>10, <2>11, <2>12
       DEF Client
<1>2. ASSUME NEW t \in Threads, Moving(t) PROVE Counted
  <2>1. CASE NextEpoch(t)
    BY <2>1 DEF NextEpoch
  <2>2. CASE Route(t)
    BY <2>2 DEF Counted
  <2>3. CASE RouteFull(t)
    BY <2>3 DEF Counted
  <2>4. CASE CountActivation(t)
    BY <2>4 DEF Counted
  <2>5. CASE Wake(t)
    BY <2>5 DEF Wake
  <2>6. CASE WakeMissed(t)
    BY <2>6 DEF WakeMissed
  <2>7. CASE WakeLook(t)
    BY <2>7 DEF WakeLook
  <2>8. CASE WakeNote(t)
    BY <2>8 DEF WakeNote
  <2>9. QED
    BY <1>2, <2>1, <2>2, <2>3, <2>4, <2>5, <2>6, <2>7, <2>8 DEF Moving, Waking, Dispatch
<1>3. ASSUME NEW w \in Workers, Worker(w) PROVE Counted
  <2>1. CASE Take(w)
    BY <2>1 DEF Take
  <2>2. CASE Check(w)
    BY <2>2 DEF Check
  <2>3. CASE Claim(w)
    BY <2>3 DEF Claim
  <2>4. CASE ClaimLost(w)
    BY <2>4 DEF ClaimLost
  <2>5. CASE BodyReturn(w)
    BY <2>5 DEF BodyReturn
  <2>6. CASE BodyFail(w)
    BY <2>6 DEF BodyFail
  <2>7. CASE BodyAwait(w)
    BY <2>7 DEF BodyAwait
  <2>8. CASE SuspendCancelled(w)
    BY <2>8 DEF SuspendCancelled
  <2>9. CASE SuspendCheck(w)
    BY <2>9 DEF SuspendCheck
  <2>10. CASE SuspendPark(w)
    BY <2>10 DEF SuspendPark
  <2>11. CASE SuspendRecheck(w)
    BY <2>11 DEF SuspendRecheck
  <2>12. CASE Rearm(w)
    BY <2>12 DEF Rearm
  <2>13. CASE RearmFailed(w)
    BY <2>13 DEF RearmFailed
  <2>14. CASE FinishFault(w)
    BY <2>14 DEF FinishFault
  <2>15. CASE FinishAgain(w)
    BY <2>15 DEF FinishAgain
  <2>16. CASE FinishCheck(w)
    BY <2>16 DEF FinishCheck
  <2>17. CASE FinishComplete(w)
    BY <2>17 DEF FinishComplete
  <2>18. QED
    BY <1>3, <2>1, <2>2, <2>3, <2>4, <2>5, <2>6, <2>7, <2>8, <2>9, <2>10, <2>11, <2>12, <2>13,
       <2>14, <2>15, <2>16, <2>17 DEF Worker, Suspend, Finish
<1>4. QED
  BY <1>1, <1>2, <1>3 DEF Next

LEMMA CountsStep ==
  ASSUME Types, Types', WhyOK, HeldOK, CountsOK, Next,
         Made' = Made
  PROVE  CountsOK'
<1> SUFFICES ASSUME {"queue", "deactivate", "disable"} \cap Made = {}
             PROVE  activations' + Cardinality(Counting') <= completions' + lost' + (IF Begun' THEN 1 ELSE 0)
  BY DEF CountsOK
<1>1. activations + Cardinality(Counting) <= completions + lost + (IF Begun THEN 1 ELSE 0)
  BY DEF CountsOK
<1>2. /\ IsFiniteSet(Threads) /\ IsFiniteSet(Counting) /\ Cardinality(Counting) \in Nat
      /\ pc \in [Threads -> Steps] /\ activations \in Nat /\ completions \in Nat
      /\ lost \in Nat /\ activations' \in Nat /\ completions' \in Nat /\ lost' \in Nat
  <2>1. IsFiniteSet(Threads)
    BY FS_Union DEF Types, NodeAssumption, Threads
  <2>2. Counting \subseteq Threads
    BY DEF Counting
  <2>3. IsFiniteSet(Counting)
    BY <2>1, <2>2, FS_Subset
  <2>4. QED
    BY <2>1, <2>3, FS_CardinalityType DEF Types
<1>3. Counted
  BY CountedStep
<1>4. SameCounting => Counting' = Counting
  BY DEF SameCounting, Counting, Threads
<1>5. CASE Uncounted
  BY <1>1, <1>2, <1>4, <1>5 DEF Uncounted, count
<1>6. CASE Completed
  BY <1>1, <1>2, <1>4, <1>6 DEF Completed
<1>7. ASSUME NEW t \in Threads, CountActivation(t)
      PROVE  activations' + Cardinality(Counting') <= completions' + lost' + (IF Begun' THEN 1 ELSE 0)
  <2>1. Counting' = Counting \ {t} /\ t \in Counting
    BY <1>2, <1>7 DEF CountActivation, Goto, Counting, Threads
  <2>2. Cardinality(Counting') = Cardinality(Counting) - 1
    BY <1>2, <2>1, FS_RemoveElement
  <2>3. Begun => Begun'
    BY <1>2, <1>7 DEF CountActivation, Goto, Begun, node, Threads
  <2>4. activations' = activations + 1 /\ completions' = completions /\ lost' = lost
    BY <1>7 DEF CountActivation
  <2>5. QED
    BY <1>1, <1>2, <2>2, <2>3, <2>4
<1>8. ASSUME NEW t \in Threads, Route(t)
      PROVE  activations' + Cardinality(Counting') <= completions' + lost' + (IF Begun' THEN 1 ELSE 0)
  <2>1. /\ pc[t] = "route" /\ why[t] # "again" /\ activations' = activations /\ completions' = completions
        /\ lost' = lost /\ state' = state /\ why' = why
        /\ \A r \in Threads \ {t} : pc'[r] = pc[r]
    BY <1>2, <1>8 DEF Route, Goto, WhyOK, count, node
  <2>2. state = "ready" /\ \A r \in Threads \ {t} : pc'[r] \notin {"epoch", "route"}
    BY <1>2, <2>1 DEF HeldOK, Holding, Carrying, Claimed, TakesBack
  <2>3. Begun'
    BY <1>2, <1>8, <2>1, <2>2 DEF Begun, Route, Goto, Threads
  <2>4. CASE why[t] = "activate"
    <3>1. ~ Begun
      BY <2>1, <2>4 DEF Begun
    <3>2. t \notin Counting /\ Counting' = Counting \cup {t}
      BY <1>2, <1>8, <2>1, <2>4 DEF Route, Goto, Counting, Threads
    <3>3. Cardinality(Counting') = Cardinality(Counting) + 1
      BY <1>2, <3>2, FS_AddElement
    <3>4. QED
      BY <1>1, <1>2, <2>1, <2>3, <3>1, <3>3
  <2>5. CASE why[t] # "activate"
    <3>1. Counting' = Counting
      BY <1>2, <1>8, <2>1, <2>5 DEF Route, Goto, Counting, Threads
    <3>2. QED
      BY <1>1, <1>2, <2>1, <2>3, <3>1
  <2>6. QED
    BY <2>4, <2>5
<1>9. ASSUME NEW t \in Threads, RouteFull(t)
      PROVE  activations' + Cardinality(Counting') <= completions' + lost' + (IF Begun' THEN 1 ELSE 0)
  <2>1. /\ pc[t] = "route" /\ pc' = [pc EXCEPT ![t] = "idle"] /\ state' = "dormant"
        /\ activations' = activations /\ completions' = completions
        /\ lost' = IF why[t] = "activate" THEN lost ELSE lost + 1
    BY <1>9 DEF RouteFull, Lose, Goto
  <2>2. Counting' = Counting
    BY <1>2, <2>1 DEF Counting, Threads
  <2>3. why[t] = "activate" => ~ Begun
    BY <2>1 DEF Begun
  <2>4. ~ Begun'
    BY <2>1 DEF Begun
  <2>5. QED
    BY <1>1, <1>2, <2>1, <2>2, <2>3, <2>4
<1>10. QED
  BY <1>3, <1>5, <1>6, <1>7, <1>8, <1>9 DEF Counted

-----------------------------------------------------------------------------
(* Faults *)

LEMMA FaultsRealStep ==
  ASSUME Types, HeldOK, FaultsOK, ~ TakesBack, "enable" \notin Made, Next
  PROVE  FaultsReal'
<1> USE DEF Types, TypeOK, HeldOK, FaultsOK, FaultsReal, Holding, Carrying, Claimed, Made,
           Goto, Call, RouteFor, Swap, node, count, body, Threads
<1>1. ASSUME NEW c \in Clients, Client(c) PROVE FaultsReal'
  <2>1. CASE Activate(c)
    BY <2>1 DEF Activate
  <2>2. CASE ActivateSwap(c)
    BY <2>2 DEF ActivateSwap
  <2>3. CASE ActivateOverlap(c)
    BY <2>3 DEF ActivateOverlap
  <2>4. CASE ActivateRefused(c)
    BY <2>4 DEF ActivateRefused
  <2>5. CASE QueuePending(c)
    BY <2>5 DEF QueuePending
  <2>6. CASE Deactivate(c)
    BY <2>6 DEF Deactivate, TakesBack
  <2>7. CASE DeactivateEpoch(c)
    BY <2>7 DEF DeactivateEpoch
  <2>8. CASE Disable(c)
    BY <2>8 DEF Disable
  <2>9. CASE Enable(c)
    BY <2>9 DEF Enable
  <2>10. CASE EnableFlag(c)
    BY <2>10 DEF EnableFlag
  <2>11. CASE Cancel(c)
    BY <2>11 DEF Cancel
  <2>12. CASE Signal(c)
    BY <2>12 DEF Signal
  <2>13. QED
    BY <1>1, <2>1, <2>2, <2>3, <2>4, <2>5, <2>6, <2>7, <2>8, <2>9, <2>10, <2>11, <2>12
       DEF Client
<1>2. ASSUME NEW t \in Threads, Moving(t) PROVE FaultsReal'
  <2>1. CASE NextEpoch(t)
    BY <2>1 DEF NextEpoch
  <2>2. CASE Route(t)
    BY <2>2 DEF Route
  <2>3. CASE RouteFull(t)
    BY <2>3 DEF RouteFull
  <2>4. CASE CountActivation(t)
    BY <2>4 DEF CountActivation
  <2>5. CASE Wake(t)
    BY <2>5 DEF Wake
  <2>6. CASE WakeMissed(t)
    BY <2>6 DEF WakeMissed
  <2>7. CASE WakeLook(t)
    BY <2>7 DEF WakeLook
  <2>8. CASE WakeNote(t)
    BY <2>8 DEF WakeNote
  <2>9. QED
    BY <1>2, <2>1, <2>2, <2>3, <2>4, <2>5, <2>6, <2>7, <2>8 DEF Moving, Waking, Dispatch
<1>3. ASSUME NEW w \in Workers, Worker(w) PROVE FaultsReal'
  <2>1. CASE Take(w)
    BY <2>1 DEF Take
  <2>2. CASE Check(w)
    BY <2>2 DEF Check
  <2>3. CASE Claim(w)
    BY <2>3 DEF Claim
  <2>4. CASE ClaimLost(w)
    BY <2>4 DEF ClaimLost
  <2>5. CASE BodyReturn(w)
    BY <2>5 DEF BodyReturn
  <2>6. CASE BodyFail(w)
    BY <2>6 DEF BodyFail
  <2>7. CASE BodyAwait(w)
    BY <2>7 DEF BodyAwait
  <2>8. CASE SuspendCancelled(w)
    BY <2>8 DEF SuspendCancelled
  <2>9. CASE SuspendCheck(w)
    BY <2>9 DEF SuspendCheck
  <2>10. CASE SuspendPark(w)
    BY <2>10 DEF SuspendPark
  <2>11. CASE SuspendRecheck(w)
    BY <2>11 DEF SuspendRecheck
  <2>12. CASE Rearm(w)
    BY <2>12 DEF Rearm
  <2>13. CASE RearmFailed(w)
    BY <2>13 DEF RearmFailed
  <2>14. CASE FinishFault(w)
    BY <2>14 DEF FinishFault
  <2>15. CASE FinishAgain(w)
    BY <2>15 DEF FinishAgain
  <2>16. CASE FinishCheck(w)
    BY <2>16 DEF FinishCheck
  <2>17. CASE FinishComplete(w)
    BY <2>17 DEF FinishComplete
  <2>18. QED
    BY <1>3, <2>1, <2>2, <2>3, <2>4, <2>5, <2>6, <2>7, <2>8, <2>9, <2>10, <2>11, <2>12, <2>13,
       <2>14, <2>15, <2>16, <2>17 DEF Worker, Suspend, Finish
<1>4. QED
  BY <1>1, <1>2, <1>3 DEF Next

LEMMA FaultsStep ==
  ASSUME Types, HeldOK, FaultsOK, Next,
         Made' = Made, TakesBack' = TakesBack
  PROVE  FaultsOK'
BY FaultsRealStep DEF FaultsOK, FaultsReal

-----------------------------------------------------------------------------
(* The invariant *)

LEMMA InitInv ==
  ASSUME NodeAssumption, Init
  PROVE  IInv
<1>1. Types
  BY TypesInit
<1>2. pc = [t \in Threads |-> "idle"] /\ why = [t \in Threads |-> "activate"] /\ tickets = {}
  BY DEF Init
<1>3. EpochsOK
  BY <1>2 DEF EpochsOK, Carrying
<1>4. RoutedOK
  BY <1>2 DEF Init, RoutedOK, ReadyIsRouted
<1>5. WhyOK
  BY <1>2 DEF Init, WhyOK
<1>6. HeldOK
  BY <1>2 DEF Init, HeldOK, Holding, Carrying, Claimed
<1>7. CountsOK
  <2>1. Counting = {}
    BY <1>2 DEF Counting
  <2>2. Cardinality(Counting) = 0
    BY <2>1, FS_EmptySet
  <2>3. activations = 0 /\ completions = 0 /\ lost = 0
    BY DEF Init
  <2>4. QED
    BY <2>2, <2>3 DEF CountsOK
<1>8. FaultsOK
  BY DEF Init, FaultsOK, FaultsReal
<1>9. QED
  BY <1>1, <1>3, <1>4, <1>5, <1>6, <1>7, <1>8 DEF IInv

LEMMA StepInv ==
  ASSUME IInv, Next
  PROVE  IInv'
<1>1. Types'
  BY TypesClient, TypesMoving, TypesWorker DEF IInv, Next
<1>2. PICK t \in Threads : StepOf(t)
  BY StepKind DEF IInv
<1>3. Made' = Made /\ TakesBack' = TakesBack
  BY <1>2, MadeStays
<1>4. EpochsOK' /\ RoutedOK' /\ HeldOK'
  BY <1>1, <1>2, EpochsStep, RoutedStep, HeldStep DEF IInv
<1>5. WhyOK' /\ CountsOK' /\ FaultsOK'
  BY <1>1, <1>3, WhyStep, CountsStep, FaultsStep DEF IInv
<1>6. QED
  BY <1>1, <1>4, <1>5 DEF IInv

LEMMA StutterInv ==
  ASSUME IInv, UNCHANGED vars
  PROVE  IInv'
<1>1. Types'
  BY TypesStay DEF IInv
<1>2. EpochsOK' /\ RoutedOK' /\ WhyOK' /\ HeldOK' /\ CountsOK' /\ FaultsOK'
  BY DEF IInv, vars, EpochsOK, RoutedOK, ReadyIsRouted, WhyOK, HeldOK, Holding, TakesBack,
     Made, CountsOK,
         Counting, Begun, FaultsOK, FaultsReal
<1>3. QED
  BY <1>1, <1>2 DEF IInv

(* The inductive invariant: what the parts above say of epochs, tickets,   *)
(* threads and counters holds in every reachable state.                    *)
THEOREM InductiveInvariant ==
  ASSUME NodeAssumption
  PROVE  Spec => []IInv
<1>1. Init => IInv
  BY InitInv
<1>2. IInv /\ [Next]_vars => IInv'
  BY StepInv, StutterInv
<1>3. QED
  BY <1>1, <1>2, PTL DEF Spec

(* Every variable keeps its type, and the queues never hold more tickets   *)
(* than they have slots for: route_to refuses the ticket that would not    *)
(* fit.                                                                    *)
THEOREM TypeCorrect ==
  ASSUME NodeAssumption
  PROVE  Spec => []TypeOK
<1>1. IInv => TypeOK
  BY DEF IInv, Types
<1>2. QED
  BY <1>1, InductiveInvariant, PTL

(* execute: as long as nobody deactivates the node, or disables it and     *)
(* enables it again, no two workers are ever within its body, or in what   *)
(* suspends, rearms and finishes it, whoever activates, queues, wakes,     *)
(* disables and cancels it meanwhile.                                      *)
THEOREM BodyIsExclusive ==
  ASSUME NodeAssumption
  PROVE  Spec => []BodyExclusive
<1>1. IInv => BodyExclusive
  BY DEF IInv, HeldOK, Holding, Claimed, BodyExclusive, InBody, Threads
<1>2. QED
  BY <1>1, InductiveInvariant, PTL

(* The ticket of an epoch is in one place only.                            *)
LEMMA OncePerEpoch ==
  ASSUME Types, EpochsOK, epoch < TicketEpochs
  PROVE  TicketOnce
<1> SUFFICES ASSUME NEW e \in 1..epoch
             PROVE  Cardinality({t \in Threads : hand[t] = e /\ pc[t] \in Carrying})
                      + Cardinality(tickets \cap {e}) <= 1
  BY DEF TicketOnce, Carrying
<1> DEFINE H == {t \in Threads : hand[t] = e /\ pc[t] \in Carrying}
<1>1. \A x : Cardinality({x}) = 1
  BY FS_Singleton
<1>2. Cardinality({}) = 0
  BY FS_EmptySet
<1>3. CASE H = {}
  <2>1. tickets \cap {e} = {} \/ tickets \cap {e} = {e}
    OBVIOUS
  <2>2. Cardinality(H) = 0
    BY <1>2, <1>3
  <2>3. Cardinality(tickets \cap {e}) \in {0, 1}
    BY <1>1, <1>2, <2>1
  <2>4. QED
    BY <2>2, <2>3
<1>4. CASE H # {}
  <2>1. PICK h \in Threads : hand[h] = e /\ pc[h] \in Carrying
    BY <1>4
  <2>2. H = {h}
    BY <2>1 DEF EpochsOK
  <2>3. tickets \cap {e} = {}
    BY <2>1 DEF EpochsOK
  <2>4. QED
    BY <1>1, <1>2, <2>2, <2>3
<1>5. QED
  BY <1>3, <1>4

(* activate, route_to, take_ticket: as long as a ticket can tell the       *)
(* epochs of the node apart, each epoch's ticket is in one place only, and *)
(* a ready node that nobody deactivates has the ticket of its epoch queued,*)
(* in a worker's hands or on its way.                                      *)
THEOREM TicketsAreExact ==
  ASSUME NodeAssumption
  PROVE  Spec => [](epoch < TicketEpochs => TicketExact)
<1>1. IInv => (epoch < TicketEpochs => TicketExact)
  BY OncePerEpoch DEF IInv, Types, RoutedOK, TicketExact
<1>2. QED
  BY <1>1, InductiveInvariant, PTL

(* finish, finish_fault: at rest every counted activation has been counted *)
(* as completed, so that drain returns, but for those whose wake or rearm  *)
(* the queues refused, as long as none is queued or taken back; and        *)
(* completion_fn_ hears of no fault that no body reported, as long as the   *)
(* node is not enabled again or deactivated.                               *)
THEOREM OutcomesAlwaysAddUp ==
  ASSUME NodeAssumption
  PROVE  Spec => []OutcomesAddUp
<1>1. IInv => DrainSeesRest
  <2> SUFFICES ASSUME IInv, {"queue", "deactivate", "disable"} \cap Made = {}, AtRest
               PROVE  activations <= completions + lost
    BY DEF DrainSeesRest
  <2>1. Counting = {} /\ ~ Begun
    BY DEF AtRest, Counting, Begun
  <2>2. Cardinality(Counting) = 0
    BY <2>1, FS_EmptySet
  <2>3. activations + Cardinality(Counting) <= completions + lost + (IF Begun THEN 1 ELSE 0)
    BY DEF IInv, CountsOK
  <2>4. activations \in Nat /\ completions \in Nat /\ lost \in Nat
    BY DEF IInv, Types
  <2>5. QED
    BY <2>1, <2>2, <2>3, <2>4
<1>2. IInv => FaultsAreReal
  <2> SUFFICES ASSUME IInv, {"enable", "deactivate"} \cap Made = {}
               PROVE  reported <= failures
    BY DEF FaultsAreReal
  <2>1. FaultsReal
    BY DEF IInv, FaultsOK, TakesBack
  <2>2. reported \in Nat /\ failures \in Nat
    BY DEF IInv, Types
  <2>3. QED
    BY <2>1, <2>2 DEF FaultsReal
<1>3. IInv => OutcomesAddUp
  BY <1>1, <1>2 DEF OutcomesAddUp
<1>4. QED
  BY <1>3, InductiveInvariant, PTL

=============================================================================
