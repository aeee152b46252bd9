------------------------------ MODULE MCTasks -------------------------------
(***************************************************************************)
(* Instances of TaskNode, TaskJoin, TaskResources and TaskAwaits for TLC.  *)
(* The four sides of a task, its life, the tasks it waits for, what it     *)
(* locks and what else its body awaits, share one run: a behaviour begins  *)
(* by choosing the way it exercises.  TaskResources then stays in an       *)
(* initial state, and the variables of the others stay "off".              *)
(***************************************************************************)
EXTENDS TaskResources

CONSTANTS
  Ways,                               (* those this run takes              *)
  NodeBodies, Slots, TicketEpochs, MaxEpoch, MaxRuns, (* of TaskNode       *)
  Children, Loads, Wrap,                              (* of TaskJoin       *)
  Blocker, Watchdog, AwaitPlans, MaxChunks, JobRoom, OpRoom,
                                                      (* of TaskAwaits     *)
  c1, c2, c3, w1, w2

VARIABLES
  way,     (* "node", "join", "resources" or "awaits"                      *)
  nState, nEpoch, flags, runs, wakeup, nTickets, nActivations, nCompletions,
  nPc, nHand, why, event, awaits, failures, reported, program, nLost, load, pending,
  joinAny, waitJoin, parentOf, child, end, last, now, todo, awaited, ended,
  nPlan, ticket, wait, noted, due, begun, at, total, next, jobs, chunk,
  pieces, listed, open, ops, ran, called, early

(* Two clients that activate, cancel and wake; or one that takes back, or  *)
(* that forbids, what it activates.                                        *)
Both(calls) == [c \in Clients |-> calls]
One(calls) == [c \in Clients |-> IF c = c1 THEN calls ELSE {}]

SharedOrControlled ==
  {Both({"activate", "cancel", "wake"}), One({"activate", "queue", "deactivate"}),
   One({"activate", "disable", "enable"}), One({"queue", "disable"})}

(* One await while several workers run; a series of joins on one worker,   *)
(* with a child that others have activated; a series of awaits of any kind.*)
OneAwait == [kinds |-> {"join", "any"}, awaits |-> 1, activated |-> {}, workers |-> 2, full |-> TRUE]
Series   == [kinds |-> {"join", "all"}, awaits |-> 3, activated |-> {c1}, workers |-> 1, full |-> TRUE]
AnyTwice == [kinds |-> {"join", "any"}, awaits |-> 2, activated |-> {}, workers |-> 1, full |-> FALSE]
OneAll   == [kinds |-> {"all"}, awaits |-> 1, activated |-> {}, workers |-> 3, full |-> FALSE]
AllLoads == {OneAwait, OneAll, Series, AnyTwice}

Read(r) == [res |-> r, mode |-> "read"]
Write(r) == [res |-> r, mode |-> "write"]

(* One writes both resources, one each of them, one reads both. *)
Mixed ==
  [access |-> [a |-> <<Write("x"), Write("y")>>, b |-> <<Write("x")>>,
               c |-> <<Write("y")>>, d |-> <<Read("y"), Read("x")>>],
   clients |-> {c1}, workers |-> {w1, w2}, calls |-> {"activate"}, activations |-> 3, full |-> TRUE]

(* Writers only: each pair of tasks has a resource in common. *)
Writers ==
  [access |-> [a |-> <<Write("x"), Write("y")>>, b |-> <<Write("y"), Write("z")>>,
               c |-> <<Write("z"), Write("x")>>],
   clients |-> {c1}, workers |-> {w1, w2}, calls |-> {"activate"}, activations |-> 3, full |-> TRUE]

(* Writers of one resource that are deactivated. *)
Contended ==
  [access |-> [a |-> <<Write("x")>>, b |-> <<Write("x")>>],
   clients |-> {c1, c2}, workers |-> {w1}, calls |-> {"activate", "deactivate"}, activations |-> 3, full |-> TRUE]

(* A writer and readers that are cancelled. *)
Readers ==
  [access |-> [a |-> <<Read("x")>>, b |-> <<Read("x"), Write("y")>>, c |-> <<Write("x")>>],
   clients |-> {c1}, workers |-> {w1, w2}, calls |-> {"activate", "cancel"}, activations |-> 3, full |-> FALSE]

MixedPlans == {Mixed, Writers, Contended, Readers}

(* Two writers and two readers of one resource. *)
ReadersBefore ==
  [access |-> [a |-> <<Write("x")>>, b |-> <<Write("x")>>,
               c |-> <<Read("x")>>, d |-> <<Read("x")>>],
   clients |-> {c1}, workers |-> {w1, w2}, calls |-> {"activate"}, activations |-> 4, full |-> FALSE]
OneResource == {ReadersBefore}

(* Bodies that sleep and await one thing more, while two workers run; that *)
(* do everything in turn on one worker; and a domain that is destroyed.    *)
Awaits(kinds, totals, workers) ==
  [awaits |-> kinds, totals |-> totals, workers |-> workers, stops |-> FALSE, full |-> TRUE]
SleepThen(kind, totals) == Awaits(<<"sleep", kind>>, totals, {w1, w2})
InTurn == Awaits(<<"block", "sleep", "parallel">>, {1, 2, 3, 5, 6}, {w1})
Late(kind) == Awaits(<<kind, "sleep">>, {2}, {w1, w2})
Destroyed == [Awaits(<<"sleep", "block">>, {}, {w1}) EXCEPT !.stops = TRUE]
MixedAwaits == {SleepThen("parallel", 1..6), SleepThen("block", {}), SleepThen("sleep", {}),
                InTurn, Late("block"), Late("parallel"), Destroyed}

(* One parallel_for, its indices shared out evenly or not; one call; and   *)
(* always a place in the queues.                                           *)
Room(p) == [p EXCEPT !.full = FALSE]
OneLoop == {Room(Awaits(<<"parallel">>, 1..6, {w1}))}
OneCall == {Room(Awaits(<<"block">>, {}, {w1}))}

N == INSTANCE TaskNode WITH
       Programs <- SharedOrControlled, Bodies <- NodeBodies, state <- nState, epoch <- nEpoch,
       tickets <- nTickets, activations <- nActivations, completions <- nCompletions,
       pc <- nPc, hand <- nHand, lost <- nLost
J == INSTANCE TaskJoin WITH state <- nState, pc <- nPc
A == INSTANCE TaskAwaits WITH
       Plans <- AwaitPlans, plan <- nPlan, state <- nState, count <- pieces

ASSUME MCAssumption == N!NodeAssumption /\ J!JoinAssumption /\ A!AwaitsAssumption

OfAll == <<nState>>
OfSteps == <<nPc>>
OfBodies == <<wakeup, awaits>>
OfAwaits == <<nPlan, ticket, wait, noted, due, begun, at, total, next, jobs,
              chunk, pieces, listed, open, ops, ran, called, early>>
OfJoin == <<load, pending, joinAny, waitJoin, parentOf, child, end, last,
            now, todo, awaited, ended>>
OfNode == <<nEpoch, nTickets, nActivations, nCompletions, nHand, flags, runs, why, event,
            failures, reported, program, nLost>>
all == <<way, vars, OfAll, OfSteps, OfBodies, OfAwaits, OfJoin, OfNode>>

AllOff == nState = "off"
StepsOff == nPc = "off"
BodiesOff == wakeup = "off" /\ awaits = "off"
AwaitsOff ==
  /\ nPlan = "off" /\ ticket = "off" /\ wait = "off" /\ noted = "off"
  /\ due = "off" /\ begun = "off" /\ at = "off" /\ total = "off" /\ next = "off"
  /\ jobs = "off" /\ chunk = "off" /\ pieces = "off" /\ listed = "off"
  /\ open = "off" /\ ops = "off" /\ ran = "off" /\ called = "off"
  /\ early = "off"
JoinOff ==
  /\ load = "off" /\ pending = "off" /\ joinAny = "off" /\ waitJoin = "off"
  /\ parentOf = "off" /\ child = "off" /\ end = "off" /\ last = "off"
  /\ now = "off" /\ todo = "off" /\ awaited = "off" /\ ended = "off"
NodeOff ==
  /\ nEpoch = "off" /\ nTickets = "off" /\ nActivations = "off"
  /\ nCompletions = "off" /\ nHand = "off"
  /\ flags = "off" /\ runs = "off" /\ why = "off" /\ event = "off"
  /\ failures = "off" /\ reported = "off" /\ program = "off" /\ nLost = "off"

(* Where resources are not what a behaviour is about, nobody uses them.    *)
ResourcesOff == plan = CHOOSE p \in Plans : TRUE

MCInit ==
  /\ way \in Ways
  /\ Init
  /\ \/ way = "node" /\ N!Init /\ ResourcesOff /\ AwaitsOff /\ JoinOff
     \/ way = "join" /\ J!Init /\ ResourcesOff /\ AwaitsOff /\ NodeOff
     \/ way = "resources" /\ AllOff /\ StepsOff /\ BodiesOff /\ AwaitsOff /\ JoinOff /\ NodeOff
     \/ way = "awaits" /\ A!Init /\ ResourcesOff /\ StepsOff /\ BodiesOff /\ JoinOff /\ NodeOff

MCNext ==
  /\ UNCHANGED way
  /\ \/ way = "node" /\ N!Next /\ UNCHANGED <<vars, OfAwaits, OfJoin>>
     \/ way = "join" /\ J!Next /\ UNCHANGED <<vars, OfAwaits, OfNode>>
     \/ way = "resources" /\ Next
        /\ UNCHANGED <<OfAll, OfSteps, OfBodies, OfAwaits, OfJoin, OfNode>>
     \/ way = "awaits" /\ A!Next
        /\ UNCHANGED <<vars, OfSteps, OfBodies, OfJoin, OfNode>>

MCSpec == MCInit /\ [][MCNext]_all

(* The fairness each of them states for itself.  A behaviour takes one way,*)
(* and each way has at most five actors, so five conditions are enough:    *)
(* which actor of which way each of them is about is chosen here.          *)
mine ==
  CASE way = "node" -> N!vars [] way = "join" -> J!vars
    [] way = "resources" -> vars [] way = "awaits" -> A!vars

FairWorker(w) ==
  \/ way = "node" /\ N!Thread(w)
  \/ way = "join" /\ w = w1 /\ J!Parent
  \/ way = "join" /\ w = w2 /\ J!Child(c3)
  \/ way = "resources" /\ Working(w)
  \/ way = "awaits" /\ A!Running(w)

FairClient(c) ==
  \/ way = "node" /\ N!Thread(c)
  \/ way = "join" /\ J!Child(c)
  \/ way = "resources" /\ Returning(c)
  \/ way = "awaits" /\ c = c1 /\ A!Blocking
  \/ way = "awaits" /\ c = c2 /\ A!Scanning

FairRest ==
  \/ way = "node" /\ \E c \in Clients : N!Signal(c)
  \/ way = "awaits" /\ A!Tick

MCFairSpec ==
  /\ MCSpec
  /\ \A w \in Workers : WF_mine(UNCHANGED way /\ FairWorker(w))
  /\ \A c \in Clients : WF_mine(UNCHANGED way /\ FairClient(c))
  /\ WF_mine(UNCHANGED way /\ FairRest)

-----------------------------------------------------------------------------
(* Properties: those of the four modules, each where its way is taken;     *)
(* those of TaskResources are AccessExclusive, LocksAgree and WaiterRuns.  *)

(* The body of a task runs on one worker at a time, and that worker's node *)
(* is not ready to be claimed by another.                                  *)
BodyExclusive == way = "node" => N!BodyExclusive

(* A ready node has exactly one ticket of its epoch, wherever that is.     *)
TicketExact == way = "node" => N!TicketExact

(* What is counted and reported of activations adds up: when nothing is    *)
(* under way, drain finds them all completed, tasks that had to wait for   *)
(* their resources included, but for those that full queues refused at a   *)
(* wake or a rearm, for which it waits for ever.                           *)
OutcomesAddUp ==
  /\ way = "node" => N!OutcomesAddUp
  /\ DrainSeesRest

(* A parent that was suspended goes on only when the children it waits for *)
(* have ended.                                                             *)
JoinAwaitsChild == way = "join" => J!JoinAwaitsChild

(* The count of children neither drifts nor stays below zero.              *)
CountIsExact == way = "join" => J!CountIsExact

(* A parallel_for calls its body once for each index; and it, a blocking   *)
(* call and a sleep return only when what they await has happened.         *)
AwaitExact == way = "awaits" => A!TypeOK /\ A!AwaitExact

(* What is activated goes on, as long as no activation is taken back: a    *)
(* node that is ready does not stay so, and a task that waits for a        *)
(* resource is tried again and gets it, where there are only writers (of   *)
(* three that are alike, one is looked at).  A join returns where no child *)
(* can end while the parent is suspending itself.  A sleep returns         *)
(* whatever comes late, and a parallel_for on one worker, where each of    *)
(* its chunks has an index.  A task whose wake the queues refuse is        *)
(* dormant instead, which is all that is left of it.                       *)
TasksGoOn ==
  \/ way = "node" /\ N!ReadyToRun
  \/ way = "resources" /\ WriterWaits("a")
  \/ way = "join" /\ J!Suspends
  \/ way = "awaits" /\ (A!Waits("sleep") \/ A!LoopSuspended)
  ~>
  \/ way = "node" /\ ~ N!ReadyToRun
  \/ way = "resources" /\ ~ Waits("a")
  \/ way = "join" /\ (J!Returned \/ J!Dropped)
  \/ way = "awaits" /\ A!Went

(* What the comment on parallel_join_waiter says: the last chunk puts the  *)
(* parent back into the queue.                                             *)
LastChunkWakes == (way = "awaits" /\ A!Waits("parallel")) ~> (way = "awaits" /\ A!Went)

(* What the comment in suspend_bookkeeping says: an event that completes   *)
(* before the task is marked as waiting is not lost.                       *)
WakeNotLost == (way = "awaits" /\ A!Waits("block")) ~> (way = "awaits" /\ A!Went)
=============================================================================
