------------------------------ MODULE MCWaiting -----------------------------
(***************************************************************************)
(* Instances of WaitPoint, TaskDeps, Lane and Sequencer for TLC.  Four     *)
(* ways of waiting, for a counter, for a predecessor, for one's turn in a  *)
(* lane and by one's key, share one run: a behaviour begins by choosing    *)
(* the way it exercises, and the others stand still.                       *)
(***************************************************************************)
EXTENDS WaitPoint, TLC

CONSTANTS
  Tasks, Workers, Client, Graphs, Wrap,       (* of TaskDeps               *)
  Jobs, Submitters, Pump, Nobody, LanePlans,  (* of Lane; its drainers are *)
  j1, j2, w1, w2,                             (*   Workers                 *)
  Ranks, Keys, Clients,                       (* of Sequencer              *)
  CommandRoom, b1, b2

VARIABLES
  way,                            (* "wait", "deps", "lane" or "key"       *)
  graph, job, edges, asked, runs, done, state, last, before, step,
  use, cells, bits, owner, fate, entered, at, hand, ahead, lane,
  habit, status, turn, key, heap, commands, batch, popped, doing, calling,
  holds, moves, refused

Plain == [t \in Tasks |-> <<>>]

(* A diamond by add_dependency: b and c after a, d after b and c.  The     *)
(* client asks for its end as well, too early or too late.                 *)
Diamond == [after |-> Plain, asked |-> {"a", "d"}, runs |-> 1,
            added |-> {<<"a", "b">>, <<"a", "c">>, <<"b", "d">>, <<"c", "d">>}]

(* Two predecessors of one task, each run twice. *)
Fork == [after |-> Plain, added |-> {<<"a", "c">>, <<"b", "c">>},
         asked |-> {"a", "b"}, runs |-> 2]

(* A chain as then() builds it; the client asks for its middle as well. *)
Chain == [after |-> [Plain EXCEPT !["b"] = <<"a">>, !["c"] = <<"b">>], added |-> {},
          asked |-> {"a", "b"}, runs |-> 2]

AllGraphs == {Diamond, Fork, Chain}

(* A lane bound to one of two workers; a shared one between them, past the *)
(* lanes that have a bit; a shared one between a worker and a thread that  *)
(* pumps; and one of a manager without workers, that two threads pump and  *)
(* that has room for one job.                                              *)
OneLane(jobs) == [j \in jobs |-> 1]
Bound == [bound |-> <<w1>>, hidden |-> {}, drainers |-> {w1, w2}, pumping |-> {},
          job |-> OneLane({j1, j2}), room |-> 2]
Shared == [bound |-> <<w1, Nobody>>, hidden |-> {2}, drainers |-> {w1, w2}, pumping |-> {},
           job |-> (j1 :> 2 @@ j2 :> 2), room |-> 2]
Mixed == [bound |-> <<Nobody, w2>>, hidden |-> {}, drainers |-> {w1, w2}, pumping |-> {w1},
          job |-> OneLane({j1, j2}), room |-> 2]
Pumped == [bound |-> <<Pump>>, hidden |-> {}, drainers |-> {w1, w2}, pumping |-> {w1, w2},
           job |-> OneLane({j1, j2}), room |-> 1]

AllLanes == {Bound, Shared, Mixed, Pumped}

(* One client and three tasks, of which one moves; two clients that race   *)
(* to activate two tasks twice, to move one task, and to deactivate one.   *)
Habit(n, clients, calls, epochs, most) ==
  [tasks |-> 1..n, clients |-> clients, calls |-> calls, turns |-> epochs, moves |-> most]
Habits == {Habit(3, {b1}, {"reorder"}, 1, 1), Habit(2, {b1, b2}, {}, 2, 0),
           Habit(1, {b1, b2}, {"reorder"}, 1, 2), Habit(1, {b1, b2}, {"deactivate"}, 3, 0)}

D == INSTANCE TaskDeps WITH pending <- before, pc <- step
L == INSTANCE Lane WITH Drainers <- Workers
S == INSTANCE Sequencer WITH FirstKeys <- [t \in Ranks |-> 2]

ASSUME MCAssumption ==
  D!DepsAssumption /\ L!LaneAssumption /\ S!SequencerAssumption

OfDeps == <<graph, job, edges, asked, runs, done, state, last, before, step>>
OfLane == <<use, cells, bits, owner, fate, entered, at, hand, ahead, lane>>
OfKey == <<habit, status, turn, key, heap, commands, batch, popped, doing, calling,
           holds, moves, refused>>

DepsOff ==
  /\ graph = "off" /\ job = "off" /\ edges = "off" /\ asked = "off"
  /\ runs = "off" /\ done = "off" /\ state = "off"
  /\ last = "off" /\ before = "off" /\ step = "off"
LaneOff ==
  /\ use = "off" /\ cells = "off" /\ bits = "off" /\ owner = "off"
  /\ fate = "off" /\ entered = "off" /\ at = "off" /\ hand = "off"
  /\ ahead = "off" /\ lane = "off"
KeyOff ==
  /\ habit = "off" /\ status = "off" /\ turn = "off" /\ key = "off"
  /\ heap = "off" /\ commands = "off" /\ batch = "off" /\ popped = "off"
  /\ doing = "off" /\ calling = "off" /\ holds = "off" /\ moves = "off"
  /\ refused = "off"

MCInit ==
  /\ way \in {"wait", "deps", "lane", "key"}
  /\ Init
  /\ IF way = "deps" THEN D!Init ELSE DepsOff
  /\ IF way = "lane" THEN L!Init ELSE LaneOff
  /\ IF way = "key" THEN S!Init ELSE KeyOff

MCNext ==
  /\ UNCHANGED way
  /\ IF way = "wait" THEN Next ELSE UNCHANGED vars
  /\ IF way = "deps" THEN D!Next ELSE UNCHANGED OfDeps
  /\ IF way = "lane" THEN L!Next ELSE UNCHANGED OfLane
  /\ IF way = "key" THEN S!Next ELSE UNCHANGED OfKey

all == <<way, vars, OfDeps, OfLane, OfKey>>

MCSpec == MCInit /\ [][MCNext]_all

depsVars == D!vars

(* The fairness each of them states for itself. *)
MCFairSpec ==
  /\ MCSpec
  /\ \A t \in Threads : WF_vars(way = "wait" /\ Wake(t))
  /\ \A s \in Completers : WF_vars(way = "wait" /\ CompleteDrain(s))
  /\ \A c \in Waiters : WF_vars(way = "wait" /\ Await(c))
  /\ \A p \in Workers \cup {Client} : WF_depsVars(way = "deps" /\ D!Activate(p, job[p]))
  /\ \A w \in Workers : WF_depsVars(way = "deps" /\ D!Worker(w))
  /\ \A s \in Submitters : WF_OfLane(way = "lane" /\ L!Submitting(s))
  /\ \A w \in Workers : WF_OfLane(way = "lane" /\ L!Drainer(w))
  /\ \A c \in Clients : WF_OfKey(way = "key" /\ S!Answer(c))
  /\ WF_OfKey(way = "key" /\ S!Pumping)

-----------------------------------------------------------------------------
(* Properties: those of the four modules, where their ways are taken; those *)
(* of WaitPoint are WokenOnceAtZero and NobodyLeftOnList.                  *)

(* A task starts after all its predecessors, and predecessors that end at  *)
(* the same time activate their dependent once.                            *)
DependentInOrder == way = "deps" => D!TypeOK /\ D!RunsAfterAll /\ D!DependentOnce

(* A task runs once all its predecessors have completed, unless one of     *)
(* them runs again.                                                        *)
DependentRuns ==
  \A t \in Tasks :
    (way = "deps" /\ D!AllBeforeDone(t)) ~> (way = "deps" /\ D!RanOrRepeated(t))

(* A job of a bound lane starts when all that entered the lane before it   *)
(* have ended; a shared lane gives its jobs out in their order.            *)
LaneInOrder == way = "lane" => L!InOrder

(* A sequential role runs its ready tasks by key, and each has one entry,  *)
(* under its own key.                                                      *)
KeysInOrder == way = "key" => S!InOrder

(* A job that has entered a lane is run: the word of ready bits hides no   *)
(* lane that has jobs.  A ready task of a sequential role is run.          *)
TurnComes ==
  /\ \A j \in Jobs : (way = "lane" /\ L!Queued(j)) ~> (way = "lane" /\ L!Done(j))
  /\ []<>(way = "key" => S!NoneWaits)
=============================================================================
