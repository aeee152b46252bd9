------------------------------ MODULE TaskDeps ------------------------------
(***************************************************************************)
(* Tasks that run after other tasks: after and after_task of               *)
(* task/task_builder.hpp, add_dependency of task_graph_define_impl.hpp,    *)
(* and the notification of dependents and the refusal of activations in    *)
(* task_graph_runtime_impl.hpp, one access to an atomic a step.            *)
(*                                                                         *)
(* A task counts the predecessors it still waits for in pending_deps_ and  *)
(* may not be activated before.  The end of a task takes one off the count *)
(* of each dependent and activates the one whose count it takes to zero.   *)
(***************************************************************************)
EXTENDS Integers, Sequences, FiniteSets, SequencesExt

CONSTANTS
  Tasks,
  Workers,   (* threads that run tasks                                     *)
  Client,    (* the thread that activates them                             *)
  Graphs,    (* who runs after whom, one graph a behaviour                 *)
  Wrap       (* pending_deps_ counts modulo this                           *)

(* What a task's builder was given with after, in order; the dependencies  *)
(* <<before, after>> of add_dependency; which tasks the client activates,  *)
(* and how often each of them (a bound).  A count does not wrap round as   *)
(* far as one: tasks end less often than it can count.                     *)
DepsAssumption ==
  /\ \A g \in Graphs : /\ g.after \in [Tasks -> Seq(Tasks)]
                       /\ g.added \subseteq Tasks \X Tasks
                       /\ g.asked \subseteq Tasks /\ g.runs \in Nat
                       /\ Wrap > Cardinality(Tasks) * (1 + g.runs)
  /\ Wrap \in Nat
  /\ IsFiniteSet(Tasks) /\ Tasks # {}
  /\ IsFiniteSet(Workers) /\ Client \notin Workers

VARIABLES
  graph,   (* which of Graphs this behaviour is                            *)
  state,   (* state_ of each task                                          *)
  pending, (* pending_deps_ of each task                                   *)
  pc,      (* where each thread is                                         *)
  job,     (* the task each thread works for                               *)
  edges,   (* the dependents each thread has still to notify               *)
  last,    (* what the thread's fetch_sub returned                         *)
  asked,   (* how often the client has activated each task                 *)
  runs,    (* history: how often each task has been made ready             *)
  done     (* history: tasks that have completed                           *)

vars == <<graph, state, pending, pc, job, edges, last, asked, runs, done>>
tasks == <<state, runs, done>>

(* A builder keeps one predecessor, the last it was given. *)
Kept(t) == IF graph.after[t] = <<>> THEN {} ELSE {Last(graph.after[t])}

Edges == graph.added \cup {d \in Tasks \X Tasks : d[1] \in Kept(d[2])}
Dependents(t) == {e[2] : e \in {d \in Edges : d[1] = t}}

Threads == Workers \cup {Client}

Init ==
  /\ graph \in Graphs
  /\ state = [t \in Tasks |-> "dormant"]
  /\ pending = [t \in Tasks |-> Cardinality({d \in Edges : d[2] = t})]
  /\ pc = [p \in Threads |-> "idle"]
  /\ job \in [Threads -> {CHOOSE t \in Tasks : TRUE}]
  /\ edges = [p \in Threads |-> {}] /\ last = [p \in Threads |-> 0]
  /\ asked = [t \in Tasks |-> 0] /\ runs = [t \in Tasks |-> 0]
  /\ done = {}

Goto(p, from, to) == pc[p] = from /\ pc' = [pc EXCEPT ![p] = to]

-----------------------------------------------------------------------------
(* activate, by the client and by the one who ends the last predecessor    *)

Ask ==
  /\ Goto(Client, "idle", "check")
  /\ \E t \in graph.asked : /\ asked[t] < graph.runs
                            /\ asked' = [asked EXCEPT ![t] = @ + 1]
                            /\ job' = [job EXCEPT ![Client] = t]
  /\ UNCHANGED <<graph, tasks, pending, edges, last>>

Allow(p, t) ==
  /\ Goto(p, "check", "swap")
  /\ pending[t] = 0
  /\ UNCHANGED <<graph, tasks, pending, job, edges, last, asked>>

Return(p) == IF p = Client THEN "idle" ELSE "notify"

Refuse(p, t) ==
  /\ Goto(p, "check", Return(p))
  /\ pending[t] > 0
  /\ UNCHANGED <<graph, tasks, pending, job, edges, last, asked>>

(* An activation that overlaps one is dropped. *)
Ready(p, t) ==
  /\ Goto(p, "swap", Return(p))
  /\ IF state[t] \in {"dormant", "completed"}
     THEN /\ state' = [state EXCEPT ![t] = "ready"]
          /\ runs' = [runs EXCEPT ![t] = @ + 1]
     ELSE UNCHANGED <<state, runs>>
  /\ UNCHANGED <<graph, done, pending, job, edges, last, asked>>

Activate(p, t) == Allow(p, t) \/ Refuse(p, t) \/ Ready(p, t)

-----------------------------------------------------------------------------
(* A worker: execute, finish, notify_dependents                            *)

Run(w) ==
  /\ Goto(w, "idle", "body")
  /\ \E t \in Tasks : /\ state[t] = "ready"
                      /\ state' = [state EXCEPT ![t] = "running"]
                      /\ job' = [job EXCEPT ![w] = t]
  /\ UNCHANGED <<graph, runs, done, pending, edges, last, asked>>

Finish(w) ==
  /\ Goto(w, "body", "notify")
  /\ state' = [state EXCEPT ![job[w]] = "completed"]
  /\ done' = done \cup {job[w]}
  /\ edges' = [edges EXCEPT ![w] = Dependents(job[w])]
  /\ UNCHANGED <<graph, runs, pending, job, last, asked>>

NotifyNext(w) ==
  /\ Goto(w, "notify", "counted")
  /\ \E t \in edges[w] :
       /\ edges' = [edges EXCEPT ![w] = @ \ {t}]
       /\ job' = [job EXCEPT ![w] = t]
       /\ last' = [last EXCEPT ![w] = pending[t]]
       /\ pending' = [pending EXCEPT ![t] = (@ - 1) % Wrap]
  /\ UNCHANGED <<graph, tasks, asked>>

(* variant: every end of a predecessor activates the dependent *)
NotifyCountedEach(w) ==
  /\ Goto(w, "counted", "check")
  /\ pending' = [pending EXCEPT ![job[w]] = 0]
  /\ UNCHANGED <<graph, tasks, job, edges, last, asked>>

(* variant: the last predecessor leaves the dependent to the client *)
NotifyCountedQuiet(w) ==
  /\ Goto(w, "counted", "notify")
  /\ pending' = [pending EXCEPT ![job[w]] = IF last[w] \in {0, 1} THEN 0 ELSE @]
  /\ UNCHANGED <<graph, tasks, job, edges, last, asked>>

(* The last one stores zero and activates; a count that was zero before is *)
(* put back to zero.                                                       *)
NotifyCounted(w) ==
  /\ Goto(w, "counted", IF last[w] = 1 THEN "check" ELSE "notify")
  /\ pending' = [pending EXCEPT ![job[w]] = IF last[w] \in {0, 1} THEN 0 ELSE @]
  /\ UNCHANGED <<graph, tasks, job, edges, last, asked>>

NotifyDone(w) ==
  /\ edges[w] = {}
  /\ Goto(w, "notify", "idle")
  /\ UNCHANGED <<graph, tasks, pending, job, edges, last, asked>>

Worker(w) ==
  Run(w) \/ Finish(w) \/ NotifyNext(w) \/ NotifyCounted(w) \/ NotifyDone(w)

-----------------------------------------------------------------------------
Next == Ask \/ (\E p \in Threads : Activate(p, job[p])) \/ \E w \in Workers : Worker(w)

Spec == Init /\ [][Next]_vars

(* Calls return, and workers run what is ready. *)
FairSpec == /\ Spec
            /\ \A p \in Threads : WF_vars(Activate(p, job[p]))
            /\ \A w \in Workers : WF_vars(Worker(w))

-----------------------------------------------------------------------------
(* Properties *)

TypeOK ==
  /\ graph \in Graphs
  /\ state \in [Tasks -> {"dormant", "ready", "running", "completed"}]
  /\ pending \in [Tasks -> 0..(Wrap - 1)]
  /\ pc \in [Threads -> {"idle", "check", "swap", "body", "notify", "counted"}]
  /\ job \in [Threads -> Tasks] /\ edges \in [Threads -> SUBSET Tasks]

(* What a task was declared to run after.                                  *)
Before(t) == {e[1] : e \in {d \in graph.added : d[2] = t}}
               \cup (IF graph.after[t] = <<>> THEN {} ELSE {Last(graph.after[t])})

(* Each end of a predecessor counts, also the second end of one of several.*)
Repeated(t) == \E p \in Before(t) : runs[p] > 1

(* A task is ready only when every task it was declared to run after has   *)
(* completed, unless one of several has run again in the meantime.         *)
RunsAfterAll ==
  \A t \in Tasks :
    state[t] \in {"ready", "running"} /\ (Repeated(t) => Cardinality(Before(t)) = 1) =>
      Before(t) \subseteq done

(* Predecessors that end at the same time, or again, activate their        *)
(* dependent once.                                                         *)
DependentOnce == \A t \in Tasks : Before(t) # {} => runs[t] <= 1 + asked[t]

(* A task runs once all its predecessors have completed, unless one of     *)
(* them runs again.                                                        *)
AllBeforeDone(t) == Before(t) # {} /\ Before(t) \subseteq done
RanOrRepeated(t) == t \in done \/ Repeated(t)
DependentRuns == \A t \in Tasks : AllBeforeDone(t) ~> RanOrRepeated(t)
=============================================================================
