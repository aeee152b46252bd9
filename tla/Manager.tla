------------------------------ MODULE Manager ------------------------------
(***************************************************************************)
(* The thread pool's manager, include/thread/pool/manager.hpp: jobs are    *)
(* submitted through a gate, routed to the mailbox of a worker, run, and   *)
(* counted; stop closes the gate, waits or discards, and joins; start      *)
(* opens the gate again.  One step is one access to shared state.          *)
(*                                                                         *)
(* WorkerPark models how a worker sleeps and is woken: here it polls.      *)
(* MpmcQueue and WorkDeque model the queues: here they are sets of bounded *)
(* size, since nothing below depends on the order of jobs.                 *)
(***************************************************************************)
EXTENDS Integers, FiniteSets, FiniteSetsExt

CONSTANTS
  Jobs,       (* what callers submit, each once                            *)
  Resumes,    (* jobs a running job schedules to resume a coroutine        *)
  Submitters, (* threads that submit                                       *)
  Workers,
  Plans,      (* how the manager is configured and used, one a behaviour   *)
  StackCap,   (* capacity of a worker's stack                              *)
  Batch,      (* worker_mailbox_batch                                      *)
  Half,       (* the closing bit of the gate's word                        *)
  None

(* workers: none is threadless mode; cap: capacity of a mailbox and of the *)
(* injection queue; timed: a park ends at its timeout, as it does not on   *)
(* Linux; calls: submit, try_submit; modes: of stop; early: somebody       *)
(* submits or stops before the first start; jobs, resumes, starts: what is *)
(* submitted and resumed, and how often start is called (bounds).          *)
ASSUME ManagerAssumption ==
  /\ \A S \in {Jobs, Resumes, Submitters, Workers} : IsFiniteSet(S)
  /\ Jobs \cap Resumes = {} /\ None \notin Jobs \cup Resumes
  /\ \A p \in Plans : /\ p.workers \subseteq Workers /\ {p.timed, p.early} \subseteq BOOLEAN
                      /\ p.calls \subseteq {"submit", "try"}
                      /\ p.modes \subseteq {"drain", "abort"}
                      /\ p.jobs \subseteq Jobs /\ p.resumes \subseteq Resumes
                      /\ p.submitters \subseteq Submitters
                      /\ p.cap \in Nat \ {0} /\ p.starts \in Nat
  /\ StackCap \in Nat /\ Batch \in Nat \ {0}
  /\ Half \in Nat /\ Half > Cardinality(Submitters)

VARIABLES
  plan,
  phase,     (* phase_                                                     *)
  word,      (* word_ of gate_                                             *)
  shutdown,  (* shutdown_                                                  *)
  parkWord,  (* word_ of submit_park_                                      *)
  submitted, (* stats_.submitted_                                          *)
  completed, (* completed_                                                 *)
  inject,    (* jobs in the injection queue                                *)
  mailbox,   (* jobs in each worker's mailbox                              *)
  stack,     (* jobs on each worker's stack                                *)
  at,        (* where each worker is in run_loop                           *)
  running,   (* the job each worker runs                                   *)
  pc,        (* where each submitter is in submit                          *)
  call,      (* which call it is                                           *)
  my,        (* the job it submits                                         *)
  expected,  (* the word it parks on                                       *)
  op,        (* where the thread that owns the manager is                  *)
  mode,      (* of its stop                                                *)
  target,    (* of its drain                                               *)
  gaveUp,    (* history: its stop has not waited for everybody: a limit    *)
             (* ended a wait, or it discards while somebody submits        *)
  todo,      (* queues its stop has still to discard                       *)
  starts,    (* how often it has called start                              *)
  fate,      (* history: what has become of each job                       *)
  stale      (* history: a start has opened the gate over a submission     *)

gate == <<phase, word>>
queues == <<inject, mailbox, stack>>
counts == <<submitted, completed>>
workers == <<at, running>>
submitters == <<pc, call, my, expected>>
owner == <<op, mode, target, gaveUp, todo, starts>>
vars == <<plan, gate, shutdown, parkWord, counts, queues, workers, submitters,
          owner, fate, stale>>

All == Jobs \cup Resumes
Threadless == plan.workers = {}
Stopping == phase # "running"
Closed == word >= Half
Inside == word % Half

Queued == inject \cup UNION {mailbox[w] \cup stack[w] : w \in Workers}

Init ==
  /\ plan \in Plans
  /\ phase = "running" /\ word = 0 /\ shutdown = FALSE /\ parkWord = 0
  /\ submitted = 0 /\ completed = 0
  /\ inject = {}
  /\ mailbox = [w \in Workers |-> {}] /\ stack = [w \in Workers |-> {}]
  /\ at = [w \in Workers |-> "exited"] /\ running = [w \in Workers |-> None]
  /\ pc = [s \in Submitters |-> "idle"] /\ call = [s \in Submitters |-> "submit"]
  /\ my = [s \in Submitters |-> None] /\ expected = [s \in Submitters |-> 0]
  /\ op = "idle" /\ mode = "drain" /\ target = 0 /\ gaveUp = FALSE /\ todo = {}
  /\ starts = 0
  /\ fate = [j \in All |-> "caller"] /\ stale = FALSE

-----------------------------------------------------------------------------
(* submit and try_submit *)

Goto(s, from, to) == pc[s] = from /\ pc' = [pc EXCEPT ![s] = to]

(* The job stays with its caller. *)
Refused(s) == fate' = [fate EXCEPT ![my[s]] = "refused"]

(* Jobs differ in nothing but their names: the next one is submitted.      *)
Unsubmitted == {j \in plan.jobs : fate[j] = "caller" /\ \A t \in Submitters : my[t] # j}

SubmitCall(s, c) ==
  /\ pc[s] = "idle" /\ Unsubmitted # {}
  /\ plan.early \/ starts > 0
  /\ my' = [my EXCEPT ![s] = CHOOSE j \in Unsubmitted : TRUE]
  /\ call' = [call EXCEPT ![s] = c]
  /\ pc' = [pc EXCEPT ![s] = IF Stopping THEN "refused" ELSE "enter"]
  /\ UNCHANGED <<plan, gate, shutdown, parkWord, counts, queues, workers,
                 expected, owner, fate, stale>>

GateEnter(s) ==
  /\ Goto(s, "enter", IF Closed THEN "refused" ELSE "route")
  /\ word' = IF Closed THEN word ELSE word + 1
  /\ UNCHANGED <<plan, phase, shutdown, parkWord, counts, queues, workers, call,
                 my, expected, owner, fate, stale>>

(* Threadless, the injection queue; otherwise any mailbox with room. *)
Route(s) ==
  /\ Goto(s, "route", "count")
  /\ \/ /\ Threadless /\ Cardinality(inject) < plan.cap
        /\ inject' = inject \cup {my[s]} /\ UNCHANGED <<mailbox, stack>>
     \/ \E w \in plan.workers :
          /\ Cardinality(mailbox[w]) < plan.cap
          /\ mailbox' = [mailbox EXCEPT ![w] = @ \cup {my[s]}]
          /\ UNCHANGED <<inject, stack>>
  /\ fate' = [fate EXCEPT ![my[s]] = "pending"]
  /\ UNCHANGED <<plan, gate, shutdown, parkWord, counts, workers, call, my,
                 expected, owner, stale>>

NoRoom ==
  /\ Threadless => Cardinality(inject) >= plan.cap
  /\ \A w \in plan.workers : Cardinality(mailbox[w]) >= plan.cap

(* Everything is full: only submit waits, and only where there are workers.*)
RouteFull(s) ==
  /\ NoRoom
  /\ Goto(s, "route", IF call[s] = "try" \/ Threadless THEN "giveup" ELSE "full")
  /\ UNCHANGED <<plan, gate, shutdown, parkWord, counts, queues, workers, call, my,
                 expected, owner, fate, stale>>

(* variant: a submitter that has parked does not look whether the manager  *)
(* stops                                                                   *)
FullStoppingBlind(s) ==
  /\ Goto(s, "full", "expect")
  /\ UNCHANGED <<plan, gate, shutdown, parkWord, counts, queues, workers, call, my,
                 expected, owner, fate, stale>>

FullStopping(s) ==
  /\ Goto(s, "full", IF Stopping THEN "giveup" ELSE "expect")
  /\ UNCHANGED <<plan, gate, shutdown, parkWord, counts, queues, workers, call, my,
                 expected, owner, fate, stale>>

FullExpect(s) ==
  /\ Goto(s, "expect", "park")
  /\ expected' = [expected EXCEPT ![s] = parkWord]
  /\ UNCHANGED <<plan, gate, shutdown, parkWord, counts, queues, workers, call, my,
                 owner, fate, stale>>

FullPark(s) ==
  /\ Goto(s, "park", IF parkWord = expected[s] THEN "asleep" ELSE "route")
  /\ UNCHANGED <<plan, gate, shutdown, parkWord, counts, queues, workers, call, my,
                 expected, owner, fate, stale>>

(* The park ends at its timeout. *)
FullTimeout(s) ==
  /\ plan.timed
  /\ Goto(s, "asleep", "route")
  /\ UNCHANGED <<plan, gate, shutdown, parkWord, counts, queues, workers, call, my,
                 expected, owner, fate, stale>>

(* variant: a submitter that finds the manager stopping behind its job's   *)
(* routing tells its caller that the job was refused                       *)
SubmitCountLate(s) ==
  /\ Goto(s, "count", IF Stopping THEN "giveup" ELSE "leave")
  /\ submitted' = submitted + 1
  /\ UNCHANGED <<plan, gate, shutdown, parkWord, completed, queues, workers, call,
                 my, expected, owner, fate, stale>>

(* The job is counted only now: it may have run already. *)
SubmitCount(s) ==
  /\ Goto(s, "count", "leave")
  /\ submitted' = submitted + 1
  /\ UNCHANGED <<plan, gate, shutdown, parkWord, completed, queues, workers, call,
                 my, expected, owner, fate, stale>>

(* ~submit_scope, with an accepted or a refused job. *)
GateLeave(s) ==
  /\ \/ Goto(s, "leave", "idle") /\ UNCHANGED fate
     \/ Goto(s, "giveup", "idle") /\ Refused(s)
  /\ word' = (word - 1) % (2 * Half)
  /\ my' = [my EXCEPT ![s] = None]
  /\ UNCHANGED <<plan, phase, shutdown, parkWord, counts, queues, workers, call,
                 expected, owner, stale>>

SubmitRefused(s) ==
  /\ Goto(s, "refused", "idle")
  /\ Refused(s)
  /\ my' = [my EXCEPT ![s] = None]
  /\ UNCHANGED <<plan, gate, shutdown, parkWord, counts, queues, workers, call,
                 expected, owner, stale>>

Submitter(s) ==
  \/ GateEnter(s) \/ Route(s) \/ RouteFull(s) \/ FullStopping(s) \/ FullExpect(s)
  \/ FullPark(s) \/ FullTimeout(s) \/ SubmitCount(s) \/ GateLeave(s)
  \/ SubmitRefused(s)

-----------------------------------------------------------------------------
(* worker::run_loop *)

WorkerAt(w, from, to) == at[w] = from /\ at' = [at EXCEPT ![w] = to]

WorkerCheck(w) ==
  /\ WorkerAt(w, "loop", IF shutdown THEN "exited" ELSE "look")
  /\ UNCHANGED <<plan, gate, shutdown, parkWord, counts, queues, running,
                 submitters, owner, fate, stale>>

Begin(w, j) ==
  /\ WorkerAt(w, "look", "run")
  /\ running' = [running EXCEPT ![w] = j]

TakeStack(w) ==
  /\ \E j \in stack[w] : /\ Begin(w, j)
                         /\ stack' = [stack EXCEPT ![w] = @ \ {j}]
  /\ UNCHANGED <<plan, gate, shutdown, parkWord, counts, inject, mailbox,
                 submitters, owner, fate, stale>>

(* Of a batch from the mailbox the first job runs and the others go onto   *)
(* the stack; a job the stack has no room for is released as it is.        *)
Stacked(w, rest) ==
  LET room == StackCap - Cardinality(stack[w])
      kept == IF Cardinality(rest) <= room THEN rest
              ELSE CHOOSE r \in SUBSET rest : Cardinality(r) = room
  IN  /\ stack' = [stack EXCEPT ![w] = @ \cup kept]
      /\ fate' = [j \in All |-> IF j \in rest \ kept THEN "dropped" ELSE fate[j]]

TakeMailbox(w) ==
  /\ stack[w] = {}
  /\ \E taken \in kSubset(Min({Batch, Cardinality(mailbox[w])}), mailbox[w]) :
       \E j \in taken :
         /\ Begin(w, j)
         /\ mailbox' = [mailbox EXCEPT ![w] = @ \ taken]
         /\ Stacked(w, taken \ {j})
  /\ UNCHANGED <<plan, gate, shutdown, parkWord, counts, inject, submitters, owner, stale>>

TakeInject(w) ==
  /\ stack[w] = {} /\ mailbox[w] = {}
  /\ \E j \in inject : Begin(w, j) /\ inject' = inject \ {j}
  /\ UNCHANGED <<plan, gate, shutdown, parkWord, counts, mailbox, stack,
                 submitters, owner, fate, stale>>

TakeSteal(w) ==
  /\ stack[w] = {} /\ mailbox[w] = {} /\ inject = {}
  /\ \E v \in plan.workers \ {w} : \E j \in stack[v] :
       Begin(w, j) /\ stack' = [stack EXCEPT ![v] = @ \ {j}]
  /\ UNCHANGED <<plan, gate, shutdown, parkWord, counts, inject, mailbox,
                 submitters, owner, fate, stale>>

(* variant: a worker that has found nothing to do leaves its loop *)
TakeNothingLeaves(w) ==
  /\ inject = {} /\ mailbox[w] = {} /\ \A v \in plan.workers : stack[v] = {}
  /\ WorkerAt(w, "look", "exited")
  /\ UNCHANGED <<plan, gate, shutdown, parkWord, counts, queues, running,
                 submitters, owner, fate, stale>>

TakeNothing(w) ==
  /\ inject = {} /\ mailbox[w] = {} /\ \A v \in plan.workers : stack[v] = {}
  /\ WorkerAt(w, "look", "loop")
  /\ UNCHANGED <<plan, gate, shutdown, parkWord, counts, queues, running,
                 submitters, owner, fate, stale>>

(* The job makes a coroutine go on later: onto the stack, else into the    *)
(* injection queue, else nowhere.                                          *)
Reschedule(w) ==
  /\ at[w] = "run" /\ running[w] \in Jobs
  /\ \E r \in plan.resumes :
       /\ fate[r] = "caller"
       /\ LET onStack == Cardinality(stack[w]) < StackCap
              injected == ~ onStack /\ Cardinality(inject) < plan.cap
          IN  /\ stack' = [stack EXCEPT ![w] = IF onStack THEN @ \cup {r} ELSE @]
              /\ inject' = IF injected THEN inject \cup {r} ELSE inject
              /\ fate' = [fate EXCEPT ![r] = IF onStack \/ injected THEN "pending"
                                             ELSE "dropped"]
  /\ UNCHANGED <<plan, gate, shutdown, parkWord, counts, mailbox, workers,
                 submitters, owner, stale>>

(* Run, released, counted: a resumption like any other job. *)
RunJob(w) ==
  /\ WorkerAt(w, "run", "loop")
  /\ fate' = [fate EXCEPT ![running[w]] = "done"]
  /\ running' = [running EXCEPT ![w] = None]
  /\ completed' = completed + 1
  /\ UNCHANGED <<plan, gate, shutdown, parkWord, submitted, queues, submitters,
                 owner, stale>>

Worker(w) == \/ WorkerCheck(w) \/ TakeStack(w) \/ TakeMailbox(w) \/ TakeInject(w)
             \/ TakeSteal(w) \/ TakeNothing(w) \/ RunJob(w)

-----------------------------------------------------------------------------
(* start, pump and stop, called by the thread that owns the manager *)

OpGoto(from, to) == op = from /\ op' = to

(* The gate's word becomes zero, whoever is inside.  Jobs may have been     *)
(* submitted before the first start.                                       *)
Start ==
  /\ OpGoto("idle", "idle")
  /\ starts = 0 \/ phase = "stopped"
  /\ starts < plan.starts
  /\ starts' = starts + 1
  /\ phase' = "running" /\ word' = 0
  /\ stale' = (stale \/ Inside # 0)
  /\ IF Threadless THEN UNCHANGED <<shutdown, parkWord, at>>
     ELSE /\ shutdown' = FALSE /\ parkWord' = 0
          /\ at' = [w \in Workers |-> IF w \in plan.workers THEN "loop" ELSE "exited"]
  /\ UNCHANGED <<plan, counts, queues, running, submitters, mode, target, gaveUp,
                 todo, fate>>

(* Threadless, whoever owns the manager runs the jobs. *)
PumpOne ==
  /\ \E j \in inject : /\ inject' = inject \ {j}
                       /\ fate' = [fate EXCEPT ![j] = "done"]
  /\ completed' = completed + 1
  /\ UNCHANGED <<plan, gate, shutdown, parkWord, submitted, mailbox, stack, workers,
                 submitters, stale>>

Pump ==
  /\ op = "idle" /\ phase = "running" /\ Threadless
  /\ PumpOne
  /\ UNCHANGED owner

Stop(m) ==
  /\ OpGoto("idle", "close")
  /\ phase = "running" /\ m \in plan.modes
  /\ plan.early \/ starts > 0
  /\ mode' = m /\ gaveUp' = FALSE
  /\ phase' = IF m = "drain" THEN "draining" ELSE "aborting"
  /\ UNCHANGED <<plan, word, shutdown, parkWord, counts, queues, workers,
                 submitters, target, todo, starts, fate, stale>>

Places == {<<"inject", None>>} \cup ({"mailbox", "stack"} \X plan.workers)

StopClose ==
  /\ OpGoto("close", IF mode = "drain" THEN "empty"
                     ELSE IF Threadless THEN "discard" ELSE "halt")
  /\ word' = IF Closed THEN word ELSE word + Half
  /\ todo' = Places
  /\ UNCHANGED <<plan, phase, shutdown, parkWord, counts, queues, workers,
                 submitters, mode, target, gaveUp, starts, fate, stale>>

(* variant: the target is read without waiting for submissions under way *)
StopEmptyHasty ==
  /\ OpGoto("empty", "snapshot")
  /\ UNCHANGED gaveUp
  /\ UNCHANGED <<plan, gate, shutdown, parkWord, counts, queues, workers,
                 submitters, mode, target, todo, starts, fate, stale>>

(* wait_empty gives up after its spins. *)
StopEmpty ==
  /\ OpGoto("empty", "snapshot")
  /\ gaveUp' = (gaveUp \/ Inside # 0)
  /\ UNCHANGED <<plan, gate, shutdown, parkWord, counts, queues, workers,
                 submitters, mode, target, todo, starts, fate, stale>>

StopSnapshot ==
  /\ OpGoto("snapshot", IF Threadless THEN "pump" ELSE "drain")
  /\ target' = submitted
  /\ UNCHANGED <<plan, gate, shutdown, parkWord, counts, queues, workers,
                 submitters, mode, gaveUp, todo, starts, fate, stale>>

StopPump ==
  /\ op = "pump" /\ PumpOne
  /\ UNCHANGED owner

StopPumped ==
  /\ inject = {}
  /\ OpGoto("pump", "stopped")
  /\ UNCHANGED <<plan, gate, shutdown, parkWord, counts, queues, workers,
                 submitters, mode, target, gaveUp, todo, starts, fate, stale>>

(* drain gives up after its spins, too. *)
StopDrain ==
  /\ OpGoto("drain", "halt")
  /\ gaveUp' = (gaveUp \/ completed < target)
  /\ UNCHANGED <<plan, gate, shutdown, parkWord, counts, queues, workers,
                 submitters, mode, target, todo, starts, fate, stale>>

StopHalt ==
  /\ OpGoto("halt", "wake")
  /\ shutdown' = TRUE
  /\ UNCHANGED <<plan, gate, parkWord, counts, queues, workers, submitters, mode,
                 target, gaveUp, todo, starts, fate, stale>>

(* unpark_all on submit_park_ *)
StopWake ==
  /\ OpGoto("wake", "join")
  /\ parkWord' = parkWord + 1
  /\ pc' = [s \in Submitters |-> IF pc[s] = "asleep" THEN "route" ELSE pc[s]]
  /\ UNCHANGED <<plan, gate, shutdown, counts, queues, workers, call, my, expected,
                 mode, target, gaveUp, todo, starts, fate, stale>>

StopJoin ==
  /\ OpGoto("join", IF mode = "abort" THEN "discard" ELSE "stopped")
  /\ \A w \in plan.workers : at[w] = "exited"
  /\ UNCHANGED <<plan, gate, shutdown, parkWord, counts, queues, workers,
                 submitters, mode, target, gaveUp, todo, starts, fate, stale>>

(* discard_pending_jobs, a queue a step: the injection queue, then each    *)
(* worker's mailbox and stack.                                             *)
StopDiscard ==
  /\ op = "discard"
  /\ LET p == IF <<"inject", None>> \in todo THEN <<"inject", None>>
              ELSE CHOOSE q \in todo : TRUE
         gone == IF p[1] = "inject" THEN inject
                 ELSE IF p[1] = "mailbox" THEN mailbox[p[2]] ELSE stack[p[2]]
     IN  /\ inject' = IF p[1] = "inject" THEN {} ELSE inject
         /\ mailbox' = [w \in Workers |-> IF p = <<"mailbox", w>> THEN {} ELSE mailbox[w]]
         /\ stack' = [w \in Workers |-> IF p = <<"stack", w>> THEN {} ELSE stack[w]]
         /\ fate' = [j \in All |-> IF j \in gone THEN "discarded" ELSE fate[j]]
         /\ todo' = todo \ {p} /\ gaveUp' = (gaveUp \/ Inside # 0)
         /\ op' = IF todo = {p} THEN "stopped" ELSE op
  /\ UNCHANGED <<plan, gate, shutdown, parkWord, counts, workers, submitters, mode,
                 target, starts, stale>>

StopStopped ==
  /\ OpGoto("stopped", "idle")
  /\ phase' = "stopped"
  /\ UNCHANGED <<plan, word, shutdown, parkWord, counts, queues, workers,
                 submitters, mode, target, gaveUp, todo, starts, fate, stale>>

Stops == \/ StopClose \/ StopEmpty \/ StopSnapshot \/ StopPump \/ StopPumped
         \/ StopDrain \/ StopHalt \/ StopWake \/ StopJoin \/ StopDiscard
         \/ StopStopped

-----------------------------------------------------------------------------
Next ==
  \/ \E s \in Submitters : Submitter(s)
  \/ \E s \in plan.submitters, c \in plan.calls : SubmitCall(s, c)
  \/ \E w \in plan.workers : Worker(w) \/ Reschedule(w)
  \/ Start \/ Pump \/ (\E m \in plan.modes : Stop(m)) \/ Stops

Spec == Init /\ [][Next]_vars

(* Calls that have begun go on, and workers run; that anybody calls start, *)
(* stop or pump is the application's business.                             *)
FairSpec ==
  /\ Spec
  /\ \A s \in Submitters : WF_vars(Submitter(s))
  /\ \A w \in Workers : WF_vars(w \in plan.workers /\ Worker(w))
  /\ WF_vars(Stops)

-----------------------------------------------------------------------------
(* Properties *)

TypeOK ==
  /\ phase \in {"running", "draining", "aborting", "stopped"}
  /\ word \in 0..(2 * Half - 1) /\ submitted \in 0..Cardinality(Jobs)
  /\ \A w \in Workers : Cardinality(mailbox[w]) <= plan.cap /\ Cardinality(stack[w]) <= StackCap
  /\ Cardinality(inject) <= plan.cap
  /\ running \in [Workers -> All \cup {None}] /\ my \in [Submitters -> Jobs \cup {None}]
  /\ fate \in [All -> {"caller", "refused", "pending", "done", "discarded", "dropped"}]

PlacesOf(j) ==
  {p \in {<<"inject", None>>} : j \in inject}
    \cup ({"mailbox"} \X {w \in Workers : j \in mailbox[w]})
    \cup ({"stack"} \X {w \in Workers : j \in stack[w]})
    \cup ({"run"} \X {w \in Workers : running[w] = j})

(* A job that was taken on is in one place until it has run or was given   *)
(* up, a job that was refused is nowhere, and the two counters drain       *)
(* compares are exact but for submissions that have not counted yet.       *)
JobsAccounted ==
  /\ TypeOK
  /\ \A j \in All : Cardinality(PlacesOf(j)) = IF fate[j] = "pending" THEN 1 ELSE 0
  /\ completed = Cardinality({j \in All : fate[j] = "done"})
  /\ Cardinality({j \in Jobs : fate[j] \notin {"caller", "refused"}})
       = submitted + Cardinality({s \in Submitters : pc[s] = "count"})

(* A stop that has waited for everybody leaves no job behind: after a      *)
(* drain all have run, after an abort they are discarded.  A drain does so *)
(* only where no resumption was counted as a completed job, and either     *)
(* only where no start has opened the gate over a submission.              *)
StopSettles ==
  /\ phase = "stopped" /\ ~ gaveUp /\ ~ stale
  /\ mode = "drain" => \A r \in Resumes : fate[r] = "caller"
  => \A j \in Jobs : fate[j] # "pending"

(* A submission returns, where a park ends at its timeout, if start has    *)
(* been called, and a stop returns whatever it meets.                      *)
CallsReturn ==
  /\ \A s \in Submitters : (plan.timed /\ starts > 0 /\ pc[s] # "idle") ~> (pc[s] = "idle")
  /\ (op # "idle") ~> (op = "idle")

(* What was taken on is run once start has been called, unless the manager *)
(* is stopped first.                                                       *)
AcceptedRuns ==
  LET pending == \E j \in Jobs : fate[j] = "pending"
  IN  (~ Threadless /\ starts > 0 /\ pending) ~> (~ pending \/ Stopping)
=============================================================================
