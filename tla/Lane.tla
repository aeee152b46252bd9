-------------------------------- MODULE Lane --------------------------------
(***************************************************************************)
(* Lanes, include/thread/execution/lane.hpp: queues of jobs beside the     *)
(* workers' own, for jobs that must keep their order.  An exclusive or     *)
(* pinned lane is bound to one worker, or to the callers of pump; a shared *)
(* lane is whoever's can take its ownership.  A word of the runtime,       *)
(* lane_ready_, tells which lanes to look at: a submission sets the bit,   *)
(* the pop that empties the lane clears it, looks again and sets it back   *)
(* if a submission has come in between.                                    *)
(*                                                                         *)
(* Who drains a lane is worker::try_drain_lanes and, for threads that call *)
(* manager::pump, pump_lanes.  MpmcQueue models the queue: here a push     *)
(* claims its place and publishes it later, and a pop is one step.  The    *)
(* gate that a submission passes is in Manager, parking in WorkerPark: a   *)
(* worker polls.                                                           *)
(***************************************************************************)
EXTENDS Integers, Sequences, FiniteSets, FiniteSetsExt

CONSTANTS
  Jobs, Submitters, Drainers, (* drainers: workers, and threads that pump  *)
  Pump,       (* manager_pump_owner, the owner all pumping threads share   *)
  Nobody,     (* lane_owner_none                                           *)
  LanePlans   (* how lanes are set up and used, one a behaviour            *)

(* bound: the worker of each lane, Pump, or Nobody for a shared lane;      *)
(* hidden: lanes past the 64 that have a bit, which are always looked at;  *)
(* pumping: the drainers that pump; job: the lane each job is for.         *)
LaneAssumption ==
  /\ \A p \in LanePlans :
       /\ DOMAIN p.bound \subseteq Nat /\ p.hidden \subseteq DOMAIN p.bound
       /\ p.pumping \subseteq p.drainers /\ p.drainers \subseteq Drainers
       /\ DOMAIN p.job \subseteq Jobs /\ \A j \in DOMAIN p.job : p.job[j] \in DOMAIN p.bound
       /\ p.room \in Nat \ {0}
  /\ Nobody \notin Jobs \cup Drainers /\ Pump \notin Drainers \cup {Nobody}

VARIABLES
  use,     (* the plan                                                     *)
  cells,   (* queue_ of each lane: jobs, and whether they are published    *)
  bits,    (* lane_ready_                                                  *)
  owner,   (* owner_ of each lane                                          *)
  fate,    (* what has become of each job                                  *)
  entered, (* history: the jobs of each lane in the order of their places  *)
  at,      (* what each thread does next                                   *)
  hand,    (* the job each thread has in hand                              *)
  ahead,   (* the lanes a drainer has still to look at                     *)
  lane     (* the lane a thread works on                                   *)

vars == <<use, cells, bits, owner, fate, entered, at, hand, ahead, lane>>

Lanes == DOMAIN use.bound
Shared(l) == use.bound[l] = Nobody
Me(d) == IF d \in use.pumping THEN Pump ELSE d

Init ==
  /\ use \in LanePlans
  /\ cells = [l \in Lanes |-> << >>] /\ entered = cells
  /\ bits = {}
  /\ owner = [l \in Lanes |-> Nobody]
  /\ fate = [j \in DOMAIN use.job |-> "caller"]
  /\ at = [t \in Submitters \cup Drainers |-> "idle"]
  /\ hand = [t \in Submitters \cup Drainers |-> Nobody]
  /\ ahead = [d \in Drainers |-> {}]
  /\ lane = [t \in Submitters \cup Drainers |-> 0]

Go(t, from, to) == at[t] = from /\ at' = [at EXCEPT ![t] = to]

MarkReady(l) == bits' = bits \cup ({l} \ use.hidden)
ClearReady(l) == bits' = bits \ {l}

-----------------------------------------------------------------------------
(* submit *)

SubmitClaim(s, j) ==
  /\ fate[j] = "caller" /\ Len(cells[use.job[j]]) < use.room
  /\ Go(s, "idle", "publish")
  /\ hand' = [hand EXCEPT ![s] = j]
  /\ lane' = [lane EXCEPT ![s] = use.job[j]]
  /\ cells' = [cells EXCEPT ![use.job[j]] = Append(@, [job |-> j, ready |-> FALSE])]
  /\ entered' = [entered EXCEPT ![use.job[j]] = Append(@, j)]
  /\ fate' = [fate EXCEPT ![j] = "queued"]
  /\ UNCHANGED <<use, bits, owner, ahead>>

(* The lane is full: the job stays with its caller. *)
SubmitFull(s, j) ==
  /\ at[s] = "idle" /\ fate[j] = "caller" /\ Len(cells[use.job[j]]) = use.room
  /\ fate' = [fate EXCEPT ![j] = "refused"]
  /\ UNCHANGED <<use, cells, bits, owner, entered, at, hand, ahead, lane>>

SubmitPublish(s) ==
  /\ Go(s, "publish", "mark")
  /\ cells' = [cells EXCEPT ![lane[s]] =
                 [i \in DOMAIN @ |-> IF @[i].job = hand[s] THEN [@[i] EXCEPT !.ready = TRUE]
                                                           ELSE @[i]]]
  /\ UNCHANGED <<use, bits, owner, fate, entered, hand, ahead, lane>>

SubmitMark(s) ==
  /\ Go(s, "mark", "idle")
  /\ MarkReady(lane[s])
  /\ hand' = [hand EXCEPT ![s] = Nobody]
  /\ UNCHANGED <<use, cells, owner, fate, entered, ahead, lane>>

(* A submission once begun comes to its end; fairness is stated for it.    *)
Submitting(s) == SubmitPublish(s) \/ SubmitMark(s)

Submitter(s) ==
  \/ \E j \in DOMAIN fate : SubmitClaim(s, j) \/ SubmitFull(s, j)
  \/ Submitting(s)

-----------------------------------------------------------------------------
(* Looking for a lane: try_drain_lanes and pump_lanes go through the bits  *)
(* as they were when they began.                                           *)

Look(d) ==
  /\ d \in use.drainers /\ bits \cup use.hidden # {}
  /\ Go(d, "idle", "scan")
  /\ ahead' = [ahead EXCEPT ![d] = bits \cup use.hidden]
  /\ UNCHANGED <<use, cells, bits, owner, fate, entered, hand, lane>>

LookedAtAll(d) ==
  /\ ahead[d] = {}
  /\ Go(d, "scan", "idle")
  /\ UNCHANGED <<use, cells, bits, owner, fate, entered, hand, ahead, lane>>

(* A lane that is bound to somebody else is passed over; so is, by a       *)
(* worker, an empty one.                                                   *)
Scan(d) ==
  /\ ahead[d] # {}
  /\ LET l == Min(ahead[d])
         mine == use.bound[l] = Me(d)
     IN  /\ Go(d, "scan", IF d \notin use.pumping /\ cells[l] = << >> THEN "scan"
                          ELSE IF Shared(l) \/ (mine /\ d \in use.pumping) THEN "acquire"
                          ELSE IF mine THEN "pop" ELSE "scan")
         /\ ahead' = [ahead EXCEPT ![d] = @ \ {l}]
         /\ lane' = [lane EXCEPT ![d] = l]
  /\ UNCHANGED <<use, cells, bits, owner, fate, entered, hand>>

(* variant: two threads that pump have the same owner, and so pass *)
AcquireSame(d) ==
  /\ Go(d, "acquire", IF owner[lane[d]] \in {Nobody, Me(d)} THEN "pop" ELSE "scan")
  /\ owner' = [owner EXCEPT ![lane[d]] = IF @ = Nobody THEN Me(d) ELSE @]
  /\ UNCHANGED <<use, cells, bits, fate, entered, hand, ahead, lane>>

Acquire(d) ==
  /\ Go(d, "acquire", IF owner[lane[d]] = Nobody THEN "pop" ELSE "scan")
  /\ owner' = [owner EXCEPT ![lane[d]] = IF @ = Nobody THEN Me(d) ELSE @]
  /\ UNCHANGED <<use, cells, bits, fate, entered, hand, ahead, lane>>

-----------------------------------------------------------------------------
(* try_pop *)

(* A worker has done with a shared lane once it has the job; a thread that *)
(* pumps keeps the lane while it runs the job.                             *)
AfterPop(d) == IF d \notin use.pumping /\ Shared(lane[d]) THEN "release" ELSE "run"

HeadReady(l) == cells[l] # << >> /\ Head(cells[l]).ready

Pop(d) ==
  /\ Go(d, "pop", "size")
  /\ HeadReady(lane[d])
  /\ hand' = [hand EXCEPT ![d] = Head(cells[lane[d]]).job]
  /\ fate' = [fate EXCEPT ![Head(cells[lane[d]]).job] = "taken"]
  /\ cells' = [cells EXCEPT ![lane[d]] = Tail(@)]
  /\ UNCHANGED <<use, bits, owner, entered, ahead, lane>>

PopNothing(d) ==
  /\ Go(d, "pop", IF owner[lane[d]] = Me(d) THEN "release" ELSE "scan")
  /\ ~HeadReady(lane[d])
  /\ UNCHANGED <<use, cells, bits, owner, fate, entered, hand, ahead, lane>>

PopSize(d) ==
  /\ Go(d, "size", IF cells[lane[d]] = << >> THEN "clear" ELSE AfterPop(d))
  /\ UNCHANGED <<use, cells, bits, owner, fate, entered, hand, ahead, lane>>

PopClear(d) ==
  /\ Go(d, "clear", "recheck")
  /\ ClearReady(lane[d])
  /\ UNCHANGED <<use, cells, owner, fate, entered, hand, ahead, lane>>

(* variant: a cleared bit is not looked at again *)
PopRecheckNot(d) ==
  /\ Go(d, "recheck", AfterPop(d))
  /\ UNCHANGED <<use, cells, bits, owner, fate, entered, hand, ahead, lane>>

PopRecheck(d) ==
  /\ Go(d, "recheck", IF cells[lane[d]] # << >> THEN "again" ELSE AfterPop(d))
  /\ UNCHANGED <<use, cells, bits, owner, fate, entered, hand, ahead, lane>>

PopAgain(d) ==
  /\ Go(d, "again", AfterPop(d))
  /\ MarkReady(lane[d])
  /\ UNCHANGED <<use, cells, owner, fate, entered, hand, ahead, lane>>

(* release_ownership; a worker then runs the job it has taken. *)
Release(d) ==
  /\ Go(d, "release", IF hand[d] = Nobody THEN "scan" ELSE "run")
  /\ owner' = [owner EXCEPT ![lane[d]] = IF @ = Me(d) THEN Nobody ELSE @]
  /\ UNCHANGED <<use, cells, bits, fate, entered, hand, ahead, lane>>

-----------------------------------------------------------------------------
(* The job runs.  A worker then looks for work anew; a thread that pumps   *)
(* goes on with the lane until its budget is spent.                        *)

Run(d) ==
  /\ Go(d, "run", "running")
  /\ fate' = [fate EXCEPT ![hand[d]] = "running"]
  /\ UNCHANGED <<use, cells, bits, owner, entered, hand, ahead, lane>>

Ran(d) ==
  /\ \E to \in IF d \in use.pumping THEN {"pop", "release"} ELSE {"idle"} :
       Go(d, "running", to)
  /\ fate' = [fate EXCEPT ![hand[d]] = "done"]
  /\ hand' = [hand EXCEPT ![d] = Nobody]
  /\ UNCHANGED <<use, cells, bits, owner, entered, ahead, lane>>

Drainer(d) ==
  \/ Look(d) \/ LookedAtAll(d) \/ Scan(d) \/ Acquire(d)
  \/ Pop(d) \/ PopNothing(d) \/ PopSize(d) \/ PopClear(d) \/ PopRecheck(d)
  \/ PopAgain(d) \/ Release(d) \/ Run(d) \/ Ran(d)

Next == (\E s \in Submitters : Submitter(s)) \/ (\E d \in Drainers : Drainer(d))

-----------------------------------------------------------------------------
(* What lanes are for: a job of a bound lane starts when all that entered  *)
(* the lane before it have ended; a shared lane gives its jobs out in      *)
(* their order, and they may overtake one another after that.              *)
InOrder ==
  \A l \in Lanes : \A i, k \in DOMAIN entered[l] :
    i < k => LET before == fate[entered[l][i]]
                 this   == fate[entered[l][k]]
             IN  IF Shared(l) THEN this # "queued" => before # "queued"
                              ELSE this \in {"running", "done"} => before = "done"

(* Whoever drains it, a job that has entered a lane is run. *)
Queued(j) == j \in DOMAIN fate /\ fate[j] = "queued"
Done(j) == j \in DOMAIN fate /\ fate[j] = "done"
=============================================================================
