----------------------------- MODULE WorkerPark -----------------------------
(***************************************************************************)
(* How an idle worker goes to sleep and how it is woken:                   *)
(* worker::idle_wait and park_once on one side, on the other every caller  *)
(* of unpark -- manager::submit through wake_worker, worker::wake_sibling  *)
(* after each job, and manager::stop.                                      *)
(*                                                                         *)
(* The module keeps one mailbox per worker and only counts the jobs in it. *)
(* TimedPark says whether the wait inside park_once ends by itself: on     *)
(* Windows WaitOnAddress is given default_park_ms, on Linux both futex     *)
(* branches of platform_wait pass a null timeout.                          *)
(*                                                                         *)
(* unpark_other stores the wake word with release and loads parks_ with    *)
(* acquire, with no fence between them, so the store may become visible    *)
(* after the load.  A stored word therefore waits in its thread's buffer   *)
(* until Drain makes it visible; a read-modify-write and a system call of  *)
(* the thread wait for the buffer, as on x86.  The other stores need none: *)
(* a job that is seen late in its mailbox, or a late shutdown_, looks like *)
(* a worker that looked just before.                                       *)
(***************************************************************************)
EXTENDS Integers, FiniteSets

CONSTANTS
  Workers, Submitters,
  Stopper,     (* the thread that calls stop(stop_mode::drain)             *)
  None,
  MaxJobs,     (* how many jobs are submitted in all (bound)               *)
  TimedPark,   (* does a wait in park_once time out?                       *)
  WithStop     (* is the pool stopped in this instance?                    *)

ASSUME ParkAssumption ==
  /\ Stopper \notin Workers \cup Submitters
  /\ Workers \cap Submitters = {}
  /\ MaxJobs \in Nat
  /\ TimedPark \in BOOLEAN /\ WithStop \in BOOLEAN

VARIABLES
  mailbox,   (* mailbox_.size() of each worker                             *)
  word,      (* park_.word_                                                *)
  parks,     (* park_.parks_                                               *)
  asleep,    (* is the worker inside platform_wait?                        *)
  pc,        (* where each worker is in run_loop, idle_wait and park_once  *)
  expected,  (* the wake word each worker read in idle_wait                *)
  wake,      (* how far each thread is in waking somebody                  *)
  stores,    (* the wake words each thread has stored and nobody sees yet  *)
  submitted, executed,
  closing,   (* stop has closed the submission gate                        *)
  shutdown,  (* shutdown_                                                  *)
  late       (* history: while the worker slept, a store of its word       *)
             (* became visible after its thread had looked at parks_       *)

vars == <<mailbox, word, parks, asleep, pc, expected, wake, stores, submitted,
          executed, closing, shutdown, late>>

Threads == Workers \cup Submitters \cup {Stopper}
Awake   == [stage |-> "none", target |-> None, seen |-> 0, left |-> {}]

Init ==
  /\ mailbox = [w \in Workers |-> 0]
  /\ word = [w \in Workers |-> 0]
  /\ parks = [w \in Workers |-> 0]
  /\ asleep = [w \in Workers |-> FALSE]
  /\ pc = [w \in Workers |-> "run"]
  /\ expected = [w \in Workers |-> 0]
  /\ wake = [t \in Threads |-> Awake]
  /\ stores = [t \in Threads |-> {}]
  /\ submitted = 0 /\ executed = 0
  /\ closing = FALSE /\ shutdown = FALSE
  /\ late = [w \in Workers |-> FALSE]

-----------------------------------------------------------------------------
(* Waking somebody.  wake_worker and wake_sibling look at is_parked first, *)
(* stop calls unpark without looking.                                      *)

InWake(t)     == wake[t].stage # "none"
Stage(t, from, to) ==
  /\ wake[t].stage = from
  /\ wake' = [wake EXCEPT ![t].stage = to]

(* Nothing that the thread stored is still on its way. *)
Drained(t) == stores[t] = {}

Unwatched == <<mailbox, parks, pc, expected, submitted, executed, closing, shutdown>>
Memory    == <<word, stores, late>>

(* is_parked() is false: nobody is woken *)
WakeSkip(t) ==
  /\ wake[t].stage = "gate"
  /\ parks[wake[t].target] = 0
  /\ wake' = [wake EXCEPT ![t] = Awake]
  /\ UNCHANGED <<Memory, asleep, Unwatched>>

WakeGate(t) ==
  /\ Stage(t, "gate", "load")
  /\ parks[wake[t].target] # 0
  /\ UNCHANGED <<Memory, asleep, Unwatched>>

(* unpark reads the word and passes word + 1 to unpark_other: not atomic.  *)
(* The thread has no store of its own to that word on its way: the push or *)
(* the pop of a job drained its buffer, and stop names each worker once.   *)
WakeLoad(t) ==
  /\ wake[t].stage = "load"
  /\ wake' = [wake EXCEPT ![t].stage = "store", ![t].seen = word[wake[t].target]]
  /\ UNCHANGED <<Memory, asleep, Unwatched>>

WakeStore(t) ==
  /\ wake[t].stage = "store"
  /\ wake' = [wake EXCEPT ![t].stage = "parks", ![t].seen = 0]
  /\ stores' = [stores EXCEPT ![t] =
                  @ \cup {[target |-> wake[t].target, value |-> wake[t].seen + 1]}]
  /\ UNCHANGED <<word, late, asleep, Unwatched>>

(* The thread has yet to look at the worker's parks_, or to wake it. *)
ToLook(t, w) == wake[t].target = w /\ wake[t].stage \in {"parks", "wake"}

(* A stored word becomes visible. *)
Drain(t) ==
  \E s \in stores[t] :
    /\ stores' = [stores EXCEPT ![t] = @ \ {s}]
    /\ word' = [word EXCEPT ![s.target] = s.value]
    /\ late' = [late EXCEPT ![s.target] =
                  @ \/ (asleep[s.target] /\ ~ ToLook(t, s.target))]
    /\ UNCHANGED <<wake, asleep, Unwatched>>

(* stop goes on to the next worker, the other callers are done *)
Onward(left) ==
  IF left = {} THEN Awake
  ELSE LET w == CHOOSE v \in left : TRUE
       IN  [Awake EXCEPT !.stage = "load", !.target = w, !.left = left \ {w}]

WakeNext(t) == wake' = [wake EXCEPT ![t] = Onward(wake[t].left)]

WakeNobody(t) ==
  /\ wake[t].stage = "parks"
  /\ parks[wake[t].target] = 0
  /\ WakeNext(t)
  /\ UNCHANGED <<Memory, asleep, Unwatched>>

WakeSleeper(t) ==
  /\ Stage(t, "parks", "wake")
  /\ parks[wake[t].target] # 0
  /\ UNCHANGED <<Memory, asleep, Unwatched>>

Rouse(w) ==
  /\ asleep' = [asleep EXCEPT ![w] = FALSE]
  /\ late' = [late EXCEPT ![w] = FALSE]

WakeFutex(t) ==
  /\ wake[t].stage = "wake" /\ Drained(t)
  /\ Rouse(wake[t].target)
  /\ WakeNext(t)
  /\ UNCHANGED <<word, stores, Unwatched>>

Wake(t) == \/ WakeSkip(t) \/ WakeGate(t) \/ WakeLoad(t) \/ WakeStore(t)
           \/ WakeNobody(t) \/ WakeSleeper(t) \/ WakeFutex(t)

-----------------------------------------------------------------------------
(* A submitter: route the job into a mailbox, then wake that worker. *)

Submit(s, w) ==
  /\ ~ InWake(s) /\ Drained(s)
  /\ ~ closing
  /\ submitted < MaxJobs
  /\ mailbox' = [mailbox EXCEPT ![w] = @ + 1]
  /\ submitted' = submitted + 1
  /\ wake' = [wake EXCEPT ![s] = [Awake EXCEPT !.stage = "gate", !.target = w]]
  /\ UNCHANGED <<Memory, parks, asleep, pc, expected, executed, closing, shutdown>>

-----------------------------------------------------------------------------
(* A worker *)

At(w, from) == pc[w] = from /\ ~ InWake(w)
Goto(w, from, to) == At(w, from) /\ pc' = [pc EXCEPT ![w] = to]

(* The word that idle_wait read is forgotten when it returns. *)
Step(w, from, to) ==
  /\ Goto(w, from, to)
  /\ expected' = [expected EXCEPT ![w] = IF to = "run" THEN 0 ELSE @]

(* A job is run, and then a parked sibling is looked for. *)
RunJob(w) ==
  /\ At(w, "run") /\ Drained(w)
  /\ ~ shutdown
  /\ mailbox[w] > 0
  /\ mailbox' = [mailbox EXCEPT ![w] = @ - 1]
  /\ executed' = executed + 1
  /\ \/ \E v \in Workers \ {w} :
          wake' = [wake EXCEPT ![w] = [Awake EXCEPT !.stage = "gate", !.target = v]]
     \/ Workers = {w} /\ UNCHANGED wake
  /\ UNCHANGED <<Memory, parks, asleep, pc, expected, submitted, closing, shutdown>>

Exit(w) ==
  /\ shutdown
  /\ Step(w, "run", "exited")
  /\ UNCHANGED <<mailbox, Memory, parks, asleep, wake, submitted,
                 executed, closing, shutdown>>

(* Nothing found: idle_wait reads shutdown_, ... *)
IdleShutdown(w) ==
  /\ ~ shutdown /\ mailbox[w] = 0
  /\ Step(w, "run", "word")
  /\ UNCHANGED <<mailbox, Memory, parks, asleep, wake, submitted,
                 executed, closing, shutdown>>

(* ... then the wake word, ... *)
IdleWord(w) ==
  /\ Goto(w, "word", "has_work")
  /\ expected' = [expected EXCEPT ![w] = word[w]]
  /\ UNCHANGED <<mailbox, Memory, parks, asleep, wake, submitted, executed,
                 closing, shutdown>>

(* ... then looks for work, ... *)
IdleCheck(w) ==
  /\ Step(w, "has_work", IF mailbox[w] > 0 THEN "run" ELSE "park")
  /\ UNCHANGED <<mailbox, Memory, parks, asleep, wake, submitted,
                 executed, closing, shutdown>>

(* ... and parks: if the word is still the expected one ... *)
ParkBegin(w) ==
  /\ Step(w, "park", IF word[w] # expected[w] THEN "run" ELSE "register")
  /\ UNCHANGED <<mailbox, Memory, parks, asleep, wake, submitted,
                 executed, closing, shutdown>>

(* ... the worker is counted as parked, ... *)
ParkRegister(w) ==
  /\ Drained(w)
  /\ Step(w, "register", "snapshot")
  /\ parks' = [parks EXCEPT ![w] = @ + 1]
  /\ UNCHANGED <<mailbox, Memory, asleep, wake, submitted, executed,
                 closing, shutdown>>

(* ... the word is read again, ... *)
ParkSnapshot(w) ==
  /\ Step(w, "snapshot", IF word[w] = expected[w] THEN "wait" ELSE "leave")
  /\ UNCHANGED <<mailbox, Memory, parks, asleep, wake, submitted,
                 executed, closing, shutdown>>

(* variant: the thread sleeps without a last comparison *)
ParkWaitBlind(w) ==
  /\ Step(w, "wait", "leave")
  /\ asleep' = [asleep EXCEPT ![w] = TRUE]
  /\ UNCHANGED <<mailbox, Memory, parks, wake, submitted, executed,
                 closing, shutdown>>

(* ... and the kernel compares it once more before it lets the thread sleep. *)
ParkWait(w) ==
  /\ Step(w, "wait", "leave")
  /\ asleep' = [asleep EXCEPT ![w] = (word[w] = expected[w])]
  /\ UNCHANGED <<mailbox, Memory, parks, wake, submitted, executed,
                 closing, shutdown>>

ParkTimeout(w) ==
  /\ TimedPark /\ asleep[w]
  /\ Rouse(w)
  /\ UNCHANGED <<mailbox, word, stores, parks, pc, expected, wake, submitted, executed,
                 closing, shutdown>>

(* variant: the worker waits again until the word changes *)
ParkAgain(w) ==
  /\ ~ asleep[w]
  /\ Step(w, "leave", IF word[w] = expected[w] THEN "park" ELSE "run")
  /\ parks' = [parks EXCEPT ![w] = @ - 1]
  /\ UNCHANGED <<mailbox, Memory, asleep, wake, submitted, executed,
                 closing, shutdown>>

ParkLeave(w) ==
  /\ ~ asleep[w]
  /\ Step(w, "leave", "run")
  /\ parks' = [parks EXCEPT ![w] = @ - 1]
  /\ UNCHANGED <<mailbox, Memory, asleep, wake, submitted, executed,
                 closing, shutdown>>

Worker(w) ==
  \/ RunJob(w) \/ Exit(w) \/ IdleShutdown(w) \/ IdleWord(w) \/ IdleCheck(w)
  \/ ParkBegin(w) \/ ParkRegister(w) \/ ParkSnapshot(w) \/ ParkWait(w)
  \/ ParkTimeout(w) \/ ParkLeave(w)

-----------------------------------------------------------------------------
(* stop(drain): close the gate, wait for the submitters and for the jobs   *)
(* (giving up after drain's 2000000 rounds), set shutdown_, unpark every   *)
(* worker in turn, and join them.                                          *)

StopClose ==
  /\ WithStop /\ ~ closing
  /\ closing' = TRUE
  /\ UNCHANGED <<mailbox, Memory, parks, asleep, pc, expected, wake, submitted,
                 executed, shutdown>>

StopShutdown ==
  /\ closing /\ ~ shutdown
  /\ \A s \in Submitters : ~ InWake(s)
  /\ shutdown' = TRUE
  /\ wake' = [wake EXCEPT ![Stopper] = Onward(Workers)]
  /\ UNCHANGED <<mailbox, Memory, parks, asleep, pc, expected, submitted,
                 executed, closing>>

-----------------------------------------------------------------------------
(* What a thread does by itself: it goes on waking somebody, the words it  *)
(* stored become visible, and a worker goes on in its loop.                *)
Goes(t) == Wake(t) \/ Drain(t) \/ (t \in Workers /\ Worker(t))

Next ==
  \/ \E t \in Threads : Goes(t)
  \/ \E s \in Submitters, w \in Workers : Submit(s, w)
  \/ StopClose \/ StopShutdown

Spec == Init /\ [][Next]_vars

(* Every thread keeps running; nobody has to submit or to stop the pool.   *)
FairSpec == Spec /\ WF_vars(StopShutdown) /\ \A t \in Threads : WF_vars(Goes(t))

-----------------------------------------------------------------------------
(* Properties *)

TypeOK ==
  /\ mailbox \in [Workers -> 0..MaxJobs]
  /\ word \in [Workers -> Nat] /\ expected \in [Workers -> Nat]
  /\ parks \in [Workers -> 0..1]
  /\ asleep \in [Workers -> BOOLEAN]
  /\ submitted \in 0..MaxJobs /\ executed \in 0..submitted
  /\ closing \in BOOLEAN /\ shutdown \in BOOLEAN
  /\ \A t \in Threads : \A s \in stores[t] : s.target \in Workers /\ s.value \in Nat
  /\ late \in [Workers -> BOOLEAN]

(* A worker that sleeps although its wake word has moved on is about to be *)
(* woken, unless the word moved after its writer had looked at parks_:     *)
(* unpark_other stores the word before it looks, and park_once counts      *)
(* itself before it looks at the word, but nothing keeps the store ahead   *)
(* of the look.                                                            *)
NoSleepThroughUnpark ==
  /\ TypeOK
  /\ \A w \in Workers :
       asleep[w] /\ word[w] # expected[w] => late[w] \/ \E t \in Threads : ToLook(t, w)

(* The jobs that submit accepted are all run, unless a stop begins.        *)
SubmittedRuns == (executed < submitted) ~> (executed = submitted \/ closing)

(* stop sets shutdown_ and joins the workers: they all leave their loop.   *)
StopJoins == shutdown ~> (\A w \in Workers : pc[w] = "exited")
=============================================================================
