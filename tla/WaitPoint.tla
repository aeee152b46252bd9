----------------------------- MODULE WaitPoint -----------------------------
(***************************************************************************)
(* A coroutine that waits for a counter to reach zero: counter and its     *)
(* waiter_list in include/thread/base/sync.hpp, counter_awaiter and        *)
(* resume_waiter in execution/coroutine.hpp.  An event is the counter with *)
(* one unit: trigger lets only the first caller through, event::           *)
(* attach_waiter and event_awaiter are the same code.                      *)
(*                                                                         *)
(* Three parties meet: the waiter that checks, joins the list and checks   *)
(* again; the thread that completes the last unit and takes the list; and  *)
(* another waiter that found the counter ready after joining and takes the *)
(* list too.  Whoever takes the list wakes what is on it, except itself.   *)
(***************************************************************************)
EXTENDS Integers, Sequences, FiniteSets, SequencesExt

CONSTANTS
  Waiters,     (* coroutines, each awaiting the counter once               *)
  Completers,  (* threads, each completing one unit                        *)
  Units        (* the value the counter is initialised with                *)

ASSUME WaitAssumption ==
  /\ Waiters \cap Completers = {}
  /\ Units \in Nat \ {0}

VARIABLES
  count,     (* pending_ of the counter                                    *)
  list,      (* the nodes on waiters_, in the order drain returns them     *)
  signalled, (* signalled_ of each waiter's node                           *)
  armed,     (* handle_ # nullptr of each resume_waiter                    *)
  suspended, (* suspended_ of each resume_waiter                           *)
  pending,   (* pending_resume_ of each resume_waiter                      *)
  pc,        (* where each waiter is in await_suspend, each completer in   *)
             (* complete_one                                               *)
  todo,      (* the drained nodes each thread has still to wake            *)
  waking,    (* how far each thread is in waking the first of them         *)
  continued  (* how often each coroutine has gone on behind its co_await   *)

vars == <<count, list, signalled, armed, suspended, pending, pc, todo, waking,
          continued>>

Threads == Waiters \cup Completers

Init ==
  /\ count = Units
  /\ list = << >>
  /\ signalled = [c \in Waiters |-> FALSE]
  /\ armed = [c \in Waiters |-> FALSE]
  /\ suspended = [c \in Waiters |-> FALSE]
  /\ pending = [c \in Waiters |-> FALSE]
  /\ pc = [t \in Threads |-> IF t \in Waiters THEN "await" ELSE "complete"]
  /\ todo = [t \in Threads |-> << >>]
  /\ waking = [t \in Threads |-> "node"]
  /\ continued = [c \in Waiters |-> 0]

Ready == count = 0

Goto(t, from, to) == pc[t] = from /\ pc' = [pc EXCEPT ![t] = to]

Continue(c) == continued' = [continued EXCEPT ![c] = @ + 1]

-----------------------------------------------------------------------------
(* Taking the list and waking what is on it: drain, waiter_list_wake and   *)
(* waiter_list_wake_except (with the node the thread has pushed itself).   *)

Elements(s) == {s[i] : i \in DOMAIN s}

(* A node is on the list once at most. *)
Without(s, c) ==
  IF c \in Elements(s) THEN RemoveAt(s, CHOOSE i \in DOMAIN s : s[i] = c) ELSE s

Drain(t, skip) ==
  /\ list' = << >>
  /\ todo' = [todo EXCEPT ![t] = Without(list, skip)]

(* The node of the waiter that found the counter ready counts as spent.    *)
WakeNode(t) ==
  /\ todo[t] # << >> /\ waking[t] = "node"
  /\ LET c == Head(todo[t])
     IN  IF signalled[c]
           THEN todo' = [todo EXCEPT ![t] = Tail(@)] /\ UNCHANGED <<signalled, waking>>
           ELSE /\ signalled' = [signalled EXCEPT ![c] = TRUE]
                /\ waking' = [waking EXCEPT ![t] = "exchange"]
                /\ UNCHANGED todo
  /\ UNCHANGED <<count, list, armed, suspended, pending, pc, continued>>

Woken(t) ==
  /\ todo' = [todo EXCEPT ![t] = Tail(@)]
  /\ waking' = [waking EXCEPT ![t] = "node"]

(* variant: word is left although the coroutine is resumed *)
WakeResumeTwice(t) ==
  /\ waking[t] = "exchange"
  /\ LET c == Head(todo[t])
     IN  /\ suspended[c]
         /\ suspended' = [suspended EXCEPT ![c] = FALSE]
         /\ pending' = [pending EXCEPT ![c] = TRUE]
         /\ IF armed[c] THEN Continue(c) ELSE UNCHANGED continued
  /\ Woken(t)
  /\ UNCHANGED <<count, list, signalled, armed, pc>>

(* resume_waiter_wake finds the coroutine suspended and resumes it ... *)
WakeResume(t) ==
  /\ waking[t] = "exchange"
  /\ LET c == Head(todo[t])
     IN  /\ suspended[c]
         /\ suspended' = [suspended EXCEPT ![c] = FALSE]
         /\ IF armed[c] THEN Continue(c) ELSE UNCHANGED continued
  /\ Woken(t)
  /\ UNCHANGED <<count, list, signalled, armed, pending, pc>>

(* ... or not yet, and leaves word in pending_resume_, a store of its own. *)
WakeTooEarly(t) ==
  /\ waking[t] = "exchange"
  /\ ~ suspended[Head(todo[t])]
  /\ waking' = [waking EXCEPT ![t] = "pending"]
  /\ UNCHANGED <<count, list, signalled, armed, suspended, pending, pc, todo,
                 continued>>

WakePending(t) ==
  /\ waking[t] = "pending"
  /\ pending' = [pending EXCEPT ![Head(todo[t])] = TRUE]
  /\ Woken(t)
  /\ UNCHANGED <<count, list, signalled, armed, suspended, pc, continued>>

Wake(t) == WakeNode(t) \/ WakeResume(t) \/ WakeTooEarly(t) \/ WakePending(t)

-----------------------------------------------------------------------------
(* A completer: complete_one *)

(* The thread that takes the last unit drains the list. *)
Complete(s) ==
  /\ count > 0
  /\ Goto(s, "complete", IF count = 1 THEN "drain" ELSE "done")
  /\ count' = count - 1
  /\ UNCHANGED <<list, signalled, armed, suspended, pending, todo, waking, continued>>

CompleteDrain(s) ==
  /\ Goto(s, "drain", "done")
  /\ Drain(s, s)
  /\ UNCHANGED <<count, signalled, armed, suspended, pending, waking, continued>>

-----------------------------------------------------------------------------
(* A waiter: await_ready, await_suspend and attach_waiter *)

(* The counter is ready before the waiter has joined the list (await_ready, *)
(* the check in await_suspend, the first check of attach_waiter).           *)
AwaitReady(c) ==
  /\ Ready
  /\ \/ Goto(c, "await", "done") /\ UNCHANGED armed
     \/ Goto(c, "attach", "done") /\ armed' = [armed EXCEPT ![c] = FALSE]
  /\ Continue(c)
  /\ UNCHANGED <<count, list, signalled, suspended, pending, todo, waking>>

AwaitArm(c) ==
  /\ ~ Ready
  /\ Goto(c, "await", "attach")
  /\ armed' = [armed EXCEPT ![c] = TRUE]
  /\ pending' = [pending EXCEPT ![c] = FALSE]
  /\ UNCHANGED <<count, list, signalled, suspended, todo, waking, continued>>

AttachCheck(c) ==
  /\ ~ Ready
  /\ Goto(c, "attach", "push")
  /\ UNCHANGED <<count, list, signalled, armed, suspended, pending, todo, waking,
                 continued>>

AttachPush(c) ==
  /\ Goto(c, "push", "recheck")
  /\ list' = Append(list, c)
  /\ UNCHANGED <<count, signalled, armed, suspended, pending, todo, waking, continued>>

(* Ready by now: the waiter takes the list and does not suspend. *)
AttachRefuse(c) ==
  /\ Ready
  /\ Goto(c, "recheck", "refused")
  /\ Drain(c, c)
  /\ UNCHANGED <<count, signalled, armed, suspended, pending, waking, continued>>

(* variant: no second check behind the push *)
AttachAcceptBlind(c) ==
  /\ Goto(c, "recheck", "suspend")
  /\ UNCHANGED <<count, list, signalled, armed, suspended, pending, todo, waking,
                 continued>>

AttachAccept(c) ==
  /\ ~ Ready
  /\ Goto(c, "recheck", "suspend")
  /\ UNCHANGED <<count, list, signalled, armed, suspended, pending, todo, waking,
                 continued>>

(* The others on its list are woken first, then the waiter goes on. *)
AwaitRefused(c) ==
  /\ todo[c] = << >>
  /\ Goto(c, "refused", "done")
  /\ armed' = [armed EXCEPT ![c] = FALSE]
  /\ Continue(c)
  /\ UNCHANGED <<count, list, signalled, suspended, pending, todo, waking>>

AwaitSuspend(c) ==
  /\ Goto(c, "suspend", "pending")
  /\ suspended' = [suspended EXCEPT ![c] = TRUE]
  /\ UNCHANGED <<count, list, signalled, armed, pending, todo, waking, continued>>

(* A wake was too early for suspended_ and has left word. *)
AwaitPending(c) ==
  /\ pending[c]
  /\ Goto(c, "pending", "done")
  /\ suspended' = [suspended EXCEPT ![c] = FALSE]
  /\ armed' = [armed EXCEPT ![c] = FALSE]
  /\ Continue(c)
  /\ UNCHANGED <<count, list, signalled, pending, todo, waking>>

AwaitAsleep(c) ==
  /\ ~ pending[c]
  /\ Goto(c, "pending", "asleep")
  /\ UNCHANGED <<count, list, signalled, armed, suspended, pending, todo, waking,
                 continued>>

Await(c) ==
  \/ AwaitReady(c) \/ AwaitArm(c) \/ AttachCheck(c) \/ AttachPush(c)
  \/ AttachRefuse(c) \/ AttachAccept(c) \/ AwaitRefused(c) \/ AwaitSuspend(c)
  \/ AwaitPending(c) \/ AwaitAsleep(c)

-----------------------------------------------------------------------------
Next == \/ \E t \in Threads : Wake(t)
        \/ \E s \in Completers : Complete(s) \/ CompleteDrain(s)
        \/ \E c \in Waiters : Await(c)

Spec == Init /\ [][Next]_vars

(* Threads do not stop in the middle of a call; completing is the work's   *)
(* own business, but what has begun goes on.                               *)
FairSpec == /\ Spec
            /\ \A t \in Threads : WF_vars(Wake(t))
            /\ \A s \in Completers : WF_vars(CompleteDrain(s))
            /\ \A c \in Waiters : WF_vars(Await(c))

-----------------------------------------------------------------------------
(* Properties *)

TypeOK ==
  /\ count \in 0..Units
  /\ Elements(list) \subseteq Waiters
  /\ \A t \in Threads : Elements(todo[t]) \subseteq Waiters
  /\ signalled \in [Waiters -> BOOLEAN] /\ armed \in [Waiters -> BOOLEAN]
  /\ suspended \in [Waiters -> BOOLEAN] /\ pending \in [Waiters -> BOOLEAN]
  /\ waking \in [Threads -> {"node", "exchange", "pending"}]
  /\ continued \in [Waiters -> Nat]

(* A coroutine goes on behind its co_await at most once, although both the *)
(* waker and await_suspend itself can let it go on.                        *)
ContinuesOnce == \A c \in Waiters : continued[c] <= 1

(* No coroutine goes on before the counter has reached zero.               *)
NotBeforeZero == \A c \in Waiters : continued[c] > 0 => Ready

(* A node is in the hands of one thread: on the list once, or once on the  *)
(* list one thread has drained, however many threads drain at a time.      *)
NodeOnce ==
  \A c \in Waiters :
    Cardinality({i \in DOMAIN list : list[i] = c})
      + Cardinality({p \in Threads \X (1..Cardinality(Waiters)) :
                       p[2] \in DOMAIN todo[p[1]] /\ todo[p[1]][p[2]] = c}) <= 1

(* Nothing is woken twice: neither a coroutine nor a node.                 *)
WokenOnce == ContinuesOnce /\ NodeOnce

(* A coroutine that waits for a counter goes on at most once and not       *)
(* before the counter is zero, and its node is in the hands of one thread. *)
WokenOnceAtZero == TypeOK /\ WokenOnce /\ NotBeforeZero

(* The list protocol loses nobody: once the counter is zero, a waiter that *)
(* has joined the list is signalled, or was told not to suspend.           *)
LeftOnList(c) == Ready /\ c \in Elements(list)
Answered(c) == signalled[c] \/ continued[c] = 1
NobodyLeftOnList == \A c \in Waiters : LeftOnList(c) ~> Answered(c)
=============================================================================
