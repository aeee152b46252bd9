------------------------------ MODULE MCManager -----------------------------
(* Instances of Manager for TLC. *)
EXTENDS Manager, TLC

Pool == {"w1", "w2"}

J(n) == {ToString(i) : i \in 1..n}

(* One thread submits to two workers, whose jobs resume a coroutine.       *)
Server == [workers |-> Pool, cap |-> 2, timed |-> TRUE, calls |-> {"submit"},
           modes |-> {"drain", "abort"}, jobs |-> J(2), resumes |-> {"r"},
           submitters |-> {"s1"}, starts |-> 1, early |-> FALSE]

(* Two threads submit to one worker whose mailbox is soon full, on Linux.  *)
Linux == [workers |-> {"w1"}, cap |-> 1, timed |-> FALSE, calls |-> {"submit"},
          modes |-> {"drain", "abort"}, jobs |-> J(3), resumes |-> {},
          submitters |-> {"s1", "s2"}, starts |-> 1, early |-> FALSE]

(* The same elsewhere, and the pool is stopped and started again.          *)
Again == [Linux EXCEPT !.timed = TRUE, !.jobs = J(2), !.modes = {"abort"}, !.starts = 2]

(* No workers: whoever owns the manager pumps. *)
Embedded == [workers |-> {}, cap |-> 1, timed |-> TRUE, calls |-> {"submit", "try"},
             modes |-> {"drain", "abort"}, jobs |-> J(2), resumes |-> {},
             submitters |-> {"s1", "s2"}, starts |-> 2, early |-> FALSE]

(* The first job comes before the pool is started, or stopped unstarted.   *)
Early == [Linux EXCEPT !.timed = TRUE, !.early = TRUE, !.jobs = J(2), !.submitters = {"s1"}]

AllPlans == {Server, Linux, Again, Embedded, Early}
ThreeJobs == J(3)
=============================================================================
