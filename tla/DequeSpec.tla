----------------------------- MODULE DequeSpec -----------------------------
(***************************************************************************)
(* What a work deque promises: push appends at the owner's end, pop takes  *)
(* the job pushed last, steal takes a job from the other end.  The job a   *)
(* call takes is counted in taken at the step that removes it.             *)
(***************************************************************************)
EXTENDS Naturals, Sequences, SequencesExt

CONSTANTS Jobs
VARIABLES items, unpushed, taken

vars == <<items, unpushed, taken>>

Init == items = << >> /\ unpushed = Jobs /\ taken = [j \in Jobs |-> 0]

Push(j) ==
  /\ j \in unpushed
  /\ items' = Append(items, j)
  /\ unpushed' = unpushed \ {j}
  /\ UNCHANGED taken

Take(j) == taken' = [taken EXCEPT ![j] = @ + 1] /\ UNCHANGED unpushed

Pop   == items # << >> /\ items' = Front(items) /\ Take(Last(items))
Steal == items # << >> /\ items' = Tail(items)  /\ Take(Head(items))

Next == Pop \/ Steal \/ \E j \in Jobs : Push(j)
Spec == Init /\ [][Next]_vars
=============================================================================
