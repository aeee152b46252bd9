----------------------------- MODULE WorldSpec -----------------------------
(***************************************************************************)
(* What the manager promises about one component type: a handle is issued  *)
(* at most once, only living entities hold a component, and an entity      *)
(* holds what was given to it last until it is taken away.                 *)
(***************************************************************************)
CONSTANTS Handles, Values, Nothing

VARIABLES
    alive,      \* the handles alive
    issued,     \* the handles that have been alive
    holds       \* the component of each handle, or Nothing

vars == <<alive, issued, holds>>

Init == alive = {} /\ issued = {} /\ holds = [h \in Handles |-> Nothing]

Create(h) ==
    /\ h \notin issued
    /\ alive' = alive \cup {h}
    /\ issued' = issued \cup {h}
    /\ UNCHANGED holds

Delete(h) ==
    /\ h \in alive
    /\ alive' = alive \ {h}
    /\ holds' = [holds EXCEPT ![h] = Nothing]
    /\ UNCHANGED issued

Add(h, v) ==
    /\ h \in alive
    /\ holds' = [holds EXCEPT ![h] = v]
    /\ UNCHANGED <<alive, issued>>

Remove(h) == holds' = [holds EXCEPT ![h] = Nothing] /\ UNCHANGED <<alive, issued>>
Clear == holds' = [h \in Handles |-> Nothing] /\ UNCHANGED <<alive, issued>>

Next ==
    \/ \E h \in Handles : Create(h) \/ Delete(h) \/ Remove(h)
    \/ \E h \in Handles, v \in Values : Add(h, v)
    \/ Clear

Spec == Init /\ [][Next]_vars
=============================================================================
