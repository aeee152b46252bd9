----------------------------- MODULE Admission -----------------------------
(***************************************************************************)
(* admission_controller of thread/task/task_admission.hpp, as the task     *)
(* graph uses it: a token is taken when a task is activated and given back *)
(* when its route is refused, or when it has ended.  Of the tenants, which *)
(* are counted apart, the graph knows one.                                 *)
(***************************************************************************)
EXTENDS Integers, FiniteSets

CONSTANTS
  Threads,    (* that activate, deactivate and run tasks                   *)
  Tasks,
  Limit,      (* max_inflight_                                             *)
  Policies,   (* "refuse" for reject, drop_oldest and coalesce, which do   *)
              (* the same; "degrade", which only counts                    *)
  MaxEpoch    (* bound on the activations of a task                        *)

AdmissionAssumption ==
  /\ Limit \in Nat \ {0} /\ Policies \subseteq {"refuse", "degrade"} /\ IsFiniteSet(Threads)

VARIABLES
  policy,
  total,      (* total_inflight_                                           *)
  tenant,     (* tenants_[0].inflight_                                     *)
  phase,      (* state_ of each task                                       *)
  epoch,      (* dispatch_epoch_                                           *)
  tickets,    (* what has been routed                                      *)
  acts,       (* what each thread does next                                *)
  tokens,     (* history: the activations that have a token                *)
  withdrawn   (* history: a task has been deactivated                      *)

vars == <<policy, total, tenant, phase, epoch, tickets, acts, tokens, withdrawn>>

Idle == [at |-> "idle"]
Ticket(t) == [task |-> t, epoch |-> epoch[t]]

Init ==
  /\ policy \in Policies
  /\ total = 0 /\ tenant = 0
  /\ phase = [t \in Tasks |-> "dormant"] /\ epoch = [t \in Tasks |-> 0]
  /\ tickets = {} /\ acts = [u \in Threads |-> Idle]
  /\ tokens = {} /\ withdrawn = FALSE

At(u, where) == acts[u].at = where
Do(u, what) == acts' = [acts EXCEPT ![u] = what]
Go(u, where) == Do(u, [acts[u] EXCEPT !.at = where])
Mine(u) == acts[u].ticket

-----------------------------------------------------------------------------
(* activate and try_admit *)

Activate(u, t) ==
  /\ At(u, "idle") /\ phase[t] \in {"dormant", "completed"} /\ epoch[t] < MaxEpoch
  /\ phase' = [phase EXCEPT ![t] = "ready"]
  /\ Do(u, [at |-> "stamp", task |-> t])
  /\ UNCHANGED <<policy, total, tenant, epoch, tickets, tokens, withdrawn>>

Stamp(u) ==
  LET t == acts[u].task
  IN  /\ At(u, "stamp")
      /\ epoch' = [epoch EXCEPT ![t] = @ + 1]
      /\ Do(u, [at |-> IF policy = "degrade" THEN "count" ELSE "look", seen |-> 0,
                into |-> "dormant", ticket |-> [task |-> t, epoch |-> epoch[t] + 1]])
      /\ UNCHANGED <<policy, total, tenant, phase, tickets, tokens, withdrawn>>

Compare(u) ==
  Do(u, [acts[u] EXCEPT !.at = IF total < Limit THEN "take" ELSE "end", !.seen = total])

Look(u) ==
  /\ At(u, "look")
  /\ Compare(u)
  /\ UNCHANGED <<policy, total, tenant, phase, epoch, tickets, tokens, withdrawn>>

(* variant: the total is stored whatever it has become *)
TakeBlind(u) ==
  /\ At(u, "take")
  /\ total' = acts[u].seen + 1
  /\ tokens' = tokens \cup {Mine(u)}
  /\ Go(u, "tenant")
  /\ UNCHANGED <<policy, tenant, phase, epoch, tickets, withdrawn>>

Take(u) ==
  /\ At(u, "take") /\ total = acts[u].seen
  /\ total' = total + 1
  /\ tokens' = tokens \cup {Mine(u)}
  /\ Go(u, "tenant")
  /\ UNCHANGED <<policy, tenant, phase, epoch, tickets, withdrawn>>

TakeLost(u) ==
  /\ At(u, "take") /\ total # acts[u].seen
  /\ Compare(u)
  /\ UNCHANGED <<policy, total, tenant, phase, epoch, tickets, tokens, withdrawn>>

(* degrade: the token is taken whatever the limit. *)
TakeOver(u) ==
  /\ At(u, "count")
  /\ total' = total + 1
  /\ tokens' = tokens \cup {Mine(u)}
  /\ Go(u, "tenant")
  /\ UNCHANGED <<policy, tenant, phase, epoch, tickets, withdrawn>>

Tenant(u) ==
  /\ At(u, "tenant")
  /\ tenant' = tenant + 1
  /\ Go(u, "route")
  /\ UNCHANGED <<policy, total, phase, epoch, tickets, tokens, withdrawn>>

Route(u) ==
  /\ At(u, "route")
  /\ tickets' = tickets \cup {Mine(u)}
  /\ Do(u, Idle)
  /\ UNCHANGED <<policy, total, tenant, phase, epoch, tokens, withdrawn>>

RouteRefused(u) ==
  /\ At(u, "route")
  /\ Go(u, "untenant")
  /\ UNCHANGED <<policy, total, tenant, phase, epoch, tickets, tokens, withdrawn>>

-----------------------------------------------------------------------------
(* A worker takes a ticket; the end of the body, completed or faulted, and *)
(* on_complete, which the refused route calls too.                         *)

Run(u, k) ==
  /\ At(u, "idle") /\ k \in tickets
  /\ tickets' = tickets \ {k}
  /\ IF k = Ticket(k.task) /\ phase[k.task] = "ready"
       THEN /\ phase' = [phase EXCEPT ![k.task] = "running"]
            /\ Do(u, [at |-> "run", seen |-> 0, into |-> "running", ticket |-> k])
       ELSE UNCHANGED <<phase, acts>>
  /\ UNCHANGED <<policy, total, tenant, epoch, tokens, withdrawn>>

Finish(u, outcome) ==
  /\ At(u, "run")
  /\ Do(u, [acts[u] EXCEPT !.at = "untenant", !.into = outcome])
  /\ UNCHANGED <<policy, total, tenant, phase, epoch, tickets, tokens, withdrawn>>

Untenant(u) ==
  /\ At(u, "untenant")
  /\ tenant' = tenant - 1
  /\ Go(u, "untotal")
  /\ UNCHANGED <<policy, total, phase, epoch, tickets, tokens, withdrawn>>

Untotal(u) ==
  /\ At(u, "untotal")
  /\ total' = total - 1
  /\ tokens' = tokens \ {Mine(u)}
  /\ Go(u, "end")
  /\ UNCHANGED <<policy, tenant, phase, epoch, tickets, withdrawn>>

(* The task has ended, or it is dormant again as it was not admitted. *)
End(u) ==
  /\ At(u, "end")
  /\ phase' = [phase EXCEPT ![Mine(u).task] = acts[u].into]
  /\ Do(u, Idle)
  /\ UNCHANGED <<policy, total, tenant, epoch, tickets, tokens, withdrawn>>

(* deactivate leaves the token where it is. *)
Deactivate(u, t) ==
  /\ At(u, "idle") /\ phase[t] = "ready" /\ epoch[t] < MaxEpoch
  /\ phase' = [phase EXCEPT ![t] = "dormant"]
  /\ Do(u, [at |-> "retire", task |-> t])
  /\ withdrawn' = TRUE
  /\ UNCHANGED <<policy, total, tenant, epoch, tickets, tokens>>

Retire(u) ==
  /\ At(u, "retire")
  /\ epoch' = [epoch EXCEPT ![acts[u].task] = @ + 1]
  /\ Do(u, Idle)
  /\ UNCHANGED <<policy, total, tenant, phase, tickets, tokens, withdrawn>>

Rest ==
  /\ tickets = {} /\ \A u \in Threads : At(u, "idle")
  /\ UNCHANGED vars

Next ==
  \/ Rest
  \/ \E u \in Threads :
       \/ \E t \in Tasks : Activate(u, t) \/ Deactivate(u, t)
       \/ Stamp(u) \/ Look(u) \/ Take(u) \/ TakeLost(u) \/ TakeOver(u) \/ Tenant(u)
       \/ Route(u) \/ RouteRefused(u)
       \/ \E k \in tickets : Run(u, k)
       \/ \E outcome \in {"completed", "faulted"} : Finish(u, outcome)
       \/ Untenant(u) \/ Untotal(u) \/ End(u) \/ Retire(u)

-----------------------------------------------------------------------------
Where(places) == {u \in Threads : acts[u].at \in places}

(* The total is the number of tokens out, the tenants' share follows it,   *)
(* and nobody is admitted past the limit; as long as nothing is            *)
(* deactivated, a token out is that of an activation that has not ended.   *)
TokensExact ==
  /\ total = Cardinality(tokens)
  /\ tenant = total - Cardinality(Where({"tenant"})) - Cardinality(Where({"untotal"}))
  /\ policy = "refuse" => total <= Limit
  /\ ~ withdrawn => \A k \in tokens : k = Ticket(k.task) /\ phase[k.task] \in {"ready", "running"}
=============================================================================
