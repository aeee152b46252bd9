---------------------------- MODULE MCTasks_proof ----------------------------
(***************************************************************************)
(* Proofs about what the runs of MCTasks instantiate.  First that the      *)
(* resources of tasks exclude one another, that what is recorded of them   *)
(* is exact and that activations are completed or ended by full queues,    *)
(* for any plans in which no activation is taken back.  Then, with         *)
(* TaskNode_proof, what holds of MCTasks itself, whichever way a behaviour *)
(* takes; and last what holds of joins, and of awaits of other things.     *)
(***************************************************************************)
EXTENDS MCTasks, FiniteSetTheorems, WellFoundedInduction, TLAPS

-----------------------------------------------------------------------------
(* Whose a task is *)

Queued(t)    == \E e \in tickets : e[1] = t
Waking(p, t) == pc[p] \in {"try", "swap"} /\ woken[p] = t
Works(p, t)  == pc[p] # "idle" /\ job[p] = t

(* Task t is in a queue, in the chain of p, woken by p, or p works for it, *)
(* a client that activates it or a worker that runs it, as k says, and     *)
(* nowhere else; or, with "nobody", nowhere.                               *)
Only(t, k, p) ==
  /\ Queued(t) <=> k = "ticket"
  /\ \A r \in Resources : waitOn[t] = r <=> k = "chain" /\ p = r
  /\ \A q \in Threads : /\ Waking(q, t) <=> k = "waking" /\ p = q
                        /\ Works(q, t) <=> k = "works" /\ p = q

OwnerOK(t) ==
  \/ state[t] \in {"dormant", "completed"} /\ Only(t, "nobody", None)
  \/ state[t] = "ready" /\ Only(t, "ticket", None)
  \/ state[t] = "ready" /\ \E c \in Clients : Only(t, "works", c)
  \/ state[t] = "waiting" /\ \E r \in Resources : Only(t, "chain", r)
  \/ state[t] = "waiting" /\ \E p \in Threads : Only(t, "waking", p)
  \/ state[t] = "running" /\ \E w \in Workers : Only(t, "works", w)

(* No ticket is stale. *)
TicketsOK ==
  /\ \A e \in tickets : e[2] = epoch[e[1]]
  /\ \A c \in Clients : pc[c] \in {"acquire", "route"} => hand[c] = epoch[job[c]]

-----------------------------------------------------------------------------
(* Who uses a resource *)

(* It was given its resources, and neither has its body ended nor have the *)
(* queues refused it; or a thread that they refused gives them back next.  *)
Granted(t) ==
  \/ Queued(t)
  \/ \E p \in Threads : pc[p] \in {"route", "body"} /\ job[p] = t
  \/ \E p \in Threads : pc[p] = "swap" /\ woken[p] = t

Giving(t) == \E p \in Threads : pc[p] = "give" /\ woken[p] = t

Writer(t) == \E r \in Resources : Uses(t, r, "write")

HeldOK ==
  /\ \A t \in held : Access[t] # <<>> /\ (Granted(t) \/ Giving(t))
  /\ \A t \in Tasks : Writer(t) /\ (Granted(t) \/ Giving(t)) => t \in held

Accs == [res : Resources, mode : {"read", "write"}]
InRelease == {"release", "wake", "try", "swap", "give"}

(* The release_all calls a thread is in: each resource is given back once, *)
(* and a call that wakes those who wait for one has that at its head.      *)
AtHead(p, i) == i # Len(frames[p]) \/ pc[p] # "release"

FrameOK(p) ==
  /\ pc[p] \in InRelease <=> frames[p] # <<>>
  /\ \A i \in DOMAIN frames[p] :
       /\ AtHead(p, i) => frames[p][i].accesses # <<>>
       /\ IsInjective(frames[p][i].accesses)

(* A call has still to give a resource back. *)
Left(p, i, a) ==
  \E k \in DOMAIN frames[p][i].accesses :
    frames[p][i].accesses[k] = a /\ (AtHead(p, i) => k # 1)

(* A share in a resource: of a task that was granted it, of a thread that  *)
(* gives it back next, of a call that gives it back.                       *)
Tokens == Tasks \X {"task", "give", "call"} \X (Threads \cup {None}) \X Nat

Has(x, r, m) ==
  \/ x[2] = "task" /\ x[3] = None /\ x[4] = 0 /\ Granted(x[1]) /\ Uses(x[1], r, m)
  \/ /\ x[2] = "give" /\ x[3] \in Threads /\ x[4] = 0 /\ Uses(x[1], r, m)
     /\ pc[x[3]] = "give" /\ woken[x[3]] = x[1]
  \/ /\ x[2] = "call" /\ x[3] \in Threads /\ x[4] \in DOMAIN frames[x[3]]
     /\ frames[x[3]][x[4]].task = x[1] /\ Left(x[3], x[4], [res |-> r, mode |-> m])

Shares(r, m) == {x \in Tokens : Has(x, r, m)}

(* Many read, or one writes.  A task that is activated again before it is  *)
(* given back is counted as a reader twice and given back once: no reader  *)
(* is missing, but one may be counted that reads no more.                  *)
LocksOK ==
  \A r \in Resources :
    /\ IsFiniteSet(Shares(r, "read")) /\ Cardinality(Shares(r, "read")) <= readers[r]
    /\ writer[r] = None => Shares(r, "write") = {}
    /\ writer[r] # None => /\ Shares(r, "read") = {}
                           /\ \E x : Shares(r, "write") = {x} /\ x[1] = writer[r]

-----------------------------------------------------------------------------
FrameRecs == [task : Tasks, accesses : Seq(Accs)]
Steps(p) == IF p \in Clients THEN {"idle", "acquire", "route", "drop"} \cup InRelease
            ELSE {"idle", "body", "complete"} \cup InRelease

Types ==
  /\ state \in [Tasks -> {"dormant", "ready", "running", "waiting", "completed"}]
  /\ epoch \in [Tasks -> Nat] /\ cancelled \subseteq Tasks /\ held \subseteq Tasks
  /\ readers \in [Resources -> Nat] /\ writer \in [Resources -> Tasks \cup {None}]
  /\ waiters \in [Resources -> Nat] /\ chain \in [Resources -> Seq(Tasks)]
  /\ waitOn \in [Tasks -> Resources \cup {None}] /\ waitWrite \subseteq Tasks
  /\ tickets \subseteq Tasks \X Nat
  /\ pc \in [Threads -> {"idle", "acquire", "route", "drop", "body", "complete"} \cup InRelease]
  /\ \A p \in Threads : pc[p] \in Steps(p)
  /\ job \in [Threads -> Tasks \cup {None}] /\ woken \in [Threads -> Tasks \cup {None}]
  /\ hand \in [Threads -> Nat]
  /\ \A p \in Threads : /\ pc[p] # "idle" => job[p] \in Tasks
                        /\ pc[p] \in {"try", "swap", "give"} => woken[p] \in Tasks
  /\ frames \in [Threads -> Seq(FrameRecs)]

Facts ==
  /\ Types /\ (\A t \in Tasks : OwnerOK(t)) /\ TicketsOK /\ HeldOK
  /\ (\A p \in Threads : FrameOK(p)) /\ LocksOK /\ ChainIsExact

(* No activation is taken back. *)
Kept == "deactivate" \notin plan.calls

IInv == plan \in Plans /\ (Kept => Facts)

-----------------------------------------------------------------------------
USE DEF locks, queue, hands, count

LEMMA PlanFacts ==
  ASSUME plan \in Plans
  PROVE  /\ IsFiniteSet(Tasks) /\ None \notin Tasks /\ None \notin Resources
         /\ Clients \cap Workers = {}
         /\ \A t \in Tasks : /\ Access[t] \in Seq(Accs) /\ IsInjective(Access[t])
                             /\ \A i, k \in DOMAIN Access[t] :
                                  Access[t][i].res = Access[t][k].res => i = k
         /\ plan.clients \subseteq Clients /\ plan.workers \subseteq Workers
BY ResourceAssumption DEF Tasks, Access, Accs, IsInjective

(* A thread goes on, and no other does. *)
LEMMA Moves ==
  ASSUME Types, NEW p \in Threads, NEW to, pc' = [pc EXCEPT ![p] = to]
  PROVE  pc'[p] = to /\ \A q \in Threads : q # p => pc'[q] = pc[q]
BY DEF Types

LEMMA OwnerFacts ==
  ASSUME Facts, NEW t \in Tasks
  PROVE  OwnerOK(t) /\ state[t] \in {"dormant", "ready", "running", "waiting", "completed"}
BY DEF Facts, Types

(* Whom a task is with tells its state. *)
LEMMA WhoHasIt ==
  ASSUME Facts, plan \in Plans, NEW t \in Tasks
  PROVE  /\ Queued(t) => state[t] = "ready" /\ Only(t, "ticket", None)
         /\ \A r \in Resources : waitOn[t] = r => state[t] = "waiting" /\ Only(t, "chain", r)
         /\ \A p \in Threads :
              /\ Waking(p, t) => state[t] = "waiting" /\ Only(t, "waking", p)
              /\ Works(p, t) => /\ state[t] = (IF p \in Clients THEN "ready" ELSE "running")
                                /\ Only(t, "works", p)
         /\ state[t] \in {"dormant", "completed"} => Only(t, "nobody", None)
<1>1. OwnerOK(t) /\ Clients \cap Workers = {} /\ Threads = Clients \cup Workers
  BY OwnerFacts, PlanFacts DEF Threads
<1>2. QED
  BY <1>1 DEF OwnerOK, Only

(* Nothing happens to the other tasks. *)
LEMMA OthersOwner ==
  ASSUME Facts, NEW p \in Threads, NEW t,
         \A q \in Threads : q # p => pc'[q] = pc[q] /\ job'[q] = job[q] /\ woken'[q] = woken[q],
         \A u \in Tasks : u # t =>
           /\ state'[u] = state[u] /\ waitOn'[u] = waitOn[u] /\ (Queued(u)' <=> Queued(u))
           /\ (Works(p, u)' <=> Works(p, u)) /\ (Waking(p, u)' <=> Waking(p, u))
  PROVE  \A u \in Tasks : u # t => OwnerOK(u)'
<1> SUFFICES ASSUME NEW u \in Tasks, u # t PROVE OwnerOK(u)'
  OBVIOUS
<1>1. \A q \in Threads : (Works(q, u)' <=> Works(q, u)) /\ (Waking(q, u)' <=> Waking(q, u))
  <2>1. ASSUME NEW q \in Threads, q # p
        PROVE  (Works(q, u)' <=> Works(q, u)) /\ (Waking(q, u)' <=> Waking(q, u))
    BY <2>1 DEF Works, Waking
  <2>2. QED
    BY <2>1
<1>2. \A k, q : Only(u, k, q) => Only(u, k, q)'
  BY <1>1 DEF Only
<1>3. QED
  BY <1>2, OwnerFacts DEF OwnerOK

(* A ticket more. *)
LEMMA NewTicket ==
  ASSUME NEW t, NEW n, tickets' = tickets \cup {<<t, n>>}
  PROVE  /\ Queued(t)' /\ \A u : u # t => (Queued(u)' <=> Queued(u))
         /\ \A e \in tickets' : e \in tickets \/ (e[1] = t /\ e[2] = n)
<1> DEFINE new == <<t, n>>
<1>1. new[1] = t /\ new[2] = n
  OBVIOUS
<1>2. \A e : e \in tickets' <=> e \in tickets \/ e = new
  OBVIOUS
<1> HIDE DEF new
<1>3. QED
  BY <1>1, <1>2 DEF Queued

-----------------------------------------------------------------------------
(* What each step does to the owners of tasks *)

LEMMA ActivateOwner ==
  ASSUME Facts, plan \in Plans, NEW c \in Clients, NEW t \in Tasks,
         pc[c] = "idle", pc' = [pc EXCEPT ![c] = "acquire"],
         state[t] \in {"dormant", "completed"}, state' = [state EXCEPT ![t] = "ready"],
         job' = [job EXCEPT ![c] = t], UNCHANGED <<tickets, waitOn, woken>>
  PROVE  \A u \in Tasks : OwnerOK(u)'
<1>1. Types /\ c \in Threads /\ Only(t, "nobody", None)
  BY WhoHasIt DEF Facts, Threads
<1>2. pc'[c] = "acquire" /\ \A q \in Threads : q # c => pc'[q] = pc[q]
  BY <1>1, Moves
<1>3. job'[c] = t /\ \A q \in Threads : q # c => job'[q] = job[q]
  BY <1>1 DEF Types
<1>4. state'[t] = "ready" /\ \A u \in Tasks : u # t => state'[u] = state[u]
  BY <1>1 DEF Types
<1>5. Only(t, "works", c)'
  BY <1>1, <1>2, <1>3 DEF Only, Queued, Waking, Works
<1>6. \A u \in Tasks : u # t => OwnerOK(u)'
  BY <1>1, <1>2, <1>3, <1>4, OthersOwner DEF Queued, Waking, Works
<1>7. QED
  BY <1>4, <1>5, <1>6 DEF OwnerOK

(* A task that is not given its resources goes into the chain of one.      *)
LEMMA CallWaits ==
  ASSUME Facts, plan \in Plans, NEW c \in Clients, NEW t \in Tasks, NEW r \in Resources,
         job[c] = t, pc[c] = "acquire", pc' = [pc EXCEPT ![c] = "idle"],
         state' = [state EXCEPT ![t] = "waiting"], waitOn' = [waitOn EXCEPT ![t] = r],
         UNCHANGED <<tickets, woken, job>>
  PROVE  \A u \in Tasks : OwnerOK(u)'
<1>1. Types /\ c \in Threads /\ Only(t, "works", c)
  BY WhoHasIt DEF Facts, Threads, Works
<1>2. pc'[c] = "idle" /\ \A q \in Threads : q # c => pc'[q] = pc[q]
  BY <1>1, Moves
<1>3. state'[t] = "waiting" /\ \A u \in Tasks : u # t => state'[u] = state[u]
  BY <1>1 DEF Types
<1>4. waitOn'[t] = r /\ \A u \in Tasks : u # t => waitOn'[u] = waitOn[u]
  BY <1>1 DEF Types
<1>5. Only(t, "chain", r)'
  BY <1>1, <1>2, <1>4 DEF Only, Queued, Waking, Works
<1>6. \A u \in Tasks : u # t => OwnerOK(u)'
  BY <1>1, <1>2, <1>3, <1>4, OthersOwner DEF Queued, Waking, Works
<1>7. QED
  BY <1>3, <1>5, <1>6 DEF OwnerOK

LEMMA RouteOwner ==
  ASSUME Facts, plan \in Plans, NEW c \in Clients, NEW t \in Tasks,
         job[c] = t, pc[c] = "route", pc' = [pc EXCEPT ![c] = "idle"],
         tickets' = tickets \cup {<<t, hand[c]>>}, UNCHANGED <<state, waitOn, woken, job>>
  PROVE  \A u \in Tasks : OwnerOK(u)'
<1>1. Types /\ c \in Threads /\ Only(t, "works", c) /\ state[t] = "ready"
  BY WhoHasIt DEF Facts, Threads, Works
<1>2. pc'[c] = "idle" /\ \A q \in Threads : q # c => pc'[q] = pc[q]
  BY <1>1, Moves
<1>3. Queued(t)' /\ \A u \in Tasks : u # t => (Queued(u)' <=> Queued(u))
  BY NewTicket
<1>4. Only(t, "ticket", None)'
  BY <1>1, <1>2, <1>3 DEF Only, Waking, Works
<1>5. \A u \in Tasks : u # t => OwnerOK(u)'
  BY <1>1, <1>2, <1>3, OthersOwner DEF Waking, Works
<1>6. QED
  BY <1>1, <1>4, <1>5 DEF OwnerOK

LEMMA RunOwner ==
  ASSUME Facts, plan \in Plans, NEW w \in Workers, NEW t \in Tasks, NEW e \in tickets,
         e[1] = t, pc[w] = "idle", pc' = [pc EXCEPT ![w] = "body"],
         state' = [state EXCEPT ![t] = "running"], job' = [job EXCEPT ![w] = t],
         tickets' = tickets \ {e}, UNCHANGED <<waitOn, woken>>
  PROVE  \A u \in Tasks : OwnerOK(u)'
<1>1. Types /\ w \in Threads /\ Only(t, "ticket", None)
  BY WhoHasIt DEF Facts, Threads, Queued
<1>2. pc'[w] = "body" /\ \A q \in Threads : q # w => pc'[q] = pc[q]
  BY <1>1, Moves
<1>3. state'[t] = "running" /\ \A u \in Tasks : u # t => state'[u] = state[u]
  BY <1>1 DEF Types
<1>4. job'[w] = t /\ \A q \in Threads : q # w => job'[q] = job[q]
  BY <1>1 DEF Types
<1>5. \A d \in tickets : d[1] = t => d = e
  <2>1. \A d \in tickets : d = <<d[1], d[2]>> /\ d[2] = epoch[d[1]]
    BY <1>1 DEF Facts, TicketsOK, Types
  <2>2. QED
    BY <2>1
<1>6. ~ Queued(t)' /\ \A u \in Tasks : u # t => (Queued(u)' <=> Queued(u))
  BY <1>5 DEF Queued
<1>7. Only(t, "works", w)'
  BY <1>1, <1>2, <1>4, <1>6 DEF Only, Waking, Works
<1>8. \A u \in Tasks : u # t => OwnerOK(u)'
  BY <1>1, <1>2, <1>3, <1>4, <1>6, OthersOwner DEF Waking, Works
<1>9. QED
  BY <1>3, <1>7, <1>8 DEF OwnerOK

(* A worker completes the task it has run, a client drops the one that it  *)
(* could not route.                                                        *)
LEMMA ReturnOwner ==
  ASSUME Facts, plan \in Plans, NEW p \in Threads, NEW t \in Tasks, NEW s \in {"dormant", "completed"},
         job[p] = t, pc[p] \in {"complete", "drop"}, pc' = [pc EXCEPT ![p] = "idle"],
         state' = [state EXCEPT ![t] = s], UNCHANGED <<tickets, waitOn, woken, job>>
  PROVE  \A u \in Tasks : OwnerOK(u)'
<1>1. Types /\ Only(t, "works", p)
  BY WhoHasIt DEF Facts, Works
<1>2. pc'[p] = "idle" /\ \A q \in Threads : q # p => pc'[q] = pc[q]
  BY <1>1, Moves
<1>3. state'[t] = s /\ \A u \in Tasks : u # t => state'[u] = state[u]
  BY <1>1 DEF Types
<1>4. Only(t, "nobody", None)'
  BY <1>1, <1>2 DEF Only, Queued, Waking, Works
<1>5. \A u \in Tasks : u # t => OwnerOK(u)'
  BY <1>1, <1>2, <1>3, OthersOwner DEF Queued, Waking, Works
<1>6. QED
  BY <1>3, <1>4, <1>5 DEF OwnerOK

(* The head of a chain leaves it. *)
LEMMA HeadOwner ==
  ASSUME Facts, plan \in Plans, NEW p \in Threads, NEW t \in Tasks, NEW r \in Resources,
         waitOn[t] = r, pc[p] = "wake", pc' = [pc EXCEPT ![p] = "try"],
         waitOn' = [waitOn EXCEPT ![t] = None], woken' = [woken EXCEPT ![p] = t],
         UNCHANGED <<state, tickets, job>>
  PROVE  \A u \in Tasks : OwnerOK(u)'
<1>1. Types /\ Only(t, "chain", r) /\ state[t] = "waiting" /\ None \notin Resources
  BY WhoHasIt, PlanFacts DEF Facts
<1>2. pc'[p] = "try" /\ \A q \in Threads : q # p => pc'[q] = pc[q]
  BY <1>1, Moves
<1>3. waitOn'[t] = None /\ \A u \in Tasks : u # t => waitOn'[u] = waitOn[u]
  BY <1>1 DEF Types
<1>4. woken'[p] = t /\ \A q \in Threads : q # p => woken'[q] = woken[q]
  BY <1>1 DEF Types
<1>5. Only(t, "waking", p)'
  BY <1>1, <1>2, <1>3, <1>4 DEF Only, Queued, Waking, Works
<1>6. \A u \in Tasks : u # t => OwnerOK(u)'
  BY <1>1, <1>2, <1>3, <1>4, OthersOwner DEF Queued, Waking, Works
<1>7. QED
  BY <1>1, <1>5, <1>6 DEF OwnerOK

(* A task that was woken is cancelled, or the queues are full: dormant.    *)
LEMMA DormantOwner ==
  ASSUME Facts, plan \in Plans, NEW p \in Threads, NEW t \in Tasks, NEW to \in {"wake", "give"},
         woken[p] = t, pc[p] \in {"try", "swap"}, pc' = [pc EXCEPT ![p] = to],
         state' = [state EXCEPT ![t] = "dormant"], UNCHANGED <<tickets, waitOn, woken, job>>
  PROVE  \A u \in Tasks : OwnerOK(u)'
<1>1. Types /\ Only(t, "waking", p)
  BY WhoHasIt DEF Facts, Waking
<1>2. pc'[p] = to /\ \A q \in Threads : q # p => pc'[q] = pc[q]
  BY <1>1, Moves
<1>3. state'[t] = "dormant" /\ \A u \in Tasks : u # t => state'[u] = state[u]
  BY <1>1 DEF Types
<1>4. Only(t, "nobody", None)'
  BY <1>1, <1>2 DEF Only, Queued, Waking, Works
<1>5. \A u \in Tasks : u # t => OwnerOK(u)'
  BY <1>1, <1>2, <1>3, OthersOwner DEF Queued, Waking, Works
<1>6. QED
  BY <1>3, <1>4, <1>5 DEF OwnerOK

(* A task that was woken goes into the chain of the one it could not have. *)
LEMMA RefusedOwner ==
  ASSUME Facts, plan \in Plans, NEW p \in Threads, NEW t \in Tasks, NEW r \in Resources,
         NEW to \in {"wake", "release"},
         woken[p] = t, pc[p] = "try", pc' = [pc EXCEPT ![p] = to],
         waitOn' = [waitOn EXCEPT ![t] = r], UNCHANGED <<state, tickets, woken, job>>
  PROVE  \A u \in Tasks : OwnerOK(u)'
<1>1. Types /\ Only(t, "waking", p) /\ state[t] = "waiting"
  BY WhoHasIt DEF Facts, Waking
<1>2. pc'[p] = to /\ \A q \in Threads : q # p => pc'[q] = pc[q]
  BY <1>1, Moves
<1>3. waitOn'[t] = r /\ \A u \in Tasks : u # t => waitOn'[u] = waitOn[u]
  BY <1>1 DEF Types
<1>4. Only(t, "chain", r)'
  BY <1>1, <1>2, <1>3 DEF Only, Queued, Waking, Works
<1>5. \A u \in Tasks : u # t => OwnerOK(u)'
  BY <1>1, <1>2, <1>3, OthersOwner DEF Queued, Waking, Works
<1>6. QED
  BY <1>1, <1>4, <1>5 DEF OwnerOK

LEMMA SwapOwner ==
  ASSUME Facts, plan \in Plans, NEW p \in Threads, NEW t \in Tasks, NEW n,
         woken[p] = t, pc[p] = "swap", pc' = [pc EXCEPT ![p] = "wake"],
         state' = [state EXCEPT ![t] = "ready"], tickets' = tickets \cup {<<t, n>>},
         UNCHANGED <<waitOn, woken, job>>
  PROVE  \A u \in Tasks : OwnerOK(u)'
<1>1. Types /\ Only(t, "waking", p)
  BY WhoHasIt DEF Facts, Waking
<1>2. pc'[p] = "wake" /\ \A q \in Threads : q # p => pc'[q] = pc[q]
  BY <1>1, Moves
<1>3. state'[t] = "ready" /\ \A u \in Tasks : u # t => state'[u] = state[u]
  BY <1>1 DEF Types
<1>4. Queued(t)' /\ \A u \in Tasks : u # t => (Queued(u)' <=> Queued(u))
  BY NewTicket
<1>5. Only(t, "ticket", None)'
  BY <1>1, <1>2, <1>4 DEF Only, Waking, Works
<1>6. \A u \in Tasks : u # t => OwnerOK(u)'
  BY <1>1, <1>2, <1>3, <1>4, OthersOwner DEF Waking, Works
<1>7. QED
  BY <1>3, <1>5, <1>6 DEF OwnerOK

(* A thread goes on with the task it has. *)
LEMMA StayOwner ==
  ASSUME Facts, plan \in Plans, NEW p \in Threads, NEW to,
         pc[p] # "idle", to # "idle", pc[p] \in {"try", "swap"} <=> to \in {"try", "swap"},
         pc' = [pc EXCEPT ![p] = to], UNCHANGED <<state, tickets, waitOn, woken, job>>
  PROVE  \A u \in Tasks : OwnerOK(u)'
<1>1. pc'[p] = to /\ \A q \in Threads : q # p => pc'[q] = pc[q]
  BY Moves DEF Facts
<1>2. \A q \in Threads, u \in Tasks : (Works(q, u)' <=> Works(q, u)) /\ (Waking(q, u)' <=> Waking(q, u))
  BY <1>1 DEF Works, Waking
<1>3. \A u \in Tasks : Queued(u)' <=> Queued(u)
  BY DEF Queued
<1>4. ASSUME NEW u \in Tasks PROVE OwnerOK(u)'
  <2>1. \A k, q : Only(u, k, q) => Only(u, k, q)'
    BY <1>2, <1>3 DEF Only
  <2>2. QED
    BY <2>1, OwnerFacts DEF OwnerOK
<1>5. QED
  BY <1>4

-----------------------------------------------------------------------------
(* Who is granted his resources *)

InGrant == {"route", "swap", "body"}

LEMMA SameGrants ==
  ASSUME Types, NEW p \in Threads, NEW to, pc' = [pc EXCEPT ![p] = to],
         pc[p] \notin InGrant, to \notin InGrant, UNCHANGED tickets,
         \A q \in Threads : q # p => job'[q] = job[q] /\ woken'[q] = woken[q]
  PROVE  \A u \in Tasks : Granted(u)' <=> Granted(u)
<1>1. pc'[p] = to /\ \A q \in Threads : q # p => pc'[q] = pc[q]
  BY Moves
<1>2. ASSUME NEW u \in Tasks, NEW q \in Threads
      PROVE  /\ (pc'[q] \in {"route", "body"} /\ job'[q] = u)
                  <=> (pc[q] \in {"route", "body"} /\ job[q] = u)
             /\ (pc'[q] = "swap" /\ woken'[q] = u) <=> (pc[q] = "swap" /\ woken[q] = u)
  BY <1>1 DEF InGrant
<1>3. QED
  BY <1>2 DEF Granted, Queued

(* A thread that goes on changes nothing about the tasks it does not have. *)
LEMMA OtherGrants ==
  ASSUME NEW p \in Threads, NEW t,
         \A q \in Threads : q # p => pc'[q] = pc[q] /\ job'[q] = job[q] /\ woken'[q] = woken[q],
         \A u \in Tasks : u # t =>
           /\ Queued(u)' <=> Queued(u)
           /\ (pc'[p] \in {"route", "body"} /\ job'[p] = u)
                <=> (pc[p] \in {"route", "body"} /\ job[p] = u)
           /\ (pc'[p] = "swap" /\ woken'[p] = u) <=> (pc[p] = "swap" /\ woken[p] = u)
  PROVE  \A u \in Tasks : u # t => (Granted(u)' <=> Granted(u))
<1> SUFFICES ASSUME NEW u \in Tasks, u # t PROVE Granted(u)' <=> Granted(u)
  OBVIOUS
<1>1. ASSUME NEW q \in Threads
      PROVE  /\ (pc'[q] \in {"route", "body"} /\ job'[q] = u)
                  <=> (pc[q] \in {"route", "body"} /\ job[q] = u)
             /\ (pc'[q] = "swap" /\ woken'[q] = u) <=> (pc[q] = "swap" /\ woken[q] = u)
  <2>1. CASE q = p
    BY <2>1
  <2>2. CASE q # p
    BY <2>2
  <2>3. QED
    BY <2>1, <2>2
<1>2. QED
  BY <1>1 DEF Granted

(* The grants are the owners' affair. *)
LEMMA GrantFacts ==
  ASSUME Facts, plan \in Plans, NEW t \in Tasks, Granted(t)
  PROVE  /\ state[t] \in {"ready", "running", "waiting"}
         /\ \A p \in Threads : /\ Waking(p, t) => pc[p] = "swap"
                               /\ Works(p, t) => pc[p] \in {"route", "body"}
<1>1. CASE Queued(t)
  BY <1>1, WhoHasIt DEF Only
<1>2. ASSUME NEW p \in Threads, pc[p] \in {"route", "body"}, job[p] = t
      PROVE  /\ state[t] \in {"ready", "running", "waiting"}
             /\ \A q \in Threads : /\ ~ Waking(q, t)
                                   /\ Works(q, t) => pc[q] \in {"route", "body"}
  <2>1. Works(p, t)
    BY <1>2 DEF Works
  <2>2. state[t] \in {"ready", "running"} /\ Only(t, "works", p)
    BY <2>1, WhoHasIt
  <2>3. QED
    BY <1>2, <2>2 DEF Only
<1>3. ASSUME NEW p \in Threads, pc[p] = "swap", woken[p] = t
      PROVE  /\ state[t] \in {"ready", "running", "waiting"}
             /\ \A q \in Threads : (Waking(q, t) => pc[q] = "swap") /\ ~ Works(q, t)
  <2>1. Waking(p, t)
    BY <1>3 DEF Waking
  <2>2. state[t] = "waiting" /\ Only(t, "waking", p)
    BY <2>1, WhoHasIt
  <2>3. QED
    BY <1>3, <2>2 DEF Only
<1>4. QED
  BY <1>1, <1>2, <1>3 DEF Granted

-----------------------------------------------------------------------------
(* What is held and shared *)

LEMMA HeldKept ==
  ASSUME Types, HeldOK, UNCHANGED <<held, plan>>,
         \A u \in Tasks : (Granted(u)' \/ Giving(u)') <=> (Granted(u) \/ Giving(u))
  PROVE  HeldOK'
<1>1. Access' = Access /\ Tasks' = Tasks /\ held' = held /\ held \subseteq Tasks
  BY DEF Types, Tasks, Access
<1>2. \A u \in Tasks : Writer(u)' <=> Writer(u)
  BY <1>1 DEF Writer, Uses
<1>3. \A u \in held' : Access'[u] # <<>> /\ (Granted(u)' \/ Giving(u)')
  BY <1>1 DEF HeldOK
<1>4. \A u \in Tasks' : Writer(u)' /\ (Granted(u)' \/ Giving(u)') => u \in held'
  BY <1>1, <1>2 DEF HeldOK
<1>5. QED
  BY <1>3, <1>4 DEF HeldOK

LEMMA SameGiving ==
  ASSUME NEW p \in Threads,
         \A q \in Threads : q # p => pc'[q] = pc[q] /\ woken'[q] = woken[q],
         pc[p] # "give", pc'[p] # "give"
  PROVE  \A u \in Tasks : Giving(u)' <=> Giving(u)
<1> SUFFICES ASSUME NEW u \in Tasks PROVE Giving(u)' <=> Giving(u)
  OBVIOUS
<1>1. \A q \in Threads : (pc'[q] = "give" /\ woken'[q] = u) <=> (pc[q] = "give" /\ woken[q] = u)
  OBVIOUS
<1>2. QED
  BY <1>1 DEF Giving

LEMMA TokenFacts ==
  ASSUME NEW x \in Tokens
  PROVE  /\ x = <<x[1], x[2], x[3], x[4]>> /\ x[1] \in Tasks /\ x[2] \in {"task", "give", "call"}
         /\ x[3] \in Threads \cup {None} /\ x[4] \in Nat
BY DEF Tokens

LEMMA ATaskToken ==
  ASSUME NEW t \in Tasks
  PROVE  /\ <<t, "task", None, 0>> \in Tokens
         /\ \A x \in Tokens : x[2] = "task" /\ x[1] = t /\ x[3] = None /\ x[4] = 0
                                <=> x = <<t, "task", None, 0>>
BY TokenFacts DEF Tokens

LEMMA AGiveToken ==
  ASSUME NEW t \in Tasks, NEW p \in Threads
  PROVE  /\ <<t, "give", p, 0>> \in Tokens
         /\ \A x \in Tokens : x[2] = "give" /\ x[1] = t /\ x[3] = p /\ x[4] = 0
                                <=> x = <<t, "give", p, 0>>
BY TokenFacts DEF Tokens

LEMMA ACallToken ==
  ASSUME NEW t \in Tasks, NEW p \in Threads, NEW i \in Nat
  PROVE  /\ <<t, "call", p, i>> \in Tokens
         /\ \A x \in Tokens : x[2] = "call" /\ x[1] = t /\ x[3] = p /\ x[4] = i
                                <=> x = <<t, "call", p, i>>
BY TokenFacts DEF Tokens

(* The shares of a task change with its grant, ... *)
LEMMA TaskShare ==
  ASSUME plan' = plan, NEW x \in Tokens, x[2] = "task", NEW r, NEW m,
         Granted(x[1])' <=> Granted(x[1])
  PROVE  Has(x, r, m)' <=> Has(x, r, m)
BY DEF Has, Uses, Access

(* ... those of a thread with what the thread does. *)
LEMMA ThreadShare ==
  ASSUME plan' = plan, NEW x \in Tokens, x[2] # "task", NEW r, NEW m,
         pc'[x[3]] = pc[x[3]], woken'[x[3]] = woken[x[3]], frames'[x[3]] = frames[x[3]]
  PROVE  Has(x, r, m)' <=> Has(x, r, m)
BY DEF Has, Uses, Access, Left, AtHead

LEMMA SharesOf ==
  ASSUME NEW r, NEW m, plan' = plan
  PROVE  /\ Tokens' = Tokens
         /\ \A x : x \in Shares(r, m) <=> x \in Tokens /\ Has(x, r, m)
         /\ \A x : x \in Shares(r, m)' <=> x \in Tokens /\ Has(x, r, m)'
BY DEF Shares, Tokens, Tasks, Access

LEMMA SameFrame ==
  ASSUME NEW p \in Threads, FrameOK(p), pc'[p] = pc[p], frames'[p] = frames[p]
  PROVE  FrameOK(p)'
BY DEF FrameOK, AtHead

(* The calls that are behind the release of a resource, or before it, stay *)
(* so.                                                                     *)
LEMMA SharesUntouched ==
  ASSUME Facts, plan' = plan, NEW p \in Threads,
         \A q \in Threads : q # p => pc'[q] = pc[q] /\ woken'[q] = woken[q],
         frames' = frames, pc[p] # "give", pc'[p] # "give",
         pc[p] = "release" <=> pc'[p] = "release",
         \A u \in Tasks : Granted(u)' <=> Granted(u),
         NEW r, NEW m
  PROVE  Shares(r, m)' = Shares(r, m)
<1>1. ASSUME NEW x \in Tokens PROVE Has(x, r, m)' <=> Has(x, r, m)
  <2>1. CASE x[2] = "task"
    BY <2>1, TaskShare, TokenFacts
  <2>2. CASE x[2] # "task" /\ x[3] \in Threads /\ x[3] # p
    BY <2>2, ThreadShare
  <2>3. CASE x[2] # "task" /\ x[3] = p
    BY <2>3 DEF Has, Uses, Access, Left, AtHead
  <2>4. CASE x[2] # "task" /\ x[3] \notin Threads
    BY <2>4 DEF Has
  <2>5. QED
    BY <2>1, <2>2, <2>3, <2>4, TokenFacts
<1>2. QED
  BY <1>1, SharesOf

LEMMA SmallerSet ==
  ASSUME NEW S, IsFiniteSet(S), NEW T \in SUBSET S, NEW n \in Nat, Cardinality(S) <= n
  PROVE  IsFiniteSet(T) /\ Cardinality(T) <= n /\ Cardinality(T) \in Nat
<1>1. IsFiniteSet(T) /\ Cardinality(T) <= Cardinality(S)
  BY FS_Subset
<1>2. Cardinality(T) \in Nat /\ Cardinality(S) \in Nat
  BY <1>1, FS_CardinalityType
<1>3. QED
  BY <1>1, <1>2

(* A share passes from hand to hand, or a reader's is dropped. *)
Passes(S, T) == \E x, y : x \in S /\ y \notin S /\ x[1] = y[1] /\ T = (S \ {x}) \cup {y}

LEMMA LocksKept ==
  ASSUME Facts, UNCHANGED locks,
         \A r \in Resources, m \in {"read", "write"} :
           \/ Shares(r, m)' = Shares(r, m)
           \/ Passes(Shares(r, m), Shares(r, m)')
           \/ m = "read" /\ Shares(r, m)' \subseteq Shares(r, m)
  PROVE  LocksOK'
<1> SUFFICES ASSUME NEW r \in Resources
             PROVE  /\ IsFiniteSet(Shares(r, "read")') /\ Cardinality(Shares(r, "read")') <= readers[r]
                    /\ writer[r] = None => Shares(r, "write")' = {}
                    /\ writer[r] # None =>
                         /\ Shares(r, "read")' = {}
                         /\ \E x : Shares(r, "write")' = {x} /\ x[1] = writer[r]
  BY DEF LocksOK
<1> DEFINE R == Shares(r, "read")
           W == Shares(r, "write")
           RR == Shares(r, "read")'
           WW == Shares(r, "write")'
<1>1. /\ IsFiniteSet(R) /\ Cardinality(R) <= readers[r] /\ readers[r] \in Nat
      /\ writer[r] = None => W = {}
      /\ writer[r] # None => R = {} /\ \E x : W = {x} /\ x[1] = writer[r]
  BY DEF Facts, LocksOK, Types
<1>2. RR = R \/ Passes(R, RR) \/ RR \subseteq R
  OBVIOUS
<1>3. WW = W \/ Passes(W, WW)
  OBVIOUS
<1> HIDE DEF R, W, RR, WW
<1>4. /\ IsFiniteSet(RR) /\ Cardinality(RR) <= readers[r]
      /\ R = {} => RR = {}
  <2>1. CASE RR \subseteq R
    BY <1>1, <2>1, SmallerSet
  <2>2. ASSUME NEW x, NEW y, x \in R, y \notin R, RR = (R \ {x}) \cup {y}
        PROVE  IsFiniteSet(RR) /\ Cardinality(RR) <= readers[r] /\ R # {}
    <3>1. IsFiniteSet(R \ {x}) /\ Cardinality(R \ {x}) = Cardinality(R) - 1
      BY <1>1, <2>2, FS_RemoveElement
    <3>2. IsFiniteSet(RR) /\ Cardinality(RR) = Cardinality(R \ {x}) + 1
      BY <2>2, <3>1, FS_AddElement
    <3>3. Cardinality(R) \in Nat
      BY <1>1, FS_CardinalityType
    <3>4. QED
      BY <1>1, <2>2, <3>1, <3>2, <3>3
  <2>3. QED
    BY <1>2, <2>1, <2>2 DEF Passes
<1>5. W = {} => WW = {}
  BY <1>3 DEF Passes
<1>6. ASSUME NEW x, W = {x}, x[1] = writer[r] PROVE \E y : WW = {y} /\ y[1] = writer[r]
  BY <1>3, <1>6 DEF Passes
<1>7. QED
  BY <1>1, <1>4, <1>5, <1>6 DEF R, W, RR, WW

LEMMA LocksTaken ==
  ASSUME Facts, plan \in Plans, NEW t \in Tasks, TakeResources(t), NEW y,
         y[1] = t,
         \A r \in Resources, m \in {"read", "write"} :
           /\ y \notin Shares(r, m)
           /\ Shares(r, m)' = IF Uses(t, r, m) THEN Shares(r, m) \cup {y} ELSE Shares(r, m)
  PROVE  LocksOK'
<1> SUFFICES ASSUME NEW r \in Resources
             PROVE  /\ IsFiniteSet(Shares(r, "read")') /\ Cardinality(Shares(r, "read")') <= readers'[r]
                    /\ writer'[r] = None => Shares(r, "write")' = {}
                    /\ writer'[r] # None =>
                         /\ Shares(r, "read")' = {}
                         /\ \E x : Shares(r, "write")' = {x} /\ x[1] = writer'[r]
  BY DEF LocksOK
<1>1. /\ readers'[r] = readers[r] + (IF Uses(t, r, "read") THEN 1 ELSE 0)
      /\ writer'[r] = IF Uses(t, r, "write") THEN t ELSE writer[r]
  BY DEF TakeResources
<1>2. /\ IsFiniteSet(Shares(r, "read")) /\ Cardinality(Shares(r, "read")) <= readers[r]
      /\ Cardinality(Shares(r, "read")) \in Nat /\ readers[r] \in Nat
      /\ writer[r] = None => Shares(r, "write") = {}
      /\ writer[r] # None => /\ Shares(r, "read") = {}
                             /\ \E x : Shares(r, "write") = {x} /\ x[1] = writer[r]
  BY FS_CardinalityType DEF Facts, LocksOK, Types
<1>3. Uses(t, r, "write") => writer[r] = None /\ readers[r] = 0 /\ Shares(r, "read") = {}
  <2>1. Uses(t, r, "write") => writer[r] = None /\ readers[r] = 0
    BY DEF TakeResources, Conflicts, CanAcquire, Uses
  <2>2. readers[r] = 0 => Cardinality(Shares(r, "read")) = 0
    BY <1>2
  <2>3. QED
    BY <1>2, <2>1, <2>2, FS_EmptySet
<1>4. Uses(t, r, "read") => writer[r] = None
  BY DEF TakeResources, Conflicts, CanAcquire, Uses
<1>5. ~ (Uses(t, r, "read") /\ Uses(t, r, "write"))
  <2>1. ASSUME NEW i \in DOMAIN Access[t], NEW k \in DOMAIN Access[t],
               Access[t][i] = [res |-> r, mode |-> "read"],
               Access[t][k] = [res |-> r, mode |-> "write"]
        PROVE  FALSE
    <3>1. Access[t][i].res = Access[t][k].res /\ Access[t][i].mode # Access[t][k].mode
      BY <2>1
    <3>2. QED
      BY <3>1, PlanFacts
  <2>2. QED
    BY <2>1 DEF Uses
<1>6. IsFiniteSet(Shares(r, "read")') /\ Cardinality(Shares(r, "read")') <= readers'[r]
  <2>1. CASE Uses(t, r, "read")
    <3>1. Shares(r, "read")' = Shares(r, "read") \cup {y} /\ y \notin Shares(r, "read")
      BY <2>1
    <3>2. /\ IsFiniteSet(Shares(r, "read") \cup {y})
          /\ Cardinality(Shares(r, "read") \cup {y}) = Cardinality(Shares(r, "read")) + 1
      BY <1>2, <3>1, FS_AddElement
    <3>3. readers'[r] = readers[r] + 1
      BY <1>1, <2>1
    <3>4. QED
      BY <1>2, <3>1, <3>2, <3>3
  <2>2. CASE ~ Uses(t, r, "read")
    BY <1>1, <1>2, <2>2
  <2>3. QED
    BY <2>1, <2>2
<1>7. CASE Uses(t, r, "write")
  <2>1. Shares(r, "write")' = {y} /\ Shares(r, "read")' = {} /\ writer'[r] = t
    BY <1>1, <1>2, <1>3, <1>5, <1>7
  <2>2. QED
    BY <1>6, <2>1, PlanFacts
<1>8. CASE ~ Uses(t, r, "write")
  <2>1. Shares(r, "write")' = Shares(r, "write") /\ writer'[r] = writer[r]
        /\ (writer[r] # None => Shares(r, "read")' = Shares(r, "read"))
    BY <1>1, <1>4, <1>8
  <2>2. QED
    BY <1>2, <1>6, <2>1
<1>9. QED
  BY <1>7, <1>8

LEMMA LocksReleased ==
  ASSUME Facts, plan \in Plans, NEW t \in Tasks, NEW a \in Accs, GiveBack(a, t), NEW x,
         x[1] = t, x \in Shares(a.res, a.mode),
         \A r \in Resources, m \in {"read", "write"} :
           Shares(r, m)' = IF r = a.res /\ m = a.mode THEN Shares(r, m) \ {x} ELSE Shares(r, m)
  PROVE  /\ LocksOK'
         /\ readers' \in [Resources -> Nat] /\ writer' \in [Resources -> Tasks \cup {None}]
<1>1. a.res \in Resources /\ a.mode \in {"read", "write"}
  BY DEF Accs
<1>2. /\ readers' = IF a.mode = "read" THEN [readers EXCEPT ![a.res] = @ - 1] ELSE readers
      /\ writer' = IF a.mode = "write" /\ writer[a.res] = t
                   THEN [writer EXCEPT ![a.res] = None] ELSE writer
      /\ readers \in [Resources -> Nat] /\ writer \in [Resources -> Tasks \cup {None}]
  BY DEF GiveBack, Facts, Types
<1>3. \A r \in Resources :
        /\ IsFiniteSet(Shares(r, "read")) /\ Cardinality(Shares(r, "read")) <= readers[r]
        /\ Cardinality(Shares(r, "read")) \in Nat /\ readers[r] \in Nat
        /\ writer[r] = None => Shares(r, "write") = {}
        /\ writer[r] # None => /\ Shares(r, "read") = {}
                               /\ \E y : Shares(r, "write") = {y} /\ y[1] = writer[r]
  BY FS_CardinalityType DEF Facts, LocksOK, Types
<1>4. CASE a.mode = "read"
  <2> DEFINE R == Shares(a.res, "read")
  <2>1. /\ R' = R \ {x} /\ x \in R /\ IsFiniteSet(R) /\ Cardinality(R) <= readers[a.res]
        /\ Cardinality(R) \in Nat
    BY <1>1, <1>3, <1>4
  <2>2. /\ IsFiniteSet(R \ {x}) /\ Cardinality(R \ {x}) = Cardinality(R) - 1
        /\ Cardinality(R \ {x}) \in Nat
    BY <2>1, FS_RemoveElement, FS_CardinalityType
  <2>3. /\ readers'[a.res] = readers[a.res] - 1 /\ writer' = writer
        /\ \A r \in Resources : r # a.res => readers'[r] = readers[r]
        /\ readers' = [readers EXCEPT ![a.res] = @ - 1]
    BY <1>1, <1>2, <1>4
  <2>4. readers[a.res] - 1 \in Nat
    BY <1>1, <1>3, <2>1, <2>2
  <2>5. readers' \in [Resources -> Nat]
    BY <1>2, <2>3, <2>4
  <2>6. /\ IsFiniteSet(R') /\ Cardinality(R') <= readers'[a.res]
    BY <1>1, <1>3, <2>1, <2>2, <2>3
  <2>7. /\ \A r \in Resources : Shares(r, "write")' = Shares(r, "write")
        /\ \A r \in Resources : r # a.res => Shares(r, "read")' = Shares(r, "read")
        /\ writer[a.res] = None
    BY <1>1, <1>3, <1>4, <2>1
  <2> HIDE DEF R
  <2>8. ASSUME NEW r \in Resources
        PROVE  /\ IsFiniteSet(Shares(r, "read")') /\ Cardinality(Shares(r, "read")') <= readers'[r]
               /\ writer'[r] = None => Shares(r, "write")' = {}
               /\ writer'[r] # None =>
                    /\ Shares(r, "read")' = {}
                    /\ \E y : Shares(r, "write")' = {y} /\ y[1] = writer'[r]
    <3>1. CASE r = a.res
      BY <1>3, <2>3, <2>6, <2>7, <3>1 DEF R
    <3>2. CASE r # a.res
      BY <1>3, <2>3, <2>7, <3>2
    <3>3. QED
      BY <3>1, <3>2
  <2>9. QED
    BY <1>2, <2>3, <2>5, <2>8 DEF LocksOK
<1>5. CASE a.mode = "write"
  <2>1. /\ Shares(a.res, "write")' = Shares(a.res, "write") \ {x} /\ x \in Shares(a.res, "write")
        /\ \A r \in Resources : r # a.res => Shares(r, "write")' = Shares(r, "write")
        /\ \A r \in Resources : Shares(r, "read")' = Shares(r, "read")
    BY <1>1, <1>5
  <2>2. writer[a.res] = t /\ Shares(a.res, "write")' = {}
    BY <1>1, <1>3, <2>1
  <2>3. /\ readers' = readers /\ writer' = [writer EXCEPT ![a.res] = None]
        /\ writer'[a.res] = None /\ \A r \in Resources : r # a.res => writer'[r] = writer[r]
    BY <1>1, <1>2, <1>5, <2>2
  <2>4. ASSUME NEW r \in Resources
        PROVE  /\ IsFiniteSet(Shares(r, "read")') /\ Cardinality(Shares(r, "read")') <= readers'[r]
               /\ writer'[r] = None => Shares(r, "write")' = {}
               /\ writer'[r] # None =>
                    /\ Shares(r, "read")' = {}
                    /\ \E y : Shares(r, "write")' = {y} /\ y[1] = writer'[r]
    <3>1. CASE r = a.res
      BY <1>3, <2>1, <2>2, <2>3, <3>1
    <3>2. CASE r # a.res
      BY <1>3, <2>1, <2>3, <3>2
    <3>3. QED
      BY <3>1, <3>2
  <2>5. writer' \in [Resources -> Tasks \cup {None}]
    BY <1>2, <2>3
  <2>6. QED
    BY <1>2, <2>3, <2>4, <2>5 DEF LocksOK
<1>6. QED
  BY <1>1, <1>4, <1>5

-----------------------------------------------------------------------------
(* Chains *)

LEMMA Rest ==
  ASSUME NEW S, NEW s \in Seq(S), NEW i \in 1..Len(s)
  PROVE  /\ SubSeq(s, i+1, Len(s)) \in Seq(S) /\ Len(SubSeq(s, i+1, Len(s))) = Len(s)-i
         /\ \A k \in 1..Len(s)-i : SubSeq(s, i+1, Len(s))[k] = s[i+k]
<1>1. SubSeq(s, i+1, Len(s)) \in Seq(S) /\ Len(SubSeq(s, i+1, Len(s))) = Len(s)-i
  OBVIOUS
<1>2. \A k \in 1..Len(s)-i : SubSeq(s, i+1, Len(s))[k] = s[i+k]
  OBVIOUS
<1>3. QED
  BY <1>1, <1>2

LEMMA Joined ==
  ASSUME NEW S, NEW a \in Seq(S), NEW b \in Seq(S)
  PROVE  /\ a \o b \in Seq(S) /\ Len(a \o b) = Len(a) + Len(b)
         /\ \A k \in 1..Len(a)+Len(b) : (a \o b)[k] = IF k <= Len(a) THEN a[k] ELSE b[k - Len(a)]
OBVIOUS

LEMMA Prepended ==
  ASSUME NEW S, NEW s \in Seq(S), NEW t \in S, IsInjective(s), t \notin ToSet(s)
  PROVE  /\ <<t>> \o s \in Seq(S) /\ IsInjective(<<t>> \o s)
         /\ ToSet(<<t>> \o s) = ToSet(s) \cup {t}
<1> DEFINE o == <<t>> \o s
<1>1. o \in Seq(S) /\ DOMAIN o = 1..Len(s)+1 /\ o[1] = t
      /\ \A k \in 2..Len(s)+1 : o[k] = s[k-1]
  OBVIOUS
<1>2. \A k \in DOMAIN s : o[k+1] = s[k] /\ k+1 \in DOMAIN o
  BY <1>1
<1> HIDE DEF o
<1>3. IsInjective(o)
  <2>1. \A k \in 2..Len(s)+1 : o[k] # t
    BY <1>1 DEF ToSet
  <2>2. \A i, k \in 2..Len(s)+1 : o[i] = o[k] => i = k
    BY <1>1 DEF IsInjective
  <2>3. QED
    BY <1>1, <2>1, <2>2 DEF IsInjective
<1>4. ToSet(o) = ToSet(s) \cup {t}
  <2>1. \A k \in DOMAIN o : o[k] \in ToSet(s) \cup {t}
    <3>1. \A k \in 2..Len(s)+1 : k-1 \in DOMAIN s
      OBVIOUS
    <3>2. \A k \in 2..Len(s)+1 : o[k] \in ToSet(s)
      BY <1>1, <3>1 DEF ToSet
    <3>3. \A k \in DOMAIN o : k = 1 \/ k \in 2..Len(s)+1
      BY <1>1
    <3>4. QED
      BY <1>1, <3>2, <3>3
  <2>2. \A k \in DOMAIN s : s[k] \in ToSet(o)
    BY <1>2 DEF ToSet
  <2>3. t \in ToSet(o)
    BY <1>1 DEF ToSet
  <2>4. QED
    BY <2>1, <2>2, <2>3 DEF ToSet
<1>5. QED
  BY <1>1, <1>3, <1>4 DEF o

LEMMA Unlinking ==
  ASSUME NEW S, NEW s \in Seq(S), NEW t, IsInjective(s), t \in ToSet(s)
  PROVE  /\ Unlinked(s, t) \in Seq(S) /\ IsInjective(Unlinked(s, t))
         /\ ToSet(Unlinked(s, t)) = ToSet(s) \ {t}
<1> DEFINE i == CHOOSE k \in DOMAIN s : s[k] = t
           o == Unlinked(s, t)
<1>1. i \in DOMAIN s /\ s[i] = t
  BY DEF ToSet
<1>2. o = SubSeq(s, 1, i-1) \o SubSeq(s, i+1, Len(s))
  BY DEF Unlinked, RemoveAt
<1> HIDE DEF i, o
<1>3. Len(s) \in Nat /\ DOMAIN s = 1..Len(s) /\ i \in 1..Len(s)
  BY <1>1
<1>4. /\ o \in Seq(S) /\ DOMAIN o = 1..Len(s)-1
      /\ \A k \in DOMAIN o : o[k] = IF k < i THEN s[k] ELSE s[k+1]
  <2> DEFINE front == SubSeq(s, 1, i-1)
             back == SubSeq(s, i+1, Len(s))
  <2>1. front \in Seq(S) /\ Len(front) = i-1
    BY <1>3
  <2>2. \A k \in 1..i-1 : front[k] = s[k]
    BY <1>3
  <2>3. back \in Seq(S) /\ Len(back) = Len(s)-i /\ \A k \in 1..Len(s)-i : back[k] = s[i+k]
    BY <1>3, Rest
  <2>4. o = front \o back
    BY <1>2
  <2> HIDE DEF front, back
  <2>5. /\ o \in Seq(S) /\ Len(o) = Len(front) + Len(back)
        /\ \A k \in 1..Len(front)+Len(back) :
             o[k] = IF k <= Len(front) THEN front[k] ELSE back[k - Len(front)]
    BY <2>1, <2>3, <2>4, Joined
  <2>6. Len(o) = Len(s)-1 /\ Len(front) + Len(back) = Len(s)-1
    BY <1>3, <2>1, <2>3, <2>5
  <2>7. ASSUME NEW k \in 1..Len(s)-1 PROVE o[k] = IF k < i THEN s[k] ELSE s[k+1]
    <3>1. CASE k < i
      BY <1>3, <2>1, <2>2, <2>5, <2>6, <3>1
    <3>2. CASE ~ k < i
      <4>1. k - (i-1) \in 1..Len(s)-i /\ i + (k - (i-1)) = k + 1
        BY <1>3, <3>2
      <4>2. back[k - (i-1)] = s[k+1]
        BY <2>3, <4>1
      <4>3. QED
        BY <1>3, <2>1, <2>5, <2>6, <3>2, <4>2
    <3>3. QED
      BY <3>1, <3>2
  <2>8. DOMAIN o = 1..Len(o)
    BY <2>5
  <2>9. QED
    BY <2>5, <2>6, <2>7, <2>8
<1>5. IsInjective(o)
  BY <1>3, <1>4 DEF IsInjective
<1>6. ToSet(o) \subseteq ToSet(s) \ {t}
  <2>1. \A k \in DOMAIN o : o[k] \in ToSet(s) /\ o[k] # t
    BY <1>1, <1>3, <1>4 DEF IsInjective, ToSet
  <2>2. QED
    BY <2>1 DEF ToSet
<1>7. ToSet(s) \ {t} \subseteq ToSet(o)
  <2>1. ASSUME NEW k \in DOMAIN s, s[k] # t PROVE \E j \in DOMAIN o : o[j] = s[k]
    <3>1. CASE k < i
      BY <1>3, <1>4, <3>1
    <3>2. CASE k > i
      <4>1. k-1 \in DOMAIN o /\ ~ k-1 < i /\ (k-1)+1 = k
        BY <1>3, <1>4, <3>2
      <4>2. QED
        BY <1>4, <4>1
    <3>3. QED
      BY <1>1, <1>3, <2>1, <3>1, <3>2
  <2>2. QED
    BY <2>1 DEF ToSet
<1>8. QED
  BY <1>4, <1>5, <1>6, <1>7 DEF o

LEMMA Least ==
  ASSUME NEW T \in SUBSET Nat, T # {}
  PROVE  \E i \in T : \A j \in T : i <= j
<1> DEFINE R == {p \in Nat \X Nat : p[1] < p[2]}
<1>1. IsWellFoundedOn(R, Nat)
  BY NatLessThanWellFounded, Zenon DEF OpToRel
<1>2. PICK i \in T : \A j \in T : ~ <<j, i>> \in R
  <2> HIDE DEF R
  <2>1. QED
    BY <1>1, WFMin
<1>3. ASSUME NEW j \in T PROVE i <= j
  <2>1. i \in Nat /\ j \in Nat /\ <<j, i>> \notin R
    BY <1>2
  <2>2. ~ j < i
    BY <2>1
  <2>3. QED
    BY <2>1, <2>2
<1>4. QED
  BY <1>3

LEMMA ConflictFacts ==
  ASSUME plan \in Plans, NEW t \in Tasks, Conflicts(t) # {}
  PROVE  FirstConflict(t) \in Accs
<1>1. Access[t] \in Seq(Accs) /\ Conflicts(t) \subseteq Nat /\ Conflicts(t) \subseteq DOMAIN Access[t]
  BY PlanFacts DEF Conflicts
<1>2. \E i \in Conflicts(t) : \A j \in Conflicts(t) : i <= j
  BY <1>1, Least
<1>3. QED
  BY <1>1, <1>2 DEF FirstConflict

(* The waiting writers of a chain. *)
Writing(r) == ToSet(chain[r]) \cap waitWrite

LEMMA WritingFinite ==
  ASSUME plan \in Plans, Types, NEW r \in Resources
  PROVE  ToSet(chain[r]) \subseteq Tasks /\ IsFiniteSet(Writing(r))
<1>1. ToSet(chain[r]) \subseteq Tasks
  BY DEF Types, ToSet
<1>2. QED
  BY <1>1, PlanFacts, FS_Subset DEF Writing

LEMMA EnqueueExact ==
  ASSUME Facts, plan \in Plans, plan' = plan, NEW t \in Tasks, waitOn[t] = None,
         NEW a \in Accs, a = FirstConflict(t), Enqueue(t)
  PROVE  /\ ChainIsExact'
         /\ waitOn' = [waitOn EXCEPT ![t] = a.res] /\ waitOn' \in [Tasks -> Resources \cup {None}]
         /\ chain' \in [Resources -> Seq(Tasks)] /\ waiters' \in [Resources -> Nat]
         /\ waitWrite' \subseteq Tasks
<1>1. /\ Types /\ ChainIsExact /\ a.res \in Resources /\ a.mode \in {"read", "write"}
      /\ Tasks' = Tasks /\ None \notin Resources
  BY PlanFacts DEF Facts, Accs, Tasks, Access
<1>2. /\ waitOn' = [waitOn EXCEPT ![t] = a.res]
      /\ chain' = [chain EXCEPT ![a.res] = <<t>> \o @]
      /\ IF a.mode = "write"
         THEN /\ waiters' = [waiters EXCEPT ![a.res] = @ + 1]
              /\ waitWrite' = waitWrite \cup {t}
         ELSE waitWrite' = waitWrite \ {t} /\ waiters' = waiters
  BY DEF Enqueue
<1>3. waitOn' \in [Tasks -> Resources \cup {None}]
  BY <1>1, <1>2 DEF Types
<1>4. /\ waitOn'[t] = a.res /\ \A u \in Tasks : u # t => waitOn'[u] = waitOn[u]
      /\ chain'[a.res] = <<t>> \o chain[a.res]
      /\ \A r \in Resources : r # a.res => chain'[r] = chain[r]
  BY <1>1, <1>2 DEF Types
<1>5. \A r \in Resources : /\ chain[r] \in Seq(Tasks) /\ IsInjective(chain[r])
                           /\ t \notin ToSet(chain[r]) /\ waiters[r] \in Nat
                           /\ ToSet(chain[r]) = {u \in Tasks : waitOn[u] = r}
                           /\ waiters[r] = Cardinality(Writing(r))
  <2>1. \A r \in Resources : chain[r] \in Seq(Tasks) /\ waiters[r] \in Nat
    BY <1>1 DEF Types
  <2>2. \A r \in Resources : /\ IsInjective(chain[r])
                             /\ ToSet(chain[r]) = {u \in Tasks : waitOn[u] = r}
                             /\ waiters[r] = Cardinality(Writing(r))
    BY <1>1 DEF ChainIsExact, Writing
  <2>3. QED
    BY <1>1, <2>1, <2>2
<1>6. /\ chain'[a.res] \in Seq(Tasks) /\ IsInjective(chain'[a.res])
      /\ ToSet(chain'[a.res]) = ToSet(chain[a.res]) \cup {t}
  BY <1>1, <1>4, <1>5, Prepended
<1>7. chain' \in [Resources -> Seq(Tasks)]
  BY <1>1, <1>2, <1>6 DEF Types
<1>8. waiters' \in [Resources -> Nat] /\ waitWrite' \subseteq Tasks
  <2>1. waiters' \in [Resources -> Nat]
    <3>1. waiters \in [Resources -> Nat] /\ waiters[a.res] + 1 \in Nat
      BY <1>1 DEF Types
    <3>2. QED
      BY <1>2, <3>1
  <2>2. waitWrite' \subseteq Tasks
    BY <1>1, <1>2 DEF Types
  <2>3. QED
    BY <2>1, <2>2
<1>9. ASSUME NEW r \in Resources PROVE ToSet(chain'[r]) = {u \in Tasks : waitOn'[u] = r}
  <2>1. CASE r = a.res
    BY <1>4, <1>5, <1>6, <2>1
  <2>2. CASE r # a.res
    BY <1>4, <1>5, <2>2
  <2>3. QED
    BY <2>1, <2>2
<1>10. ASSUME NEW r \in Resources
       PROVE  waiters'[r] = Cardinality(ToSet(chain'[r]) \cap waitWrite')
  <2>1. CASE r = a.res /\ a.mode = "write"
    <3>1. /\ ToSet(chain'[r]) \cap waitWrite' = Writing(r) \cup {t} /\ t \notin Writing(r)
          /\ waiters'[r] = waiters[r] + 1
      BY <1>1, <1>2, <1>5, <1>6, <2>1 DEF Writing, Types
    <3>2. Cardinality(Writing(r) \cup {t}) = Cardinality(Writing(r)) + 1
      BY <1>1, <3>1, WritingFinite, FS_AddElement
    <3>3. QED
      BY <1>5, <3>1, <3>2
  <2>2. CASE ~ (r = a.res /\ a.mode = "write")
    <3>1. ToSet(chain'[r]) \cap waitWrite' = Writing(r)
      BY <1>1, <1>2, <1>4, <1>5, <1>6, <2>2 DEF Writing
    <3>2. waiters'[r] = waiters[r]
      BY <1>1, <1>2, <2>2 DEF Types
    <3>3. QED
      BY <1>5, <3>1, <3>2
  <2>3. QED
    BY <2>1, <2>2
<1>11. \A r \in Resources : IsInjective(chain'[r])
  BY <1>4, <1>5, <1>6
<1>12. ChainIsExact'
  BY <1>1, <1>9, <1>10, <1>11 DEF ChainIsExact
<1>13. QED
  BY <1>2, <1>3, <1>7, <1>8, <1>12

LEMMA DequeueExact ==
  ASSUME Facts, plan \in Plans, plan' = plan, NEW t \in Tasks, NEW r \in Resources,
         waitOn[t] = r, Dequeue(t)
  PROVE  /\ ChainIsExact'
         /\ waitOn' = [waitOn EXCEPT ![t] = None] /\ waitOn' \in [Tasks -> Resources \cup {None}]
         /\ chain' \in [Resources -> Seq(Tasks)] /\ waiters' \in [Resources -> Nat]
         /\ waitWrite' \subseteq Tasks
<1>1. Types /\ ChainIsExact /\ Tasks' = Tasks /\ None \notin Resources
  BY PlanFacts DEF Facts, Tasks, Access
<1>2. /\ waitOn' = [waitOn EXCEPT ![t] = None] /\ waitWrite' = waitWrite \ {t}
      /\ chain' = [chain EXCEPT ![r] = Unlinked(@, t)]
      /\ waiters' = IF t \in waitWrite THEN [waiters EXCEPT ![r] = @ - 1] ELSE waiters
  BY DEF Dequeue
<1>3. waitOn' \in [Tasks -> Resources \cup {None}]
  BY <1>1, <1>2 DEF Types
<1>4. /\ waitOn'[t] = None /\ \A u \in Tasks : u # t => waitOn'[u] = waitOn[u]
      /\ chain'[r] = Unlinked(chain[r], t)
      /\ \A q \in Resources : q # r => chain'[q] = chain[q]
  BY <1>1, <1>2 DEF Types
<1>5. \A q \in Resources : /\ chain[q] \in Seq(Tasks) /\ IsInjective(chain[q])
                           /\ (t \in ToSet(chain[q])) <=> (q = r)
                           /\ waiters[q] \in Nat
                           /\ ToSet(chain[q]) = {u \in Tasks : waitOn[u] = q}
                           /\ waiters[q] = Cardinality(Writing(q))
  <2>1. \A q \in Resources : chain[q] \in Seq(Tasks) /\ waiters[q] \in Nat
    BY <1>1 DEF Types
  <2>2. \A q \in Resources : /\ IsInjective(chain[q])
                             /\ ToSet(chain[q]) = {u \in Tasks : waitOn[u] = q}
                             /\ waiters[q] = Cardinality(Writing(q))
    BY <1>1 DEF ChainIsExact, Writing
  <2>3. QED
    BY <2>1, <2>2
<1>6. /\ chain'[r] \in Seq(Tasks) /\ IsInjective(chain'[r])
      /\ ToSet(chain'[r]) = ToSet(chain[r]) \ {t}
  BY <1>1, <1>4, <1>5, Unlinking
<1>7. chain' \in [Resources -> Seq(Tasks)]
  BY <1>1, <1>2, <1>6 DEF Types
<1>8. ASSUME NEW q \in Resources PROVE ToSet(chain'[q]) = {u \in Tasks : waitOn'[u] = q}
  BY <1>1, <1>4, <1>5, <1>6
<1>9. ASSUME NEW q \in Resources
      PROVE  waiters'[q] = Cardinality(ToSet(chain'[q]) \cap waitWrite') /\ waiters'[q] \in Nat
  <2>1. CASE q = r /\ t \in waitWrite
    <3>1. /\ ToSet(chain'[q]) \cap waitWrite' = Writing(q) \ {t} /\ t \in Writing(q)
          /\ waiters'[q] = waiters[q] - 1
      BY <1>1, <1>2, <1>5, <1>6, <2>1 DEF Writing, Types
    <3>2. /\ Cardinality(Writing(q) \ {t}) = Cardinality(Writing(q)) - 1
          /\ IsFiniteSet(Writing(q) \ {t})
      BY <1>1, <3>1, WritingFinite, FS_RemoveElement
    <3>3. Cardinality(Writing(q) \ {t}) \in Nat
      BY <3>2, FS_CardinalityType
    <3>4. waiters'[q] = Cardinality(Writing(q) \ {t})
      BY <1>5, <3>1, <3>2
    <3>5. QED
      BY <3>1, <3>3, <3>4
  <2>2. CASE ~ (q = r /\ t \in waitWrite)
    <3>1. ToSet(chain'[q]) \cap waitWrite' = Writing(q)
      BY <1>1, <1>2, <1>4, <1>5, <1>6, <2>2 DEF Writing
    <3>2. waiters'[q] = waiters[q]
      BY <1>1, <1>2, <2>2 DEF Types
    <3>3. QED
      BY <1>5, <3>1, <3>2
  <2>3. QED
    BY <2>1, <2>2
<1>10. waiters' \in [Resources -> Nat] /\ waitWrite' \subseteq Tasks
  <2>1. waitWrite' \subseteq Tasks
    BY <1>1, <1>2 DEF Types
  <2>2. waiters' = [q \in Resources |-> waiters'[q]]
    BY <1>1, <1>2 DEF Types
  <2>3. QED
    BY <1>9, <2>1, <2>2
<1>11. \A q \in Resources : IsInjective(chain'[q])
  BY <1>4, <1>5, <1>6
<1>12. ChainIsExact'
  BY <1>1, <1>8, <1>9, <1>11 DEF ChainIsExact
<1>13. QED
  BY <1>2, <1>3, <1>7, <1>10, <1>12

-----------------------------------------------------------------------------
(* Steps *)

LEMMA TypesKept ==
  ASSUME Types, plan \in Plans, plan' = plan, NEW p \in Threads, NEW to \in Steps(p),
         pc' = [pc EXCEPT ![p] = to],
         state' \in [Tasks -> {"dormant", "ready", "running", "waiting", "completed"}],
         epoch' \in [Tasks -> Nat], cancelled' \subseteq Tasks, held' \subseteq Tasks,
         readers' \in [Resources -> Nat], writer' \in [Resources -> Tasks \cup {None}],
         waiters' \in [Resources -> Nat], chain' \in [Resources -> Seq(Tasks)],
         waitOn' \in [Tasks -> Resources \cup {None}], waitWrite' \subseteq Tasks,
         tickets' \subseteq Tasks \X Nat, hand' \in [Threads -> Nat],
         job' \in [Threads -> Tasks \cup {None}], woken' \in [Threads -> Tasks \cup {None}],
         \A q \in Threads : q # p => job'[q] = job[q] /\ woken'[q] = woken[q],
         to # "idle" => job'[p] \in Tasks, to \in {"try", "swap", "give"} => woken'[p] \in Tasks,
         frames' \in [Threads -> Seq(FrameRecs)]
  PROVE  Types'
<1>1. Tasks' = Tasks
  BY DEF Tasks, Access
<1>2. pc'[p] = to /\ \A q \in Threads : q # p => pc'[q] = pc[q]
  BY Moves
<1>3. to \in {"idle", "acquire", "route", "drop", "body", "complete"} \cup InRelease
  BY DEF Steps
<1>4. pc' \in [Threads -> {"idle", "acquire", "route", "drop", "body", "complete"} \cup InRelease]
  BY <1>3 DEF Types
<1>5. \A q \in Threads : pc'[q] \in Steps(q)
  BY <1>2 DEF Types
<1>6. \A q \in Threads : /\ pc'[q] # "idle" => job'[q] \in Tasks
                         /\ pc'[q] \in {"try", "swap", "give"} => woken'[q] \in Tasks
  BY <1>2 DEF Types
<1>7. QED
  BY <1>1, <1>4, <1>5, <1>6 DEF Types, FrameRecs

LEMMA ChainsKept ==
  ASSUME ChainIsExact, UNCHANGED <<plan, queue>>
  PROVE  ChainIsExact'
BY DEF ChainIsExact, Tasks, Access

LEMMA TicketsKept ==
  ASSUME Types, TicketsOK, NEW p \in Threads, NEW to, pc' = [pc EXCEPT ![p] = to],
         to \in {"acquire", "route"} => pc[p] \in {"acquire", "route"},
         UNCHANGED <<epoch, hand, job>>, tickets' \subseteq tickets
  PROVE  TicketsOK'
BY Moves DEF TicketsOK, Threads

(* A step in which no resource changes hands. *)
LEMMA LocksUntouched ==
  ASSUME Facts, NEW p \in Threads, NEW to, pc' = [pc EXCEPT ![p] = to],
         UNCHANGED <<plan, locks, frames>>,
         \A q \in Threads : q # p => woken'[q] = woken[q],
         pc[p] # "give", to # "give", pc[p] = "release" <=> to = "release",
         pc[p] \in InRelease <=> to \in InRelease,
         \A u \in Tasks : Granted(u)' <=> Granted(u)
  PROVE  (\A q \in Threads : FrameOK(q)') /\ LocksOK'
<1>1. pc'[p] = to /\ \A q \in Threads : q # p => pc'[q] = pc[q]
  BY Moves DEF Facts
<1>2. ASSUME NEW q \in Threads PROVE FrameOK(q)'
  <2>1. FrameOK(q) /\ frames'[q] = frames[q]
    BY DEF Facts
  <2>2. CASE q # p
    BY <1>1, <2>1, <2>2, SameFrame
  <2>3. CASE q = p
    BY <1>1, <2>1, <2>3 DEF FrameOK, AtHead
  <2>4. QED
    BY <2>2, <2>3
<1>3. \A r \in Resources, m \in {"read", "write"} : Shares(r, m)' = Shares(r, m)
  BY <1>1, SharesUntouched
<1>4. LocksOK'
  BY <1>3, LocksKept
<1>5. QED
  BY <1>2, <1>4

(* ... and no task is granted or refused any. *)
LEMMA NothingGranted ==
  ASSUME Facts, NEW p \in Threads, NEW to, pc' = [pc EXCEPT ![p] = to],
         UNCHANGED <<plan, held, locks, frames, tickets>>,
         \A q \in Threads : q # p => job'[q] = job[q] /\ woken'[q] = woken[q],
         {pc[p], to} \cap (InGrant \cup {"give"}) = {},
         pc[p] = "release" <=> to = "release",
         pc[p] \in InRelease <=> to \in InRelease
  PROVE  (\A q \in Threads : FrameOK(q)') /\ LocksOK' /\ HeldOK'
<1>1. pc'[p] = to /\ \A q \in Threads : q # p => pc'[q] = pc[q]
  BY Moves DEF Facts
<1>2. \A u \in Tasks : Granted(u)' <=> Granted(u)
  BY SameGrants DEF Facts
<1>3. \A u \in Tasks : Giving(u)' <=> Giving(u)
  BY <1>1, SameGiving
<1>4. HeldOK'
  BY <1>2, <1>3, HeldKept DEF Facts
<1>5. QED
  BY <1>2, <1>4, LocksUntouched

LEMMA ActivateStep ==
  ASSUME Facts, plan \in Plans, NEW c \in Clients, Activate(c)
  PROVE  Facts'
<1>1. /\ plan' = plan /\ pc[c] = "idle" /\ pc' = [pc EXCEPT ![c] = "acquire"]
      /\ UNCHANGED <<cancelled, held, locks, queue, tickets, frames, woken>>
  BY DEF Activate, Goto
<1>2. PICK t \in Tasks \ cancelled :
        /\ state[t] \in {"dormant", "completed"}
        /\ state' = [state EXCEPT ![t] = "ready"]
        /\ epoch' = [epoch EXCEPT ![t] = @ + 1]
        /\ job' = [job EXCEPT ![c] = t]
        /\ hand' = [hand EXCEPT ![c] = epoch[t] + 1]
  BY DEF Activate, Set
<1>3. /\ Types /\ c \in Threads /\ t \in Tasks /\ Only(t, "nobody", None) /\ TicketsOK
      /\ HeldOK /\ ChainIsExact /\ Clients \subseteq Threads
  BY <1>2, WhoHasIt DEF Facts, Threads
<1>4. pc'[c] = "acquire" /\ \A q \in Threads : q # c => pc'[q] = pc[q]
  BY <1>1, <1>3, Moves
<1>5. /\ job'[c] = t /\ \A q \in Threads : q # c => job'[q] = job[q] /\ woken'[q] = woken[q]
      /\ hand'[c] = epoch[t] + 1 /\ \A q \in Threads : q # c => hand'[q] = hand[q]
      /\ epoch'[t] = epoch[t] + 1 /\ \A u \in Tasks : u # t => epoch'[u] = epoch[u]
  BY <1>1, <1>2, <1>3 DEF Types
<1>6. Types'
  <2>1. /\ state' \in [Tasks -> {"dormant", "ready", "running", "waiting", "completed"}]
        /\ epoch' \in [Tasks -> Nat]
    BY <1>2, <1>3 DEF Types
  <2>2. job' \in [Threads -> Tasks \cup {None}]
    BY <1>2, <1>3 DEF Types
  <2>3. hand' \in [Threads -> Nat]
    BY <1>2, <1>3 DEF Types
  <2>4. QED
    BY <1>1, <1>3, <1>5, <2>1, <2>2, <2>3, TypesKept DEF Types, Steps
<1>7. \A u \in Tasks : OwnerOK(u)'
  BY <1>1, <1>2, <1>3, ActivateOwner
<1>8. TicketsOK'
  <2>1. \A e \in tickets : e[1] # t /\ e[1] \in Tasks
    BY <1>3 DEF Only, Queued, Types
  <2>2. \A d \in Clients : d # c /\ pc[d] \in {"acquire", "route"} => job[d] # t /\ job[d] \in Tasks
    BY <1>3 DEF Only, Works, Types
  <2>3. QED
    BY <1>1, <1>3, <1>4, <1>5, <2>1, <2>2 DEF TicketsOK
<1>9. (\A q \in Threads : FrameOK(q)') /\ LocksOK' /\ HeldOK'
  BY <1>1, <1>3, <1>5, NothingGranted DEF InGrant, InRelease
<1>10. QED
  BY <1>1, <1>3, <1>6, <1>7, <1>8, <1>9, ChainsKept DEF Facts, Tasks, Access

LEMMA AcquireConflictStep ==
  ASSUME Facts, plan \in Plans, NEW c \in Clients, AcquireConflict(c)
  PROVE  Facts'
<1> DEFINE t == job[c]
           a == FirstConflict(t)
<1>1. /\ plan' = plan /\ pc[c] = "acquire" /\ pc' = [pc EXCEPT ![c] = "idle"]
      /\ UNCHANGED <<epoch, cancelled, held, locks, tickets, job, hand, woken, frames>>
      /\ waitOn[t] = None /\ Conflicts(t) # {} /\ Enqueue(t)
      /\ state' = [state EXCEPT ![t] = IF @ = "ready" THEN "waiting" ELSE @]
  BY DEF AcquireConflict, Goto, hands
<1>2. /\ Types /\ c \in Threads /\ t \in Tasks /\ TicketsOK /\ HeldOK /\ Clients \subseteq Threads
      /\ state[t] = "ready"
  BY <1>1, WhoHasIt DEF Facts, Threads, Types, Works
<1>3. a \in Accs /\ a.res \in Resources
  BY <1>1, <1>2, ConflictFacts DEF Accs
<1> HIDE DEF t, a
<1>4. /\ ChainIsExact'
      /\ waitOn' = [waitOn EXCEPT ![t] = a.res] /\ waitOn' \in [Tasks -> Resources \cup {None}]
      /\ chain' \in [Resources -> Seq(Tasks)] /\ waiters' \in [Resources -> Nat]
      /\ waitWrite' \subseteq Tasks
  BY <1>1, <1>2, <1>3, EnqueueExact DEF a
<1>5. state' = [state EXCEPT ![t] = "waiting"]
  BY <1>1, <1>2
<1>6. state' \in [Tasks -> {"dormant", "ready", "running", "waiting", "completed"}]
  BY <1>2, <1>5 DEF Types
<1>7. Types'
  BY <1>1, <1>2, <1>4, <1>6, TypesKept DEF Types, Steps
<1>8. \A u \in Tasks : OwnerOK(u)'
  BY <1>1, <1>2, <1>3, <1>4, <1>5, CallWaits DEF t
<1>9. TicketsOK'
  BY <1>1, <1>2, TicketsKept
<1>10. (\A q \in Threads : FrameOK(q)') /\ LocksOK' /\ HeldOK'
  BY <1>1, <1>2, NothingGranted DEF InGrant, InRelease
<1>11. QED
  BY <1>1, <1>4, <1>7, <1>8, <1>9, <1>10 DEF Facts, Tasks, Access

LEMMA RouteStep ==
  ASSUME Facts, plan \in Plans, NEW c \in Clients, Route(c)
  PROVE  Facts'
<1>0. job[c] \in Tasks
  BY DEF Facts, Types, Threads, Route, Goto
<1> PICK t \in Tasks : t = job[c]
  BY <1>0
<1>1. /\ plan' = plan /\ pc[c] = "route" /\ pc' = [pc EXCEPT ![c] = "idle"]
      /\ tickets' = tickets \cup {<<t, hand[c]>>}
      /\ UNCHANGED <<state, epoch, cancelled, held, locks, queue, job, hand, woken, frames>>
  BY DEF Route, Goto, hands
<1>2. /\ Types /\ c \in Threads /\ t \in Tasks /\ TicketsOK /\ HeldOK /\ ChainIsExact
      /\ Only(t, "works", c) /\ Clients \subseteq Threads /\ hand[c] = epoch[t]
  BY <1>1, WhoHasIt DEF Facts, Threads, Types, Works, TicketsOK
<1>3. pc'[c] = "idle" /\ \A q \in Threads : q # c => pc'[q] = pc[q]
  BY <1>1, <1>2, Moves
<1>4. Types'
  <2>1. tickets' \subseteq Tasks \X Nat
    BY <1>1, <1>2 DEF Types
  <2>2. QED
    BY <1>1, <1>2, <2>1, TypesKept DEF Types, Steps
<1>5. \A u \in Tasks : OwnerOK(u)'
  BY <1>1, <1>2, RouteOwner
<1>6. \A e \in tickets' : e \in tickets \/ (e[1] = t /\ e[2] = hand[c])
  BY <1>1, NewTicket
<1>7. TicketsOK'
  BY <1>1, <1>2, <1>3, <1>6 DEF TicketsOK
<1>8. \A u \in Tasks : Granted(u)' <=> Granted(u)
  <2>1. Granted(t) /\ Granted(t)'
    BY <1>1, <1>2, NewTicket DEF Granted
  <2>2. \A u \in Tasks : u # t => (Queued(u)' <=> Queued(u))
    BY <1>1, NewTicket
  <2>3. \A u \in Tasks : u # t => (Granted(u)' <=> Granted(u))
    BY <1>1, <1>2, <1>3, <2>2, OtherGrants
  <2>4. QED
    BY <2>1, <2>3
<1>9. HeldOK'
  BY <1>1, <1>2, <1>3, <1>8, SameGiving, HeldKept
<1>10. (\A q \in Threads : FrameOK(q)') /\ LocksOK'
  BY <1>1, <1>2, <1>8, LocksUntouched DEF InRelease
<1>11. QED
  BY <1>1, <1>2, <1>4, <1>5, <1>7, <1>9, <1>10, ChainsKept DEF Facts, Tasks, Access

(* A task is given its resources. *)
LEMMA Taking ==
  ASSUME Facts, plan \in Plans, plan' = plan, NEW p \in Threads, NEW t \in Tasks, NEW to,
         TakeResources(t), pc' = [pc EXCEPT ![p] = to],
         UNCHANGED <<tickets, job, woken, frames>>,
         \/ pc[p] = "acquire" /\ to = "route" /\ job[p] = t
         \/ pc[p] = "try" /\ to = "swap" /\ woken[p] = t
  PROVE  /\ HeldOK' /\ (\A q \in Threads : FrameOK(q)') /\ LocksOK'
         /\ held' \subseteq Tasks /\ readers' \in [Resources -> Nat]
         /\ writer' \in [Resources -> Tasks \cup {None}]
<1> PICK y \in Tokens : y = <<t, "task", None, 0>>
  BY ATaskToken
<1>1. /\ Types /\ HeldOK /\ Tasks' = Tasks /\ Access' = Access /\ \A q \in Threads : FrameOK(q)
  BY DEF Facts, Tasks, Access
<1>2. pc'[p] = to /\ \A q \in Threads : q # p => pc'[q] = pc[q]
  BY <1>1, Moves
<1>3. ~ Granted(t)
  <2>1. CASE pc[p] = "acquire" /\ job[p] = t
    BY <2>1, GrantFacts DEF Works
  <2>2. CASE pc[p] = "try" /\ woken[p] = t
    BY <2>2, GrantFacts DEF Waking
  <2>3. QED
    BY <2>1, <2>2
<1>4. Granted(t)'
  BY <1>2 DEF Granted
<1>5. \A u \in Tasks : u # t => (Granted(u)' <=> Granted(u))
  BY <1>2, OtherGrants DEF Queued
<1>6. \A u \in Tasks : Giving(u)' <=> Giving(u)
  BY <1>2, SameGiving
<1>7. held' = IF Access[t] = <<>> THEN held ELSE held \cup {t}
  BY DEF TakeResources
<1>8. held' \subseteq Tasks
  BY <1>1, <1>7 DEF Types
<1>9. HeldOK'
  <2>1. \A u \in Tasks : Writer(u)' <=> Writer(u)
    BY <1>1 DEF Writer, Uses
  <2>2. Writer(t) => Access[t] # <<>>
    BY <1>1, PlanFacts DEF Writer, Uses
  <2>3. \A u \in held' : u = t \/ u \in held
    BY <1>7
  <2>4. \A u \in held' : Access'[u] # <<>> /\ (Granted(u)' \/ Giving(u)')
    BY <1>1, <1>4, <1>5, <1>6, <1>7, <1>8, <2>3 DEF HeldOK
  <2>5. \A u \in Tasks : Writer(u)' /\ (Granted(u)' \/ Giving(u)') => u \in held'
    BY <1>1, <1>5, <1>6, <1>7, <2>1, <2>2 DEF HeldOK
  <2>6. QED
    BY <1>1, <2>4, <2>5 DEF HeldOK
<1>10. ASSUME NEW q \in Threads PROVE FrameOK(q)'
  <2>1. CASE q # p
    BY <1>1, <1>2, <2>1, SameFrame
  <2>2. CASE q = p
    BY <1>1, <1>2, <2>2 DEF FrameOK, AtHead, InRelease
  <2>3. QED
    BY <2>1, <2>2
<1>11. ASSUME NEW r \in Resources, NEW m \in {"read", "write"}
       PROVE  /\ y \notin Shares(r, m)
              /\ Shares(r, m)' = IF Uses(t, r, m) THEN Shares(r, m) \cup {y} ELSE Shares(r, m)
  <2>1. ~ Has(y, r, m) /\ (Has(y, r, m)' <=> Uses(t, r, m))
    BY <1>1, <1>3, <1>4 DEF Has, Uses
  <2>2. ASSUME NEW x \in Tokens, x # y PROVE Has(x, r, m)' <=> Has(x, r, m)
    <3>1. CASE x[2] = "task" /\ x[1] = t
      BY <2>2, <3>1, ATaskToken DEF Has
    <3>2. CASE x[2] = "task" /\ x[1] # t
      BY <1>5, <3>2, TaskShare, TokenFacts
    <3>3. CASE x[2] # "task" /\ x[3] \in Threads /\ x[3] # p
      BY <1>2, <3>3, ThreadShare
    <3>4. CASE x[2] # "task" /\ x[3] = p
      BY <1>1, <1>2, <3>4 DEF Has, Uses, Left, AtHead
    <3>5. CASE x[2] # "task" /\ x[3] \notin Threads
      BY <3>5 DEF Has
    <3>6. QED
      BY <3>1, <3>2, <3>3, <3>4, <3>5
  <2>3. \A x : (x \in Shares(r, m) <=> x \in Tokens /\ Has(x, r, m))
               /\ (x \in Shares(r, m)' <=> x \in Tokens /\ Has(x, r, m)')
    BY SharesOf
  <2>4. \A x : x \in Shares(r, m)' <=> x \in Shares(r, m) \/ (x = y /\ Uses(t, r, m))
    BY <2>1, <2>2, <2>3
  <2>5. QED
    BY <2>1, <2>3, <2>4
<1>12. LocksOK'
  BY <1>11, LocksTaken
<1>13. /\ readers' = [r \in Resources |-> readers[r] + (IF Uses(t, r, "read") THEN 1 ELSE 0)]
       /\ writer' = [r \in Resources |-> IF Uses(t, r, "write") THEN t ELSE writer[r]]
  BY DEF TakeResources
<1>14. readers' \in [Resources -> Nat]
  BY <1>1, <1>13 DEF Types
<1>15. writer' \in [Resources -> Tasks \cup {None}]
  BY <1>1, <1>13 DEF Types
<1>16. QED
  BY <1>8, <1>9, <1>10, <1>12, <1>14, <1>15

LEMMA AcquireFreeStep ==
  ASSUME Facts, plan \in Plans, NEW c \in Clients, AcquireFree(c)
  PROVE  Facts'
<1>1. /\ plan' = plan /\ pc[c] = "acquire" /\ pc' = [pc EXCEPT ![c] = "route"]
      /\ UNCHANGED <<state, epoch, cancelled, queue, tickets, job, hand, woken, frames>>
      /\ TakeResources(job[c])
  BY DEF AcquireFree, Goto, hands
<1>2. /\ Types /\ c \in Threads /\ job[c] \in Tasks /\ TicketsOK /\ ChainIsExact
  BY <1>1 DEF Facts, Threads, Types
<1>3. /\ HeldOK' /\ (\A q \in Threads : FrameOK(q)') /\ LocksOK'
      /\ held' \subseteq Tasks /\ readers' \in [Resources -> Nat]
      /\ writer' \in [Resources -> Tasks \cup {None}]
  BY <1>1, <1>2, Taking
<1>4. Types'
  BY <1>1, <1>2, <1>3, TypesKept DEF Types, Steps
<1>5. \A u \in Tasks : OwnerOK(u)'
  BY <1>1, <1>2, StayOwner
<1>6. TicketsOK'
  BY <1>1, <1>2, TicketsKept
<1>7. QED
  BY <1>1, <1>2, <1>3, <1>4, <1>5, <1>6, ChainsKept DEF Facts, Tasks, Access

LEMMA WakeAcquireStep ==
  ASSUME Facts, plan \in Plans, NEW p \in Threads, WakeAcquire(p)
  PROVE  Facts'
<1>1. /\ plan' = plan /\ pc[p] = "try" /\ pc' = [pc EXCEPT ![p] = "swap"]
      /\ UNCHANGED <<state, epoch, cancelled, queue, tickets, job, hand, woken, frames>>
      /\ TakeResources(woken[p])
  BY DEF WakeAcquire, Goto, hands
<1>2. /\ Types /\ woken[p] \in Tasks /\ TicketsOK /\ ChainIsExact
  BY <1>1 DEF Facts, Types
<1>3. /\ HeldOK' /\ (\A q \in Threads : FrameOK(q)') /\ LocksOK'
      /\ held' \subseteq Tasks /\ readers' \in [Resources -> Nat]
      /\ writer' \in [Resources -> Tasks \cup {None}]
  BY <1>1, <1>2, Taking
<1>4. Types'
  BY <1>1, <1>2, <1>3, TypesKept DEF Types, Steps, InRelease
<1>5. \A u \in Tasks : OwnerOK(u)'
  BY <1>1, <1>2, StayOwner
<1>6. TicketsOK'
  BY <1>1, <1>2, TicketsKept
<1>7. QED
  BY <1>1, <1>2, <1>3, <1>4, <1>5, <1>6, ChainsKept DEF Facts, Tasks, Access

LEMMA CancelStep ==
  ASSUME Facts, plan \in Plans, NEW c \in Clients, Cancel(c)
  PROVE  Facts'
<1>1. /\ UNCHANGED <<plan, pc, state, epoch, held, locks, queue, tickets, hands, frames>>
      /\ \E t \in Tasks : cancelled' \in {cancelled \cup {t}, cancelled \ {t}}
  BY DEF Cancel
<1>2. /\ Types' /\ ChainIsExact' /\ TicketsOK' /\ Tasks' = Tasks
  <2>1. Types'
    <3>1. UNCHANGED <<state, epoch, held, readers, writer, waiters, chain, waitOn, waitWrite,
                      tickets, pc, job, hand, woken, frames>> /\ Tasks' = Tasks
      BY <1>1 DEF hands, Tasks, Access
    <3>2. cancelled' \subseteq Tasks /\ Types
      BY <1>1 DEF Facts, Types
    <3>3. QED
      BY <3>1, <3>2 DEF Types, FrameRecs
  <2>2. ChainIsExact'
    BY <1>1, ChainsKept DEF Facts
  <2>3. TicketsOK'
    BY <1>1 DEF Facts, TicketsOK, hands
  <2>4. QED
    BY <1>1, <2>1, <2>2, <2>3 DEF Tasks, Access
<1>3. \A t \in Tasks : OwnerOK(t)'
  BY <1>1 DEF Facts, OwnerOK, Only, Queued, Waking, Works, hands
<1>4. \A u \in Tasks : (Granted(u)' <=> Granted(u)) /\ (Giving(u)' <=> Giving(u))
  BY <1>1 DEF Granted, Giving, Queued, hands
<1>5. HeldOK'
  BY <1>1, <1>4, HeldKept DEF Facts
<1>6. \A q \in Threads : FrameOK(q)'
  BY <1>1, SameFrame DEF Facts
<1>7. \A r \in Resources, m \in {"read", "write"} : Shares(r, m)' = Shares(r, m)
  <2> SUFFICES ASSUME NEW r \in Resources, NEW m \in {"read", "write"}
               PROVE  Shares(r, m)' = Shares(r, m)
    OBVIOUS
  <2>1. \A x \in Tokens : Has(x, r, m)' <=> Has(x, r, m)
    BY <1>1, <1>4, TaskShare, ThreadShare, TokenFacts DEF hands
  <2>2. QED
    BY <1>1, <2>1, SharesOf
<1>8. LocksOK'
  BY <1>1, <1>7, LocksKept
<1>9. QED
  BY <1>2, <1>3, <1>5, <1>6, <1>8 DEF Facts

LEMMA RunStep ==
  ASSUME Facts, plan \in Plans, NEW w \in Workers, Run(w)
  PROVE  Facts'
<1>1. /\ plan' = plan /\ pc[w] = "idle" /\ pc' = [pc EXCEPT ![w] = "body"]
      /\ UNCHANGED <<epoch, cancelled, held, locks, queue, hand, woken, frames>>
  BY DEF Run, Goto
<1>2. PICK e \in tickets : /\ state' = [state EXCEPT ![e[1]] = "running"]
                           /\ tickets' = tickets \ {e}
                           /\ job' = [job EXCEPT ![w] = e[1]]
  BY DEF Run, Set
<1> DEFINE t == e[1]
<1>3. /\ Types /\ w \in Threads /\ w \notin Clients /\ TicketsOK /\ HeldOK /\ ChainIsExact
      /\ Clients \subseteq Threads
  BY PlanFacts DEF Facts, Threads
<1>4. t \in Tasks /\ Queued(t) /\ Only(t, "ticket", None)
  BY <1>3, WhoHasIt DEF Types, Queued
<1>5. \A d \in tickets : d[1] = t => d = e
  <2>1. \A d \in tickets : d = <<d[1], d[2]>> /\ d[2] = epoch[d[1]]
    BY <1>3 DEF TicketsOK, Types
  <2>2. QED
    BY <2>1
<1> HIDE DEF t
<1>6. pc'[w] = "body" /\ \A q \in Threads : q # w => pc'[q] = pc[q]
  BY <1>1, <1>3, Moves
<1>7. job'[w] = t /\ \A q \in Threads : q # w => job'[q] = job[q]
  BY <1>2, <1>3, <1>4 DEF Types, t
<1>8. Types'
  <2>1. /\ state' \in [Tasks -> {"dormant", "ready", "running", "waiting", "completed"}]
        /\ tickets' \subseteq Tasks \X Nat
    BY <1>2, <1>3, <1>4 DEF Types, t
  <2>2. job' \in [Threads -> Tasks \cup {None}]
    BY <1>2, <1>3, <1>4 DEF Types, t
  <2>3. QED
    BY <1>1, <1>3, <1>4, <1>7, <2>1, <2>2, TypesKept DEF Types, Steps
<1>9. \A u \in Tasks : OwnerOK(u)'
  BY <1>1, <1>2, <1>3, <1>4, RunOwner DEF t
<1>10. TicketsOK'
  <2>1. \A c \in Clients : pc'[c] = pc[c] /\ job'[c] = job[c]
    BY <1>3, <1>6, <1>7
  <2>2. QED
    BY <1>1, <1>2, <1>3, <2>1 DEF TicketsOK
<1>11. \A u \in Tasks : Granted(u)' <=> Granted(u)
  <2>1. Granted(t) /\ Granted(t)'
    BY <1>3, <1>4, <1>6, <1>7 DEF Granted
  <2>2. \A u \in Tasks : u # t => (Queued(u)' <=> Queued(u))
    BY <1>2 DEF Queued, t
  <2>3. \A u \in Tasks : u # t => (Granted(u)' <=> Granted(u))
    BY <1>1, <1>3, <1>6, <1>7, <2>2, OtherGrants
  <2>4. QED
    BY <2>1, <2>3
<1>12. HeldOK'
  BY <1>1, <1>3, <1>6, <1>11, SameGiving, HeldKept
<1>13. (\A q \in Threads : FrameOK(q)') /\ LocksOK'
  BY <1>1, <1>3, <1>11, LocksUntouched DEF InRelease
<1>14. QED
  BY <1>1, <1>3, <1>8, <1>9, <1>10, <1>12, <1>13, ChainsKept DEF Facts, Tasks, Access

(* A task is completed by the worker that has run it, ... *)
LEMMA CompleteStep ==
  ASSUME Facts, plan \in Plans, NEW w \in Workers, Complete(w)
  PROVE  Facts'
<1>1. /\ plan' = plan /\ pc[w] = "complete" /\ pc' = [pc EXCEPT ![w] = "idle"]
      /\ UNCHANGED <<epoch, cancelled, held, locks, queue, tickets, job, hand, woken, frames>>
      /\ state' = [state EXCEPT ![job[w]] = "completed"]
  BY DEF Complete, Goto, Set, hands
<1>2. /\ Types /\ w \in Threads /\ TicketsOK /\ HeldOK /\ ChainIsExact /\ job[w] \in Tasks
  BY <1>1 DEF Facts, Threads, Types
<1>3. state' \in [Tasks -> {"dormant", "ready", "running", "waiting", "completed"}]
  BY <1>1, <1>2 DEF Types
<1>4. Types'
  BY <1>1, <1>2, <1>3, TypesKept DEF Types, Steps
<1>5. \A u \in Tasks : OwnerOK(u)'
  BY <1>1, <1>2, ReturnOwner
<1>6. TicketsOK'
  BY <1>1, <1>2, TicketsKept
<1>7. (\A q \in Threads : FrameOK(q)') /\ LocksOK' /\ HeldOK'
  BY <1>1, <1>2, NothingGranted DEF InGrant, InRelease
<1>8. QED
  BY <1>1, <1>2, <1>4, <1>5, <1>6, <1>7, ChainsKept DEF Facts, Tasks, Access

(* ... and dropped by the client that could not route it. *)
LEMMA DropStep ==
  ASSUME Facts, plan \in Plans, NEW c \in Clients, Drop(c)
  PROVE  Facts'
<1>1. /\ plan' = plan /\ pc[c] = "drop" /\ pc' = [pc EXCEPT ![c] = "idle"]
      /\ UNCHANGED <<epoch, cancelled, held, locks, queue, tickets, job, hand, woken, frames>>
      /\ state' = [state EXCEPT ![job[c]] = "dormant"]
  BY DEF Drop, Goto, Set, hands
<1>2. /\ Types /\ c \in Threads /\ TicketsOK /\ HeldOK /\ ChainIsExact /\ job[c] \in Tasks
  BY <1>1 DEF Facts, Threads, Types
<1>3. state' \in [Tasks -> {"dormant", "ready", "running", "waiting", "completed"}]
  BY <1>1, <1>2 DEF Types
<1>4. Types'
  BY <1>1, <1>2, <1>3, TypesKept DEF Types, Steps
<1>5. \A u \in Tasks : OwnerOK(u)'
  BY <1>1, <1>2, ReturnOwner
<1>6. TicketsOK'
  BY <1>1, <1>2, TicketsKept
<1>7. (\A q \in Threads : FrameOK(q)') /\ LocksOK' /\ HeldOK'
  BY <1>1, <1>2, NothingGranted DEF InGrant, InRelease
<1>8. QED
  BY <1>1, <1>2, <1>4, <1>5, <1>6, <1>7, ChainsKept DEF Facts, Tasks, Access

(* The release_all call a thread is in. *)
LEMMA FrameFacts ==
  ASSUME Facts, NEW p \in Threads, pc[p] \in InRelease
  PROVE  /\ frames[p] \in Seq(FrameRecs) /\ Len(frames[p]) \in Nat \ {0}
         /\ DOMAIN frames[p] = 1..Len(frames[p])
         /\ Frame(p) = frames[p][Len(frames[p])] /\ Frame(p) \in FrameRecs
         /\ Frame(p).task \in Tasks /\ Frame(p).accesses \in Seq(Accs)
         /\ IsInjective(Frame(p).accesses)
         /\ pc[p] # "release" => Frame(p).accesses # <<>>
         /\ Frame(p).accesses # <<>> =>
              /\ Current(p) = Frame(p).accesses[1] /\ Current(p) \in Accs
              /\ 1 \in DOMAIN Frame(p).accesses
<1>1. FrameOK(p) /\ frames[p] \in Seq(FrameRecs) /\ frames[p] # <<>>
  BY DEF Facts, Types, FrameOK
<1> PICK s \in Seq(FrameRecs) : s = frames[p]
  BY <1>1
<1>2. Len(s) \in Nat \ {0} /\ DOMAIN s = 1..Len(s) /\ Len(s) \in DOMAIN s
  BY <1>1
<1>3. Frame(p) = s[Len(s)] /\ Frame(p) \in FrameRecs
  BY <1>2 DEF Frame, Last
<1>4. IsInjective(Frame(p).accesses) /\ (pc[p] # "release" => Frame(p).accesses # <<>>)
  BY <1>1, <1>2, <1>3 DEF FrameOK, AtHead
<1> PICK rec \in FrameRecs : rec = Frame(p)
  BY <1>3
<1>5. rec.task \in Tasks /\ rec.accesses \in Seq(Accs)
  BY DEF FrameRecs
<1>6. rec.accesses # <<>> => /\ Head(rec.accesses) = rec.accesses[1] /\ rec.accesses[1] \in Accs
                             /\ 1 \in DOMAIN rec.accesses
  BY <1>5
<1>7. QED
  BY <1>1, <1>2, <1>3, <1>4, <1>5, <1>6 DEF Current

LEMMA WakeHeadStep ==
  ASSUME Facts, plan \in Plans, NEW p \in Threads, WakeHead(p)
  PROVE  Facts'
<1> DEFINE r == Current(p).res
           t == Head(chain[r])
<1>1. /\ plan' = plan /\ pc[p] = "wake" /\ pc' = [pc EXCEPT ![p] = "try"]
      /\ UNCHANGED <<state, epoch, cancelled, held, locks, tickets, job, hand, frames>>
      /\ chain[r] # <<>> /\ Dequeue(t) /\ woken' = [woken EXCEPT ![p] = t]
  BY DEF WakeHead, Goto
<1>2. /\ Types /\ TicketsOK /\ HeldOK /\ ChainIsExact /\ job[p] \in Tasks /\ "try" \in Steps(p)
  BY <1>1 DEF Facts, Types, Steps, InRelease
<1>3. r \in Resources
  <2>1. Current(p) \in Accs
    BY <1>1, FrameFacts DEF InRelease
  <2>2. QED
    BY <2>1 DEF Accs
<1>4. t \in Tasks /\ waitOn[t] = r
  <2>1. chain[r] \in Seq(Tasks) /\ ToSet(chain[r]) = {u \in Tasks : waitOn[u] = r}
    BY <1>2, <1>3 DEF Types, ChainIsExact
  <2>2. t = chain[r][1] /\ 1 \in DOMAIN chain[r]
    BY <1>1, <2>1
  <2>3. t \in ToSet(chain[r])
    BY <2>2 DEF ToSet
  <2>4. QED
    BY <2>1, <2>3
<1> HIDE DEF t, r
<1>5. /\ ChainIsExact'
      /\ waitOn' = [waitOn EXCEPT ![t] = None] /\ waitOn' \in [Tasks -> Resources \cup {None}]
      /\ chain' \in [Resources -> Seq(Tasks)] /\ waiters' \in [Resources -> Nat]
      /\ waitWrite' \subseteq Tasks
  BY <1>1, <1>3, <1>4, DequeueExact
<1>6. /\ woken' \in [Threads -> Tasks \cup {None}] /\ woken'[p] = t
      /\ \A q \in Threads : q # p => woken'[q] = woken[q]
  BY <1>1, <1>2, <1>4 DEF Types
<1>7. Types'
  BY <1>1, <1>2, <1>4, <1>5, <1>6, TypesKept DEF Types
<1>8. \A u \in Tasks : OwnerOK(u)'
  BY <1>1, <1>2, <1>3, <1>4, <1>5, HeadOwner
<1>9. TicketsOK'
  BY <1>1, <1>2, TicketsKept
<1>10. (\A q \in Threads : FrameOK(q)') /\ LocksOK' /\ HeldOK'
  BY <1>1, <1>2, <1>6, NothingGranted DEF InGrant, InRelease
<1>11. QED
  BY <1>1, <1>5, <1>7, <1>8, <1>9, <1>10 DEF Facts, Tasks, Access

LEMMA WakeCancelledStep ==
  ASSUME Facts, plan \in Plans, NEW p \in Threads, WakeCancelled(p)
  PROVE  Facts'
<1>1. /\ plan' = plan /\ pc[p] = "try" /\ pc' = [pc EXCEPT ![p] = "wake"]
      /\ UNCHANGED <<epoch, cancelled, held, locks, queue, tickets, job, hand, woken, frames>>
      /\ state' = [state EXCEPT ![woken[p]] = "dormant"]
  BY DEF WakeCancelled, Goto, Set, hands
<1>2. /\ Types /\ TicketsOK /\ HeldOK /\ ChainIsExact /\ woken[p] \in Tasks /\ "wake" \in Steps(p)
  BY <1>1 DEF Facts, Types, Steps, InRelease
<1>3. state' \in [Tasks -> {"dormant", "ready", "running", "waiting", "completed"}]
  BY <1>1, <1>2 DEF Types
<1>4. Types'
  BY <1>1, <1>2, <1>3, TypesKept DEF Types
<1>5. \A u \in Tasks : OwnerOK(u)'
  BY <1>1, <1>2, DormantOwner
<1>6. TicketsOK'
  BY <1>1, <1>2, TicketsKept
<1>7. (\A q \in Threads : FrameOK(q)') /\ LocksOK' /\ HeldOK'
  BY <1>1, <1>2, NothingGranted DEF InGrant, InRelease
<1>8. QED
  BY <1>1, <1>2, <1>4, <1>5, <1>6, <1>7, ChainsKept DEF Facts, Tasks, Access

LEMMA WakeSwapStep ==
  ASSUME Facts, plan \in Plans, NEW p \in Threads, WakeSwap(p)
  PROVE  Facts'
<1>0. woken[p] \in Tasks /\ epoch[woken[p]] + 1 \in Nat
  BY DEF Facts, Types, WakeSwap, Goto
<1> PICK t \in Tasks : t = woken[p]
  BY <1>0
<1> PICK n \in Nat : n = epoch[t] + 1
  BY <1>0
<1>1. /\ plan' = plan /\ pc[p] = "swap" /\ pc' = [pc EXCEPT ![p] = "wake"]
      /\ UNCHANGED <<cancelled, held, locks, queue, job, hand, woken, frames>>
      /\ state' = [state EXCEPT ![t] = "ready"] /\ epoch' = [epoch EXCEPT ![t] = @ + 1]
      /\ tickets' = tickets \cup {<<t, n>>}
  BY DEF WakeSwap, Goto, Set, hands
<1>2. /\ Types /\ TicketsOK /\ HeldOK /\ ChainIsExact /\ "wake" \in Steps(p)
      /\ Clients \subseteq Threads /\ Waking(p, t)
  BY <1>1 DEF Facts, Threads, Types, Waking, Steps, InRelease
<1>3. Only(t, "waking", p) /\ Granted(t)
  BY <1>1, <1>2, WhoHasIt DEF Granted
<1>4. woken[p] = t /\ n = epoch[t] + 1
  OBVIOUS
<1>5. pc'[p] = "wake" /\ \A q \in Threads : q # p => pc'[q] = pc[q]
  BY <1>1, <1>2, Moves
<1>6. epoch'[t] = n /\ \A u \in Tasks : u # t => epoch'[u] = epoch[u]
  BY <1>1, <1>2, <1>4 DEF Types
<1>7. Types'
  <2>1. /\ state' \in [Tasks -> {"dormant", "ready", "running", "waiting", "completed"}]
        /\ epoch' \in [Tasks -> Nat]
    BY <1>1, <1>2 DEF Types
  <2>2. tickets' \subseteq Tasks \X Nat
    BY <1>1, <1>2 DEF Types
  <2>3. QED
    BY <1>1, <1>2, <2>1, <2>2, TypesKept DEF Types
<1>8. \A u \in Tasks : OwnerOK(u)'
  BY <1>1, <1>2, <1>4, SwapOwner
<1>9. TicketsOK'
  <2>1. \A e \in tickets : e[1] # t /\ e[1] \in Tasks
    BY <1>2, <1>3 DEF Only, Queued, Types
  <2>2. \A c \in Clients : pc'[c] \in {"acquire", "route"} =>
          /\ pc[c] \in {"acquire", "route"} /\ job[c] # t /\ job[c] \in Tasks
    BY <1>2, <1>3, <1>5 DEF Only, Works, Types
  <2>3. \A e \in tickets' : e[2] = epoch'[e[1]]
    BY <1>1, <1>2, <1>6, <2>1, NewTicket DEF TicketsOK
  <2>4. \A c \in Clients : pc'[c] \in {"acquire", "route"} => hand'[c] = epoch'[job'[c]]
    BY <1>1, <1>2, <1>6, <2>2 DEF TicketsOK
  <2>5. QED
    BY <2>3, <2>4 DEF TicketsOK
<1>10. \A u \in Tasks : Granted(u)' <=> Granted(u)
  <2>1. Granted(t)'
    BY <1>1, NewTicket DEF Granted
  <2>2. \A u \in Tasks : u # t => (Queued(u)' <=> Queued(u))
    BY <1>1, NewTicket
  <2>3. \A u \in Tasks : u # t => (Granted(u)' <=> Granted(u))
    BY <1>1, <1>4, <1>5, <2>2, OtherGrants
  <2>4. QED
    BY <1>3, <2>1, <2>3
<1>11. HeldOK'
  BY <1>1, <1>2, <1>5, <1>10, SameGiving, HeldKept
<1>12. (\A q \in Threads : FrameOK(q)') /\ LocksOK'
  BY <1>1, <1>2, <1>10, LocksUntouched DEF InRelease
<1>13. QED
  BY <1>1, <1>2, <1>7, <1>8, <1>9, <1>11, <1>12, ChainsKept DEF Facts, Tasks, Access

(* The queues are full: the share of the task passes to the thread. *)
LEMMA WakeFullStep ==
  ASSUME Facts, plan \in Plans, NEW p \in Threads, WakeFull(p)
  PROVE  Facts'
<1>0. woken[p] \in Tasks /\ epoch[woken[p]] + 1 \in Nat
  BY DEF Facts, Types, WakeFull, Goto
<1> PICK t \in Tasks : t = woken[p]
  BY <1>0
<1>1. /\ plan' = plan /\ pc[p] = "swap" /\ pc' = [pc EXCEPT ![p] = "give"]
      /\ UNCHANGED <<cancelled, held, locks, queue, tickets, job, hand, woken, frames>>
      /\ state' = [state EXCEPT ![t] = "dormant"] /\ epoch' = [epoch EXCEPT ![t] = @ + 1]
  BY DEF WakeFull, Goto, Set, hands
<1>2. /\ Types /\ TicketsOK /\ HeldOK /\ ChainIsExact /\ "give" \in Steps(p)
      /\ Clients \subseteq Threads /\ Waking(p, t) /\ epoch[t] + 1 \in Nat
      /\ woken[p] = t /\ Tasks' = Tasks /\ Access' = Access /\ \A q \in Threads : FrameOK(q)
  BY <1>0, <1>1 DEF Facts, Threads, Types, Waking, Steps, InRelease, Tasks, Access
<1>3. Only(t, "waking", p) /\ Granted(t)
  BY <1>1, <1>2, WhoHasIt DEF Granted
<1>4. pc'[p] = "give" /\ \A q \in Threads : q # p => pc'[q] = pc[q]
  BY <1>1, <1>2, Moves
<1>5. \A u \in Tasks : u # t => epoch'[u] = epoch[u]
  BY <1>1, <1>2 DEF Types
<1>6. Types'
  <2>1. /\ state' \in [Tasks -> {"dormant", "ready", "running", "waiting", "completed"}]
        /\ epoch' \in [Tasks -> Nat]
    BY <1>1, <1>2 DEF Types
  <2>2. QED
    BY <1>1, <1>2, <2>1, TypesKept DEF Types
<1>7. \A u \in Tasks : OwnerOK(u)'
  BY <1>1, <1>2, DormantOwner
<1>8. TicketsOK'
  <2>1. \A e \in tickets : e[1] # t /\ e[1] \in Tasks
    BY <1>2, <1>3 DEF Only, Queued, Types
  <2>2. \A c \in Clients : pc'[c] \in {"acquire", "route"} =>
          /\ pc[c] \in {"acquire", "route"} /\ job[c] # t /\ job[c] \in Tasks
    BY <1>2, <1>3, <1>4 DEF Only, Works, Types
  <2>3. QED
    BY <1>1, <1>2, <1>5, <2>1, <2>2 DEF TicketsOK
<1>9. /\ ~ Granted(t)' /\ \A u \in Tasks : u # t => (Granted(u)' <=> Granted(u))
  <2>1. ~ Granted(t)'
    <3>1. ~ Queued(t) /\ \A q \in Threads : /\ Waking(q, t) => q = p
                                            /\ ~ Works(q, t)
      BY <1>3 DEF Only
    <3>2. QED
      BY <1>1, <1>4, <3>1 DEF Granted, Waking, Works, Queued
  <2>2. \A u \in Tasks : u # t => (Granted(u)' <=> Granted(u))
    BY <1>1, <1>2, <1>4, OtherGrants DEF Queued
  <2>3. QED
    BY <2>1, <2>2
<1>10. Giving(t)' /\ \A u \in Tasks : u # t => (Giving(u)' <=> Giving(u))
  <2>1. Giving(t)'
    BY <1>1, <1>2, <1>4 DEF Giving
  <2>2. ASSUME NEW u \in Tasks, u # t PROVE Giving(u)' <=> Giving(u)
    <3>1. \A q \in Threads : (pc'[q] = "give" /\ woken'[q] = u) <=> (pc[q] = "give" /\ woken[q] = u)
      BY <1>1, <1>2, <1>4, <2>2
    <3>2. QED
      BY <3>1 DEF Giving
  <2>3. QED
    BY <2>1, <2>2
<1>11. HeldOK'
  <2>1. \A u \in Tasks : (Granted(u)' \/ Giving(u)') <=> (Granted(u) \/ Giving(u))
    BY <1>3, <1>9, <1>10
  <2>2. QED
    BY <1>1, <1>2, <2>1, HeldKept
<1>12. ASSUME NEW q \in Threads PROVE FrameOK(q)'
  <2>1. CASE q # p
    BY <1>1, <1>2, <1>4, <2>1, SameFrame
  <2>2. CASE q = p
    BY <1>1, <1>2, <1>4, <2>2 DEF FrameOK, AtHead, InRelease
  <2>3. QED
    BY <2>1, <2>2
<1> PICK x \in Tokens : x = <<t, "task", None, 0>>
  BY ATaskToken
<1> PICK y \in Tokens : y = <<t, "give", p, 0>>
  BY AGiveToken
<1>13. x[1] = t /\ y[1] = t /\ x # y
  OBVIOUS
<1>14. ASSUME NEW r \in Resources, NEW m \in {"read", "write"}
       PROVE  \/ Shares(r, m)' = Shares(r, m)
              \/ Passes(Shares(r, m), Shares(r, m)')
  <2>1. /\ Has(x, r, m) <=> Uses(t, r, m)
        /\ ~ Has(x, r, m)' /\ ~ Has(y, r, m)
        /\ Has(y, r, m)' <=> Uses(t, r, m)
    BY <1>1, <1>2, <1>3, <1>4, <1>9 DEF Has, Uses
  <2>2. ASSUME NEW z \in Tokens, z # x, z # y PROVE Has(z, r, m)' <=> Has(z, r, m)
    <3>1. CASE z[2] = "task" /\ z[1] = t
      BY <2>2, <3>1, ATaskToken DEF Has
    <3>2. CASE z[2] = "task" /\ z[1] # t
      BY <1>1, <1>9, <3>2, TaskShare, TokenFacts
    <3>3. CASE z[2] # "task" /\ z[3] \in Threads /\ z[3] # p
      BY <1>1, <1>4, <3>3, ThreadShare
    <3>4. CASE z[2] = "give" /\ z[3] = p
      <4>1. ~ (z[1] = t /\ z[4] = 0)
        BY <2>2, <3>4, AGiveToken
      <4>2. QED
        BY <1>1, <1>2, <1>4, <3>4, <4>1 DEF Has
    <3>5. CASE z[2] = "call" /\ z[3] = p
      BY <1>1, <1>4, <3>5 DEF Has, Left, AtHead
    <3>6. CASE z[2] # "task" /\ z[3] \notin Threads
      BY <3>6 DEF Has
    <3>7. QED
      BY <3>1, <3>2, <3>3, <3>4, <3>5, <3>6, TokenFacts
  <2>3. \A z : (z \in Shares(r, m) <=> z \in Tokens /\ Has(z, r, m))
               /\ (z \in Shares(r, m)' <=> z \in Tokens /\ Has(z, r, m)')
    BY <1>1, SharesOf
  <2>4. CASE ~ Uses(t, r, m)
    BY <2>1, <2>2, <2>3, <2>4
  <2>5. CASE Uses(t, r, m)
    <3>1. x \in Shares(r, m) /\ y \notin Shares(r, m)
      BY <2>1, <2>3, <2>5
    <3>2. Shares(r, m)' = (Shares(r, m) \ {x}) \cup {y}
      BY <1>13, <2>1, <2>2, <2>3, <2>5
    <3>3. QED
      BY <1>13, <3>1, <3>2 DEF Passes
  <2>6. QED
    BY <2>4, <2>5
<1>15. LocksOK'
  BY <1>1, <1>14, LocksKept
<1>16. QED
  BY <1>1, <1>2, <1>6, <1>7, <1>8, <1>11, <1>12, <1>15, ChainsKept DEF Facts

-----------------------------------------------------------------------------
(* Calls of release_all *)

LEMMA Rests ==
  ASSUME NEW S, NEW s \in Seq(S), s # <<>>
  PROVE  /\ Tail(s) \in Seq(S) /\ DOMAIN Tail(s) = 1..Len(s)-1 /\ DOMAIN s = 1..Len(s)
         /\ \A i \in 1..Len(s)-1 : Tail(s)[i] = s[i+1]
OBVIOUS

(* The i-th call that thread p is in is for task t and has still to give a *)
(* back.                                                                   *)
Gives(p, i, t, a) == i \in DOMAIN frames[p] /\ frames[p][i].task = t /\ Left(p, i, a)

LEMMA GivesSame ==
  ASSUME Facts, plan' = plan, NEW p \in Threads,
         \A q \in Threads : q # p => pc'[q] = pc[q] /\ woken'[q] = woken[q] /\ frames'[q] = frames[q],
         pc[p] # "give", pc'[p] # "give",
         \A u \in Tasks : Granted(u)' <=> Granted(u),
         \A i, t, a : Gives(p, i, t, a)' <=> Gives(p, i, t, a),
         NEW r, NEW m
  PROVE  Shares(r, m)' = Shares(r, m)
<1>1. ASSUME NEW x \in Tokens PROVE Has(x, r, m)' <=> Has(x, r, m)
  <2>1. CASE x[2] = "task"
    BY <2>1, TaskShare, TokenFacts
  <2>2. CASE x[2] # "task" /\ x[3] \in Threads /\ x[3] # p
    BY <2>2, ThreadShare
  <2>3. CASE x[2] = "give" /\ x[3] = p
    BY <2>3 DEF Has
  <2>4. CASE x[2] = "call" /\ x[3] = p
    <3> DEFINE a == [res |-> r, mode |-> m]
    <3>1. Gives(p, x[4], x[1], a)' <=> Gives(p, x[4], x[1], a)
      OBVIOUS
    <3>2. /\ Has(x, r, m) <=> Gives(p, x[4], x[1], a)
          /\ Has(x, r, m)' <=> Gives(p, x[4], x[1], a)'
      BY <2>4 DEF Has, Gives
    <3>3. QED
      BY <3>1, <3>2
  <2>5. CASE x[2] # "task" /\ x[3] \notin Threads
    BY <2>5 DEF Has
  <2>6. QED
    BY <2>1, <2>2, <2>3, <2>4, <2>5, TokenFacts
<1>2. \A x : (x \in Shares(r, m) <=> x \in Tokens /\ Has(x, r, m))
             /\ (x \in Shares(r, m)' <=> x \in Tokens /\ Has(x, r, m)')
  BY SharesOf
<1>3. \A x : x \in Shares(r, m)' <=> x \in Shares(r, m)
  BY <1>1, <1>2
<1>4. QED
  BY <1>3

(* wake_resource_waiters is done with a resource. *)
LEMMA NextKeeps ==
  ASSUME Facts, plan' = plan, NEW p \in Threads, pc[p] \in {"wake", "try"},
         pc' = [pc EXCEPT ![p] = "release"], NextAccess(p),
         UNCHANGED <<held, locks, tickets, job, woken>>
  PROVE  /\ frames' \in [Threads -> Seq(FrameRecs)]
         /\ (\A q \in Threads : FrameOK(q)') /\ LocksOK' /\ HeldOK'
<1>1. /\ Types /\ FrameOK(p) /\ pc[p] \in InRelease /\ HeldOK /\ frames \in [Threads -> Seq(FrameRecs)]
  BY DEF Facts, InRelease, Types
<1>2. pc'[p] = "release" /\ \A q \in Threads : q # p => pc'[q] = pc[q]
  BY <1>1, Moves
<1> PICK s \in Seq(FrameRecs) : s = frames[p]
  BY <1>1
<1> DEFINE top == Len(s)
<1>3. top \in Nat \ {0} /\ DOMAIN s = 1..top /\ top \in DOMAIN s /\ s[top] \in FrameRecs
  BY <1>1, FrameFacts
<1> PICK acc \in Seq(Accs) : acc = s[top].accesses
  BY <1>3 DEF FrameRecs
<1>4. acc # <<>> /\ IsInjective(acc)
  BY <1>1, <1>3, FrameFacts
<1> PICK rest \in Seq(Accs) : rest = Tail(acc)
  BY <1>4, Rests
<1>5. /\ DOMAIN acc = 1..Len(acc) /\ DOMAIN rest = 1..Len(acc)-1 /\ Len(acc) \in Nat
      /\ \A i \in 1..Len(acc)-1 : rest[i] = acc[i+1]
  BY <1>4, Rests
<1> DEFINE new == [s[top] EXCEPT !.accesses = rest]
           n == [s EXCEPT ![top] = new]
<1>5a. new \in FrameRecs /\ new.task = s[top].task /\ new.accesses = rest
  BY <1>3 DEF FrameRecs
<1> HIDE DEF new
<1>6. /\ n \in Seq(FrameRecs) /\ DOMAIN n = 1..top /\ Len(n) = top /\ n[top] = new
      /\ \A i \in 1..top : i # top => n[i] = s[i]
  BY <1>3, <1>5a
<1>7. frames' = [frames EXCEPT ![p] = n]
  <2>1. frames' = [frames EXCEPT ![p] = [s EXCEPT ![top] = [s[top] EXCEPT !.accesses = Tail(acc)]]]
    BY DEF NextAccess
  <2>2. QED
    BY <2>1 DEF new
<1> HIDE DEF n, top
<1>8. /\ frames' \in [Threads -> Seq(FrameRecs)]
      /\ frames'[p] = n /\ \A q \in Threads : q # p => frames'[q] = frames[q]
  BY <1>1, <1>6, <1>7
<1>9. /\ \A i \in 1..top : AtHead(p, i)
      /\ \A i \in 1..top : AtHead(p, i)' <=> i # top
  BY <1>2, <1>6, <1>8 DEF AtHead
<1>10. IsInjective(rest)
  <2>1. \A i \in DOMAIN rest : i \in Int /\ i+1 \in DOMAIN acc /\ rest[i] = acc[i+1]
    BY <1>5
  <2>2. \A i, k \in DOMAIN acc : acc[i] = acc[k] => i = k
    BY <1>4 DEF IsInjective
  <2>3. \A i, k \in DOMAIN rest : rest[i] = rest[k] => i+1 = k+1
    BY <2>1, <2>2
  <2>4. QED
    BY <2>1, <2>3 DEF IsInjective
<1>11. FrameOK(p)'
  <2>1. pc'[p] \in InRelease /\ frames'[p] # <<>>
    BY <1>2, <1>3, <1>6, <1>8 DEF InRelease
  <2>2. \A i \in 1..top : (i # top => n[i].accesses # <<>>) /\ IsInjective(n[i].accesses)
    BY <1>1, <1>3, <1>5a, <1>6, <1>9, <1>10 DEF FrameOK
  <2>3. \A i \in DOMAIN n : (AtHead(p, i)' => n[i].accesses # <<>>) /\ IsInjective(n[i].accesses)
    BY <1>6, <1>9, <2>2
  <2>4. QED
    BY <1>8, <2>1, <2>3 DEF FrameOK
<1>12. ASSUME NEW i, NEW t, NEW a PROVE Gives(p, i, t, a)' <=> Gives(p, i, t, a)
  <2>1. CASE i \in 1..top /\ i # top
    BY <1>3, <1>6, <1>8, <1>9, <2>1 DEF Gives, Left
  <2>2. CASE i = top
    <3>1. Left(p, i, a) <=> \E k \in DOMAIN acc : acc[k] = a /\ k # 1
      BY <1>3, <1>9, <2>2 DEF Left
    <3>2. Left(p, i, a)' <=> \E k \in DOMAIN rest : rest[k] = a
      BY <1>3, <1>5a, <1>6, <1>8, <1>9, <2>2 DEF Left
    <3>3. \A k \in DOMAIN acc : k # 1 => k-1 \in DOMAIN rest /\ rest[k-1] = acc[k]
      BY <1>5
    <3>4. \A k \in DOMAIN rest : k+1 \in DOMAIN acc /\ k+1 # 1 /\ rest[k] = acc[k+1]
      BY <1>5
    <3>5. (\E k \in DOMAIN acc : acc[k] = a /\ k # 1) => \E k \in DOMAIN rest : rest[k] = a
      BY <3>3
    <3>6. (\E k \in DOMAIN rest : rest[k] = a) => \E k \in DOMAIN acc : acc[k] = a /\ k # 1
      BY <3>4
    <3>7. Left(p, i, a)' <=> Left(p, i, a)
      BY <3>1, <3>2, <3>5, <3>6
    <3>8. QED
      BY <1>3, <1>5a, <1>6, <1>8, <2>2, <3>7 DEF Gives
  <2>3. CASE i \notin 1..top
    BY <1>3, <1>6, <1>8, <2>3 DEF Gives
  <2>4. QED
    BY <2>1, <2>2, <2>3
<1>13. \A u \in Tasks : (Granted(u)' <=> Granted(u)) /\ (Giving(u)' <=> Giving(u))
  BY <1>1, <1>2, SameGrants, SameGiving DEF InGrant
<1>14. HeldOK'
  BY <1>1, <1>13, HeldKept
<1>15. \A r \in Resources, m \in {"read", "write"} : Shares(r, m)' = Shares(r, m)
  BY <1>2, <1>8, <1>12, <1>13, GivesSame
<1>16. LocksOK'
  BY <1>15, LocksKept
<1>17. \A q \in Threads : q # p => FrameOK(q)'
  BY <1>2, <1>8, SameFrame DEF Facts
<1>18. QED
  BY <1>8, <1>11, <1>14, <1>16, <1>17

LEMMA WakeNobodyStep ==
  ASSUME Facts, plan \in Plans, NEW p \in Threads, WakeNobody(p)
  PROVE  Facts'
<1>1. /\ plan' = plan /\ pc[p] = "wake" /\ pc' = [pc EXCEPT ![p] = "release"]
      /\ UNCHANGED <<state, epoch, cancelled, held, locks, queue, tickets, job, hand, woken>>
      /\ NextAccess(p)
  BY DEF WakeNobody, Goto, hands
<1>2. /\ Types /\ TicketsOK /\ ChainIsExact /\ job[p] \in Tasks /\ "release" \in Steps(p)
  BY <1>1 DEF Facts, Types, Steps, InRelease
<1>3. /\ frames' \in [Threads -> Seq(FrameRecs)]
      /\ (\A q \in Threads : FrameOK(q)') /\ LocksOK' /\ HeldOK'
  BY <1>1, NextKeeps
<1>4. Types'
  BY <1>1, <1>2, <1>3, TypesKept DEF Types
<1>5. \A u \in Tasks : OwnerOK(u)'
  BY <1>1, <1>2, StayOwner
<1>6. TicketsOK'
  BY <1>1, <1>2, TicketsKept
<1>7. QED
  BY <1>1, <1>2, <1>3, <1>4, <1>5, <1>6, ChainsKept DEF Facts, Tasks, Access

LEMMA WakeConflictStep ==
  ASSUME Facts, plan \in Plans, NEW p \in Threads, WakeConflict(p)
  PROVE  Facts'
<1>0. woken[p] \in Tasks /\ pc[p] = "try"
  BY DEF Facts, Types, WakeConflict
<1> PICK t \in Tasks : t = woken[p]
  BY <1>0
<1>1. /\ plan' = plan
      /\ UNCHANGED <<epoch, cancelled, held, locks, tickets, job, hand, woken>>
      /\ waitOn[t] = None /\ Conflicts(t) # {} /\ Enqueue(t)
      /\ state' = [state EXCEPT ![t] = IF @ = "ready" THEN "waiting" ELSE @]
  BY DEF WakeConflict, hands
<1>2. \/ pc' = [pc EXCEPT ![p] = "release"] /\ NextAccess(p)
      \/ pc' = [pc EXCEPT ![p] = "wake"] /\ frames' = frames
  BY DEF WakeConflict, Goto
<1>3. PICK to \in {"wake", "release"} : pc' = [pc EXCEPT ![p] = to]
  BY <1>2
<1>4. /\ Types /\ TicketsOK /\ HeldOK /\ job[p] \in Tasks
      /\ state[t] = "waiting" /\ Waking(p, t)
  BY <1>0, WhoHasIt DEF Facts, Types, Waking
<1>5. PICK a \in Accs : a = FirstConflict(t)
  BY <1>1, ConflictFacts
<1>6. a.res \in Resources
  BY DEF Accs
<1>7. /\ ChainIsExact'
      /\ waitOn' = [waitOn EXCEPT ![t] = a.res] /\ waitOn' \in [Tasks -> Resources \cup {None}]
      /\ chain' \in [Resources -> Seq(Tasks)] /\ waiters' \in [Resources -> Nat]
      /\ waitWrite' \subseteq Tasks
  BY <1>1, <1>5, EnqueueExact
<1>8. state' = state
  BY <1>1, <1>4 DEF Types
<1>9. /\ frames' \in [Threads -> Seq(FrameRecs)]
      /\ (\A q \in Threads : FrameOK(q)') /\ LocksOK' /\ HeldOK'
  <2>1. CASE pc' = [pc EXCEPT ![p] = "release"] /\ NextAccess(p)
    BY <1>0, <1>1, <2>1, NextKeeps
  <2>2. CASE pc' = [pc EXCEPT ![p] = "wake"] /\ frames' = frames
    <3>1. (\A q \in Threads : FrameOK(q)') /\ LocksOK' /\ HeldOK'
      BY <1>0, <1>1, <2>2, NothingGranted DEF InGrant, InRelease
    <3>2. QED
      BY <1>4, <2>2, <3>1 DEF Types
  <2>3. QED
    BY <1>2, <2>1, <2>2
<1>10. Types'
  <2>1. to \in Steps(p)
    BY DEF Steps, InRelease
  <2>2. /\ readers' \in [Resources -> Nat] /\ writer' \in [Resources -> Tasks \cup {None}]
        /\ cancelled' \subseteq Tasks /\ held' \subseteq Tasks /\ tickets' \subseteq Tasks \X Nat
        /\ state' \in [Tasks -> {"dormant", "ready", "running", "waiting", "completed"}]
        /\ epoch' \in [Tasks -> Nat]
    BY <1>1, <1>4, <1>8 DEF Types
  <2>3. /\ hand' \in [Threads -> Nat] /\ job' \in [Threads -> Tasks \cup {None}]
        /\ woken' \in [Threads -> Tasks \cup {None}]
        /\ \A q \in Threads : q # p => job'[q] = job[q] /\ woken'[q] = woken[q]
        /\ job'[p] \in Tasks /\ to \notin {"try", "swap", "give"}
    BY <1>1, <1>4 DEF Types
  <2>4. QED
    BY <1>0, <1>1, <1>3, <1>4, <1>7, <1>9, <2>1, <2>2, <2>3, TypesKept
<1>11. \A u \in Tasks : OwnerOK(u)'
  BY <1>0, <1>1, <1>3, <1>6, <1>7, <1>8, RefusedOwner
<1>12. TicketsOK'
  BY <1>0, <1>1, <1>3, <1>4, TicketsKept
<1>13. QED
  BY <1>1, <1>7, <1>9, <1>10, <1>11, <1>12 DEF Facts, Tasks, Access

(* The one share to write a resource. *)
LEMMA OneWriteShare ==
  ASSUME Facts, NEW r \in Resources, NEW x \in Shares(r, "write"), NEW y \in Shares(r, "write")
  PROVE  x = y
BY DEF Facts, LocksOK

(* A thread begins to give back what a task was given: it was given it to  *)
(* run or to be woken, or full queues left it to the thread.               *)
LEMMA GivesBack ==
  ASSUME Facts, plan \in Plans, plan' = plan, NEW p \in Threads, NEW t \in Tasks,
         pc' = [pc EXCEPT ![p] = "release"], ReleaseAll(p, t),
         UNCHANGED <<locks, tickets, job, woken>>,
         \/ pc[p] \in {"route", "body"} /\ job[p] = t
         \/ pc[p] = "give" /\ woken[p] = t
  PROVE  /\ frames' \in [Threads -> Seq(FrameRecs)] /\ held' \subseteq Tasks
         /\ (\A q \in Threads : FrameOK(q)') /\ LocksOK' /\ HeldOK'
<1>1. /\ Types /\ FrameOK(p) /\ HeldOK /\ frames \in [Threads -> Seq(FrameRecs)]
      /\ Tasks' = Tasks /\ Access' = Access
  BY DEF Facts, Types, Tasks, Access
<1>2. pc'[p] = "release" /\ \A q \in Threads : q # p => pc'[q] = pc[q]
  BY <1>1, Moves
<1>3. held' = held \ {t} /\ held' \subseteq Tasks
  BY <1>1 DEF ReleaseAll, Types
<1> PICK acc \in Seq(Accs) : acc = IF t \in held THEN Access[t] ELSE <<>>
  <2>1. Access[t] \in Seq(Accs) /\ <<>> \in Seq(Accs)
    BY PlanFacts
  <2>2. QED
    BY <2>1
<1>4. IsInjective(acc)
  <2>1. IsInjective(Access[t]) /\ IsInjective(<<>>)
    BY PlanFacts DEF IsInjective
  <2>2. QED
    BY <2>1
<1> DEFINE rec == [task |-> t, accesses |-> acc]
<1>4a. rec \in FrameRecs /\ rec.task = t /\ rec.accesses = acc
  BY DEF FrameRecs
<1> HIDE DEF rec
<1> PICK s \in Seq(FrameRecs) : s = frames[p]
  BY <1>1
<1> DEFINE n == Append(s, rec)
           top == Len(s) + 1
<1>5. /\ DOMAIN s = 1..top-1 /\ DOMAIN n = 1..top /\ Len(n) = top /\ n[top] = rec
      /\ top \in Nat /\ top >= 1 /\ n \in Seq(FrameRecs)
      /\ \A i \in 1..top-1 : n[i] = s[i]
  BY <1>4a
<1>6. frames' = [frames EXCEPT ![p] = n]
  BY DEF ReleaseAll, rec
<1> HIDE DEF n, top
<1>7. /\ frames' \in [Threads -> Seq(FrameRecs)]
      /\ frames'[p] = n /\ \A q \in Threads : q # p => frames'[q] = frames[q]
  BY <1>1, <1>5, <1>6
<1>8. /\ \A i \in 1..top-1 : AtHead(p, i) /\ AtHead(p, i)'
      /\ ~ AtHead(p, top)'
  BY <1>2, <1>5, <1>7 DEF AtHead
<1>9. FrameOK(p)'
  <2>1. n # <<>>
    BY <1>5
  <2>2. \A i \in 1..top-1 : n[i].accesses # <<>> /\ IsInjective(n[i].accesses)
    BY <1>1, <1>5, <1>8 DEF FrameOK
  <2>3. IsInjective(n[top].accesses)
    BY <1>4, <1>4a, <1>5
  <2>4. \A i \in 1..top : i = top \/ i \in 1..top-1
    BY <1>5
  <2>5. pc'[p] \in InRelease /\ frames'[p] # <<>>
    BY <1>2, <1>7, <2>1 DEF InRelease
  <2>6. \A i \in DOMAIN n : (AtHead(p, i)' => n[i].accesses # <<>>) /\ IsInjective(n[i].accesses)
    BY <1>5, <1>8, <2>2, <2>3, <2>4
  <2>7. QED
    BY <1>7, <2>5, <2>6 DEF FrameOK
<1>10. \A q \in Threads : q # p => FrameOK(q)'
  BY <1>2, <1>7, SameFrame DEF Facts
<1> PICK x \in Tokens : x = IF pc[p] = "give" THEN <<t, "give", p, 0>> ELSE <<t, "task", None, 0>>
  BY ATaskToken, AGiveToken
<1> PICK y \in Tokens : y = <<t, "call", p, top>>
  BY <1>5, ACallToken
<1>11. x # y /\ x[1] = t /\ y[1] = t
  OBVIOUS
<1>12. \A u \in Tasks : u # t => (Granted(u)' <=> Granted(u)) /\ (Giving(u)' <=> Giving(u))
  <2>1. \A u \in Tasks : u # t => (Granted(u)' <=> Granted(u))
    BY <1>2, OtherGrants DEF Queued
  <2>2. ASSUME NEW u \in Tasks, u # t PROVE Giving(u)' <=> Giving(u)
    <3>1. \A q \in Threads : (pc'[q] = "give" /\ woken'[q] = u) <=> (pc[q] = "give" /\ woken[q] = u)
      BY <1>2, <2>2
    <3>2. QED
      BY <3>1 DEF Giving
  <2>3. QED
    BY <2>1, <2>2
<1>13. /\ pc[p] # "give" => Granted(t) /\ ~ Granted(t)'
       /\ pc[p] = "give" => Giving(t) /\ (Granted(t)' <=> Granted(t))
  <2>1. ASSUME pc[p] # "give" PROVE Granted(t) /\ ~ Granted(t)'
    <3>1. Works(p, t) /\ Granted(t)
      BY <2>1 DEF Works, Granted
    <3>2. ~ Queued(t) /\ \A q \in Threads : /\ ~ Waking(q, t)
                                            /\ Works(q, t) => q = p
      BY <3>1, WhoHasIt DEF Only
    <3>3. QED
      BY <1>2, <3>1, <3>2 DEF Granted, Waking, Works, Queued
  <2>2. ASSUME pc[p] = "give" PROVE Giving(t) /\ (Granted(t)' <=> Granted(t))
    BY <1>1, <2>2, SameGrants DEF Giving, InGrant
  <2>3. QED
    BY <2>1, <2>2
<1>14. ASSUME NEW r \in Resources, NEW m \in {"read", "write"}
       PROVE  /\ Has(x, r, m) <=> Uses(t, r, m)
              /\ ~ Has(x, r, m)' /\ ~ Has(y, r, m)
              /\ Has(y, r, m)' <=> t \in held /\ Uses(t, r, m)
              /\ \A z \in Tokens : z # x /\ z # y => (Has(z, r, m)' <=> Has(z, r, m))
  <2>1. Has(x, r, m) <=> Uses(t, r, m)
    BY <1>13 DEF Has
  <2>2. ~ Has(x, r, m)'
    <3>1. CASE pc[p] = "give"
      BY <1>2, <3>1 DEF Has
    <3>2. CASE pc[p] # "give"
      BY <1>13, <3>2 DEF Has
    <3>3. QED
      BY <3>1, <3>2
  <2>3. ~ Has(y, r, m)
    BY <1>5 DEF Has
  <2>4. Has(y, r, m)' <=> t \in held /\ Uses(t, r, m)
    <3>1. Has(y, r, m)' <=> Left(p, top, [res |-> r, mode |-> m])'
      BY <1>4a, <1>5, <1>7 DEF Has
    <3>2. Left(p, top, [res |-> r, mode |-> m])' <=> \E k \in DOMAIN acc : acc[k] = [res |-> r, mode |-> m]
      BY <1>4a, <1>5, <1>7, <1>8 DEF Left
    <3>3. QED
      BY <3>1, <3>2 DEF Uses
  <2>5. ASSUME NEW z \in Tokens, z # x, z # y PROVE Has(z, r, m)' <=> Has(z, r, m)
    <3>1. CASE z[2] = "task" /\ z[1] = t
      <4>1. CASE pc[p] = "give"
        BY <1>13, <3>1, <4>1, TaskShare
      <4>2. CASE pc[p] # "give"
        BY <2>5, <3>1, <4>2, ATaskToken DEF Has
      <4>3. QED
        BY <4>1, <4>2
    <3>2. CASE z[2] = "task" /\ z[1] # t
      BY <1>12, <3>2, TaskShare, TokenFacts
    <3>3. CASE z[2] # "task" /\ z[3] \in Threads /\ z[3] # p
      BY <1>2, <1>7, <3>3, ThreadShare
    <3>4. CASE z[2] = "give" /\ z[3] = p
      <4>1. pc[p] = "give" => ~ (z[1] = t /\ z[4] = 0)
        BY <2>5, <3>4, AGiveToken
      <4>2. QED
        BY <1>2, <3>4, <4>1 DEF Has
    <3>5. CASE z[2] = "call" /\ z[3] = p /\ z[4] # top
      <4>1. z[4] \in DOMAIN n <=> z[4] \in DOMAIN s
        BY <1>5, <3>5, TokenFacts
      <4>2. z[4] \in DOMAIN s => n[z[4]] = s[z[4]] /\ AtHead(p, z[4]) /\ AtHead(p, z[4])'
        BY <1>5, <1>8
      <4>3. QED
        BY <1>7, <3>5, <4>1, <4>2 DEF Has, Left
    <3>6. CASE z[2] = "call" /\ z[3] = p /\ z[4] = top
      <4>1. z = <<z[1], z[2], z[3], z[4]>>
        BY TokenFacts
      <4>2. z[1] # t
        BY <2>5, <3>6, <4>1
      <4>3. QED
        BY <1>4a, <1>5, <1>7, <3>6, <4>2 DEF Has
    <3>7. CASE z[2] # "task" /\ z[3] \notin Threads
      BY <3>7 DEF Has
    <3>8. QED
      BY <3>1, <3>2, <3>3, <3>4, <3>5, <3>6, <3>7, TokenFacts
  <2>6. QED
    BY <2>1, <2>2, <2>3, <2>4, <2>5
<1>15. Writer(t) => t \in held /\ ~ Granted(t)' /\ ~ Giving(t)'
  <2> SUFFICES ASSUME NEW r \in Resources, Uses(t, r, "write")
               PROVE  t \in held /\ ~ Granted(t)' /\ ~ Giving(t)'
    BY DEF Writer
  <2>1. t \in held
    BY <1>1, <1>13 DEF HeldOK, Writer
  <2>2. \A z : z \in Shares(r, "write") <=> z \in Tokens /\ Has(z, r, "write")
    BY SharesOf
  <2>3. x \in Shares(r, "write")
    BY <1>11, <1>14, <2>2
  <2>4. ~ Granted(t)'
    <3> SUFFICES ASSUME Granted(t)' PROVE FALSE
      OBVIOUS
    <3>1. pc[p] = "give" /\ Granted(t)
      BY <1>13
    <3>2. Has(<<t, "task", None, 0>>, r, "write")
      BY <3>1 DEF Has
    <3>3. <<t, "task", None, 0>> \in Shares(r, "write")
      BY <2>2, <3>2, ATaskToken
    <3>4. x = <<t, "task", None, 0>>
      BY <2>3, <3>3, OneWriteShare
    <3>5. QED
      BY <3>1, <3>4
  <2>5. ~ Giving(t)'
    <3> SUFFICES ASSUME NEW q \in Threads, pc'[q] = "give", woken'[q] = t PROVE FALSE
      BY DEF Giving
    <3>1. q # p /\ pc[q] = "give" /\ woken[q] = t
      BY <1>2
    <3>2. Has(<<t, "give", q, 0>>, r, "write")
      BY <3>1 DEF Has
    <3>3. <<t, "give", q, 0>> \in Shares(r, "write")
      BY <2>2, <3>2, AGiveToken
    <3>4. x = <<t, "give", q, 0>>
      BY <2>3, <3>3, OneWriteShare
    <3>5. QED
      BY <3>1, <3>4
  <2>6. QED
    BY <2>1, <2>4, <2>5
<1>16. HeldOK'
  <2>1. \A u \in Tasks : Writer(u)' <=> Writer(u)
    BY <1>1 DEF Writer, Uses
  <2>2. \A u \in held' : Access'[u] # <<>> /\ (Granted(u)' \/ Giving(u)')
    BY <1>1, <1>3, <1>12 DEF HeldOK
  <2>3. \A u \in Tasks : Writer(u)' /\ (Granted(u)' \/ Giving(u)') => u \in held'
    BY <1>1, <1>3, <1>12, <1>15, <2>1 DEF HeldOK
  <2>4. QED
    BY <1>1, <2>2, <2>3 DEF HeldOK
<1>17. ASSUME NEW r \in Resources, NEW m \in {"read", "write"}
       PROVE  \/ Shares(r, m)' = Shares(r, m)
              \/ Passes(Shares(r, m), Shares(r, m)')
              \/ m = "read" /\ Shares(r, m)' \subseteq Shares(r, m)
  <2>1. \A z : (z \in Shares(r, m) <=> z \in Tokens /\ Has(z, r, m))
               /\ (z \in Shares(r, m)' <=> z \in Tokens /\ Has(z, r, m)')
    BY SharesOf
  <2>2. CASE ~ Uses(t, r, m)
    <3>1. \A z \in Tokens : Has(z, r, m)' <=> Has(z, r, m)
      BY <1>14, <2>2
    <3>2. Shares(r, m)' = Shares(r, m)
      BY <2>1, <3>1
    <3>3. QED
      BY <3>2
  <2>3. CASE Uses(t, r, m) /\ t \in held
    <3>1. x \in Shares(r, m) /\ y \notin Shares(r, m)
      BY <1>11, <1>14, <2>1, <2>3
    <3>2. \A z \in Tokens : Has(z, r, m)' <=> (Has(z, r, m) /\ z # x) \/ z = y
      BY <1>11, <1>14, <2>3
    <3>3. \A z : z \in Shares(r, m)' <=> (z \in Shares(r, m) /\ z # x) \/ z = y
      BY <1>11, <2>1, <3>2
    <3>4. Shares(r, m)' = (Shares(r, m) \ {x}) \cup {y}
      BY <3>3
    <3>5. QED
      BY <1>11, <3>1, <3>4 DEF Passes
  <2>4. CASE Uses(t, r, m) /\ t \notin held
    <3>1. m # "write"
      BY <1>15, <2>4 DEF Writer
    <3>2. Shares(r, m)' \subseteq Shares(r, m)
      BY <1>11, <1>14, <2>1, <2>4
    <3>3. QED
      BY <3>1, <3>2
  <2>5. QED
    BY <2>2, <2>3, <2>4
<1>18. LocksOK'
  BY <1>17, LocksKept
<1>19. QED
  BY <1>3, <1>7, <1>9, <1>10, <1>16, <1>18

(* A body ends, a client could not route, a thread could not wake: each    *)
(* begins to give back.                                                    *)
LEMMA BeginsRelease ==
  ASSUME Facts, plan \in Plans, NEW p \in Threads, NEW t \in Tasks,
         pc' = [pc EXCEPT ![p] = "release"], ReleaseAll(p, t),
         UNCHANGED <<plan, state, epoch, cancelled, locks, queue, tickets, job, hand, woken>>,
         \/ pc[p] \in {"route", "body"} /\ job[p] = t
         \/ pc[p] = "give" /\ woken[p] = t
  PROVE  Facts'
<1>1. /\ Types /\ TicketsOK /\ ChainIsExact /\ "release" \in Steps(p) /\ job[p] \in Tasks
  BY DEF Facts, Types, Steps, InRelease
<1>2. /\ frames' \in [Threads -> Seq(FrameRecs)] /\ held' \subseteq Tasks
      /\ (\A q \in Threads : FrameOK(q)') /\ LocksOK' /\ HeldOK'
  BY GivesBack
<1>3. Types'
  BY <1>1, <1>2, TypesKept DEF Types
<1>4. \A u \in Tasks : OwnerOK(u)'
  BY StayOwner
<1>5. TicketsOK'
  BY <1>1, TicketsKept
<1>6. QED
  BY <1>1, <1>2, <1>3, <1>4, <1>5, ChainsKept DEF Facts, Tasks, Access

LEMMA FinishStep ==
  ASSUME Facts, plan \in Plans, NEW w \in Workers, Finish(w)
  PROVE  Facts'
<1>1. w \in Threads /\ pc[w] = "body" /\ job[w] \in Tasks
  BY DEF Finish, Goto, Facts, Types, Threads
<1>2. QED
  BY <1>1, BeginsRelease DEF Finish, Goto, hands

LEMMA RouteFullStep ==
  ASSUME Facts, plan \in Plans, NEW c \in Clients, RouteFull(c)
  PROVE  Facts'
<1>1. c \in Threads /\ pc[c] = "route" /\ job[c] \in Tasks
  BY DEF RouteFull, Goto, Facts, Types, Threads
<1>2. QED
  BY <1>1, BeginsRelease DEF RouteFull, Goto, hands

LEMMA WakeGiveStep ==
  ASSUME Facts, plan \in Plans, NEW p \in Threads, WakeGive(p)
  PROVE  Facts'
<1>1. pc[p] = "give" /\ woken[p] \in Tasks
  BY DEF WakeGive, Goto, Facts, Types
<1>2. QED
  BY <1>1, BeginsRelease DEF WakeGive, Goto, hands

(* A resource is given back. *)
LEMMA ReleaseStep ==
  ASSUME Facts, plan \in Plans, NEW p \in Threads, Release(p)
  PROVE  Facts'
<1>1. /\ pc[p] = "release" /\ plan' = plan /\ pc' = [pc EXCEPT ![p] = "wake"]
      /\ UNCHANGED <<state, epoch, cancelled, held, queue, tickets, job, hand, woken, frames>>
      /\ Frame(p).accesses # <<>> /\ GiveBack(Current(p), Frame(p).task)
  BY DEF Release, Goto, hands
<1>2. /\ Types /\ TicketsOK /\ HeldOK /\ ChainIsExact /\ FrameOK(p) /\ pc[p] \in InRelease
      /\ Tasks' = Tasks /\ Access' = Access /\ "wake" \in Steps(p) /\ job[p] \in Tasks
  BY <1>1 DEF Facts, Types, Tasks, Access, Steps, InRelease
<1>3. pc'[p] = "wake" /\ \A q \in Threads : q # p => pc'[q] = pc[q]
  BY <1>1, <1>2, Moves
<1> PICK s \in Seq(FrameRecs) : s = frames[p]
  BY <1>2, FrameFacts
<1> DEFINE top == Len(s)
<1>4. /\ top \in Nat \ {0} /\ DOMAIN s = 1..top /\ top \in DOMAIN s
      /\ Frame(p) = s[top]
  BY <1>2, FrameFacts
<1> HIDE DEF top
<1> PICK t \in Tasks : t = s[top].task
  BY <1>2, <1>4, FrameFacts
<1> PICK acc \in Seq(Accs) : acc = s[top].accesses
  BY <1>2, <1>4, FrameFacts
<1>5. PICK a \in Accs : a = Current(p) /\ a = acc[1] /\ 1 \in DOMAIN acc
  BY <1>1, <1>2, <1>4, FrameFacts
<1>6. /\ GiveBack(a, t) /\ \A i \in DOMAIN acc : acc[i] = a => i = 1
      /\ a.res \in Resources /\ a.mode \in {"read", "write"} /\ a = [res |-> a.res, mode |-> a.mode]
  <2>1. IsInjective(acc)
    BY <1>2, <1>4, FrameFacts
  <2>2. \A i \in DOMAIN acc : acc[i] = a => i = 1
    BY <1>5, <2>1 DEF IsInjective
  <2>3. a.res \in Resources /\ a.mode \in {"read", "write"} /\ a = [res |-> a.res, mode |-> a.mode]
    BY DEF Accs
  <2>4. QED
    BY <1>1, <1>4, <1>5, <2>2, <2>3
<1>7. /\ \A i \in 1..top : AtHead(p, i)'
      /\ \A i \in 1..top : AtHead(p, i) <=> i # top
  BY <1>1, <1>3, <1>4 DEF AtHead, top
<1>8. FrameOK(p)'
  <2>1. s # <<>> /\ s[top].accesses # <<>>
    BY <1>4, <1>5
  <2>2. \A i \in 1..top : s[i].accesses # <<>> /\ IsInjective(s[i].accesses)
    BY <1>2, <1>4, <1>7, <2>1 DEF FrameOK
  <2>3. QED
    BY <1>1, <1>3, <1>4, <2>1, <2>2 DEF FrameOK, InRelease
<1>9. \A q \in Threads : q # p => FrameOK(q)'
  BY <1>1, <1>3, SameFrame DEF Facts
<1>10. \A u \in Tasks : (Granted(u)' <=> Granted(u)) /\ (Giving(u)' <=> Giving(u))
  BY <1>1, <1>2, <1>3, SameGrants, SameGiving DEF InGrant
<1>11. HeldOK'
  BY <1>1, <1>2, <1>10, HeldKept
<1> PICK x \in Tokens : x = <<t, "call", p, top>>
  BY <1>4, ACallToken
<1>12. ASSUME NEW r \in Resources, NEW m \in {"read", "write"}
       PROVE  /\ Has(x, r, m)' <=> Has(x, r, m) /\ ~ (r = a.res /\ m = a.mode)
              /\ r = a.res /\ m = a.mode => Has(x, r, m)
              /\ \A z \in Tokens : z # x => (Has(z, r, m)' <=> Has(z, r, m))
  <2> DEFINE b == [res |-> r, mode |-> m]
  <2>1. b = a <=> r = a.res /\ m = a.mode
    BY <1>6
  <2>2. Has(x, r, m) <=> \E k \in DOMAIN acc : acc[k] = b
    <3>1. Has(x, r, m) <=> Left(p, top, b)
      BY <1>4 DEF Has
    <3>2. QED
      BY <1>4, <1>7, <3>1 DEF Left
  <2>3. Has(x, r, m)' <=> \E k \in DOMAIN acc : acc[k] = b /\ k # 1
    <3>1. Has(x, r, m)' <=> Left(p, top, b)'
      BY <1>1, <1>4 DEF Has
    <3>2. QED
      BY <1>1, <1>4, <1>7, <3>1 DEF Left
  <2> HIDE DEF b
  <2>4. Has(x, r, m)' <=> Has(x, r, m) /\ b # a
    BY <1>5, <1>6, <2>2, <2>3
  <2>5. b = a => Has(x, r, m)
    BY <1>5, <2>2
  <2>6. ASSUME NEW z \in Tokens, z # x PROVE Has(z, r, m)' <=> Has(z, r, m)
    <3>1. CASE z[2] = "task"
      BY <1>1, <1>10, <3>1, TaskShare, TokenFacts
    <3>2. CASE z[2] # "task" /\ z[3] \in Threads /\ z[3] # p
      BY <1>1, <1>3, <3>2, ThreadShare
    <3>3. CASE z[2] = "give" /\ z[3] = p
      BY <1>1, <1>3, <3>3 DEF Has
    <3>4. CASE z[2] = "call" /\ z[3] = p /\ z[4] # top
      <4>1. z[4] \in DOMAIN s => AtHead(p, z[4]) /\ AtHead(p, z[4])'
        BY <1>4, <1>7, <3>4
      <4>2. QED
        BY <1>1, <3>4, <4>1 DEF Has, Left
    <3>5. CASE z[2] = "call" /\ z[3] = p /\ z[4] = top
      <4>1. z = <<z[1], z[2], z[3], z[4]>>
        BY TokenFacts
      <4>2. z[1] # t
        BY <2>6, <3>5, <4>1
      <4>3. QED
        BY <1>1, <3>5, <4>2 DEF Has
    <3>6. CASE z[2] # "task" /\ z[3] \notin Threads
      BY <3>6 DEF Has
    <3>7. QED
      BY <3>1, <3>2, <3>3, <3>4, <3>5, <3>6, TokenFacts
  <2>7. QED
    BY <2>1, <2>4, <2>5, <2>6
<1>13. ASSUME NEW r \in Resources, NEW m \in {"read", "write"}
       PROVE  /\ Shares(r, m)' = IF r = a.res /\ m = a.mode THEN Shares(r, m) \ {x} ELSE Shares(r, m)
              /\ r = a.res /\ m = a.mode => x \in Shares(r, m)
  <2>1. \A z : (z \in Shares(r, m) <=> z \in Tokens /\ Has(z, r, m))
               /\ (z \in Shares(r, m)' <=> z \in Tokens /\ Has(z, r, m)')
    BY <1>1, SharesOf
  <2>2. CASE r = a.res /\ m = a.mode
    <3>1. \A z : z \in Shares(r, m)' <=> z \in Shares(r, m) /\ z # x
      BY <1>12, <2>1, <2>2
    <3>2. Shares(r, m)' = Shares(r, m) \ {x}
      BY <3>1
    <3>3. x \in Shares(r, m)
      BY <1>12, <2>1, <2>2
    <3>4. QED
      BY <2>2, <3>2, <3>3
  <2>3. CASE ~ (r = a.res /\ m = a.mode)
    <3>1. \A z : z \in Shares(r, m)' <=> z \in Shares(r, m)
      BY <1>12, <2>1, <2>3
    <3>2. Shares(r, m)' = Shares(r, m)
      BY <3>1
    <3>3. QED
      BY <2>3, <3>2
  <2>4. QED
    BY <2>2, <2>3
<1>14. LocksOK' /\ readers' \in [Resources -> Nat] /\ writer' \in [Resources -> Tasks \cup {None}]
  <2>1. x[1] = t /\ x \in Shares(a.res, a.mode)
    BY <1>6, <1>13
  <2>2. \A r \in Resources, m \in {"read", "write"} :
          Shares(r, m)' = IF r = a.res /\ m = a.mode THEN Shares(r, m) \ {x} ELSE Shares(r, m)
    BY <1>13
  <2>3. GiveBack(a, t)
    BY <1>6
  <2>4. QED
    BY <2>1, <2>2, <2>3, LocksReleased
<1>15. Types'
  BY <1>1, <1>2, <1>14, TypesKept DEF Types
<1>16. \A u \in Tasks : OwnerOK(u)'
  BY <1>1, StayOwner
<1>17. TicketsOK'
  BY <1>1, <1>2, TicketsKept
<1>18. QED
  BY <1>1, <1>2, <1>8, <1>9, <1>11, <1>14, <1>15, <1>16, <1>17, ChainsKept DEF Facts

LEMMA Fronts ==
  ASSUME NEW S, NEW s \in Seq(S), s # <<>>
  PROVE  /\ Front(s) \in Seq(S) /\ DOMAIN Front(s) = 1..Len(s)-1 /\ Len(Front(s)) = Len(s)-1
         /\ \A i \in 1..Len(s)-1 : Front(s)[i] = s[i]
<1>1. PICK m \in Nat : m = Len(s)-1 /\ m <= Len(s)
  OBVIOUS
<1> PICK n : n = Front(s)
  OBVIOUS
<1>2. n = SubSeq(s, 1, m)
  BY <1>1 DEF Front
<1>3. n \in Seq(S) /\ Len(n) = m
  BY <1>1, <1>2
<1>4. \A i \in 1..m : n[i] = s[i]
  BY <1>1, <1>2
<1>5. DOMAIN n = 1..m
  BY <1>3
<1>6. QED
  BY <1>1, <1>3, <1>4, <1>5

(* A call returns. *)
LEMMA ReleasedStep ==
  ASSUME Facts, plan \in Plans, NEW p \in Threads, Released(p)
  PROVE  Facts'
<1> DEFINE to == IF Len(frames[p]) > 1 THEN "wake" ELSE IF p \in Clients THEN "drop" ELSE "complete"
<1>1. /\ pc[p] = "release" /\ plan' = plan /\ pc' = [pc EXCEPT ![p] = to]
      /\ UNCHANGED <<state, epoch, cancelled, held, locks, queue, tickets, job, hand, woken>>
      /\ Frame(p).accesses = <<>> /\ frames' = [frames EXCEPT ![p] = Front(@)]
  BY DEF Released, Goto, hands
<1>2. /\ Types /\ TicketsOK /\ HeldOK /\ ChainIsExact /\ FrameOK(p) /\ pc[p] \in InRelease
      /\ to \in Steps(p) /\ job[p] \in Tasks /\ frames \in [Threads -> Seq(FrameRecs)]
      /\ to \in {"wake", "drop", "complete"} /\ (to = "wake" <=> Len(frames[p]) > 1)
  BY <1>1 DEF Facts, Types, Steps, InRelease
<1> HIDE DEF to
<1>3. pc'[p] = to /\ \A q \in Threads : q # p => pc'[q] = pc[q]
  BY <1>1, <1>2, Moves
<1> PICK s \in Seq(FrameRecs) : s = frames[p]
  BY <1>2
<1> DEFINE top == Len(s)
           n == Front(s)
<1>4. /\ top \in Nat \ {0} /\ DOMAIN s = 1..top /\ s[top].accesses = <<>>
  BY <1>1, <1>2, FrameFacts
<1>5. /\ n \in Seq(FrameRecs) /\ DOMAIN n = 1..top-1 /\ Len(n) = top-1
      /\ \A i \in 1..top-1 : n[i] = s[i]
  BY <1>4, Fronts
<1>6. /\ frames' \in [Threads -> Seq(FrameRecs)]
      /\ frames'[p] = n /\ \A q \in Threads : q # p => frames'[q] = frames[q]
  <2>1. frames' = [frames EXCEPT ![p] = n]
    BY <1>1
  <2> HIDE DEF n
  <2>2. QED
    BY <1>2, <1>5, <2>1
<1>7. to = "wake" <=> n # <<>>
  <2>1. n # <<>> <=> top - 1 # 0
    <3>1. PICK k \in Seq(FrameRecs) : k = n
      BY <1>5
    <3>2. PICK h : h = top - 1
      OBVIOUS
    <3>3. Len(k) = h
      BY <1>5, <3>1, <3>2
    <3>4. k # <<>> <=> h # 0
      BY <3>3
    <3>5. QED
      BY <3>1, <3>2, <3>4
  <2>2. QED
    BY <1>2, <1>4, <2>1
<1> HIDE DEF top, n
<1>8. \A i \in 1..top-1 : AtHead(p, i) /\ AtHead(p, i)'
  <2>1. \A i \in 1..top-1 : AtHead(p, i)
    BY <1>4 DEF AtHead, top
  <2>2. pc'[p] # "release"
    BY <1>2, <1>3
  <2>3. QED
    BY <2>1, <2>2 DEF AtHead
<1>9. FrameOK(p)'
  <2>1. \A i \in 1..top-1 : n[i].accesses # <<>> /\ IsInjective(n[i].accesses)
    <3>1. ASSUME NEW i \in 1..top-1 PROVE s[i].accesses # <<>> /\ IsInjective(s[i].accesses)
      <4>1. i \in DOMAIN frames[p] /\ AtHead(p, i)
        BY <1>4, <1>8
      <4>2. QED
        BY <1>2, <4>1 DEF FrameOK
    <3>2. QED
      BY <1>5, <3>1
  <2>2. pc'[p] \in InRelease <=> n # <<>>
    BY <1>2, <1>3, <1>7 DEF InRelease
  <2>3. QED
    BY <1>5, <1>6, <2>1, <2>2 DEF FrameOK
<1>10. \A q \in Threads : q # p => FrameOK(q)'
  BY <1>3, <1>6, SameFrame DEF Facts
<1>11. \A u \in Tasks : (Granted(u)' <=> Granted(u)) /\ (Giving(u)' <=> Giving(u))
  BY <1>1, <1>2, <1>3, SameGrants, SameGiving DEF InGrant
<1>12. HeldOK'
  BY <1>1, <1>2, <1>11, HeldKept
<1>13. ASSUME NEW i, NEW t, NEW a PROVE Gives(p, i, t, a)' <=> Gives(p, i, t, a)
  <2>1. CASE i \in 1..top-1
    BY <1>4, <1>5, <1>6, <1>8, <2>1 DEF Gives, Left
  <2>2. CASE i = top
    BY <1>4, <1>5, <1>6, <2>2 DEF Gives, Left
  <2>3. CASE i \notin 1..top
    BY <1>4, <1>5, <1>6, <2>3 DEF Gives
  <2>4. QED
    BY <1>4, <2>1, <2>2, <2>3
<1>14. \A r \in Resources, m \in {"read", "write"} : Shares(r, m)' = Shares(r, m)
  BY <1>1, <1>2, <1>3, <1>6, <1>11, <1>13, GivesSame
<1>15. LocksOK'
  BY <1>1, <1>14, LocksKept
<1>16. Types'
  BY <1>1, <1>2, <1>6, TypesKept DEF Types
<1>17. \A u \in Tasks : OwnerOK(u)'
  BY <1>1, <1>2, StayOwner
<1>18. TicketsOK'
  BY <1>1, <1>2, TicketsKept
<1>19. QED
  BY <1>1, <1>2, <1>9, <1>10, <1>12, <1>15, <1>16, <1>17, <1>18, ChainsKept DEF Facts, Tasks, Access

-----------------------------------------------------------------------------
(* What cannot happen where no activation is taken back: every ticket is   *)
(* good, and the task that is tried is in no chain and still waits.        *)

LEMMA NeverLost ==
  ASSUME Facts, plan \in Plans, NEW c \in Clients
  PROVE  ~ AcquireUnqueue(c) /\ ~ AcquireLost(c)
<1> SUFFICES ASSUME pc[c] = "acquire"
             PROVE  waitOn[job[c]] = None /\ state[job[c]] = "ready"
  BY DEF AcquireUnqueue, AcquireLost, Goto
<1>1. c \in Threads /\ job[c] \in Tasks /\ Works(c, job[c])
  BY DEF Facts, Types, Threads, Works
<1>2. state[job[c]] = "ready" /\ Only(job[c], "works", c) /\ waitOn[job[c]] \in Resources \cup {None}
  BY <1>1, WhoHasIt DEF Facts, Types
<1>3. QED
  BY <1>2 DEF Only

LEMMA NeverStale ==
  ASSUME Facts, plan \in Plans
  PROVE  /\ \A w \in Workers : ~ DropTicket(w)
         /\ \A p \in Threads : ~ WakeUnqueue(p) /\ ~ WakeLate(p)
<1>1. \A w \in Workers : ~ DropTicket(w)
  <2>1. \A e \in tickets : e[1] \in Tasks /\ e[2] = epoch[e[1]] /\ Queued(e[1])
    BY DEF Facts, Types, TicketsOK, Queued
  <2>2. \A e \in tickets : state[e[1]] = "ready"
    BY <2>1, WhoHasIt
  <2>3. QED
    BY <2>1, <2>2 DEF DropTicket
<1>2. ASSUME NEW p \in Threads, pc[p] \in {"try", "swap"}
      PROVE  waitOn[woken[p]] = None /\ state[woken[p]] = "waiting"
  <2>1. woken[p] \in Tasks /\ Waking(p, woken[p])
    BY <1>2 DEF Facts, Types, Waking
  <2>2. /\ state[woken[p]] = "waiting" /\ Only(woken[p], "waking", p)
        /\ waitOn[woken[p]] \in Resources \cup {None}
    BY <2>1, WhoHasIt DEF Facts, Types
  <2>3. QED
    BY <2>2 DEF Only
<1>3. QED
  BY <1>1, <1>2 DEF WakeUnqueue, WakeLate, Goto

LEMMA InitIInv == Init => IInv
<1> SUFFICES ASSUME Init PROVE Facts
  BY DEF IInv, Init
<1>1. plan \in Plans
  BY DEF Init
<1>2. /\ IsFiniteSet(Tasks) /\ None \notin Tasks /\ None \notin Resources
      /\ Clients \cap Workers = {} /\ Threads = Clients \cup Workers
  BY <1>1, PlanFacts DEF Threads
<1>3. Types
  BY <1>2 DEF Init, Types, Steps, InRelease
<1>4. \A p \in Threads : pc[p] = "idle" /\ frames[p] = <<>>
  BY DEF Init
<1>5. /\ \A t \in Tasks : state[t] = "dormant" /\ waitOn[t] = None
      /\ \A r \in Resources : /\ chain[r] = <<>> /\ waiters[r] = 0
                              /\ readers[r] = 0 /\ writer[r] = None
      /\ tickets = {} /\ held = {} /\ waitWrite = {}
  BY DEF Init
<1>6. \A t \in Tasks : OwnerOK(t)
  BY <1>2, <1>4, <1>5 DEF OwnerOK, Only, Queued, Waking, Works
<1>7. TicketsOK
  BY <1>2, <1>4, <1>5 DEF TicketsOK
<1>8. HeldOK
  BY <1>2, <1>4, <1>5 DEF HeldOK, Granted, Giving, Queued
<1>9. \A p \in Threads : FrameOK(p)
  BY <1>2, <1>4 DEF FrameOK, InRelease
<1>10. \A r \in Resources, m \in {"read", "write"} : Shares(r, m) = {}
  BY <1>4, <1>5 DEF Shares, Has, Granted, Queued
<1>11. LocksOK
  <2>1. IsFiniteSet({}) /\ Cardinality({}) = 0
    BY FS_EmptySet
  <2>2. ASSUME NEW r \in Resources
        PROVE  /\ Shares(r, "read") = {} /\ Shares(r, "write") = {}
               /\ readers[r] = 0 /\ writer[r] = None
    BY <1>5, <1>10
  <2>3. QED
    BY <2>1, <2>2 DEF LocksOK
<1>12. ChainIsExact
  <2>1. ToSet(<<>>) = {} /\ IsInjective(<<>>)
    BY DEF ToSet, IsInjective
  <2>2. \A r \in Resources : {t \in Tasks : waitOn[t] = r} = {}
    BY <1>2, <1>5
  <2>3. QED
    BY <1>5, <2>1, <2>2, FS_EmptySet DEF ChainIsExact
<1>13. QED
  BY <1>3, <1>6, <1>7, <1>8, <1>9, <1>11, <1>12 DEF Facts

LEMMA ClientStep ==
  ASSUME Facts, plan \in Plans, NEW c \in Clients, Client(c), ~ Deactivate(c)
  PROVE  Facts'
BY ActivateStep, AcquireFreeStep, AcquireConflictStep, RouteStep, RouteFullStep, DropStep,
   CancelStep, NeverLost DEF Client

LEMMA WorkerStep ==
  ASSUME Facts, plan \in Plans, NEW w \in Workers, Worker(w)
  PROVE  Facts'
BY RunStep, FinishStep, CompleteStep, NeverStale DEF Worker

LEMMA ReleasingStep ==
  ASSUME Facts, plan \in Plans, NEW p \in Threads, Releasing(p)
  PROVE  Facts'
BY ReleaseStep, ReleasedStep, WakeNobodyStep, WakeHeadStep, WakeCancelledStep, WakeAcquireStep,
   WakeConflictStep, WakeSwapStep, WakeFullStep, WakeGiveStep, NeverStale DEF Releasing

LEMMA SamePlan == [Next]_vars => plan' = plan
BY DEF Next, vars, Client, Worker, Releasing, Activate, AcquireUnqueue, AcquireFree,
       AcquireConflict, AcquireLost, Route, RouteFull, Drop, Deactivate, Cancel, Run, DropTicket,
       Finish, Complete, Release, Released, WakeNobody, WakeHead, WakeCancelled, WakeUnqueue,
       WakeAcquire, WakeConflict, WakeSwap, WakeFull, WakeGive, WakeLate

LEMMA StepIInv == IInv /\ [Next]_vars => IInv'
<1> SUFFICES ASSUME IInv, [Next]_vars PROVE IInv'
  OBVIOUS
<1>1. plan \in Plans /\ plan' = plan
  BY SamePlan DEF IInv
<1>2. ASSUME Kept PROVE Facts'
  <2>1. Facts
    BY <1>2 DEF IInv
  <2>2. \A c \in Clients : ~ Deactivate(c)
    BY <1>2 DEF Kept, Deactivate
  <2>3. CASE \E c \in plan.clients : Client(c)
    BY <1>1, <2>1, <2>2, <2>3, ClientStep, PlanFacts
  <2>4. CASE \E w \in plan.workers : Worker(w)
    BY <1>1, <2>1, <2>4, WorkerStep, PlanFacts
  <2>5. CASE \E p \in plan.clients \cup plan.workers : Releasing(p)
    BY <1>1, <2>1, <2>5, ReleasingStep, PlanFacts DEF Threads
  <2>6. CASE UNCHANGED vars
    <3>1. /\ UNCHANGED <<plan, state, epoch, cancelled, held, readers, writer, waiters, chain>>
          /\ UNCHANGED <<waitOn, waitWrite, tickets, pc, job, hand, woken, frames>>
      BY <2>6 DEF vars
    <3>2. Types' /\ ChainIsExact' /\ TicketsOK' /\ HeldOK' /\ \A t \in Tasks' : OwnerOK(t)'
      <4>1. Tasks' = Tasks /\ Access' = Access
        BY <3>1 DEF Tasks, Access
      <4>2. Types'
        BY <2>1, <3>1, <4>1 DEF Facts, Types, FrameRecs
      <4>3. ChainIsExact'
        BY <2>1, <3>1, ChainsKept DEF Facts
      <4>4. TicketsOK'
        BY <2>1, <3>1 DEF Facts, TicketsOK
      <4>5. HeldOK'
        BY <2>1, <3>1, <4>1 DEF Facts, HeldOK, Writer, Uses, Granted, Giving, Queued
      <4>6. \A t \in Tasks : OwnerOK(t)'
        BY <2>1, <3>1 DEF Facts, OwnerOK, Only, Queued, Waking, Works
      <4>7. QED
        BY <4>1, <4>2, <4>3, <4>4, <4>5, <4>6
    <3>3. \A p \in Threads : FrameOK(p)'
      BY <2>1, <3>1, SameFrame DEF Facts
    <3>4. LocksOK'
      <4>1. \A u \in Tasks : Granted(u)' <=> Granted(u)
        BY <3>1 DEF Granted, Queued
      <4>2. ASSUME NEW r \in Resources, NEW m \in {"read", "write"}, NEW x \in Tokens
            PROVE  Has(x, r, m)' <=> Has(x, r, m)
        BY <3>1, <4>1, TaskShare, ThreadShare, TokenFacts
      <4>3. \A r \in Resources, m \in {"read", "write"} : Shares(r, m)' = Shares(r, m)
        <5> SUFFICES ASSUME NEW r \in Resources, NEW m \in {"read", "write"}
                     PROVE  Shares(r, m)' = Shares(r, m)
          OBVIOUS
        <5>1. \A x : x \in Shares(r, m)' <=> x \in Shares(r, m)
          BY <3>1, <4>2, SharesOf
        <5>2. QED
          BY <5>1
      <4>4. QED
        BY <2>1, <3>1, <4>3, LocksKept
    <3>5. QED
      BY <3>2, <3>3, <3>4 DEF Facts
  <2>7. QED
    BY <2>3, <2>4, <2>5, <2>6 DEF Next
<1>3. QED
  BY <1>1, <1>2 DEF IInv, Kept

-----------------------------------------------------------------------------
(* Theorems *)

(* The inductive invariant: where no activation is taken back, a task is   *)
(* in one place, what is held is held by tasks that were granted it, or    *)
(* that a thread gives back next after the queues refused them, and each   *)
(* resource has at most the one writer that has a share in it, counts at   *)
(* least its readers and exactly its waiting writers.                      *)
THEOREM InductiveInvariant == Spec => []IInv
BY InitIInv, StepIInv, PTL DEF Spec

LEMMA BodiesHold ==
  ASSUME Facts, plan \in Plans, NEW t \in Bodies, NEW r \in Resources, NEW m \in {"read", "write"},
         Uses(t, r, m)
  PROVE  t \in Tasks /\ <<t, "task", None, 0>> \in Shares(r, m)
<1>1. PICK w \in Workers : pc[w] = "body" /\ job[w] = t
  BY DEF Bodies
<1>2. t \in Tasks /\ Granted(t)
  BY <1>1 DEF Facts, Types, Threads, Granted
<1>3. QED
  BY <1>2, ATaskToken DEF Shares, Has

(* Bodies that run at the same time do not write what another uses:        *)
(* acquire_all and release_all, for any tasks, declarations, clients and   *)
(* workers and however often the queues refuse a task, where no activation *)
(* is taken back.                                                          *)
THEOREM NobodyWritesWhatAnotherUses == Spec => [](Kept => AccessExclusive)
<1>1. IInv => (Kept => AccessExclusive)
  <2> SUFFICES ASSUME IInv, Kept, NEW t \in Bodies, NEW u \in Bodies, t # u,
                      NEW r \in Resources, Uses(t, r, "write")
               PROVE  ~ Uses(u, r, "read") /\ ~ Uses(u, r, "write")
    BY DEF AccessExclusive
  <2> DEFINE x == <<t, "task", None, 0>>
             y == <<u, "task", None, 0>>
  <2>1. Facts /\ plan \in Plans /\ x # y
    BY DEF IInv
  <2>2. x \in Shares(r, "write")
    BY <2>1, BodiesHold
  <2>3. y \notin Shares(r, "write")
    BY <2>1, <2>2, OneWriteShare
  <2>4. y \notin Shares(r, "read")
    BY <2>1, <2>2 DEF Facts, LocksOK
  <2>5. QED
    BY <2>1, <2>3, <2>4, BodiesHold
<1>2. QED
  BY <1>1, InductiveInvariant, PTL

(* A share to write is seen in what holds the resource. *)
LEMMA ShareIsHeld ==
  ASSUME Facts, plan \in Plans, NEW r \in Resources, NEW x \in Shares(r, "write")
  PROVE  x[1] \in StillHeld(r, "write")
<1>1. x \in Tokens /\ Has(x, r, "write") /\ x[1] \in Tasks /\ x[2] \in {"task", "give", "call"}
  BY TokenFacts DEF Shares
<1> PICK t \in Tasks : t = x[1]
  BY <1>1
<1>2. CASE x[2] \in {"task", "give"}
  <2>1. (Granted(t) \/ Giving(t)) /\ Uses(t, r, "write")
    BY <1>1, <1>2 DEF Has, Giving
  <2>2. t \in held
    BY <2>1 DEF Facts, HeldOK, Writer
  <2>3. QED
    BY <2>1, <2>2 DEF StillHeld
<1>3. CASE x[2] = "call"
  <2> PICK p : p = x[3]
    OBVIOUS
  <2> PICK i : i = x[4]
    OBVIOUS
  <2> DEFINE a == [res |-> r, mode |-> "write"]
  <2>1. p \in Threads /\ i \in DOMAIN frames[p] /\ frames[p][i].task = t /\ Left(p, i, a)
    BY <1>1, <1>3 DEF Has
  <2> HIDE DEF a
  <2>2. PICK acc \in Seq(Accs) : acc = frames[p][i].accesses
    <3>1. frames[p] \in Seq(FrameRecs)
      BY <2>1 DEF Facts, Types
    <3>2. frames[p][i] \in FrameRecs
      BY <2>1, <3>1
    <3>3. QED
      BY <3>2 DEF FrameRecs
  <2>3. PICK k \in DOMAIN acc : acc[k] = a /\ (AtHead(p, i) => k # 1)
    BY <2>1, <2>2 DEF Left
  <2>4. acc # <<>>
    BY <2>3
  <2>5. a \in ToSet(IF pc[p] = "release" \/ acc = <<>> THEN acc ELSE Tail(acc))
    <3>1. CASE pc[p] = "release"
      BY <2>3, <3>1 DEF ToSet
    <3>2. CASE pc[p] # "release"
      <4>1. AtHead(p, i)
        BY <3>2 DEF AtHead
      <4>2. k-1 \in DOMAIN Tail(acc) /\ Tail(acc)[k-1] = a
        BY <2>3, <2>4, <4>1, Rests
      <4>3. QED
        BY <2>4, <3>2, <4>2 DEF ToSet
    <3>3. QED
      BY <3>1, <3>2
  <2>6. QED
    BY <2>1, <2>2, <2>5 DEF StillHeld, a
<1>4. QED
  BY <1>1, <1>2, <1>3

(* What is recorded of a resource is what it is: the chains, the count of  *)
(* the writers in them, the writer, which has the resource or has still to *)
(* give it back, and the tasks that hold their resources, under way or     *)
(* with a thread that gives back for them next.                            *)
THEOREM RecordsAreExact == Spec => [](Kept => LocksAgree)
<1>1. IInv => (Kept => LocksAgree)
  <2> SUFFICES ASSUME IInv, Kept PROVE LocksAgree
    OBVIOUS
  <2>1. Facts /\ plan \in Plans /\ Types /\ ChainIsExact /\ LocksOK
    BY DEF IInv, Facts
  <2>2. TypeOK
    <3>1. IsFiniteSet(Tasks)
      BY <2>1, PlanFacts
    <3>2. ASSUME NEW S \in SUBSET Tasks
          PROVE  Cardinality(S) \in 0..Cardinality(Tasks)
      <4>1. IsFiniteSet(S) /\ Cardinality(S) <= Cardinality(Tasks)
        BY <3>1, FS_Subset
      <4>2. Cardinality(S) \in Nat /\ Cardinality(Tasks) \in Nat
        BY <3>1, <4>1, FS_CardinalityType
      <4>3. QED
        BY <4>1, <4>2
    <3>3. waiters \in [Resources -> 0..Cardinality(Tasks)]
      <4>1. \A r \in Resources : waiters[r] \in 0..Cardinality(Tasks)
        <5>1. ASSUME NEW r \in Resources PROVE ToSet(chain[r]) \cap waitWrite \in SUBSET Tasks
          BY <2>1, WritingFinite
        <5>2. QED
          BY <2>1, <3>2, <5>1 DEF ChainIsExact
      <4>2. QED
        BY <2>1, <4>1 DEF Types
    <3>4. QED
      BY <2>1, <3>3 DEF TypeOK, Types
  <2>3. LocksAreHeld
    <3> SUFFICES ASSUME NEW r \in Resources, writer[r] # None
                 PROVE  writer[r] \in StillHeld(r, "write")
      BY DEF LocksAreHeld
    <3>1. PICK x : Shares(r, "write") = {x} /\ x[1] = writer[r]
      BY <2>1 DEF LocksOK
    <3>2. QED
      BY <2>1, <3>1, ShareIsHeld
  <2>4. HeldByActive
    <3> SUFFICES ASSUME NEW t \in held
                 PROVE  \/ state[t] \in {"ready", "running", "waiting"}
                        \/ \E p \in Threads : pc[p] \in {"swap", "give"} /\ woken[p] = t
      BY DEF HeldByActive
    <3>1. t \in Tasks /\ (Granted(t) \/ Giving(t))
      BY <2>1 DEF Facts, Types, HeldOK
    <3>2. CASE Granted(t)
      BY <2>1, <3>1, <3>2, GrantFacts
    <3>3. CASE Giving(t)
      BY <3>3 DEF Giving
    <3>4. QED
      BY <3>1, <3>2, <3>3
  <2>5. QED
    BY <2>1, <2>2, <2>3, <2>4 DEF LocksAgree
<1>2. QED
  BY <1>1, InductiveInvariant, PTL
-----------------------------------------------------------------------------
(* Counts: where tasks are only activated, what has been activated has     *)
(* completed, was ended by full queues or is under way.                    *)

Active == {"ready", "running", "waiting"}

(* A task is under way when the activation that it has been given has been *)
(* counted.                                                                *)
UnderWay == {t \in Tasks : state[t] \in Active /\ \A c \in Clients : ~ Works(c, t)}
CountsAgree ==
  plan.calls = {"activate"} =>
    /\ activations \in Nat /\ completions \in Nat /\ lost \in Nat /\ cancelled = {}
    /\ activations = completions + lost + Cardinality(UnderWay)

LEMMA InitCounts == Init => CountsAgree
<1> SUFFICES ASSUME Init PROVE CountsAgree
  OBVIOUS
<1>1. UnderWay = {}
  BY DEF Init, UnderWay, Active
<1>2. Cardinality(UnderWay) = 0
  BY <1>1, FS_EmptySet
<1>3. QED
  BY <1>2 DEF Init, CountsAgree

(* What a step counts and whom it adds to those under way, or takes from   *)
(* them.                                                                   *)
Counts(more, done, over) ==
  /\ activations' = activations + more /\ completions' = completions + done
  /\ lost' = lost + over /\ cancelled' = cancelled
Stays  == Counts(0, 0, 0) /\ UnderWay' = UnderWay
Starts == Counts(1, 0, 0) /\ \E t : t \notin UnderWay /\ UnderWay' = UnderWay \cup {t}
Ends   == /\ Counts(0, 1, 0) \/ Counts(0, 0, 1)
          /\ \E t \in UnderWay : UnderWay' = UnderWay \ {t}

LEMMA Balance ==
  ASSUME CountsAgree, plan.calls = {"activate"}, plan \in Plans, Stays \/ Starts \/ Ends
  PROVE  /\ activations' \in Nat /\ completions' \in Nat /\ lost' \in Nat /\ cancelled' = {}
         /\ activations' = completions' + lost' + Cardinality(UnderWay')
<1>1. /\ activations \in Nat /\ completions \in Nat /\ lost \in Nat /\ cancelled = {}
      /\ activations = completions + lost + Cardinality(UnderWay)
  BY DEF CountsAgree
<1>2. IsFiniteSet(UnderWay) /\ Cardinality(UnderWay) \in Nat
  BY PlanFacts, FS_Subset, FS_CardinalityType DEF UnderWay
<1>3. CASE Stays
  BY <1>1, <1>2, <1>3 DEF Stays, Counts
<1>4. CASE Starts
  <2>1. Cardinality(UnderWay') = Cardinality(UnderWay) + 1
    BY <1>2, <1>4, FS_AddElement DEF Starts
  <2>2. QED
    BY <1>1, <1>2, <1>4, <2>1 DEF Starts, Counts
<1>5. CASE Ends
  <2>1. Cardinality(UnderWay') = Cardinality(UnderWay) - 1
    BY <1>2, <1>5, FS_RemoveElement DEF Ends
  <2>2. QED
    BY <1>1, <1>2, <1>5, <2>1 DEF Ends, Counts
<1>6. QED
  BY <1>3, <1>4, <1>5

(* Nobody is added to those under way or taken from them. *)
LEMMA NobodyMoves ==
  ASSUME plan' = plan,
         \A t \in Tasks : /\ state'[t] \in Active <=> state[t] \in Active
                          /\ \A c \in Clients : Works(c, t)' <=> Works(c, t)
  PROVE  UnderWay' = UnderWay
BY DEF UnderWay, Tasks, Access

LEMMA SameWork ==
  ASSUME Types, NEW p \in Threads, NEW to, pc[p] # "idle", to # "idle",
         pc' = [pc EXCEPT ![p] = to], job' = job
  PROVE  \A t \in Tasks, c \in Clients : Works(c, t)' <=> Works(c, t)
BY Moves DEF Works, Threads

(* A client that works for a task is the only one that does. *)
LEMMA ClientsTask ==
  ASSUME Facts, plan \in Plans, NEW c \in Clients, pc[c] # "idle"
  PROVE  /\ job[c] \in Tasks /\ state[job[c]] = "ready" /\ job[c] \notin UnderWay
         /\ \A d \in Clients : d # c => ~ Works(d, job[c])
<1>1. job[c] \in Tasks /\ Works(c, job[c]) /\ c \in Threads
  BY DEF Facts, Types, Threads, Works
<1>2. state[job[c]] = "ready" /\ Only(job[c], "works", c)
  BY <1>1, WhoHasIt
<1>3. QED
  BY <1>1, <1>2 DEF UnderWay, Only, Threads

LEMMA CountedClient ==
  ASSUME Facts, plan \in Plans, plan' = plan, plan.calls = {"activate"}, NEW c \in Clients, Client(c),
         activations \in Nat, completions \in Nat, lost \in Nat
  PROVE  Stays \/ Starts
<1>1. ~ Deactivate(c) /\ ~ Cancel(c) /\ ~ AcquireUnqueue(c) /\ ~ AcquireLost(c)
  BY NeverLost DEF Deactivate, Cancel
<1>2. /\ state \in [Tasks -> {"dormant", "ready", "running", "waiting", "completed"}]
      /\ Types /\ c \in Threads /\ job \in [Threads -> Tasks \cup {None}] /\ Tasks' = Tasks
  BY DEF Facts, Types, Threads, Tasks, Access
<1>3. CASE Activate(c)
  <2>1. PICK t \in Tasks : /\ state[t] \in {"dormant", "completed"} /\ Set(t, "ready")
                           /\ job' = [job EXCEPT ![c] = t]
    BY <1>3 DEF Activate
  <2>2. pc[c] = "idle" /\ pc' = [pc EXCEPT ![c] = "acquire"]
    BY <1>3 DEF Activate, Goto
  <2>3. /\ pc'[c] = "acquire" /\ \A q \in Threads : q # c => pc'[q] = pc[q]
        /\ job'[c] = t /\ \A q \in Threads : q # c => job'[q] = job[q]
        /\ state'[t] = "ready" /\ \A u \in Tasks : u # t => state'[u] = state[u]
    BY <1>2, <2>1, <2>2, Moves DEF Set
  <2>4. ASSUME NEW u \in Tasks, u # t
        PROVE  \A d \in Clients : Works(d, u)' <=> Works(d, u)
    BY <2>2, <2>3, <2>4 DEF Works, Threads
  <2>5. Works(c, t)' /\ t \notin UnderWay
    BY <2>1, <2>3 DEF Works, UnderWay, Active
  <2>6. \A u : u \in UnderWay' <=> u \in UnderWay
    BY <1>2, <2>3, <2>4, <2>5 DEF UnderWay
  <2>7. UnderWay' = UnderWay
    BY <2>6
  <2>8. QED
    BY <1>3, <2>7 DEF Activate, Stays, Counts
<1>4. CASE AcquireConflict(c) \/ Route(c)
  <2>1. /\ pc[c] # "idle" /\ pc' = [pc EXCEPT ![c] = "idle"] /\ job' = job
        /\ CountActivation /\ cancelled' = cancelled
    BY <1>4 DEF AcquireConflict, Route, Goto, hands
  <2> PICK t \in Tasks : t = job[c]
    BY <2>1, ClientsTask
  <2>2. state[t] = "ready" /\ t \notin UnderWay /\ \A d \in Clients : d # c => ~ Works(d, t)
    BY <2>1, ClientsTask
  <2>3. state'[t] \in Active /\ \A u \in Tasks : u # t => state'[u] = state[u]
    BY <1>2, <1>4, <2>2 DEF AcquireConflict, Route, Active
  <2>4. pc'[c] = "idle" /\ \A q \in Threads : q # c => pc'[q] = pc[q]
    BY <1>2, <2>1, Moves
  <2>5. \A d \in Clients : ~ Works(d, t)'
    BY <2>1, <2>2, <2>4 DEF Works, Threads
  <2>6. \A u \in Tasks, d \in Clients : u # t => (Works(d, u)' <=> Works(d, u))
    BY <2>1, <2>4 DEF Works, Threads
  <2>7. \A u : u \in UnderWay' <=> u \in UnderWay \/ u = t
    BY <1>2, <2>3, <2>5, <2>6 DEF UnderWay
  <2>8. UnderWay' = UnderWay \cup {t}
    BY <2>7
  <2>9. Counts(1, 0, 0)
    BY <2>1 DEF CountActivation, Counts
  <2>10. QED
    BY <2>2, <2>8, <2>9 DEF Starts
<1>5. CASE AcquireFree(c)
  <2>1. /\ pc[c] # "idle" /\ pc' = [pc EXCEPT ![c] = "route"] /\ job' = job /\ state' = state
        /\ Counts(0, 0, 0)
    BY <1>5 DEF AcquireFree, Goto, hands, Counts
  <2>2. QED
    BY <1>2, <2>1, SameWork, NobodyMoves DEF Stays
<1>6. CASE RouteFull(c)
  <2>1. /\ pc[c] # "idle" /\ pc' = [pc EXCEPT ![c] = "release"] /\ job' = job /\ state' = state
        /\ Counts(0, 0, 0)
    BY <1>6 DEF RouteFull, Goto, hands, Counts
  <2>2. QED
    BY <1>2, <2>1, SameWork, NobodyMoves DEF Stays
<1>7. CASE Drop(c)
  <2>1. /\ pc[c] # "idle" /\ pc' = [pc EXCEPT ![c] = "idle"] /\ job' = job
        /\ Set(job[c], "dormant") /\ Counts(0, 0, 0)
    BY <1>7 DEF Drop, Goto, hands, Counts
  <2> PICK t \in Tasks : t = job[c]
    BY <2>1, ClientsTask
  <2>2. t \notin UnderWay
    BY <2>1, ClientsTask
  <2>3. state'[t] \notin Active /\ \A u \in Tasks : u # t => state'[u] = state[u]
    BY <1>2, <2>1 DEF Set, Active
  <2>4. \A q \in Threads : q # c => pc'[q] = pc[q]
    BY <1>2, <2>1, Moves
  <2>5. \A u \in Tasks, d \in Clients : u # t => (Works(d, u)' <=> Works(d, u))
    <3>1. pc'[c] = "idle"
      BY <1>2, <2>1, Moves
    <3>2. QED
      BY <2>1, <2>4, <3>1 DEF Works, Threads
  <2>6. \A u : u \in UnderWay' <=> u \in UnderWay
    BY <1>2, <2>2, <2>3, <2>5 DEF UnderWay
  <2>7. UnderWay' = UnderWay
    BY <2>6
  <2>8. QED
    BY <2>1, <2>7 DEF Stays
<1>8. QED
  BY <1>1, <1>3, <1>4, <1>5, <1>6, <1>7 DEF Client

LEMMA CountedWorker ==
  ASSUME Facts, plan \in Plans, plan' = plan, NEW w \in Workers, Worker(w),
         activations \in Nat, completions \in Nat, lost \in Nat
  PROVE  Stays \/ Ends
<1>1. /\ state \in [Tasks -> {"dormant", "ready", "running", "waiting", "completed"}]
      /\ Types /\ w \in Threads /\ Tasks' = Tasks /\ w \notin Clients
      /\ job \in [Threads -> Tasks \cup {None}]
  BY PlanFacts DEF Facts, Types, Threads, Tasks, Access
<1>2. ASSUME NEW to, pc' = [pc EXCEPT ![w] = to],
             \A q \in Threads : q # w => job'[q] = job[q]
      PROVE  \A t \in Tasks, c \in Clients : Works(c, t)' <=> Works(c, t)
  BY <1>1, <1>2, Moves DEF Works, Threads
<1>3. CASE Run(w)
  <2>1. PICK e \in tickets : /\ state[e[1]] = "ready" /\ Set(e[1], "running")
                             /\ job' = [job EXCEPT ![w] = e[1]]
    BY <1>3 DEF Run
  <2>2. pc' = [pc EXCEPT ![w] = "body"] /\ \A q \in Threads : q # w => job'[q] = job[q]
    BY <1>1, <1>3, <2>1 DEF Run, Goto
  <2>3. \A t \in Tasks : state'[t] \in Active <=> state[t] \in Active
    BY <1>1, <2>1 DEF Set, Active
  <2>4. UnderWay' = UnderWay
    BY <1>2, <2>2, <2>3, NobodyMoves
  <2>5. QED
    BY <1>3, <2>4 DEF Run, Stays, Counts
<1>4. CASE Finish(w)
  <2>1. pc' = [pc EXCEPT ![w] = "release"] /\ job' = job /\ state' = state /\ Counts(0, 0, 0)
    BY <1>4 DEF Finish, Goto, hands, Counts
  <2>2. QED
    BY <1>2, <2>1, NobodyMoves DEF Stays
<1>5. CASE Complete(w)
  <2>1. /\ pc[w] = "complete" /\ pc' = [pc EXCEPT ![w] = "idle"] /\ job' = job
        /\ Set(job[w], "completed") /\ Counts(0, 1, 0)
    BY <1>5 DEF Complete, Goto, hands, Counts
  <2> PICK t \in Tasks : t = job[w]
    BY <1>1, <2>1 DEF Types
  <2>2. state[t] = "running" /\ Only(t, "works", w)
    BY <1>1, <2>1, WhoHasIt DEF Works
  <2>3. t \in UnderWay
    BY <1>1, <2>2 DEF UnderWay, Active, Only, Threads
  <2>4. state'[t] \notin Active /\ \A u \in Tasks : u # t => state'[u] = state[u]
    BY <1>1, <2>1 DEF Set, Active
  <2>5. \A u : u \in UnderWay' <=> u \in UnderWay /\ u # t
    BY <1>1, <1>2, <2>1, <2>4 DEF UnderWay
  <2>6. UnderWay' = UnderWay \ {t}
    BY <2>5
  <2>7. QED
    BY <2>1, <2>3, <2>6 DEF Ends
<1>6. QED
  BY <1>3, <1>4, <1>5, NeverStale DEF Worker

LEMMA CountedRelease ==
  ASSUME Facts, plan \in Plans, plan' = plan, cancelled = {}, NEW p \in Threads, Releasing(p),
         activations \in Nat, completions \in Nat, lost \in Nat
  PROVE  Stays \/ Ends
<1>1. ~ WakeCancelled(p)
  BY DEF WakeCancelled
<1>2. /\ state \in [Tasks -> {"dormant", "ready", "running", "waiting", "completed"}]
      /\ Types /\ Tasks' = Tasks
  BY DEF Facts, Types, Tasks, Access
<1>3. /\ pc[p] # "idle" /\ job' = job
      /\ \E to : to # "idle" /\ pc' = [pc EXCEPT ![p] = to]
  BY <1>1, NeverStale DEF Releasing, Release, Released, WakeNobody, WakeHead, WakeAcquire,
     WakeConflict, WakeSwap, WakeFull, WakeGive, Goto, hands
<1>4. \A t \in Tasks, c \in Clients : Works(c, t)' <=> Works(c, t)
  BY <1>2, <1>3, SameWork
<1>5. CASE WakeFull(p)
  <2>1. pc[p] = "swap" /\ Set(woken[p], "dormant") /\ Counts(0, 0, 1)
    BY <1>5 DEF WakeFull, Goto, Counts
  <2> PICK t \in Tasks : t = woken[p]
    BY <1>2, <2>1 DEF Types
  <2>2. state[t] = "waiting" /\ Only(t, "waking", p)
    BY <2>1, WhoHasIt DEF Waking
  <2>3. t \in UnderWay
    BY <2>2 DEF UnderWay, Active, Only, Threads
  <2>4. state'[t] \notin Active /\ \A u \in Tasks : u # t => state'[u] = state[u]
    BY <1>2, <2>1 DEF Set, Active
  <2>5. \A u : u \in UnderWay' <=> u \in UnderWay /\ u # t
    BY <1>2, <1>4, <2>4 DEF UnderWay
  <2>6. UnderWay' = UnderWay \ {t}
    BY <2>5
  <2>7. QED
    BY <2>1, <2>3, <2>6 DEF Ends
<1>6. ASSUME ~ WakeFull(p) PROVE Stays
  <2>1. \A t \in Tasks : state'[t] \in Active <=> state[t] \in Active
    <3>1. CASE WakeConflict(p)
      <4>1. state' = [state EXCEPT ![woken[p]] = IF @ = "ready" THEN "waiting" ELSE @]
        BY <3>1 DEF WakeConflict
      <4>2. QED
        BY <1>2, <4>1 DEF Active
    <3>2. CASE WakeSwap(p)
      <4>1. state[woken[p]] = "waiting" /\ state' = [state EXCEPT ![woken[p]] = "ready"]
        BY <3>2 DEF WakeSwap, Set
      <4>2. QED
        BY <1>2, <4>1 DEF Active
    <3>3. CASE Release(p) \/ Released(p) \/ WakeNobody(p) \/ WakeHead(p) \/ WakeAcquire(p) \/ WakeGive(p)
      BY <3>3 DEF Release, Released, WakeNobody, WakeHead, WakeAcquire, WakeGive
    <3>4. QED
      BY <1>1, <1>6, <3>1, <3>2, <3>3, NeverStale DEF Releasing
  <2>2. UNCHANGED <<cancelled, activations, completions, lost>>
    BY <1>1, <1>6, NeverStale DEF Releasing, Release, Released, WakeNobody, WakeHead, WakeAcquire,
       WakeConflict, WakeSwap, WakeGive
  <2>3. UnderWay' = UnderWay
    BY <1>4, <2>1, NobodyMoves
  <2>4. QED
    BY <2>2, <2>3 DEF Stays, Counts
<1>7. QED
  BY <1>5, <1>6

LEMMA StepCounts == IInv /\ CountsAgree /\ [Next]_vars => CountsAgree'
<1> SUFFICES ASSUME IInv, CountsAgree, [Next]_vars, plan.calls = {"activate"}
             PROVE  /\ activations' \in Nat /\ completions' \in Nat /\ lost' \in Nat
                    /\ cancelled' = {}
                    /\ activations' = completions' + lost' + Cardinality(UnderWay')
  BY SamePlan DEF CountsAgree
<1>1. /\ plan \in Plans /\ plan' = plan /\ Facts
      /\ activations \in Nat /\ completions \in Nat /\ lost \in Nat /\ cancelled = {}
  BY SamePlan DEF IInv, Kept, CountsAgree
<1>2. Stays \/ Starts \/ Ends
  <2>1. CASE \E c \in plan.clients : Client(c)
    BY <1>1, <2>1, CountedClient, PlanFacts
  <2>2. CASE \E w \in plan.workers : Worker(w)
    BY <1>1, <2>2, CountedWorker, PlanFacts
  <2>3. CASE \E p \in plan.clients \cup plan.workers : Releasing(p)
    BY <1>1, <2>3, CountedRelease, PlanFacts DEF Threads
  <2>4. CASE UNCHANGED vars
    <3>1. /\ UNCHANGED <<plan, state, pc, job, cancelled, activations, completions, lost>>
      BY <2>4 DEF vars
    <3>2. UnderWay' = UnderWay
      BY <3>1, NobodyMoves DEF Works
    <3>3. QED
      BY <1>1, <3>1, <3>2 DEF Stays, Counts
  <2>5. QED
    BY <2>1, <2>2, <2>3, <2>4 DEF Next
<1>3. QED
  BY <1>1, <1>2, Balance

(* finish: where tasks are only activated, drain finds at rest that every  *)
(* activation has completed, those that had to wait for their resources    *)
(* and were woken by whoever released them included, or was ended by a     *)
(* wake that full queues refused: then drain waits for ever for as many as *)
(* were ended so.                                                          *)
THEOREM RestIsSeen == Spec => []DrainSeesRest
<1>1. Spec => []CountsAgree
  BY InitCounts, StepCounts, InductiveInvariant, PTL DEF Spec
<1>2. CountsAgree => DrainSeesRest
  <2> SUFFICES ASSUME CountsAgree, plan.calls = {"activate"}, AtRest
               PROVE  activations <= completions + lost
    BY DEF DrainSeesRest
  <2>1. UnderWay = {}
    BY DEF AtRest, UnderWay, Active
  <2>2. Cardinality(UnderWay) = 0
    BY <2>1, FS_EmptySet
  <2>3. QED
    BY <2>2 DEF CountsAgree
<1>3. QED
  BY <1>1, <1>2, PTL

-----------------------------------------------------------------------------
(* All of MCTasks: a behaviour takes one way and then does what the module *)
(* of that way does.  P is N with the theorems about it.                   *)

P == INSTANCE TaskNode_proof WITH
       Programs <- SharedOrControlled, Bodies <- NodeBodies, state <- nState, epoch <- nEpoch,
       tickets <- nTickets, activations <- nActivations, completions <- nCompletions,
       pc <- nPc, hand <- nHand, lost <- nLost

LEMMA SameSizes ==
  ASSUME NEW S
  PROVE  N!IsFiniteSet(S) = P!IsFiniteSet(S) /\ N!Cardinality(S) = P!Cardinality(S)
<1>1. N!IsFiniteSet(S) = P!IsFiniteSet(S)
  BY DEF N!IsFiniteSet, P!IsFiniteSet
<1>2. N!Cardinality(S) = P!Cardinality(S)
  BY DEF N!Cardinality, P!Cardinality
<1>3. QED
  BY <1>1, <1>2

LEMMA NodeAssumed == P!NodeAssumption
BY MCAssumption, SameSizes DEF N!NodeAssumption, P!NodeAssumption

LEMMA SameSteps == N!Next => P!Next
<1>1. ASSUME NEW c, N!Client(c) PROVE P!Client(c)
  BY <1>1 DEF N!Client, P!Client,
         N!Activate, P!Activate, N!ActivateSwap, P!ActivateSwap, N!ActivateOverlap,
         P!ActivateOverlap, N!ActivateRefused, P!ActivateRefused, N!QueuePending,
         P!QueuePending, N!Deactivate, P!Deactivate, N!DeactivateEpoch, P!DeactivateEpoch,
         N!Disable, P!Disable, N!Enable, P!Enable, N!EnableFlag, P!EnableFlag, N!Cancel,
         P!Cancel, N!Signal, P!Signal, N!Goto, P!Goto, N!Call, P!Call, N!RouteFor,
         P!RouteFor, N!Swap, P!Swap, N!node, P!node, N!count, P!count, N!body, P!body
<1>2. ASSUME NEW t, N!Route(t) \/ N!RouteFull(t) PROVE P!Route(t) \/ P!RouteFull(t)
  BY <1>2, SameSizes DEF N!Route, P!Route, N!RouteFull, P!RouteFull, N!Lose, P!Lose, N!Goto, P!Goto,
         N!Ticket, P!Ticket, N!node, P!node, N!count, P!count, N!body, P!body
<1>3. ASSUME NEW t, N!Moving(t) PROVE P!Moving(t)
  BY <1>2, <1>3 DEF N!Moving, P!Moving, N!Waking, P!Waking, N!Dispatch, P!Dispatch,
         N!NextEpoch, P!NextEpoch, N!CountActivation, P!CountActivation, N!Wake, P!Wake,
         N!WakeMissed, P!WakeMissed, N!WakeLook, P!WakeLook, N!WakeNote, P!WakeNote, N!Goto,
         P!Goto, N!Call, P!Call, N!RouteFor, P!RouteFor, N!Swap, P!Swap, N!node, P!node,
         N!count, P!count, N!body, P!body
<1>4. ASSUME NEW w, N!Worker(w) PROVE P!Worker(w)
  BY <1>4 DEF N!Worker, P!Worker, N!Suspend, P!Suspend, N!Finish, P!Finish,
         N!Take, P!Take, N!Check, P!Check, N!Claim, P!Claim, N!ClaimLost, P!ClaimLost,
         N!BodyReturn, P!BodyReturn, N!BodyFail, P!BodyFail, N!BodyAwait, P!BodyAwait,
         N!SuspendCancelled, P!SuspendCancelled, N!SuspendCheck, P!SuspendCheck,
         N!SuspendPark, P!SuspendPark, N!SuspendRecheck, P!SuspendRecheck, N!Rearm, P!Rearm,
         N!RearmFailed, P!RearmFailed, N!FinishFault, P!FinishFault, N!FinishAgain,
         P!FinishAgain, N!FinishCheck, P!FinishCheck, N!FinishComplete, P!FinishComplete,
         N!Goto, P!Goto, N!Call, P!Call, N!RouteFor, P!RouteFor, N!Swap, P!Swap, N!node,
         P!node, N!count, P!count, N!body, P!body
<1>5. QED
  BY <1>1, <1>3, <1>4 DEF N!Next, P!Next, N!Threads, P!Threads

LEMMA WayOfNode ==
  /\ MCInit /\ way = "node" => P!Init
  /\ way = "node" /\ [MCNext]_all => [P!Next]_(P!vars) /\ way' = "node"
  /\ way # "node" /\ [MCNext]_all => way' # "node"
<1>1. MCInit /\ way = "node" => P!Init
  BY DEF MCInit, N!Init, P!Init, P!Threads, N!Threads
<1>2. way = "node" /\ [MCNext]_all => [P!Next]_(P!vars)
  BY SameSteps DEF MCNext, all, OfAll, OfSteps, OfBodies, OfNode, P!vars
<1>3. [MCNext]_all => way' = way
  BY DEF MCNext, all
<1>4. QED
  BY <1>1, <1>2, <1>3

LEMMA NodeWay == MCSpec => (way = "node" /\ P!Spec) \/ [](way # "node")
<1>1. MCInit /\ way = "node" => P!Init
  BY WayOfNode
<1>2. way = "node" /\ [MCNext]_all => [P!Next]_(P!vars) /\ (way = "node")'
  BY WayOfNode
<1>3. way # "node" /\ [MCNext]_all => (way # "node")'
  BY WayOfNode
<1>4. way # "node" <=> ~ (way = "node")
  OBVIOUS
<1>5. way = "node" /\ MCSpec => P!Spec
  BY <1>1, <1>2, PTL DEF MCSpec, P!Spec
<1>6. way # "node" /\ MCSpec => [](way # "node")
  BY <1>3, PTL DEF MCSpec
<1>7. QED
  BY <1>4, <1>5, <1>6, PTL

(* A behaviour in which no node is used or no resources are, leaves them   *)
(* as they are.                                                            *)
LEMMA ResourcesWay == MCSpec => Spec
<1>1. MCInit => Init
  BY DEF MCInit
<1>2. [MCNext]_all => [Next]_vars
  BY DEF MCNext, all
<1>3. QED
  BY <1>1, <1>2, PTL DEF MCSpec, Spec

(* execute: whichever way a behaviour takes, the body of a node that is    *)
(* not taken back runs on one worker at a time.                            *)
THEOREM BodiesExclude == MCSpec => []BodyExclusive
<1>1. P!Spec => []P!BodyExclusive
  BY NodeAssumed, P!BodyIsExclusive
<1>2. P!BodyExclusive => BodyExclusive
  BY DEF BodyExclusive, N!BodyExclusive, P!BodyExclusive, N!TakesBack, P!TakesBack, N!Made, P!Made,
         N!InBody, P!InBody
<1>3. way # "node" => BodyExclusive
  BY DEF BodyExclusive
<1>4. QED
  BY <1>1, <1>2, <1>3, NodeWay, PTL

(* activate, take_ticket: where a behaviour is about a node, and its       *)
(* tickets can tell its epochs apart, the ticket of each epoch is in one   *)
(* place, and a ready node that nobody deactivates has one of its epoch.   *)
THEOREM TicketsExact == MCSpec => []((way = "node" => nEpoch < TicketEpochs) => TicketExact)
<1>1. P!Spec => [](nEpoch < TicketEpochs => P!TicketExact)
  BY NodeAssumed, P!TicketsAreExact
<1>2. P!TicketExact => TicketExact
  <2>1. P!TypeOK => N!TypeOK
    BY SameSizes DEF N!TypeOK, P!TypeOK, N!States, P!States, N!Flags, P!Flags, N!Threads, P!Threads
  <2>2. P!ReadyIsRouted => N!ReadyIsRouted
    BY DEF N!ReadyIsRouted, P!ReadyIsRouted, N!Made, P!Made, N!Ticket, P!Ticket, N!Threads, P!Threads
  <2>3. P!TicketOnce => N!TicketOnce
    BY SameSizes DEF N!TicketOnce, P!TicketOnce, N!Threads, P!Threads
  <2>4. QED
    BY <2>1, <2>2, <2>3 DEF TicketExact, N!TicketExact, P!TicketExact
<1>3. way # "node" => TicketExact
  BY DEF TicketExact
<1>4. (nEpoch < TicketEpochs => P!TicketExact)
        => ((way = "node" => nEpoch < TicketEpochs) => TicketExact)
  BY <1>2, <1>3
<1>5. way # "node" => ((way = "node" => nEpoch < TicketEpochs) => TicketExact)
  BY <1>3
<1>6. QED
  BY <1>1, <1>4, <1>5, NodeWay, PTL

(* finish, finish_fault, drain: whichever way a behaviour takes, at rest   *)
(* every activation has completed, of a node and of tasks that share       *)
(* resources, or was ended by a wake or a rearm that full queues refused,  *)
(* and no fault is reported that no body had.                              *)
THEOREM OutcomesCounted == MCSpec => []OutcomesAddUp
<1>1. P!Spec => []P!OutcomesAddUp
  BY NodeAssumed, P!OutcomesAlwaysAddUp
<1>2. P!OutcomesAddUp => N!OutcomesAddUp
  BY DEF N!OutcomesAddUp, P!OutcomesAddUp, N!DrainSeesRest, P!DrainSeesRest, N!FaultsAreReal, P!FaultsAreReal,
         N!Made, P!Made, N!AtRest, P!AtRest, N!Threads, P!Threads
<1>3. MCSpec => []DrainSeesRest
  BY RestIsSeen, ResourcesWay, PTL
<1>4. /\ P!OutcomesAddUp /\ DrainSeesRest => OutcomesAddUp
      /\ way # "node" /\ DrainSeesRest => OutcomesAddUp
  BY <1>2 DEF OutcomesAddUp
<1>5. QED
  BY <1>1, <1>3, <1>4, NodeWay, PTL

-----------------------------------------------------------------------------
(* Joins, for any children, any wrap of the count and any loads in which   *)
(* none is under way when an await registers with it (Apart): one worker   *)
(* has the parent and its children in turn (Alone), or there is one await  *)
(* and what it registers with is dormant (Once).                           *)

Alone == load.workers = 1
Once  == load.awaits = 1 /\ load.activated = {}

Occupied(c) == child[c] = "running" \/ end[c] # "none"
Preparing == nPc \in {"prepare", "count", "activate"}
Suspended == nPc \in {"suspend", "park", "recheck", "parked"} /\ nState # "completed"

(* The children that have still to take themselves off the count.          *)
Counted == {c \in Children : \/ parentOf[c] /\ ~ (nPc = "count" /\ now = c)
                             \/ end[c] = "subtract"}

JoinTypes == J!TypeOK /\ last \in [Children -> 0..(Wrap - 1)]

(* The state and the registers of the parent, by where its body is.        *)
ParentOK ==
  /\ nPc \in {"body", "prepare", "count", "activate", "suspend", "park"} => nState = "running"
  /\ nPc = "recheck" => nState \in {"waiting", "ready", "dormant"}
  /\ nPc = "parked" => nState \in {"waiting", "ready", "completed", "dormant"}
  /\ awaits = 0 => /\ nPc = "body" \/ nState = "completed"
                   /\ ~ joinAny /\ awaited = {}
  /\ "any" \notin load.kinds => ~ joinAny
  /\ nPc \in {"count", "activate"} => now \in todo
  /\ todo \cap awaited = {}
  /\ Preparing => todo \cup awaited # {}
  /\ Suspended => todo = {} /\ awaited # {}

(* One worker: a child runs or ends while the parent is parked, and no     *)
(* other does; so nobody wakes a parent that is not waiting.               *)
AloneOK ==
  Alone => /\ ~ wakeup
           /\ \A c \in Children : Occupied(c) => nPc = "parked"
           /\ \A c, d \in Children : Occupied(c) /\ Occupied(d) => c = d
           /\ \A c \in Children : end[c] = "wake" => nState = "waiting"
           /\ nPc = "activate" => pending # 0

(* One await: a child is dormant until it is prepared, and a wake that     *)
(* comes late finds a parent that will not suspend itself again.           *)
OnceOK ==
  Once => /\ \A c \in Children \ awaited : child[c] = "dormant" /\ end[c] = "none"
          /\ \A c \in Children : end[c] = "wake" => nPc \in {"recheck", "parked", "body"}
          /\ wakeup => awaits = 1 /\ (nPc = "body" \/ nState = "completed")

(* During the first await only what it prepares knows the parent.          *)
MineOK ==
  awaits <= 1 =>
    \A c \in Children :
      parentOf[c] \/ end[c] \in {"subtract", "look", "wake"} =>
        c \in awaited \/ (nPc \in {"count", "activate"} /\ now = c)

(* An end is one of a run that the await waits for.                        *)
EndsOK ==
  /\ \A c \in Children : child[c] = "running" => end[c] = "none"
  /\ \A c \in Children : end[c] # "none" => c \in ended
  /\ \A c \in Children : end[c] = "subtract" => ~ parentOf[c]
  /\ nPc \in {"count", "activate"} => parentOf[now] /\ end[now] = "none"

(* What has not ended knows the parent still.                              *)
Owed == \A c \in awaited \ ended : parentOf[c]

(* Where no child of a when_any has stored zero over the count.            *)
Unwiped ==
  \/ "any" \notin load.kinds \/ awaits = 0
  \/ Preparing \/ nPc = "suspend"
  \/ ~ joinAny /\ Suspended

ExactOK ==
  J!NoStragglers /\ Unwiped =>
    /\ pending = Cardinality(Counted)
    /\ \A c \in Children : end[c] = "look" => last[c] # 0

BoundedOK ==
  \/ \E c \in Children : end[c] = "look" /\ last[c] = 0
  \/ pending <= Cardinality(Counted)

(* What the parent was suspended for has happened, when it goes on, when a *)
(* child is about to wake it, and when one has seen that it was the last.  *)
AllAlone == "all" \in load.kinds => Alone
Done == IF joinAny THEN awaited \cap ended # {} ELSE awaited \subseteq ended

SingleOK ==
  Once /\ AllAlone /\ ~ Alone /\ ~ joinAny /\ (Preparing \/ Suspended) =>
     \A c, d \in todo \cup awaited : c = d

DoneOK ==
  J!NoStragglers /\ AllAlone =>
    /\ nState = "ready" => Done
    /\ \A c \in Children : end[c] = "wake" /\ nState = "waiting" => Done
    /\ \A c \in Children :
         end[c] = "look" /\ last[c] = 1 /\ nState = "waiting" /\ ~ joinAny => Done

JoinInv ==
  /\ JoinTypes /\ ParentOK
  /\ J!Apart => /\ AloneOK /\ OnceOK /\ MineOK /\ EndsOK /\ Owed
              /\ ExactOK /\ BoundedOK /\ SingleOK /\ DoneOK

-----------------------------------------------------------------------------

LEMMA JoinAssumed == J!JoinAssumption
BY MCAssumption

LEMMA LoadFacts ==
  ASSUME JoinTypes
  PROVE  /\ load.awaits \in Nat /\ load.workers \in Nat \ {0}
         /\ load.kinds \subseteq {"join", "all", "any"}
         /\ load.activated \subseteq Children
BY JoinAssumed DEF JoinTypes, J!TypeOK, J!JoinAssumption, J!Load

LEMMA JoinSizes ==
  ASSUME NEW S
  PROVE  J!IsFiniteSet(S) = IsFiniteSet(S) /\ J!Cardinality(S) = Cardinality(S)
<1>1. J!IsFiniteSet(S) = IsFiniteSet(S)
  BY DEF J!IsFiniteSet, IsFiniteSet
<1>2. J!Cardinality(S) = Cardinality(S)
  BY DEF J!Cardinality, Cardinality
<1>3. QED
  BY <1>1, <1>2

LEMMA WrapFacts ==
  /\ IsFiniteSet(Children) /\ Cardinality(Children) \in Nat
  /\ Wrap \in Nat /\ Wrap > Cardinality(Children) + 1
  /\ \A x \in 0..(Wrap - 1) : x % Wrap = x
  /\ \A x \in Int : x % Wrap \in 0..(Wrap - 1)
<1>1. /\ IsFiniteSet(Children) /\ Cardinality(Children) \in Nat
      /\ Wrap \in Nat /\ Wrap > Cardinality(Children) + 1
  BY JoinAssumed, JoinSizes, FS_CardinalityType DEF J!JoinAssumption
<1>2. QED
  BY <1>1

LEMMA CountedFacts ==
  /\ IsFiniteSet(Counted) /\ Cardinality(Counted) \in Nat
  /\ Cardinality(Counted) <= Cardinality(Children)
<1>1. Counted \subseteq Children
  BY DEF Counted
<1>2. QED
  BY <1>1, WrapFacts, FS_Subset, FS_CardinalityType

LEMMA CountedFactsNext ==
  /\ IsFiniteSet(Counted') /\ Cardinality(Counted') \in Nat
  /\ Cardinality(Counted') <= Cardinality(Children)
<1>1. Counted' \subseteq Children
  BY DEF Counted
<1>2. QED
  BY <1>1, WrapFacts, FS_Subset, FS_CardinalityType

LEMMA InitJoin == J!Init => JoinInv
<1> SUFFICES ASSUME J!Init PROVE JoinInv
  OBVIOUS
<1>1. JoinTypes
  <2>1. load.awaits \in Nat
    BY JoinAssumed DEF J!Init, J!JoinAssumption, J!Load
  <2>2. 0 \in 0..(Wrap - 1) /\ awaits \in 0..load.awaits
    BY <2>1, WrapFacts DEF J!Init
  <2>3. child \in [Children -> {"dormant", "ready", "running", "completed", "faulted"}]
    BY DEF J!Init
  <2>4. QED
    BY <2>2, <2>3 DEF J!Init, JoinTypes, J!TypeOK
<1>2. ParentOK
  BY DEF J!Init, ParentOK, Preparing, Suspended
<1>3. AloneOK /\ OnceOK /\ MineOK /\ EndsOK /\ Owed
  BY <1>1 DEF J!Init, AloneOK, OnceOK, MineOK, EndsOK, Owed, Alone, Once, Occupied, JoinTypes, J!TypeOK
<1>4. Counted = {}
  BY DEF J!Init, Counted
<1>5. pending = Cardinality(Counted) /\ pending = 0
  BY <1>4, FS_EmptySet DEF J!Init
<1>6. ExactOK /\ BoundedOK
  BY <1>5 DEF J!Init, ExactOK, BoundedOK
<1>7. SingleOK /\ DoneOK
  BY DEF J!Init, SingleOK, DoneOK, Preparing, Suspended
<1>8. QED
  BY <1>1, <1>2, <1>3, <1>6, <1>7 DEF JoinInv

LEMMA NobodyBusy ==
  ASSUME JoinTypes, J!Busy < load.workers, Alone
  PROVE  nPc = "parked" /\ \A c \in Children : ~ Occupied(c)
<1> DEFINE S == {c \in Children : child[c] = "running" \/ end[c] # "none"}
<1>1. IsFiniteSet(S) /\ Cardinality(S) \in Nat
  BY WrapFacts, FS_Subset, FS_CardinalityType
<1>2. J!Busy = Cardinality(S) + (IF nPc = "parked" THEN 0 ELSE 1)
  BY JoinSizes DEF J!Busy
<1>3. nPc = "parked" /\ Cardinality(S) = 0
  BY <1>1, <1>2 DEF Alone
<1>4. S = {}
  BY <1>1, <1>3, FS_EmptySet
<1>5. QED
  BY <1>3, <1>4 DEF Occupied

LEMMA NoneCounted ==
  ASSUME JoinTypes, Cardinality(Counted) = 0, nPc \notin {"count"}
  PROVE  \A c \in Children : ~ parentOf[c]
<1>1. Counted = {}
  BY CountedFacts, FS_EmptySet
<1>2. QED
  BY <1>1 DEF Counted

(* Who has ended of what one await waits for *)
LEMMA EndedIsAwaited ==
  ASSUME JoinInv, J!Apart, J!NoStragglers, AllAlone, ~ Alone \/ joinAny,
         Preparing \/ Suspended,
         NEW c \in Children, end[c] \in {"subtract", "look", "wake"},
         nPc \notin {"count", "activate"}
  PROVE  Done
<1>1. awaits <= 1
  BY LoadFacts DEF J!Apart, Alone, JoinInv, JoinTypes, J!TypeOK, ParentOK, J!NoStragglers
<1>2. c \in awaited /\ c \in ended
  BY <1>1 DEF JoinInv, MineOK, EndsOK
<1>3. CASE joinAny
  BY <1>2, <1>3 DEF Done
<1>4. CASE ~ joinAny
  <2>1. \A d \in awaited : d = c
    BY <1>2, <1>4 DEF JoinInv, SingleOK, J!Apart, Alone, Once
  <2>2. QED
    BY <1>2, <1>4, <2>1 DEF Done
<1>5. QED
  BY <1>3, <1>4 DEF JoinInv, JoinTypes, J!TypeOK

LEMMA AwaitKeeps ==
  ASSUME JoinInv, J!Await
  PROVE  JoinInv'
<1> USE DEF JoinInv, JoinTypes, J!TypeOK, J!Await, J!Goto
<1>1. JoinTypes'
  BY LoadFacts
<1>2. ParentOK'
  <2>1. PICK kind \in load.kinds, cs \in (SUBSET Children) \ {{}} :
               todo' = cs /\ joinAny' = (joinAny \/ kind = "any")
    OBVIOUS
  <2>2. awaits' # 0
    BY LoadFacts
  <2>3. todo' # {} /\ awaited' = {}
    BY <2>1
  <2>4. ASSUME "any" \notin load.kinds PROVE ~ joinAny'
    BY <2>1, <2>4 DEF ParentOK
  <2>5. QED
    BY <2>2, <2>3, <2>4 DEF ParentOK, Preparing, Suspended
<1>3. SUFFICES ASSUME J!Apart
               PROVE  AloneOK' /\ OnceOK' /\ MineOK' /\ EndsOK' /\ Owed' /\ ExactOK' /\ BoundedOK'
                      /\ SingleOK' /\ DoneOK'
  BY <1>1, <1>2 DEF J!Apart
<1>4. AloneOK'
  BY <1>3 DEF AloneOK, Alone, Occupied, ParentOK
<1>5. OnceOK' /\ MineOK'
  BY <1>3, LoadFacts DEF OnceOK, MineOK, Once, AloneOK, J!Apart, Alone, Occupied, ParentOK
<1>6. EndsOK' /\ Owed'
  BY <1>3 DEF EndsOK, Owed, J!Apart, AloneOK, OnceOK, Alone, Once, Occupied, ParentOK
<1>7. Counted' = Counted
  BY DEF Counted
<1>8. ExactOK' /\ BoundedOK'
  BY <1>3, <1>7, LoadFacts DEF ExactOK, BoundedOK, Unwiped, Suspended, Preparing, J!NoStragglers, ParentOK
<1>9. SingleOK'
  <2>1. PICK kind \in load.kinds, cs \in (SUBSET Children) \ {{}} :
               /\ kind = "join" => Cardinality(cs) = 1
               /\ todo' = cs /\ joinAny' = (joinAny \/ kind = "any")
    BY JoinSizes
  <2>2. Cardinality(cs) = 1 => \E x : cs = {x}
    BY WrapFacts, FS_Subset, FS_Singleton
  <2>3. QED
    BY <1>3, <2>1, <2>2, LoadFacts DEF SingleOK, AllAlone, Alone, Once
<1>10. DoneOK'
  BY <1>3 DEF DoneOK, J!NoStragglers, AllAlone, Alone, Once, Done, ParentOK
<1>11. QED
  BY <1>4, <1>5, <1>6, <1>8, <1>9, <1>10


LEMMA PreparedKeeps ==
  ASSUME JoinInv, J!Prepared
  PROVE  JoinInv'
<1> USE DEF JoinInv, JoinTypes, J!TypeOK, J!Prepared, J!Goto, J!parent, J!children, J!await
<1>1. JoinTypes'
  BY LoadFacts
<1>2. ParentOK'
  BY LoadFacts DEF ParentOK, Preparing, Suspended
<1>3. SUFFICES ASSUME J!Apart
               PROVE  AloneOK' /\ OnceOK' /\ MineOK' /\ EndsOK' /\ Owed' /\ ExactOK' /\ BoundedOK'
                      /\ SingleOK' /\ DoneOK'
  BY <1>1, <1>2 DEF J!Apart
<1>4. AloneOK'
  BY <1>3 DEF AloneOK, Alone, Occupied, ParentOK
<1>5. OnceOK' /\ MineOK'
  BY <1>3, LoadFacts DEF OnceOK, MineOK, Once, AloneOK, J!Apart, Alone, Occupied, ParentOK
<1>6. EndsOK' /\ Owed'
  BY <1>3 DEF EndsOK, Owed, J!Apart, AloneOK, OnceOK, Alone, Once, Occupied, ParentOK
<1>7. Counted' = Counted
  BY DEF Counted
<1>8. ExactOK' /\ BoundedOK'
  BY <1>3, <1>7, LoadFacts DEF ExactOK, BoundedOK, Unwiped, Suspended, Preparing, J!NoStragglers, ParentOK
<1>9. SingleOK'
  BY <1>3 DEF SingleOK, Once, AllAlone, Alone, Preparing, Suspended, ParentOK
<1>10. DoneOK'
  BY <1>3 DEF DoneOK, J!NoStragglers, AllAlone, Alone, Once, Done, ParentOK
<1>11. QED
  BY <1>4, <1>5, <1>6, <1>8, <1>9, <1>10


LEMMA SuspendRearmKeeps ==
  ASSUME JoinInv, J!SuspendRearm
  PROVE  JoinInv'
<1> USE DEF JoinInv, JoinTypes, J!TypeOK, J!SuspendRearm, J!Routed, J!MayPark, J!Goto, J!Swap, J!children, J!await
<1>1. JoinTypes'
  BY LoadFacts
<1>2. ParentOK'
  BY LoadFacts DEF ParentOK, Preparing, Suspended
<1>3. SUFFICES ASSUME J!Apart
               PROVE  AloneOK' /\ OnceOK' /\ MineOK' /\ EndsOK' /\ Owed' /\ ExactOK' /\ BoundedOK'
                      /\ SingleOK' /\ DoneOK'
  BY <1>1, <1>2 DEF J!Apart
<1>4. AloneOK'
  BY <1>3 DEF AloneOK, Alone, Occupied, ParentOK
<1>5. OnceOK' /\ MineOK'
  BY <1>3, LoadFacts DEF OnceOK, MineOK, Once, AloneOK, J!Apart, Alone, Occupied, ParentOK
<1>6. EndsOK' /\ Owed'
  BY <1>3 DEF EndsOK, Owed, J!Apart, AloneOK, OnceOK, Alone, Once, Occupied, ParentOK
<1>7. Counted' = Counted
  BY DEF Counted
<1>8. ExactOK' /\ BoundedOK'
  BY <1>3, <1>7, LoadFacts DEF ExactOK, BoundedOK, Unwiped, Suspended, Preparing, J!NoStragglers, ParentOK
<1>9. SingleOK'
  BY <1>3 DEF SingleOK, Once, AllAlone, Alone, Preparing, Suspended, ParentOK
<1>10. DoneOK'
  <2>1. ~ wakeup /\ pending = 0 /\ ~ (\E c \in Children : end[c] = "wake" /\ Alone)
    BY <1>3 DEF AloneOK, OnceOK, J!Apart, Alone, Once, ParentOK, Occupied
  <2>2. J!NoStragglers => \A c \in Children : ~ parentOf[c]
    BY <1>3, <2>1, NoneCounted DEF ExactOK, Unwiped
  <2>3. J!NoStragglers => awaited \subseteq ended /\ awaited # {}
    BY <1>3, <2>2 DEF Owed, ParentOK, Suspended
  <2>4. J!NoStragglers => Done'
    BY <2>3 DEF Done
  <2>5. QED
    BY <2>4 DEF DoneOK, J!NoStragglers
<1>11. QED
  BY <1>4, <1>5, <1>6, <1>8, <1>9, <1>10


LEMMA SuspendCheckKeeps ==
  ASSUME JoinInv, J!SuspendCheck
  PROVE  JoinInv'
<1> USE DEF JoinInv, JoinTypes, J!TypeOK, J!SuspendCheck, J!MayPark, J!Goto, J!parent, J!children, J!await
<1>1. JoinTypes'
  BY LoadFacts
<1>2. ParentOK'
  BY LoadFacts DEF ParentOK, Preparing, Suspended
<1>3. SUFFICES ASSUME J!Apart
               PROVE  AloneOK' /\ OnceOK' /\ MineOK' /\ EndsOK' /\ Owed' /\ ExactOK' /\ BoundedOK'
                      /\ SingleOK' /\ DoneOK'
  BY <1>1, <1>2 DEF J!Apart
<1>4. AloneOK'
  BY <1>3 DEF AloneOK, Alone, Occupied, ParentOK
<1>5. OnceOK' /\ MineOK'
  BY <1>3, LoadFacts DEF OnceOK, MineOK, Once, AloneOK, J!Apart, Alone, Occupied, ParentOK
<1>6. EndsOK' /\ Owed'
  BY <1>3 DEF EndsOK, Owed, J!Apart, AloneOK, OnceOK, Alone, Once, Occupied, ParentOK
<1>7. Counted' = Counted
  BY DEF Counted
<1>8. ExactOK' /\ BoundedOK'
  BY <1>3, <1>7, LoadFacts DEF ExactOK, BoundedOK, Unwiped, Suspended, Preparing, J!NoStragglers, ParentOK
<1>9. SingleOK'
  BY <1>3 DEF SingleOK, Once, AllAlone, Alone, Preparing, Suspended, ParentOK
<1>10. DoneOK'
  BY <1>3 DEF DoneOK, J!NoStragglers, AllAlone, Alone, Once, Done, ParentOK
<1>11. QED
  BY <1>4, <1>5, <1>6, <1>8, <1>9, <1>10


LEMMA SuspendParkKeeps ==
  ASSUME JoinInv, J!SuspendPark
  PROVE  JoinInv'
<1> USE DEF JoinInv, JoinTypes, J!TypeOK, J!SuspendPark, J!Goto, J!children, J!await
<1>1. JoinTypes'
  BY LoadFacts
<1>2. ParentOK'
  BY LoadFacts DEF ParentOK, Preparing, Suspended
<1>3. SUFFICES ASSUME J!Apart
               PROVE  AloneOK' /\ OnceOK' /\ MineOK' /\ EndsOK' /\ Owed' /\ ExactOK' /\ BoundedOK'
                      /\ SingleOK' /\ DoneOK'
  BY <1>1, <1>2 DEF J!Apart
<1>4. AloneOK'
  BY <1>3 DEF AloneOK, Alone, Occupied, ParentOK
<1>5. OnceOK' /\ MineOK'
  BY <1>3, LoadFacts DEF OnceOK, MineOK, Once, AloneOK, J!Apart, Alone, Occupied, ParentOK
<1>6. EndsOK' /\ Owed'
  BY <1>3 DEF EndsOK, Owed, J!Apart, AloneOK, OnceOK, Alone, Once, Occupied, ParentOK
<1>7. Counted' = Counted
  BY DEF Counted
<1>8. ExactOK' /\ BoundedOK'
  BY <1>3, <1>7, LoadFacts DEF ExactOK, BoundedOK, Unwiped, Suspended, Preparing, J!NoStragglers, ParentOK
<1>9. SingleOK'
  BY <1>3 DEF SingleOK, Once, AllAlone, Alone, Preparing, Suspended, ParentOK
<1>10. DoneOK'
  <2>1. ASSUME J!NoStragglers, AllAlone, NEW c \in Children, end[c] \in {"look", "wake"}
        PROVE  Done
    BY <1>3, <2>1, EndedIsAwaited DEF AloneOK, Occupied, Suspended, ParentOK
  <2>2. QED
    BY <2>1 DEF DoneOK, J!NoStragglers, AllAlone, Alone, Done
<1>11. QED
  BY <1>4, <1>5, <1>6, <1>8, <1>9, <1>10


LEMMA SuspendRecheckKeeps ==
  ASSUME JoinInv, J!SuspendRecheck
  PROVE  JoinInv'
<1> USE DEF JoinInv, JoinTypes, J!TypeOK, J!SuspendRecheck, J!Routed, J!Goto, J!children, J!await
<1>1. JoinTypes'
  BY LoadFacts
<1>2. ParentOK'
  BY LoadFacts DEF ParentOK, Preparing, Suspended
<1>3. SUFFICES ASSUME J!Apart
               PROVE  AloneOK' /\ OnceOK' /\ MineOK' /\ EndsOK' /\ Owed' /\ ExactOK' /\ BoundedOK'
                      /\ SingleOK' /\ DoneOK'
  BY <1>1, <1>2 DEF J!Apart
<1>4. AloneOK'
  BY <1>3 DEF AloneOK, Alone, Occupied, ParentOK
<1>5. OnceOK' /\ MineOK'
  BY <1>3, LoadFacts DEF OnceOK, MineOK, Once, AloneOK, J!Apart, Alone, Occupied, ParentOK
<1>6. EndsOK' /\ Owed'
  BY <1>3 DEF EndsOK, Owed, J!Apart, AloneOK, OnceOK, Alone, Once, Occupied, ParentOK
<1>7. Counted' = Counted
  BY DEF Counted
<1>8. ExactOK' /\ BoundedOK'
  BY <1>3, <1>7, LoadFacts DEF ExactOK, BoundedOK, Unwiped, Suspended, Preparing, J!NoStragglers, ParentOK
<1>9. SingleOK'
  BY <1>3 DEF SingleOK, Once, AllAlone, Alone, Preparing, Suspended, ParentOK
<1>10. DoneOK'
  <2>1. ~ wakeup
    BY <1>3 DEF AloneOK, OnceOK, J!Apart, Alone, Once, ParentOK
  <2>2. QED
    BY <1>3, <2>1 DEF DoneOK, J!NoStragglers, AllAlone, Alone, Done
<1>11. QED
  BY <1>4, <1>5, <1>6, <1>8, <1>9, <1>10


LEMMA ResumeKeeps ==
  ASSUME JoinInv, J!Resume
  PROVE  JoinInv'
<1> USE DEF JoinInv, JoinTypes, J!TypeOK, J!Resume, J!Goto, J!Swap, J!children, J!await
<1>1. JoinTypes'
  BY LoadFacts
<1>2. ParentOK'
  BY LoadFacts DEF ParentOK, Preparing, Suspended
<1>3. SUFFICES ASSUME J!Apart
               PROVE  AloneOK' /\ OnceOK' /\ MineOK' /\ EndsOK' /\ Owed' /\ ExactOK' /\ BoundedOK'
                      /\ SingleOK' /\ DoneOK'
  BY <1>1, <1>2 DEF J!Apart
<1>4. AloneOK'
  BY <1>3, NobodyBusy DEF AloneOK, Alone, Occupied, ParentOK
<1>5. OnceOK' /\ MineOK'
  BY <1>3, LoadFacts DEF OnceOK, MineOK, Once, AloneOK, J!Apart, Alone, Occupied, ParentOK
<1>6. EndsOK' /\ Owed'
  BY <1>3 DEF EndsOK, Owed, J!Apart, AloneOK, OnceOK, Alone, Once, Occupied, ParentOK
<1>7. Counted' = Counted
  BY DEF Counted
<1>8. ExactOK' /\ BoundedOK'
  BY <1>3, <1>7, LoadFacts DEF ExactOK, BoundedOK, Unwiped, Suspended, Preparing, J!NoStragglers, ParentOK
<1>9. SingleOK'
  BY <1>3 DEF SingleOK, Once, AllAlone, Alone, Preparing, Suspended, ParentOK
<1>10. DoneOK'
  BY <1>3 DEF DoneOK, J!NoStragglers, AllAlone, Alone, Once, Done, ParentOK
<1>11. QED
  BY <1>4, <1>5, <1>6, <1>8, <1>9, <1>10


LEMMA ReturnKeeps ==
  ASSUME JoinInv, J!Return
  PROVE  JoinInv'
<1> USE DEF JoinInv, JoinTypes, J!TypeOK, J!Return, J!Goto, J!children, J!await
<1>1. JoinTypes'
  BY LoadFacts
<1>2. ParentOK'
  BY LoadFacts DEF ParentOK, Preparing, Suspended
<1>3. SUFFICES ASSUME J!Apart
               PROVE  AloneOK' /\ OnceOK' /\ MineOK' /\ EndsOK' /\ Owed' /\ ExactOK' /\ BoundedOK'
                      /\ SingleOK' /\ DoneOK'
  BY <1>1, <1>2 DEF J!Apart
<1>4. AloneOK'
  BY <1>3 DEF AloneOK, Alone, Occupied, ParentOK
<1>5. OnceOK' /\ MineOK'
  BY <1>3, LoadFacts DEF OnceOK, MineOK, Once, AloneOK, J!Apart, Alone, Occupied, ParentOK
<1>6. EndsOK' /\ Owed'
  BY <1>3 DEF EndsOK, Owed, J!Apart, AloneOK, OnceOK, Alone, Once, Occupied, ParentOK
<1>7. Counted' = Counted
  BY DEF Counted
<1>8. ExactOK' /\ BoundedOK'
  BY <1>3, <1>7, LoadFacts DEF ExactOK, BoundedOK, Unwiped, Suspended, Preparing, J!NoStragglers, ParentOK
<1>9. SingleOK'
  BY <1>3 DEF SingleOK, Once, AllAlone, Alone, Preparing, Suspended, ParentOK
<1>10. DoneOK'
  BY <1>3 DEF DoneOK, J!NoStragglers, AllAlone, Alone, Once, Done, ParentOK
<1>11. QED
  BY <1>4, <1>5, <1>6, <1>8, <1>9, <1>10


LEMMA PrepareKnownKeeps ==
  ASSUME NEW c \in Children, JoinInv, J!PrepareKnown(c)
  PROVE  JoinInv'
<1> USE DEF JoinInv, JoinTypes, J!TypeOK, J!PrepareKnown, J!parent, J!children
<1>1. JoinTypes'
  BY LoadFacts
<1>2. ParentOK'
  BY LoadFacts DEF ParentOK, Preparing, Suspended
<1>3. SUFFICES ASSUME J!Apart
               PROVE  AloneOK' /\ OnceOK' /\ MineOK' /\ EndsOK' /\ Owed' /\ ExactOK' /\ BoundedOK'
                      /\ SingleOK' /\ DoneOK'
  BY <1>1, <1>2 DEF J!Apart
<1>4. AloneOK'
  BY <1>3 DEF AloneOK, Alone, Occupied, ParentOK
<1>5. OnceOK' /\ MineOK'
  BY <1>3, LoadFacts DEF OnceOK, MineOK, Once, AloneOK, J!Apart, Alone, Occupied, ParentOK
<1>6. EndsOK' /\ Owed'
  BY <1>3 DEF EndsOK, Owed, J!Apart, AloneOK, OnceOK, Alone, Once, Occupied, ParentOK
<1>7. Counted' = Counted
  BY DEF Counted
<1>8. ExactOK' /\ BoundedOK'
  BY <1>3, <1>7, LoadFacts DEF ExactOK, BoundedOK, Unwiped, Suspended, Preparing, J!NoStragglers, ParentOK
<1>9. SingleOK'
  BY <1>3 DEF SingleOK, Once, AllAlone, Alone, Preparing, Suspended, ParentOK
<1>10. DoneOK'
  BY <1>3 DEF DoneOK, J!NoStragglers, AllAlone, Alone, Once, Done, ParentOK
<1>11. QED
  BY <1>4, <1>5, <1>6, <1>8, <1>9, <1>10

LEMMA MoreCounted ==
  ASSUME NEW c, c \notin Counted, Counted' = Counted \cup {c}
  PROVE  Cardinality(Counted') = Cardinality(Counted) + 1
BY CountedFacts, FS_AddElement

LEMMA FewerCounted ==
  ASSUME NEW c, c \in Counted, Counted' = Counted \ {c}
  PROVE  Cardinality(Counted') = Cardinality(Counted) - 1 /\ Cardinality(Counted) # 0
<1>1. Cardinality(Counted') = Cardinality(Counted) - 1
  BY CountedFacts, FS_RemoveElement
<1>2. QED
  BY <1>1, CountedFacts, CountedFactsNext

LEMMA PrepareRegisterKeeps ==
  ASSUME NEW c \in Children, JoinInv, J!PrepareRegister(c)
  PROVE  JoinInv'
<1> USE DEF JoinInv, JoinTypes, J!TypeOK, J!PrepareRegister, J!Goto, J!parent
<1>1. JoinTypes'
  OBVIOUS
<1>2. ParentOK'
  BY LoadFacts DEF ParentOK, Preparing, Suspended
<1>3. SUFFICES ASSUME J!Apart
               PROVE  AloneOK' /\ OnceOK' /\ MineOK' /\ EndsOK' /\ Owed' /\ ExactOK' /\ BoundedOK'
                      /\ SingleOK' /\ DoneOK'
  BY <1>1, <1>2 DEF J!Apart
<1>4. AloneOK'
  BY <1>3 DEF AloneOK, Alone, Occupied, ParentOK
<1>5. OnceOK' /\ MineOK'
  BY <1>3, LoadFacts DEF OnceOK, MineOK, Once, AloneOK, EndsOK, J!Apart, Alone, Occupied, ParentOK
<1>6. EndsOK' /\ Owed'
  BY <1>3 DEF EndsOK, Owed, J!Apart, AloneOK, OnceOK, Alone, Once, Occupied, ParentOK
<1>7. Counted' = Counted
  BY <1>3 DEF Counted, EndsOK
<1>8. ExactOK' /\ BoundedOK'
  BY <1>3, <1>7, LoadFacts DEF ExactOK, BoundedOK, Unwiped, Suspended, Preparing, J!NoStragglers, ParentOK
<1>9. SingleOK'
  BY <1>3 DEF SingleOK, Once, AllAlone, Alone, Preparing, Suspended, ParentOK
<1>10. DoneOK'
  BY <1>3 DEF DoneOK, J!NoStragglers, AllAlone, Alone, Once, Done, ParentOK
<1>11. QED
  BY <1>4, <1>5, <1>6, <1>7, <1>8, <1>9, <1>10


LEMMA PrepareCountKeeps ==
  ASSUME JoinInv, J!PrepareCount
  PROVE  JoinInv'
<1> USE DEF JoinInv, JoinTypes, J!TypeOK, J!PrepareCount, J!Goto, J!Add, J!children, J!await
<1>1. JoinTypes'
  BY WrapFacts
<1>2. ParentOK'
  BY LoadFacts DEF ParentOK, Preparing, Suspended
<1>3. SUFFICES ASSUME J!Apart
               PROVE  AloneOK' /\ OnceOK' /\ MineOK' /\ EndsOK' /\ Owed' /\ ExactOK' /\ BoundedOK'
                      /\ SingleOK' /\ DoneOK'
  BY <1>1, <1>2 DEF J!Apart
<1>4. AloneOK'
  <2>1. ASSUME Alone PROVE pending <= Cardinality(Counted)
    BY <1>3, <2>1 DEF BoundedOK, AloneOK, Occupied
  <2>2. ASSUME Alone PROVE pending' = pending + 1
    BY <2>1, <2>2, CountedFacts, WrapFacts
  <2>3. QED
    BY <1>3, <2>2 DEF AloneOK, Alone, Occupied, ParentOK
<1>5. OnceOK' /\ MineOK'
  BY <1>3, LoadFacts DEF OnceOK, MineOK, Once, AloneOK, EndsOK, J!Apart, Alone, Occupied, ParentOK
<1>6. EndsOK' /\ Owed'
  BY <1>3 DEF EndsOK, Owed, J!Apart, AloneOK, OnceOK, Alone, Once, Occupied, ParentOK
<1>7. ExactOK' /\ BoundedOK'
  <2>1. now \notin Counted /\ Counted' = Counted \cup {now}
    BY <1>3 DEF Counted, EndsOK
  <2>2. Cardinality(Counted') = Cardinality(Counted) + 1
    BY <2>1, MoreCounted
  <2>3. ASSUME pending <= Cardinality(Counted) PROVE pending' = pending + 1
    BY <2>3, CountedFacts, WrapFacts
  <2>4. ExactOK'
    BY <1>3, <2>2, <2>3, CountedFacts DEF ExactOK, Unwiped, Preparing, J!NoStragglers
  <2>5. BoundedOK'
    BY <1>3, <2>2, <2>3, CountedFacts DEF BoundedOK
  <2>6. QED
    BY <2>4, <2>5
<1>8. SingleOK'
  BY <1>3 DEF SingleOK, Once, AllAlone, Alone, Preparing, Suspended, ParentOK
<1>9. DoneOK'
  BY <1>3 DEF DoneOK, J!NoStragglers, AllAlone, Alone, Once, Done, ParentOK
<1>10. QED
  BY <1>4, <1>5, <1>6, <1>7, <1>8, <1>9


LEMMA PrepareActivateKeeps ==
  ASSUME JoinInv, J!PrepareActivate
  PROVE  JoinInv'
<1> USE DEF JoinInv, JoinTypes, J!TypeOK, J!PrepareActivate, J!Goto, J!parent
<1>1. JoinTypes'
  OBVIOUS
<1>2. ParentOK'
  BY LoadFacts DEF ParentOK, Preparing, Suspended
<1>3. SUFFICES ASSUME J!Apart
               PROVE  AloneOK' /\ OnceOK' /\ MineOK' /\ EndsOK' /\ Owed' /\ ExactOK' /\ BoundedOK'
                      /\ SingleOK' /\ DoneOK'
  BY <1>1, <1>2 DEF J!Apart
<1>4. AloneOK'
  BY <1>3 DEF AloneOK, Alone, Occupied, ParentOK
<1>5. OnceOK' /\ MineOK'
  BY <1>3, LoadFacts DEF OnceOK, MineOK, Once, AloneOK, EndsOK, J!Apart, Alone, Occupied, ParentOK
<1>6. EndsOK' /\ Owed'
  BY <1>3 DEF EndsOK, Owed, J!Apart, AloneOK, OnceOK, Alone, Once, Occupied, ParentOK
<1>7. Counted' = Counted
  BY <1>3 DEF Counted, EndsOK
<1>8. ExactOK' /\ BoundedOK'
  BY <1>3, <1>7, LoadFacts DEF ExactOK, BoundedOK, Unwiped, Suspended, Preparing, J!NoStragglers, ParentOK
<1>9. SingleOK'
  BY <1>3 DEF SingleOK, Once, AllAlone, Alone, Preparing, Suspended, ParentOK
<1>10. DoneOK'
  BY <1>3 DEF DoneOK, J!NoStragglers, AllAlone, Alone, Once, Done, ParentOK
<1>11. QED
  BY <1>4, <1>5, <1>6, <1>7, <1>8, <1>9, <1>10


LEMMA PrepareRefusedKeeps ==
  ASSUME JoinInv, J!PrepareRefused
  PROVE  JoinInv'
<1> USE DEF JoinInv, JoinTypes, J!TypeOK, J!PrepareRefused, J!Goto, J!Add
<1>1. JoinTypes'
  <2>1. pending' \in 0..(Wrap - 1)
    BY WrapFacts
  <2>2. nPc' \in {"suspend", "body"} /\ parentOf' \in [Children -> BOOLEAN]
    OBVIOUS
  <2>3. QED
    BY <2>1, <2>2
<1>2. ParentOK'
  BY LoadFacts DEF ParentOK, Preparing, Suspended
<1>3. SUFFICES ASSUME J!Apart
               PROVE  AloneOK' /\ OnceOK' /\ MineOK' /\ EndsOK' /\ Owed' /\ ExactOK' /\ BoundedOK'
                      /\ SingleOK' /\ DoneOK'
  BY <1>1, <1>2 DEF J!Apart
<1>4. AloneOK'
  BY <1>3 DEF AloneOK, Alone, Occupied, ParentOK
<1>5. OnceOK' /\ MineOK'
  BY <1>3, LoadFacts DEF OnceOK, MineOK, Once, AloneOK, EndsOK, J!Apart, Alone, Occupied, ParentOK
<1>6. EndsOK' /\ Owed'
  BY <1>3 DEF EndsOK, Owed, J!Apart, AloneOK, OnceOK, Alone, Once, Occupied, ParentOK
<1>7. ExactOK' /\ BoundedOK'
  <2>1. pending # 0
    <3>1. CASE Alone
      BY <1>3, <3>1 DEF AloneOK, Alone, ParentOK
    <3>2. CASE Once
      <4>1. now \in Counted /\ pending = Cardinality(Counted)
        BY <1>3, <3>2 DEF Counted, EndsOK, ExactOK, Unwiped, Preparing, J!NoStragglers, Once
      <4>2. Counted # {}
        BY <4>1
      <4>3. QED
        BY <4>1, <4>2, CountedFacts, FS_EmptySet
    <3>3. QED
      BY <1>3, <3>1, <3>2 DEF J!Apart, Alone, Once
  <2>2. now \in Counted /\ Counted' = Counted \ {now}
    BY <1>3 DEF Counted, EndsOK
  <2>3. Cardinality(Counted') = Cardinality(Counted) - 1
    BY <2>2, FewerCounted
  <2>4. pending' = pending - 1
    BY <2>1, WrapFacts
  <2>5. ExactOK'
    BY <1>3, <2>1, <2>3, <2>4, CountedFacts DEF ExactOK, Unwiped, Preparing, J!NoStragglers
  <2>6. BoundedOK'
    BY <1>3, <2>3, <2>4, CountedFacts DEF BoundedOK
  <2>7. QED
    BY <2>5, <2>6
<1>8. SingleOK'
  BY <1>3 DEF SingleOK, Once, AllAlone, Alone, Preparing, Suspended, ParentOK
<1>9. DoneOK'
  BY <1>3 DEF DoneOK, J!NoStragglers, AllAlone, Alone, Once, Done, ParentOK
<1>10. QED
  BY <1>4, <1>5, <1>6, <1>7, <1>8, <1>9


LEMMA ChildStartKeeps ==
  ASSUME NEW c \in Children, JoinInv, J!ChildStart(c)
  PROVE  JoinInv'
<1> USE DEF JoinInv, JoinTypes, J!TypeOK, J!ChildStart, J!parent, J!await
<1>1. JoinTypes'
  OBVIOUS
<1>2. ParentOK'
  BY LoadFacts DEF ParentOK, Preparing, Suspended
<1>3. SUFFICES ASSUME J!Apart
               PROVE  AloneOK' /\ OnceOK' /\ MineOK' /\ EndsOK' /\ Owed' /\ ExactOK' /\ BoundedOK'
                      /\ SingleOK' /\ DoneOK'
  BY <1>1, <1>2 DEF J!Apart
<1>4. AloneOK'
  BY <1>3, NobodyBusy DEF AloneOK, Alone, Occupied, ParentOK
<1>5. OnceOK' /\ MineOK'
  BY <1>3, LoadFacts DEF OnceOK, MineOK, Once, AloneOK, EndsOK, J!Apart, Alone, Occupied, ParentOK
<1>6. EndsOK' /\ Owed'
  BY <1>3 DEF EndsOK, Owed, J!Apart, AloneOK, OnceOK, Alone, Once, Occupied, ParentOK
<1>7. Counted' = Counted
  BY <1>3 DEF Counted, EndsOK
<1>8. ExactOK' /\ BoundedOK'
  BY <1>3, <1>7, LoadFacts DEF ExactOK, BoundedOK, Unwiped, Suspended, Preparing, J!NoStragglers, ParentOK
<1>9. SingleOK'
  BY <1>3 DEF SingleOK, Once, AllAlone, Alone, Preparing, Suspended, ParentOK
<1>10. DoneOK'
  BY <1>3 DEF DoneOK, J!NoStragglers, AllAlone, Alone, Once, Done, ParentOK
<1>11. QED
  BY <1>4, <1>5, <1>6, <1>7, <1>8, <1>9, <1>10


LEMMA ChildEndKeeps ==
  ASSUME NEW c \in Children, JoinInv, J!ChildEnd(c)
  PROVE  JoinInv'
<1> USE DEF JoinInv, JoinTypes, J!TypeOK, J!ChildEnd, J!EndGoto, J!parent, J!await
<1>1. JoinTypes'
  OBVIOUS
<1>2. ParentOK'
  BY LoadFacts DEF ParentOK, Preparing, Suspended
<1>3. SUFFICES ASSUME J!Apart
               PROVE  AloneOK' /\ OnceOK' /\ MineOK' /\ EndsOK' /\ Owed' /\ ExactOK' /\ BoundedOK'
                      /\ SingleOK' /\ DoneOK'
  BY <1>1, <1>2 DEF J!Apart
<1>4. AloneOK'
  BY <1>3 DEF AloneOK, Alone, Occupied, ParentOK
<1>5. OnceOK' /\ MineOK'
  BY <1>3, LoadFacts DEF OnceOK, MineOK, Once, AloneOK, EndsOK, J!Apart, Alone, Occupied, ParentOK
<1>6. EndsOK' /\ Owed'
  BY <1>3 DEF EndsOK, Owed, J!Apart, AloneOK, OnceOK, Alone, Once, Occupied, ParentOK
<1>7. Counted' = Counted
  BY <1>3 DEF Counted, EndsOK
<1>8. ExactOK' /\ BoundedOK'
  BY <1>3, <1>7, LoadFacts DEF ExactOK, BoundedOK, Unwiped, Suspended, Preparing, J!NoStragglers, ParentOK
<1>9. SingleOK'
  BY <1>3 DEF SingleOK, Once, AllAlone, Alone, Preparing, Suspended, ParentOK
<1>10. DoneOK'
  BY <1>3 DEF DoneOK, J!NoStragglers, AllAlone, Alone, Once, Done, ParentOK
<1>11. QED
  BY <1>4, <1>5, <1>6, <1>7, <1>8, <1>9, <1>10


LEMMA NotifyNobodyKeeps ==
  ASSUME NEW c \in Children, JoinInv, J!NotifyNobody(c)
  PROVE  JoinInv'
<1> USE DEF JoinInv, JoinTypes, J!TypeOK, J!NotifyNobody, J!EndGoto, J!parent, J!await
<1>1. JoinTypes'
  OBVIOUS
<1>2. ParentOK'
  BY LoadFacts DEF ParentOK, Preparing, Suspended
<1>3. SUFFICES ASSUME J!Apart
               PROVE  AloneOK' /\ OnceOK' /\ MineOK' /\ EndsOK' /\ Owed' /\ ExactOK' /\ BoundedOK'
                      /\ SingleOK' /\ DoneOK'
  BY <1>1, <1>2 DEF J!Apart
<1>4. AloneOK'
  BY <1>3 DEF AloneOK, Alone, Occupied, ParentOK
<1>5. OnceOK' /\ MineOK'
  BY <1>3, LoadFacts DEF OnceOK, MineOK, Once, AloneOK, EndsOK, J!Apart, Alone, Occupied, ParentOK
<1>6. EndsOK' /\ Owed'
  BY <1>3 DEF EndsOK, Owed, J!Apart, AloneOK, OnceOK, Alone, Once, Occupied, ParentOK
<1>7. Counted' = Counted
  BY <1>3 DEF Counted, EndsOK
<1>8. ExactOK' /\ BoundedOK'
  BY <1>3, <1>7, LoadFacts DEF ExactOK, BoundedOK, Unwiped, Suspended, Preparing, J!NoStragglers, ParentOK
<1>9. SingleOK'
  BY <1>3 DEF SingleOK, Once, AllAlone, Alone, Preparing, Suspended, ParentOK
<1>10. DoneOK'
  BY <1>3 DEF DoneOK, J!NoStragglers, AllAlone, Alone, Once, Done, ParentOK
<1>11. QED
  BY <1>4, <1>5, <1>6, <1>7, <1>8, <1>9, <1>10


LEMMA NotifyForgetKeeps ==
  ASSUME NEW c \in Children, JoinInv, J!NotifyForget(c)
  PROVE  JoinInv'
<1> USE DEF JoinInv, JoinTypes, J!TypeOK, J!NotifyForget, J!EndGoto, J!parent, J!await
<1>1. JoinTypes'
  OBVIOUS
<1>2. ParentOK'
  BY LoadFacts DEF ParentOK, Preparing, Suspended
<1>3. SUFFICES ASSUME J!Apart
               PROVE  AloneOK' /\ OnceOK' /\ MineOK' /\ EndsOK' /\ Owed' /\ ExactOK' /\ BoundedOK'
                      /\ SingleOK' /\ DoneOK'
  BY <1>1, <1>2 DEF J!Apart
<1>4. AloneOK'
  BY <1>3 DEF AloneOK, Alone, Occupied, ParentOK
<1>5. OnceOK' /\ MineOK'
  BY <1>3, LoadFacts DEF OnceOK, MineOK, Once, AloneOK, EndsOK, J!Apart, Alone, Occupied, ParentOK
<1>6. EndsOK' /\ Owed'
  BY <1>3 DEF EndsOK, Owed, J!Apart, AloneOK, OnceOK, Alone, Once, Occupied, ParentOK
<1>7. Counted' = Counted
  BY <1>3 DEF Counted, EndsOK
<1>8. ExactOK' /\ BoundedOK'
  BY <1>3, <1>7, LoadFacts DEF ExactOK, BoundedOK, Unwiped, Suspended, Preparing, J!NoStragglers, ParentOK
<1>9. SingleOK'
  BY <1>3 DEF SingleOK, Once, AllAlone, Alone, Preparing, Suspended, ParentOK
<1>10. DoneOK'
  BY <1>3 DEF DoneOK, J!NoStragglers, AllAlone, Alone, Once, Done, ParentOK
<1>11. QED
  BY <1>4, <1>5, <1>6, <1>7, <1>8, <1>9, <1>10


LEMMA NotifySubtractKeeps ==
  ASSUME NEW c \in Children, JoinInv, J!NotifySubtract(c)
  PROVE  JoinInv'
<1> USE DEF JoinInv, JoinTypes, J!TypeOK, J!NotifySubtract, J!EndGoto, J!Add, J!parent, J!await
<1>1. JoinTypes'
  BY WrapFacts
<1>2. ParentOK'
  BY LoadFacts DEF ParentOK, Preparing, Suspended
<1>3. SUFFICES ASSUME J!Apart
               PROVE  AloneOK' /\ OnceOK' /\ MineOK' /\ EndsOK' /\ Owed' /\ ExactOK' /\ BoundedOK'
                      /\ SingleOK' /\ DoneOK'
  BY <1>1, <1>2 DEF J!Apart
<1>4. AloneOK'
  BY <1>3 DEF AloneOK, Alone, Occupied, ParentOK
<1>5. OnceOK' /\ MineOK'
  BY <1>3, LoadFacts DEF OnceOK, MineOK, Once, AloneOK, EndsOK, J!Apart, Alone, Occupied, ParentOK
<1>6. EndsOK' /\ Owed'
  BY <1>3 DEF EndsOK, Owed, J!Apart, AloneOK, OnceOK, Alone, Once, Occupied, ParentOK
<1>7. c \in Counted /\ Counted' = Counted \ {c}
  BY <1>3 DEF Counted, EndsOK
<1>8. Cardinality(Counted') = Cardinality(Counted) - 1 /\ Cardinality(Counted) # 0
  BY <1>7, FewerCounted
<1>9. pending # 0 => pending' = pending - 1
  BY WrapFacts
<1>10. ExactOK'
  BY <1>3, <1>8, <1>9, CountedFacts DEF ExactOK, Unwiped, Preparing, Suspended, J!NoStragglers
<1>11. BoundedOK'
  BY <1>3, <1>8, <1>9, CountedFacts DEF BoundedOK
<1>12. SingleOK'
  BY <1>3 DEF SingleOK, Once, AllAlone, Alone, Preparing, Suspended, ParentOK
<1>13. DoneOK'
  <2>1. ASSUME J!NoStragglers, AllAlone, last'[c] = 1, nState = "waiting", ~ joinAny
        PROVE  Done
    <3>1. CASE ~ Alone
      BY <1>3, <2>1, <3>1, EndedIsAwaited DEF Suspended, ParentOK
    <3>2. CASE Alone
      <4>1. pending = 1 /\ Unwiped
        BY <2>1 DEF Unwiped, Suspended, ParentOK
      <4>2. Cardinality(Counted') = 0
        BY <1>3, <1>8, <2>1, <4>1 DEF ExactOK
      <4>3. Counted \subseteq {c}
        BY <1>7, <4>2, CountedFactsNext, FS_EmptySet
      <4>4. nPc \notin {"count"} /\ c \in ended
        BY <1>3, <2>1 DEF EndsOK, ParentOK
      <4>5. awaited \subseteq ended
        BY <1>3, <4>3, <4>4 DEF Owed, Counted
      <4>6. QED
        BY <2>1, <4>5 DEF Done
    <3>3. QED
      BY <3>1, <3>2
  <2>2. QED
    BY <1>3, <2>1 DEF DoneOK, J!NoStragglers, AllAlone, Alone, Done
<1>14. QED
  BY <1>4, <1>5, <1>6, <1>7, <1>8, <1>9, <1>10, <1>11, <1>12, <1>13


LEMMA NotifyLookKeeps ==
  ASSUME NEW c \in Children, JoinInv, J!NotifyLook(c)
  PROVE  JoinInv'
<1> USE DEF JoinInv, JoinTypes, J!TypeOK, J!NotifyLook, J!EndGoto, J!parent, J!await
<1>1. JoinTypes'
  BY WrapFacts
<1>2. ParentOK'
  BY LoadFacts DEF ParentOK, Preparing, Suspended
<1>3. SUFFICES ASSUME J!Apart
               PROVE  AloneOK' /\ OnceOK' /\ MineOK' /\ EndsOK' /\ Owed' /\ ExactOK' /\ BoundedOK'
                      /\ SingleOK' /\ DoneOK'
  BY <1>1, <1>2 DEF J!Apart
<1>4. AloneOK'
  BY <1>3 DEF AloneOK, Alone, Occupied, ParentOK
<1>5. OnceOK' /\ MineOK'
  BY <1>3, LoadFacts DEF OnceOK, MineOK, Once, AloneOK, EndsOK, J!Apart, Alone, Occupied, ParentOK
<1>6. EndsOK' /\ Owed'
  BY <1>3 DEF EndsOK, Owed, J!Apart, AloneOK, OnceOK, Alone, Once, Occupied, ParentOK
<1>7. Counted' = Counted
  BY DEF Counted
<1>8. J!NoStragglers /\ Unwiped => last[c] # 0 /\ ~ (joinAny /\ nState = "waiting")
  BY <1>3 DEF ExactOK, Unwiped, Preparing, ParentOK
<1>9. ExactOK'
  BY <1>3, <1>7, <1>8 DEF ExactOK, Unwiped, Preparing, Suspended, J!NoStragglers
<1>10. BoundedOK'
  BY <1>3, <1>7, CountedFacts DEF BoundedOK
<1>11. SingleOK'
  BY <1>3 DEF SingleOK, Once, AllAlone, Alone, Preparing, Suspended, ParentOK
<1>12. DoneOK'
  <2>1. ASSUME J!NoStragglers, AllAlone, nState = "waiting", joinAny \/ last[c] = 1
        PROVE  Done
    BY <1>3, <2>1, EndedIsAwaited DEF DoneOK, Suspended, ParentOK
  <2>2. QED
    BY <1>3, <2>1 DEF DoneOK, J!NoStragglers, AllAlone, Alone, Done
<1>13. QED
  BY <1>4, <1>5, <1>6, <1>7, <1>8, <1>9, <1>10, <1>11, <1>12


LEMMA NotifyWakeKeeps ==
  ASSUME NEW c \in Children, JoinInv, J!NotifyWake(c)
  PROVE  JoinInv'
<1> USE DEF JoinInv, JoinTypes, J!TypeOK, J!NotifyWake, J!Routed, J!EndGoto, J!Swap, J!await
<1>1. JoinTypes'
  OBVIOUS
<1>2. ParentOK'
  BY LoadFacts DEF ParentOK, Preparing, Suspended
<1>3. SUFFICES ASSUME J!Apart
               PROVE  AloneOK' /\ OnceOK' /\ MineOK' /\ EndsOK' /\ Owed' /\ ExactOK' /\ BoundedOK'
                      /\ SingleOK' /\ DoneOK'
  BY <1>1, <1>2 DEF J!Apart
<1>4. AloneOK'
  BY <1>3 DEF AloneOK, Alone, Occupied, ParentOK
<1>5. OnceOK' /\ MineOK'
  BY <1>3, LoadFacts DEF OnceOK, MineOK, Once, AloneOK, EndsOK, J!Apart, Alone, Occupied, ParentOK
<1>6. EndsOK' /\ Owed'
  BY <1>3 DEF EndsOK, Owed, J!Apart, AloneOK, OnceOK, Alone, Once, Occupied, ParentOK
<1>7. Counted' = Counted
  BY <1>3 DEF Counted, EndsOK
<1>8. ExactOK' /\ BoundedOK'
  BY <1>3, <1>7, LoadFacts DEF ExactOK, BoundedOK, Unwiped, Suspended, Preparing, J!NoStragglers, ParentOK
<1>9. SingleOK'
  BY <1>3 DEF SingleOK, Once, AllAlone, Alone, Preparing, Suspended, ParentOK
<1>10. DoneOK'
  BY <1>3 DEF DoneOK, J!NoStragglers, AllAlone, Alone, Once, Done, ParentOK
<1>11. QED
  BY <1>4, <1>5, <1>6, <1>7, <1>8, <1>9, <1>10

LEMMA StepKeeps == JoinInv /\ [J!Next]_(J!vars) => JoinInv'
<1> SUFFICES ASSUME JoinInv, [J!Next]_(J!vars) PROVE JoinInv'
  OBVIOUS
<1>1. CASE J!Parent
  BY <1>1, AwaitKeeps, PreparedKeeps, SuspendRearmKeeps, SuspendCheckKeeps, SuspendParkKeeps,
     SuspendRecheckKeeps, ResumeKeeps, ReturnKeeps, PrepareCountKeeps, PrepareActivateKeeps,
     PrepareRefusedKeeps, PrepareKnownKeeps, PrepareRegisterKeeps DEF J!Parent
<1>2. ASSUME NEW c \in Children, J!Child(c) PROVE JoinInv'
  BY <1>2, ChildStartKeeps, ChildEndKeeps, NotifyNobodyKeeps, NotifyForgetKeeps,
     NotifySubtractKeeps, NotifyLookKeeps, NotifyWakeKeeps DEF J!Child
<1>3. CASE UNCHANGED J!vars
  <2>1. Counted' = Counted
    BY <1>3 DEF J!vars, Counted
  <2>2. JoinTypes' /\ ParentOK'
    BY <1>3 DEF J!vars, JoinInv, JoinTypes, J!TypeOK, ParentOK, Preparing, Suspended
  <2>3. (AloneOK /\ OnceOK /\ MineOK /\ EndsOK /\ Owed)'
           = (AloneOK /\ OnceOK /\ MineOK /\ EndsOK /\ Owed)
    BY <1>3 DEF J!vars, AloneOK, OnceOK, MineOK, EndsOK, Owed, Alone, Once, Occupied
  <2>4. (ExactOK /\ BoundedOK /\ SingleOK /\ DoneOK /\ J!Apart)'
           = (ExactOK /\ BoundedOK /\ SingleOK /\ DoneOK /\ J!Apart)
    BY <1>3, <2>1 DEF J!vars, ExactOK, BoundedOK, SingleOK, DoneOK, J!Apart, Unwiped, J!NoStragglers,
       AllAlone, Alone, Once, Done, Preparing, Suspended
  <2>5. J!Apart' = J!Apart
    BY <1>3 DEF J!vars, J!Apart
  <2>6. QED
    BY <2>2, <2>3, <2>4, <2>5 DEF JoinInv
<1>4. QED
  BY <1>1, <1>2, <1>3 DEF J!Next

LEMMA JoinInductive == J!Spec => []JoinInv
BY InitJoin, StepKeeps, PTL DEF J!Spec

LEMMA JoinSafe == JoinInv => J!JoinAwaitsChild /\ J!CountIsExact
<1> SUFFICES ASSUME JoinInv PROVE J!JoinAwaitsChild /\ J!CountIsExact
  OBVIOUS
<1>1. J!JoinAwaitsChild
  BY DEF JoinInv, JoinTypes, J!JoinAwaitsChild, DoneOK, AllAlone, Alone, Done
<1>2. ASSUME J!Apart PROVE J!PendingIsExact
  <2> SUFFICES ASSUME nState = "waiting", ~ joinAny, J!NoStragglers
               PROVE  pending = Cardinality({c \in Children : parentOf[c] \/ end[c] = "subtract"})
    BY JoinSizes DEF J!PendingIsExact
  <2>1. nPc \in {"recheck", "parked"}
    BY DEF JoinInv, JoinTypes, J!TypeOK, ParentOK
  <2>2. pending = Cardinality(Counted)
    BY <1>2, <2>1 DEF JoinInv, ExactOK, Unwiped, Suspended
  <2>3. Counted = {c \in Children : parentOf[c] \/ end[c] = "subtract"}
    BY <2>1 DEF Counted
  <2>4. QED
    BY <2>2, <2>3
<1>3. ASSUME J!Apart PROVE J!NeverNegative
  <2>1. pending \in Nat
    BY WrapFacts DEF JoinInv, JoinTypes, J!TypeOK
  <2>2. QED
    BY <1>3, <2>1, CountedFacts, WrapFacts, JoinSizes DEF JoinInv, BoundedOK, J!NeverNegative
<1>4. QED
  BY <1>1, <1>2, <1>3 DEF J!CountIsExact

LEMMA JoinWay == MCSpec => (way = "join" /\ J!Spec) \/ [](way # "join")
<1>1. MCInit /\ way = "join" => J!Init
  BY DEF MCInit
<1>2. way = "join" /\ [MCNext]_all => [J!Next]_(J!vars) /\ (way = "join")'
  BY DEF MCNext, all, OfAll, OfSteps, OfBodies, OfJoin, J!vars
<1>3. way # "join" /\ [MCNext]_all => (way # "join")'
  BY DEF MCNext, all
<1>4. way # "join" <=> ~ (way = "join")
  OBVIOUS
<1>5. way = "join" /\ MCSpec => J!Spec
  BY <1>1, <1>2, PTL DEF MCSpec, J!Spec
<1>6. way # "join" /\ MCSpec => [](way # "join")
  BY <1>3, PTL DEF MCSpec
<1>7. QED
  BY <1>4, <1>5, <1>6, PTL

(* suspend_bookkeeping, notify_join_waiter: a parent that was suspended    *)
(* goes on only when all the children it waits for have ended, or, after   *)
(* when_any, one of them.                                                  *)
THEOREM JoinsAwaitChildren == MCSpec => []JoinAwaitsChild
<1>1. J!Spec => []J!JoinAwaitsChild
  BY JoinInductive, JoinSafe, PTL
<1>2. J!JoinAwaitsChild => JoinAwaitsChild
  BY DEF JoinAwaitsChild
<1>3. way # "join" => JoinAwaitsChild
  BY DEF JoinAwaitsChild
<1>4. QED
  BY <1>1, <1>2, <1>3, JoinWay, PTL

(* prepare_join, notify_join_waiter: while the parent waits, the count is  *)
(* that of the children that have still to report, and it never stays      *)
(* below zero.                                                             *)
THEOREM CountsExact == MCSpec => []CountIsExact
<1>1. J!Spec => []J!CountIsExact
  BY JoinInductive, JoinSafe, PTL
<1>2. J!CountIsExact => CountIsExact
  BY DEF CountIsExact
<1>3. way # "join" => CountIsExact
  BY DEF CountIsExact
<1>4. QED
  BY <1>1, <1>2, <1>3, JoinWay, PTL

-----------------------------------------------------------------------------
(* Awaits of parallel_for, blocking_call and sleep_for, for any workers,   *)
(* rooms and number of chunks, and any plans in which only the last await  *)
(* may be other than a sleep (NobodyLate): a word that comes late would    *)
(* cut a later await short.                                                *)

(* Where a worker has the body, and where a thread is at a wake.           *)
HasBody == {"body", "launch", "attach", "push", "pushed", "suspend", "rearm", "park"}
AtWake  == {"wake", "woken", "missed", "note"}
AtChunk == {"chunk", "complete", "drain"}

(* What the body has begun last. *)
Sleeping == begun = 0 \/ A!Awaited = "sleep"
Calling  == begun > 0 /\ A!Awaited = "block"
Looping  == begun > 0 /\ A!Awaited = "parallel"

AwaitTypes ==
  /\ A!TypeOK
  /\ at \in [A!Threads -> HasBody \cup AtWake \cup AtChunk
                          \cup {"idle", "parked", "recheck", "op", "kind", "due"}]
  /\ at[Blocker] \in {"idle", "op"} \cup AtWake
  /\ at[Watchdog] \in {"idle", "kind", "due"} \cup AtWake
  /\ chunk \in [Workers -> Nat] /\ total \in Nat /\ next \in Nat

(* One worker at most has the body, and the task is running then; or one   *)
(* thread at most has made it ready and is about to route it; or it has a  *)
(* ticket.                                                                 *)
HolderOK ==
  /\ \A w \in Workers : at[w] \in HasBody => nState = "running"
  /\ \A w, v \in Workers : at[w] \in HasBody /\ at[v] \in HasBody => w = v
  /\ \A t \in A!Threads : at[t] = "woken" => nState = "ready" /\ ~ ticket
  /\ \A t, u \in A!Threads : at[t] = "woken" /\ at[u] = "woken" => t = u
  /\ ticket => nState = "ready"

(* While the body sleeps nobody but the watchdog can wake it, and only     *)
(* when it has been marked as parked and its time has come.                *)
SleepOK ==
  /\ ~ noted /\ jobs = {} /\ pieces = 0 /\ DOMAIN ran = {}
  /\ ops = 0 /\ called = 0 /\ at[Blocker] = "idle"
  /\ \A w \in Workers : at[w] \in {"idle", "body", "suspend", "park", "parked", "recheck"}
  /\ \A w \in Workers : at[w] = "parked" => nState = "waiting"
  /\ \A w \in Workers : at[w] \in {"suspend", "park", "parked"} => wait.state = "preparing"
  /\ \A w, v \in Workers : at[w] = "parked" /\ at[v] = "parked" => w = v
  /\ wait.state = "parked" => nState = "waiting" \/ at[Watchdog] = "woken"
  /\ at[Watchdog] \in {"idle", "kind", "due", "wake", "woken"}
  /\ at[Watchdog] \in {"kind", "due", "wake"} => nState = "waiting" /\ wait.state = "parked"
  /\ at[Watchdog] = "wake" => due
  /\ at[Watchdog] = "woken" => nState = "ready" /\ ~ ticket
  /\ ticket => nState = "ready" /\ wait.kind = "none"
  /\ \A w \in Workers : at[w] = "body" => wait.kind = "none"
  /\ nState = "ready" /\ begun > 0 => due

(* A word for the task: that it may go on, or is about to be told so.      *)
Word == \/ noted \/ nState = "ready"
        \/ \E t \in A!Threads : at[t] \in AtWake \cup {"rearm", "drain"}

(* The last await is not the watchdog's.                                   *)
LastOK ==
  /\ begun = Len(nPlan.awaits)
  /\ at[Watchdog] \in {"idle", "kind"} /\ wait.kind # "timed"

(* A blocking call: queued, being made or dropped, until it has ended.     *)
CallOK ==
  /\ LastOK
  /\ jobs = {} /\ pieces = 0 /\ DOMAIN ran = {}
  /\ \A w \in Workers : at[w] \notin AtChunk \cup {"launch", "attach", "push", "pushed"}
  /\ called <= 1
  /\ ops + (IF at[Blocker] = "op" THEN 1 ELSE 0) <= called
  /\ Word => called = 0

(* The chunks that have not been run, and those not yet taken off count.   *)
ToRun(c) == c \in jobs \/ c >= next \/ \E w \in Workers : at[w] = "chunk" /\ chunk[w] = c
Outstanding ==
  {c \in 0 .. A!Chunks(total) - 1 :
     ToRun(c) \/ \E w \in Workers : at[w] = "complete" /\ chunk[w] = c}

ChunksOK ==
  /\ total # 0 /\ next <= A!Chunks(total)
  /\ \A c \in jobs : c \in 0 .. next - 1
  /\ \A w \in Workers : at[w] \in {"chunk", "complete"} => chunk[w] \in (0 .. next - 1) \ jobs
  /\ \A w, v \in Workers :
       /\ at[w] \in {"chunk", "complete"} /\ at[v] \in {"chunk", "complete"}
       /\ chunk[w] = chunk[v]
       => w = v
  /\ pieces = Cardinality(Outstanding)

(* The indices of a chunk have been done once if it has been run.          *)
RanOK ==
  /\ ran \in [0 .. total - 1 -> Nat]
  /\ \A c \in 0 .. A!Chunks(total) - 1 : \A i \in A!Indices(c) :
       ran[i] = IF ToRun(c) THEN 0 ELSE 1

LoopOK ==
  /\ LastOK
  /\ ops = 0 /\ called = 0 /\ at[Blocker] = "idle"
  /\ ChunksOK /\ RanOK
  /\ Word => pieces = 0

AwaitInv ==
  /\ AwaitTypes /\ HolderOK /\ ~ early
  /\ Sleeping => SleepOK
  /\ Calling => CallOK
  /\ Looping => LoopOK

AwaitIInv == A!NobodyLate => AwaitInv

-----------------------------------------------------------------------------

LEMMA AwaitsAssumed == A!AwaitsAssumption
BY MCAssumption

LEMMA Division ==
  ASSUME NEW a \in Nat, NEW b \in Nat \ {0}
  PROVE  a \div b \in Nat /\ (a \div b) * b <= a /\ a < (a \div b) * b + b
<1>1. a \div b \in Int
  OBVIOUS
<1>2. (a \div b) * b <= a /\ a < (a \div b) * b + b
  OBVIOUS
<1>3. a \div b >= 0
  BY <1>1, <1>2
<1>4. QED
  BY <1>1, <1>2, <1>3

LEMMA Product ==
  ASSUME NEW a \in Nat, NEW b \in Nat, NEW m \in Nat, a <= b
  PROVE  a * m \in Nat /\ a * m <= b * m
OBVIOUS

LEMMA ChunkFacts ==
  ASSUME NEW n \in Nat \ {0}
  PROVE  /\ A!Chunks(n) \in Nat \ {0} /\ A!Chunks(n) <= MaxChunks /\ A!Chunks(n) <= n
         /\ A!Width(n) \in Nat \ {0} /\ n <= A!Chunks(n) * A!Width(n)
<1>1. /\ A!Chunks(n) \in Nat \ {0} /\ A!Chunks(n) <= MaxChunks /\ A!Chunks(n) <= n
  BY AwaitsAssumed DEF A!AwaitsAssumption, A!Chunks, A!Least
<1> DEFINE k == A!Chunks(n)
           a == n + k - 1
<1>2. a \in Nat /\ A!Width(n) = a \div k
  BY <1>1 DEF A!Width
<1>3. A!Width(n) \in Nat /\ A!Width(n) * k <= a /\ a < A!Width(n) * k + k
  BY <1>1, <1>2, Division
<1>4. n <= A!Width(n) * k
  BY <1>1, <1>3
<1>5. A!Width(n) # 0
  BY <1>4, <1>1
<1>6. A!Width(n) * k = k * A!Width(n)
  BY <1>1, <1>3
<1>7. QED
  BY <1>1, <1>3, <1>4, <1>5, <1>6

(* The chunks share the indices out: each has one chunk. *)
LEMMA Covered ==
  ASSUME total \in Nat \ {0}, NEW i \in 0 .. total - 1
  PROVE  \E c \in 0 .. A!Chunks(total) - 1 : i \in A!Indices(c)
<1> DEFINE m == A!Width(total)
           k == A!Chunks(total)
           c == i \div m
<1>1. m \in Nat \ {0} /\ k \in Nat \ {0} /\ total <= k * m
  BY ChunkFacts
<1>2. c \in Nat /\ c * m <= i /\ i < c * m + m
  <2>1. i \in Nat
    OBVIOUS
  <2>2. QED
    BY <1>1, <2>1, Division
<1>3. c < k
  <2>1. SUFFICES ASSUME k <= c PROVE FALSE
    BY <1>1, <1>2
  <2>2. k * m <= c * m
    BY <1>1, <1>2, <2>1, Product
  <2>3. k * m \in Nat /\ c * m \in Nat
    BY <1>1, <1>2, Product
  <2>4. QED
    BY <1>1, <1>2, <2>2, <2>3
<1>4. c * m \in Nat
  BY <1>1, <1>2, Product
<1>5. i \in A!Indices(c)
  BY <1>1, <1>2, <1>4 DEF A!Indices, A!First, A!Least
<1>6. QED
  BY <1>1, <1>2, <1>3, <1>5

LEMMA Disjoint ==
  ASSUME total \in Nat \ {0}, NEW c \in Nat, NEW d \in Nat,
         NEW i \in A!Indices(c), i \in A!Indices(d)
  PROVE  c = d
<1> DEFINE m == A!Width(total)
<1>1. m \in Nat \ {0}
  BY ChunkFacts
<1>2. ASSUME NEW x \in Nat, i \in A!Indices(x) PROVE x * m \in Nat /\ x * m <= i /\ i < x * m + m
  <2>1. x * m \in Nat
    BY <1>1, Product
  <2>2. QED
    BY <1>1, <1>2, <2>1 DEF A!Indices, A!First, A!Least
<1>3. ASSUME NEW x \in Nat, NEW y \in Nat, i \in A!Indices(x), i \in A!Indices(y), x < y PROVE FALSE
  <2>1. (x + 1) * m <= y * m
    BY <1>1, <1>3, Product
  <2>2. (x + 1) * m = x * m + m
    BY <1>1
  <2>3. x * m \in Nat /\ y * m \in Nat /\ i < x * m + m /\ y * m <= i /\ i \in Int
    BY <1>2, <1>3 DEF A!Indices
  <2>4. x * m + m <= y * m
    BY <2>1, <2>2
  <2>5. QED
    BY <1>1, <2>3, <2>4
<1>4. QED
  BY <1>3

LEMMA IndexFacts ==
  ASSUME total \in Nat \ {0}, NEW c \in Nat, NEW i \in A!Indices(c)
  PROVE  i \in 0 .. total - 1
<1> DEFINE m == A!Width(total)
<1>1. m \in Nat \ {0} /\ c * m \in Nat
  BY ChunkFacts, Product
<1>2. QED
  BY <1>1 DEF A!Indices, A!First, A!Least

LEMMA AwaitPlanFacts ==
  ASSUME AwaitTypes
  PROVE  /\ Len(nPlan.awaits) \in Nat /\ nPlan.workers \subseteq Workers
         /\ \A k \in 1 .. Len(nPlan.awaits) : nPlan.awaits[k] \in {"parallel", "block", "sleep"}
         /\ nPlan.totals \subseteq Nat \ {0}
         /\ MaxChunks \in Nat \ {0} /\ OpRoom \in Nat
         /\ Blocker \notin Workers /\ Watchdog \notin Workers /\ Watchdog # Blocker
BY AwaitsAssumed DEF AwaitTypes, A!TypeOK, A!AwaitsAssumption, A!Plan

LEMMA OutstandingFacts ==
  ASSUME AwaitTypes, total # 0
  PROVE  /\ IsFiniteSet(Outstanding) /\ Cardinality(Outstanding) \in Nat
         /\ Cardinality(Outstanding) <= MaxChunks
<1>1. A!Chunks(total) \in Nat /\ A!Chunks(total) <= MaxChunks /\ MaxChunks \in Nat \ {0}
  BY ChunkFacts, AwaitPlanFacts DEF AwaitTypes
<1>2. Outstanding \subseteq 0 .. MaxChunks - 1
  BY <1>1 DEF Outstanding
<1>3. IsFiniteSet(0 .. MaxChunks - 1) /\ Cardinality(0 .. MaxChunks - 1) = MaxChunks
  <2>1. 0 \in Int /\ MaxChunks - 1 \in Int /\ ~ (0 > MaxChunks - 1) /\ MaxChunks - 1 - 0 + 1 = MaxChunks
    BY <1>1
  <2>2. QED
    BY <2>1, FS_Interval
<1>4. QED
  BY <1>2, <1>3, FS_Subset, FS_CardinalityType

LEMMA InitAwaits == A!Init => AwaitInv
<1> SUFFICES ASSUME A!Init PROVE AwaitInv
  OBVIOUS
<1>1. Len(nPlan.awaits) \in Nat /\ MaxChunks \in Nat \ {0} /\ OpRoom \in Nat
  BY AwaitsAssumed DEF A!Init, A!AwaitsAssumption, A!Plan
<1>2. AwaitTypes
  <2>1. A!NoWait \in [kind : {"none", "timed", "external"}, state : {"none", "preparing", "parked"}]
    BY DEF A!NoWait
  <2>2. /\ begun \in 0 .. Len(nPlan.awaits) /\ pieces \in 0 .. MaxChunks
        /\ ops \in 0 .. OpRoom /\ called \in 0 .. OpRoom + 1
    BY <1>1 DEF A!Init
  <2>3. QED
    BY <2>1, <2>2 DEF A!Init, AwaitTypes, A!TypeOK, A!Threads
<1>3. HolderOK /\ ~ early
  BY DEF A!Init, HolderOK, HasBody, A!Threads
<1>4. SleepOK
  <2>1. DOMAIN ran = {}
    BY DEF A!Init
  <2>2. \A t \in A!Threads : at[t] = "idle"
    BY DEF A!Init
  <2>3. QED
    BY <2>1, <2>2 DEF A!Init, SleepOK, A!NoWait, A!Threads
<1>5. QED
  BY <1>2, <1>3, <1>4 DEF A!Init, AwaitInv, Calling, Looping


(* What the chunks of a loop depend on. *)
ChunksStay ==
  /\ UNCHANGED <<total, next, jobs, chunk, pieces, ran>>
  /\ \A w \in Workers : \A x \in {"chunk", "complete"} : at'[w] = x <=> at[w] = x

LEMMA SameChunks ==
  ASSUME ChunksStay, ChunksOK, RanOK
  PROVE  ChunksOK' /\ RanOK'
<1>1. \A c : ToRun(c)' <=> ToRun(c)
  BY DEF ChunksStay, ToRun
<1>2. Outstanding' = Outstanding
  BY <1>1 DEF ChunksStay, Outstanding
<1>3. ChunksOK'
  BY <1>2 DEF ChunksStay, ChunksOK
<1>4. RanOK'
  BY <1>1 DEF ChunksStay, RanOK, A!Indices, A!First
<1>5. QED
  BY <1>3, <1>4

LEMMA PhaseFacts ==
  ASSUME AwaitTypes, A!NobodyLate
  PROVE  /\ Sleeping \/ Calling \/ Looping
         /\ Calling \/ Looping => begun = Len(nPlan.awaits)
<1>1. begun \in 1 .. Len(nPlan.awaits) => A!Awaited \in {"parallel", "block", "sleep"}
  BY AwaitPlanFacts DEF A!Awaited
<1>2. begun \in 0 .. Len(nPlan.awaits)
  BY DEF AwaitTypes, A!TypeOK
<1>3. DOMAIN nPlan.awaits = 1 .. Len(nPlan.awaits)
  BY AwaitsAssumed DEF AwaitTypes, A!TypeOK, A!AwaitsAssumption, A!Plan
<1>4. QED
  BY <1>1, <1>2, <1>3, AwaitPlanFacts DEF Sleeping, Calling, Looping, A!NobodyLate,
      A!Awaited

LEMMA LaunchedStays ==
  ASSUME NEW w \in Workers, A!NobodyLate, AwaitInv, A!Launched(w)
  PROVE  AwaitInv'
<1> USE AwaitPlanFacts, PhaseFacts
    DEF AwaitInv, A!Threads, A!Launched, A!Preparing, A!Goto, A!node, A!waits, A!loop,
        A!calls, A!flow
<1>1. AwaitTypes'
  BY DEF AwaitTypes, A!TypeOK, HasBody, AtWake, AtChunk
<1>2. HolderOK' /\ ~ early'
  BY DEF AwaitTypes, HolderOK, HasBody
<1>3. Sleeping' = Sleeping /\ Calling' = Calling /\ Looping' = Looping
  BY DEF Sleeping, Calling, Looping, A!Awaited
<1>4. Sleeping => SleepOK'
  BY DEF AwaitTypes, A!TypeOK, SleepOK, HolderOK, HasBody, AtWake
<1>5. Calling => CallOK'
  BY DEF AwaitTypes, A!TypeOK, CallOK, LastOK, Word, AtChunk, AtWake
<1>6. Looping => LoopOK'
  <2>1. ASSUME Looping PROVE ChunksStay
    BY <2>1 DEF ChunksStay, AwaitTypes, LoopOK
  <2>2. QED
    BY <2>1, SameChunks DEF AwaitTypes, A!TypeOK, LoopOK, LastOK, Word, AtWake
<1>7. QED
  BY <1>1, <1>2, <1>3, <1>4, <1>5, <1>6


LEMMA AttachStays ==
  ASSUME NEW w \in Workers, A!NobodyLate, AwaitInv, A!Attach(w)
  PROVE  AwaitInv'
<1> USE AwaitPlanFacts, PhaseFacts
    DEF AwaitInv, A!Threads, A!Attach, A!Goto, A!node, A!waits, A!loop, A!calls, A!flow
<1>1. AwaitTypes'
  BY DEF AwaitTypes, A!TypeOK, HasBody, AtWake, AtChunk
<1>2. HolderOK' /\ ~ early'
  BY DEF AwaitTypes, HolderOK, HasBody
<1>3. Sleeping' = Sleeping /\ Calling' = Calling /\ Looping' = Looping
  BY DEF Sleeping, Calling, Looping, A!Awaited
<1>4. Sleeping => SleepOK'
  BY DEF AwaitTypes, A!TypeOK, SleepOK, HolderOK, HasBody, AtWake
<1>5. Calling => CallOK'
  BY DEF AwaitTypes, A!TypeOK, CallOK, LastOK, Word, AtChunk, AtWake
<1>6. Looping => LoopOK'
  <2>1. ASSUME Looping PROVE ChunksStay
    BY <2>1 DEF ChunksStay, AwaitTypes, LoopOK
  <2>2. QED
    BY <2>1, SameChunks DEF AwaitTypes, A!TypeOK, LoopOK, LastOK, Word, AtWake
<1>7. QED
  BY <1>1, <1>2, <1>3, <1>4, <1>5, <1>6


LEMMA PushedStays ==
  ASSUME NEW w \in Workers, A!NobodyLate, AwaitInv, A!Pushed(w)
  PROVE  AwaitInv'
<1> USE AwaitPlanFacts, PhaseFacts
    DEF AwaitInv, A!Threads, A!Pushed, A!Goto, A!node, A!waits, A!loop, A!calls, A!flow
<1>1. AwaitTypes'
  BY DEF AwaitTypes, A!TypeOK, HasBody, AtWake, AtChunk
<1>2. HolderOK' /\ ~ early'
  BY DEF AwaitTypes, HolderOK, HasBody
<1>3. Sleeping' = Sleeping /\ Calling' = Calling /\ Looping' = Looping
  BY DEF Sleeping, Calling, Looping, A!Awaited
<1>4. Sleeping => SleepOK'
  BY DEF AwaitTypes, A!TypeOK, SleepOK, HolderOK, HasBody, AtWake
<1>5. Calling => CallOK'
  BY DEF AwaitTypes, A!TypeOK, CallOK, LastOK, Word, AtChunk, AtWake
<1>6. Looping => LoopOK'
  <2>1. ASSUME Looping PROVE ChunksStay
    BY <2>1 DEF ChunksStay, AwaitTypes, LoopOK
  <2>2. QED
    BY <2>1, SameChunks DEF AwaitTypes, A!TypeOK, LoopOK, LastOK, Word, AtWake
<1>7. QED
  BY <1>1, <1>2, <1>3, <1>4, <1>5, <1>6


LEMMA SuspendNotedStays ==
  ASSUME NEW w \in Workers, A!NobodyLate, AwaitInv, A!SuspendNoted(w)
  PROVE  AwaitInv'
<1> USE AwaitPlanFacts, PhaseFacts
    DEF AwaitInv, A!Threads, A!SuspendNoted, A!NoWait, A!Goto, A!node, A!waits, A!loop,
        A!calls, A!flow
<1>1. AwaitTypes'
  BY DEF AwaitTypes, A!TypeOK, HasBody, AtWake, AtChunk
<1>2. HolderOK' /\ ~ early'
  BY DEF AwaitTypes, HolderOK, HasBody
<1>3. Sleeping' = Sleeping /\ Calling' = Calling /\ Looping' = Looping
  BY DEF Sleeping, Calling, Looping, A!Awaited
<1>4. Sleeping => SleepOK'
  BY DEF AwaitTypes, A!TypeOK, SleepOK, HolderOK, HasBody, AtWake
<1>5. Calling => CallOK'
  BY DEF AwaitTypes, A!TypeOK, CallOK, LastOK, Word, AtChunk, AtWake
<1>6. Looping => LoopOK'
  <2>1. ASSUME Looping PROVE ChunksStay
    BY <2>1 DEF ChunksStay, AwaitTypes, LoopOK
  <2>2. QED
    BY <2>1, SameChunks DEF AwaitTypes, A!TypeOK, LoopOK, LastOK, Word, AtWake
<1>7. QED
  BY <1>1, <1>2, <1>3, <1>4, <1>5, <1>6


LEMMA RearmStays ==
  ASSUME NEW w \in Workers, A!NobodyLate, AwaitInv, A!Rearm(w)
  PROVE  AwaitInv'
<1> USE AwaitPlanFacts, PhaseFacts
    DEF AwaitInv, A!Threads, A!Rearm, A!Routed, A!Goto, A!node, A!waits, A!loop, A!calls,
        A!flow
<1>1. AwaitTypes'
  BY DEF AwaitTypes, A!TypeOK, HasBody, AtWake, AtChunk
<1>2. HolderOK' /\ ~ early'
  BY DEF AwaitTypes, HolderOK, HasBody
<1>3. Sleeping' = Sleeping /\ Calling' = Calling /\ Looping' = Looping
  BY DEF Sleeping, Calling, Looping, A!Awaited
<1>4. Sleeping => SleepOK'
  BY DEF AwaitTypes, A!TypeOK, SleepOK, HolderOK, HasBody, AtWake
<1>5. Calling => CallOK'
  BY DEF AwaitTypes, A!TypeOK, CallOK, LastOK, Word, AtChunk, AtWake
<1>6. Looping => LoopOK'
  <2>1. ASSUME Looping PROVE ChunksStay
    BY <2>1 DEF ChunksStay, AwaitTypes, LoopOK
  <2>2. QED
    BY <2>1, SameChunks DEF AwaitTypes, A!TypeOK, LoopOK, LastOK, Word, AtWake
<1>7. QED
  BY <1>1, <1>2, <1>3, <1>4, <1>5, <1>6


LEMMA SuspendCheckStays ==
  ASSUME NEW w \in Workers, A!NobodyLate, AwaitInv, A!SuspendCheck(w)
  PROVE  AwaitInv'
<1> USE AwaitPlanFacts, PhaseFacts
    DEF AwaitInv, A!Threads, A!SuspendCheck, A!Goto, A!node, A!waits, A!loop, A!calls,
        A!flow
<1>1. AwaitTypes'
  BY DEF AwaitTypes, A!TypeOK, HasBody, AtWake, AtChunk
<1>2. HolderOK' /\ ~ early'
  BY DEF AwaitTypes, HolderOK, HasBody
<1>3. Sleeping' = Sleeping /\ Calling' = Calling /\ Looping' = Looping
  BY DEF Sleeping, Calling, Looping, A!Awaited
<1>4. Sleeping => SleepOK'
  BY DEF AwaitTypes, A!TypeOK, SleepOK, HolderOK, HasBody, AtWake
<1>5. Calling => CallOK'
  BY DEF AwaitTypes, A!TypeOK, CallOK, LastOK, Word, AtChunk, AtWake
<1>6. Looping => LoopOK'
  <2>1. ASSUME Looping PROVE ChunksStay
    BY <2>1 DEF ChunksStay, AwaitTypes, LoopOK
  <2>2. QED
    BY <2>1, SameChunks DEF AwaitTypes, A!TypeOK, LoopOK, LastOK, Word, AtWake
<1>7. QED
  BY <1>1, <1>2, <1>3, <1>4, <1>5, <1>6


LEMMA ParkStays ==
  ASSUME NEW w \in Workers, A!NobodyLate, AwaitInv, A!Park(w)
  PROVE  AwaitInv'
<1> USE AwaitPlanFacts, PhaseFacts
    DEF AwaitInv, A!Threads, A!Park, A!Goto, A!node, A!waits, A!loop, A!calls, A!flow
<1>1. AwaitTypes'
  BY DEF AwaitTypes, A!TypeOK, HasBody, AtWake, AtChunk
<1>2. HolderOK' /\ ~ early'
  BY DEF AwaitTypes, HolderOK, HasBody
<1>3. Sleeping' = Sleeping /\ Calling' = Calling /\ Looping' = Looping
  BY DEF Sleeping, Calling, Looping, A!Awaited
<1>4. Sleeping => SleepOK'
  <2> SUFFICES ASSUME Sleeping PROVE SleepOK'
    OBVIOUS
  <2>1. \A v \in Workers : at[v] # "parked"
    BY DEF AwaitTypes, SleepOK, HolderOK, HasBody
  <2>2. nState = "running" /\ ~ ticket /\ wait.state # "parked"
    BY DEF AwaitTypes, SleepOK, HolderOK, HasBody
  <2>3. QED
    BY <2>1, <2>2 DEF AwaitTypes, A!TypeOK, SleepOK, HolderOK, HasBody, AtWake
<1>5. Calling => CallOK'
  BY DEF AwaitTypes, A!TypeOK, CallOK, LastOK, Word, AtChunk, AtWake
<1>6. Looping => LoopOK'
  <2>1. ASSUME Looping PROVE ChunksStay
    BY <2>1 DEF ChunksStay, AwaitTypes, LoopOK
  <2>2. QED
    BY <2>1, SameChunks DEF AwaitTypes, A!TypeOK, LoopOK, LastOK, Word, AtWake
<1>7. QED
  BY <1>1, <1>2, <1>3, <1>4, <1>5, <1>6


LEMMA ParkedStays ==
  ASSUME NEW w \in Workers, A!NobodyLate, AwaitInv, A!Parked(w)
  PROVE  AwaitInv'
<1> USE AwaitPlanFacts, PhaseFacts
    DEF AwaitInv, A!Threads, A!Parked, A!Goto, A!node, A!waits, A!loop, A!calls, A!flow
<1>1. AwaitTypes'
  BY DEF AwaitTypes, A!TypeOK, HasBody, AtWake, AtChunk
<1>2. HolderOK' /\ ~ early'
  BY DEF AwaitTypes, HolderOK, HasBody
<1>3. Sleeping' = Sleeping /\ Calling' = Calling /\ Looping' = Looping
  BY DEF Sleeping, Calling, Looping, A!Awaited
<1>4. Sleeping => SleepOK'
  BY DEF AwaitTypes, A!TypeOK, SleepOK, HolderOK, HasBody, AtWake
<1>5. Calling => CallOK'
  BY DEF AwaitTypes, A!TypeOK, CallOK, LastOK, Word, AtChunk, AtWake
<1>6. Looping => LoopOK'
  <2>1. ASSUME Looping PROVE ChunksStay
    BY <2>1 DEF ChunksStay, AwaitTypes, LoopOK
  <2>2. QED
    BY <2>1, SameChunks DEF AwaitTypes, A!TypeOK, LoopOK, LastOK, Word, AtWake
<1>7. QED
  BY <1>1, <1>2, <1>3, <1>4, <1>5, <1>6


LEMMA RecheckStays ==
  ASSUME NEW w \in Workers, A!NobodyLate, AwaitInv, A!Recheck(w)
  PROVE  AwaitInv'
<1> USE AwaitPlanFacts, PhaseFacts
    DEF AwaitInv, A!Threads, A!Recheck, A!Goto, A!node, A!waits, A!loop, A!calls, A!flow
<1>1. AwaitTypes'
  <2>1. A!TypeOK' /\ chunk' = chunk /\ total' = total /\ next' = next
    BY DEF AwaitTypes, A!TypeOK
  <2>2. PICK to \in HasBody \cup AtWake \cup {"idle"} : at' = [at EXCEPT ![w] = to]
    BY DEF HasBody, AtWake
  <2>3. QED
    BY <2>1, <2>2 DEF AwaitTypes
<1>2. HolderOK' /\ ~ early'
  BY DEF AwaitTypes, HolderOK, HasBody
<1>3. Sleeping' = Sleeping /\ Calling' = Calling /\ Looping' = Looping
  BY DEF Sleeping, Calling, Looping, A!Awaited
<1>4. Sleeping => SleepOK'
  BY DEF AwaitTypes, A!TypeOK, SleepOK, HolderOK, HasBody, AtWake
<1>5. Calling => CallOK'
  BY DEF AwaitTypes, A!TypeOK, CallOK, LastOK, Word, AtChunk, AtWake
<1>6. Looping => LoopOK'
  <2>1. ASSUME Looping PROVE ChunksStay
    BY <2>1 DEF ChunksStay, AwaitTypes, LoopOK
  <2>2. QED
    BY <2>1, SameChunks DEF AwaitTypes, A!TypeOK, LoopOK, LastOK, Word, AtWake
<1>7. QED
  BY <1>1, <1>2, <1>3, <1>4, <1>5, <1>6


LEMMA PushStays ==
  ASSUME NEW w \in Workers, A!NobodyLate, AwaitInv, A!Push(w)
  PROVE  AwaitInv'
<1> USE AwaitPlanFacts, PhaseFacts
    DEF AwaitInv, A!Threads, A!Push, A!Goto, A!node, A!waits, A!loop, A!calls, A!flow
<1>1. AwaitTypes'
  BY DEF AwaitTypes, A!TypeOK, HasBody, AtWake, AtChunk
<1>2. HolderOK' /\ ~ early'
  BY DEF AwaitTypes, HolderOK, HasBody
<1>3. Sleeping' = Sleeping /\ Calling' = Calling /\ Looping' = Looping
  BY DEF Sleeping, Calling, Looping, A!Awaited
<1>4. Sleeping => SleepOK'
  BY DEF AwaitTypes, A!TypeOK, SleepOK, HolderOK, HasBody, AtWake
<1>5. Calling => CallOK'
  BY DEF AwaitTypes, A!TypeOK, CallOK, LastOK, Word, AtChunk, AtWake
<1>6. Looping => LoopOK'
  <2>1. ASSUME Looping PROVE ChunksStay
    BY <2>1 DEF ChunksStay, AwaitTypes, LoopOK
  <2>2. QED
    BY <2>1, SameChunks DEF AwaitTypes, A!TypeOK, LoopOK, LastOK, Word, AtWake
<1>7. QED
  BY <1>1, <1>2, <1>3, <1>4, <1>5, <1>6


LEMMA DrainStays ==
  ASSUME NEW w \in Workers, A!NobodyLate, AwaitInv, A!Drain(w)
  PROVE  AwaitInv'
<1> USE AwaitPlanFacts, PhaseFacts
    DEF AwaitInv, A!Threads, A!Drain, A!Goto, A!node, A!waits, A!loop, A!calls, A!flow
<1>1. AwaitTypes'
  <2>1. A!TypeOK' /\ chunk' = chunk /\ total' = total /\ next' = next
    BY DEF AwaitTypes, A!TypeOK
  <2>2. PICK to \in HasBody \cup AtWake \cup {"idle"} : at' = [at EXCEPT ![w] = to]
    BY DEF HasBody, AtWake
  <2>3. QED
    BY <2>1, <2>2 DEF AwaitTypes
<1>2. HolderOK' /\ ~ early'
  BY DEF AwaitTypes, HolderOK, HasBody
<1>3. Sleeping' = Sleeping /\ Calling' = Calling /\ Looping' = Looping
  BY DEF Sleeping, Calling, Looping, A!Awaited
<1>4. Sleeping => SleepOK'
  BY DEF AwaitTypes, A!TypeOK, SleepOK, HolderOK, HasBody, AtWake
<1>5. Calling => CallOK'
  BY DEF AwaitTypes, A!TypeOK, CallOK, LastOK, Word, AtChunk, AtWake
<1>6. Looping => LoopOK'
  <2>1. ASSUME Looping PROVE ChunksStay
    BY <2>1 DEF ChunksStay, AwaitTypes, LoopOK
  <2>2. QED
    BY <2>1, SameChunks DEF AwaitTypes, A!TypeOK, LoopOK, LastOK, Word, AtWake
<1>7. QED
  BY <1>1, <1>2, <1>3, <1>4, <1>5, <1>6


LEMMA ReturnStays ==
  ASSUME NEW w \in Workers, A!NobodyLate, AwaitInv, A!Return(w)
  PROVE  AwaitInv'
<1> USE AwaitPlanFacts, PhaseFacts
    DEF AwaitInv, A!Threads, A!Return, A!NoWait, A!Goto, A!node, A!waits, A!loop,
        A!calls, A!flow
<1>1. AwaitTypes'
  BY DEF AwaitTypes, A!TypeOK, HasBody, AtWake, AtChunk
<1>2. HolderOK' /\ ~ early'
  BY DEF AwaitTypes, HolderOK, HasBody
<1>3. Sleeping' = Sleeping /\ Calling' = Calling /\ Looping' = Looping
  BY DEF Sleeping, Calling, Looping, A!Awaited
<1>4. Sleeping => SleepOK'
  BY DEF AwaitTypes, A!TypeOK, SleepOK, HolderOK, HasBody, AtWake
<1>5. Calling => CallOK'
  BY DEF AwaitTypes, A!TypeOK, CallOK, LastOK, Word, AtChunk, AtWake
<1>6. Looping => LoopOK'
  <2>1. ASSUME Looping PROVE ChunksStay
    BY <2>1 DEF ChunksStay, AwaitTypes, LoopOK
  <2>2. QED
    BY <2>1, SameChunks DEF AwaitTypes, A!TypeOK, LoopOK, LastOK, Word, AtWake
<1>7. QED
  BY <1>1, <1>2, <1>3, <1>4, <1>5, <1>6


LEMMA WakeStays ==
  ASSUME NEW t \in A!Threads, A!NobodyLate, AwaitInv, A!Wake(t)
  PROVE  AwaitInv'
<1> USE AwaitPlanFacts, PhaseFacts
    DEF AwaitInv, A!Threads, A!Wake, A!NoWait, A!Goto, A!Swap, A!node, A!waits, A!loop,
        A!calls, A!flow
<1>1. AwaitTypes'
  BY DEF AwaitTypes, A!TypeOK, HasBody, AtWake, AtChunk
<1>2. HolderOK' /\ ~ early'
  BY DEF AwaitTypes, HolderOK, HasBody
<1>3. Sleeping' = Sleeping /\ Calling' = Calling /\ Looping' = Looping
  BY DEF Sleeping, Calling, Looping, A!Awaited
<1>4. Sleeping => SleepOK'
  BY DEF AwaitTypes, A!TypeOK, SleepOK, HolderOK, HasBody, AtWake
<1>5. Calling => CallOK'
  BY DEF AwaitTypes, A!TypeOK, CallOK, LastOK, Word, AtChunk, AtWake
<1>6. Looping => LoopOK'
  <2>1. ASSUME Looping PROVE ChunksStay
    BY <2>1 DEF ChunksStay, AwaitTypes, LoopOK
  <2>2. QED
    BY <2>1, SameChunks DEF AwaitTypes, A!TypeOK, LoopOK, LastOK, Word, AtWake
<1>7. QED
  BY <1>1, <1>2, <1>3, <1>4, <1>5, <1>6


LEMMA WakeRouteStays ==
  ASSUME NEW t \in A!Threads, A!NobodyLate, AwaitInv, A!WakeRoute(t)
  PROVE  AwaitInv'
<1> USE AwaitPlanFacts, PhaseFacts
    DEF AwaitInv, A!Threads, A!WakeRoute, A!Routed, A!NoWait, A!Goto, A!node, A!waits,
        A!loop, A!calls, A!flow
<1>1. AwaitTypes'
  BY DEF AwaitTypes, A!TypeOK, HasBody, AtWake, AtChunk
<1>2. HolderOK' /\ ~ early'
  BY DEF AwaitTypes, HolderOK, HasBody
<1>3. Sleeping' = Sleeping /\ Calling' = Calling /\ Looping' = Looping
  BY DEF Sleeping, Calling, Looping, A!Awaited
<1>4. Sleeping => SleepOK'
  BY DEF AwaitTypes, A!TypeOK, SleepOK, HolderOK, HasBody, AtWake
<1>5. Calling => CallOK'
  BY DEF AwaitTypes, A!TypeOK, CallOK, LastOK, Word, AtChunk, AtWake
<1>6. Looping => LoopOK'
  <2>1. ASSUME Looping PROVE ChunksStay
    BY <2>1 DEF ChunksStay, AwaitTypes, LoopOK
  <2>2. QED
    BY <2>1, SameChunks DEF AwaitTypes, A!TypeOK, LoopOK, LastOK, Word, AtWake
<1>7. QED
  BY <1>1, <1>2, <1>3, <1>4, <1>5, <1>6


LEMMA WakeMissedStays ==
  ASSUME NEW t \in A!Threads, A!NobodyLate, AwaitInv, A!WakeMissed(t)
  PROVE  AwaitInv'
<1> USE AwaitPlanFacts, PhaseFacts
    DEF AwaitInv, A!Threads, A!WakeMissed, A!NoWait, A!Goto, A!Swap, A!node, A!waits,
        A!loop, A!calls, A!flow
<1>1. AwaitTypes'
  BY DEF AwaitTypes, A!TypeOK, HasBody, AtWake, AtChunk
<1>2. HolderOK' /\ ~ early'
  BY DEF AwaitTypes, HolderOK, HasBody
<1>3. Sleeping' = Sleeping /\ Calling' = Calling /\ Looping' = Looping
  BY DEF Sleeping, Calling, Looping, A!Awaited
<1>4. Sleeping => SleepOK'
  BY DEF AwaitTypes, A!TypeOK, SleepOK, HolderOK, HasBody, AtWake
<1>5. Calling => CallOK'
  BY DEF AwaitTypes, A!TypeOK, CallOK, LastOK, Word, AtChunk, AtWake
<1>6. Looping => LoopOK'
  <2>1. ASSUME Looping PROVE ChunksStay
    BY <2>1 DEF ChunksStay, AwaitTypes, LoopOK
  <2>2. QED
    BY <2>1, SameChunks DEF AwaitTypes, A!TypeOK, LoopOK, LastOK, Word, AtWake
<1>7. QED
  BY <1>1, <1>2, <1>3, <1>4, <1>5, <1>6


LEMMA WakeLookStays ==
  ASSUME NEW t \in A!Threads, A!NobodyLate, AwaitInv, A!WakeLook(t)
  PROVE  AwaitInv'
<1> USE AwaitPlanFacts, PhaseFacts
    DEF AwaitInv, A!Threads, A!WakeLook, A!NoWait, A!Goto, A!Swap, A!node, A!waits,
        A!loop, A!calls, A!flow
<1>1. AwaitTypes'
  BY DEF AwaitTypes, A!TypeOK, HasBody, AtWake, AtChunk
<1>2. HolderOK' /\ ~ early'
  BY DEF AwaitTypes, HolderOK, HasBody
<1>3. Sleeping' = Sleeping /\ Calling' = Calling /\ Looping' = Looping
  BY DEF Sleeping, Calling, Looping, A!Awaited
<1>4. Sleeping => SleepOK'
  BY DEF AwaitTypes, A!TypeOK, SleepOK, HolderOK, HasBody, AtWake
<1>5. Calling => CallOK'
  BY DEF AwaitTypes, A!TypeOK, CallOK, LastOK, Word, AtChunk, AtWake
<1>6. Looping => LoopOK'
  <2>1. ASSUME Looping PROVE ChunksStay
    BY <2>1 DEF ChunksStay, AwaitTypes, LoopOK
  <2>2. QED
    BY <2>1, SameChunks DEF AwaitTypes, A!TypeOK, LoopOK, LastOK, Word, AtWake
<1>7. QED
  BY <1>1, <1>2, <1>3, <1>4, <1>5, <1>6


LEMMA WakeNoteStays ==
  ASSUME NEW t \in A!Threads, A!NobodyLate, AwaitInv, A!WakeNote(t)
  PROVE  AwaitInv'
<1> USE AwaitPlanFacts, PhaseFacts
    DEF AwaitInv, A!Threads, A!WakeNote, A!NoWait, A!Goto, A!Swap, A!node, A!waits,
        A!loop, A!calls, A!flow
<1>1. AwaitTypes'
  BY DEF AwaitTypes, A!TypeOK, HasBody, AtWake, AtChunk
<1>2. HolderOK' /\ ~ early'
  BY DEF AwaitTypes, HolderOK, HasBody
<1>3. Sleeping' = Sleeping /\ Calling' = Calling /\ Looping' = Looping
  BY DEF Sleeping, Calling, Looping, A!Awaited
<1>4. Sleeping => SleepOK'
  BY DEF AwaitTypes, A!TypeOK, SleepOK, HolderOK, HasBody, AtWake
<1>5. Calling => CallOK'
  BY DEF AwaitTypes, A!TypeOK, CallOK, LastOK, Word, AtChunk, AtWake
<1>6. Looping => LoopOK'
  <2>1. ASSUME Looping PROVE ChunksStay
    BY <2>1 DEF ChunksStay, AwaitTypes, LoopOK
  <2>2. QED
    BY <2>1, SameChunks DEF AwaitTypes, A!TypeOK, LoopOK, LastOK, Word, AtWake
<1>7. QED
  BY <1>1, <1>2, <1>3, <1>4, <1>5, <1>6


LEMMA ScanStateStays ==
  ASSUME A!NobodyLate, AwaitInv, A!ScanState
  PROVE  AwaitInv'
<1> USE AwaitPlanFacts, PhaseFacts
    DEF AwaitInv, A!Threads, A!ScanState, A!Goto, A!node, A!waits, A!loop, A!calls, A!flow
<1>1. AwaitTypes'
  BY DEF AwaitTypes, A!TypeOK, HasBody, AtWake, AtChunk
<1>2. HolderOK' /\ ~ early'
  BY DEF AwaitTypes, HolderOK, HasBody
<1>3. Sleeping' = Sleeping /\ Calling' = Calling /\ Looping' = Looping
  BY DEF Sleeping, Calling, Looping, A!Awaited
<1>4. Sleeping => SleepOK'
  BY DEF AwaitTypes, A!TypeOK, SleepOK, HolderOK, HasBody, AtWake
<1>5. Calling => CallOK'
  BY DEF AwaitTypes, A!TypeOK, CallOK, LastOK, Word, AtChunk, AtWake
<1>6. Looping => LoopOK'
  <2>1. ASSUME Looping PROVE ChunksStay
    BY <2>1 DEF ChunksStay, AwaitTypes, LoopOK
  <2>2. QED
    BY <2>1, SameChunks DEF AwaitTypes, A!TypeOK, LoopOK, LastOK, Word, AtWake
<1>7. QED
  BY <1>1, <1>2, <1>3, <1>4, <1>5, <1>6


LEMMA ScanKindStays ==
  ASSUME A!NobodyLate, AwaitInv, A!ScanKind
  PROVE  AwaitInv'
<1> USE AwaitPlanFacts, PhaseFacts
    DEF AwaitInv, A!Threads, A!ScanKind, A!Goto, A!node, A!waits, A!loop, A!calls, A!flow
<1>1. AwaitTypes'
  BY DEF AwaitTypes, A!TypeOK, HasBody, AtWake, AtChunk
<1>2. HolderOK' /\ ~ early'
  BY DEF AwaitTypes, HolderOK, HasBody
<1>3. Sleeping' = Sleeping /\ Calling' = Calling /\ Looping' = Looping
  BY DEF Sleeping, Calling, Looping, A!Awaited
<1>4. Sleeping => SleepOK'
  BY DEF AwaitTypes, A!TypeOK, SleepOK, HolderOK, HasBody, AtWake
<1>5. Calling => CallOK'
  BY DEF AwaitTypes, A!TypeOK, CallOK, LastOK, Word, AtChunk, AtWake
<1>6. Looping => LoopOK'
  <2>1. ASSUME Looping PROVE ChunksStay
    BY <2>1 DEF ChunksStay, AwaitTypes, LoopOK
  <2>2. QED
    BY <2>1, SameChunks DEF AwaitTypes, A!TypeOK, LoopOK, LastOK, Word, AtWake
<1>7. QED
  BY <1>1, <1>2, <1>3, <1>4, <1>5, <1>6


LEMMA ScanDueStays ==
  ASSUME A!NobodyLate, AwaitInv, A!ScanDue
  PROVE  AwaitInv'
<1> USE AwaitPlanFacts, PhaseFacts
    DEF AwaitInv, A!Threads, A!ScanDue, A!Goto, A!node, A!waits, A!loop, A!calls, A!flow
<1>1. AwaitTypes'
  BY DEF AwaitTypes, A!TypeOK, HasBody, AtWake, AtChunk
<1>2. HolderOK' /\ ~ early'
  BY DEF AwaitTypes, HolderOK, HasBody
<1>3. Sleeping' = Sleeping /\ Calling' = Calling /\ Looping' = Looping
  BY DEF Sleeping, Calling, Looping, A!Awaited
<1>4. Sleeping => SleepOK'
  BY DEF AwaitTypes, A!TypeOK, SleepOK, HolderOK, HasBody, AtWake
<1>5. Calling => CallOK'
  BY DEF AwaitTypes, A!TypeOK, CallOK, LastOK, Word, AtChunk, AtWake
<1>6. Looping => LoopOK'
  <2>1. ASSUME Looping PROVE ChunksStay
    BY <2>1 DEF ChunksStay, AwaitTypes, LoopOK
  <2>2. QED
    BY <2>1, SameChunks DEF AwaitTypes, A!TypeOK, LoopOK, LastOK, Word, AtWake
<1>7. QED
  BY <1>1, <1>2, <1>3, <1>4, <1>5, <1>6


LEMMA PopOpStays ==
  ASSUME A!NobodyLate, AwaitInv, A!PopOp
  PROVE  AwaitInv'
<1> USE AwaitPlanFacts, PhaseFacts
    DEF AwaitInv, A!Threads, A!PopOp, A!Goto, A!node, A!waits, A!loop, A!calls, A!flow
<1>1. AwaitTypes'
  BY DEF AwaitTypes, A!TypeOK, HasBody, AtWake, AtChunk
<1>2. HolderOK' /\ ~ early'
  BY DEF AwaitTypes, HolderOK, HasBody
<1>3. Sleeping' = Sleeping /\ Calling' = Calling /\ Looping' = Looping
  BY DEF Sleeping, Calling, Looping, A!Awaited
<1>4. Sleeping => SleepOK'
  BY DEF AwaitTypes, A!TypeOK, SleepOK, HolderOK, HasBody, AtWake
<1>5. Calling => CallOK'
  BY DEF AwaitTypes, A!TypeOK, CallOK, LastOK, Word, AtChunk, AtWake
<1>6. Looping => LoopOK'
  <2>1. ASSUME Looping PROVE ChunksStay
    BY <2>1 DEF ChunksStay, AwaitTypes, LoopOK
  <2>2. QED
    BY <2>1, SameChunks DEF AwaitTypes, A!TypeOK, LoopOK, LastOK, Word, AtWake
<1>7. QED
  BY <1>1, <1>2, <1>3, <1>4, <1>5, <1>6


LEMMA RunOpStays ==
  ASSUME A!NobodyLate, AwaitInv, A!RunOp
  PROVE  AwaitInv'
<1> USE AwaitPlanFacts, PhaseFacts
    DEF AwaitInv, A!Threads, A!RunOp, A!Goto, A!node, A!waits, A!loop, A!calls, A!flow
<1>1. AwaitTypes'
  <2>1. at[Blocker] = "op"
    OBVIOUS
  <2>2. Calling /\ called = 1
    BY <2>1 DEF AwaitTypes, A!TypeOK, SleepOK, CallOK, LoopOK
  <2>3. called' \in 0 .. OpRoom + 1
    BY <2>2
  <2>4. QED
    BY <2>3 DEF AwaitTypes, A!TypeOK, HasBody, AtWake, AtChunk
<1>2. HolderOK' /\ ~ early'
  BY DEF AwaitTypes, HolderOK, HasBody
<1>3. Sleeping' = Sleeping /\ Calling' = Calling /\ Looping' = Looping
  BY DEF Sleeping, Calling, Looping, A!Awaited
<1>4. Sleeping => SleepOK'
  BY DEF AwaitTypes, A!TypeOK, SleepOK, HolderOK, HasBody, AtWake
<1>5. Calling => CallOK'
  BY DEF AwaitTypes, A!TypeOK, CallOK, LastOK, Word, AtChunk, AtWake
<1>6. Looping => LoopOK'
  <2>1. ASSUME Looping PROVE ChunksStay
    BY <2>1 DEF ChunksStay, AwaitTypes, LoopOK
  <2>2. QED
    BY <2>1, SameChunks DEF AwaitTypes, A!TypeOK, LoopOK, LastOK, Word, AtWake
<1>7. QED
  BY <1>1, <1>2, <1>3, <1>4, <1>5, <1>6


LEMMA DestroyStays ==
  ASSUME A!NobodyLate, AwaitInv, A!Destroy
  PROVE  AwaitInv'
<1> USE AwaitPlanFacts, PhaseFacts
    DEF AwaitInv, A!Threads, A!Destroy, A!node, A!waits, A!loop, A!calls, A!flow
<1>1. AwaitTypes'
  BY DEF AwaitTypes, A!TypeOK, HasBody, AtWake, AtChunk
<1>2. HolderOK' /\ ~ early'
  BY DEF AwaitTypes, HolderOK, HasBody
<1>3. Sleeping' = Sleeping /\ Calling' = Calling /\ Looping' = Looping
  BY DEF Sleeping, Calling, Looping, A!Awaited
<1>4. Sleeping => SleepOK'
  BY DEF AwaitTypes, A!TypeOK, SleepOK, HolderOK, HasBody, AtWake
<1>5. Calling => CallOK'
  BY DEF AwaitTypes, A!TypeOK, CallOK, LastOK, Word, AtChunk, AtWake
<1>6. Looping => LoopOK'
  <2>1. ASSUME Looping PROVE ChunksStay
    BY <2>1 DEF ChunksStay, AwaitTypes, LoopOK
  <2>2. QED
    BY <2>1, SameChunks DEF AwaitTypes, A!TypeOK, LoopOK, LastOK, Word, AtWake
<1>7. QED
  BY <1>1, <1>2, <1>3, <1>4, <1>5, <1>6


LEMMA AbandonStays ==
  ASSUME A!NobodyLate, AwaitInv, A!Abandon
  PROVE  AwaitInv'
<1> USE AwaitPlanFacts, PhaseFacts
    DEF AwaitInv, A!Threads, A!Abandon, A!node, A!waits, A!loop, A!calls, A!flow
<1>1. AwaitTypes'
  BY DEF AwaitTypes, A!TypeOK, HasBody, AtWake, AtChunk
<1>2. HolderOK' /\ ~ early'
  BY DEF AwaitTypes, HolderOK, HasBody
<1>3. Sleeping' = Sleeping /\ Calling' = Calling /\ Looping' = Looping
  BY DEF Sleeping, Calling, Looping, A!Awaited
<1>4. Sleeping => SleepOK'
  BY DEF AwaitTypes, A!TypeOK, SleepOK, HolderOK, HasBody, AtWake
<1>5. Calling => CallOK'
  BY DEF AwaitTypes, A!TypeOK, CallOK, LastOK, Word, AtChunk, AtWake
<1>6. Looping => LoopOK'
  <2>1. ASSUME Looping PROVE ChunksStay
    BY <2>1 DEF ChunksStay, AwaitTypes, LoopOK
  <2>2. QED
    BY <2>1, SameChunks DEF AwaitTypes, A!TypeOK, LoopOK, LastOK, Word, AtWake
<1>7. QED
  BY <1>1, <1>2, <1>3, <1>4, <1>5, <1>6


LEMMA TickStays ==
  ASSUME A!NobodyLate, AwaitInv, A!Tick
  PROVE  AwaitInv'
<1> USE AwaitPlanFacts, PhaseFacts
    DEF AwaitInv, A!Threads, A!Tick, A!node, A!waits, A!loop, A!calls, A!flow
<1>1. AwaitTypes'
  BY DEF AwaitTypes, A!TypeOK, HasBody, AtWake, AtChunk
<1>2. HolderOK' /\ ~ early'
  BY DEF AwaitTypes, HolderOK, HasBody
<1>3. Sleeping' = Sleeping /\ Calling' = Calling /\ Looping' = Looping
  BY DEF Sleeping, Calling, Looping, A!Awaited
<1>4. Sleeping => SleepOK'
  BY DEF AwaitTypes, A!TypeOK, SleepOK, HolderOK, HasBody, AtWake
<1>5. Calling => CallOK'
  BY DEF AwaitTypes, A!TypeOK, CallOK, LastOK, Word, AtChunk, AtWake
<1>6. Looping => LoopOK'
  <2>1. ASSUME Looping PROVE ChunksStay
    BY <2>1 DEF ChunksStay, AwaitTypes, LoopOK
  <2>2. QED
    BY <2>1, SameChunks DEF AwaitTypes, A!TypeOK, LoopOK, LastOK, Word, AtWake
<1>7. QED
  BY <1>1, <1>2, <1>3, <1>4, <1>5, <1>6

(* The body begins an await after nothing but sleeps. *)
LEMMA AtBegin ==
  ASSUME A!NobodyLate, AwaitInv, NEW w \in Workers, at[w] = "body", begun < Len(nPlan.awaits)
  PROVE  /\ SleepOK /\ nState = "running" /\ ~ ticket
         /\ wait.kind = "none" /\ at[Watchdog] = "idle" /\ at[Blocker] = "idle"
         /\ \A v \in Workers : v # w => at[v] \in {"idle", "recheck"}
         /\ begun \in Nat /\ begun + 1 \in 1 .. Len(nPlan.awaits)
<1>1. begun \in Nat /\ Len(nPlan.awaits) \in Nat
  BY AwaitPlanFacts DEF AwaitInv, AwaitTypes, A!TypeOK
<1>2. SleepOK
  BY <1>1, PhaseFacts DEF AwaitInv
<1>3. nState = "running"
  BY DEF AwaitInv, HolderOK, HasBody
<1>4. \A v \in Workers : v # w => at[v] \in {"idle", "recheck"}
  <2> TAKE v \in Workers
  <2> HAVE v # w
  <2>1. at[v] \notin {"body", "suspend", "park"}
    BY DEF AwaitInv, HolderOK, HasBody
  <2>2. at[v] # "parked"
    BY <1>2, <1>3 DEF SleepOK
  <2>3. QED
    BY <1>2, <2>1, <2>2 DEF SleepOK
<1>5. QED
  BY <1>1, <1>2, <1>3, <1>4 DEF SleepOK

LEMMA BeginsOne ==
  ASSUME A!NobodyLate, AwaitInv, NEW w \in Workers, NEW k, NEW s, A!Begins(w, k, s), nPlan' = nPlan,
         k \in {"parallel", "block", "sleep"}
  PROVE  /\ at[w] = "body" /\ begun < Len(nPlan.awaits) /\ at' = [at EXCEPT ![w] = s]
         /\ begun' = begun + 1 /\ A!Awaited' = k /\ Len(nPlan'.awaits) = Len(nPlan.awaits)
         /\ k # "sleep" => begun' = Len(nPlan'.awaits)
<1>1. DOMAIN nPlan.awaits = 1 .. Len(nPlan.awaits)
  BY AwaitsAssumed DEF AwaitInv, AwaitTypes, A!TypeOK, A!AwaitsAssumption, A!Plan
<1>2. begun + 1 \in 1 .. Len(nPlan.awaits)
  BY AtBegin DEF A!Begins, A!Goto
<1>3. QED
  BY <1>1, <1>2 DEF A!Begins, A!Goto, A!Awaited, A!NobodyLate

LEMMA BeginParallelStays ==
  ASSUME NEW w \in Workers, A!NobodyLate, AwaitInv, A!BeginParallel(w)
  PROVE  AwaitInv'
<1> USE DEF AwaitInv, A!Threads, A!node, A!waits, A!calls
<1>1. PICK n \in nPlan.totals : total' = n /\ pieces' = A!Chunks(n) /\ ran' = [i \in 0 .. n - 1 |-> 0]
  BY DEF A!BeginParallel
<1>2. /\ at[w] = "body" /\ begun < Len(nPlan.awaits) /\ at' = [at EXCEPT ![w] = "launch"]
      /\ begun' = begun + 1 /\ A!Awaited' = "parallel" /\ begun' = Len(nPlan'.awaits)
      /\ Len(nPlan'.awaits) = Len(nPlan.awaits)
  <2>1. A!Begins(w, "parallel", "launch") /\ nPlan' = nPlan
    BY DEF A!BeginParallel
  <2>2. QED
    BY <2>1, BeginsOne
<1>3. /\ SleepOK /\ nState = "running" /\ ~ ticket
      /\ wait.kind = "none" /\ at[Watchdog] = "idle" /\ at[Blocker] = "idle"
      /\ \A v \in Workers : v # w => at[v] \in {"idle", "recheck"}
      /\ begun \in Nat /\ begun + 1 \in 1 .. Len(nPlan.awaits)
  BY <1>2, AtBegin
<1>4. n \in Nat \ {0} /\ A!Chunks(n) \in Nat \ {0} /\ A!Chunks(n) <= MaxChunks
  BY AwaitPlanFacts, ChunkFacts
<1>5. at'[Watchdog] = "idle" /\ at'[Blocker] = "idle"
  BY <1>2, <1>3, AwaitPlanFacts DEF AwaitTypes
<1>6. AwaitTypes'
  <2>1. A!TypeOK'
    <3>1. pieces' \in 0 .. MaxChunks
      BY <1>1, <1>4, AwaitPlanFacts
    <3>2. begun' \in 0 .. Len(nPlan'.awaits)
      BY <1>2, <1>3
    <3>3. QED
      BY <3>1, <3>2 DEF A!BeginParallel, AwaitTypes, A!TypeOK
  <2>2. /\ at' \in [A!Threads -> HasBody \cup AtWake \cup AtChunk
                               \cup {"idle", "parked", "recheck", "op", "kind", "due"}]
    BY <1>2 DEF AwaitTypes, HasBody
  <2>3. chunk' \in [Workers -> Nat] /\ total' \in Nat /\ next' \in Nat
    BY <1>1, <1>4 DEF A!BeginParallel, AwaitTypes
  <2>4. QED
    BY <1>5, <2>1, <2>2, <2>3 DEF AwaitTypes
<1>7. HolderOK' /\ ~ early'
  BY <1>2, <1>3 DEF A!BeginParallel, AwaitTypes, HolderOK, HasBody
<1>8. Looping' /\ ~ Calling' /\ ~ Sleeping'
  BY <1>2, <1>3 DEF Looping, Calling, Sleeping
<1>9. \A v \in Workers : at'[v] \in {"idle", "recheck", "launch"}
  BY <1>2, <1>3 DEF AwaitTypes
<1>10. LoopOK'
  <2>1. LastOK' /\ ops' = 0 /\ called' = 0 /\ at'[Blocker] = "idle"
    BY <1>2, <1>3, <1>5 DEF A!BeginParallel, LastOK, SleepOK
  <2>2. next' = 0 /\ jobs' = {}
    BY <1>3 DEF A!BeginParallel, SleepOK
  <2>3. \A c \in 0 .. A!Chunks(n) - 1 : ToRun(c)'
    BY <2>2 DEF ToRun
  <2>4. Outstanding' = 0 .. A!Chunks(n) - 1
    BY <1>1, <2>3 DEF Outstanding
  <2>5. Cardinality(0 .. A!Chunks(n) - 1) = A!Chunks(n)
    <3>1. 0 \in Int /\ A!Chunks(n) - 1 \in Int /\ ~ (0 > A!Chunks(n) - 1) /\ A!Chunks(n) - 1 - 0 + 1 = A!Chunks(n)
      BY <1>4
    <3>2. QED
      BY <3>1, FS_Interval
  <2>6. ChunksOK'
    BY <1>1, <1>4, <1>9, <2>2, <2>4, <2>5 DEF ChunksOK
  <2>7. RanOK'
    <3>1. ran' \in [0 .. n - 1 -> Nat]
      BY <1>1
    <3>2. ASSUME NEW c \in 0 .. A!Chunks(n) - 1, NEW i \in A!Indices(c)' PROVE ran'[i] = 0
      <4> DEFINE m == A!Width(n)
      <4>1. m \in Nat /\ c * m \in Nat
        BY <1>4, ChunkFacts, Product
      <4>2. i \in c * m .. A!Least(c * m + m, n) - 1
        BY <1>1, <3>2 DEF A!Indices, A!First
      <4>3. i \in 0 .. n - 1
        BY <1>4, <4>1, <4>2 DEF A!Least
      <4>4. QED
        BY <1>1, <4>3
    <3>3. QED
      BY <1>1, <2>3, <3>1, <3>2 DEF RanOK
  <2>8. ~ Word'
    BY <1>3, <1>5, <1>9 DEF Word, SleepOK, A!BeginParallel, AtWake
  <2>9. QED
    BY <2>1, <2>6, <2>7, <2>8 DEF LoopOK
<1>11. QED
  BY <1>6, <1>7, <1>8, <1>10

LEMMA BeginSleepStays ==
  ASSUME NEW w \in Workers, A!NobodyLate, AwaitInv, A!BeginSleep(w)
  PROVE  AwaitInv'
<1> USE DEF AwaitInv, A!Threads, A!node, A!calls, A!loop
<1>1. /\ at[w] = "body" /\ begun < Len(nPlan.awaits) /\ at' = [at EXCEPT ![w] = "suspend"]
      /\ begun' = begun + 1 /\ A!Awaited' = "sleep" /\ Len(nPlan'.awaits) = Len(nPlan.awaits)
  <2>1. A!Begins(w, "sleep", "suspend") /\ nPlan' = nPlan
    BY DEF A!BeginSleep
  <2>2. QED
    BY <2>1, BeginsOne
<1>2. /\ SleepOK /\ nState = "running" /\ ~ ticket
      /\ wait.kind = "none" /\ at[Watchdog] = "idle" /\ at[Blocker] = "idle"
      /\ \A v \in Workers : v # w => at[v] \in {"idle", "recheck"}
      /\ begun \in Nat /\ begun + 1 \in 1 .. Len(nPlan.awaits)
  BY <1>1, AtBegin
<1>3. at'[Watchdog] = "idle" /\ at'[Blocker] = "idle"
  BY <1>1, <1>2, AwaitPlanFacts DEF AwaitTypes
<1>4. AwaitTypes'
  <2>1. A!TypeOK'
    <3>1. wait' \in [kind : {"none", "timed", "external"}, state : {"none", "preparing", "parked"}]
      BY DEF A!BeginSleep, A!Preparing
    <3>2. begun' \in 0 .. Len(nPlan'.awaits)
      BY <1>1, <1>2
    <3>3. QED
      BY <3>1, <3>2 DEF A!BeginSleep, AwaitTypes, A!TypeOK
  <2>2. /\ at' \in [A!Threads -> HasBody \cup AtWake \cup AtChunk
                               \cup {"idle", "parked", "recheck", "op", "kind", "due"}]
    BY <1>1 DEF AwaitTypes, HasBody
  <2>3. QED
    BY <1>3, <2>1, <2>2 DEF A!BeginSleep, AwaitTypes
<1>5. HolderOK' /\ ~ early'
  BY <1>1, <1>2 DEF A!BeginSleep, AwaitTypes, HolderOK, HasBody
<1>6. Sleeping' /\ ~ Calling' /\ ~ Looping'
  BY <1>1, <1>2 DEF Looping, Calling, Sleeping
<1>7. SleepOK'
  <2>1. \A v \in Workers : at'[v] \in {"idle", "recheck", "suspend"}
    BY <1>1, <1>2 DEF AwaitTypes
  <2>2. wait'.state = "preparing" /\ nState' = "running" /\ ~ ticket'
    BY <1>2 DEF A!BeginSleep, A!Preparing
  <2>3. QED
    BY <1>2, <1>3, <2>1, <2>2 DEF A!BeginSleep, SleepOK
<1>8. QED
  BY <1>4, <1>5, <1>6, <1>7

LEMMA BeginBlockStays ==
  ASSUME NEW w \in Workers, A!NobodyLate, AwaitInv, A!BeginBlock(w)
  PROVE  AwaitInv'
<1> USE DEF AwaitInv, A!Threads, A!node, A!calls, A!loop
<1>1. /\ at[w] = "body" /\ begun < Len(nPlan.awaits) /\ at' = [at EXCEPT ![w] = "suspend"]
      /\ begun' = begun + 1 /\ A!Awaited' = "block" /\ Len(nPlan'.awaits) = Len(nPlan.awaits)
      /\ begun' = Len(nPlan'.awaits)
  <2>1. A!Begins(w, "block", "suspend") /\ nPlan' = nPlan
    BY DEF A!BeginBlock
  <2>2. QED
    BY <2>1, BeginsOne
<1>2. /\ SleepOK /\ nState = "running" /\ ~ ticket
      /\ wait.kind = "none" /\ at[Watchdog] = "idle" /\ at[Blocker] = "idle"
      /\ \A v \in Workers : v # w => at[v] \in {"idle", "recheck"}
      /\ begun \in Nat /\ begun + 1 \in 1 .. Len(nPlan.awaits)
  BY <1>1, AtBegin
<1>3. at'[Watchdog] = "idle" /\ at'[Blocker] = "idle"
  BY <1>1, <1>2, AwaitPlanFacts DEF AwaitTypes
<1>4. ops = 0 /\ called = 0
  BY <1>2 DEF SleepOK
<1>5. AwaitTypes'
  <2>1. A!TypeOK'
    <3>1. wait' \in [kind : {"none", "timed", "external"}, state : {"none", "preparing", "parked"}]
      BY DEF A!BeginBlock, A!Preparing
    <3>2. begun' \in 0 .. Len(nPlan'.awaits)
      BY <1>1, <1>2
    <3>3. ops' \in 0 .. OpRoom /\ called' \in 0 .. OpRoom + 1
      BY <1>4, AwaitPlanFacts DEF A!BeginBlock
    <3>4. QED
      BY <3>1, <3>2, <3>3 DEF A!BeginBlock, AwaitTypes, A!TypeOK
  <2>2. /\ at' \in [A!Threads -> HasBody \cup AtWake \cup AtChunk
                               \cup {"idle", "parked", "recheck", "op", "kind", "due"}]
    BY <1>1 DEF AwaitTypes, HasBody
  <2>3. QED
    BY <1>3, <2>1, <2>2 DEF A!BeginBlock, AwaitTypes
<1>6. HolderOK' /\ ~ early'
  BY <1>1, <1>2 DEF A!BeginBlock, AwaitTypes, HolderOK, HasBody
<1>7. Calling' /\ ~ Sleeping' /\ ~ Looping'
  BY <1>1, <1>2 DEF Looping, Calling, Sleeping
<1>8. CallOK'
  <2>1. \A v \in Workers : at'[v] \in {"idle", "recheck", "suspend"}
    BY <1>1, <1>2 DEF AwaitTypes
  <2>2. wait'.kind = "external" /\ nState' = "running" /\ ~ noted'
    BY <1>2 DEF A!BeginBlock, A!Preparing, SleepOK
  <2>3. LastOK'
    BY <1>1, <1>3, <2>2 DEF LastOK
  <2>4. ~ Word'
    BY <1>3, <2>1, <2>2 DEF Word, AtWake
  <2>5. QED
    BY <1>2, <1>3, <1>4, <2>1, <2>3, <2>4 DEF A!BeginBlock, SleepOK, CallOK, AtChunk
<1>9. QED
  BY <1>5, <1>6, <1>7, <1>8

LEMMA BlockRefusedStays ==
  ASSUME NEW w \in Workers, A!NobodyLate, AwaitInv, A!BlockRefused(w)
  PROVE  AwaitInv'
<1> USE DEF AwaitInv, A!Threads, A!node, A!calls, A!loop
<1>1. /\ at[w] = "body" /\ begun < Len(nPlan.awaits) /\ at' = [at EXCEPT ![w] = "body"]
      /\ begun' = begun + 1 /\ A!Awaited' = "block" /\ Len(nPlan'.awaits) = Len(nPlan.awaits)
      /\ begun' = Len(nPlan'.awaits)
  <2>1. A!Begins(w, "block", "body") /\ nPlan' = nPlan
    BY DEF A!BlockRefused
  <2>2. QED
    BY <2>1, BeginsOne
<1>2. /\ SleepOK /\ nState = "running" /\ ~ ticket
      /\ wait.kind = "none" /\ at[Watchdog] = "idle" /\ at[Blocker] = "idle"
      /\ \A v \in Workers : v # w => at[v] \in {"idle", "recheck"}
      /\ begun \in Nat /\ begun + 1 \in 1 .. Len(nPlan.awaits)
  BY <1>1, AtBegin
<1>3. at'[Watchdog] = "idle" /\ at'[Blocker] = "idle"
  BY <1>1, <1>2, AwaitPlanFacts DEF AwaitTypes
<1>4. ops = 0 /\ called = 0
  BY <1>2 DEF SleepOK
<1>5. AwaitTypes'
  <2>1. A!TypeOK'
    <3>1. wait' \in [kind : {"none", "timed", "external"}, state : {"none", "preparing", "parked"}]
      BY DEF A!BlockRefused, A!Preparing
    <3>2. begun' \in 0 .. Len(nPlan'.awaits)
      BY <1>1, <1>2
    <3>3. ops' \in 0 .. OpRoom /\ called' \in 0 .. OpRoom + 1
      BY <1>4, AwaitPlanFacts DEF A!BlockRefused
    <3>4. QED
      BY <3>1, <3>2, <3>3 DEF A!BlockRefused, AwaitTypes, A!TypeOK
  <2>2. /\ at' \in [A!Threads -> HasBody \cup AtWake \cup AtChunk
                               \cup {"idle", "parked", "recheck", "op", "kind", "due"}]
    BY <1>1 DEF AwaitTypes, HasBody
  <2>3. QED
    BY <1>3, <2>1, <2>2 DEF A!BlockRefused, AwaitTypes
<1>6. HolderOK' /\ ~ early'
  BY <1>1, <1>2 DEF A!BlockRefused, AwaitTypes, HolderOK, HasBody
<1>7. Calling' /\ ~ Sleeping' /\ ~ Looping'
  BY <1>1, <1>2 DEF Looping, Calling, Sleeping
<1>8. CallOK'
  <2>1. \A v \in Workers : at'[v] \in {"idle", "recheck", "body"}
    BY <1>1, <1>2 DEF AwaitTypes
  <2>2. wait'.kind = "external" /\ nState' = "running" /\ ~ noted'
    BY <1>2 DEF A!BlockRefused, A!Preparing, SleepOK
  <2>3. LastOK'
    BY <1>1, <1>3, <2>2 DEF LastOK
  <2>4. ~ Word'
    BY <1>3, <2>1, <2>2 DEF Word, AtWake
  <2>5. QED
    BY <1>2, <1>3, <1>4, <2>1, <2>3, <2>4 DEF A!BlockRefused, SleepOK, CallOK, AtChunk
<1>9. QED
  BY <1>5, <1>6, <1>7, <1>8

(* Where only a worker that runs a loop can be. *)
LEMMA AtLoop ==
  ASSUME A!NobodyLate, AwaitInv, NEW w \in Workers,
         at[w] \in AtChunk \cup {"launch", "attach", "push", "pushed"}
  PROVE  Looping /\ LoopOK /\ ~ Calling /\ ~ Sleeping
<1>1. ~ Sleeping /\ ~ Calling
  BY DEF AwaitInv, SleepOK, CallOK, AtChunk
<1>2. QED
  BY <1>1, PhaseFacts DEF AwaitInv

LEMMA LoopFacts ==
  ASSUME AwaitInv, LoopOK
  PROVE  /\ total \in Nat \ {0} /\ A!Chunks(total) \in Nat /\ next \in Nat /\ next <= A!Chunks(total)
         /\ IsFiniteSet(Outstanding) /\ Cardinality(Outstanding) = pieces /\ pieces \in Nat
BY ChunkFacts, OutstandingFacts DEF AwaitInv, AwaitTypes, A!TypeOK, LoopOK, ChunksOK

(* What is kept of a loop in which a chunk goes from one hand to another.  *)
Handed ==
  /\ UNCHANGED <<nPlan, begun, nState, ticket, wait, noted, due, total, pieces, ran, open, ops,
                 called, early>>
  /\ Outstanding' = Outstanding
  /\ \A c \in 0 .. A!Chunks(total) - 1 : ToRun(c)' <=> ToRun(c)

LEMMA HandedOn ==
  ASSUME AwaitInv, Looping, Handed, LoopOK, AwaitTypes', HolderOK', Word' => Word,
         at'[Watchdog] = at[Watchdog], at'[Blocker] = at[Blocker],
         next' <= A!Chunks(total), \A c \in jobs' : c \in 0 .. next' - 1,
         \A v \in Workers : at'[v] \in {"chunk", "complete"} => chunk'[v] \in (0 .. next' - 1) \ jobs',
         \A u, v \in Workers :
           /\ at'[u] \in {"chunk", "complete"} /\ at'[v] \in {"chunk", "complete"}
           /\ chunk'[u] = chunk'[v]
           => u = v
  PROVE  AwaitInv'
<1>1. ~ early' /\ Looping' /\ ~ Calling' /\ ~ Sleeping'
  BY DEF AwaitInv, Handed, Looping, Calling, Sleeping, A!Awaited
<1>2. A!Chunks(total)' = A!Chunks(total)
  BY DEF Handed, A!Chunks
<1>3. ChunksOK'
  BY <1>2 DEF Handed, LoopOK, ChunksOK
<1>4. RanOK'
  BY <1>2 DEF Handed, LoopOK, RanOK, A!Indices, A!First
<1>5. LoopOK'
  BY <1>3, <1>4 DEF Handed, LoopOK, LastOK
<1>6. QED
  BY <1>1, <1>5 DEF AwaitInv

LEMMA LaunchJobStays ==
  ASSUME NEW w \in Workers, A!NobodyLate, AwaitInv, A!LaunchJob(w)
  PROVE  AwaitInv'
<1> USE DEF A!Threads, A!node, A!waits, A!calls, A!flow
<1>1. Looping /\ LoopOK /\ ~ Calling /\ ~ Sleeping
  BY AtLoop DEF A!LaunchJob, A!Goto
<1>2. at' = at /\ next < A!Chunks(total) /\ next' = next + 1 /\ jobs' = jobs \cup {next}
  BY DEF A!LaunchJob, A!Goto, A!More, AwaitInv, AwaitTypes
<1>3. total \in Nat \ {0} /\ A!Chunks(total) \in Nat /\ next \in Nat /\ A!Chunks(total) <= MaxChunks
  BY <1>1, ChunkFacts, LoopFacts
<1>4. ASSUME NEW c \in 0 .. A!Chunks(total) - 1 PROVE ToRun(c)' <=> ToRun(c)
  <2>1. c \in jobs' \/ c >= next' <=> c \in jobs \/ c >= next
    BY <1>2, <1>3
  <2>2. QED
    BY <1>2, <2>1 DEF A!LaunchJob, ToRun
<1>5. Outstanding' = Outstanding
  BY <1>2, <1>4 DEF A!LaunchJob, Outstanding
<1>6. Handed
  BY <1>4, <1>5 DEF A!LaunchJob, Handed
<1>7. AwaitTypes'
  <2>1. jobs' \subseteq 0 .. MaxChunks - 1
    BY <1>2, <1>3, AwaitPlanFacts DEF AwaitInv, AwaitTypes, A!TypeOK
  <2>2. A!TypeOK'
    BY <2>1 DEF A!LaunchJob, AwaitInv, AwaitTypes, A!TypeOK
  <2>3. QED
    BY <1>2, <1>3, <2>2 DEF A!LaunchJob, AwaitInv, AwaitTypes
<1>8. HolderOK' /\ (Word' => Word)
  BY <1>2 DEF A!LaunchJob, AwaitInv, HolderOK, Word
<1>9. /\ next' <= A!Chunks(total)
      /\ \A c \in jobs' : c \in 0 .. next' - 1
      /\ \A v \in Workers : at[v] \in {"chunk", "complete"} => chunk[v] \in (0 .. next' - 1) \ jobs'
  BY <1>1, <1>2, <1>3 DEF LoopOK, ChunksOK
<1>10. chunk' = chunk
  BY DEF A!LaunchJob
<1>11. \A u, v \in Workers :
         /\ at[u] \in {"chunk", "complete"} /\ at[v] \in {"chunk", "complete"}
         /\ chunk[u] = chunk[v]
         => u = v
  BY <1>1 DEF LoopOK, ChunksOK
<1>12. QED
  BY <1>1, <1>2, <1>6, <1>7, <1>8, <1>9, <1>10, <1>11, HandedOn

LEMMA TakeJobStays ==
  ASSUME NEW w \in Workers, A!NobodyLate, AwaitInv, A!TakeJob(w)
  PROVE  AwaitInv'
<1> USE DEF A!Threads, A!node, A!waits, A!calls, A!flow
<1>1. PICK c \in jobs : /\ A!Goto(w, "idle", "chunk") /\ jobs' = jobs \ {c}
                        /\ chunk' = [chunk EXCEPT ![w] = c]
  BY DEF A!TakeJob
<1>2. /\ at[w] = "idle" /\ at' = [at EXCEPT ![w] = "chunk"]
      /\ UNCHANGED <<A!node, A!waits, total, next, pieces, listed, ran, A!calls, A!flow>>
  BY <1>1 DEF A!TakeJob, A!Goto
<1>3. Looping /\ LoopOK
  BY <1>1, PhaseFacts DEF AwaitInv, SleepOK, CallOK
<1>4. total \in Nat \ {0} /\ A!Chunks(total) \in Nat /\ next \in Nat /\ c \in 0 .. next - 1
  BY <1>3, LoopFacts DEF LoopOK, ChunksOK
<1>5. /\ at \in [A!Threads -> HasBody \cup AtWake \cup AtChunk
                               \cup {"idle", "parked", "recheck", "op", "kind", "due"}]
      /\ chunk \in [Workers -> Nat]
  BY DEF AwaitInv, AwaitTypes
<1>6. /\ chunk'[w] = c /\ at'[w] = "chunk"
      /\ \A v \in Workers : v # w => at'[v] = at[v] /\ chunk'[v] = chunk[v]
      /\ at'[Watchdog] = at[Watchdog] /\ at'[Blocker] = at[Blocker]
  BY <1>1, <1>2, <1>5, AwaitPlanFacts DEF AwaitInv
<1>7. \A v \in Workers : at[v] \in {"chunk", "complete"} => chunk[v] # c
  BY <1>3 DEF LoopOK, ChunksOK
<1>8. ASSUME NEW d \in 0 .. A!Chunks(total) - 1 PROVE ToRun(d)' <=> ToRun(d)
  BY <1>1, <1>2, <1>6 DEF ToRun
<1>9. Outstanding' = Outstanding
  <2>1. \A d : (\E v \in Workers : at'[v] = "complete" /\ chunk'[v] = d)
                <=> \E v \in Workers : at[v] = "complete" /\ chunk[v] = d
    BY <1>2, <1>6
  <2>2. \A d \in 0 .. A!Chunks(total) - 1 :
          (ToRun(d)' \/ \E v \in Workers : at'[v] = "complete" /\ chunk'[v] = d)
          <=> (ToRun(d) \/ \E v \in Workers : at[v] = "complete" /\ chunk[v] = d)
    BY <1>8, <2>1
  <2>3. (0 .. A!Chunks(total) - 1)' = 0 .. A!Chunks(total) - 1
    BY <1>2
  <2>4. QED
    BY <2>2, <2>3, Zenon DEF Outstanding
<1>10. Handed
  BY <1>2, <1>8, <1>9 DEF Handed
<1>11. AwaitTypes'
  <2>1. A!TypeOK'
    BY <1>1, <1>2 DEF AwaitInv, AwaitTypes, A!TypeOK
  <2>2. at' \in [A!Threads -> HasBody \cup AtWake \cup AtChunk
                            \cup {"idle", "parked", "recheck", "op", "kind", "due"}]
    BY <1>2 DEF AwaitInv, AwaitTypes, AtChunk
  <2>3. chunk' \in [Workers -> Nat]
    BY <1>1, <1>4, <1>5
  <2>4. QED
    BY <1>2, <1>6, <2>1, <2>2, <2>3 DEF AwaitInv, AwaitTypes
<1>12. HolderOK'
  BY <1>2, <1>6 DEF AwaitInv, HolderOK, HasBody
<1>13. Word' => Word
  BY <1>2, <1>5 DEF Word, AtWake
<1>14. /\ next' <= A!Chunks(total)
       /\ \A d \in jobs' : d \in 0 .. next' - 1
       /\ \A v \in Workers : at'[v] \in {"chunk", "complete"} => chunk'[v] \in (0 .. next' - 1) \ jobs'
  <2>1. ASSUME NEW v \in Workers, at'[v] \in {"chunk", "complete"}
        PROVE  chunk'[v] \in (0 .. next' - 1) \ jobs'
    <3>1. CASE v = w
      BY <1>1, <1>2, <1>4, <1>6, <3>1
    <3>2. CASE v # w
      BY <1>1, <1>2, <1>3, <1>6, <2>1, <3>2 DEF LoopOK, ChunksOK
    <3>3. QED
      BY <3>1, <3>2
  <2>2. QED
    BY <1>1, <1>2, <1>3, <2>1 DEF LoopOK, ChunksOK
<1>15. \A u, v \in Workers :
         /\ at'[u] \in {"chunk", "complete"} /\ at'[v] \in {"chunk", "complete"}
         /\ chunk'[u] = chunk'[v]
         => u = v
  BY <1>3, <1>6, <1>7 DEF LoopOK, ChunksOK
<1>16. QED
  BY <1>3, <1>6, <1>10, <1>11, <1>12, <1>13, <1>14, <1>15, HandedOn

(* A chunk is run: its indices are done once, and no others. *)
LEMMA CallsOnce ==
  ASSUME total \in Nat \ {0}, RanOK, NEW d \in 0 .. A!Chunks(total) - 1, ToRun(d),
         ran' = A!Calls(d), total' = total,
         \A c \in 0 .. A!Chunks(total) - 1 : ToRun(c)' <=> ToRun(c) /\ c # d
  PROVE  RanOK'
<1>1. A!Chunks(total) \in Nat
  BY ChunkFacts
<1>2. ran \in [0 .. total - 1 -> Nat]
  BY DEF RanOK
<1>3. ran' \in [0 .. total' - 1 -> Nat]
  BY <1>2 DEF A!Calls
<1>4. ASSUME NEW c \in 0 .. A!Chunks(total) - 1, NEW i \in A!Indices(c)
      PROVE  ran'[i] = IF ToRun(c)' THEN 0 ELSE 1
  <2>1. c \in Nat /\ d \in Nat
    BY <1>1
  <2>2. i \in 0 .. total - 1
    BY <2>1, IndexFacts
  <2>3. ran[i] = IF ToRun(c) THEN 0 ELSE 1
    BY DEF RanOK
  <2>4. ran'[i] = IF i \in A!Indices(d) THEN ran[i] + 1 ELSE ran[i]
    BY <1>2, <2>2 DEF A!Calls
  <2>5. CASE c = d
    BY <2>3, <2>4, <2>5
  <2>6. CASE c # d
    <3>1. i \notin A!Indices(d)
      BY <2>1, <2>6, Disjoint
    <3>2. QED
      BY <2>3, <2>4, <2>6, <3>1
  <2>7. QED
    BY <2>5, <2>6
<1>5. A!Chunks(total') = A!Chunks(total) /\ \A c : A!Indices(c)' = A!Indices(c)
  BY DEF A!Indices, A!First
<1>6. QED
  BY <1>3, <1>4, <1>5 DEF RanOK

LEMMA LaunchHereStays ==
  ASSUME NEW w \in Workers, A!NobodyLate, AwaitInv, A!LaunchHere(w)
  PROVE  AwaitInv'
<1> USE DEF A!Threads, A!node, A!waits, A!calls, A!flow
<1>1. Looping /\ LoopOK /\ ~ Calling /\ ~ Sleeping
  BY AtLoop DEF A!LaunchHere, A!Goto
<1>2. /\ at' = at /\ next < A!Chunks(total) /\ next' = next + 1
      /\ ran' = A!Calls(next) /\ pieces' = pieces - 1
      /\ UNCHANGED <<A!node, A!waits, total, jobs, chunk, listed, A!calls, A!flow>>
  BY DEF A!LaunchHere, A!Goto, A!More, AwaitInv, AwaitTypes
<1>3. /\ total \in Nat \ {0} /\ A!Chunks(total) \in Nat /\ next \in Nat
      /\ IsFiniteSet(Outstanding) /\ Cardinality(Outstanding) = pieces /\ pieces \in Nat
  BY <1>1, LoopFacts
<1>4. ToRun(next)
  BY <1>3 DEF ToRun
<1>5. \A v \in Workers : at[v] \in {"chunk", "complete"} => chunk[v] # next
  BY <1>1, <1>3 DEF LoopOK, ChunksOK
<1>6. ASSUME NEW c \in 0 .. A!Chunks(total) - 1 PROVE ToRun(c)' <=> ToRun(c) /\ c # next
  <2>1. next \notin jobs
    BY <1>1, <1>3 DEF LoopOK, ChunksOK
  <2>2. c >= next' <=> c >= next /\ c # next
    BY <1>2, <1>3
  <2>3. QED
    BY <1>2, <1>5, <2>1, <2>2 DEF ToRun
<1>7. RanOK'
  <2>1. next \in 0 .. A!Chunks(total) - 1 /\ RanOK
    BY <1>1, <1>2, <1>3 DEF LoopOK
  <2>2. QED
    BY <1>2, <1>3, <1>4, <1>6, <2>1, CallsOnce
<1>8. next \in Outstanding /\ Outstanding' = Outstanding \ {next}
  <2>1. next \in 0 .. A!Chunks(total) - 1
    BY <1>2, <1>3
  <2>2. \A c \in 0 .. A!Chunks(total) - 1 : c \in Outstanding' <=> c \in Outstanding /\ c # next
    BY <1>2, <1>5, <1>6 DEF Outstanding
  <2>3. Outstanding' \subseteq 0 .. A!Chunks(total) - 1
    BY <1>2 DEF Outstanding
  <2>4. QED
    BY <1>4, <2>1, <2>2, <2>3 DEF Outstanding
<1>9. pieces' \in Nat /\ pieces' = Cardinality(Outstanding') /\ pieces # 0
  <2>1. Cardinality(Outstanding \ {next}) = Cardinality(Outstanding) - 1
    BY <1>3, <1>8, FS_RemoveElement
  <2>2. Outstanding \ {next} \subseteq Outstanding
    OBVIOUS
  <2>3. Cardinality(Outstanding \ {next}) \in Nat
    BY <1>3, <2>2, FS_Subset, FS_CardinalityType
  <2>4. QED
    BY <1>2, <1>3, <1>8, <2>1, <2>3
<1>10. AwaitTypes'
  <2>1. pieces' \in 0 .. MaxChunks
    BY <1>2, <1>3, <1>9, AwaitPlanFacts DEF AwaitInv, AwaitTypes, A!TypeOK
  <2>2. A!TypeOK'
    BY <1>2, <2>1 DEF AwaitInv, AwaitTypes, A!TypeOK
  <2>3. QED
    BY <1>2, <1>3, <2>2 DEF AwaitInv, AwaitTypes
<1>11. HolderOK' /\ ~ early' /\ Looping' /\ ~ Calling' /\ ~ Sleeping'
  BY <1>1, <1>2 DEF AwaitInv, HolderOK, Looping, Calling, Sleeping, A!Awaited
<1>12. ~ Word'
  BY <1>1, <1>2, <1>9 DEF LoopOK, Word
<1>13. ChunksOK'
  <2>1. A!Chunks(total') = A!Chunks(total)
    BY <1>2
  <2>2. next' <= A!Chunks(total') /\ total' # 0
    BY <1>2, <1>3, <2>1
  <2>3. /\ \A c \in jobs' : c \in 0 .. next' - 1
        /\ \A v \in Workers : at'[v] \in {"chunk", "complete"} => chunk'[v] \in (0 .. next' - 1) \ jobs'
    BY <1>1, <1>2, <1>3 DEF LoopOK, ChunksOK
  <2>4. \A u, v \in Workers :
          /\ at'[u] \in {"chunk", "complete"} /\ at'[v] \in {"chunk", "complete"}
          /\ chunk'[u] = chunk'[v]
          => u = v
    BY <1>1, <1>2 DEF LoopOK, ChunksOK
  <2>5. QED
    BY <1>9, <2>2, <2>3, <2>4 DEF ChunksOK
<1>14. LoopOK'
  BY <1>1, <1>2, <1>7, <1>12, <1>13 DEF LoopOK, LastOK
<1>15. QED
  BY <1>10, <1>11, <1>14 DEF AwaitInv

LEMMA RunChunkStays ==
  ASSUME NEW w \in Workers, A!NobodyLate, AwaitInv, A!RunChunk(w)
  PROVE  AwaitInv'
<1> USE DEF A!Threads, A!node, A!waits, A!calls, A!flow
<1>1. Looping /\ LoopOK /\ ~ Calling /\ ~ Sleeping
  BY AtLoop DEF A!RunChunk, A!Goto, AtChunk
<1>2. /\ at[w] = "chunk" /\ at' = [at EXCEPT ![w] = "complete"] /\ ran' = A!Calls(chunk[w])
      /\ UNCHANGED <<A!node, A!waits, total, next, jobs, chunk, pieces, listed, A!calls, A!flow>>
  BY DEF A!RunChunk, A!Goto
<1>3. total \in Nat \ {0} /\ A!Chunks(total) \in Nat /\ next \in Nat /\ next <= A!Chunks(total)
  BY <1>1, LoopFacts
<1>4. /\ at'[w] = "complete" /\ \A v \in Workers : v # w => at'[v] = at[v]
      /\ at'[Watchdog] = at[Watchdog] /\ at'[Blocker] = at[Blocker]
  BY <1>2, AwaitPlanFacts DEF AwaitInv, AwaitTypes
<1>5. chunk[w] \in 0 .. A!Chunks(total) - 1 /\ chunk[w] \notin jobs /\ ~ (chunk[w] >= next)
  BY <1>1, <1>2, <1>3 DEF LoopOK, ChunksOK
<1>6. ASSUME NEW c \in 0 .. A!Chunks(total) - 1 PROVE ToRun(c)' <=> ToRun(c) /\ c # chunk[w]
  <2>1. (\E v \in Workers : at'[v] = "chunk" /\ chunk[v] = c)
          <=> c # chunk[w] /\ \E v \in Workers : at[v] = "chunk" /\ chunk[v] = c
    BY <1>1, <1>2, <1>4 DEF LoopOK, ChunksOK
  <2>2. QED
    BY <1>2, <1>5, <2>1 DEF ToRun
<1>7. RanOK'
  <2>1. RanOK /\ ToRun(chunk[w])
    BY <1>1, <1>2 DEF LoopOK, ToRun
  <2>2. QED
    BY <1>2, <1>3, <1>5, <1>6, <2>1, CallsOnce
<1>8. Outstanding' = Outstanding
  <2>1. ASSUME NEW c \in 0 .. A!Chunks(total) - 1 PROVE c \in Outstanding' <=> c \in Outstanding
    <3>1. CASE c = chunk[w]
      BY <1>2, <1>4, <3>1 DEF Outstanding, ToRun
    <3>2. CASE c # chunk[w]
      BY <1>2, <1>4, <1>6, <3>2 DEF Outstanding
    <3>3. QED
      BY <3>1, <3>2
  <2>2. Outstanding' \subseteq 0 .. A!Chunks(total) - 1 /\ Outstanding \subseteq 0 .. A!Chunks(total) - 1
    BY <1>2 DEF Outstanding
  <2>3. QED
    BY <2>1, <2>2
<1>9. AwaitTypes'
  <2>1. A!TypeOK'
    BY <1>2 DEF AwaitInv, AwaitTypes, A!TypeOK
  <2>2. at' \in [A!Threads -> HasBody \cup AtWake \cup AtChunk
                            \cup {"idle", "parked", "recheck", "op", "kind", "due"}]
    BY <1>2 DEF AwaitInv, AwaitTypes, AtChunk
  <2>3. QED
    BY <1>2, <1>4, <2>1, <2>2 DEF AwaitInv, AwaitTypes
<1>10. HolderOK' /\ ~ early' /\ Looping' /\ ~ Calling' /\ ~ Sleeping'
  BY <1>1, <1>2, <1>4 DEF AwaitInv, HolderOK, HasBody, Looping, Calling, Sleeping, A!Awaited
<1>11. Word' => Word
  BY <1>2, <1>4 DEF Word, AtWake
<1>12. ChunksOK'
  BY <1>1, <1>2, <1>4, <1>8 DEF LoopOK, ChunksOK
<1>13. LoopOK'
  BY <1>1, <1>2, <1>4, <1>7, <1>11, <1>12 DEF LoopOK, LastOK
<1>14. QED
  BY <1>9, <1>10, <1>13 DEF AwaitInv

LEMMA CompleteStays ==
  ASSUME NEW w \in Workers, A!NobodyLate, AwaitInv, A!Complete(w)
  PROVE  AwaitInv'
<1> USE DEF A!Threads, A!node, A!waits, A!calls, A!flow
<1>1. Looping /\ LoopOK /\ ~ Calling /\ ~ Sleeping
  BY AtLoop DEF A!Complete, A!Goto, AtChunk
<1>2. /\ at[w] = "complete" /\ at' = [at EXCEPT ![w] = IF pieces = 1 THEN "drain" ELSE "idle"]
      /\ pieces' = pieces - 1
      /\ UNCHANGED <<A!node, A!waits, total, next, jobs, chunk, listed, ran, A!calls, A!flow>>
  BY DEF A!Complete, A!Goto
<1>3. /\ total \in Nat \ {0} /\ A!Chunks(total) \in Nat /\ next \in Nat /\ next <= A!Chunks(total)
      /\ IsFiniteSet(Outstanding) /\ Cardinality(Outstanding) = pieces /\ pieces \in Nat
  BY <1>1, LoopFacts
<1>4. /\ at'[w] = (IF pieces = 1 THEN "drain" ELSE "idle")
      /\ \A v \in Workers : v # w => at'[v] = at[v]
      /\ at'[Watchdog] = at[Watchdog] /\ at'[Blocker] = at[Blocker]
  BY <1>2, AwaitPlanFacts DEF AwaitInv, AwaitTypes
<1>5. chunk[w] \in 0 .. A!Chunks(total) - 1 /\ chunk[w] \notin jobs /\ ~ (chunk[w] >= next)
  BY <1>1, <1>2, <1>3 DEF LoopOK, ChunksOK
<1>6. \A c : ToRun(c)' <=> ToRun(c)
  BY <1>2, <1>4 DEF ToRun
<1>7. ~ ToRun(chunk[w])
  BY <1>1, <1>2, <1>5 DEF ToRun, LoopOK, ChunksOK
<1>8. chunk[w] \in Outstanding /\ Outstanding' = Outstanding \ {chunk[w]}
  <2>1. \A c \in 0 .. A!Chunks(total) - 1 : c \in Outstanding' <=> c \in Outstanding /\ c # chunk[w]
    <3> TAKE c \in 0 .. A!Chunks(total) - 1
    <3>1. CASE c = chunk[w]
      <4>1. \A v \in Workers : ~ (at'[v] = "complete" /\ chunk[v] = c)
        BY <1>1, <1>2, <1>4, <3>1 DEF LoopOK, ChunksOK
      <4>2. QED
        BY <1>2, <1>6, <1>7, <3>1, <4>1 DEF Outstanding
    <3>2. CASE c # chunk[w]
      <4>1. (\E v \in Workers : at'[v] = "complete" /\ chunk[v] = c)
              <=> \E v \in Workers : at[v] = "complete" /\ chunk[v] = c
        BY <1>2, <1>4, <3>2
      <4>2. QED
        BY <1>2, <1>6, <3>2, <4>1 DEF Outstanding
    <3>3. QED
      BY <3>1, <3>2
  <2>2. Outstanding' \subseteq 0 .. A!Chunks(total) - 1 /\ Outstanding \subseteq 0 .. A!Chunks(total) - 1
    BY <1>2 DEF Outstanding
  <2>3. chunk[w] \in Outstanding
    BY <1>2, <1>5 DEF Outstanding
  <2>4. QED
    BY <2>1, <2>2, <2>3
<1>9. pieces' \in Nat /\ pieces' = Cardinality(Outstanding') /\ pieces # 0
  <2>1. Cardinality(Outstanding \ {chunk[w]}) = Cardinality(Outstanding) - 1
    BY <1>3, <1>8, FS_RemoveElement
  <2>2. Outstanding \ {chunk[w]} \subseteq Outstanding
    OBVIOUS
  <2>3. Cardinality(Outstanding \ {chunk[w]}) \in Nat
    BY <1>3, <2>2, FS_Subset, FS_CardinalityType
  <2>4. QED
    BY <1>2, <1>3, <1>8, <2>1, <2>3
<1>10. AwaitTypes'
  <2>1. pieces' \in 0 .. MaxChunks
    BY <1>2, <1>3, <1>9, AwaitPlanFacts DEF AwaitInv, AwaitTypes, A!TypeOK
  <2>2. A!TypeOK'
    BY <1>2, <2>1 DEF AwaitInv, AwaitTypes, A!TypeOK
  <2>3. at' \in [A!Threads -> HasBody \cup AtWake \cup AtChunk
                            \cup {"idle", "parked", "recheck", "op", "kind", "due"}]
    BY <1>2 DEF AwaitInv, AwaitTypes, AtChunk
  <2>4. QED
    BY <1>2, <1>4, <2>2, <2>3 DEF AwaitInv, AwaitTypes
<1>11. HolderOK' /\ ~ early' /\ Looping' /\ ~ Calling' /\ ~ Sleeping'
  BY <1>1, <1>2, <1>4 DEF AwaitInv, HolderOK, HasBody, Looping, Calling, Sleeping, A!Awaited
<1>12. Word' => pieces' = 0
  <2>1. ~ Word
    BY <1>1, <1>9 DEF LoopOK
  <2>2. CASE pieces = 1
    BY <1>2, <2>2
  <2>3. CASE pieces # 1
    BY <1>2, <1>4, <2>1, <2>3 DEF Word, AtWake
  <2>4. QED
    BY <2>2, <2>3
<1>13. ChunksOK'
  BY <1>1, <1>2, <1>4, <1>9 DEF LoopOK, ChunksOK
<1>14. RanOK'
  <2>1. \A c : A!Indices(c)' = A!Indices(c)
    BY <1>2 DEF A!Indices, A!First
  <2>2. QED
    BY <1>1, <1>2, <1>6, <2>1 DEF LoopOK, RanOK
<1>15. LoopOK'
  BY <1>1, <1>2, <1>4, <1>12, <1>13, <1>14 DEF LoopOK, LastOK
<1>16. QED
  BY <1>10, <1>11, <1>15 DEF AwaitInv

(* Every chunk has been run when the counter is zero. *)
LEMMA AllRan ==
  ASSUME AwaitInv, Looping, LoopOK, pieces = 0
  PROVE  A!Met
<1>1. total \in Nat \ {0} /\ IsFiniteSet(Outstanding) /\ Cardinality(Outstanding) = 0
  BY LoopFacts
<1>2. Outstanding = {}
  BY <1>1, FS_EmptySet
<1>3. ran \in [0 .. total - 1 -> Nat]
  BY DEF LoopOK, RanOK
<1>4. ASSUME NEW i \in 0 .. total - 1 PROVE ran[i] = 1
  <2>1. PICK c \in 0 .. A!Chunks(total) - 1 : i \in A!Indices(c)
    BY <1>1, Covered
  <2>2. ~ ToRun(c)
    BY <1>2 DEF Outstanding
  <2>3. QED
    BY <2>1, <2>2 DEF LoopOK, RanOK
<1>5. QED
  BY <1>3, <1>4 DEF A!Met, Looping

LEMMA GoOnStays ==
  ASSUME NEW w \in Workers, NEW from \in {"launch", "attach", "pushed"},
         A!NobodyLate, AwaitInv, A!GoOn(w, from), listed' \in BOOLEAN
  PROVE  AwaitInv'
<1> USE DEF A!Threads, A!node, A!waits, A!calls, A!flow
<1>1. Looping /\ LoopOK /\ ~ Calling /\ ~ Sleeping
  BY AtLoop DEF A!GoOn, A!Goto, AtChunk
<1>2. /\ at[w] = from /\ at' = [at EXCEPT ![w] = "body"] /\ pieces = 0 /\ A!Judge
      /\ UNCHANGED <<A!node, A!waits, total, next, jobs, chunk, pieces, ran, A!calls, nPlan, begun>>
  BY DEF A!GoOn, A!Goto
<1>3. ~ early'
  BY <1>1, <1>2, AllRan DEF A!Judge, AwaitInv
<1>4. /\ at'[w] = "body" /\ \A v \in Workers : v # w => at'[v] = at[v]
      /\ at'[Watchdog] = at[Watchdog] /\ at'[Blocker] = at[Blocker]
  BY <1>2, AwaitPlanFacts DEF AwaitInv, AwaitTypes
<1>5. AwaitTypes'
  <2>1. A!TypeOK'
    BY <1>2 DEF AwaitInv, AwaitTypes, A!TypeOK
  <2>2. at' \in [A!Threads -> HasBody \cup AtWake \cup AtChunk
                            \cup {"idle", "parked", "recheck", "op", "kind", "due"}]
    BY <1>2 DEF AwaitInv, AwaitTypes, HasBody
  <2>3. QED
    BY <1>2, <1>4, <2>1, <2>2 DEF AwaitInv, AwaitTypes
<1>6. HolderOK' /\ Looping' /\ ~ Calling' /\ ~ Sleeping'
  BY <1>1, <1>2, <1>4 DEF AwaitInv, HolderOK, HasBody, Looping, Calling, Sleeping, A!Awaited
<1>7. ChunksStay
  BY <1>2, <1>4 DEF ChunksStay
<1>8. ChunksOK' /\ RanOK'
  BY <1>1, <1>7, SameChunks DEF LoopOK
<1>9. LoopOK'
  BY <1>1, <1>2, <1>4, <1>8 DEF LoopOK, LastOK
<1>10. QED
  BY <1>3, <1>5, <1>6, <1>9 DEF AwaitInv

LEMMA ReadyStays ==
  ASSUME NEW w \in Workers, A!NobodyLate, AwaitInv, A!Ready(w)
  PROVE  AwaitInv'
<1>1. PICK from \in {"launch", "attach", "pushed"} : A!GoOn(w, from) /\ listed' \in BOOLEAN
  BY DEF A!Ready, AwaitInv, AwaitTypes, A!TypeOK
<1>2. QED
  BY <1>1, GoOnStays

(* What is awaited has happened when the task can be taken. *)
LEMMA ReadyIsMet ==
  ASSUME A!NobodyLate, AwaitInv, nState = "ready", begun > 0
  PROVE  A!Met
<1>1. CASE Sleeping
  <2>1. begun # 0
    OBVIOUS
  <2>2. A!Awaited = "sleep"
    BY <1>1, <2>1 DEF Sleeping
  <2>3. due
    BY <1>1 DEF AwaitInv, SleepOK
  <2>4. QED
    BY <2>2, <2>3 DEF A!Met
<1>2. CASE Calling
  BY <1>2 DEF AwaitInv, CallOK, Word, Calling, A!Met
<1>3. CASE Looping
  BY <1>3, AllRan DEF AwaitInv, LoopOK, Word
<1>4. QED
  BY <1>1, <1>2, <1>3, PhaseFacts DEF AwaitInv

LEMMA TakeStays ==
  ASSUME NEW w \in Workers, A!NobodyLate, AwaitInv, A!Take(w)
  PROVE  AwaitInv'
<1> USE DEF A!Threads, A!waits, A!loop, A!calls
<1>1. /\ ticket /\ nState = "ready" /\ nState' = "running" /\ ~ ticket'
      /\ at[w] = "idle" /\ at' = [at EXCEPT ![w] = "body"]
      /\ UNCHANGED <<A!waits, A!loop, A!calls, nPlan, begun>>
  BY DEF A!Take, A!Goto, A!Swap
<1>2. ~ early'
  <2>1. CASE begun = 0
    BY <2>1 DEF A!Take, AwaitInv
  <2>2. CASE begun # 0
    <3>1. A!Met
      BY <1>1, <2>2, ReadyIsMet DEF AwaitInv, AwaitTypes, A!TypeOK
    <3>2. QED
      BY <2>2, <3>1 DEF A!Take, A!Judge, AwaitInv
  <2>3. QED
    BY <2>1, <2>2
<1>3. /\ at'[w] = "body" /\ \A v \in Workers : v # w => at'[v] = at[v]
      /\ at'[Watchdog] = at[Watchdog] /\ at'[Blocker] = at[Blocker]
  BY <1>1, AwaitPlanFacts DEF AwaitInv, AwaitTypes
<1>4. AwaitTypes'
  <2>1. A!TypeOK'
    BY <1>1 DEF A!Take, AwaitInv, AwaitTypes, A!TypeOK
  <2>2. at' \in [A!Threads -> HasBody \cup AtWake \cup AtChunk
                            \cup {"idle", "parked", "recheck", "op", "kind", "due"}]
    BY <1>1 DEF AwaitInv, AwaitTypes, HasBody
  <2>3. QED
    BY <1>1, <1>3, <2>1, <2>2 DEF AwaitInv, AwaitTypes
<1>5. \A v \in Workers : at[v] \notin HasBody
  BY <1>1 DEF AwaitInv, HolderOK
<1>6. HolderOK'
  <2>1. \A t \in A!Threads : at'[t] # "woken"
    BY <1>1, <1>3 DEF AwaitInv, HolderOK
  <2>2. QED
    BY <1>1, <1>3, <1>5, <2>1 DEF HolderOK, HasBody
<1>7. Sleeping' = Sleeping /\ Calling' = Calling /\ Looping' = Looping
  BY <1>1 DEF Sleeping, Calling, Looping, A!Awaited
<1>8. ASSUME Sleeping PROVE SleepOK'
  BY <1>1, <1>3, <1>8 DEF AwaitInv, SleepOK
<1>9. ASSUME Calling PROVE CallOK'
  BY <1>1, <1>3, <1>9 DEF AwaitInv, CallOK, LastOK, Word, AtChunk
<1>10. ASSUME Looping PROVE LoopOK'
  <2>1. ChunksStay
    BY <1>1, <1>3 DEF ChunksStay
  <2>2. ChunksOK' /\ RanOK'
    BY <1>10, <2>1, SameChunks DEF AwaitInv, LoopOK
  <2>3. QED
    BY <1>1, <1>3, <1>10, <2>2 DEF AwaitInv, LoopOK, LastOK, Word
<1>11. QED
  BY <1>2, <1>4, <1>6, <1>7, <1>8, <1>9, <1>10 DEF AwaitInv

LEMMA NothingStays ==
  ASSUME AwaitIInv, UNCHANGED A!vars
  PROVE  AwaitIInv'
BY DEF A!vars, AwaitIInv, A!NobodyLate, AwaitInv, AwaitTypes, A!TypeOK, HolderOK,
       Sleeping, Calling, Looping, A!Awaited, SleepOK, CallOK, LoopOK, LastOK, Word,
       ChunksOK, RanOK, Outstanding, ToRun, A!Indices, A!First

LEMMA PlanStays == ASSUME [A!Next]_(A!vars) PROVE nPlan' = nPlan
BY DEF A!vars, A!flow, A!Next, A!Running, A!Worker, A!Blocking, A!Scanning, A!Parallel,
       A!Job, A!Suspend, A!Waking, A!BeginParallel, A!BeginSleep, A!BeginBlock,
       A!BlockRefused, A!Return, A!LaunchJob, A!LaunchHere, A!Launched, A!Attach,
       A!Push, A!Pushed, A!Ready, A!GoOn, A!TakeJob, A!RunChunk, A!Complete, A!Drain,
       A!SuspendNoted, A!Rearm, A!SuspendCheck, A!Park, A!Parked, A!Recheck, A!Take,
       A!Wake, A!WakeRoute, A!WakeMissed, A!WakeLook, A!WakeNote, A!PopOp, A!RunOp,
       A!Destroy, A!Abandon, A!ScanState, A!ScanKind, A!ScanDue, A!Tick

LEMMA AwaitsStep ==
  ASSUME AwaitIInv, [A!Next]_(A!vars)
  PROVE  AwaitIInv'
<1>1. CASE UNCHANGED A!vars
  BY <1>1, NothingStays
<1>2. CASE A!Next
  <2>1. A!NobodyLate' <=> A!NobodyLate
    BY PlanStays DEF A!NobodyLate
  <2> SUFFICES ASSUME A!NobodyLate, AwaitInv PROVE AwaitInv'
    BY <2>1 DEF AwaitIInv
  <2>2. ASSUME NEW t \in A!Threads, A!Waking(t) PROVE AwaitInv'
    BY <2>2, WakeStays, WakeRouteStays, WakeMissedStays, WakeLookStays,
        WakeNoteStays DEF A!Waking
  <2>3. ASSUME NEW w \in Workers, A!Worker(w) PROVE AwaitInv'
    <3>1. CASE \/ A!BeginParallel(w) \/ A!BeginSleep(w) \/ A!BeginBlock(w) \/ A!BlockRefused(w)
               \/ A!Return(w) \/ A!Take(w)
      BY <3>1, BeginParallelStays, BeginSleepStays, BeginBlockStays, BlockRefusedStays,
         ReturnStays, TakeStays
    <3>2. CASE A!Parallel(w)
      BY <3>2, LaunchJobStays, LaunchHereStays, LaunchedStays, AttachStays, PushStays,
         PushedStays, ReadyStays DEF A!Parallel
    <3>3. CASE A!Job(w)
      BY <3>3, TakeJobStays, RunChunkStays, CompleteStays, DrainStays DEF A!Job
    <3>4. CASE A!Suspend(w)
      BY <3>4, SuspendNotedStays, RearmStays, SuspendCheckStays, ParkStays, ParkedStays,
         RecheckStays DEF A!Suspend
    <3>5. QED
      BY <2>2, <2>3, <3>1, <3>2, <3>3, <3>4 DEF A!Worker, A!Threads
  <2>4. CASE A!Blocking
    BY <2>2, <2>4, PopOpStays, RunOpStays, AbandonStays DEF A!Blocking, A!Threads
  <2>5. CASE A!Scanning
    BY <2>2, <2>5, ScanStateStays, ScanKindStays, ScanDueStays DEF A!Scanning, A!Threads
  <2>6. QED
    BY <1>2, <2>3, <2>4, <2>5, DestroyStays, TickStays DEF A!Next, A!Running
<1>3. QED
  BY <1>1, <1>2

LEMMA AwaitsSafe ==
  ASSUME AwaitIInv, A!NobodyLate
  PROVE  A!AwaitExact
<1>1. A!IndexOnce
  <2>1. CASE ~ Looping
    BY <2>1, PhaseFacts DEF AwaitIInv, AwaitInv, SleepOK, CallOK, A!IndexOnce
  <2>2. CASE Looping
    <3>1. LoopOK /\ total \in Nat \ {0} /\ ran \in [0 .. total - 1 -> Nat]
      BY <2>2, LoopFacts DEF AwaitIInv, AwaitInv, LoopOK, RanOK
    <3>2. ASSUME NEW i \in DOMAIN ran PROVE ran[i] <= 1
      <4>1. PICK c \in 0 .. A!Chunks(total) - 1 : i \in A!Indices(c)
        BY <3>1, Covered
      <4>2. ran[i] = IF ToRun(c) THEN 0 ELSE 1
        BY <3>1, <4>1 DEF LoopOK, RanOK
      <4>3. QED
        BY <4>2
    <3>3. QED
      BY <3>2 DEF A!IndexOnce
  <2>3. QED
    BY <2>1, <2>2
<1>2. QED
  BY <1>1 DEF A!AwaitExact, AwaitIInv, AwaitInv

LEMMA AwaitsInductive == A!Spec => []AwaitIInv
<1>1. A!Init => AwaitIInv
  BY InitAwaits DEF AwaitIInv
<1>2. AwaitIInv /\ [A!Next]_(A!vars) => AwaitIInv'
  BY AwaitsStep
<1>3. QED
  BY <1>1, <1>2, PTL DEF A!Spec

LEMMA AwaitWay == MCSpec => (way = "awaits" /\ A!Spec) \/ [](way # "awaits")
<1>1. MCInit /\ way = "awaits" => A!Init
  BY DEF MCInit
<1>2. way = "awaits" /\ [MCNext]_all => [A!Next]_(A!vars) /\ (way = "awaits")'
  BY DEF MCNext, all, OfAll, OfAwaits, A!vars
<1>3. way # "awaits" /\ [MCNext]_all => (way # "awaits")'
  BY DEF MCNext, all
<1>4. way # "awaits" <=> ~ (way = "awaits")
  OBVIOUS
<1>5. way = "awaits" /\ MCSpec => A!Spec
  BY <1>1, <1>2, PTL DEF MCSpec, A!Spec
<1>6. way # "awaits" /\ MCSpec => [](way # "awaits")
  BY <1>3, PTL DEF MCSpec
<1>7. QED
  BY <1>4, <1>5, <1>6, PTL

(* parallel_for, complete_one, wake_waiting_index, scan: a parallel_for    *)
(* calls its body once for each index, and an await returns only when the  *)
(* indices are done, the call has ended or the time has come, whoever      *)
(* wakes the task at whatever moment of its suspending itself.             *)
THEOREM AwaitsAreExact == MCSpec => []((way = "awaits" => A!NobodyLate) => AwaitExact)
<1>1. AwaitIInv /\ A!NobodyLate => A!TypeOK /\ A!AwaitExact
  BY AwaitsSafe DEF AwaitIInv, AwaitInv, AwaitTypes
<1>2. AwaitIInv => ((way = "awaits" => A!NobodyLate) => AwaitExact)
  BY <1>1 DEF AwaitExact
<1>3. way # "awaits" => AwaitExact
  BY DEF AwaitExact
<1>4. QED
  BY <1>2, <1>3, AwaitsInductive, AwaitWay, PTL

=============================================================================
