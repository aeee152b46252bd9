---------------------------- MODULE MCMpmcQueue ----------------------------
(***************************************************************************)
(* Instances of MpmcQueue, IndexPool, TimingWheel, MemoryPool, ClassPool,  *)
(* ContextTable and Admission for TLC.  A job's slot is taken from a pool, *)
(* its index travels through a queue, a wheel holds what is to come later, *)
(* memory and objects come from pools of their own, and tasks have contexts*)
(* and tokens.                                                             *)
(* They share one run: a behaviour exercises one of them.                  *)
(***************************************************************************)
EXTENDS MpmcQueue, TLC

CONSTANTS
  Size, MaxCalls,                 (* of IndexPool; its users are Producers *)
  Timers, Levels, WheelSlots, TickNs, Capacities, Starts, Delays, Strides,
  MaxNow, MaxInside,              (* of TimingWheel                        *)
  ContextSlots, MaxBegun,         (* of ContextTable; its threads are      *)
                                  (* Producers, as those of Admission      *)
  Limit, MaxEpoch, Policies       (* of Admission; its tasks are Values    *)

VARIABLES
  way,                            (* which of them is exercised            *)
  first, next, live, free, step, seen, after, giving, held, calls,
  buckets, now, tick, active, expire, size, capacity, level, chain, calling,
  inside, asks, mem, given, store, want,
  slots, cursor, task, doing, own, holding, strays, begun,
  policy, total, tenant, phase, epoch, tickets, acts, tokens, withdrawn

(* Four plans for the memory: blocks of two sizes, some cached when they   *)
(* are released; resizing; aligned blocks; and capacities.  A chunk has    *)
(* room for two or three blocks, or one larger.                            *)
Plan(sizes, alignments, resizes, capacities, most) ==
  [sizes |-> sizes, alignments |-> alignments, resizes |-> resizes,
   capacities |-> capacities, live |-> most]
MemoryPlans ==
  {Plan({1, 6}, {}, {}, {}, 4), Plan({2, 6}, {}, {2, 4, 8}, {}, 2),
   Plan({2}, {4}, {4}, {}, 2), Plan({2, 6}, {}, {}, {0, 20, 30}, 1)}

P == INSTANCE IndexPool WITH Users <- Producers, NoIndex <- None
T == INSTANCE TimingWheel WITH Slots <- WheelSlots, Idle <- None
M == INSTANCE MemoryPool WITH
       Align <- 2, Places <- <<100, 0>>, Tiers <- <<16, 24>>, TierRoom <- 1, ChunkSize <- 8,
       SmallMax <- 4, CacheLimit <- 1, CacheHigh <- 2, Plans <- MemoryPlans
C == INSTANCE ContextTable WITH Threads <- Producers, Slots <- ContextSlots, Nobody <- None
K == INSTANCE ClassPool WITH
       Elements <- {1}, Blank <- 2, Hole <- None, WordBits <- 2, DefaultCapacity <- 2,
       Unknown <- None, Cuts <- {0, 2}, MaxSize <- 4
A == INSTANCE Admission WITH Threads <- Producers, Tasks <- Values

ASSUME MCAssumption ==
  /\ P!PoolAssumption /\ T!WheelAssumption /\ M!MemoryAssumption
  /\ C!ContextAssumption /\ A!AdmissionAssumption /\ K!ClassPoolAssumption

(* Word by word the bits of three words move as they would in one. *)
ASSUME \A bits \in SUBSET (0..5), start, end \in 0..5 :
  K!ShiftRightOne(bits, start, end) =
    (bits \ (start+1 .. end)) \cup {i \in start+1 .. end : i - 1 \in bits}

pool == <<first, next, live, free, step, seen, after, giving, held, calls>>
wheel == <<buckets, now, tick, active, expire, size, capacity, level, chain, calling,
           inside>>
memory == <<asks, mem, given>>
objects == <<store, want>>
contexts == <<slots, cursor, task, doing, own, holding, strays, begun>>
admission == <<policy, total, tenant, phase, epoch, tickets, acts, tokens, withdrawn>>

PoolOff ==
  /\ first = None /\ next = None /\ live = None /\ free = None /\ step = None
  /\ seen = None /\ after = None /\ giving = None /\ held = None /\ calls = None
WheelOff ==
  /\ buckets = None /\ now = None /\ tick = None /\ active = None
  /\ expire = None /\ size = None /\ capacity = None /\ level = None
  /\ chain = None /\ calling = None /\ inside = None
MemoryOff == asks = None /\ mem = None /\ given = None
ObjectsOff == store = None /\ want = None
ContextsOff ==
  /\ slots = None /\ cursor = None /\ task = None /\ doing = None
  /\ own = None /\ holding = None /\ strays = None /\ begun = None
AdmissionOff ==
  /\ policy = None /\ total = None /\ tenant = None /\ phase = None /\ epoch = None
  /\ tickets = None /\ acts = None /\ tokens = None /\ withdrawn = None

MCInit ==
  /\ way \in {"queue", "pool", "wheel", "memory", "objects", "contexts", "admission"}
  /\ Init
  /\ IF way = "pool" THEN P!Init ELSE PoolOff
  /\ IF way = "wheel" THEN T!Init ELSE WheelOff
  /\ IF way = "memory" THEN M!Init ELSE MemoryOff
  /\ IF way = "objects" THEN K!Init ELSE ObjectsOff
  /\ IF way = "contexts" THEN C!Init ELSE ContextsOff
  /\ IF way = "admission" THEN A!Init ELSE AdmissionOff

MCNext ==
  /\ UNCHANGED way
  /\ IF way = "queue" THEN Next ELSE UNCHANGED vars
  /\ IF way = "pool" THEN P!Next ELSE UNCHANGED pool
  /\ IF way = "wheel" THEN T!Next ELSE UNCHANGED wheel
  /\ IF way = "memory" THEN M!Next ELSE UNCHANGED memory
  /\ IF way = "objects" THEN K!Next ELSE UNCHANGED objects
  /\ IF way = "contexts" THEN C!Next ELSE UNCHANGED contexts
  /\ IF way = "admission" THEN A!Next ELSE UNCHANGED admission

all == <<way, vars, pool, wheel, memory, objects, contexts, admission>>

MCSpec == MCInit /\ [][MCNext]_all

Symmetry == Permutations(Producers) \cup Permutations(Consumers)
              \cup Permutations(Values)

(* No index of the pool is in two hands, and none is lost: the free list   *)
(* has every index that nobody holds and nobody is giving back.            *)
HandedOutOnce == way = "pool" => P!HandedOutOnce

(* What the memory pool has handed out is large enough and nobody else's,  *)
(* and the rest is where it is found again.  A slot of a pool of objects   *)
(* has what was put there, and each object is destroyed once.              *)
MemoryExact ==
  /\ way = "memory" => M!PoolExact
  /\ way = "objects" => K!SlotsExact

(* A context stays who it is for as long as there is a reference, and its  *)
(* slot is free when there is none.  As many tokens are out as are         *)
(* counted, and no more than there may be.                                 *)
ReferencesExact ==
  /\ way = "contexts" => C!ReferencesExact
  /\ way = "admission" => A!TokensExact

(* Nobody is overdue when advance returns; every active timer hangs in one *)
(* place, and the count is theirs.                                         *)
NobodyOverdue == way = "wheel" => T!NobodyOverdue
=============================================================================
