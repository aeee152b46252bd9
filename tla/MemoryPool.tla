----------------------------- MODULE MemoryPool -----------------------------
(***************************************************************************)
(* memory_pool of include/part/memory/memory_pool.hpp: blocks with headers *)
(* in chunks, free lists by two levels of size, a cache of small blocks,   *)
(* a wilderness, and a stock of chunks.  Sequential: an action is a call.  *)
(*                                                                         *)
(* An address is a number, the distance of two chunks is larger than any   *)
(* chunk.  Contents are left out, and so is a failing operator new.  What  *)
(* is called with a pointer has a live one, or one whose header stands.    *)
(***************************************************************************)
EXTENDS Integers, Sequences, FiniteSets, SequencesExt, FiniteSetsExt, Functions

CONSTANTS
  Align,      (* ALIGNMENT, HEADER_SIZE and SL_COUNT, which are equal      *)
  Places,     (* where operator new puts chunks, first choice first        *)
  Tiers,      (* TIER_SIZES                                                *)
  TierRoom,   (* MAX_FREE_PER_TIER                                         *)
  ChunkSize,  (* chunk_size_                                               *)
  SmallMax, CacheLimit, CacheHigh,
  Plans       (* what is asked for, a plan a behaviour: sizes, alignments, *)
              (* sizes to resize to, capacities to raise or cut to, and a  *)
              (* bound on what is live at a time                           *)

MemoryAssumption ==
  /\ Align \in {2^i : i \in 1..4} /\ SmallMax % Align = 0
  /\ \A i \in DOMAIN Tiers : Tiers[i] % Align = 0 /\ Tiers[i] > 2 * Align
  /\ CacheLimit < CacheHigh
  /\ \A plan \in Plans : plan.sizes \subseteq Nat \ {0} /\ plan.resizes \subseteq Nat \ {0}

VARIABLES
  asks,  (* the plan                                                       *)
  mem,   (* the pool                                                       *)
  given  (* history: what has been asked for at each live pointer          *)

vars == <<asks, mem, given>>

Nowhere == -1
Pointer == Align \div 2
MinSplit == 2 * Align
Up(n, a) == ((n + a - 1) \div a) * a
Small == 1..SmallMax \div Align
Largest == Max(Range(Tiers) \cup {Up(n, Align) + 2 * Align :
                n \in UNION {plan.sizes \cup plan.resizes \cup plan.capacities : plan \in Plans}})

Header(size, use, prev) == [size |-> size, use |-> use, raw |-> FALSE, prev |-> prev]

(* size_to_index, in two levels; and the class from which every block will *)
(* do: the size is rounded up to the next class.                           *)
Level(n) == CHOOSE f \in 0..n : 2^f <= n /\ n < 2^(f + 1)
Class(n) == <<Level(n), (n * Align) \div 2^Level(n) - Align>>
SearchClass(n) == Class(n + 2^Level(n) \div Align - 1)
Classes == {Class(n) : n \in Align..Largest}
AtLeast(c, d) == c[1] > d[1] \/ (c[1] = d[1] /\ c[2] >= d[2])

Fresh ==
  [head |-> << >>, lists |-> [c \in Classes |-> << >>], bits |-> {}, wild |-> Nowhere,
   small |-> [k \in Small |-> << >>], trim |-> 1, chunks |-> << >>,
   stock |-> [i \in DOMAIN Tiers |-> << >>], aligned |-> {},
   frees |-> 0, cached |-> 0, live |-> 0]

Init == asks \in Plans /\ mem = Fresh /\ given = << >>

SizeAt(m, b) == m.head[b].size
After(m, b) == b + Align + SizeAt(m, b)
Use(m, b, use) == [m EXCEPT !.head[b].use = use]
IsFree(m, b) == m.head[b].use = "free"

-----------------------------------------------------------------------------
(* Free lists: add_to_free_list, remove_from_free_list, and what takes a   *)
(* free block from wherever it is.                                         *)

Link(m, b) ==
  LET c == Class(SizeAt(m, b))
  IN  [m EXCEPT !.lists[c] = <<b>> \o @, !.bits = @ \cup {c}, !.frees = @ + 1]

Unlink(m, b) ==
  LET c == Class(SizeAt(m, b))
      rest == SelectSeq(m.lists[c], LAMBDA x : x # b)
  IN  [m EXCEPT !.lists[c] = rest, !.bits = IF rest = << >> THEN @ \ {c} ELSE @,
                !.frees = @ - 1]

Detach(m, b) ==
  IF b = m.wild THEN [m EXCEPT !.wild = Nowhere, !.frees = @ - 1] ELSE Unlink(m, b)

(* The wilderness goes to the lists. *)
Tame(m) ==
  IF m.wild = Nowhere THEN m
  ELSE [Link(m, m.wild) EXCEPT !.wild = Nowhere, !.frees = @ - 1]

-----------------------------------------------------------------------------
(* split_block and merge_adjacent_blocks *)

(* variant: the block behind does not learn who precedes it now *)
TakeInQuiet(m, b) ==
  LET gone == After(m, b)
      grown == [m.head EXCEPT ![b].size = @ + Align + SizeAt(m, gone)]
  IN  [m EXCEPT !.head = Restrict(grown, DOMAIN grown \ {gone})]

(* b takes in the block behind it. *)
TakeIn(m, b) ==
  LET gone == After(m, b)
      grown == [m.head EXCEPT ![b].size = @ + Align + SizeAt(m, gone)]
  IN  [m EXCEPT !.head = [x \in DOMAIN m.head \ {gone} |->
                            IF x = After(m, gone) THEN [grown[x] EXCEPT !.prev = b]
                            ELSE grown[x]]]

Merge(m, b) ==
  LET right == IF IsFree(m, After(m, b)) THEN TakeIn(Detach(m, After(m, b)), b) ELSE m
      left == right.head[b].prev
  IN  IF left # Nowhere /\ IsFree(right, left)
        THEN Link(TakeIn(Detach(right, left), left), left)
        ELSE Link(right, b)

Split(m, b, size) ==
  LET tail == b + Align + size
      cut == [m.head EXCEPT ![b].size = size, ![After(m, b)].prev = tail]
  IN  IF SizeAt(m, b) < size + MinSplit THEN m
      ELSE Link([m EXCEPT !.head = (tail :> Header(SizeAt(m, b) - size - Align, "free", b)) @@ cut],
                  tail)

(* The wilderness is split without a word to what follows, its sentinel.   *)
CutWild(m, size) ==
  LET b == m.wild
      tail == b + Align + size
      used == Header(size, "used", m.head[b].prev)
  IN  IF SizeAt(m, b) < size + MinSplit
        THEN [Use(m, b, "used") EXCEPT !.wild = Nowhere, !.frees = @ - 1]
        ELSE [m EXCEPT !.wild = tail,
                       !.head = (b :> used) @@ (tail :> Header(SizeAt(m, b) - size - Align, "free", b))
                                @@ m.head]

-----------------------------------------------------------------------------
(* The cache of small blocks *)

Uncache(m, b) ==
  [Use(m, b, "free") EXCEPT !.small[SizeAt(m, b) \div Align] = Tail(@),
                            !.frees = @ - 1, !.cached = @ - 1]
Melt(m, bs) == FoldLeft(LAMBDA acc, b : Merge(Uncache(acc, b), b), m, bs)

(* flush_cache: the wilderness first, then class by class. *)
Flush(m) == FoldLeft(LAMBDA acc, k : Melt(acc, acc.small[k]), Tame(m),
                     [k \in Small |-> k])

(* trim_cache_ *)
Trim(m) ==
  LET over(a) == IF a.cached <= CacheLimit THEN 0
                 ELSE Min({a.cached - CacheLimit, Len(a.small[a.trim])})
      turn(a) == [Melt(a, SubSeq(a.small[a.trim], 1, over(a))) EXCEPT
                    !.trim = (a.trim % (SmallMax \div Align)) + 1]
  IN  FoldLeft(LAMBDA acc, k : IF acc.cached <= CacheLimit THEN acc ELSE turn(acc),
               m, [k \in Small |-> k])

-----------------------------------------------------------------------------
(* Chunks: chunk_pool and add_new_chunk *)

Tier(n) == Min({i \in DOMAIN Tiers : n <= Tiers[i]} \cup {Len(Tiers) + 1})
Stocked(m) == UNION {Range(m.stock[i]) : i \in DOMAIN Tiers}
Unused(m) == SelectSeq(Places, LAMBDA p : p \notin DOMAIN m.chunks \cup Stocked(m))
Reserved(m) ==
  SumFunction(m.chunks) + FoldLeft(LAMBDA acc, i : acc + Len(m.stock[i]) * Tiers[i], 0,
                                   [i \in DOMAIN Tiers |-> i])

Need(least) == Up(Max({least + 2 * Align, ChunkSize}), Align)
Again(m, least) ==
  LET i == Tier(Need(least)) IN i \in DOMAIN Tiers /\ m.stock[i] # << >>

NewChunk(m, least) ==
  LET i == Tier(Need(least))
      again == Again(m, least)
      at == IF again THEN Head(m.stock[i]) ELSE Head(Unused(m))
      size == IF i \in DOMAIN Tiers THEN Tiers[i] ELSE Need(least)
      end == at + size - Align
      made == [m EXCEPT
                 !.stock = IF again THEN [@ EXCEPT ![i] = Tail(@)] ELSE @,
                 !.chunks = (at :> size) @@ @,
                 !.head = (at :> Header(size - 2 * Align, "free", Nowhere))
                          @@ (end :> Header(0, "used", at)) @@ @]
  IN  IF m.wild # Nowhere THEN Link(made, at)
      ELSE [made EXCEPT !.wild = at, !.frees = @ + 1]

(* acquire_block: the cache, the wilderness, the lists, a new chunk. *)
Found(m, size) ==
  LET fit == {c \in m.bits : AtLeast(c, SearchClass(size))}
  IN  {c \in fit : \A d \in fit : AtLeast(d, c)}

FromLists(m, size, c) ==
  LET b == Head(m.lists[c])
  IN  IF SizeAt(m, b) < size THEN [pool |-> Link(Unlink(m, b), b), block |-> Nowhere]
      ELSE [pool |-> Use(Split(Unlink(m, b), b, size), b, "used"), block |-> b]

FromWild(m, size) == [pool |-> CutWild(m, size), block |-> m.wild]

FromCache(m, size) ==
  LET k == size \div Align
      b == Head(m.small[k])
  IN  [pool |-> [Use(m, b, "used") EXCEPT !.small[k] = Tail(@), !.frees = @ - 1,
                                          !.cached = @ - 1],
       block |-> b]

Block(m, size) ==
  IF size <= SmallMax /\ m.small[size \div Align] # << >> THEN FromCache(m, size)
  ELSE IF m.wild # Nowhere /\ SizeAt(m, m.wild) >= size THEN FromWild(m, size)
  ELSE LET tamed == Tame(m)
       IN  IF Found(tamed, size) # {}
             THEN FromLists(tamed, size, CHOOSE c \in Found(tamed, size) : TRUE)
             ELSE FromWild(NewChunk(IF tamed.cached > 0 THEN Flush(tamed) ELSE tamed, size), size)

(* release_block *)
Release(m, b, hard, bytes) ==
  LET k == SizeAt(m, b) \div Align
      freed == [Use(m, b, "free") EXCEPT !.live = @ - bytes]
      kept == [Use(freed, b, "cached") EXCEPT !.small[k] = <<b>> \o @, !.frees = @ + 1,
                                              !.cached = @ + 1]
  IN  IF ~ hard /\ SizeAt(m, b) <= SmallMax
        THEN IF kept.cached >= CacheHigh THEN Trim(kept) ELSE kept
      ELSE IF hard THEN Merge(freed, b)
      ELSE Link(freed, b)

(* validate_live_block, and find_aligned. *)
Blocks(m) == {b \in DOMAIN m.head : SizeAt(m, b) # 0}
Valid(m, p) ==
  LET b == p - Align
      prev == m.head[b].prev
  IN  /\ b \in Blocks(m) /\ m.head[b].use = "used"
      /\ IF prev = Nowhere THEN b \in DOMAIN m.chunks
         ELSE prev \in Blocks(m) /\ After(m, prev) = b
      /\ LET next == After(m, b)
         IN  SizeAt(m, next) # 0 => m.head[next].prev = b
Records(m, p) == {r \in m.aligned : r.user = p}
Owns(m, p) == Records(m, p) # {} \/ (Valid(m, p) /\ ~ m.head[p - Align].raw)
SizeOf(m, p) == IF Records(m, p) # {} THEN (CHOOSE r \in Records(m, p) : TRUE).size
                ELSE SizeAt(m, p - Align)

-----------------------------------------------------------------------------
(* The calls *)

(* A new chunk has its place. *)
CanGrow(m) == Unused(m) # << >>
Fits(m, size) ==
  \/ CanGrow(m) \/ Again(m, size)
  \/ size <= SmallMax /\ m.small[size \div Align] # << >>
  \/ m.wild # Nowhere /\ SizeAt(m, m.wild) >= size
  \/ Found(Tame(m), size) # {}
Forget(p) == given' = Restrict(given, DOMAIN given \ {p})

AllocPlain(m, bytes) ==
  LET got == Block(m, Up(bytes, Align))
  IN  IF got.block = Nowhere THEN [pool |-> got.pool, user |-> Nowhere]
      ELSE [pool |-> [got.pool EXCEPT !.live = @ + SizeAt(got.pool, got.block)],
            user |-> got.block + Align]

RawSize(bytes, alignment) == Up(bytes + alignment + Pointer, Align)

AllocAligned(m, bytes, a) ==
  LET got == Block(m, RawSize(bytes, a))
      raw == got.block + Align
      user == Up(raw + Pointer, a)
  IN  IF got.block = Nowhere THEN [pool |-> got.pool, user |-> Nowhere]
      ELSE [pool |-> [got.pool EXCEPT !.head[got.block].raw = TRUE, !.live = @ + bytes,
                        !.aligned = @ \cup {[user |-> user, raw |-> raw, size |-> bytes,
                                             alignment |-> a]}],
            user |-> user]

Give(bytes, alignment, got, others) ==
  /\ mem' = got.pool
  /\ given' = IF got.user = Nowhere THEN others
              ELSE (got.user :> [size |-> bytes, alignment |-> alignment]) @@ others

Acquire(bytes) ==
  /\ Fits(mem, Up(bytes, Align)) /\ Cardinality(DOMAIN given) < asks.live
  /\ Give(bytes, Align, AllocPlain(mem, bytes), given)

AcquireAligned(bytes, alignment) ==
  LET a == Max({alignment, Align})
  IN  /\ Fits(mem, RawSize(bytes, a)) /\ Cardinality(DOMAIN given) < asks.live
      /\ Give(bytes, a, AllocAligned(mem, bytes, a), given)

(* release_validated and release_aligned *)
Released(m, p, hard) ==
  IF Records(m, p) # {}
    THEN LET r == CHOOSE x \in Records(m, p) : TRUE
             b == r.raw - Align
         IN  IF Valid(m, r.raw) /\ m.head[b].raw /\ r.size <= SizeAt(m, b)
               THEN Release([m EXCEPT !.aligned = @ \ {r}, !.head[b].raw = FALSE], b, hard, r.size)
               ELSE m
  ELSE IF Valid(m, p) /\ ~ m.head[p - Align].raw
    THEN Release(m, p - Align, hard, SizeAt(m, p - Align))
  ELSE m

Delete(p, hard) == mem' = Released(mem, p, hard) /\ Forget(p)

(* resize_inplace, and resize, which moves what cannot grow where it is. *)
CanExtend(m, p, bytes) ==
  LET b == p - Align
      next == After(m, b)
  IN  /\ Valid(m, p) /\ ~ m.head[b].raw
      /\ \/ Up(bytes, Align) <= SizeAt(m, b)
         \/ IsFree(m, next) /\ SizeAt(m, b) + Align + SizeAt(m, next) >= Up(bytes, Align)

Extended(m, p, bytes) ==
  LET b == p - Align
      grown == Split(TakeIn(Detach(m, After(m, b)), b), b, Up(bytes, Align))
  IN  IF Up(bytes, Align) <= SizeAt(m, b) THEN m
      ELSE [grown EXCEPT !.live = @ + SizeAt(grown, b) - SizeAt(m, b)]

Resize(p, bytes) ==
  LET a == IF Records(mem, p) # {} THEN given[p].alignment ELSE Align
      got == IF a > Align THEN AllocAligned(mem, bytes, a) ELSE AllocPlain(mem, bytes)
      moved == got.user # Nowhere
  IN  IF Records(mem, p) = {} /\ CanExtend(mem, p, bytes)
        THEN /\ mem' = Extended(mem, p, bytes)
             /\ given' = [given EXCEPT ![p].size = bytes]
        ELSE /\ Fits(mem, IF a > Align THEN RawSize(bytes, a) ELSE Up(bytes, Align))
             /\ Give(bytes, a, IF moved THEN [got EXCEPT !.pool = Released(@, p, FALSE)] ELSE got,
                     IF moved THEN Restrict(given, DOMAIN given \ {p}) ELSE given)

(* reset keeps the chunks it has room for, release_all none. *)
Keep(m) ==
  FoldLeft(LAMBDA acc, c :
             LET i == Tier(m.chunks[c])
             IN  IF i \in DOMAIN Tiers /\ Len(acc[i]) < TierRoom
                   THEN [acc EXCEPT ![i] = <<c>> \o @] ELSE acc,
           m.stock, SetToSortSeq(DOMAIN m.chunks, <))
Reset == mem' = [Fresh EXCEPT !.stock = Keep(mem)] /\ given' = << >>
ReleaseAll == mem' = Fresh /\ given' = << >>

(* One chunk after the other until there is enough; a chunk of the stock   *)
(* was counted before.                                                     *)
IncreaseCapacity(n) ==
  LET can(m) == CanGrow(m) \/ Again(m, n - Reserved(m))
      more(m) == IF Reserved(m) < n /\ can(m) THEN NewChunk(m, n - Reserved(m)) ELSE m
      grown == FoldLeft(LAMBDA acc, k : more(acc), mem, Places \o Tiers)
  IN  /\ Reserved(grown) >= n
      /\ mem' = grown /\ UNCHANGED given

DropStock(m, n) ==
  FoldLeft(LAMBDA acc, i :
             [acc EXCEPT !.stock[i] =
                SubSeq(@, Min({Len(@), (Max({0, Reserved(acc) - n}) + Tiers[i] - 1) \div Tiers[i]}) + 1,
                       Len(@))],
           m, [i \in DOMAIN Tiers |-> i])

DropChunk(m, c) ==
  LET without == Unlink(m, c)
  IN  [without EXCEPT !.chunks = Restrict(@, DOMAIN @ \ {c}),
                      !.head = Restrict(@, DOMAIN @ \ {c, After(m, c)})]

ReduceCapacity(n) ==
  /\ n < Reserved(mem)
  /\ mem' = FoldLeft(LAMBDA acc, c :
                       IF Reserved(acc) > n /\ IsFree(acc, c) /\ SizeAt(acc, c) = acc.chunks[c] - 2 * Align
                         THEN DropChunk(acc, c) ELSE acc,
                     DropStock(Flush(mem), n), SetToSortSeq(DOMAIN mem.chunks, <))
  /\ UNCHANGED given

Next ==
  /\ UNCHANGED asks
  /\ \/ \E n \in asks.sizes : Acquire(n) \/ \E a \in asks.alignments : AcquireAligned(n, a)
     \/ \E p \in DOMAIN given \cup {b + Align : b \in Blocks(mem)}, hard \in BOOLEAN :
          Delete(p, hard)
     \/ \E p \in DOMAIN given, n \in asks.resizes : Resize(p, n)
     \/ \E n \in asks.capacities : IncreaseCapacity(n) \/ ReduceCapacity(n)
     \/ Reset \/ ReleaseAll

-----------------------------------------------------------------------------
(* Properties *)

Inner(m, b) == b \notin {c + m.chunks[c] - Align : c \in DOMAIN m.chunks}

(* The blocks tile the chunks, each knows the one before it; the free ones *)
(* are where they are looked for, once, and the counts are right.          *)
Tiled(m) ==
  /\ DOMAIN m.chunks \subseteq DOMAIN m.head
  /\ Blocks(m) = {b \in DOMAIN m.head : Inner(m, b)}
  /\ \A b \in Blocks(m) :
       /\ After(m, b) \in DOMAIN m.head
       /\ \A x \in DOMAIN m.head : ~ (b < x /\ x < After(m, b))
       /\ Inner(m, After(m, b)) => m.head[After(m, b)].prev = b
       /\ m.head[b].prev = Nowhere <=> b \in DOMAIN m.chunks

OnLists(m, b) ==
  (IF b = m.wild THEN 1 ELSE 0)
    + Len(SelectSeq(m.lists[Class(SizeAt(m, b))], LAMBDA x : x = b))
Listed(m) ==
  LET free == {b \in Blocks(m) : m.head[b].use = "free"}
      kept == {b \in Blocks(m) : m.head[b].use = "cached"}
  IN  /\ \A b \in free : OnLists(m, b) = 1
      /\ \A b \in kept : Len(SelectSeq(m.small[SizeAt(m, b) \div Align], LAMBDA x : x = b)) = 1
      /\ m.bits = {c \in DOMAIN m.lists : m.lists[c] # << >>}
      /\ m.frees = Cardinality(free) + Cardinality(kept) /\ m.cached = Cardinality(kept)
      /\ SumFunction([c \in DOMAIN m.lists |-> Len(m.lists[c])]) + (IF m.wild = Nowhere THEN 0 ELSE 1)
           = Cardinality(free)
      /\ SumFunction([k \in Small |-> Len(m.small[k])]) = m.cached

(* Whatever is live is owned, large enough, aligned, and nobody else's.    *)
Span(m, p) == IF Records(m, p) = {} THEN SizeAt(m, p - Align) ELSE given[p].size
Honoured ==
  /\ \A p \in DOMAIN given :
       /\ Owns(mem, p) /\ SizeOf(mem, p) >= given[p].size /\ p % given[p].alignment = 0
       /\ \E b \in Blocks(mem) : mem.head[b].use = "used" /\ b + Align <= p
                                  /\ p + given[p].size <= After(mem, b)
       /\ \A q \in DOMAIN given : p < q => p + Span(mem, p) <= q
  /\ Cardinality(DOMAIN given) = Cardinality({b \in Blocks(mem) : mem.head[b].use = "used"})
  /\ mem.live = SumFunction([p \in DOMAIN given |-> SizeOf(mem, p)])

PoolExact == Tiled(mem) /\ Listed(mem) /\ Honoured
=============================================================================
