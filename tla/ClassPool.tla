----------------------------- MODULE ClassPool -----------------------------
(***************************************************************************)
(* class_pool of include/part/class_pool.hpp and class_pool_impl.hpp: an   *)
(* array with holes.  Two bitmaps say which slots are elements (sparse) and *)
(* which hold an object that is still to be destroyed (live): a soft       *)
(* deletion takes a slot out of the first and leaves it in the second.     *)
(* A flag that there is no hole, the number of holes, the word to look for *)
(* one and the number of elements are kept beside the bitmaps, each call   *)
(* in its own way, so that most calls need not read them.                  *)
(*                                                                         *)
(* T is a type with a destructor or one that is copied byte by byte.       *)
(***************************************************************************)
EXTENDS Integers, Sequences, SequencesExt, FiniteSets

CONSTANTS
  Elements,         (* the values that are put into the pool               *)
  Blank,            (* T{}                                                 *)
  Hole,             (* no object, no element                               *)
  WordBits,         (* BITS_PER_WORD                                       *)
  DefaultCapacity,  (* DEFAULT_CAPACITY                                    *)
  Unknown,          (* size_t(-1): hole_count_ and count_cache_            *)
  Cuts,             (* the capacities the pool is reduced to               *)
  MaxSize           (* bound on size()                                     *)

ClassPoolAssumption ==
  /\ Hole \notin Elements \cup {Blank}
  /\ WordBits \in Nat \ {0} /\ DefaultCapacity \in Nat \ {0}
  /\ Cuts \subseteq Nat /\ MaxSize \in Nat
  /\ Unknown \notin Nat

VARIABLES
  store, (* the members of the pool; slots[i] is the object at i           *)
  want   (* history: what the pool should contain, element or Hole         *)

vars == <<store, want>>

NoIndex == -1
Positions == 0..MaxSize-1
Word(i) == i \div WordBits
WordSet(w) == w * WordBits .. (w + 1) * WordBits - 1

Init ==
  /\ store \in [slots : {[i \in Positions |-> Hole]}, sparse : {{}}, live : {{}},
               room : {0}, size : {0}, dense : {TRUE}, cached : {Unknown}, holes : {0},
               hint : {0}, trivial : BOOLEAN, wrong : {FALSE}]
  /\ want = << >>

-----------------------------------------------------------------------------
(* Objects *)

(* Placement new; over an object that was not destroyed it is a leak. *)
Construct(p, i, v) ==
  [p EXCEPT !.slots[i] = v, !.wrong = @ \/ (~ p.trivial /\ p.slots[i] # Hole)]

Destroy(p, i) ==
  [p EXCEPT !.slots[i] = IF p.trivial THEN @ ELSE Hole,
            !.wrong = @ \/ (~ p.trivial /\ p.slots[i] = Hole)]

(* Assignment needs an object. *)
Assign(p, i, v) ==
  [p EXCEPT !.slots[i] = v, !.wrong = @ \/ (~ p.trivial /\ p.slots[i] = Hole)]

DestroyAll(p, is) == FoldLeft(Destroy, p, SetToSeq(is))

Set(p, is) == [p EXCEPT !.sparse = @ \cup is, !.live = @ \cup is]
(* What bytes stay behind is nobody's value. *)
Reset(p, is) ==
  [p EXCEPT !.sparse = @ \ is, !.live = @ \ is,
            !.slots = IF p.trivial THEN [i \in Positions |-> IF i \in is THEN Hole ELSE @[i]]
                                   ELSE @]

(* ~T and the reset of the live bit, where the live bit is set. *)
Drop(p, i) ==
  IF i \in p.live THEN [Destroy(p, i) EXCEPT !.live = @ \ {i}] ELSE p

(* Objects that are copied byte by byte are moved with one memmove. *)
MoveBytes(p, from, to, n) ==
  [p EXCEPT !.slots = [i \in Positions |->
     IF i \in to .. to + n - 1 THEN p.slots[i - to + from] ELSE p.slots[i]]]

(* Capacities grow by four from the first; elements and bits stay. *)
Rooms == {DefaultCapacity * 4^k : k \in 0..MaxSize}
Reserve(n) == CHOOSE r \in Rooms : r >= n /\ \A s \in Rooms : s >= n => r <= s
Grow(p, n) == [p EXCEPT !.room = IF n > p.room THEN Reserve(n) ELSE @]
GrowOne(p) ==
  [p EXCEPT !.room = IF p.size < @ THEN @ ELSE IF @ = 0 THEN DefaultCapacity ELSE @ * 4]

Forget(p) == [p EXCEPT !.cached = Unknown]

(* recompute_is_dense and update_dense_status *)
Recompute(p) ==
  LET n == p.size - Cardinality(p.sparse \cap (0 .. p.size - 1))
  IN  [p EXCEPT !.dense = n = 0, !.holes = n]
Update(p) ==
  IF p.dense THEN p
    ELSE IF p.holes = Unknown THEN Recompute(p)
    ELSE [p EXCEPT !.dense = p.holes = 0]

More(p, n) == [p EXCEPT !.holes = IF @ = Unknown THEN @ ELSE @ + n]
Fewer(p) == [p EXCEPT !.holes = IF @ \notin {0, Unknown} THEN @ - 1 ELSE Unknown]

-----------------------------------------------------------------------------
(* bitmap_shift_right_one: the bits from start to end - 1 move up by one,  *)
(* word by word with a carry; the bit at start stays.                      *)

ShiftRightOne(bits, start, end) ==
  LET Up(s)    == {i + 1 : i \in s}
      Of(w)    == bits \cap WordSet(w)
      First(w) == w * WordBits
      Carry(w) == IF First(w) - 1 \in bits THEN {First(w)} ELSE {}
      Kept     == bits \cap {start}
      Shifted(w) ==
        IF Word(start) = Word(end)
          THEN (Of(w) \ (start .. end)) \cup (Up(Of(w) \cap (start .. end)) \cap (start .. end))
                 \cup Kept
        ELSE IF w = Word(start)
          THEN {i \in Of(w) : i < start}
                 \cup (Up({i \in Of(w) : i >= start}) \cap WordSet(w)) \cup Kept
        ELSE IF w < Word(end)
          THEN (Up(Of(w)) \cap WordSet(w)) \cup Carry(w)
        ELSE IF end = First(w)
          THEN (Of(w) \ {end}) \cup Carry(w)
        ELSE {i \in Of(w) : i > end} \cup Up({i \in Of(w) : i < end}) \cup Carry(w)
  IN  IF start >= end THEN bits
        ELSE UNION {IF w \in Word(start) .. Word(end) THEN Shifted(w) ELSE Of(w) :
                      w \in 0 .. Word(MaxSize)}

-----------------------------------------------------------------------------
(* emplace_back and the calls that append several *)

Back(p, v) ==
  LET q == GrowOne([p EXCEPT !.cached = IF @ = Unknown THEN @ ELSE @ + 1])
  IN  [Set(Construct(q, q.size, v), {q.size}) EXCEPT !.size = @ + 1]

Extend(p, n, v) ==
  LET q == FoldLeft(LAMBDA r, i : Construct(r, i, v), Grow(Forget(p), n),
                    [k \in 1 .. n - p.size |-> p.size + k - 1])
  IN  [Set(q, p.size .. n - 1) EXCEPT !.size = n]

Repeat(v, n) == [k \in 1 .. n |-> v]

EmplaceBack(v) ==
  /\ store.size < MaxSize
  /\ store' = Back(store, v)
  /\ want' = Append(want, v)

(* append_bulk, append_generated and, with a length, resize_fill *)
AppendBulk(n, v) ==
  /\ store.size + n <= MaxSize
  /\ store' = Extend(store, store.size + n, v)
  /\ want' = want \o Repeat(v, n)

PrepareDense(n) ==
  /\ store' = Recompute(IF n > store.size THEN Extend(store, n, Blank)
                                        ELSE Grow(Forget(store), n))
  /\ want' = want \o Repeat(Blank, n - store.size)

(* The slots between the old end and start become default objects. *)
FillBulk(v, start, n) ==
  LET end == start + n
      p   == Grow(Forget(store), end)
      gap == IF end > p.size THEN p.size .. start - 1 ELSE {}
      q   == FoldLeft(LAMBDA r, i : Construct(r, i, Blank), Set(p, gap), SetToSeq(gap))
      One(r, i) == Construct(IF ~ p.trivial /\ i \in r.live THEN Destroy(r, i) ELSE r, i, v)
      f   == FoldLeft(One, q, [k \in 1 .. n |-> start + k - 1])
      all == IF end > p.size THEN end ELSE p.size
  IN  /\ end <= MaxSize
      /\ store' = Recompute([Set(f, start .. end - 1) EXCEPT !.size = all])
      /\ want' = [k \in 1 .. all |->
           IF k - 1 \in start .. end - 1 THEN v
             ELSE IF k <= Len(want) THEN want[k] ELSE Blank]

-----------------------------------------------------------------------------
(* emplace_at, sparse_erase_at, soft_dense_delete, fill_the_hole *)

PutAt(p0, i, v) ==
  LET p == Grow(Forget(p0), i + 1)
      extended == i >= p.size
      q == IF extended
             THEN [More(p, i - p.size) EXCEPT !.size = i + 1,
                                              !.dense = @ /\ i = p.size]
             ELSE p
      Renew(r) == Set(Construct(IF r.trivial THEN r ELSE [Destroy(r, i) EXCEPT !.live = @ \ {i}],
                                i, v), {i})
  IN  IF (q.dense /\ ~ extended) \/ i \in q.sparse THEN Renew(q)
        ELSE LET r == Set(Construct(Drop(q, i), i, v), {i})
             IN  Update(IF extended THEN r ELSE Fewer(r))

Put(s, i, v) ==
  [k \in 1 .. (IF i < Len(s) THEN Len(s) ELSE i + 1) |->
     IF k = i + 1 THEN v ELSE IF k <= Len(s) THEN s[k] ELSE Hole]

EmplaceAt(i, v) ==
  /\ store' = PutAt(store, i, v)
  /\ want' = Put(want, i, v)

SparseEraseAt(i) ==
  LET p == Forget(store)
      q == Reset(IF i \in p.live THEN Destroy(p, i) ELSE p, {i})
  IN  /\ i < p.room /\ i \in p.sparse \cup p.live
      /\ store' = IF i \in p.sparse THEN [More(q, 1) EXCEPT !.dense = FALSE] ELSE q
      /\ want' = Put(want, i, Hole)

(* variant: counts the slots of the range, holes among them *)
SoftDeleteWhole(start, end) ==
  LET gone == start .. end - 1
      cut  == gone \cap store.sparse
      p    == [Forget(store) EXCEPT !.sparse = @ \ gone]
  IN  /\ start < end /\ end <= store.size
      /\ store' = IF cut = {} THEN p
                   ELSE [More(p, end - start) EXCEPT !.dense = FALSE]
      /\ want' = [k \in 1 .. Len(want) |-> IF k - 1 \in gone THEN Hole ELSE want[k]]

SoftDelete(start, end) ==
  LET gone == start .. end - 1
      cut  == gone \cap store.sparse
      p    == [Forget(store) EXCEPT !.sparse = @ \ gone]
  IN  /\ start < end /\ end <= store.size
      /\ store' = IF cut = {} THEN p
                   ELSE [More(p, Cardinality(cut)) EXCEPT !.dense = FALSE]
      /\ want' = [k \in 1 .. Len(want) |-> IF k - 1 \in gone THEN Hole ELSE want[k]]

(* find_first_hole_: whole words from the hint on, then the words before   *)
(* it, then the rest of the last word.                                     *)
FirstHole(p) ==
  LET words == {w \in 0 .. Word(p.size) - 1 : ~ WordSet(w) \subseteq p.sparse}
      tail  == (Word(p.size) * WordBits .. p.size - 1) \ p.sparse
      ahead == {w \in words : w >= p.hint}
      Least(s) == CHOOSE x \in s : \A y \in s : x <= y
      In(w) == [word |-> w, index |-> Least(WordSet(w) \ p.sparse)]
  IN  IF p.holes # 0 /\ ahead # {} THEN In(Least(ahead))
        ELSE IF p.holes # 0 /\ words # {} THEN In(Least(words))
        ELSE IF p.holes # 0 /\ tail # {}
          THEN [word |-> Word(p.size), index |-> Least(tail)]
        ELSE [word |-> p.hint, index |-> NoIndex]

FillTheHole(v) ==
  LET at == FirstHole(store)
      p  == [store EXCEPT !.hint = at.word]
      empty == {k \in 0 .. Len(want) - 1 : want[k + 1] = Hole}
  IN  /\ at.index = NoIndex => store.size < MaxSize
      /\ store' = IF at.index = NoIndex THEN Back(p, v) ELSE PutAt(p, at.index, v)
      /\ want' = IF empty = {} THEN Append(want, v)
                   ELSE Put(want, IF at.index \in empty THEN at.index
                                    ELSE CHOOSE k \in empty : TRUE, v)

-----------------------------------------------------------------------------
(* emplace in front of an element *)

(* Among holes the elements are moved one by one from the last; an object  *)
(* stays behind for the next to be assigned to, unless a hole comes next.  *)
MoveUp(p, i, first) ==
  LET to == i + 1
      q  == [IF to < p.size /\ to \in p.live THEN Assign(p, to, p.slots[i])
                                             ELSE Construct(p, to, p.slots[i])
             EXCEPT !.live = @ \cup {to}]
  IN  IF i > first /\ i - 1 \notin p.sparse
        THEN [Destroy(q, i) EXCEPT !.live = @ \ {i}] ELSE q

Emplace(i, v) ==
  LET p == GrowOne(Forget(store))
      last == p.size - 1
      bytes == MoveBytes(p, i, i + 1, p.size - i)
      solid ==
        LET moved == FoldLeft(LAMBDA r, j : Assign(r, j, r.slots[j - 1]),
                              Construct(p, p.size, p.slots[last]),
                              [k \in 1 .. last - i |-> last + 1 - k])
        IN  [Destroy(moved, i) EXCEPT !.live = @ \ {i}]
      loose == Drop(FoldLeft(LAMBDA r, j : MoveUp(r, j, i), p,
                             Reverse(SetToSortSeq({j \in p.sparse : j >= i}, <))), i)
      q == IF p.trivial THEN bytes ELSE IF p.dense THEN solid ELSE loose
      r == IF p.dense THEN Set(q, {p.size})
             ELSE [q EXCEPT !.sparse = ShiftRightOne(@, i, p.size), !.holes = Unknown]
  IN  /\ i \in store.sparse /\ store.size < MaxSize
      /\ store' = [Set(Construct(r, i, v), {i}) EXCEPT !.size = @ + 1]
      /\ want' = SubSeq(want, 1, i) \o <<v>> \o SubSeq(want, i + 1, Len(want))

-----------------------------------------------------------------------------
(* erase of one element or of a range up to another *)

(* The elements behind the range close up, also over holes, which gather   *)
(* at the end; objects of soft deleted slots in their way are destroyed.   *)
Compact(p, start, end) ==
  LET Close(s, i) ==
        LET q == Drop(s.p, s.to)
            r == [Construct(q, s.to, q.slots[i]) EXCEPT !.live = @ \cup {s.to}]
        IN  [p |-> [Destroy(r, i) EXCEPT !.live = @ \ {i}], to |-> s.to + 1]
      cleared == FoldLeft(Drop, p, SetToSeq(start .. end - 1))
      moved == FoldLeft(Close, [p |-> cleared, to |-> start],
                        SetToSortSeq({i \in p.sparse : i >= end}, <))
      rest == moved.to .. p.size - 1
      ended == DestroyAll(Set(moved.p, start .. moved.to - 1), rest \cap moved.p.live)
  IN  [Reset(ended, rest) EXCEPT !.holes = Unknown]

Shift(p, start, end) ==
  LET gap == end - start
      tail == p.size - gap .. p.size - 1
      q == IF p.trivial THEN MoveBytes(p, end, start, p.size - end)
             ELSE DestroyAll(FoldLeft(LAMBDA r, i : Assign(r, i, r.slots[i + gap]), p,
                                      [k \in 1 .. p.size - end |-> start + k - 1]), tail)
  IN  Reset(q, tail)

Erase(start, end) ==
  LET p == Forget(store)
      cut == start .. end - 1
      q == IF end = p.size
             THEN [Reset(DestroyAll(p, cut \cap p.live), cut) EXCEPT
                     !.holes = IF end = start + 1 THEN @ ELSE Unknown]
             ELSE IF p.trivial \/ p.dense THEN Shift(p, start, end) ELSE Compact(p, start, end)
      rest == SelectSeq(SubSeq(want, end + 1, Len(want)), LAMBDA e : e # Hole)
  IN  /\ start < end /\ start \in p.sparse /\ end \in p.sparse \cup {p.size}
      /\ p.trivial => p.dense \/ end = p.size
      /\ store' = Update([q EXCEPT !.size = @ - (end - start)])
      /\ want' = IF end = Len(want) THEN SubSeq(want, 1, start)
                   ELSE LET s == SubSeq(want, 1, start) \o rest
                        IN  s \o Repeat(Hole, Len(want) - (end - start) - Len(s))

(* Callers keep to pools whose last slot is an element, without soft        *)
(* deleted slots at either place: see the README.                           *)
EraseUnordered(i) ==
  LET p == Forget(store)
      last == p.size - 1
      moved == Set(Construct(IF i \in p.sparse THEN Destroy(p, i) ELSE p, i, p.slots[last]), {i})
      q == IF i # last THEN Destroy(moved, last)
             ELSE IF i \in p.sparse THEN Destroy(p, i) ELSE p
  IN  /\ i < p.size /\ last \in p.sparse /\ (i \in p.sparse \/ i \notin p.live)
      /\ store' = Update([Reset(q, {last}) EXCEPT !.size = @ - 1, !.holes = Unknown])
      /\ want' = SubSeq(IF i = last THEN want ELSE Put(want, i, want[Len(want)]), 1, last)

PopBack ==
  LET p == Forget(store)
      i == p.size - 1
      q == Reset(IF p.dense \/ i \in p.live THEN Destroy(p, i) ELSE p, {i})
      r == [q EXCEPT !.size = @ - 1]
  IN  /\ store.size > 0
      /\ store' = IF p.dense THEN r ELSE Update(IF i \in p.sparse THEN r ELSE Fewer(r))
      /\ want' = SubSeq(want, 1, Len(want) - 1)

-----------------------------------------------------------------------------
(* The pool as a whole *)

DestroyRange(p, is) ==
  IF p.trivial THEN p ELSE DestroyAll(p, IF p.dense THEN is ELSE is \cap p.live)

Cleared(p) ==
  [Reset(DestroyRange(p, 0 .. p.size - 1), p.sparse \cup p.live) EXCEPT
     !.size = 0, !.dense = TRUE, !.holes = 0, !.cached = Unknown]

Clear ==
  /\ store.size > 0
  /\ store' = [Cleared(store) EXCEPT !.hint = 0]
  /\ want' = << >>

ReduceCapacity(n) ==
  LET p == Forget(store)
      gone == n .. p.size - 1
      cut == [Reset(DestroyRange(p, gone), gone) EXCEPT !.size = n]
  IN  /\ n < p.room
      /\ store' = [IF n = 0 THEN Cleared(p) ELSE IF n < p.size THEN Recompute(cut) ELSE p
                  EXCEPT !.room = n]
      /\ want' = IF n < Len(want) THEN SubSeq(want, 1, n) ELSE want

Count ==
  /\ store.cached = Unknown
  /\ store' = [store EXCEPT !.cached = IF store.dense THEN store.size
                                     ELSE Cardinality(store.sparse \cap (0 .. store.size - 1))]
  /\ UNCHANGED want

Next ==
  \/ \E v \in Elements :
       \/ EmplaceBack(v) \/ FillTheHole(v) \/ AppendBulk(2, v)
       \/ \E i \in Positions : EmplaceAt(i, v) \/ Emplace(i, v)
  \/ \E i \in Positions :
       \/ SparseEraseAt(i) \/ EraseUnordered(i) \/ PrepareDense(i)
       \/ FillBulk(Blank, i, 2)
       \/ \E j \in Positions : SoftDelete(i, j + 1) \/ Erase(i, j + 1)
  \/ PopBack \/ Clear \/ Count \/ \E n \in Cuts : ReduceCapacity(n)

Spec == Init /\ [][Next]_vars

-----------------------------------------------------------------------------
(* Properties *)

Get(p, i) ==
  IF i >= p.size THEN Hole
    ELSE IF p.dense \/ i \in p.sparse THEN p.slots[i] ELSE Hole

(* What get and a walk find is what was put in and not taken out; the flag, *)
(* the number of holes and the number of elements say what the bitmap says; *)
(* and every object is destroyed once, none before its slot is given up.    *)
SlotsExact ==
  LET p == store
      n == Cardinality(p.sparse)
  IN  /\ p.size = Len(want) /\ p.size <= p.room
      /\ \A i \in 0 .. p.size - 1 : Get(p, i) = want[i + 1]
      /\ p.sparse \subseteq 0 .. p.size - 1 /\ p.live \subseteq 0 .. p.size - 1
      /\ p.dense = (n = p.size)
      /\ p.holes \in {Unknown, p.size - n} /\ p.cached \in {Unknown, n}
      /\ ~ p.trivial => /\ ~ p.wrong /\ p.sparse \subseteq p.live
                        /\ p.live = {i \in Positions : p.slots[i] # Hole}
=============================================================================
