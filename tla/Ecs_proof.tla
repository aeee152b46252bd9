------------------------------ MODULE Ecs_proof ------------------------------
(***************************************************************************)
(* Proof that the records of entities and of a component type agree, that  *)
(* a walk visits everybody, that what observers hand out is exact, that    *)
(* placeholders stand for their entities, and that all of it implements    *)
(* WorldSpec, for any numbers of indices, versions, values, cache lines,   *)
(* commands and placeholders.                                              *)
(***************************************************************************)
EXTENDS Commands, FiniteSetTheorems, SequenceTheorems, TLAPS

-----------------------------------------------------------------------------
(* Entities: an index is alive, freed, reserved or none of these, and only *)
(* one of them.                                                            *)
AliveOK == \A i \in alive : i <= nextId

FreedOK ==
    /\ \A n \in DOMAIN recycled : recycled[n] <= nextId /\ recycled[n] \notin alive
    /\ \A m, n \in DOMAIN recycled : recycled[m] = recycled[n] => m = n

ReservedOK ==
    /\ \A n \in DOMAIN reserve :
          /\ reserve[n].id <= nextId /\ reserve[n].id \notin alive
          /\ reserve[n].version = version[reserve[n].id]
          /\ \A m \in DOMAIN recycled : recycled[m] # reserve[n].id
    /\ \A m, n \in DOMAIN reserve : reserve[m].id = reserve[n].id => m = n

EntityOK == EntityTypeOK /\ AliveOK /\ FreedOK /\ ReservedOK

(* The storage.  An entry leads to its slot and back; any other slot is an *)
(* empty one that is registered.                                           *)
Entry == [dense : Nat, version : 0 .. MaxVersion]

Entered(sl, sp, fr) ==
    /\ sl \in Seq(Slot) /\ sp \in [Ids -> Entry] /\ fr \in Seq(Nat \ {0})
    /\ \A i \in Ids : sp[i].dense = Invalid => sp[i].version = 0
    /\ \A i \in Ids : sp[i].dense # Invalid =>
          /\ sp[i].version # 0
          /\ sp[i].dense \in DOMAIN sl
          /\ sl[sp[i].dense].id = i
          /\ sl[sp[i].dense].version = sp[i].version
    /\ \A k \in DOMAIN sl : sp[sl[k].id].dense # k =>
          sl[k].version = 0 /\ \E n \in DOMAIN fr : fr[n] = k

(* Each entity with an entry has one slot that is live. *)
Present == {i \in Ids : sparse[i].dense # Invalid}

StoreOK == Entered(slots, sparse, free) /\ live = Cardinality(Present)

MaskOK ==
    /\ mask = Present
    /\ \A i \in Present : i \in alive /\ sparse[i].version = version[i]

HotOK ==
    /\ hot \in [0 .. HotSize - 1 -> [key : Handles, dense : Nat] \cup {None}]
    /\ \A l \in 0 .. HotSize - 1 : hot[l] # None =>
          /\ Line(hot[l].key) = l
          /\ Holds(hot[l].key) /\ hot[l].dense = sparse[hot[l].key.id].dense

-----------------------------------------------------------------------------
(* A walk that has not strayed has what it owes ahead and what it has seen *)
(* behind; if the slot at its index was filled anew, it is still ahead.    *)

Named == [id : Ids, version : 0 .. MaxVersion]

Walks ==
    [phase : {"none", "callback", "between", "done"}, index : Nat, pending : Seq(Named), skip : BOOLEAN,
     at : Handles \cup {None}, owed : SUBSET Handles, seen : SUBSET Handles, again : BOOLEAN,
     strayed : BOOLEAN]

Ahead(w, e) == Holds(e) /\ (sparse[e.id].dense > w.index \/ (sparse[e.id].dense = w.index /\ w.skip))
Behind(w, e) == Holds(e) /\ (sparse[e.id].dense < w.index \/ (sparse[e.id].dense = w.index /\ ~ w.skip))

Follows(w) ==
    /\ w.pending = <<>> /\ ~ w.again
    /\ \A e \in w.owed : Ahead(w, e)
    /\ \A e \in w.seen : Behind(w, e)
    /\ w.at # None => Holds(w.at) /\ sparse[w.at.id].dense = w.index /\ ~ w.skip

WalkOK ==
    /\ walk \in Walks
    /\ Walking => walk.index # 0
    /\ ~ walk.strayed /\ Walking => Follows(walk)
    /\ ~ walk.strayed /\ walk.phase = "done" => walk.owed = {} /\ ~ walk.again

-----------------------------------------------------------------------------
(* Commands *)

Resolved(n) == IF n \in DOMAIN resolved THEN resolved[n] ELSE None

(* A placeholder of the buffer's id resolves to what was created for it.   *)
BornOK ==
    /\ born \in [DOMAIN born -> Handles \cup {None}] /\ DOMAIN born \subseteq Deferred
    /\ resolved \in Seq(Handles \cup {None}) /\ Len(resolved) <= localId
    /\ bufferId \in 1 .. MaxBuffers /\ localId \in 0 .. MaxDeferred
    /\ \A d \in DOMAIN born :
          /\ d.buffer <= bufferId
          /\ d.buffer = bufferId => d.local <= localId /\ born[d] = Resolved(d.local)

CommandsOK ==
    /\ flushing \in BOOLEAN /\ (flushing => commands # <<>>)
    /\ commands \in Seq([op : {"defer create", "defer add", "defer remove", "defer delete"},
                         target : Handles \cup DOMAIN born, value : Values \cup {Nothing}])
    /\ Len(commands) <= MaxCommands
    /\ \A n \in DOMAIN commands :
          /\ commands[n].op = "defer add" => commands[n].value \in Values
          /\ commands[n].op = "defer create" =>
                commands[n].target \in DOMAIN born /\ commands[n].target.buffer = bufferId

-----------------------------------------------------------------------------
(* What holds of an application with discipline. *)
Facts == StoreOK /\ MaskOK /\ HotOK /\ WalkOK

FreshOK == fresh \in BOOLEAN

-----------------------------------------------------------------------------
(* The second type has no entity twice.  The rows of an observer that need *)
(* not look again are those of the entities with both components.          *)

SecondOK ==
    /\ second \in Seq(Handles)
    /\ \A k \in DOMAIN second : IsAlive(second[k])
    /\ \A k, n \in DOMAIN second : second[k].id = second[n].id => k = n

ShapeOK ==
    /\ view = [kind |-> view.kind, leader |-> view.leader, rows |-> view.rows]
    /\ view # NoView => view.kind \in Kinds /\ view.leader \in {"first", "second"}

Shown(rows, sp, se) ==
    /\ \A r \in DOMAIN rows : \E k \in DOMAIN se :
          sp[se[k].id].dense # Invalid /\ rows[r] = Row(sp[se[k].id].dense, k)
    /\ \A k \in DOMAIN se : sp[se[k].id].dense # Invalid =>
          \E r \in DOMAIN rows : rows[r] = Row(sp[se[k].id].dense, k)
    /\ \A q, r \in DOMAIN rows : rows[q] = rows[r] => q = r

ViewOK == view # NoView /\ fresh => Shown(view.rows, sparse, second)

IInv ==
    /\ plan \in Plans /\ FreshOK
    /\ EntityOK /\ BornOK /\ CommandsOK /\ SecondOK /\ ShapeOK
    /\ plan.disciplined => Facts /\ ViewOK

-----------------------------------------------------------------------------
LEMMA PlanFacts ==
    ASSUME plan \in Plans
    PROVE  plan.values \subseteq Values /\ plan.disciplined \in BOOLEAN /\ plan.free \in Nat
BY PlansAssumption DEF Plan

(* Sequences without their last or first element, and with one more. *)
LEMMA LastOne ==
    ASSUME NEW S, NEW s \in Seq(S), s # <<>>
    PROVE  /\ Len(s) \in Nat \ {0} /\ Last(s) = s[Len(s)] /\ s[Len(s)] \in S
           /\ Front(s) \in Seq(S) /\ Len(Front(s)) = Len(s) - 1
           /\ \A n \in 1 .. Len(s) - 1 : Front(s)[n] = s[n]
<1>1. Len(s) \in Nat \ {0} /\ s[Len(s)] \in S /\ Last(s) = s[Len(s)]
  BY DEF Last
<1>2. Front(s) = SubSeq(s, 1, Len(s) - 1)
  BY DEF Front
<1>3. 1 \in Int /\ Len(s) - 1 \in Int /\ \A n \in 1 .. Len(s) - 1 : s[n] \in S
  BY <1>1
<1>4. /\ SubSeq(s, 1, Len(s) - 1) \in Seq(S)
      /\ Len(SubSeq(s, 1, Len(s) - 1)) = IF 1 <= Len(s) - 1 THEN Len(s) - 1 - 1 + 1 ELSE 0
      /\ \A n \in 1 .. Len(s) - 1 - 1 + 1 : SubSeq(s, 1, Len(s) - 1)[n] = s[1 + n - 1]
  BY <1>3, SubSeqProperties
<1>5. \A n \in Nat \ {0} : (IF 1 <= n - 1 THEN n - 1 - 1 + 1 ELSE 0) = n - 1
  OBVIOUS
<1>6. Len(Front(s)) = Len(s) - 1
  BY <1>1, <1>2, <1>4, <1>5
<1>7. QED
  BY <1>1, <1>2, <1>4, <1>6

LEMMA FirstOne ==
    ASSUME NEW S, NEW s \in Seq(S), s # <<>>
    PROVE  /\ Len(s) \in Nat \ {0} /\ Head(s) = s[1] /\ s[1] \in S
           /\ Tail(s) \in Seq(S) /\ Len(Tail(s)) = Len(s) - 1
           /\ \A n \in 1 .. Len(s) - 1 : Tail(s)[n] = s[n + 1]
OBVIOUS

LEMMA AddedOne ==
    ASSUME NEW S, NEW s \in Seq(S), NEW x \in S
    PROVE  /\ Len(s) \in Nat /\ Append(s, x) \in Seq(S) /\ Len(Append(s, x)) = Len(s) + 1
           /\ \A n \in 1 .. Len(s) : Append(s, x)[n] = s[n]
           /\ Append(s, x)[Len(s) + 1] = x
OBVIOUS

LEMMA ChangedOne ==
    ASSUME NEW S, NEW s \in Seq(S), NEW k \in DOMAIN s, NEW x \in S
    PROVE  /\ [s EXCEPT ![k] = x] \in Seq(S) /\ DOMAIN [s EXCEPT ![k] = x] = DOMAIN s
           /\ Len([s EXCEPT ![k] = x]) = Len(s) /\ [s EXCEPT ![k] = x][k] = x
           /\ \A n \in DOMAIN s : n # k => [s EXCEPT ![k] = x][n] = s[n]
<1>1. k \in 1 .. Len(s)
  OBVIOUS
<1>2. QED
  BY <1>1, ExceptSeq

(* Naturals: a least one, a greatest one, and all of them one by one. *)
LEMMA Least ==
    ASSUME NEW T \in SUBSET Nat, T # {}
    PROVE  \E i \in T : \A j \in T : i <= j
<1> DEFINE R == {p \in Nat \X Nat : p[1] < p[2]}
<1>1. IsWellFoundedOn(R, Nat)
  BY NatLessThanWellFounded, Zenon DEF OpToRel
<1>2. PICK i \in T : \A j \in T : ~ <<j, i>> \in R
  <2> HIDE DEF R
  <2>1. QED
    BY <1>1, WFMin
<1>3. ASSUME NEW j \in T PROVE i <= j
  <2>1. i \in Nat /\ j \in Nat /\ <<j, i>> \notin R
    BY <1>2
  <2>2. ~ j < i
    BY <2>1
  <2>3. QED
    BY <2>1, <2>2
<1>4. QED
  BY <1>3

LEMMA Greatest ==
    ASSUME NEW n \in Nat, NEW T \in SUBSET (1 .. n), T # {}
    PROVE  \E i \in T : \A j \in T : j <= i
<1> DEFINE U == {n - i : i \in T}
<1>1. U \in SUBSET Nat /\ U # {}
  <2>1. \A i \in T : n - i \in Nat
    OBVIOUS
  <2>2. QED
    BY <2>1
<1>2. PICK u \in U : \A w \in U : u <= w
  <2> HIDE DEF U
  <2>1. QED
    BY <1>1, Least
<1>3. PICK i \in T : u = n - i
  BY <1>2
<1>4. ASSUME NEW j \in T PROVE j <= i
  <2>1. n - j \in U /\ j \in Nat /\ i \in Nat
    OBVIOUS
  <2>a. n - i <= n - j
    BY <1>2, <1>3, <2>1
  <2>2. QED
    BY <2>1, <2>a
<1>5. QED
  BY <1>4

LEMMA Climb ==
    ASSUME NEW n \in Nat, NEW T, 0 \in T, \A i \in 1 .. n : i - 1 \in T => i \in T
    PROVE  \A i \in 0 .. n : i \in T
<1> DEFINE U == {i \in 0 .. n : i \notin T}
<1>1. SUFFICES ASSUME U # {} PROVE FALSE
  OBVIOUS
<1>2. PICK i \in U : \A j \in U : i <= j
  <2>1. U \in SUBSET Nat
    OBVIOUS
  <2> HIDE DEF U
  <2>2. QED
    BY <1>1, <2>1, Least
<1>3. i \in 1 .. n /\ i - 1 \in 0 .. n /\ ~ i <= i - 1
  BY <1>2
<1>4. i - 1 \in T
  BY <1>2, <1>3
<1>5. QED
  BY <1>2, <1>3, <1>4

LEMMA InitEntities == EntityInit => EntityOK
BY MaxIdAssumption, MaxVersionAssumption
   DEF EntityInit, EntityOK, EntityTypeOK, AliveOK, FreedOK, ReservedOK, Ids

LEMMA EntityTypes ==
    ASSUME EntityOK
    PROVE  /\ alive \subseteq Ids /\ version \in [Ids -> 1 .. MaxVersion]
           /\ recycled \in Seq(Ids) /\ nextId \in 0 .. MaxId /\ reserve \in Seq(Handles)
           /\ MaxId \in Nat /\ Ids \subseteq Nat /\ nextId \in Nat
           /\ Len(recycled) \in Nat /\ DOMAIN recycled = 1 .. Len(recycled)
           /\ Len(reserve) \in Nat /\ DOMAIN reserve = 1 .. Len(reserve)
<1>1. EntityTypeOK
  BY DEF EntityOK
<1>2. recycled \in Seq(Ids) /\ reserve \in Seq(Handles)
  BY <1>1 DEF EntityTypeOK
<1>3. QED
  BY <1>1, <1>2, MaxIdAssumption DEF EntityTypeOK, Ids

LEMMA FreedFacts ==
    ASSUME EntityOK, NEW n \in DOMAIN recycled
    PROVE  /\ recycled[n] \in Ids /\ recycled[n] \in Nat /\ recycled[n] <= nextId /\ recycled[n] \notin alive
           /\ \A m \in DOMAIN recycled : recycled[m] = recycled[n] => m = n
<1>1. recycled[n] \in Ids
  BY EntityTypes
<1>2. FreedOK
  BY DEF EntityOK
<1>3. QED
  BY <1>1, <1>2, EntityTypes DEF FreedOK

LEMMA ReservedFacts ==
    ASSUME EntityOK, NEW n \in DOMAIN reserve
    PROVE  /\ reserve[n] \in Handles /\ reserve[n].id \in Ids /\ reserve[n].id \in Nat
           /\ reserve[n].id <= nextId /\ reserve[n].id \notin alive
           /\ reserve[n].version = version[reserve[n].id]
           /\ \A m \in DOMAIN recycled : recycled[m] # reserve[n].id
           /\ \A m \in DOMAIN reserve : reserve[m].id = reserve[n].id => m = n
<1>1. reserve[n] \in Handles
  BY EntityTypes
<1>2. reserve[n].id \in Ids
  BY <1>1 DEF Handles
<1>3. ReservedOK
  BY DEF EntityOK
<1>4. QED
  BY <1>1, <1>2, <1>3, EntityTypes DEF ReservedOK

LEMMA AliveFacts ==
    ASSUME EntityOK, NEW i \in alive
    PROVE  i \in Ids /\ i \in Nat /\ i <= nextId
BY EntityTypes DEF EntityOK, AliveOK

(* The index taken is nobody's. *)
LEMMA TakenId ==
    ASSUME EntityOK, NEW i \in Ids, TakeId(i)
    PROVE  /\ i \notin alive /\ i <= nextId' /\ nextId <= nextId' /\ nextId' \in 0 .. MaxId
           /\ recycled' \in Seq(Ids)
           /\ \A n \in DOMAIN reserve : reserve[n].id # i
           /\ \A n \in DOMAIN recycled' :
                 n \in DOMAIN recycled /\ recycled'[n] = recycled[n] /\ recycled[n] # i
<1>1. CASE recycled # <<>> /\ i = Last(recycled) /\ recycled' = Front(recycled) /\ nextId' = nextId
  <2>a. recycled \in Seq(Ids) /\ recycled # <<>>
    BY <1>1, EntityTypes
  <2>b. /\ Len(recycled) \in Nat \ {0} /\ i = recycled[Len(recycled)]
        /\ recycled' \in Seq(Ids) /\ Len(recycled') = Len(recycled) - 1
        /\ \A n \in 1 .. Len(recycled) - 1 : recycled'[n] = recycled[n]
    BY <1>1, <2>a, LastOne
  <2>1. Len(recycled) \in DOMAIN recycled /\ i = recycled[Len(recycled)] /\ recycled' \in Seq(Ids)
    BY <2>b, EntityTypes
  <2>c. Len(recycled') \in Nat /\ DOMAIN recycled' = 1 .. Len(recycled')
    BY <2>b
  <2>2. \A n \in DOMAIN recycled' : /\ n \in DOMAIN recycled /\ recycled'[n] = recycled[n]
                                    /\ n # Len(recycled)
    <3> SUFFICES ASSUME NEW n \in DOMAIN recycled'
                 PROVE  n \in DOMAIN recycled /\ recycled'[n] = recycled[n] /\ n # Len(recycled)
      OBVIOUS
    <3>1. n \in Nat /\ 1 <= n /\ n <= Len(recycled) - 1
      BY <2>b, <2>c
    <3>2. n \in 1 .. Len(recycled) - 1 /\ n \in 1 .. Len(recycled) /\ n # Len(recycled)
      BY <2>b, <3>1
    <3>3. QED
      BY <2>b, <3>2, EntityTypes
  <2>3. \A n \in DOMAIN recycled' : recycled[n] # i
    BY <2>1, <2>2, FreedFacts
  <2>4. \A n \in DOMAIN reserve : reserve[n].id # i
    BY <2>1, ReservedFacts
  <2>5. i \notin alive /\ i <= nextId
    BY <2>1, FreedFacts
  <2>6. QED
    BY <1>1, <2>1, <2>2, <2>3, <2>4, <2>5, EntityTypes
<1>2. CASE recycled = <<>> /\ nextId < MaxId /\ i = nextId + 1 /\ nextId' = nextId + 1 /\ recycled' = recycled
  <2>1. i \notin alive
    BY <1>2, EntityTypes, AliveFacts
  <2>2. \A n \in DOMAIN reserve : reserve[n].id # i
    BY <1>2, EntityTypes, ReservedFacts
  <2>3. DOMAIN recycled = {}
    BY <1>2
  <2>4. QED
    BY <1>2, <2>1, <2>2, <2>3, EntityTypes
<1>3. QED
  BY <1>1, <1>2 DEF TakeId

LEMMA PreallocateKeeps ==
    ASSUME EntityOK, Preallocate
    PROVE  EntityOK' /\ alive' = alive /\ version' = version
<1>1. PICK i \in Ids : TakeId(i) /\ reserve' = Append(reserve, [id |-> i, version |-> version[i]])
  BY DEF Preallocate
<1>2. alive' = alive /\ version' = version
  BY DEF Preallocate
<1>3. [id |-> i, version |-> version[i]] \in Handles
  BY EntityTypes DEF Handles
<1>4. /\ reserve' \in Seq(Handles) /\ Len(reserve') = Len(reserve) + 1
      /\ \A n \in 1 .. Len(reserve) : reserve'[n] = reserve[n]
      /\ reserve'[Len(reserve) + 1] = [id |-> i, version |-> version[i]]
  BY <1>1, <1>3, EntityTypes, AddedOne
<1>5. \A n \in DOMAIN reserve' : n \in DOMAIN reserve \/ n = Len(reserve) + 1
  BY <1>4, EntityTypes
<1>6. \A n \in DOMAIN reserve : reserve'[n] = reserve[n] /\ reserve'[n].id # i
  BY <1>1, <1>4, EntityTypes, TakenId
<1>a. /\ i \notin alive /\ i <= nextId' /\ nextId <= nextId' /\ nextId' \in 0 .. MaxId
      /\ recycled' \in Seq(Ids)
      /\ \A n \in DOMAIN recycled' :
                 n \in DOMAIN recycled /\ recycled'[n] = recycled[n] /\ recycled[n] # i
  BY <1>1, TakenId
<1>7. EntityTypeOK'
  BY <1>2, <1>4, <1>a, EntityTypes DEF EntityTypeOK
<1>8. AliveOK'
  BY <1>2, <1>a, EntityTypes, AliveFacts DEF AliveOK
<1>9. FreedOK'
  <2>1. \A n \in DOMAIN recycled' : /\ n \in DOMAIN recycled /\ recycled'[n] = recycled[n]
                                    /\ recycled[n] \in Nat /\ recycled[n] <= nextId /\ recycled[n] \notin alive
    BY <1>a, FreedFacts
  <2>2. \A n \in DOMAIN recycled' : recycled'[n] <= nextId'
    BY <2>1, <1>a, EntityTypes
  <2>3. QED
    BY <1>2, <2>1, <2>2, FreedFacts DEF FreedOK
<1>10. ReservedOK'
  <2>1. ASSUME NEW n \in DOMAIN reserve'
        PROVE  /\ reserve'[n].id <= nextId' /\ reserve'[n].id \notin alive'
               /\ reserve'[n].version = version'[reserve'[n].id]
               /\ \A m \in DOMAIN recycled' : recycled'[m] # reserve'[n].id
    <3>1. CASE n \in DOMAIN reserve
      <4>1. /\ reserve[n].id <= nextId /\ reserve[n].id \notin alive /\ reserve[n].id \in Nat
            /\ reserve[n].version = version[reserve[n].id]
            /\ \A m \in DOMAIN recycled : recycled[m] # reserve[n].id
        BY <3>1, ReservedFacts
      <4>2. reserve[n].id <= nextId'
        BY <4>1, <1>a, EntityTypes
      <4>3. QED
        BY <1>2, <1>6, <1>a, <3>1, <4>1, <4>2
    <3>2. CASE n = Len(reserve) + 1
      BY <1>2, <1>4, <1>a, <3>2
    <3>3. QED
      BY <1>5, <3>1, <3>2
  <2>2. ASSUME NEW m \in DOMAIN reserve', NEW n \in DOMAIN reserve', reserve'[m].id = reserve'[n].id
        PROVE  m = n
    <3>2. reserve'[Len(reserve) + 1].id = i
      BY <1>4
    <3>3. QED
      BY <1>5, <1>6, <2>2, <3>2, ReservedFacts
  <2>3. QED
    BY <2>1, <2>2 DEF ReservedOK
<1>11. QED
  BY <1>2, <1>7, <1>8, <1>9, <1>10 DEF EntityOK

LEMMA CreateKeeps ==
    ASSUME EntityOK, CreateReserved \/ CreateAllocated
    PROVE  /\ EntityOK' /\ version' = version
           /\ \E i \in Ids : i \notin alive /\ alive' = alive \cup {i}
<1>1. CASE CreateReserved
  <2> DEFINE i == Head(reserve).id
  <2>1. /\ reserve # <<>> /\ alive' = alive \cup {i} /\ reserve' = Tail(reserve)
        /\ version' = version /\ recycled' = recycled /\ nextId' = nextId
    BY <1>1 DEF CreateReserved
  <2>2. /\ Len(reserve) \in Nat \ {0} /\ Head(reserve) = reserve[1] /\ reserve' \in Seq(Handles)
        /\ Len(reserve') = Len(reserve) - 1 /\ \A n \in 1 .. Len(reserve) - 1 : reserve'[n] = reserve[n + 1]
    BY <2>1, EntityTypes, FirstOne
  <2>3. 1 \in DOMAIN reserve /\ i = reserve[1].id
    BY <2>2, EntityTypes
  <2>4. /\ i \in Ids /\ i <= nextId /\ i \notin alive /\ \A m \in DOMAIN recycled : recycled[m] # i
    BY <2>3, ReservedFacts
  <2>a. DOMAIN reserve' = 1 .. Len(reserve) - 1 /\ DOMAIN reserve = 1 .. Len(reserve)
    BY <2>2, EntityTypes
  <2>b. \A n \in 1 .. Len(reserve) - 1 : n \in Nat /\ n + 1 \in 1 .. Len(reserve) /\ n + 1 # 1
    BY <2>2
  <2>5. \A n \in DOMAIN reserve' : n \in Nat /\ n + 1 \in DOMAIN reserve /\ reserve'[n] = reserve[n + 1] /\ n + 1 # 1
    BY <2>2, <2>a, <2>b, Zenon
  <2> HIDE DEF i
  <2>6. EntityTypeOK'
    BY <2>1, <2>2, <2>4, EntityTypes DEF EntityTypeOK
  <2>7. AliveOK'
    BY <2>1, <2>4, AliveFacts DEF AliveOK
  <2>8. FreedOK'
    BY <2>1, <2>4, FreedFacts DEF FreedOK
  <2>9. ReservedOK'
    <3>1. ASSUME NEW n \in DOMAIN reserve'
          PROVE  /\ reserve'[n].id <= nextId' /\ reserve'[n].id \notin alive'
                 /\ reserve'[n].version = version'[reserve'[n].id]
                 /\ \A m \in DOMAIN recycled' : recycled'[m] # reserve'[n].id
      <4>1. n + 1 \in DOMAIN reserve /\ reserve'[n] = reserve[n + 1] /\ n + 1 # 1
        BY <2>5
      <4>2. reserve[n + 1].id # i
        BY <2>3, <4>1, ReservedFacts
      <4>3. QED
        BY <2>1, <4>1, <4>2, ReservedFacts
    <3>2. ASSUME NEW m \in DOMAIN reserve', NEW n \in DOMAIN reserve', reserve'[m].id = reserve'[n].id
          PROVE  m = n
      <4>1. m + 1 \in DOMAIN reserve /\ n + 1 \in DOMAIN reserve /\ reserve[m + 1].id = reserve[n + 1].id
        BY <2>5, <3>2
      <4>2. m + 1 = n + 1
        BY <4>1, ReservedFacts
      <4>3. QED
        BY <2>5, <4>2
    <3>3. QED
      BY <3>1, <3>2 DEF ReservedOK
  <2>10. QED
    BY <2>1, <2>4, <2>6, <2>7, <2>8, <2>9 DEF EntityOK
<1>2. CASE CreateAllocated
  <2>1. PICK i \in Ids : TakeId(i) /\ alive' = alive \cup {i}
    BY <1>2 DEF CreateAllocated
  <2>2. reserve = <<>> /\ version' = version /\ reserve' = reserve
    BY <1>2 DEF CreateAllocated
  <2>3. /\ i \notin alive /\ i <= nextId' /\ nextId <= nextId' /\ nextId' \in 0 .. MaxId
        /\ recycled' \in Seq(Ids)
        /\ \A n \in DOMAIN recycled' :
                   n \in DOMAIN recycled /\ recycled'[n] = recycled[n] /\ recycled[n] # i
    BY <2>1, TakenId
  <2>4. EntityTypeOK'
    BY <2>1, <2>2, <2>3, EntityTypes DEF EntityTypeOK
  <2>5. AliveOK'
    BY <2>1, <2>3, EntityTypes, AliveFacts DEF AliveOK
  <2>6. FreedOK'
    <3>1. \A n \in DOMAIN recycled' : /\ n \in DOMAIN recycled /\ recycled'[n] = recycled[n] /\ recycled[n] # i
                                      /\ recycled[n] \in Nat /\ recycled[n] <= nextId /\ recycled[n] \notin alive
      BY <2>3, FreedFacts
    <3>2. \A n \in DOMAIN recycled' : recycled'[n] <= nextId'
      BY <2>3, <3>1, EntityTypes
    <3>3. QED
      BY <2>1, <3>1, <3>2, FreedFacts DEF FreedOK
  <2>7. ReservedOK'
    BY <2>2 DEF ReservedOK
  <2>8. QED
    BY <2>1, <2>2, <2>3, <2>4, <2>5, <2>6, <2>7 DEF EntityOK
<1>3. QED
  BY <1>1, <1>2

LEMMA DestroyKeeps ==
    ASSUME EntityOK, NEW e \in Handles, Destroy(e)
    PROVE  /\ EntityOK' /\ alive' = alive \ {e.id} /\ e.id \in alive /\ e.version = version[e.id]
           /\ version'[e.id] = version[e.id] + 1
           /\ \A i \in Ids : i # e.id => version'[i] = version[i]
<1>1. /\ e.id \in alive /\ e.version = version[e.id] /\ version[e.id] < MaxVersion
      /\ alive' = alive \ {e.id} /\ version' = [version EXCEPT ![e.id] = @ + 1]
      /\ recycled' = Append(recycled, e.id) /\ nextId' = nextId /\ reserve' = reserve
  BY DEF Destroy, IsAlive
<1>2. e.id \in Ids /\ e.id <= nextId
  BY <1>1, AliveFacts
<1>3. /\ version' \in [Ids -> 1 .. MaxVersion] /\ version'[e.id] = version[e.id] + 1
      /\ \A i \in Ids : i # e.id => version'[i] = version[i]
  BY <1>1, <1>2, EntityTypes, MaxVersionAssumption
<1>4. /\ recycled' \in Seq(Ids) /\ Len(recycled') = Len(recycled) + 1
      /\ \A n \in 1 .. Len(recycled) : recycled'[n] = recycled[n]
      /\ recycled'[Len(recycled) + 1] = e.id
  BY <1>1, <1>2, EntityTypes, AddedOne
<1>a. DOMAIN recycled' = 1 .. Len(recycled) + 1
  BY <1>4
<1>5. \A n \in DOMAIN recycled' : (n \in DOMAIN recycled /\ recycled'[n] = recycled[n]) \/ n = Len(recycled) + 1
  <2>1. \A n \in 1 .. Len(recycled) + 1 : n \in 1 .. Len(recycled) \/ n = Len(recycled) + 1
    BY EntityTypes
  <2>2. DOMAIN recycled = 1 .. Len(recycled)
    BY EntityTypes
  <2>3. QED
    BY <1>4, <1>a, <2>1, <2>2, Zenon
<1>6. EntityTypeOK'
  BY <1>1, <1>3, <1>4, EntityTypes DEF EntityTypeOK
<1>7. AliveOK'
  BY <1>1, AliveFacts DEF AliveOK
<1>8. FreedOK'
  <2>1. \A n \in DOMAIN recycled' : recycled'[n] <= nextId' /\ recycled'[n] \notin alive'
    BY <1>1, <1>2, <1>4, <1>5, FreedFacts
  <2>2. \A n \in DOMAIN recycled : recycled[n] # e.id
    BY <1>1, FreedFacts
  <2>3. \A m, n \in DOMAIN recycled' : recycled'[m] = recycled'[n] => m = n
    BY <1>4, <1>5, <2>2, FreedFacts
  <2>4. QED
    BY <2>1, <2>3 DEF FreedOK
<1>9. ReservedOK'
  <2>1. \A n \in DOMAIN reserve : reserve[n].id # e.id
    BY <1>1, ReservedFacts
  <2>2. ASSUME NEW n \in DOMAIN reserve'
        PROVE  /\ reserve'[n].id <= nextId' /\ reserve'[n].id \notin alive'
               /\ reserve'[n].version = version'[reserve'[n].id]
               /\ \A m \in DOMAIN recycled' : recycled'[m] # reserve'[n].id
    BY <1>1, <1>3, <1>4, <1>5, <2>1, ReservedFacts
  <2>3. \A m, n \in DOMAIN reserve' : reserve'[m].id = reserve'[n].id => m = n
    BY <1>1, ReservedFacts
  <2>4. QED
    BY <2>2, <2>3 DEF ReservedOK
<1>10. QED
  BY <1>1, <1>3, <1>6, <1>7, <1>8, <1>9 DEF EntityOK

LEMMA EnteredFacts ==
    ASSUME NEW sl, NEW sp, NEW fr, Entered(sl, sp, fr)
    PROVE  /\ Len(sl) \in Nat /\ DOMAIN sl = 1 .. Len(sl) /\ Len(fr) \in Nat /\ DOMAIN fr = 1 .. Len(fr)
           /\ sl \in Seq(Slot) /\ sp \in [Ids -> Entry] /\ fr \in Seq(Nat \ {0})
           /\ \A k \in DOMAIN sl : /\ k \in Nat \ {0} /\ sl[k] \in Slot /\ sl[k].id \in Ids
                                   /\ sl[k].version \in 0 .. MaxVersion /\ sl[k].val \in Values
           /\ \A i \in Ids : sp[i] \in Entry /\ sp[i].dense \in Nat /\ sp[i].version \in 0 .. MaxVersion
           /\ \A n \in DOMAIN fr : fr[n] \in Nat \ {0}
<1>1. sl \in Seq(Slot) /\ sp \in [Ids -> Entry] /\ fr \in Seq(Nat \ {0})
  BY DEF Entered
<1>2. Len(sl) \in Nat /\ DOMAIN sl = 1 .. Len(sl) /\ Len(fr) \in Nat /\ DOMAIN fr = 1 .. Len(fr)
  BY <1>1
<1>3. \A k \in DOMAIN sl : k \in Nat \ {0} /\ sl[k] \in Slot
  BY <1>1, <1>2
<1>4. \A n \in DOMAIN fr : fr[n] \in Nat \ {0}
  BY <1>1
<1>5. \A i \in Ids : sp[i] \in Entry
  BY <1>1
<1>6. \A x \in Slot : x.id \in Ids /\ x.version \in 0 .. MaxVersion /\ x.val \in Values
  BY DEF Slot
<1>7. \A x \in Entry : x.dense \in Nat /\ x.version \in 0 .. MaxVersion
  BY DEF Entry
<1>8. QED
  BY <1>1, <1>2, <1>3, <1>4, <1>5, <1>6, <1>7

LEMMA EntryFacts ==
    ASSUME NEW sl, NEW sp, NEW fr, Entered(sl, sp, fr), NEW i \in Ids
    PROVE  /\ sp[i].dense = Invalid => sp[i].version = 0
           /\ sp[i].dense # Invalid =>
                 /\ sp[i].version # 0 /\ sp[i].dense \in DOMAIN sl
                 /\ sl[sp[i].dense].id = i /\ sl[sp[i].dense].version = sp[i].version
BY DEF Entered

LEMMA SlotFacts ==
    ASSUME NEW sl, NEW sp, NEW fr, Entered(sl, sp, fr), NEW k \in DOMAIN sl
    PROVE  sp[sl[k].id].dense # k => sl[k].version = 0 /\ \E n \in DOMAIN fr : fr[n] = k
BY DEF Entered

LEMMA HandleFacts ==
    ASSUME NEW e \in Handles
    PROVE  /\ e.id \in Ids /\ e.id \in Nat /\ e.version \in 1 .. MaxVersion /\ e.version \in 0 .. MaxVersion
           /\ e.version # 0 /\ e = [id |-> e.id, version |-> e.version]
BY MaxVersionAssumption, MaxIdAssumption DEF Handles, Ids

(* What a change of the storage does to the component of one entity. *)
Same(sl, sp, tl, tp, i) ==
    /\ tp[i].version = sp[i].version
    /\ tp[i].dense = Invalid <=> sp[i].dense = Invalid
    /\ sp[i].dense # Invalid => tl[tp[i].dense].val = sl[sp[i].dense].val

Moved(sl, sp, tl, tp) == \A i \in Ids : Same(sl, sp, tl, tp, i)

GivenTo(e, v) ==
    /\ \A i \in Ids \ {e.id} : Same(slots, sparse, slots', sparse', i) /\ sparse'[i] = sparse[i]
    /\ sparse[e.id].dense # Invalid => sparse'[e.id] = sparse[e.id]
    /\ sparse'[e.id].dense # Invalid /\ sparse'[e.id].version = e.version
    /\ slots'[sparse'[e.id].dense].val = v

TakenFrom(e) ==
    /\ \A i \in Ids \ {e.id} : Same(slots, sparse, slots', sparse', i)
    /\ sparse'[e.id].dense = Invalid /\ sparse'[e.id].version = 0

LEMMA OverwriteKeeps ==
    ASSUME Entered(slots, sparse, free), NEW e \in Handles, NEW v \in Values, Overwrite(e, v)
    PROVE  /\ Entered(slots', sparse', free') /\ GivenTo(e, v) /\ sparse[e.id].dense # Invalid
           /\ sparse' = sparse
<1> DEFINE d == sparse[e.id].dense
<1>1. /\ sparse[e.id].version = e.version /\ slots' = [slots EXCEPT ![d].val = v]
      /\ sparse' = sparse /\ free' = free
  BY DEF Overwrite
<1>2. e.id \in Ids /\ e.version # 0
  BY HandleFacts
<1>3. d # Invalid /\ d \in DOMAIN slots /\ slots[d].id = e.id
  BY <1>1, <1>2, EntryFacts
<1>4. slots[d] \in Slot /\ slots \in Seq(Slot)
  BY <1>3, EnteredFacts
<1>a. [slots[d] EXCEPT !.val = v] \in Slot
  BY <1>4 DEF Slot
<1>b. slots' = [slots EXCEPT ![d] = [slots[d] EXCEPT !.val = v]]
  BY <1>1
<1>5. slots' \in Seq(Slot) /\ DOMAIN slots' = DOMAIN slots
  BY <1>b, <1>a, <1>4, <1>3, ChangedOne
<1>6. \A k \in DOMAIN slots : k # d => slots'[k] = slots[k]
  BY <1>b
<1>7. slots'[d] = [slots[d] EXCEPT !.val = v]
  BY <1>b, <1>3
<1>8. slots'[d].id = slots[d].id /\ slots'[d].version = slots[d].version /\ slots'[d].val = v
  BY <1>7, <1>4 DEF Slot
<1>9. \A k \in DOMAIN slots : slots'[k].id = slots[k].id /\ slots'[k].version = slots[k].version
  BY <1>6, <1>8
<1>10. Entered(slots', sparse', free')
  <2>1. sparse' \in [Ids -> Entry] /\ free' \in Seq(Nat \ {0})
    BY <1>1, EnteredFacts
  <2>2. \A i \in Ids : sparse'[i].dense = Invalid => sparse'[i].version = 0
    BY <1>1, EntryFacts
  <2>3. \A i \in Ids : sparse'[i].dense # Invalid =>
           /\ sparse'[i].version # 0 /\ sparse'[i].dense \in DOMAIN slots'
           /\ slots'[sparse'[i].dense].id = i
           /\ slots'[sparse'[i].dense].version = sparse'[i].version
    BY <1>1, <1>5, <1>9, EntryFacts
  <2>4. \A k \in DOMAIN slots' : sparse'[slots'[k].id].dense # k =>
           slots'[k].version = 0 /\ \E n \in DOMAIN free' : free'[n] = k
    BY <1>1, <1>5, <1>9, SlotFacts
  <2>5. QED
    BY <1>5, <2>1, <2>2, <2>3, <2>4 DEF Entered
<1>11. \A i \in Ids : i # e.id => Same(slots, sparse, slots', sparse', i)
  BY <1>1, <1>3, <1>6, EntryFacts DEF Same
<1>12. QED
  BY <1>1, <1>2, <1>3, <1>8, <1>10, <1>11 DEF GivenTo

LEMMA ReuseKeeps ==
    ASSUME Entered(slots, sparse, free), NEW e \in Handles, NEW v \in Values, Reuse(e, v),
           sparse[e.id].dense = Invalid
    PROVE  Entered(slots', sparse', free') /\ GivenTo(e, v)
<1>1. PICK k \in Usable : \A m \in Usable : m <= k
  <2>1. Usable \in SUBSET (1 .. Len(free)) /\ Usable # {} /\ Len(free) \in Nat
    BY EnteredFacts DEF Usable, Reuse
  <2>2. QED
    BY <2>1, Greatest
<1> DEFINE j == CHOOSE n \in Usable : \A m \in Usable : m <= n
           f == free[j]
<1>2. j \in Usable /\ \A m \in Usable : m <= j
  BY <1>1
<1>3. /\ slots' = [slots EXCEPT ![f] = Put(e, v)] /\ sparse' = [sparse EXCEPT ![e.id] = At(f, e)]
      /\ free' = SubSeq(free, 1, j - 1)
  BY DEF Reuse
<1>4. j \in DOMAIN free /\ f \in Tombstones
  BY <1>2 DEF Usable
<1> HIDE DEF j
<1>5. f \in DOMAIN slots /\ sparse[slots[f].id].dense # f
  BY <1>4 DEF Tombstones, IsLive
<1>6. f \in Nat \ {0} /\ j \in 1 .. Len(free) /\ Len(free) \in Nat
  BY <1>4, <1>5, EnteredFacts
<1> HIDE DEF f
<1>7. e.id \in Ids /\ e.version \in 0 .. MaxVersion /\ e.version # 0
  BY HandleFacts
<1>8. Put(e, v) \in Slot /\ At(f, e) \in Entry
  BY <1>6, <1>7 DEF Put, At, Slot, Entry
<1>9. Put(e, v).id = e.id /\ Put(e, v).version = e.version /\ Put(e, v).val = v
  BY DEF Put
<1>10. At(f, e).dense = f /\ At(f, e).version = e.version
  BY DEF At
<1>11. slots \in Seq(Slot) /\ sparse \in [Ids -> Entry] /\ free \in Seq(Nat \ {0})
  BY EnteredFacts
<1>12. /\ slots' \in Seq(Slot) /\ DOMAIN slots' = DOMAIN slots /\ slots'[f] = Put(e, v)
       /\ \A n \in DOMAIN slots : n # f => slots'[n] = slots[n]
  BY <1>3, <1>5, <1>8, <1>11, ChangedOne
<1>13. /\ sparse' \in [Ids -> Entry] /\ sparse'[e.id] = At(f, e)
       /\ \A i \in Ids : i # e.id => sparse'[i] = sparse[i]
  BY <1>3, <1>7, <1>8, <1>11
<1>14. /\ free' \in Seq(Nat \ {0}) /\ DOMAIN free' = 1 .. j - 1
       /\ \A n \in 1 .. j - 1 : free'[n] = free[n]
  <2>1. 1 \in Int /\ j - 1 \in Int /\ \A n \in 1 .. j - 1 : free[n] \in Nat \ {0}
    BY <1>6, EnteredFacts
  <2>2. /\ SubSeq(free, 1, j - 1) \in Seq(Nat \ {0})
        /\ Len(SubSeq(free, 1, j - 1)) = IF 1 <= j - 1 THEN j - 1 - 1 + 1 ELSE 0
        /\ \A n \in 1 .. j - 1 - 1 + 1 : SubSeq(free, 1, j - 1)[n] = free[1 + n - 1]
    BY <2>1, SubSeqProperties
  <2>3. Len(free') = j - 1
    BY <1>3, <1>6, <2>2
  <2>4. DOMAIN free' = 1 .. j - 1
    BY <1>3, <2>2, <2>3
  <2>5. QED
    BY <1>3, <1>6, <2>2, <2>4
<1>15. \A i \in Ids : sparse[i].dense # f
  BY <1>5, <1>6, EntryFacts DEF Invalid
<1>16. ASSUME NEW i \in Ids
       PROVE  /\ sparse'[i].dense = Invalid => sparse'[i].version = 0
              /\ sparse'[i].dense # Invalid =>
                    /\ sparse'[i].version # 0 /\ sparse'[i].dense \in DOMAIN slots'
                    /\ slots'[sparse'[i].dense].id = i
                    /\ slots'[sparse'[i].dense].version = sparse'[i].version
  <2>1. CASE i = e.id
    BY <1>5, <1>6, <1>7, <1>9, <1>10, <1>12, <1>13, <2>1 DEF Invalid
  <2>2. CASE i # e.id
    BY <1>12, <1>13, <1>15, <2>2, EntryFacts
  <2>3. QED
    BY <2>1, <2>2
<1>17. ASSUME NEW k1 \in DOMAIN slots', sparse'[slots'[k1].id].dense # k1
       PROVE  slots'[k1].version = 0 /\ \E n \in DOMAIN free' : free'[n] = k1
  <2>1. k1 # f
    BY <1>7, <1>9, <1>10, <1>12, <1>13, <1>17
  <2>2. k1 \in DOMAIN slots /\ slots'[k1] = slots[k1] /\ slots[k1].id \in Ids /\ k1 \in Nat \ {0}
    BY <1>12, <2>1, EnteredFacts
  <2>3. sparse[slots[k1].id].dense # k1
    BY <1>7, <1>13, <1>17, <2>2, sparse[e.id].dense = Invalid DEF Invalid
  <2>4. PICK n \in DOMAIN free : free[n] = k1
    BY <2>2, <2>3, SlotFacts
  <2>5. n \in Usable /\ n # j
    BY <2>1, <2>2, <2>3, <2>4 DEF Usable, Tombstones, IsLive, f
  <2>6. n \in 1 .. Len(free) /\ n <= j
    BY <1>2, <2>4, <2>5, EnteredFacts
  <2>7. n \in 1 .. j - 1
    BY <1>6, <2>5, <2>6
  <2>8. QED
    BY <1>14, <2>2, <2>3, <2>4, <2>7, SlotFacts
<1>18. Entered(slots', sparse', free')
  BY <1>12, <1>13, <1>14, <1>16, <1>17 DEF Entered
<1>19. \A i \in Ids \ {e.id} : Same(slots, sparse, slots', sparse', i)
  BY <1>12, <1>13, <1>15, EntryFacts DEF Same
<1>20. QED
  BY <1>6, <1>7, <1>9, <1>10, <1>12, <1>13, <1>18, <1>19 DEF GivenTo, Invalid

LEMMA AppendNewKeeps ==
    ASSUME Entered(slots, sparse, free), NEW e \in Handles, NEW v \in Values, AppendNew(e, v),
           sparse[e.id].dense = Invalid
    PROVE  Entered(slots', sparse', free') /\ GivenTo(e, v)
<1> DEFINE f == Len(slots) + 1
<1>1. /\ slots' = Append(slots, Put(e, v)) /\ sparse' = [sparse EXCEPT ![e.id] = At(f, e)]
      /\ free' = <<>> /\ Usable = {}
  BY DEF AppendNew
<1>2. Len(slots) \in Nat /\ DOMAIN slots = 1 .. Len(slots) /\ f \in Nat \ {0} /\ f \notin DOMAIN slots
  BY EnteredFacts
<1>3. Len(slots) + 1 = f
  OBVIOUS
<1> HIDE DEF f
<1>7. e.id \in Ids /\ e.version \in 0 .. MaxVersion /\ e.version # 0
  BY HandleFacts
<1>8. Put(e, v) \in Slot /\ At(f, e) \in Entry
  BY <1>2, <1>7 DEF Put, At, Slot, Entry
<1>9. Put(e, v).id = e.id /\ Put(e, v).version = e.version /\ Put(e, v).val = v
  BY DEF Put
<1>10. At(f, e).dense = f /\ At(f, e).version = e.version
  BY DEF At
<1>11. slots \in Seq(Slot) /\ sparse \in [Ids -> Entry] /\ free \in Seq(Nat \ {0})
  BY EnteredFacts
<1>a. /\ slots' \in Seq(Slot) /\ Len(slots') = f /\ slots'[f] = Put(e, v)
      /\ \A n \in 1 .. Len(slots) : slots'[n] = slots[n]
  BY <1>1, <1>3, <1>8, <1>11, AddedOne
<1>12. /\ slots' \in Seq(Slot) /\ DOMAIN slots' = DOMAIN slots \cup {f} /\ slots'[f] = Put(e, v)
       /\ \A n \in DOMAIN slots : slots'[n] = slots[n]
  BY <1>2, <1>3, <1>a
<1>13. /\ sparse' \in [Ids -> Entry] /\ sparse'[e.id] = At(f, e)
       /\ \A i \in Ids : i # e.id => sparse'[i] = sparse[i]
  BY <1>1, <1>7, <1>8, <1>11
<1>14. \A k \in DOMAIN slots : sparse[slots[k].id].dense = k /\ k \in Nat \ {0}
  BY <1>1, SlotFacts, EnteredFacts DEF Usable, Tombstones, IsLive
<1>15. free' \in Seq(Nat \ {0})
  BY <1>1
<1>16. ASSUME NEW i \in Ids
       PROVE  /\ sparse'[i].dense = Invalid => sparse'[i].version = 0
              /\ sparse'[i].dense # Invalid =>
                    /\ sparse'[i].version # 0 /\ sparse'[i].dense \in DOMAIN slots'
                    /\ slots'[sparse'[i].dense].id = i
                    /\ slots'[sparse'[i].dense].version = sparse'[i].version
  <2>1. CASE i = e.id
    BY <1>2, <1>7, <1>9, <1>10, <1>12, <1>13, <2>1 DEF Invalid
  <2>2. CASE i # e.id
    BY <1>12, <1>13, <2>2, EntryFacts
  <2>3. QED
    BY <2>1, <2>2
<1>17. ASSUME NEW k1 \in DOMAIN slots'
       PROVE  sparse'[slots'[k1].id].dense = k1
  <2>1. CASE k1 = f
    BY <1>7, <1>9, <1>10, <1>12, <1>13, <2>1
  <2>2. CASE k1 \in DOMAIN slots
    <3>1. slots[k1].id \in Ids /\ slots[k1].id # e.id
      BY <1>14, <2>2, EnteredFacts, sparse[e.id].dense = Invalid DEF Invalid
    <3>2. QED
      BY <1>12, <1>13, <1>14, <2>2, <3>1
  <2>3. QED
    BY <1>12, <2>1, <2>2
<1>18. Entered(slots', sparse', free')
  BY <1>12, <1>13, <1>15, <1>16, <1>17 DEF Entered
<1>19. \A i \in Ids \ {e.id} : Same(slots, sparse, slots', sparse', i)
  BY <1>12, <1>13, EntryFacts DEF Same
<1>20. QED
  BY <1>2, <1>7, <1>9, <1>10, <1>12, <1>13, <1>18, <1>19 DEF GivenTo, Invalid

LEMMA SoftRemoveKeeps ==
    ASSUME Entered(slots, sparse, free), NEW e \in Handles, SoftRemove(e)
    PROVE  /\ Entered(slots', sparse', free') /\ TakenFrom(e)
           /\ \A i \in Ids : i # e.id => sparse'[i] = sparse[i]
<1> DEFINE d == sparse[e.id].dense
<1>1. /\ Holds(e) /\ slots' = [slots EXCEPT ![d].version = 0] /\ sparse' = [sparse EXCEPT ![e.id] = Gone]
      /\ free' = Append(free, d)
  BY DEF SoftRemove
<1>2. e.id \in Ids /\ e.version # 0
  BY HandleFacts
<1>3. d # Invalid /\ d \in DOMAIN slots /\ slots[d].id = e.id /\ d \in Nat \ {0}
  BY <1>1, <1>2, EntryFacts, EnteredFacts DEF Holds
<1> HIDE DEF d
<1>4. slots[d] \in Slot /\ slots \in Seq(Slot) /\ sparse \in [Ids -> Entry] /\ free \in Seq(Nat \ {0})
  BY <1>3, EnteredFacts
<1>c. 0 \in 0 .. MaxVersion
  BY MaxVersionAssumption
<1>a. [slots[d] EXCEPT !.version = 0] \in Slot
  BY <1>4, <1>c DEF Slot
<1>b. slots' = [slots EXCEPT ![d] = [slots[d] EXCEPT !.version = 0]]
  BY <1>1
<1>5. slots' \in Seq(Slot) /\ DOMAIN slots' = DOMAIN slots
  BY <1>b, <1>a, <1>4, <1>3, ChangedOne
<1>6. \A k \in DOMAIN slots : k # d => slots'[k] = slots[k]
  BY <1>b
<1>7. slots'[d] = [slots[d] EXCEPT !.version = 0]
  BY <1>b, <1>3
<1>8. slots'[d].id = slots[d].id /\ slots'[d].version = 0
  BY <1>7, <1>4 DEF Slot
<1>9. Gone \in Entry /\ Gone.dense = 0 /\ Gone.version = 0
  BY MaxVersionAssumption DEF Gone, Entry, Invalid
<1>10. /\ sparse' \in [Ids -> Entry] /\ sparse'[e.id] = Gone
       /\ \A i \in Ids : i # e.id => sparse'[i] = sparse[i]
  BY <1>1, <1>2, <1>4, <1>9
<1>11. \A i \in Ids : i # e.id => sparse[i].dense # d
  BY <1>3, EntryFacts
<1>12. /\ free' \in Seq(Nat \ {0}) /\ Len(free') = Len(free) + 1 /\ Len(free) \in Nat
       /\ \A n \in 1 .. Len(free) : free'[n] = free[n]
       /\ free'[Len(free) + 1] = d
  BY <1>1, <1>3, <1>4, AddedOne
<1>13. \A n \in DOMAIN free : n \in DOMAIN free' /\ free'[n] = free[n]
  <2>1. DOMAIN free' = 1 .. Len(free) + 1 /\ DOMAIN free = 1 .. Len(free)
    BY <1>12, EnteredFacts
  <2>2. \A n \in 1 .. Len(free) : n \in 1 .. Len(free) + 1
    BY <1>12
  <2>3. QED
    BY <1>12, <2>1, <2>2, Zenon
<1>14. \E n \in DOMAIN free' : free'[n] = d
  BY <1>12
<1>16. ASSUME NEW i \in Ids
       PROVE  /\ sparse'[i].dense = Invalid => sparse'[i].version = 0
              /\ sparse'[i].dense # Invalid =>
                    /\ sparse'[i].version # 0 /\ sparse'[i].dense \in DOMAIN slots'
                    /\ slots'[sparse'[i].dense].id = i
                    /\ slots'[sparse'[i].dense].version = sparse'[i].version
  <2>1. CASE i = e.id
    BY <1>9, <1>10, <2>1 DEF Invalid
  <2>2. CASE i # e.id
    BY <1>5, <1>6, <1>10, <1>11, <2>2, EntryFacts
  <2>3. QED
    BY <2>1, <2>2
<1>17. ASSUME NEW k \in DOMAIN slots', sparse'[slots'[k].id].dense # k
       PROVE  slots'[k].version = 0 /\ \E n \in DOMAIN free' : free'[n] = k
  <2>1. CASE k = d
    BY <1>8, <1>14, <2>1
  <2>2. CASE k # d
    <3>1. k \in DOMAIN slots /\ slots'[k] = slots[k] /\ slots[k].id \in Ids
      BY <1>5, <1>6, <2>2, EnteredFacts
    <3>2. sparse[slots[k].id].dense # k
      BY <1>10, <1>17, <2>2, <3>1 DEF d
    <3>3. QED
      BY <1>13, <3>1, <3>2, SlotFacts
  <2>3. QED
    BY <2>1, <2>2
<1>18. Entered(slots', sparse', free')
  BY <1>5, <1>10, <1>12, <1>16, <1>17 DEF Entered
<1>19. \A i \in Ids \ {e.id} : Same(slots, sparse, slots', sparse', i)
  BY <1>6, <1>10, <1>11, EntryFacts DEF Same
<1>20. QED
  BY <1>9, <1>10, <1>18, <1>19 DEF TakenFrom, Invalid

LEMMA HardRemoveKeeps ==
    ASSUME Entered(slots, sparse, free), NEW e \in Handles, HardRemove(e), Tombstones = {}
    PROVE  /\ Entered(slots', sparse', free') /\ TakenFrom(e)
           /\ \A i \in Ids : i # e.id =>
                 \/ sparse'[i] = sparse[i]
                 \/ /\ sparse[i].dense = Len(slots) /\ sparse[e.id].dense # Len(slots)
                    /\ sparse'[i].dense = sparse[e.id].dense
<1> DEFINE d == sparse[e.id].dense
           n == Len(slots)
           moved == Last(slots)
<1>1. /\ Holds(e) /\ slots' = Front([slots EXCEPT ![d] = moved]) /\ sparse' = SwapPopSparse(e, d, moved)
      /\ free' = IF moved.id # e.id /\ sparse[moved.id].dense = Invalid THEN Append(free, d) ELSE free
  BY DEF HardRemove
<1>2. e.id \in Ids /\ e.version # 0
  BY HandleFacts
<1>3. d # Invalid /\ d \in DOMAIN slots /\ slots[d].id = e.id /\ d \in Nat \ {0}
  BY <1>1, <1>2, EntryFacts, EnteredFacts DEF Holds
<1>4. slots \in Seq(Slot) /\ n \in Nat /\ DOMAIN slots = 1 .. n /\ sparse \in [Ids -> Entry] /\ free \in Seq(Nat \ {0})
  BY EnteredFacts
<1>5. slots # <<>> /\ d \in 1 .. n /\ n \in 1 .. n /\ n # 0
  BY <1>3, <1>4
<1>6. moved = slots[n] /\ moved \in Slot /\ moved.id \in Ids
  BY <1>4, <1>5, LastOne, EnteredFacts
<1>7. \A k \in DOMAIN slots : sparse[slots[k].id].dense = k
  BY DEF Tombstones, IsLive
<1>8. sparse[moved.id].dense = n /\ sparse[moved.id].dense # Invalid
  BY <1>4, <1>5, <1>6, <1>7 DEF Invalid
<1> HIDE DEF d, moved, n
<1>9. free' = free
  BY <1>1, <1>8
<1>10. moved.id = e.id <=> d = n
  BY <1>3, <1>6, <1>8 DEF d
<1>11. /\ DOMAIN slots' = 1 .. n - 1 /\ slots' \in Seq(Slot)
       /\ \A k \in 1 .. n - 1 : slots'[k] = IF k = d THEN moved ELSE slots[k]
  <2> DEFINE s == [slots EXCEPT ![d] = moved]
  <2>1. /\ s \in Seq(Slot) /\ Len(s) = n /\ s[d] = moved
        /\ \A k \in DOMAIN slots : k # d => s[k] = slots[k]
    BY <1>3, <1>4, <1>6, ChangedOne DEF n
  <2> HIDE DEF s
  <2>2. s # <<>>
    BY <1>5, <2>1
  <2>3. /\ Front(s) \in Seq(Slot) /\ Len(Front(s)) = Len(s) - 1
        /\ \A k \in 1 .. Len(s) - 1 : Front(s)[k] = s[k]
    BY <2>1, <2>2, LastOne
  <2>4. slots' = Front(s)
    BY <1>1 DEF s
  <2>5. slots' \in Seq(Slot) /\ Len(slots') = n - 1 /\ \A k \in 1 .. n - 1 : slots'[k] = s[k]
    BY <2>1, <2>3, <2>4
  <2>6. n - 1 \in Nat
    BY <1>4, <1>5
  <2>7. DOMAIN slots' = 1 .. n - 1
    BY <2>5, <2>6
  <2>8. \A k \in 1 .. n - 1 : k \in DOMAIN slots
    BY <1>4
  <2>9. QED
    BY <2>1, <2>5, <2>7, <2>8
<1>12. Gone \in Entry /\ Gone.dense = 0 /\ Gone.version = 0
  BY MaxVersionAssumption DEF Gone, Entry, Invalid
<1>13. /\ sparse' \in [Ids -> Entry] /\ sparse'[e.id] = Gone
       /\ \A i \in Ids : i # e.id /\ i # moved.id => sparse'[i] = sparse[i]
       /\ moved.id # e.id =>
             sparse'[moved.id].dense = d /\ sparse'[moved.id].version = sparse[moved.id].version
  <2>1. CASE moved.id = e.id
    <3>1. sparse' = [sparse EXCEPT ![e.id] = Gone]
      BY <1>1, <2>1 DEF SwapPopSparse
    <3>2. QED
      BY <1>2, <1>4, <1>12, <2>1, <3>1
  <2>2. CASE moved.id # e.id
    <3>1. sparse' = [sparse EXCEPT ![moved.id].dense = d, ![e.id] = Gone]
      BY <1>1, <1>8, <2>2 DEF SwapPopSparse
    <3> DEFINE x == [sparse[moved.id] EXCEPT !.dense = d]
    <3>2. x \in Entry /\ x.dense = d /\ x.version = sparse[moved.id].version
      BY <1>3, <1>4, <1>6 DEF Entry
    <3>3. sparse' = [sparse EXCEPT ![moved.id] = x, ![e.id] = Gone]
      BY <3>1
    <3> HIDE DEF x
    <3>4. QED
      BY <1>2, <1>4, <1>6, <1>12, <2>2, <3>2, <3>3
  <2>3. QED
    BY <2>1, <2>2
<1>14. \A i \in Ids : i # e.id /\ i # moved.id => sparse[i].dense # d /\ sparse[i].dense # n
  <2>1. d # Invalid /\ n # Invalid
    BY <1>3, <1>5 DEF Invalid
  <2>2. QED
    BY <1>3, <1>6, <2>1, EntryFacts
<1>15. moved.id # e.id => d \in 1 .. n - 1
  BY <1>4, <1>5, <1>10
<1>16. ASSUME NEW i \in Ids
       PROVE  /\ sparse'[i].dense = Invalid => sparse'[i].version = 0
              /\ sparse'[i].dense # Invalid =>
                    /\ sparse'[i].version # 0 /\ sparse'[i].dense \in DOMAIN slots'
                    /\ slots'[sparse'[i].dense].id = i
                    /\ slots'[sparse'[i].dense].version = sparse'[i].version
  <2>1. CASE i = e.id
    BY <1>12, <1>13, <2>1 DEF Invalid
  <2>2. CASE i = moved.id /\ i # e.id
    <3>1. sparse[i].version # 0 /\ slots[n].version = sparse[i].version
      BY <1>8, <2>2, EntryFacts
    <3>2. slots'[d] = moved /\ d \in DOMAIN slots'
      BY <1>11, <1>15, <2>2
    <3>3. QED
      BY <1>3, <1>6, <1>13, <2>2, <3>1, <3>2
  <2>3. CASE i # e.id /\ i # moved.id
    <3>1. CASE sparse[i].dense # Invalid
      <4>1. /\ sparse[i].version # 0 /\ sparse[i].dense \in 1 .. n
            /\ slots[sparse[i].dense].id = i /\ slots[sparse[i].dense].version = sparse[i].version
        BY <1>4, <3>1, EntryFacts
      <4>2. sparse[i].dense \in 1 .. n - 1 /\ sparse[i].dense # d
        BY <1>4, <1>14, <2>3, <4>1
      <4>3. QED
        BY <1>11, <1>13, <2>3, <3>1, <4>1, <4>2
    <3>2. QED
      BY <1>13, <2>3, <3>1, EntryFacts
  <2>4. QED
    BY <2>1, <2>2, <2>3
<1>17. ASSUME NEW k \in DOMAIN slots'
       PROVE  sparse'[slots'[k].id].dense = k
  <2>1. k \in 1 .. n - 1 /\ k \in DOMAIN slots /\ k # n
    BY <1>4, <1>11
  <2>2. CASE k = d
    BY <1>10, <1>11, <1>13, <2>1, <2>2
  <2>3. CASE k # d
    <3>1. slots[k].id \in Ids /\ slots[k].id # e.id /\ slots[k].id # moved.id
      BY <1>7, <1>8, <2>1, <2>3, EnteredFacts DEF d
    <3>2. QED
      BY <1>7, <1>11, <1>13, <2>1, <2>3, <3>1
  <2>4. QED
    BY <2>2, <2>3
<1>18. Entered(slots', sparse', free')
  BY <1>4, <1>9, <1>11, <1>13, <1>16, <1>17 DEF Entered
<1>19. ASSUME NEW i \in Ids, i # e.id
       PROVE  Same(slots, sparse, slots', sparse', i)
  <2>1. CASE i = moved.id
    BY <1>3, <1>6, <1>8, <1>11, <1>13, <1>15, <1>19, <2>1 DEF Same
  <2>2. CASE i # moved.id
    <3>1. CASE sparse[i].dense # Invalid
      <4>1. sparse[i].dense \in 1 .. n - 1 /\ sparse[i].dense # d
        <5>1. sparse[i].dense \in 1 .. n
          BY <1>4, <3>1, EntryFacts
        <5>2. QED
          BY <1>4, <1>14, <1>19, <2>2, <5>1
      <4>2. QED
        BY <1>11, <1>13, <1>19, <2>2, <4>1 DEF Same
    <3>2. CASE sparse[i].dense = Invalid
      BY <1>13, <1>19, <2>2, <3>2 DEF Same
    <3>3. QED
      BY <3>1, <3>2
  <2>3. QED
    BY <2>1, <2>2
<1>20. TakenFrom(e)
  BY <1>12, <1>13, <1>19 DEF TakenFrom, Invalid
<1>21. \A i \in Ids : i # e.id =>
          sparse'[i] = sparse[i] \/ (sparse[i].dense = n /\ d # n /\ sparse'[i].dense = d)
  BY <1>8, <1>10, <1>13
<1>22. QED
  BY <1>18, <1>20, <1>21 DEF d, n

(* One more may be registered. *)
Registers(t, f, g, j) ==
    /\ f \in Seq(Nat \ {0}) /\ j \in Nat \ {0} /\ g \in {<<>>, <<j>>}
    /\ t = f \o g

Knows(t, f, g, j) ==
    /\ t \in Seq(Nat \ {0})
    /\ \A n \in DOMAIN f : \E m \in DOMAIN t : t[m] = f[n]
    /\ g = <<j>> => \E m \in DOMAIN t : t[m] = j

LEMMA Registered ==
    ASSUME NEW f, NEW g, NEW j, NEW t, Registers(t, f, g, j)
    PROVE  Knows(t, f, g, j)
<1>0. f \in Seq(Nat \ {0}) /\ j \in Nat \ {0} /\ g \in {<<>>, <<j>>} /\ t = f \o g
  BY DEF Registers
<1>1. g \in Seq(Nat \ {0})
  <2>1. <<>> \in Seq(Nat \ {0}) /\ <<j>> \in Seq(Nat \ {0})
    BY <1>0
  <2>2. CASE g = <<>>
    BY <2>1, <2>2
  <2>3. CASE g = <<j>>
    BY <2>1, <2>3
  <2>4. QED
    BY <1>0, <2>2, <2>3
<1>2. g = <<j>> => Len(g) = 1 /\ g[1] = j
  OBVIOUS
<1>3. /\ t \in Seq(Nat \ {0}) /\ Len(t) = Len(f) + Len(g)
      /\ \A k \in 1 .. Len(f) + Len(g) : t[k] = IF k <= Len(f) THEN f[k] ELSE g[k - Len(f)]
  BY <1>0, <1>1, ConcatProperties
<1>4. Len(f) \in Nat /\ Len(g) \in Nat
  BY <1>0, <1>1
<1>5. DOMAIN t = 1 .. Len(f) + Len(g)
  BY <1>3, <1>4
<1>6. ASSUME NEW n \in DOMAIN f PROVE \E m \in DOMAIN t : t[m] = f[n]
  <2>1. n \in 1 .. Len(f) + Len(g) /\ n <= Len(f)
    BY <1>0, <1>4
  <2>2. QED
    BY <1>3, <1>5, <2>1
<1>7. ASSUME g = <<j>> PROVE \E m \in DOMAIN t : t[m] = j
  <2>1. Len(f) + 1 \in 1 .. Len(f) + Len(g) /\ ~ Len(f) + 1 <= Len(f) /\ Len(f) + 1 - Len(f) = 1
    BY <1>2, <1>4, <1>7
  <2>2. QED
    BY <1>2, <1>3, <1>5, <1>7, <2>1
<1>8. QED
  BY <1>3, <1>6, <1>7 DEF Knows

LEMMA SwappedKeeps ==
    ASSUME NEW s, Entered(s.slots, s.sparse, s.free), NEW i \in DOMAIN s.slots, NEW j \in DOMAIN s.slots,
           s.slots[i].id # s.slots[j].id
    PROVE  /\ Entered(Swapped(s, i, j).slots, Swapped(s, i, j).sparse, Swapped(s, i, j).free)
           /\ Moved(s.slots, s.sparse, Swapped(s, i, j).slots, Swapped(s, i, j).sparse)
           /\ DOMAIN Swapped(s, i, j).slots = DOMAIN s.slots
           /\ Swapped(s, i, j).slots[i] = s.slots[j] /\ Swapped(s, i, j).slots[j] = s.slots[i]
           /\ \A k \in DOMAIN s.slots : k # i /\ k # j => Swapped(s, i, j).slots[k] = s.slots[k]
<1> DEFINE sl == s.slots
           sp == s.sparse
           fr == s.free
           a == sl[i].id
           b == sl[j].id
           liveA == sp[a].dense = i
           liveB == sp[b].dense = j
           tl == Swapped(s, i, j).slots
           tp == Swapped(s, i, j).sparse
           tf == Swapped(s, i, j).free
           first == IF liveA THEN [sp EXCEPT ![a].dense = j] ELSE sp
<1>1. Entered(sl, sp, fr) /\ i \in DOMAIN sl /\ j \in DOMAIN sl /\ a # b
  OBVIOUS
<1>2. /\ tl = [sl EXCEPT ![i] = sl[j], ![j] = sl[i]]
      /\ tp = IF first[b].dense = j THEN [first EXCEPT ![b].dense = i] ELSE first
      /\ tf = fr \o (IF liveA THEN <<>> ELSE <<j>>) \o (IF first[b].dense = j THEN <<>> ELSE <<i>>)
  BY DEF Swapped
<1> HIDE DEF sl, sp, fr, tl, tp, tf
<1>3. /\ sl \in Seq(Slot) /\ sp \in [Ids -> Entry] /\ fr \in Seq(Nat \ {0})
      /\ i \in Nat \ {0} /\ j \in Nat \ {0} /\ a \in Ids /\ b \in Ids /\ sl[i] \in Slot /\ sl[j] \in Slot /\ i # j
  BY <1>1, EnteredFacts
<1>4. first[b] = sp[b]
  BY <1>1, <1>3
<1>5. first \in [Ids -> Entry]
  <2>1. [sp[a] EXCEPT !.dense = j] \in Entry
    BY <1>3 DEF Entry
  <2>2. QED
    BY <1>3, <2>1
<1>6. /\ tp = IF liveB THEN [first EXCEPT ![b].dense = i] ELSE first
      /\ tf = fr \o (IF liveA THEN <<>> ELSE <<j>>) \o (IF liveB THEN <<>> ELSE <<i>>)
  BY <1>2, <1>4
<1>7. tp \in [Ids -> Entry]
  <2>1. [first[b] EXCEPT !.dense = i] \in Entry
    BY <1>3, <1>5 DEF Entry
  <2> HIDE DEF first
  <2>2. QED
    BY <1>3, <1>5, <1>6, <2>1
<1>8. /\ liveA => tp[a].dense = j /\ tp[a].version = sp[a].version
      /\ liveB => tp[b].dense = i /\ tp[b].version = sp[b].version
      /\ ~ liveA => tp[a] = sp[a]
      /\ ~ liveB => tp[b] = sp[b]
      /\ \A x \in Ids : x # a /\ x # b => tp[x] = sp[x]
  <2>1. liveA => first[a].dense = j /\ first[a].version = sp[a].version
    BY <1>3 DEF Entry
  <2>2. ~ liveA => first[a] = sp[a]
    OBVIOUS
  <2>3. \A x \in Ids : x # a => first[x] = sp[x]
    BY <1>3
  <2> HIDE DEF first
  <2>4. tp[a] = first[a] /\ \A x \in Ids : x # b => tp[x] = first[x]
    BY <1>1, <1>3, <1>5, <1>6
  <2>5. liveB => tp[b].dense = i /\ tp[b].version = first[b].version
    BY <1>3, <1>5, <1>6 DEF Entry
  <2>6. ~ liveB => tp[b] = first[b]
    BY <1>6
  <2>7. QED
    BY <1>4, <2>1, <2>2, <2>3, <2>4, <2>5, <2>6
<1>9. /\ tl \in Seq(Slot) /\ DOMAIN tl = DOMAIN sl /\ tl[i] = sl[j] /\ tl[j] = sl[i]
      /\ \A k \in DOMAIN sl : k # i /\ k # j => tl[k] = sl[k]
  <2> DEFINE m == [sl EXCEPT ![i] = sl[j]]
  <2>1. /\ m \in Seq(Slot) /\ DOMAIN m = DOMAIN sl /\ m[i] = sl[j]
        /\ \A k \in DOMAIN sl : k # i => m[k] = sl[k]
    BY <1>1, <1>3, ChangedOne
  <2>2. tl = [m EXCEPT ![j] = sl[i]]
    BY <1>2
  <2> HIDE DEF m
  <2>3. /\ tl \in Seq(Slot) /\ DOMAIN tl = DOMAIN m /\ tl[j] = sl[i]
        /\ \A k \in DOMAIN m : k # j => tl[k] = m[k]
    BY <1>1, <1>3, <2>1, <2>2, ChangedOne
  <2>4. QED
    BY <1>1, <1>3, <2>1, <2>3
<1>10. /\ tf \in Seq(Nat \ {0})
       /\ \A n \in DOMAIN fr : \E m \in DOMAIN tf : tf[m] = fr[n]
       /\ ~ liveA => \E m \in DOMAIN tf : tf[m] = j
       /\ ~ liveB => \E m \in DOMAIN tf : tf[m] = i
  <2> DEFINE ja == IF liveA THEN <<>> ELSE <<j>>
             ib == IF liveB THEN <<>> ELSE <<i>>
  <2>1. ja \in {<<>>, <<j>>} /\ ib \in {<<>>, <<i>>}
    OBVIOUS
  <2> DEFINE h == fr \o ja
  <2>2. tf = h \o ib
    BY <1>6
  <2>3. (~ liveA => ja = <<j>>) /\ (~ liveB => ib = <<i>>)
    OBVIOUS
  <2>4. Registers(h, fr, ja, j)
    BY <1>3, <2>1 DEF Registers
  <2> HIDE DEF liveA, liveB, ja, ib, h
  <2>5. Knows(h, fr, ja, j)
    BY <2>4, Registered, Zenon
  <2>6. Registers(tf, h, ib, i)
    BY <1>3, <2>1, <2>2, <2>5 DEF Registers, Knows
  <2>7. Knows(tf, h, ib, i)
    BY <2>6, Registered, Zenon
  <2>8. QED
    BY <2>3, <2>5, <2>7 DEF Knows
<1>11. ASSUME NEW x \in Ids, sp[x].dense # Invalid, ~ (x = a /\ liveA), ~ (x = b /\ liveB)
       PROVE  tp[x] = sp[x] /\ sp[x].dense # i /\ sp[x].dense # j
  BY <1>1, <1>8, <1>11, EntryFacts
<1>12. i # Invalid /\ j # Invalid
  BY <1>3 DEF Invalid
<1>13. ASSUME NEW x \in Ids
       PROVE  /\ tp[x].dense = Invalid => tp[x].version = 0
              /\ tp[x].dense # Invalid =>
                    /\ tp[x].version # 0 /\ tp[x].dense \in DOMAIN tl
                    /\ tl[tp[x].dense].id = x
                    /\ tl[tp[x].dense].version = tp[x].version
  <2>1. CASE x = a /\ liveA
    <3>1. sp[a].version # 0 /\ sl[i].version = sp[a].version
      BY <1>1, <1>3, <1>12, <2>1, EntryFacts
    <3>2. tp[x].dense = j /\ tp[x].version = sp[a].version /\ tl[j] = sl[i] /\ j \in DOMAIN tl /\ sl[i].id = x
      BY <1>1, <1>8, <1>9, <2>1
    <3> HIDE DEF a, b, liveA, liveB
    <3>3. QED
      BY <1>12, <3>1, <3>2
  <2>2. CASE x = b /\ liveB
    <3>1. sp[b].version # 0 /\ sl[j].version = sp[b].version
      BY <1>1, <1>3, <1>12, <2>2, EntryFacts
    <3>2. tp[x].dense = i /\ tp[x].version = sp[b].version /\ tl[i] = sl[j] /\ i \in DOMAIN tl /\ sl[j].id = x
      BY <1>1, <1>8, <1>9, <2>2
    <3> HIDE DEF a, b, liveA, liveB
    <3>3. QED
      BY <1>12, <3>1, <3>2
  <2>3. CASE ~ (x = a /\ liveA) /\ ~ (x = b /\ liveB)
    <3>1. tp[x] = sp[x]
      BY <1>8, <2>3
    <3>2. CASE sp[x].dense # Invalid
      <4>1. sp[x].dense # i /\ sp[x].dense # j
        BY <1>11, <2>3, <3>2
      <4>2. QED
        BY <1>1, <1>9, <3>1, <3>2, <4>1, EntryFacts
    <3>3. QED
      BY <1>1, <3>1, <3>2, EntryFacts
  <2>4. QED
    BY <2>1, <2>2, <2>3
<1>14. ASSUME NEW k \in DOMAIN tl, tp[tl[k].id].dense # k
       PROVE  tl[k].version = 0 /\ \E n \in DOMAIN tf : tf[n] = k
  <2>1. CASE k = i
    <3>1. ~ liveB
      BY <1>8, <1>9, <1>14, <2>1
    <3>2. QED
      BY <1>1, <1>9, <1>10, <2>1, <3>1, SlotFacts
  <2>2. CASE k = j
    <3>1. ~ liveA
      BY <1>8, <1>9, <1>14, <2>2
    <3>2. QED
      BY <1>1, <1>9, <1>10, <2>2, <3>1, SlotFacts
  <2>3. CASE k # i /\ k # j
    <3>1. k \in DOMAIN sl /\ tl[k] = sl[k] /\ sl[k].id \in Ids
      BY <1>1, <1>9, <2>3, EnteredFacts
    <3>2. sp[sl[k].id].dense # k
      <4>1. SUFFICES ASSUME sp[sl[k].id].dense = k PROVE FALSE
        OBVIOUS
      <4>2. ~ (sl[k].id = a /\ liveA) /\ ~ (sl[k].id = b /\ liveB)
        BY <2>3, <4>1
      <4>3. tp[sl[k].id] = sp[sl[k].id]
        BY <1>8, <3>1, <4>2
      <4>4. QED
        BY <1>14, <3>1, <4>1, <4>3
    <3>3. QED
      BY <1>1, <1>10, <3>1, <3>2, SlotFacts
  <2>4. QED
    BY <2>1, <2>2, <2>3
<1>15. Entered(tl, tp, tf)
  BY <1>7, <1>9, <1>10, <1>13, <1>14 DEF Entered
<1>16. ASSUME NEW x \in Ids
       PROVE  Same(sl, sp, tl, tp, x)
  <2>1. CASE x = a /\ liveA
    BY <1>8, <1>9, <1>12, <2>1 DEF Same
  <2>2. CASE x = b /\ liveB
    BY <1>8, <1>9, <1>12, <2>2 DEF Same
  <2>3. CASE ~ (x = a /\ liveA) /\ ~ (x = b /\ liveB)
    <3>1. tp[x] = sp[x]
      BY <1>8, <2>3
    <3>2. CASE sp[x].dense # Invalid
      <4>1. sp[x].dense # i /\ sp[x].dense # j /\ sp[x].dense \in DOMAIN sl
        BY <1>1, <1>11, <2>3, <3>2, EntryFacts
      <4>2. QED
        BY <1>9, <3>1, <4>1 DEF Same
    <3>3. QED
      BY <3>1, <3>2 DEF Same
  <2>4. QED
    BY <2>1, <2>2, <2>3
<1>17. Moved(sl, sp, tl, tp)
  BY <1>16 DEF Moved
<1>18. QED
  BY <1>9, <1>15, <1>17 DEF sl, sp, fr, tl, tp, tf

(* The recursive functions are defined. *)
LEMMA SqueezedSteps ==
    ASSUME Len(slots) \in Nat
    PROVE  /\ Squeezed[0] = [slots |-> <<>>, sparse |-> sparse]
           /\ \A i \in 1 .. Len(slots) : Squeezed[i] = Squeeze(Squeezed[i - 1], i)
<1> DEFINE base == [slots |-> <<>>, sparse |-> sparse]
           n == Len(slots)
           T == {m \in 0 .. n : \E f : f = [i \in 0 .. m |-> IF i = 0 THEN base ELSE Squeeze(f[i - 1], i)]}
<1> HIDE DEF base, n
<1>0. n \in Nat
  BY DEF n
<1>1. 0 \in T
  <2> DEFINE z == [i \in 0 .. 0 |-> base]
  <2>1. z = [i \in 0 .. 0 |-> IF i = 0 THEN base ELSE Squeeze(z[i - 1], i)]
    OBVIOUS
  <2> HIDE DEF z
  <2>2. 0 \in 0 .. n
    BY <1>0
  <2>3. QED
    BY <2>1, <2>2
<1>2. ASSUME NEW m \in 1 .. n, m - 1 \in T PROVE m \in T
  <2>1. PICK f : f = [i \in 0 .. m - 1 |-> IF i = 0 THEN base ELSE Squeeze(f[i - 1], i)]
    BY <1>2
  <2> DEFINE g == [i \in 0 .. m |-> IF i = m THEN Squeeze(f[m - 1], m) ELSE f[i]]
  <2>2. ASSUME NEW i \in 0 .. m PROVE g[i] = IF i = 0 THEN base ELSE Squeeze(g[i - 1], i)
    <3>1. CASE i = m
      <4>1. i # 0 /\ i - 1 \in 0 .. m /\ i - 1 # m
        BY <3>1
      <4>2. QED
        BY <3>1, <4>1
    <3>2. CASE i # m
      <4>1. i \in 0 .. m - 1 /\ (i # 0 => i - 1 \in 0 .. m /\ i - 1 # m)
        BY <3>2
      <4>2. f[i] = IF i = 0 THEN base ELSE Squeeze(f[i - 1], i)
        BY <2>1, <4>1
      <4>3. QED
        BY <3>2, <4>1, <4>2
    <3>3. QED
      BY <3>1, <3>2
  <2>3. g = [i \in 0 .. m |-> IF i = 0 THEN base ELSE Squeeze(g[i - 1], i)]
    BY <2>2
  <2> HIDE DEF g
  <2>4. QED
    BY <1>0, <2>3
<1> HIDE DEF T
<1>3. n \in T
  <2>1. \A i \in 0 .. n : i \in T
    BY <1>0, <1>1, <1>2, Climb
  <2>2. QED
    BY <1>0, <2>1
<1>4. \E f : f = [i \in 0 .. n |-> IF i = 0 THEN base ELSE Squeeze(f[i - 1], i)]
  BY <1>3 DEF T
<1>5. Squeezed = [i \in 0 .. n |-> IF i = 0 THEN base ELSE Squeeze(Squeezed[i - 1], i)]
  BY <1>4, Zenon DEF Squeezed, base, n
<1>6. QED
  BY <1>0, <1>5 DEF base, n

LEMMA FollowedSteps ==
    ASSUME Len(slots) \in Nat, NEW p
    PROVE  \E f : /\ f[0] = sparse /\ \A i \in 1 .. Len(slots) : f[i] = Follow(f[i - 1], i, p)
                  /\ Followed(p) = f[Len(slots)]
<1> DEFINE n == Len(slots)
           T == {m \in 0 .. n : \E f : f = [i \in 0 .. m |-> IF i = 0 THEN sparse ELSE Follow(f[i - 1], i, p)]}
<1> HIDE DEF n
<1>0. n \in Nat
  BY DEF n
<1>1. 0 \in T
  <2> DEFINE z == [i \in 0 .. 0 |-> sparse]
  <2>1. z = [i \in 0 .. 0 |-> IF i = 0 THEN sparse ELSE Follow(z[i - 1], i, p)]
    OBVIOUS
  <2> HIDE DEF z
  <2>2. 0 \in 0 .. n
    BY <1>0
  <2>3. QED
    BY <2>1, <2>2
<1>2. ASSUME NEW m \in 1 .. n, m - 1 \in T PROVE m \in T
  <2>1. PICK f : f = [i \in 0 .. m - 1 |-> IF i = 0 THEN sparse ELSE Follow(f[i - 1], i, p)]
    BY <1>2
  <2> DEFINE g == [i \in 0 .. m |-> IF i = m THEN Follow(f[m - 1], m, p) ELSE f[i]]
  <2>2. ASSUME NEW i \in 0 .. m PROVE g[i] = IF i = 0 THEN sparse ELSE Follow(g[i - 1], i, p)
    <3>1. CASE i = m
      <4>1. i # 0 /\ i - 1 \in 0 .. m /\ i - 1 # m
        BY <3>1
      <4>2. QED
        BY <3>1, <4>1
    <3>2. CASE i # m
      <4>1. i \in 0 .. m - 1 /\ (i # 0 => i - 1 \in 0 .. m /\ i - 1 # m)
        BY <3>2
      <4>2. f[i] = IF i = 0 THEN sparse ELSE Follow(f[i - 1], i, p)
        BY <2>1, <4>1
      <4>3. QED
        BY <3>2, <4>1, <4>2
    <3>3. QED
      BY <3>1, <3>2
  <2>3. g = [i \in 0 .. m |-> IF i = 0 THEN sparse ELSE Follow(g[i - 1], i, p)]
    BY <2>2
  <2> HIDE DEF g
  <2>4. QED
    BY <1>0, <2>3
<1> HIDE DEF T
<1>3. n \in T
  <2>1. \A i \in 0 .. n : i \in T
    BY <1>0, <1>1, <1>2, Climb
  <2>2. QED
    BY <1>0, <2>1
<1> DEFINE F == CHOOSE f : f = [i \in 0 .. n |-> IF i = 0 THEN sparse ELSE Follow(f[i - 1], i, p)]
<1>4. \E f : f = [i \in 0 .. n |-> IF i = 0 THEN sparse ELSE Follow(f[i - 1], i, p)]
  BY <1>3 DEF T
<1>5. F = [i \in 0 .. n |-> IF i = 0 THEN sparse ELSE Follow(F[i - 1], i, p)]
  BY <1>4, Zenon
<1>6. Followed(p) = F[n]
  BY Zenon DEF Followed, n
<1> HIDE DEF F
<1>7. F[0] = sparse /\ \A i \in 1 .. n : F[i] = Follow(F[i - 1], i, p)
  BY <1>0, <1>5
<1>8. QED
  BY <1>6, <1>7 DEF n

(* compact: what is squeezed so far lies densely. *)
LEMMA SqueezedKeeps ==
    ASSUME Entered(slots, sparse, free)
    PROVE  LET sl == Squeezed[Len(slots)].slots
               sp == Squeezed[Len(slots)].sparse
           IN  /\ sl \in Seq(Slot) /\ sp \in [Ids -> Entry]
               /\ \A i \in Ids : sparse[i].dense = Invalid => sp[i] = sparse[i]
               /\ \A i \in Ids : sparse[i].dense # Invalid =>
                     /\ sp[i].version = sparse[i].version /\ sp[i].dense \in DOMAIN sl
                     /\ sl[sp[i].dense] = slots[sparse[i].dense]
               /\ \A k \in DOMAIN sl : sl[k].id \in Ids /\ sp[sl[k].id].dense = k
<1> DEFINE n == Len(slots)
           Good(m, acc) ==
               /\ acc.slots \in Seq(Slot) /\ Len(acc.slots) \in 0 .. m /\ acc.sparse \in [Ids -> Entry]
               /\ \A i \in Ids : sparse[i].dense = Invalid \/ sparse[i].dense > m => acc.sparse[i] = sparse[i]
               /\ \A i \in Ids : sparse[i].dense # Invalid /\ sparse[i].dense <= m =>
                     /\ acc.sparse[i].version = sparse[i].version
                     /\ acc.sparse[i].dense \in DOMAIN acc.slots
                     /\ acc.slots[acc.sparse[i].dense] = slots[sparse[i].dense]
               /\ \A k \in DOMAIN acc.slots :
                     LET i == acc.slots[k].id
                     IN  /\ i \in Ids /\ acc.sparse[i].dense = k
                         /\ sparse[i].dense # Invalid /\ sparse[i].dense <= m
           T == {m \in 0 .. n : Good(m, Squeezed[m])}
<1>0. n \in Nat /\ DOMAIN slots = 1 .. n
  BY EnteredFacts
<1>1. 0 \in T
  <2> DEFINE acc == Squeezed[0]
  <2>1. acc.slots = <<>> /\ acc.sparse = sparse
    BY <1>0, SqueezedSteps
  <2>2. /\ acc.slots \in Seq(Slot) /\ Len(acc.slots) = 0 /\ DOMAIN acc.slots = {} /\ acc.sparse \in [Ids -> Entry]
    BY <2>1, EnteredFacts
  <2>3. \A i \in Ids : sparse[i].dense \in Nat /\ (sparse[i].dense <= 0 => sparse[i].dense = Invalid)
    BY EnteredFacts DEF Invalid
  <2> HIDE DEF acc
  <2>4. Good(0, acc)
    BY <2>1, <2>2, <2>3
  <2>5. QED
    BY <1>0, <2>4 DEF acc
<1>2. ASSUME NEW m \in 1 .. n, m - 1 \in T PROVE m \in T
  <2> DEFINE acc == Squeezed[m - 1]
             new == Squeezed[m]
             s == slots[m]
             w == Len(acc.slots) + 1
  <2>1. Good(m - 1, acc)
    BY <1>2
  <2>2. new = Squeeze(acc, m)
    BY <1>0, SqueezedSteps
  <2>3. /\ m \in DOMAIN slots /\ m \in Nat \ {0} /\ s \in Slot /\ s.id \in Ids
    BY <1>0, EnteredFacts
  <2> HIDE DEF acc, new, s, n
  <2>4. /\ acc.slots \in Seq(Slot) /\ Len(acc.slots) \in 0 .. m - 1 /\ acc.sparse \in [Ids -> Entry]
        /\ w \in 1 .. m /\ w \in Nat \ {0} /\ DOMAIN acc.slots = 1 .. w - 1 /\ w - 1 \in Nat /\ w - 1 = Len(acc.slots)
    BY <2>1, <2>3
  <2>5. /\ \A i \in Ids : sparse[i].dense = Invalid \/ sparse[i].dense > m - 1 => acc.sparse[i] = sparse[i]
        /\ \A i \in Ids : sparse[i].dense # Invalid /\ sparse[i].dense <= m - 1 =>
              /\ acc.sparse[i].version = sparse[i].version
              /\ acc.sparse[i].dense \in DOMAIN acc.slots
              /\ acc.slots[acc.sparse[i].dense] = slots[sparse[i].dense]
        /\ \A k \in DOMAIN acc.slots : LET i == acc.slots[k].id IN
              /\ i \in Ids /\ acc.sparse[i].dense = k
              /\ sparse[i].dense # Invalid /\ sparse[i].dense <= m - 1
    BY <2>1
  <2>6. \A i \in Ids : /\ sparse[i].dense \in Nat
                       /\ sparse[i].dense > m - 1 <=> sparse[i].dense > m \/ sparse[i].dense = m
                       /\ sparse[i].dense <= m <=> sparse[i].dense <= m - 1 \/ sparse[i].dense = m
    BY <2>3, EnteredFacts
  <2>7. \A i \in Ids : sparse[i].dense = m => i = s.id
    BY <2>3, EntryFacts DEF s, Invalid
  <2>8. (m \notin Range(free) \/ acc.sparse[s.id].dense = m) <=> sparse[s.id].dense = m
    <3>1. ASSUME m \notin Range(free) PROVE sparse[s.id].dense = m
      <4>1. ~ \E k \in DOMAIN free : free[k] = m
        BY <3>1 DEF Range
      <4>2. QED
        BY <2>3, <4>1, SlotFacts DEF s
    <3>2. ASSUME acc.sparse[s.id].dense = m PROVE sparse[s.id].dense = m
      <4>1. SUFFICES ASSUME sparse[s.id].dense # m PROVE FALSE
        OBVIOUS
      <4>2. sparse[s.id].dense # Invalid /\ sparse[s.id].dense <= m - 1
        BY <2>3, <2>5, <2>6, <3>2, <4>1
      <4>3. acc.sparse[s.id].dense \in 1 .. w - 1
        BY <2>3, <2>4, <2>5, <4>2
      <4>4. QED
        BY <2>3, <2>4, <3>2, <4>3
    <3>3. ASSUME sparse[s.id].dense = m PROVE acc.sparse[s.id].dense = m
      BY <2>3, <2>5, <2>6, <3>3
    <3>4. QED
      BY <3>1, <3>2, <3>3
  <2>9. CASE sparse[s.id].dense # m
    <3>1. new = acc
      BY <2>2, <2>8, <2>9 DEF Squeeze, s
    <3>2. \A i \in Ids : sparse[i].dense # m
      BY <2>7, <2>9
    <3>3. Len(acc.slots) \in 0 .. m
      BY <2>3, <2>4
    <3>4. Good(m, acc)
      BY <2>4, <2>5, <2>6, <3>2, <3>3
    <3>5. QED
      BY <3>1, <3>4 DEF new, n
  <2>10. CASE sparse[s.id].dense = m
    <3>1. /\ new.slots = Append(acc.slots, s)
          /\ new.sparse = IF w = m THEN acc.sparse ELSE [acc.sparse EXCEPT ![s.id].dense = w]
      BY <2>2, <2>8, <2>10 DEF Squeeze, s
    <3>2. acc.sparse[s.id] = sparse[s.id]
      BY <2>3, <2>5, <2>6, <2>10
    <3>3. /\ new.slots \in Seq(Slot) /\ Len(new.slots) = w /\ new.slots[w] = s
          /\ \A k \in 1 .. w - 1 : new.slots[k] = acc.slots[k]
      BY <2>3, <2>4, <3>1, AddedOne
    <3>4. DOMAIN new.slots = 1 .. w
      BY <2>4, <3>3
    <3>5. /\ new.sparse \in [Ids -> Entry] /\ new.sparse[s.id].dense = w
          /\ new.sparse[s.id].version = sparse[s.id].version
          /\ \A i \in Ids : i # s.id => new.sparse[i] = acc.sparse[i]
      <4>1. CASE w = m
        BY <2>4, <2>10, <3>1, <3>2, <4>1
      <4>2. CASE w # m
        <5> DEFINE x == [acc.sparse[s.id] EXCEPT !.dense = w]
        <5>1. acc.sparse[s.id] \in Entry /\ w \in Nat
          BY <2>3, <2>4
        <5>2. x \in Entry /\ x.dense = w /\ x.version = acc.sparse[s.id].version
          BY <5>1 DEF Entry
        <5>3. new.sparse = [acc.sparse EXCEPT ![s.id] = x]
          BY <3>1, <4>2
        <5> HIDE DEF x
        <5>4. QED
          BY <2>3, <2>4, <3>2, <5>2, <5>3
      <4>3. QED
        BY <4>1, <4>2
    <3>6. \A i \in Ids : sparse[i].dense = Invalid \/ sparse[i].dense > m => new.sparse[i] = sparse[i]
      <4>1. ASSUME NEW i \in Ids, sparse[i].dense = Invalid \/ sparse[i].dense > m PROVE i # s.id
        BY <2>3, <2>10, <4>1 DEF Invalid
      <4>2. QED
        BY <2>5, <2>6, <3>5, <4>1
    <3>7. ASSUME NEW i \in Ids, sparse[i].dense # Invalid, sparse[i].dense <= m
          PROVE  /\ new.sparse[i].version = sparse[i].version
                 /\ new.sparse[i].dense \in DOMAIN new.slots
                 /\ new.slots[new.sparse[i].dense] = slots[sparse[i].dense]
      <4>1. CASE i = s.id
        <5>1. w \in 1 .. w
          BY <2>4
        <5>2. QED
          BY <2>10, <3>3, <3>4, <3>5, <4>1, <5>1 DEF s
      <4>2. CASE i # s.id
        <5>1. sparse[i].dense <= m - 1
          BY <2>6, <2>7, <3>7, <4>2
        <5>2. /\ acc.sparse[i].version = sparse[i].version
              /\ acc.sparse[i].dense \in 1 .. w - 1
              /\ acc.slots[acc.sparse[i].dense] = slots[sparse[i].dense]
          BY <2>4, <2>5, <3>7, <5>1
        <5>3. acc.sparse[i].dense \in 1 .. w
          BY <2>4, <5>2
        <5>4. QED
          BY <3>3, <3>4, <3>5, <4>2, <5>2, <5>3
      <4>3. QED
        BY <4>1, <4>2
    <3>8. ASSUME NEW k \in DOMAIN new.slots
          PROVE  LET i == new.slots[k].id
                 IN  /\ i \in Ids /\ new.sparse[i].dense = k
                     /\ sparse[i].dense # Invalid /\ sparse[i].dense <= m
      <4>1. CASE k = w
        BY <2>3, <2>10, <3>3, <3>5, <4>1 DEF Invalid
      <4>2. CASE k # w
        <5>1. k \in 1 .. w - 1
          BY <2>4, <3>4, <4>2
        <5> DEFINE i == acc.slots[k].id
        <5>2. /\ i \in Ids /\ acc.sparse[i].dense = k /\ sparse[i].dense # Invalid /\ sparse[i].dense <= m - 1
          BY <2>4, <2>5, <5>1
        <5>3. new.slots[k].id = i
          BY <3>3, <5>1
        <5> HIDE DEF i
        <5>4. i # s.id
          BY <2>3, <2>10, <5>2
        <5>5. QED
          BY <2>6, <3>5, <5>2, <5>3, <5>4
      <4>3. QED
        BY <4>1, <4>2
    <3>9. Len(new.slots) \in 0 .. m
      BY <2>4, <3>3
    <3>10. Good(m, new)
      BY <3>3, <3>5, <3>6, <3>7, <3>8, <3>9
    <3>11. QED
      BY <3>10 DEF new, n
  <2>11. QED
    BY <2>9, <2>10
<1>3. n \in T
  <2> HIDE DEF T
  <2>1. \A i \in 0 .. n : i \in T
    BY <1>0, <1>1, <1>2, Climb
  <2>2. QED
    BY <1>0, <2>1
<1>4. Good(n, Squeezed[n])
  BY <1>3
<1>5. \A i \in Ids : sparse[i].dense # Invalid => sparse[i].dense <= n
  <2>1. ASSUME NEW i \in Ids, sparse[i].dense # Invalid PROVE sparse[i].dense \in 1 .. n
    BY <1>0, <2>1, EntryFacts
  <2>2. QED
    BY <1>0, <2>1
<1>6. QED
  BY <1>4, <1>5

LEMMA CompactKeeps ==
    ASSUME Entered(slots, sparse, free), Compact
    PROVE  /\ Entered(slots', sparse', free') /\ Moved(slots, sparse, slots', sparse')
           /\ \/ hot' = Cold /\ fresh' = FALSE
              \/ hot' = hot /\ fresh' = fresh /\ \A i \in Ids : sparse'[i].dense = sparse[i].dense
<1> DEFINE sl == Squeezed[Len(slots)].slots
           sp == Squeezed[Len(slots)].sparse
<1>1. /\ slots' = sl /\ sparse' = sp /\ free' = <<>>
      /\ (hot' = Cold /\ fresh' = FALSE) \/ (hot' = hot /\ fresh' = fresh /\ sl = slots)
  BY DEF Compact, Bump, Outdate
<1>2. /\ sl \in Seq(Slot) /\ sp \in [Ids -> Entry]
      /\ \A i \in Ids : sparse[i].dense = Invalid => sp[i] = sparse[i]
      /\ \A i \in Ids : sparse[i].dense # Invalid =>
            /\ sp[i].version = sparse[i].version /\ sp[i].dense \in DOMAIN sl
            /\ sl[sp[i].dense] = slots[sparse[i].dense]
      /\ \A k \in DOMAIN sl : sl[k].id \in Ids /\ sp[sl[k].id].dense = k
  BY SqueezedKeeps
<1> HIDE DEF sl, sp
<1>3. \A k \in DOMAIN sl : k \in Nat \ {0} /\ k # Invalid
  BY <1>2 DEF Invalid
<1>4. ASSUME NEW i \in Ids
      PROVE  /\ sp[i].dense = Invalid => sp[i].version = 0
             /\ sp[i].dense # Invalid =>
                   /\ sp[i].version # 0 /\ sp[i].dense \in DOMAIN sl
                   /\ sl[sp[i].dense].id = i
                   /\ sl[sp[i].dense].version = sp[i].version
  <2>1. CASE sparse[i].dense = Invalid
    BY <1>2, <2>1, EntryFacts
  <2>2. CASE sparse[i].dense # Invalid
    BY <1>2, <1>3, <2>2, EntryFacts
  <2>3. QED
    BY <2>1, <2>2
<1>5. free' \in Seq(Nat \ {0})
  BY <1>1
<1>6. Entered(slots', sparse', free')
  BY <1>1, <1>2, <1>4, <1>5 DEF Entered
<1>7. Moved(slots, sparse, sl, sp)
  BY <1>2, <1>3 DEF Moved, Same
<1>8. ASSUME sl = slots, NEW i \in Ids PROVE sp[i].dense = sparse[i].dense
  <2>1. CASE sparse[i].dense = Invalid
    BY <1>2, <2>1
  <2>2. CASE sparse[i].dense # Invalid
    <3>1. sparse[i].dense \in DOMAIN sl /\ sl[sparse[i].dense].id = i
      BY <1>8, <2>2, EntryFacts
    <3>2. QED
      BY <1>2, <3>1
  <2>3. QED
    BY <2>1, <2>2
<1>9. QED
  BY <1>1, <1>6, <1>7, <1>8

LEMMA FollowedKeeps ==
    ASSUME Entered(slots, sparse, free), Tombstones = {}, NEW p \in Bijection(DOMAIN slots, DOMAIN slots)
    PROVE  /\ Followed(p) \in [Ids -> Entry]
           /\ \A i \in Ids : sparse[i].dense = Invalid => Followed(p)[i] = sparse[i]
           /\ \A j \in DOMAIN slots :
                 LET i == slots[p[j]].id
                 IN  Followed(p)[i].dense = j /\ Followed(p)[i].version = sparse[i].version
<1> DEFINE n == Len(slots)
<1>0. n \in Nat /\ DOMAIN slots = 1 .. n
  BY EnteredFacts
<1>1. PICK f : /\ f[0] = sparse /\ \A i \in 1 .. n : f[i] = Follow(f[i - 1], i, p)
               /\ Followed(p) = f[n]
  BY <1>0, FollowedSteps
<1> DEFINE Good(m, acc) ==
               /\ acc \in [Ids -> Entry]
               /\ \A i \in Ids : sparse[i].dense = Invalid => acc[i] = sparse[i]
               /\ \A j \in 1 .. n : LET i == slots[p[j]].id
                     IN  IF j <= m THEN acc[i].dense = j /\ acc[i].version = sparse[i].version
                         ELSE acc[i] = sparse[i]
           T == {m \in 0 .. n : Good(m, f[m])}
<1>2. /\ \A j \in 1 .. n : p[j] \in 1 .. n
      /\ \A j, k \in 1 .. n : p[j] = p[k] => j = k
  BY <1>0 DEF Bijection, Injection, IsInjective
<1>3. \A j \in 1 .. n : slots[j].id \in Ids /\ sparse[slots[j].id].dense = j /\ j \in Nat \ {0}
  BY <1>0, EnteredFacts DEF Tombstones, IsLive
<1> HIDE DEF n
<1>4. \A j \in 1 .. n : slots[p[j]].id \in Ids /\ sparse[slots[p[j]].id].dense = p[j] /\ p[j] # Invalid
  BY <1>2, <1>3 DEF Invalid
<1>5. 0 \in T
  <2>1. \A j \in 1 .. n : ~ j <= 0
    BY <1>0
  <2>2. Good(0, sparse)
    BY <2>1, EnteredFacts
  <2>3. QED
    BY <1>0, <1>1, <2>2
<1>6. ASSUME NEW m \in 1 .. n, m - 1 \in T PROVE m \in T
  <2> DEFINE acc == f[m - 1]
             new == f[m]
             i == slots[p[m]].id
             x == [acc[i] EXCEPT !.dense = m]
  <2>1. Good(m - 1, acc)
    BY <1>6
  <2>2. new = Follow(acc, m, p)
    BY <1>1
  <2> HIDE DEF acc, new
  <2>3. i \in Ids /\ acc \in [Ids -> Entry] /\ m \in Nat /\ ~ m <= m - 1
    BY <1>0, <1>4, <2>1
  <2>4. acc[i] = sparse[i]
    BY <2>1, <2>3
  <2>5. new = [acc EXCEPT ![i].dense = m]
    BY <1>4, <2>2, <2>4 DEF Follow
  <2>6. x \in Entry /\ x.dense = m /\ x.version = sparse[i].version
    BY <2>3, <2>4 DEF Entry
  <2>7. new = [acc EXCEPT ![i] = x]
    BY <2>5
  <2> HIDE DEF x
  <2>8. new \in [Ids -> Entry] /\ new[i] = x /\ \A k \in Ids : k # i => new[k] = acc[k]
    BY <2>3, <2>6, <2>7
  <2>9. ASSUME NEW k \in Ids, sparse[k].dense = Invalid PROVE new[k] = sparse[k]
    <3>1. k # i
      BY <1>4, <2>9
    <3>2. QED
      BY <2>1, <2>8, <2>9, <3>1
  <2>10. ASSUME NEW j \in 1 .. n
         PROVE  LET k == slots[p[j]].id
                IN  IF j <= m THEN new[k].dense = j /\ new[k].version = sparse[k].version
                    ELSE new[k] = sparse[k]
    <3> DEFINE k == slots[p[j]].id
    <3>1. CASE j = m
      BY <2>3, <2>6, <2>8, <3>1
    <3>2. CASE j # m
      <4>1. k # i /\ k \in Ids
        BY <1>2, <1>4, <3>2
      <4>2. j <= m <=> j <= m - 1
        BY <1>0, <3>2
      <4>3. new[k] = acc[k]
        BY <2>8, <4>1
      <4>4. QED
        BY <2>1, <4>2, <4>3
    <3>3. QED
      BY <3>1, <3>2
  <2>11. Good(m, new)
    BY <2>8, <2>9, <2>10
  <2>12. QED
    BY <2>11 DEF new
<1>7. n \in T
  <2> HIDE DEF T
  <2>1. \A i \in 0 .. n : i \in T
    BY <1>0, <1>5, <1>6, Climb
  <2>2. QED
    BY <1>0, <2>1
<1>8. Good(n, Followed(p))
  BY <1>1, <1>7
<1>9. \A j \in 1 .. n : j <= n
  BY <1>0
<1>10. QED
  BY <1>0, <1>8, <1>9

LEMMA SortKeeps ==
    ASSUME Entered(slots, sparse, free), Tombstones = {}, Sort
    PROVE  Entered(slots', sparse', free') /\ Moved(slots, sparse, slots', sparse')
<1> DEFINE n == Len(slots)
<1>0. n \in Nat /\ DOMAIN slots = 1 .. n /\ slots \in Seq(Slot)
  BY EnteredFacts
<1>1. PICK p \in Bijection(DOMAIN slots, DOMAIN slots) :
          slots' = [i \in DOMAIN slots |-> slots[p[i]]] /\ sparse' = Followed(p)
  BY DEF Sort, Orders
<1>2. free' = free
  BY DEF Sort
<1>3. /\ sparse' \in [Ids -> Entry]
      /\ \A i \in Ids : sparse[i].dense = Invalid => sparse'[i] = sparse[i]
      /\ \A j \in DOMAIN slots :
            LET i == slots[p[j]].id IN sparse'[i].dense = j /\ sparse'[i].version = sparse[i].version
  BY <1>1, FollowedKeeps
<1>4. /\ \A j \in DOMAIN slots : p[j] \in DOMAIN slots
      /\ \A k \in DOMAIN slots : \E j \in DOMAIN slots : p[j] = k
  BY DEF Bijection, Surjection
<1>5. \A j \in DOMAIN slots : slots[j].id \in Ids /\ sparse[slots[j].id].dense = j /\ j \in Nat \ {0} /\ slots[j] \in Slot
  BY EnteredFacts DEF Tombstones, IsLive
<1>6. DOMAIN slots' = DOMAIN slots /\ \A j \in DOMAIN slots : slots'[j] = slots[p[j]] /\ slots'[j] \in Slot
  BY <1>1, <1>4, <1>5
<1>7. slots' \in Seq(Slot)
  BY <1>0, <1>1, <1>4, <1>5
<1>8. ASSUME NEW i \in Ids, sparse[i].dense # Invalid
      PROVE  /\ sparse'[i].version = sparse[i].version /\ sparse'[i].dense \in DOMAIN slots'
             /\ sparse'[i].dense # Invalid
             /\ slots'[sparse'[i].dense] = slots[sparse[i].dense]
  <2>1. sparse[i].dense \in DOMAIN slots /\ slots[sparse[i].dense].id = i
    BY <1>8, EntryFacts
  <2>2. PICK j \in DOMAIN slots : p[j] = sparse[i].dense
    BY <1>4, <2>1
  <2>3. sparse'[i].dense = j /\ sparse'[i].version = sparse[i].version
    BY <1>3, <2>1, <2>2
  <2>4. QED
    BY <1>5, <1>6, <2>2, <2>3 DEF Invalid
<1>9. ASSUME NEW i \in Ids
      PROVE  /\ sparse'[i].dense = Invalid => sparse'[i].version = 0
             /\ sparse'[i].dense # Invalid =>
                   /\ sparse'[i].version # 0 /\ sparse'[i].dense \in DOMAIN slots'
                   /\ slots'[sparse'[i].dense].id = i
                   /\ slots'[sparse'[i].dense].version = sparse'[i].version
  <2>1. CASE sparse[i].dense = Invalid
    BY <1>3, <2>1, EntryFacts
  <2>2. CASE sparse[i].dense # Invalid
    BY <1>8, <2>2, EntryFacts
  <2>3. QED
    BY <2>1, <2>2
<1>10. \A k \in DOMAIN slots' : sparse'[slots'[k].id].dense = k
  BY <1>3, <1>6
<1>11. Entered(slots', sparse', free')
  BY <1>2, <1>3, <1>7, <1>9, <1>10, EnteredFacts DEF Entered
<1>12. Moved(slots, sparse, slots', sparse')
  BY <1>3, <1>8 DEF Moved, Same
<1>13. QED
  BY <1>11, <1>12

LEMMA ClearKeeps ==
    ASSUME Entered(slots, sparse, free), Clear
    PROVE  /\ Entered(slots', sparse', free')
           /\ \A i \in Ids : sparse'[i].dense = Invalid
           /\ Present \subseteq {slots[i].id : i \in DOMAIN slots \ Tombstones}
<1>1. slots' = <<>> /\ sparse' = [i \in Ids |-> Gone] /\ free' = free
  BY DEF Clear
<1>2. Gone \in Entry /\ Gone.dense = 0 /\ Gone.version = 0
  BY MaxVersionAssumption DEF Gone, Entry, Invalid
<1>3. slots' \in Seq(Slot) /\ DOMAIN slots' = {} /\ free' \in Seq(Nat \ {0})
  BY <1>1, EnteredFacts
<1>4. sparse' \in [Ids -> Entry] /\ \A i \in Ids : sparse'[i] = Gone
  BY <1>1, <1>2
<1>5. Entered(slots', sparse', free')
  BY <1>2, <1>3, <1>4 DEF Entered, Invalid
<1>6. ASSUME NEW i \in Present PROVE i \in {slots[k].id : k \in DOMAIN slots \ Tombstones}
  <2>1. i \in Ids /\ sparse[i].dense # Invalid
    BY DEF Present
  <2>2. sparse[i].dense \in DOMAIN slots /\ slots[sparse[i].dense].id = i
    BY <2>1, EntryFacts
  <2>3. sparse[i].dense \notin Tombstones
    BY <2>2 DEF Tombstones, IsLive
  <2>4. QED
    BY <2>2, <2>3
<1>7. QED
  BY <1>2, <1>4, <1>5, <1>6 DEF Invalid

LEMMA SwapKeeps ==
    ASSUME Entered(slots, sparse, free), NEW i \in DOMAIN slots, NEW j \in DOMAIN slots,
           slots[i].id # slots[j].id, Swap(i, j)
    PROVE  Entered(slots', sparse', free') /\ Moved(slots, sparse, slots', sparse')
<1> DEFINE t == Swapped(Records, i, j)
<1>1. slots' = t.slots /\ sparse' = t.sparse /\ free' = t.free
  BY DEF Swap, Become
<1>2. Records.slots = slots /\ Records.sparse = sparse /\ Records.free = free
  BY DEF Records
<1> HIDE DEF t
<1>3. Entered(t.slots, t.sparse, t.free) /\ Moved(slots, sparse, t.slots, t.sparse)
  BY <1>2, SwappedKeeps DEF t
<1>4. QED
  BY <1>1, <1>3

LEMMA PackedFirstSteps ==
    ASSUME Len(slots) \in Nat
    PROVE  /\ PackedFirst[0] = [to |-> Records, owned |-> 0]
           /\ \A i \in 1 .. Len(slots) : PackedFirst[i] = PackFirst(PackedFirst[i - 1], i)
<1> DEFINE base == [to |-> Records, owned |-> 0]
           n == Len(slots)
           T == {m \in 0 .. n : \E f : f = [i \in 0 .. m |-> IF i = 0 THEN base ELSE PackFirst(f[i - 1], i)]}
<1> HIDE DEF base, n
<1>0. n \in Nat
  BY DEF n
<1>1. 0 \in T
  <2> DEFINE z == [i \in 0 .. 0 |-> base]
  <2>1. z = [i \in 0 .. 0 |-> IF i = 0 THEN base ELSE PackFirst(z[i - 1], i)]
    OBVIOUS
  <2> HIDE DEF z
  <2>2. 0 \in 0 .. n
    BY <1>0
  <2>3. QED
    BY <2>1, <2>2
<1>2. ASSUME NEW m \in 1 .. n, m - 1 \in T PROVE m \in T
  <2>1. PICK f : f = [i \in 0 .. m - 1 |-> IF i = 0 THEN base ELSE PackFirst(f[i - 1], i)]
    BY <1>2
  <2> DEFINE g == [i \in 0 .. m |-> IF i = m THEN PackFirst(f[m - 1], m) ELSE f[i]]
  <2>2. ASSUME NEW i \in 0 .. m PROVE g[i] = IF i = 0 THEN base ELSE PackFirst(g[i - 1], i)
    <3>1. CASE i = m
      <4>1. i # 0 /\ i - 1 \in 0 .. m /\ i - 1 # m
        BY <3>1
      <4>2. QED
        BY <3>1, <4>1
    <3>2. CASE i # m
      <4>1. i \in 0 .. m - 1 /\ (i # 0 => i - 1 \in 0 .. m /\ i - 1 # m)
        BY <3>2
      <4>2. f[i] = IF i = 0 THEN base ELSE PackFirst(f[i - 1], i)
        BY <2>1, <4>1
      <4>3. QED
        BY <3>2, <4>1, <4>2
    <3>3. QED
      BY <3>1, <3>2
  <2>3. g = [i \in 0 .. m |-> IF i = 0 THEN base ELSE PackFirst(g[i - 1], i)]
    BY <2>2
  <2> HIDE DEF g
  <2>4. QED
    BY <1>0, <2>3
<1> HIDE DEF T
<1>3. n \in T
  <2>1. \A i \in 0 .. n : i \in T
    BY <1>0, <1>1, <1>2, Climb
  <2>2. QED
    BY <1>0, <2>1
<1>4. \E f : f = [i \in 0 .. n |-> IF i = 0 THEN base ELSE PackFirst(f[i - 1], i)]
  BY <1>3 DEF T
<1>5. PackedFirst = [i \in 0 .. n |-> IF i = 0 THEN base ELSE PackFirst(PackedFirst[i - 1], i)]
  BY <1>4, Zenon DEF PackedFirst, base, n
<1>6. QED
  BY <1>0, <1>5 DEF base, n

LEMMA MovedTwice ==
    ASSUME NEW sl, NEW sp, NEW tl, NEW tp, NEW ul, NEW up, Moved(sl, sp, tl, tp), Moved(tl, tp, ul, up)
    PROVE  Moved(sl, sp, ul, up)
BY DEF Moved, Same

(* No tombstone is of an entity that has the component in another slot. *)
Tame(sl, sp) == \A k \in DOMAIN sl : sp[sl[k].id].dense \in {k, Invalid}

Member(i) == Both("owning", i)

(* The members are packed in front of all others. *)
LEMMA PackedFirstKeeps ==
    ASSUME Entered(slots, sparse, free), Tame(slots, sparse)
    PROVE  LET p == PackedFirst[Len(slots)]
               t == p.to
           IN  /\ Entered(t.slots, t.sparse, t.free) /\ Moved(slots, sparse, t.slots, t.sparse)
               /\ DOMAIN t.slots = DOMAIN slots /\ Tame(t.slots, t.sparse)
               /\ p.owned \in 0 .. Len(slots)
               /\ \A k \in DOMAIN slots : Member(t.slots[k].id) <=> k <= p.owned
<1> DEFINE n == Len(slots)
           Good(m, acc) ==
               /\ Entered(acc.to.slots, acc.to.sparse, acc.to.free)
               /\ Moved(slots, sparse, acc.to.slots, acc.to.sparse)
               /\ DOMAIN acc.to.slots = 1 .. n /\ Tame(acc.to.slots, acc.to.sparse)
               /\ acc.owned \in 0 .. m
               /\ \A k \in 1 .. m : Member(acc.to.slots[k].id) <=> k <= acc.owned
           T == {m \in 0 .. n : Good(m, PackedFirst[m])}
<1>0. n \in Nat /\ DOMAIN slots = 1 .. n
  BY EnteredFacts
<1>1. 0 \in T
  <2> DEFINE acc == PackedFirst[0]
  <2>1. acc.to.slots = slots /\ acc.to.sparse = sparse /\ acc.to.free = free /\ acc.owned = 0
    BY <1>0, PackedFirstSteps DEF Records
  <2>2. Moved(slots, sparse, slots, sparse)
    BY DEF Moved, Same
  <2> HIDE DEF acc, n
  <2>3. Good(0, acc)
    BY <1>0, <2>1, <2>2
  <2>4. QED
    BY <1>0, <2>3 DEF acc
<1>2. ASSUME NEW m \in 1 .. n, m - 1 \in T PROVE m \in T
  <2> DEFINE acc == PackedFirst[m - 1]
             new == PackedFirst[m]
             o == acc.owned + 1
             s == acc.to
             t == Swapped(s, m, o)
  <2>1. Good(m - 1, acc)
    BY <1>2
  <2>2. new = PackFirst(acc, m)
    BY <1>0, PackedFirstSteps
  <2> HIDE DEF acc, new, n
  <2>3. /\ Entered(s.slots, s.sparse, s.free) /\ Moved(slots, sparse, s.slots, s.sparse)
        /\ DOMAIN s.slots = 1 .. n /\ Tame(s.slots, s.sparse)
        /\ acc.owned \in 0 .. m - 1 /\ m \in Nat /\ o \in 1 .. m /\ o \in 1 .. n
        /\ \A k \in 1 .. m - 1 : Member(s.slots[k].id) <=> k <= acc.owned
    BY <1>0, <2>1
  <2>4. CASE ~ Member(s.slots[m].id)
    <3>1. new = acc
      BY <2>2, <2>4 DEF PackFirst, Member
    <3>2. acc.owned \in 0 .. m /\ ~ m <= acc.owned /\ \A k \in 1 .. m : k # m => k \in 1 .. m - 1
      BY <2>3
    <3>3. Good(m, acc)
      BY <2>3, <2>4, <3>2
    <3>4. QED
      BY <3>1, <3>3 DEF new, n
  <2>5. CASE Member(s.slots[m].id) /\ m = o
    <3>1. new = [to |-> acc.to, owned |-> o]
      BY <2>2, <2>5 DEF PackFirst, Member
    <3>2. new.to = s /\ new.owned = m
      BY <2>5, <3>1
    <3>3. m \in 0 .. m /\ \A k \in 1 .. m : k <= m /\ (k # m => k \in 1 .. m - 1 /\ k <= acc.owned)
      BY <2>3, <2>5
    <3>4. Good(m, new)
      BY <2>3, <2>5, <3>2, <3>3
    <3>5. QED
      BY <3>4 DEF new, n
  <2>6. CASE Member(s.slots[m].id) /\ m # o
    <3>1. new.to = t /\ new.owned = o
      BY <2>2, <2>6 DEF PackFirst, Member
    <3>2. o \in 1 .. m - 1 /\ ~ o <= acc.owned /\ m \in DOMAIN s.slots /\ o \in DOMAIN s.slots
      BY <2>3, <2>6
    <3>3. ~ Member(s.slots[o].id)
      BY <2>3, <3>2
    <3>4. s.slots[m].id # s.slots[o].id
      BY <2>6, <3>3
    <3>5. /\ Entered(t.slots, t.sparse, t.free) /\ Moved(s.slots, s.sparse, t.slots, t.sparse)
          /\ DOMAIN t.slots = DOMAIN s.slots
          /\ t.slots[m] = s.slots[o] /\ t.slots[o] = s.slots[m]
          /\ \A k \in DOMAIN s.slots : k # m /\ k # o => t.slots[k] = s.slots[k]
      <4>1. Entered(s.slots, s.sparse, s.free)
        BY <2>3
      <4> HIDE DEF s, o
      <4>2. QED
        BY <3>2, <3>4, <4>1, SwappedKeeps
    <3> HIDE DEF t, o, s
    <3>6. Moved(slots, sparse, t.slots, t.sparse)
      BY <2>3, <3>5, MovedTwice
    <3>7. Tame(t.slots, t.sparse)
      <4>1. SUFFICES ASSUME NEW k \in DOMAIN t.slots, t.sparse[t.slots[k].id].dense # k
                     PROVE  t.sparse[t.slots[k].id].dense = Invalid
        BY DEF Tame
      <4> DEFINE i == t.slots[k].id
      <4>2. i \in Ids
        BY <3>5, EnteredFacts
      <4>3. PICK k0 \in DOMAIN s.slots : s.slots[k0].id = i /\ (k0 # m => k0 = o \/ k0 = k)
        BY <3>2, <3>5
      <4>4. SUFFICES ASSUME t.sparse[i].dense # Invalid PROVE FALSE
        BY <4>1
      <4>5. t.sparse[i].dense \in DOMAIN t.slots /\ t.slots[t.sparse[i].dense].id = i
        BY <3>5, <4>2, <4>4, EntryFacts
      <4>6. s.sparse[i].dense # Invalid
        BY <3>5, <4>2, <4>4 DEF Moved, Same
      <4>7. \A x \in DOMAIN s.slots : s.slots[x].id = i => x = s.sparse[i].dense
        BY <2>3, <4>6 DEF Tame
      <4>8. \A x, y \in DOMAIN t.slots : t.slots[x].id = i /\ t.slots[y].id = i => x = y
        BY <3>2, <3>5, <4>7
      <4>9. QED
        BY <4>1, <4>5, <4>8
    <3>8. o \in 0 .. m /\ \A k \in 1 .. m : k <= o <=> k <= acc.owned \/ k = o
      BY <2>3 DEF o
    <3>9. ASSUME NEW k \in 1 .. m PROVE Member(t.slots[k].id) <=> k <= o
      <4>1. CASE k = m
        <5>1. ~ m <= o
          BY <2>3, <2>6, <3>2
        <5>2. QED
          BY <3>3, <3>5, <4>1, <5>1
      <4>2. CASE k = o
        BY <2>6, <3>5, <3>8, <4>2
      <4>3. CASE k # m /\ k # o
        <5>1. k \in 1 .. m - 1 /\ k \in DOMAIN s.slots
          BY <1>0, <2>3, <4>3
        <5>2. QED
          BY <2>3, <3>5, <3>8, <4>3, <5>1
      <4>4. QED
        BY <4>1, <4>2, <4>3
    <3>10. Good(m, new)
      BY <2>3, <3>1, <3>5, <3>6, <3>7, <3>8, <3>9
    <3>11. QED
      BY <3>10 DEF new, n
  <2>7. QED
    BY <2>4, <2>5, <2>6
<1>3. n \in T
  <2> HIDE DEF T
  <2>1. \A i \in 0 .. n : i \in T
    BY <1>0, <1>1, <1>2, Climb
  <2>2. QED
    BY <1>0, <2>1
<1>4. Good(n, PackedFirst[n])
  BY <1>3
<1>5. QED
  BY <1>0, <1>4

LEMMA HandlesNamed == Handles \subseteq Named
BY DEF Handles, Named

LEMMA NamedFacts ==
    ASSUME NEW e \in Named
    PROVE  /\ e.id \in Ids /\ e.id \in Nat /\ e.version \in 0 .. MaxVersion
           /\ Line(e) \in 0 .. HotSize - 1 /\ (e.version # 0 => e \in Handles)
<1>1. e.id \in Ids /\ e.id \in Nat /\ e.version \in 0 .. MaxVersion /\ e = [id |-> e.id, version |-> e.version]
  BY MaxIdAssumption DEF Named, Ids
<1>2. Line(e) \in 0 .. HotSize - 1
  BY <1>1, HotSizeAssumption DEF Line
<1>3. ASSUME e.version # 0 PROVE e \in Handles
  <2>1. e.version \in 1 .. MaxVersion
    BY <1>1, <1>3, MaxVersionAssumption
  <2>2. QED
    BY <1>1, <2>1 DEF Handles
<1>4. QED
  BY <1>1, <1>2, <1>3

-----------------------------------------------------------------------------
(* The cache *)

LEMMA LookupIs ==
    ASSUME HotOK, NEW e \in Named
    PROVE  /\ Lookup(e) = SparseLookup(e)
           /\ Lookup(e) # Invalid <=> Holds(e)
           /\ Holds(e) => Lookup(e) = sparse[e.id].dense
<1>1. Line(e) \in 0 .. HotSize - 1
  BY NamedFacts
<1>2. Lookup(e) = SparseLookup(e)
  BY <1>1 DEF HotOK, Lookup, SparseLookup
<1>3. QED
  BY <1>2 DEF SparseLookup, Holds

LEMMA ColdKeeps ==
    ASSUME hot' = Cold
    PROVE  HotOK'
BY DEF HotOK, Cold

(* Entries that are there stay as they are. *)
Stay == \A i \in Ids : sparse[i].dense # Invalid =>
            sparse'[i].dense = sparse[i].dense /\ sparse'[i].version = sparse[i].version

LEMMA HotStays ==
    ASSUME HotOK, hot' = hot, Stay
    PROVE  HotOK'
<1>1. /\ hot \in [0 .. HotSize - 1 -> [key : Handles, dense : Nat] \cup {None}]
      /\ \A l \in 0 .. HotSize - 1 : hot[l] # None =>
            /\ hot[l].key \in Handles /\ Line(hot[l].key) = l
            /\ Holds(hot[l].key) /\ hot[l].dense = sparse[hot[l].key.id].dense
  <2>1. \A l \in 0 .. HotSize - 1 : hot[l] # None => hot[l] \in [key : Handles, dense : Nat]
    BY DEF HotOK
  <2>2. QED
    BY <2>1 DEF HotOK
<1>2. \A e \in Handles : Holds(e) => Holds(e)' /\ sparse'[e.id].dense = sparse[e.id].dense
  BY HandleFacts DEF Stay, Holds
<1>3. QED
  BY <1>1, <1>2 DEF HotOK, Line

LEMMA FilledKeeps ==
    ASSUME HotOK, Entered(slots, sparse, free), NEW e \in Named, hot' = Filled(e), sparse' = sparse
    PROVE  HotOK'
<1>1. CASE Lookup(e) = Invalid
  BY <1>1, HotStays DEF Filled, Stay
<1>2. CASE Lookup(e) # Invalid
  <2>1. Holds(e) /\ Lookup(e) = sparse[e.id].dense /\ Line(e) \in 0 .. HotSize - 1 /\ e.id \in Ids
    BY <1>2, LookupIs, NamedFacts
  <2>2. e \in Handles
    BY <2>1, EntryFacts, NamedFacts DEF Holds
  <2> DEFINE x == [key |-> e, dense |-> sparse[e.id].dense]
  <2>3. x \in [key : Handles, dense : Nat] /\ x.key = e /\ x.dense = sparse[e.id].dense
    BY <2>1, <2>2, EnteredFacts
  <2>4. hot' = [hot EXCEPT ![Line(e)] = x]
    BY <1>2, <2>1 DEF Filled
  <2> HIDE DEF x
  <2>5. /\ hot' \in [0 .. HotSize - 1 -> [key : Handles, dense : Nat] \cup {None}] /\ hot'[Line(e)] = x
        /\ \A l \in 0 .. HotSize - 1 : l # Line(e) => hot'[l] = hot[l]
    BY <2>1, <2>3, <2>4 DEF HotOK
  <2>6. ASSUME NEW l \in 0 .. HotSize - 1, hot'[l] # None
        PROVE  /\ Line(hot'[l].key) = l
               /\ sparse[hot'[l].key.id].dense # Invalid /\ sparse[hot'[l].key.id].version = hot'[l].key.version
               /\ hot'[l].dense = sparse[hot'[l].key.id].dense
    <3>1. CASE l = Line(e)
      BY <2>1, <2>3, <2>5, <3>1 DEF Holds
    <3>2. CASE l # Line(e)
      BY <2>5, <2>6, <3>2 DEF HotOK, Holds
    <3>3. QED
      BY <3>1, <3>2
  <2>7. QED
    BY <2>5, <2>6, sparse' = sparse DEF HotOK, Holds, Line
<1>3. QED
  BY <1>1, <1>2

-----------------------------------------------------------------------------
(* The walk *)

(* About to land: what is owed is at the index or ahead, what is seen is   *)
(* behind.                                                                 *)
Sets(w) ==
    /\ w.pending = <<>> /\ ~ w.skip /\ ~ w.again
    /\ \A e \in w.owed : Holds(e) /\ sparse[e.id].dense >= w.index
    /\ \A e \in w.seen : Holds(e) /\ sparse[e.id].dense < w.index

LEMMA PositionNamed ==
    ASSUME Entered(slots, sparse, free), NEW w \in Walks, w.index # 0,
           ~ (w.pending = <<>> /\ w.index > Len(slots))
    PROVE  Position(w) \in Named
<1>1. CASE w.pending # <<>>
  <2>1. w.pending \in Seq(Named)
    BY DEF Walks
  <2>2. Last(w.pending) \in Named
    BY <1>1, <2>1, LastOne
  <2>3. QED
    BY <1>1, <2>2 DEF Position
<1>2. CASE w.pending = <<>>
  <2>1. w.index \in Nat
    BY DEF Walks
  <2>2. w.index \in DOMAIN slots
    BY <1>2, <2>1, EnteredFacts
  <2>3. Owner(w.index) \in Named
    BY <2>2, EnteredFacts DEF Owner, Named
  <2>4. QED
    BY <1>2, <2>3 DEF Position
<1>3. QED
  BY <1>1, <1>2

LEMMA LandKeeps ==
    ASSUME Entered(slots, sparse, free), HotOK, NEW w \in Walks, w.index # 0, ~ w.strayed => Sets(w),
           Land(w), slots' = slots, sparse' = sparse
    PROVE  HotOK' /\ WalkOK'
<1>0. w.index \in Nat /\ Len(slots) \in Nat /\ DOMAIN slots = 1 .. Len(slots) /\ w.owed \subseteq Handles /\ w.seen \subseteq Handles
  BY EnteredFacts DEF Walks
<1>1. CASE w.pending = <<>> /\ w.index > Len(slots)
  <2>1. walk' = [w EXCEPT !.phase = "done"] /\ hot' = hot
    BY <1>1 DEF Land
  <2>2. HotOK'
    BY <2>1, HotStays DEF Stay
  <2>3. walk' \in Walks /\ walk'.phase = "done" /\ walk'.owed = w.owed /\ walk'.again = w.again /\ walk'.strayed = w.strayed
    BY <2>1 DEF Walks
  <2>4. ASSUME ~ w.strayed PROVE w.owed = {} /\ ~ w.again
    <3>1. ASSUME NEW e \in w.owed PROVE FALSE
      <4>1. Holds(e) /\ sparse[e.id].dense >= w.index /\ e.id \in Ids
        BY <1>0, <2>4, HandleFacts DEF Sets
      <4>2. sparse[e.id].dense \in 1 .. Len(slots)
        BY <1>0, <4>1, EntryFacts DEF Holds
      <4>3. QED
        BY <1>0, <1>1, <4>1, <4>2
    <3>2. QED
      BY <2>4, <3>1 DEF Sets
  <2>5. WalkOK'
    BY <2>3, <2>4 DEF WalkOK, Walking
  <2>6. QED
    BY <2>2, <2>5
<1>2. CASE ~ (w.pending = <<>> /\ w.index > Len(slots))
  <2> DEFINE e == Position(w)
  <2>1. e \in Named
    BY <1>2, PositionNamed
  <2>2. hot' = Filled(e) /\ walk' = IF Lookup(e) = Invalid
                           THEN [w EXCEPT !.phase = "between", !.at = None]
                           ELSE [w EXCEPT !.phase = "callback",
                                          !.at = e,
                                          !.again = @ \/ e \in w.seen,
                                          !.seen = @ \cup ({e} \cap w.owed),
                                          !.owed = @ \ {e}]
    BY <1>2 DEF Land
  <2>3. HotOK'
    BY <2>1, <2>2, FilledKeeps
  <2>4. ASSUME ~ w.strayed
        PROVE  /\ Sets(w) /\ w.index \in DOMAIN slots /\ e = Owner(w.index)
               /\ e.id = slots[w.index].id /\ e.version = slots[w.index].version
    <3>1. Sets(w) /\ w.index \in DOMAIN slots
      BY <1>0, <1>2, <2>4 DEF Sets
    <3>2. e = Owner(w.index)
      BY <3>1 DEF Sets, Position
    <3>3. QED
      BY <3>1, <3>2 DEF Owner
  <2>5. ASSUME ~ w.strayed, NEW o \in Handles, Holds(o), sparse[o.id].dense = w.index
        PROVE  o = e
    <3>1. slots[w.index].id = o.id /\ slots[w.index].version = o.version
      BY <2>5, HandleFacts, EntryFacts DEF Holds
    <3>2. e = [id |-> o.id, version |-> o.version]
      BY <2>4, <2>5, <3>1 DEF Owner
    <3>3. QED
      BY <3>2, HandleFacts
  <2> HIDE DEF e
  <2>6. CASE Lookup(e) = Invalid
    <3>1. walk' = [w EXCEPT !.phase = "between", !.at = None]
      BY <2>2, <2>6
    <3>2. /\ walk' \in Walks /\ walk'.phase = "between" /\ walk'.at = None /\ walk'.index = w.index
          /\ walk'.pending = w.pending /\ walk'.skip = w.skip /\ walk'.again = w.again
          /\ walk'.owed = w.owed /\ walk'.seen = w.seen /\ walk'.strayed = w.strayed
      BY <3>1 DEF Walks
    <3>3. ASSUME ~ w.strayed PROVE Follows(walk)'
      <4>1. Sets(w) /\ ~ Holds(e)
        BY <2>1, <2>6, <3>3, LookupIs
      <4>2. ASSUME NEW o \in w.owed PROVE Holds(o) /\ sparse[o.id].dense > w.index
        <5>1. Holds(o) /\ sparse[o.id].dense >= w.index /\ o \in Handles /\ sparse[o.id].dense \in Nat
          BY <1>0, <4>1, HandleFacts, EnteredFacts DEF Sets
        <5>2. sparse[o.id].dense # w.index
          BY <2>5, <3>3, <4>1, <5>1
        <5>3. QED
          BY <1>0, <5>1, <5>2
      <4>3. QED
        BY <3>2, <4>1, <4>2, sparse' = sparse DEF Follows, Sets, Ahead, Behind, Holds
    <3>4. QED
      BY <2>3, <3>2, <3>3 DEF WalkOK, Walking
  <2>7. CASE Lookup(e) # Invalid
    <3>1. walk' = [w EXCEPT !.phase = "callback", !.at = e, !.again = @ \/ e \in w.seen,
                            !.seen = @ \cup ({e} \cap w.owed), !.owed = @ \ {e}]
      BY <2>2, <2>7
    <3>2. Holds(e) /\ e \in Handles /\ e.id \in Ids
      BY <2>1, <2>7, LookupIs, NamedFacts, EntryFacts DEF Holds
    <3>3. /\ walk' \in Walks /\ walk'.phase = "callback" /\ walk'.at = e /\ walk'.index = w.index
          /\ walk'.pending = w.pending /\ walk'.skip = w.skip /\ walk'.again = (w.again \/ e \in w.seen)
          /\ walk'.owed = w.owed \ {e} /\ walk'.seen = w.seen \cup ({e} \cap w.owed) /\ walk'.strayed = w.strayed
      BY <3>1, <3>2 DEF Walks
    <3>4. ASSUME ~ w.strayed PROVE Follows(walk)'
      <4>1. Sets(w)
        BY <3>4
      <4>2. sparse[e.id].dense = w.index
        BY <2>4, <3>2, <3>4, SlotFacts, EntryFacts DEF Holds
      <4>3. ASSUME NEW o \in w.owed \ {e} PROVE Holds(o) /\ sparse[o.id].dense > w.index
        <5>1. Holds(o) /\ sparse[o.id].dense >= w.index /\ o \in Handles /\ sparse[o.id].dense \in Nat
          BY <1>0, <4>1, HandleFacts, EnteredFacts DEF Sets
        <5>2. sparse[o.id].dense # w.index
          BY <2>5, <3>4, <4>3, <5>1
        <5>3. QED
          BY <1>0, <5>1, <5>2
      <4>4. e \notin w.seen
        BY <1>0, <4>1, <4>2 DEF Sets
      <4>5. \A o \in walk'.seen : o = e \/ (Holds(o) /\ sparse[o.id].dense < w.index)
        BY <3>3, <4>1 DEF Sets
      <4>6. \A o \in walk'.seen : Behind(walk, o)'
        BY <3>2, <3>3, <4>1, <4>2, <4>5, sparse' = sparse DEF Behind, Holds, Sets
      <4>7. \A o \in walk'.owed : Ahead(walk, o)'
        BY <3>3, <4>3, sparse' = sparse DEF Ahead, Holds
      <4>8. walk'.pending = <<>> /\ ~ walk'.again /\ ~ walk'.skip
        BY <3>3, <4>1, <4>4 DEF Sets
      <4>9. Holds(walk.at)' /\ sparse'[walk'.at.id].dense = walk'.index
        BY <3>2, <3>3, <4>2, sparse' = sparse DEF Holds
      <4>10. QED
        BY <4>6, <4>7, <4>8, <4>9 DEF Follows
    <3>5. QED
      BY <2>3, <3>3, <3>4 DEF WalkOK, Walking
  <2>8. QED
    BY <2>6, <2>7
<1>3. QED
  BY <1>1, <1>2

LEMMA WalkTyped ==
    ASSUME WalkOK
    PROVE  /\ walk \in Walks /\ walk.index \in Nat /\ walk.owed \subseteq Handles /\ walk.seen \subseteq Handles
           /\ walk.at \in Handles \cup {None} /\ walk.pending \in Seq(Named)
BY DEF WalkOK, Walks

LEMMA WalkStays ==
    ASSUME WalkOK, walk' = walk, Stay \/ ~ Walking
    PROVE  WalkOK'
<1>1. ASSUME Follows(walk), Stay PROVE Follows(walk)'
  <2>1. \A e \in Handles : Holds(e) => Holds(e)' /\ sparse'[e.id].dense = sparse[e.id].dense
    BY <1>1, HandleFacts DEF Stay, Holds
  <2>2. ASSUME NEW e \in walk.owed PROVE Ahead(walk, e)'
    BY <1>1, <2>1, WalkTyped, walk' = walk DEF Follows, Ahead
  <2>3. ASSUME NEW e \in walk.seen PROVE Behind(walk, e)'
    BY <1>1, <2>1, WalkTyped, walk' = walk DEF Follows, Behind
  <2>4. ASSUME walk.at # None PROVE Holds(walk.at)' /\ sparse'[walk.at.id].dense = walk.index /\ ~ walk.skip
    BY <1>1, <2>1, <2>4, WalkTyped, walk' = walk DEF Follows
  <2>5. QED
    BY <1>1, <2>2, <2>3, <2>4, walk' = walk DEF Follows
<1>2. QED
  BY <1>1, walk' = walk DEF WalkOK, Walking

LEMMA WalkSoft ==
    ASSUME WalkOK, Entered(slots, sparse, free), NEW e \in Handles, SoftRemove(e)
    PROVE  WalkOK'
<1>1. \A i \in Ids : i # e.id => sparse'[i] = sparse[i]
  BY SoftRemoveKeeps
<1>2. CASE ~ Walking
  <2>1. walk' = walk
    BY <1>2 DEF SoftRemove
  <2>2. QED
    BY <1>2, <2>1, WalkStays
<1>3. CASE Walking
  <2>1. walk' = WalkForgets(e) /\ Holds(e)
    BY <1>3 DEF SoftRemove
  <2>2. /\ walk' \in Walks /\ walk'.phase = walk.phase /\ walk'.index = walk.index
        /\ walk'.pending = walk.pending /\ walk'.skip = walk.skip /\ walk'.again = walk.again
        /\ walk'.owed = walk.owed \ {e} /\ walk'.seen = walk.seen \ {e} /\ walk'.strayed = walk.strayed
        /\ walk'.at = IF walk.at = e THEN None ELSE walk.at
    BY <2>1, WalkTyped DEF Walks, WalkForgets
  <2>3. \A o \in Handles : Holds(o) /\ o # e => Holds(o)' /\ sparse'[o.id] = sparse[o.id]
    <3>1. ASSUME NEW o \in Handles, Holds(o), o # e PROVE o.id # e.id
      BY <2>1, <3>1, HandleFacts DEF Holds
    <3>2. QED
      BY <1>1, <3>1, HandleFacts DEF Holds
  <2>4. ASSUME Follows(walk) PROVE Follows(walk)'
    <3>1. \A o \in walk'.owed : Ahead(walk, o)'
      BY <2>2, <2>3, <2>4, WalkTyped DEF Follows, Ahead
    <3>2. \A o \in walk'.seen : Behind(walk, o)'
      BY <2>2, <2>3, <2>4, WalkTyped DEF Follows, Behind
    <3>3. ASSUME walk'.at # None PROVE Holds(walk.at)' /\ sparse'[walk'.at.id].dense = walk'.index /\ ~ walk'.skip
      <4>1. walk'.at = walk.at /\ walk.at # None /\ walk.at # e /\ walk.at \in Handles
        BY <2>2, <3>3, WalkTyped
      <4>2. Holds(walk.at) /\ sparse[walk.at.id].dense = walk.index /\ ~ walk.skip
        BY <2>4, <4>1 DEF Follows
      <4>3. QED
        BY <2>2, <2>3, <4>1, <4>2 DEF Holds
    <3>4. QED
      BY <2>2, <2>4, <3>1, <3>2, <3>3 DEF Follows
  <2>5. QED
    BY <1>3, <2>2, <2>4 DEF WalkOK, Walking
<1>4. QED
  BY <1>2, <1>3

(* A component taken from the entity visited: the slot filled is still     *)
(* ahead.                                                                  *)
LEMMA WalkHard ==
    ASSUME WalkOK, Entered(slots, sparse, free), Tombstones = {}, NEW e \in Handles, HardRemove(e)
    PROVE  WalkOK'
<1> DEFINE d == sparse[e.id].dense
           n == Len(slots)
           bare == [WalkForgets(e) EXCEPT !.strayed = @ \/ e # walk.at]
<1>1. /\ \A i \in Ids : i # e.id => \/ sparse'[i] = sparse[i]
                                    \/ sparse[i].dense = n /\ d # n /\ sparse'[i].dense = d
      /\ \A i \in Ids : i # e.id => sparse'[i].version = sparse[i].version
                                    /\ (sparse'[i].dense = Invalid <=> sparse[i].dense = Invalid)
  BY HardRemoveKeeps DEF TakenFrom, Same
<1>2. /\ Holds(e)
      /\ walk' = IF ~ Walking THEN walk
                 ELSE CASE d # n /\ d < walk.index -> [bare EXCEPT !.pending = Append(@, Owner(n))]
                        [] d # n /\ d = walk.index -> [bare EXCEPT !.skip = TRUE]
                        [] OTHER                   -> bare
  <2>1. walk' = WalkRemoved(e, d) /\ Holds(e)
    BY DEF HardRemove
  <2>2. QED
    BY <2>1 DEF WalkRemoved
<1>3. CASE ~ Walking
  <2>1. walk' = walk
    BY <1>2, <1>3
  <2>2. QED
    BY <1>3, <2>1, WalkStays
<1>4. CASE Walking
  <2>1. n \in Nat /\ d \in 1 .. n /\ d # Invalid /\ n \in DOMAIN slots /\ walk.index \in Nat /\ DOMAIN slots = 1 .. n
    <3>1. n \in Nat /\ d \in 1 .. n /\ d # Invalid /\ DOMAIN slots = 1 .. n
      BY <1>2, EntryFacts, EnteredFacts, HandleFacts DEF Holds
    <3>2. QED
      BY <3>1, WalkTyped
  <2>2. /\ bare \in Walks /\ bare.phase = walk.phase /\ bare.index = walk.index
        /\ bare.pending = walk.pending /\ bare.skip = walk.skip /\ bare.again = walk.again
        /\ bare.owed = walk.owed \ {e} /\ bare.seen = walk.seen \ {e}
        /\ bare.strayed = (walk.strayed \/ e # walk.at)
        /\ bare.at = IF walk.at = e THEN None ELSE walk.at
    BY WalkTyped DEF Walks, WalkForgets
  <2> HIDE DEF bare
  <2>3. Owner(n) \in Named
    BY <2>1, EnteredFacts DEF Owner, Named
  <2>4. CASE d # n /\ d < walk.index
    <3>1. walk' = [bare EXCEPT !.pending = Append(@, Owner(n))]
      BY <1>2, <1>4, <2>1, <2>4
    <3>2. Append(bare.pending, Owner(n)) \in Seq(Named)
      BY <2>2, <2>3 DEF Walks
    <3>3. /\ walk' \in Walks /\ walk'.phase = walk.phase /\ walk'.index = walk.index
          /\ walk'.strayed = (walk.strayed \/ e # walk.at)
      BY <2>2, <3>1, <3>2 DEF Walks
    <3>4. walk.strayed \/ e # walk.at
      <4>1. SUFFICES ASSUME ~ walk.strayed, e = walk.at PROVE FALSE
        OBVIOUS
      <4>2. e # None
        BY NoneAssumption
      <4>3. d = walk.index
        BY <1>4, <4>1, <4>2 DEF WalkOK, Follows
      <4>4. QED
        BY <2>1, <2>4, <4>3
    <3>5. QED
      BY <1>4, <3>3, <3>4 DEF WalkOK, Walking
  <2>5. CASE ~ (d # n /\ d < walk.index)
    <3>1. walk' = IF d # n /\ d = walk.index THEN [bare EXCEPT !.skip = TRUE] ELSE bare
      BY <1>2, <1>4, <2>5
    <3>2. /\ walk' \in Walks /\ walk'.phase = walk.phase /\ walk'.index = walk.index
          /\ walk'.pending = walk.pending /\ walk'.again = walk.again
          /\ walk'.owed = walk.owed \ {e} /\ walk'.seen = walk.seen \ {e}
          /\ walk'.strayed = (walk.strayed \/ e # walk.at)
          /\ walk'.at = (IF walk.at = e THEN None ELSE walk.at)
          /\ (d # n /\ d = walk.index => walk'.skip = TRUE)
          /\ (~ (d # n /\ d = walk.index) => walk'.skip = walk.skip)
      BY <2>2, <3>1 DEF Walks
    <3>3. ASSUME ~ walk'.strayed PROVE Follows(walk)'
      <4>1. ~ walk.strayed /\ e = walk.at /\ e # None /\ walk'.at = None
        BY <3>2, <3>3, NoneAssumption
      <4>2. Follows(walk)
        BY <1>4, <4>1 DEF WalkOK
      <4>3. d = walk.index /\ ~ walk.skip
        BY <4>1, <4>2 DEF Follows
      <4>4. walk'.skip <=> d # n
        BY <3>2, <4>3
      <4>5. ASSUME NEW o \in Handles, Holds(o), o # e
            PROVE  /\ o.id \in Ids /\ sparse[o.id].dense \in 1 .. n /\ sparse[o.id].dense # d /\ Holds(o)'
                   /\ \/ sparse'[o.id].dense = sparse[o.id].dense
                      \/ sparse[o.id].dense = n /\ d # n /\ sparse'[o.id].dense = d
        <5>1. o.id \in Ids /\ o.id # e.id
          BY <1>2, <4>5, HandleFacts DEF Holds
        <5>2. sparse[o.id].dense \in 1 .. n
          BY <2>1, <4>5, <5>1, EntryFacts DEF Holds
        <5>3. sparse[o.id].dense # d
          BY <1>2, <4>5, <5>1, EntryFacts, HandleFacts DEF Holds
        <5>4. Holds(o)'
          BY <1>1, <4>5, <5>1 DEF Holds
        <5>5. QED
          BY <1>1, <5>1, <5>2, <5>3, <5>4
      <4> HIDE DEF d, n
      <4>6. ASSUME NEW o \in walk'.owed PROVE Ahead(walk, o)'
        <5>1. o \in Handles /\ o # e /\ Holds(o) /\ Ahead(walk, o)
          BY <3>2, <4>2, <4>6, WalkTyped DEF Follows, Ahead
        <5>2. sparse[o.id].dense > d
          BY <4>3, <5>1 DEF Ahead
        <5>3. Holds(o)' /\ sparse[o.id].dense \in 1 .. n /\
                   \/ sparse'[o.id].dense = sparse[o.id].dense
                   \/ sparse[o.id].dense = n /\ d # n /\ sparse'[o.id].dense = d
          BY <4>5, <5>1
        <5>4. Holds(o)' /\ (sparse'[o.id].dense > walk'.index \/ (sparse'[o.id].dense = walk'.index /\ walk'.skip))
          BY <3>2, <4>3, <4>4, <5>2, <5>3
        <5>5. QED
          BY <5>4 DEF Ahead
      <4>7. ASSUME NEW o \in walk'.seen PROVE Behind(walk, o)'
        <5>1. o \in Handles /\ o # e /\ Holds(o) /\ Behind(walk, o)
          BY <3>2, <4>2, <4>7, WalkTyped DEF Follows, Behind
        <5>2. sparse[o.id].dense < d
          BY <4>3, <4>5, <5>1 DEF Behind
        <5>3. Holds(o)' /\ sparse'[o.id].dense = sparse[o.id].dense
          BY <2>1, <4>5, <5>1, <5>2
        <5>4. Holds(o)' /\ sparse'[o.id].dense < walk'.index
          BY <3>2, <4>3, <5>2, <5>3
        <5>5. QED
          BY <5>4 DEF Behind
      <4>8. QED
        BY <3>2, <4>1, <4>2, <4>6, <4>7 DEF Follows
    <3>4. QED
      BY <1>4, <3>2, <3>3 DEF WalkOK, Walking
  <2>6. QED
    BY <2>4, <2>5
<1>5. QED
  BY <1>3, <1>4

LEMMA WalkMoves ==
    ASSUME Entered(slots, sparse, free), HotOK, WalkOK, WalkBegin \/ WalkNext \/ WalkEnd
    PROVE  HotOK' /\ WalkOK'
<1>1. slots' = slots /\ sparse' = sparse
  BY DEF WalkBegin, WalkNext, WalkEnd
<1>2. CASE WalkBegin
  <2> DEFINE S == {Owner(i) : i \in DOMAIN slots \ Tombstones}
             w == [NoWalk EXCEPT !.index = 1, !.owed = S]
  <2>1. Land(w)
    BY <1>2 DEF WalkBegin
  <2>2. ASSUME NEW i \in DOMAIN slots \ Tombstones
        PROVE  Owner(i) \in Handles /\ Holds(Owner(i)) /\ sparse[Owner(i).id].dense = i /\ i >= 1
    <3>1. sparse[slots[i].id].dense = i /\ slots[i].id \in Ids /\ i \in Nat \ {0} /\ slots[i].version \in 0 .. MaxVersion
      BY EnteredFacts DEF Tombstones, IsLive
    <3>2. i # Invalid
      BY <3>1 DEF Invalid
    <3>3. slots[i].version # 0 /\ slots[i].version = sparse[slots[i].id].version
      BY <3>1, <3>2, EntryFacts
    <3>4. slots[i].version \in 1 .. MaxVersion
      BY <3>1, <3>3, MaxVersionAssumption
    <3>5. QED
      BY <3>1, <3>2, <3>3, <3>4 DEF Owner, Handles, Holds
  <2>3. /\ w.index = 1 /\ w.pending = <<>> /\ w.skip = FALSE /\ w.again = FALSE /\ w.seen = {} /\ w.strayed = FALSE
        /\ w.owed = S /\ w.phase = "none" /\ w.at = None
    BY DEF NoWalk
  <2>4. w \in Walks
    <3>1. S \in SUBSET Handles
      BY <2>2
    <3> HIDE DEF S
    <3>2. NoWalk \in Walks
      BY DEF NoWalk, Walks
    <3>3. QED
      BY <3>1, <3>2 DEF Walks
  <2> HIDE DEF w
  <2>5. Sets(w)
    BY <2>2, <2>3 DEF Sets
  <2>6. QED
    BY <1>1, <2>1, <2>3, <2>4, <2>5, LandKeeps
<1>3. CASE WalkNext
  <2> DEFINE w == Advanced(walk)
  <2>1. Land(w) /\ Walking
    BY <1>3 DEF WalkNext
  <2>2. walk \in Walks /\ walk.index \in Nat /\ walk.index # 0 /\ walk.pending \in Seq(Named)
    BY <2>1, WalkTyped DEF WalkOK
  <2>3. CASE walk.pending # <<>>
    <3>1. w = [walk EXCEPT !.pending = Front(@)]
      BY <2>3 DEF Advanced
    <3>2. Front(walk.pending) \in Seq(Named)
      BY <2>2, <2>3, LastOne
    <3>3. w \in Walks /\ w.index = walk.index /\ w.strayed = walk.strayed
      BY <2>2, <3>1, <3>2 DEF Walks
    <3>4. walk.strayed
      BY <2>1, <2>3 DEF WalkOK, Follows
    <3> HIDE DEF w
    <3>5. QED
      BY <1>1, <2>1, <2>2, <3>3, <3>4, LandKeeps
  <2>4. CASE walk.pending = <<>>
    <3>1. w = IF walk.skip THEN [walk EXCEPT !.skip = FALSE] ELSE [walk EXCEPT !.index = @ + 1]
      BY <2>4 DEF Advanced
    <3> HIDE DEF w
    <3>2. /\ w \in Walks /\ w.pending = <<>> /\ w.skip = FALSE /\ w.again = walk.again
          /\ w.owed = walk.owed /\ w.seen = walk.seen /\ w.strayed = walk.strayed
          /\ w.index = (IF walk.skip THEN walk.index ELSE walk.index + 1)
      <4>1. CASE walk.skip
        <5>1. w = [walk EXCEPT !.skip = FALSE]
          BY <3>1, <4>1
        <5>2. QED
          BY <2>2, <2>4, <4>1, <5>1 DEF Walks
      <4>2. CASE ~ walk.skip
        <5>1. w = [walk EXCEPT !.index = walk.index + 1] /\ walk.index + 1 \in Nat /\ walk.skip = FALSE
          BY <2>2, <3>1, <4>2 DEF Walks
        <5>2. QED
          BY <2>2, <2>4, <4>2, <5>1 DEF Walks
      <4>3. QED
        BY <4>1, <4>2
    <3>3. ASSUME ~ walk.strayed PROVE Sets(w)
      <4>1. Follows(walk)
        BY <2>1, <3>3 DEF WalkOK
      <4>2. \A e \in Handles : Holds(e) => sparse[e.id].dense \in Nat
        BY HandleFacts, EnteredFacts
      <4>3. ASSUME NEW e \in w.owed PROVE Holds(e) /\ sparse[e.id].dense >= w.index
        BY <2>2, <3>2, <4>1, <4>2, WalkTyped DEF Follows, Ahead
      <4>4. ASSUME NEW e \in w.seen PROVE Holds(e) /\ sparse[e.id].dense < w.index
        BY <2>2, <3>2, <4>1, <4>2, WalkTyped DEF Follows, Behind
      <4>5. QED
        BY <3>2, <4>1, <4>3, <4>4 DEF Sets, Follows
    <3>4. w.index # 0
      BY <2>2, <3>2
    <3>5. QED
      BY <1>1, <2>1, <3>2, <3>3, <3>4, LandKeeps
  <2>5. QED
    BY <2>3, <2>4
<1>4. CASE WalkEnd
  <2>1. walk' = NoWalk /\ hot' = hot
    BY <1>4 DEF WalkEnd
  <2>2. HotOK'
    BY <1>1, <2>1, HotStays DEF Stay
  <2>3. NoWalk \in Walks
    BY DEF NoWalk, Walks
  <2>4. walk'.phase = "none"
    BY <2>1 DEF NoWalk
  <2>5. QED
    BY <2>1, <2>2, <2>3, <2>4 DEF WalkOK, Walking
<1>5. QED
  BY <1>2, <1>3, <1>4

-----------------------------------------------------------------------------
(* What a change of the storage does to what the entities hold *)

Comp(e) == IF Holds(e) THEN slots[sparse[e.id].dense].val ELSE Nothing

LEMMA HeldIs ==
    ASSUME HotOK, NEW e \in Handles
    PROVE  Held(e) = Comp(e)
<1>1. e \in Named
  BY HandlesNamed
<1>2. (Lookup(e) # Invalid <=> Holds(e)) /\ (Holds(e) => Lookup(e) = sparse[e.id].dense)
  BY <1>1, LookupIs
<1>3. QED
  BY <1>2 DEF Held, Comp

LEMMA PresentFinite == IsFiniteSet(Present) /\ Cardinality(Present) \in Nat
<1>1. IsFiniteSet(Ids)
  BY FS_Interval, MaxIdAssumption DEF Ids
<1>2. Present \in SUBSET Ids
  BY DEF Present
<1>3. QED
  BY <1>1, <1>2, FS_Subset, FS_CardinalityType

LEMMA MovedEffect ==
    ASSUME Moved(slots, sparse, slots', sparse')
    PROVE  /\ Present' = Present
           /\ \A i \in Ids : sparse'[i].version = sparse[i].version
           /\ \A f \in Handles : Comp(f)' = Comp(f)
<1>1. \A i \in Ids : Same(slots, sparse, slots', sparse', i)
  BY DEF Moved
<1>2. Present' = Present
  BY <1>1 DEF Present, Same
<1>3. \A f \in Handles : Comp(f)' = Comp(f)
  <2>1. ASSUME NEW f \in Handles PROVE Comp(f)' = Comp(f)
    <3>1. f.id \in Ids
      BY HandleFacts
    <3>2. QED
      BY <1>1, <3>1 DEF Same, Comp, Holds
  <2>2. QED
    BY <2>1
<1>4. QED
  BY <1>1, <1>2, <1>3 DEF Same

LEMMA TakenEffect ==
    ASSUME NEW e \in Handles, Holds(e), TakenFrom(e)
    PROVE  /\ Present' = Present \ {e.id} /\ e.id \in Present
           /\ \A i \in Ids \ {e.id} : sparse'[i].version = sparse[i].version
           /\ \A f \in Handles : Comp(f)' = IF f = e THEN Nothing ELSE Comp(f)
<1>1. /\ \A i \in Ids \ {e.id} : Same(slots, sparse, slots', sparse', i)
      /\ sparse'[e.id].dense = Invalid /\ sparse'[e.id].version = 0 /\ e.id \in Ids
  BY HandleFacts DEF TakenFrom
<1>2. Present' = Present \ {e.id} /\ e.id \in Present
  BY <1>1 DEF Present, Same, Holds
<1>3. ASSUME NEW f \in Handles PROVE Comp(f)' = IF f = e THEN Nothing ELSE Comp(f)
  <2>1. CASE f.id = e.id
    <3>1. Comp(f)' = Nothing
      BY <1>1, <2>1 DEF Comp, Holds
    <3>2. f # e => f.version # e.version
      BY <2>1, HandleFacts
    <3>3. f # e => ~ Holds(f)
      BY <2>1, <3>2 DEF Holds
    <3>4. QED
      BY <3>1, <3>3 DEF Comp
  <2>2. CASE f.id # e.id
    <3>1. Same(slots, sparse, slots', sparse', f.id) /\ f # e
      BY <1>1, <2>2, HandleFacts
    <3>2. QED
      BY <3>1 DEF Same, Comp, Holds
  <2>3. QED
    BY <2>1, <2>2
<1>4. QED
  BY <1>1, <1>2, <1>3 DEF Same

LEMMA GivenEffect ==
    ASSUME NEW e \in Handles, NEW v \in Values, GivenTo(e, v),
           sparse[e.id].dense = Invalid \/ sparse[e.id].version = e.version
    PROVE  /\ Present' = Present \cup {e.id} /\ sparse'[e.id].version = e.version
           /\ \A i \in Ids \ {e.id} : sparse'[i].version = sparse[i].version
           /\ \A f \in Handles : Comp(f)' = IF f = e THEN v ELSE Comp(f)
           /\ Stay
<1>1. /\ \A i \in Ids \ {e.id} : Same(slots, sparse, slots', sparse', i) /\ sparse'[i] = sparse[i]
      /\ sparse[e.id].dense # Invalid => sparse'[e.id] = sparse[e.id]
      /\ sparse'[e.id].dense # Invalid /\ sparse'[e.id].version = e.version
      /\ slots'[sparse'[e.id].dense].val = v /\ e.id \in Ids
  BY HandleFacts DEF GivenTo
<1>2. Present' = Present \cup {e.id}
  BY <1>1 DEF Present, Same
<1>3. ASSUME NEW f \in Handles PROVE Comp(f)' = IF f = e THEN v ELSE Comp(f)
  <2>1. CASE f = e
    BY <1>1, <2>1 DEF Comp, Holds
  <2>2. CASE f.id = e.id /\ f # e
    <3>1. f.version # e.version
      BY <2>2, HandleFacts
    <3>2. ~ Holds(f) /\ ~ Holds(f)'
      BY <1>1, <2>2, <3>1 DEF Holds
    <3>3. QED
      BY <2>2, <3>2 DEF Comp
  <2>3. CASE f.id # e.id
    <3>1. Same(slots, sparse, slots', sparse', f.id) /\ f # e
      BY <1>1, <2>3, HandleFacts
    <3>2. QED
      BY <3>1 DEF Same, Comp, Holds
  <2>4. QED
    BY <2>1, <2>2, <2>3
<1>4. Stay
  BY <1>1 DEF Stay
<1>5. QED
  BY <1>1, <1>2, <1>3, <1>4 DEF Same

-----------------------------------------------------------------------------
(* The effects of the calls *)

SameHandles == alive' = alive /\ version' = version

NoEffect == SameHandles /\ \A f \in Handles : Comp(f)' = Comp(f)

CreateEffect ==
    /\ version' = version /\ \E i \in Ids : i \notin alive /\ alive' = alive \cup {i}
    /\ \A f \in Handles : Comp(f)' = Comp(f)

DeleteEffect(e) ==
    /\ IsAlive(e) /\ alive' = alive \ {e.id} /\ version'[e.id] = version[e.id] + 1
    /\ \A i \in Ids : i # e.id => version'[i] = version[i]
    /\ \A f \in Handles : Comp(f)' = IF f = e THEN Nothing ELSE Comp(f)

AddEffect(e, v) ==
    SameHandles /\ IsAlive(e) /\ \A f \in Handles : Comp(f)' = IF f = e THEN v ELSE Comp(f)

RemoveEffect(e) == SameHandles /\ \A f \in Handles : Comp(f)' = IF f = e THEN Nothing ELSE Comp(f)

ClearEffect == SameHandles /\ \A f \in Handles : Comp(f)' = Nothing

(* Nothing happens to the storage. *)
Still ==
    /\ slots' = slots /\ sparse' = sparse /\ free' = free /\ live' = live /\ walk' = walk /\ mask' = mask

LEMMA StillEffect ==
    ASSUME Still
    PROVE  Present' = Present /\ (\A f \in Handles : Comp(f)' = Comp(f)) /\ Stay
<1>1. Moved(slots, sparse, slots', sparse')
  BY DEF Still, Moved, Same
<1>2. QED
  BY <1>1, MovedEffect DEF Still, Stay

LEMMA StillKeeps ==
    ASSUME Facts, Still, hot' = hot, SameHandles
    PROVE  Facts' /\ NoEffect
<1>1. Present' = Present /\ (\A f \in Handles : Comp(f)' = Comp(f)) /\ Stay
  BY StillEffect
<1>2. StoreOK'
  BY <1>1 DEF Facts, StoreOK, Still
<1>3. MaskOK'
  BY <1>1 DEF Facts, MaskOK, Still, SameHandles
<1>4. HotOK'
  BY <1>1, HotStays DEF Facts
<1>5. WalkOK'
  BY <1>1, WalkStays DEF Facts, Still
<1>6. QED
  BY <1>1, <1>2, <1>3, <1>4, <1>5 DEF Facts, NoEffect

LEMMA GetKeeps ==
    ASSUME Facts, NEW e \in Handles, Get(e)
    PROVE  Facts' /\ NoEffect
<1>1. Still /\ SameHandles /\ hot' = Filled(e)
  BY DEF Get, Fill, Still, SameHandles, entityVars, worldVars
<1>2. Present' = Present /\ (\A f \in Handles : Comp(f)' = Comp(f)) /\ Stay
  BY <1>1, StillEffect
<1>3. StoreOK'
  BY <1>1, <1>2 DEF Facts, StoreOK, Still
<1>4. MaskOK'
  BY <1>1, <1>2 DEF Facts, MaskOK, Still, SameHandles
<1>5. e \in Named
  BY HandlesNamed
<1>6. HotOK'
  BY <1>1, <1>5, FilledKeeps DEF Facts, StoreOK, Still
<1>7. WalkOK'
  BY <1>1, <1>2, WalkStays DEF Facts, Still
<1>8. QED
  BY <1>1, <1>2, <1>3, <1>4, <1>6, <1>7 DEF Facts, NoEffect

LEMMA VisitKeeps ==
    ASSUME Facts, Visit
    PROVE  Facts' /\ NoEffect
<1>1. /\ slots' = slots /\ sparse' = sparse /\ free' = free /\ live' = live /\ mask' = mask /\ SameHandles
      /\ WalkBegin \/ WalkNext \/ WalkEnd
  BY DEF Visit, WalkBegin, WalkNext, WalkEnd, SameHandles, entityVars, worldVars
<1>2. HotOK' /\ WalkOK'
  BY <1>1, WalkMoves DEF Facts, StoreOK
<1>3. Moved(slots, sparse, slots', sparse')
  BY <1>1 DEF Moved, Same
<1>4. Present' = Present /\ \A f \in Handles : Comp(f)' = Comp(f)
  BY <1>3, MovedEffect
<1>5. StoreOK' /\ MaskOK'
  BY <1>1, <1>4 DEF Facts, StoreOK, MaskOK, SameHandles
<1>6. QED
  BY <1>1, <1>2, <1>4, <1>5 DEF Facts, NoEffect

LEMMA CreateKeepsFacts ==
    ASSUME EntityOK, Facts, Create
    PROVE  EntityOK' /\ Facts' /\ CreateEffect
<1>a. Still /\ hot' = hot
  BY DEF Create, Still, setVars, worldVars
<1>b. CreateReserved \/ CreateAllocated
  BY DEF Create
<1>2. /\ EntityOK' /\ version' = version
      /\ \E i \in Ids : i \notin alive /\ alive' = alive \cup {i}
  BY <1>b, CreateKeeps
<1>3. Present' = Present /\ (\A f \in Handles : Comp(f)' = Comp(f)) /\ Stay
  BY <1>a, StillEffect
<1>4. StoreOK'
  BY <1>a, <1>3 DEF Facts, StoreOK, Still
<1>5. MaskOK'
  BY <1>a, <1>2, <1>3 DEF Facts, MaskOK, Still
<1>6. HotOK'
  BY <1>a, <1>3, HotStays DEF Facts
<1>7. WalkOK'
  BY <1>a, <1>3, WalkStays DEF Facts, Still
<1>8. QED
  BY <1>2, <1>3, <1>4, <1>5, <1>6, <1>7 DEF Facts, CreateEffect

LEMMA AddKeeps ==
    ASSUME EntityOK, Facts, NEW e \in Handles, NEW v \in Values, Add(e, v)
    PROVE  Facts' /\ AddEffect(e, v)
<1>1. IsAlive(e) /\ mask' = mask \cup {e.id} /\ SameHandles
  BY DEF Add, SameHandles, entityVars
<1>a. Overwrite(e, v) \/ Reuse(e, v) \/ AppendNew(e, v)
  BY DEF Add
<1>2. e.id \in Ids /\ e.id \in alive /\ e.version = version[e.id]
  BY <1>1, HandleFacts DEF IsAlive
<1>3. sparse[e.id].dense # Invalid => sparse[e.id].version = e.version
  BY <1>2 DEF Facts, MaskOK, Present
<1>4. /\ Entered(slots', sparse', free') /\ GivenTo(e, v) /\ walk' = walk
      /\ hot' = hot \/ hot' = Cold
      /\ live' = IF e.id \in Present THEN live ELSE live + 1
  <2>1. CASE Overwrite(e, v)
    <3>1. live' = live /\ hot' = hot /\ walk' = walk
      BY <2>1 DEF Overwrite
    <3>2. Entered(slots', sparse', free') /\ GivenTo(e, v) /\ sparse[e.id].dense # Invalid
      BY <2>1, OverwriteKeeps DEF Facts, StoreOK
    <3>3. QED
      BY <1>2, <3>1, <3>2 DEF Present
  <2>2. CASE Reuse(e, v)
    <3>1. live' = live + 1 /\ hot' = hot /\ walk' = walk /\ sparse[e.id].version # e.version
      BY <2>2 DEF Reuse
    <3>2. Entered(slots', sparse', free') /\ GivenTo(e, v) /\ sparse[e.id].dense = Invalid
      BY <1>3, <2>2, <3>1, ReuseKeeps DEF Facts, StoreOK
    <3>3. QED
      BY <3>1, <3>2 DEF Present
  <2>3. CASE AppendNew(e, v)
    <3>1. live' = live + 1 /\ hot' \in {hot, Cold} /\ walk' = walk /\ sparse[e.id].version # e.version
      BY <2>3 DEF AppendNew
    <3>2. Entered(slots', sparse', free') /\ GivenTo(e, v) /\ sparse[e.id].dense = Invalid
      BY <1>3, <2>3, <3>1, AppendNewKeeps DEF Facts, StoreOK
    <3>3. QED
      BY <3>1, <3>2 DEF Present
  <2>4. QED
    BY <1>a, <2>1, <2>2, <2>3
<1>5. /\ Present' = Present \cup {e.id} /\ sparse'[e.id].version = e.version
      /\ \A i \in Ids \ {e.id} : sparse'[i].version = sparse[i].version
      /\ \A f \in Handles : Comp(f)' = IF f = e THEN v ELSE Comp(f)
      /\ Stay
  BY <1>3, <1>4, GivenEffect
<1>6. live' = Cardinality(Present')
  <2>1. Cardinality(Present \cup {e.id}) = IF e.id \in Present THEN Cardinality(Present) ELSE Cardinality(Present) + 1
    BY PresentFinite, FS_AddElement
  <2>2. live = Cardinality(Present)
    BY DEF Facts, StoreOK
  <2>3. QED
    BY <1>4, <1>5, <2>1, <2>2
<1>7. StoreOK'
  BY <1>4, <1>6 DEF StoreOK
<1>8. MaskOK'
  <2>1. mask = Present /\ \A i \in Present : i \in Ids /\ i \in alive /\ sparse[i].version = version[i]
    BY DEF Facts, MaskOK, Present
  <2>2. mask' = Present'
    BY <1>1, <1>5, <2>1
  <2>3. \A i \in Present' : i \in alive' /\ sparse'[i].version = version'[i]
    BY <1>1, <1>2, <1>5, <2>1 DEF SameHandles
  <2>4. QED
    BY <2>2, <2>3 DEF MaskOK
<1>9. HotOK'
  BY <1>4, <1>5, ColdKeeps, HotStays DEF Facts
<1>10. WalkOK'
  BY <1>4, <1>5, WalkStays DEF Facts
<1>11. QED
  BY <1>1, <1>5, <1>7, <1>8, <1>9, <1>10 DEF Facts, AddEffect

LEMMA MovedKeeps ==
    ASSUME Facts, Entered(slots', sparse', free'), Moved(slots, sparse, slots', sparse'),
           live' = live, mask' = mask, SameHandles, HotOK', WalkOK'
    PROVE  Facts' /\ NoEffect
<1>1. /\ Present' = Present
      /\ \A i \in Ids : sparse'[i].version = sparse[i].version
      /\ \A f \in Handles : Comp(f)' = Comp(f)
  BY MovedEffect
<1>2. StoreOK'
  BY <1>1 DEF Facts, StoreOK
<1>3. MaskOK'
  <2>1. mask = Present /\ \A i \in Present : i \in Ids /\ i \in alive /\ sparse[i].version = version[i]
    BY DEF Facts, MaskOK, Present
  <2>2. \A i \in Present' : i \in alive' /\ sparse'[i].version = version'[i]
    BY <1>1, <2>1 DEF SameHandles
  <2>3. QED
    BY <1>1, <2>1, <2>2 DEF MaskOK
<1>4. QED
  BY <1>1, <1>2, <1>3 DEF Facts, NoEffect

LEMMA TakenKeeps ==
    ASSUME Facts, NEW e \in Handles, Holds(e), Entered(slots', sparse', free'), TakenFrom(e),
           live' = live - 1, mask' = mask \ {e.id}, HotOK', WalkOK',
           \A i \in Ids : i # e.id => (i \in alive => i \in alive') /\ version'[i] = version[i]
    PROVE  /\ Facts'
           /\ \A f \in Handles : Comp(f)' = IF f = e THEN Nothing ELSE Comp(f)
<1>1. /\ Present' = Present \ {e.id} /\ e.id \in Present
      /\ \A i \in Ids \ {e.id} : sparse'[i].version = sparse[i].version
      /\ \A f \in Handles : Comp(f)' = IF f = e THEN Nothing ELSE Comp(f)
  BY TakenEffect
<1>2. live' = Cardinality(Present')
  <2>1. Cardinality(Present \ {e.id}) = IF e.id \in Present THEN Cardinality(Present) - 1 ELSE Cardinality(Present)
    BY PresentFinite, FS_RemoveElement
  <2>2. live = Cardinality(Present)
    BY DEF Facts, StoreOK
  <2>3. QED
    BY <1>1, <2>1, <2>2
<1>3. MaskOK'
  <2>1. mask = Present /\ \A i \in Present : i \in Ids /\ i \in alive /\ sparse[i].version = version[i]
    BY DEF Facts, MaskOK, Present
  <2>2. \A i \in Present' : i \in alive' /\ sparse'[i].version = version'[i]
    BY <1>1, <2>1
  <2>3. QED
    BY <1>1, <2>1, <2>2 DEF MaskOK
<1>4. QED
  BY <1>1, <1>2, <1>3 DEF Facts, StoreOK

LEMMA RemoveHardKeeps ==
    ASSUME plan.disciplined, Facts, NEW e \in Handles, RemoveHard(e)
    PROVE  Facts' /\ RemoveEffect(e)
<1>1. /\ Tombstones = {} /\ HardRemove(e) /\ mask' = mask \ {e.id} /\ SameHandles
  BY DEF RemoveHard, Tidy, SameHandles, entityVars
<1>2. Holds(e) /\ live' = live - 1 /\ hot' = Cold
  BY <1>1 DEF HardRemove, Bump
<1>3. Entered(slots', sparse', free') /\ TakenFrom(e)
  BY <1>1, HardRemoveKeeps DEF Facts, StoreOK
<1>4. HotOK' /\ WalkOK'
  BY <1>1, <1>2, ColdKeeps, WalkHard DEF Facts, StoreOK
<1>5. Facts' /\ \A f \in Handles : Comp(f)' = IF f = e THEN Nothing ELSE Comp(f)
  BY <1>1, <1>2, <1>3, <1>4, TakenKeeps DEF SameHandles
<1>6. QED
  BY <1>1, <1>5 DEF RemoveEffect

LEMMA RemoveSoftKeeps ==
    ASSUME Facts, NEW e \in Handles, RemoveSoft(e)
    PROVE  Facts' /\ RemoveEffect(e)
<1>1. SoftRemove(e) /\ mask' = mask \ {e.id} /\ SameHandles
  BY DEF RemoveSoft, SameHandles, entityVars
<1>2. Holds(e) /\ live' = live - 1 /\ hot' = Cold
  BY <1>1 DEF SoftRemove, Bump
<1>3. Entered(slots', sparse', free') /\ TakenFrom(e)
  BY <1>1, SoftRemoveKeeps DEF Facts, StoreOK
<1>4. HotOK' /\ WalkOK'
  BY <1>1, <1>2, ColdKeeps, WalkSoft DEF Facts, StoreOK
<1>5. Facts' /\ \A f \in Handles : Comp(f)' = IF f = e THEN Nothing ELSE Comp(f)
  BY <1>1, <1>2, <1>3, <1>4, TakenKeeps DEF SameHandles
<1>6. QED
  BY <1>1, <1>5 DEF RemoveEffect

LEMMA DeleteKeeps ==
    ASSUME plan.disciplined, EntityOK, Facts, NEW e \in Handles, NEW another, Delete(e, another)
    PROVE  EntityOK' /\ Facts' /\ DeleteEffect(e)
<1>1. /\ Tombstones = {} /\ IsAlive(e) /\ Destroy(e) /\ mask' = mask \ {e.id}
      /\ IF e.id \in mask /\ Holds(e) THEN HardRemove(e)
         ELSE UNCHANGED <<slots, sparse, free, live, hot, walk>>
  BY DEF Delete, Tidy
<1>2. /\ EntityOK' /\ alive' = alive \ {e.id} /\ e.id \in alive /\ e.version = version[e.id] /\ e.id \in Ids
      /\ version'[e.id] = version[e.id] + 1
      /\ \A i \in Ids : i # e.id => version'[i] = version[i]
  BY <1>1, DestroyKeeps, HandleFacts
<1>3. CASE e.id \in mask /\ Holds(e)
  <2>1. HardRemove(e)
    BY <1>1, <1>3
  <2>2. Holds(e) /\ live' = live - 1 /\ hot' = Cold
    BY <2>1 DEF HardRemove, Bump
  <2>3. Entered(slots', sparse', free') /\ TakenFrom(e)
    BY <1>1, <2>1, HardRemoveKeeps DEF Facts, StoreOK
  <2>4. HotOK' /\ WalkOK'
    BY <1>1, <2>1, <2>2, ColdKeeps, WalkHard DEF Facts, StoreOK
  <2>5. Facts' /\ \A f \in Handles : Comp(f)' = IF f = e THEN Nothing ELSE Comp(f)
    BY <1>1, <1>2, <2>2, <2>3, <2>4, TakenKeeps
  <2>6. QED
    BY <1>1, <1>2, <2>5 DEF DeleteEffect
<1>4. CASE ~ (e.id \in mask /\ Holds(e))
  <2>1. UNCHANGED <<slots, sparse, free, live, hot, walk>>
    BY <1>1, <1>4
  <2>2. mask = Present /\ \A i \in Present : i \in Ids /\ i \in alive /\ sparse[i].version = version[i]
    BY DEF Facts, MaskOK, Present
  <2>3. e.id \notin Present
    BY <1>2, <1>4, <2>2 DEF Present, Holds
  <2>4. Still /\ hot' = hot
    BY <1>1, <2>1, <2>2, <2>3 DEF Still
  <2>5. Present' = Present /\ (\A f \in Handles : Comp(f)' = Comp(f)) /\ Stay
    BY <2>4, StillEffect
  <2>6. StoreOK'
    BY <2>4, <2>5 DEF Facts, StoreOK, Still
  <2>7. \A i \in Present' : i \in alive' /\ sparse'[i].version = version'[i]
    BY <1>2, <2>1, <2>2, <2>3, <2>5
  <2>8. MaskOK'
    BY <2>2, <2>4, <2>5, <2>7 DEF MaskOK, Still
  <2>9. HotOK' /\ WalkOK'
    BY <2>4, <2>5, HotStays, WalkStays DEF Facts, Still
  <2>10. Comp(e) = Nothing
    BY <1>2, <2>3 DEF Comp, Present, Holds
  <2>11. QED
    BY <1>1, <1>2, <2>5, <2>6, <2>8, <2>9, <2>10 DEF Facts, DeleteEffect
<1>5. QED
  BY <1>3, <1>4

LEMMA ClearKeepsFacts ==
    ASSUME Facts, ClearType
    PROVE  Facts' /\ ClearEffect
<1>1. /\ Clear /\ SameHandles
      /\ mask' = mask \ {slots[i].id : i \in DOMAIN slots \ Tombstones}
  BY DEF ClearType, SameHandles, entityVars
<1>2. /\ Entered(slots', sparse', free')
      /\ \A i \in Ids : sparse'[i].dense = Invalid
      /\ Present \subseteq {slots[i].id : i \in DOMAIN slots \ Tombstones}
  BY <1>1, ClearKeeps DEF Facts, StoreOK
<1>3. live' = 0 /\ hot' = Cold /\ walk' = walk /\ ~ Walking
  BY <1>1 DEF Clear, Bump
<1>4. Present' = {}
  BY <1>2 DEF Present
<1>5. StoreOK'
  BY <1>2, <1>3, <1>4, FS_EmptySet DEF StoreOK
<1>6. MaskOK'
  <2>1. mask = Present
    BY DEF Facts, MaskOK
  <2>2. mask' = {}
    BY <1>1, <1>2, <2>1
  <2>3. QED
    BY <1>4, <2>2 DEF MaskOK
<1>7. HotOK' /\ WalkOK'
  BY <1>3, ColdKeeps, WalkStays DEF Facts
<1>8. \A f \in Handles : Comp(f)' = Nothing
  BY <1>2, HandleFacts DEF Comp, Holds
<1>9. QED
  BY <1>1, <1>5, <1>6, <1>7, <1>8 DEF Facts, ClearEffect

LEMMA CompactKeepsFacts ==
    ASSUME Facts, CompactType
    PROVE  Facts' /\ NoEffect
<1>1. Compact /\ SameHandles /\ mask' = mask
  BY DEF CompactType, SameHandles, entityVars, worldVars
<1>2. /\ Entered(slots', sparse', free') /\ Moved(slots, sparse, slots', sparse')
      /\ hot' = Cold \/ (hot' = hot /\ \A i \in Ids : sparse'[i].dense = sparse[i].dense)
  BY <1>1, CompactKeeps DEF Facts, StoreOK
<1>3. live' = live /\ walk' = walk /\ ~ Walking
  BY <1>1 DEF Compact
<1>4. hot' = hot => Stay \/ hot' = Cold
  BY <1>2, MovedEffect DEF Stay
<1>5. HotOK'
  BY <1>2, <1>4, ColdKeeps, HotStays DEF Facts
<1>6. WalkOK'
  BY <1>3, WalkStays DEF Facts
<1>7. QED
  BY <1>1, <1>2, <1>3, <1>5, <1>6, MovedKeeps

LEMMA SortKeepsFacts ==
    ASSUME plan.disciplined, Facts, SortType
    PROVE  Facts' /\ NoEffect
<1>1. Sort /\ SameHandles /\ mask' = mask /\ Tombstones = {}
  BY DEF SortType, Tidy, SameHandles, entityVars, worldVars
<1>2. Entered(slots', sparse', free') /\ Moved(slots, sparse, slots', sparse')
  BY <1>1, SortKeeps DEF Facts, StoreOK
<1>3. live' = live /\ walk' = walk /\ ~ Walking /\ hot' = Cold
  BY <1>1 DEF Sort, Bump
<1>4. HotOK' /\ WalkOK'
  BY <1>3, ColdKeeps, WalkStays DEF Facts
<1>5. QED
  BY <1>1, <1>2, <1>3, <1>4, MovedKeeps

LEMMA SwapKeepsFacts ==
    ASSUME plan.disciplined, Facts, NEW i \in DOMAIN slots, NEW j \in DOMAIN slots, SwapSlots(i, j)
    PROVE  Facts' /\ NoEffect
<1>1. Swap(i, j) /\ SameHandles /\ mask' = mask /\ slots[i].id # slots[j].id
  BY DEF SwapSlots, SameHandles, entityVars, worldVars
<1>2. Entered(slots', sparse', free') /\ Moved(slots, sparse, slots', sparse')
  BY <1>1, SwapKeeps DEF Facts, StoreOK
<1>3. live' = live /\ walk' = walk /\ ~ Walking /\ hot' = Cold
  BY <1>1 DEF Swap, Bump
<1>4. HotOK' /\ WalkOK'
  BY <1>3, ColdKeeps, WalkStays DEF Facts
<1>5. QED
  BY <1>1, <1>2, <1>3, <1>4, MovedKeeps

LEMMA ReserveKeeps ==
    ASSUME EntityOK, Facts, Reserve
    PROVE  Facts' /\ NoEffect
<1>1. Preallocate /\ Still /\ hot' = hot
  BY DEF Reserve, Still, setVars, worldVars
<1>2. SameHandles
  BY <1>1, PreallocateKeeps DEF SameHandles
<1>3. QED
  BY <1>1, <1>2, StillKeeps

(* An observer finds its rows anew. *)
LEMMA RebuildKeeps ==
    ASSUME plan.disciplined, Facts, NEW kind, NEW leader, Rebuild(kind, leader), walk = NoWalk
    PROVE  Facts' /\ NoEffect
<1>1. SameHandles /\ mask' = mask /\ live' = live /\ walk' = walk /\ Orderly
  BY DEF Rebuild, SameHandles, entityVars, worldVars
<1>2. ~ Walking
  BY walk = NoWalk DEF Walking, NoWalk
<1>3. CASE kind # "owning" \/ leader # "first"
  <2>1. slots' = slots /\ sparse' = sparse /\ free' = free /\ hot' = hot
    BY <1>3 DEF Rebuild
  <2>2. QED
    BY <1>1, <2>1, StillKeeps DEF Still
<1>4. CASE kind = "owning" /\ leader = "first"
  <2> DEFINE p == PackedFirst[Len(slots)]
  <2>1. Become(p.to) /\ hot' = Cold
    BY <1>4 DEF Rebuild
  <2>2. Tame(slots, sparse)
    BY <1>1 DEF Orderly, Tombstones, IsLive, Tame
  <2>3. Entered(p.to.slots, p.to.sparse, p.to.free) /\ Moved(slots, sparse, p.to.slots, p.to.sparse)
    BY <2>2, PackedFirstKeeps DEF Facts, StoreOK
  <2>4. Entered(slots', sparse', free') /\ Moved(slots, sparse, slots', sparse')
    BY <2>1, <2>3 DEF Become
  <2>5. HotOK' /\ WalkOK'
    BY <1>1, <1>2, <2>1, ColdKeeps, WalkStays DEF Facts
  <2>6. QED
    BY <1>1, <2>4, <2>5, MovedKeeps
<1>5. QED
  BY <1>3, <1>4

-----------------------------------------------------------------------------
(* The steps of the whole *)

Effect ==
    \/ NoEffect \/ CreateEffect \/ ClearEffect
    \/ \E e \in Handles : DeleteEffect(e) \/ RemoveEffect(e)
    \/ \E e \in Handles, v \in Values : AddEffect(e, v)

Kept == EntityOK' /\ Facts' /\ Effect

LEMMA EntityStays ==
    ASSUME EntityOK, UNCHANGED entityVars
    PROVE  EntityOK'
BY DEF EntityOK, EntityTypeOK, AliveOK, FreedOK, ReservedOK, entityVars

(* What the calls do to the entities, with discipline or without. *)
EntityStep ==
    \/ UNCHANGED entityVars \/ Preallocate \/ CreateReserved \/ CreateAllocated
    \/ \E e \in Handles : Destroy(e)

LEMMA EntityStepKeeps ==
    ASSUME EntityOK, EntityStep
    PROVE  EntityOK'
BY EntityStays, PreallocateKeeps, CreateKeeps, DestroyKeeps DEF EntityStep

LEMMA FirstOnlySteps ==
    ASSUME FirstOnly
    PROVE  EntityStep /\ plan' = plan
<1>1. CASE MayMake("create") /\ Create
  BY <1>1 DEF Create, EntityStep, worldVars
<1>2. CASE Reserve
  BY <1>2 DEF Reserve, EntityStep, worldVars
<1>3. CASE ClearType \/ CompactType \/ SortType \/ Visit
  BY <1>3 DEF ClearType, CompactType, SortType, Visit, EntityStep, worldVars
<1>4. CASE \E i, j \in DOMAIN slots : SwapSlots(i, j)
  BY <1>4 DEF SwapSlots, EntityStep, worldVars
<1>5. CASE \E e \in Handles : RemoveHard(e) \/ RemoveSoft(e) \/ Get(e)
  BY <1>5 DEF RemoveHard, RemoveSoft, Get, EntityStep, worldVars
<1>6. CASE \E e \in Handles, v \in plan.values : MayMake("add") /\ Add(e, v)
  BY <1>6 DEF Add, EntityStep
<1>7. QED
  BY <1>1, <1>2, <1>3, <1>4, <1>5, <1>6 DEF FirstOnly

LEMMA FirstOnlyKeeps ==
    ASSUME plan \in Plans, plan.disciplined, EntityOK, Facts, FirstOnly
    PROVE  Kept
<1>1. CASE MayMake("create") /\ Create
  BY <1>1, CreateKeepsFacts DEF Kept, Effect
<1>a. EntityOK'
  BY FirstOnlySteps, EntityStepKeeps
<1>2. CASE Reserve
  BY <1>a, <1>2, ReserveKeeps DEF Kept, Effect
<1>3. CASE ClearType
  BY <1>a, <1>3, ClearKeepsFacts DEF Kept, Effect
<1>4. CASE CompactType
  BY <1>a, <1>4, CompactKeepsFacts DEF Kept, Effect
<1>5. CASE SortType
  BY <1>a, <1>5, SortKeepsFacts DEF Kept, Effect
<1>6. CASE Visit
  BY <1>a, <1>6, VisitKeeps DEF Kept, Effect
<1>7. CASE \E i, j \in DOMAIN slots : SwapSlots(i, j)
  BY <1>a, <1>7, SwapKeepsFacts DEF Kept, Effect
<1>8. ASSUME NEW e \in Handles, RemoveHard(e) PROVE Kept
  BY <1>a, <1>8, RemoveHardKeeps DEF Kept, Effect
<1>9. ASSUME NEW e \in Handles, RemoveSoft(e) PROVE Kept
  BY <1>a, <1>9, RemoveSoftKeeps DEF Kept, Effect
<1>10. ASSUME NEW e \in Handles, Get(e) PROVE Kept
  BY <1>a, <1>10, GetKeeps DEF Kept, Effect
<1>11. ASSUME NEW e \in Handles, NEW v \in plan.values, Add(e, v) PROVE Kept
  <2>1. v \in Values
    BY PlanFacts
  <2>2. QED
    BY <1>a, <1>11, <2>1, AddKeeps DEF Kept, Effect
<1>12. QED
  BY <1>1, <1>2, <1>3, <1>4, <1>5, <1>6, <1>7, <1>8, <1>9, <1>10, <1>11 DEF FirstOnly

LEMMA DeleteBothKeeps ==
    ASSUME NEW e \in Handles, DeleteBoth(e)
    PROVE  /\ EntityStep /\ plan' = plan
           /\ plan.disciplined /\ EntityOK /\ Facts => Kept
<1> DEFINE another == SecondAt(e.id) # Invalid
<1>1. Delete(e, another)
  BY DEF DeleteBoth
<1> HIDE DEF another
<1>2. EntityStep /\ plan' = plan
  BY <1>1 DEF Delete, EntityStep
<1>3. plan.disciplined /\ EntityOK /\ Facts => Kept
  BY <1>1, DeleteKeeps DEF Kept, Effect
<1>4. QED
  BY <1>2, <1>3

LEMMA SecondsKeep ==
    ASSUME Seconds
    PROVE  /\ EntityStep /\ plan' = plan
           /\ plan.disciplined /\ EntityOK /\ Facts => Kept
<1>1. ASSUME NEW e \in Handles, AddSecond(e) \/ RemoveSecond(e)
      PROVE  /\ EntityStep /\ plan' = plan
             /\ plan.disciplined /\ EntityOK /\ Facts => Kept
  <2>1. UNCHANGED entityVars /\ Still /\ hot' = hot /\ plan' = plan
    BY <1>1 DEF AddSecond, RemoveSecond, worldVars, Still
  <2>2. SameHandles
    BY <2>1 DEF SameHandles, entityVars
  <2>3. QED
    BY <2>1, <2>2, EntityStays, StillKeeps DEF EntityStep, Kept, Effect
<1>2. QED
  BY <1>1, DeleteBothKeeps DEF Seconds

LEMMA LooksKeep ==
    ASSUME Looks
    PROVE  /\ EntityStep /\ plan' = plan
           /\ plan.disciplined /\ EntityOK /\ Facts => Kept
<1>1. ASSUME NEW kind, NEW leader, Rebuild(kind, leader), walk = NoWalk
      PROVE  /\ EntityStep /\ plan' = plan
             /\ plan.disciplined /\ EntityOK /\ Facts => Kept
  <2>1. UNCHANGED entityVars /\ plan' = plan
    BY <1>1 DEF Rebuild, worldVars
  <2>2. QED
    BY <1>1, <2>1, EntityStays, RebuildKeeps DEF EntityStep, Kept, Effect
<1>2. CASE Look
  BY <1>1, <1>2 DEF Look
<1>3. ASSUME NEW kind \in Kinds, Open(kind)
      PROVE  /\ EntityStep /\ plan' = plan
             /\ plan.disciplined /\ EntityOK /\ Facts => Kept
  <2>1. CASE kind = "multi"
    <3>1. UNCHANGED entityVars /\ Still /\ hot' = hot /\ plan' = plan
      BY <1>3, <2>1 DEF Open, worldVars, Still
    <3>2. SameHandles
      BY <3>1 DEF SameHandles, entityVars
    <3>3. QED
      BY <3>1, <3>2, EntityStays, StillKeeps DEF EntityStep, Kept, Effect
  <2>2. CASE kind # "multi"
    <3>1. walk = NoWalk /\ Rebuild(kind, Smallest)
      BY <1>3, <2>2 DEF Open
    <3>2. QED
      BY <1>1, <3>1
  <2>3. QED
    BY <2>1, <2>2
<1>4. QED
  BY <1>2, <1>3 DEF Looks

LEMMA ViewSteps ==
    ASSUME plan \in Plans, ViewNext
    PROVE  /\ EntityStep /\ plan' = plan
           /\ plan.disciplined /\ EntityOK /\ Facts => Kept
BY FirstOnlySteps, FirstOnlyKeeps, SecondsKeep, LooksKeep DEF ViewNext

LEMMA AllStays ==
    ASSUME UNCHANGED allVars
    PROVE  /\ EntityStep /\ plan' = plan
           /\ plan.disciplined /\ EntityOK /\ Facts => Kept
<1>1. UNCHANGED entityVars /\ Still /\ hot' = hot /\ plan' = plan
  BY DEF allVars, vars, setVars, worldVars, Still
<1>2. SameHandles
  BY <1>1 DEF SameHandles, entityVars
<1>3. QED
  BY <1>1, <1>2, EntityStays, StillKeeps DEF EntityStep, Kept, Effect

-----------------------------------------------------------------------------
(* The command buffer *)

Made(D) == [op : {"defer create", "defer add", "defer remove", "defer delete"},
            target : Handles \cup D, value : Values \cup {Nothing}]

LEMMA CommandFacts ==
    ASSUME CommandsOK, NEW n \in DOMAIN commands
    PROVE  /\ commands \in Seq(Made(DOMAIN born)) /\ commands[n] \in Made(DOMAIN born)
           /\ commands[n].op = "defer add" => commands[n].value \in Values
           /\ commands[n].op = "defer create" =>
                 commands[n].target \in DOMAIN born /\ commands[n].target.buffer = bufferId
<1>1. commands \in Seq(Made(DOMAIN born))
  BY DEF CommandsOK, Made
<1>2. commands[n] \in Made(DOMAIN born)
  BY <1>1
<1>3. QED
  BY <1>1, <1>2 DEF CommandsOK

LEMMA HeadFacts ==
    ASSUME CommandsOK, Apply
    PROVE  LET c == Head(commands)
           IN  /\ commands # <<>> /\ c = commands[1] /\ 1 \in DOMAIN commands
               /\ c \in Made(DOMAIN born)
               /\ c.op = "defer add" => c.value \in Values
               /\ c.op = "defer create" => c.target \in DOMAIN born /\ c.target.buffer = bufferId
<1>1. commands # <<>> /\ commands \in Seq(Made(DOMAIN born))
  BY DEF CommandsOK, Apply, Made
<1>2. Len(commands) \in Nat \ {0} /\ Head(commands) = commands[1]
  BY <1>1, FirstOne
<1>3. 1 \in DOMAIN commands
  BY <1>1, <1>2
<1>4. QED
  BY <1>1, <1>2, <1>3, CommandFacts

LEMMA DeferredFacts ==
    ASSUME BornOK, NEW d \in DOMAIN born
    PROVE  /\ d.buffer \in Nat /\ d.local \in Nat \ {0} /\ d \in Deferred /\ d.buffer <= bufferId
           /\ d.buffer = bufferId => d.local <= localId /\ born[d] = Resolved(d.local)
           /\ born[d] \in Handles \cup {None}
           /\ \A x \in DOMAIN born : x.buffer = d.buffer /\ x.local = d.local => x = d
<1>1. d \in Deferred /\ DOMAIN born \subseteq Deferred /\ born \in [DOMAIN born -> Handles \cup {None}]
  BY DEF BornOK
<1>2. d.buffer \in Nat /\ d.local \in Nat \ {0} /\ d = [buffer |-> d.buffer, local |-> d.local]
  BY <1>1, CommandAssumption DEF Deferred
<1>3. \A x \in DOMAIN born : x = [buffer |-> x.buffer, local |-> x.local]
  BY <1>1 DEF Deferred
<1>4. QED
  BY <1>1, <1>2, <1>3 DEF BornOK

LEMMA BufferFacts ==
    ASSUME BornOK
    PROVE  /\ bufferId \in Nat /\ localId \in Nat /\ localId <= MaxDeferred /\ bufferId <= MaxBuffers
           /\ Len(resolved) \in Nat /\ DOMAIN resolved = 1 .. Len(resolved)
           /\ Len(resolved) <= localId /\ resolved \in Seq(Handles \cup {None})
           /\ \A n \in DOMAIN resolved : resolved[n] \in Handles \cup {None}
<1>1. /\ resolved \in Seq(Handles \cup {None}) /\ Len(resolved) <= localId
      /\ bufferId \in 1 .. MaxBuffers /\ localId \in 0 .. MaxDeferred
  BY DEF BornOK
<1>2. QED
  BY <1>1, CommandAssumption

LEMMA TargetFacts ==
    ASSUME BornOK, NEW c \in Made(DOMAIN born)
    PROVE  Target(c) = None \/ Target(c) \in Handles
<1>1. CASE c.target \in DOMAIN born
  BY <1>1, BufferFacts DEF Target, Resolve
<1>2. CASE c.target \notin DOMAIN born
  BY <1>2 DEF Target, Made
<1>3. QED
  BY <1>1, <1>2

(* What a command does. *)
LEMMA ApplyOtherSteps ==
    ASSUME BornOK, NEW c \in Made(DOMAIN born), c.op # "defer create",
           c.op = "defer add" => c.value \in Values, ApplyOther(c)
    PROVE  /\ EntityStep /\ plan' = plan
           /\ plan.disciplined /\ EntityOK /\ Facts => Kept
<1> DEFINE e == Target(c)
<1>1. CASE UNCHANGED allVars
  BY <1>1, AllStays
<1>2. CASE ~ UNCHANGED allVars
  <2>1. e \in Handles /\ IsAlive(e)
    BY <1>2, TargetFacts DEF ApplyOther
  <2>a. e # None
    BY <2>1, NoneAssumption
  <2> HIDE DEF e
  <2>2. CASE c.op = "defer add" /\ Add(e, c.value)
    <3>1. EntityStep /\ plan' = plan
      BY <2>2 DEF Add, EntityStep
    <3>2. QED
      BY <2>1, <2>2, <3>1, AddKeeps, EntityStepKeeps DEF Kept, Effect
  <2>3. CASE RemoveSoft(e)
    <3>1. EntityStep /\ plan' = plan
      BY <2>3 DEF RemoveSoft, EntityStep
    <3>2. QED
      BY <2>1, <2>3, <3>1, RemoveSoftKeeps, EntityStepKeeps DEF Kept, Effect
  <2>4. CASE DeleteBoth(e)
    BY <2>1, <2>4, DeleteBothKeeps
  <2>5. CASE c.op = "defer add"
    BY <2>1, <2>2, <2>5, <2>a DEF ApplyOther, e
  <2>6. CASE c.op = "defer remove"
    <3>1. "defer remove" # "defer add" /\ "defer remove" # "defer delete"
      OBVIOUS
    <3>2. QED
      BY <1>2, <2>1, <2>3, <2>6, <2>a, <3>1 DEF ApplyOther, e
  <2>7. CASE c.op = "defer delete"
    BY <2>1, <2>4, <2>7, <2>a DEF ApplyOther, e
  <2>8. QED
    BY <2>5, <2>6, <2>7 DEF Made
<1>3. QED
  BY <1>1, <1>2

LEMMA ApplySteps ==
    ASSUME BornOK, CommandsOK, Apply
    PROVE  /\ EntityStep /\ plan' = plan
           /\ plan.disciplined /\ EntityOK /\ Facts => Kept
<1> DEFINE c == Head(commands)
<1>1. /\ c \in Made(DOMAIN born)
      /\ c.op = "defer add" => c.value \in Values
  BY HeadFacts
<1>2. CASE c.op # "defer create"
  <2>1. ApplyOther(c)
    BY <1>2 DEF Apply
  <2> HIDE DEF c
  <2>2. QED
    BY <1>1, <1>2, <2>1, ApplyOtherSteps
<1>3. CASE c.op = "defer create"
  <2>1. Create \/ UNCHANGED allVars
    BY <1>3 DEF Apply, ApplyCreate
  <2>2. CASE Create
    <3>1. EntityStep /\ plan' = plan
      BY <2>2 DEF Create, EntityStep, worldVars
    <3>2. QED
      BY <2>2, <3>1, CreateKeepsFacts DEF Kept, Effect
  <2>3. QED
    BY <2>1, <2>2, AllStays
<1>4. QED
  BY <1>2, <1>3

(* What the whole does to entities and components. *)
LEMMA EcsSteps ==
    ASSUME plan \in Plans, BornOK, CommandsOK, EcsNext
    PROVE  /\ EntityStep /\ plan' = plan
           /\ plan.disciplined /\ EntityOK /\ Facts => Kept
<1>1. CASE ViewNext
  BY <1>1, ViewSteps
<1>2. CASE RecordCreate \/ RecordOther \/ ClearBuffer \/ Flush
  <2>1. UNCHANGED allVars
    BY <1>2 DEF RecordCreate, RecordOther, ClearBuffer, Flush
  <2>2. QED
    BY <2>1, AllStays
<1>3. CASE Apply
  BY <1>3, ApplySteps
<1>4. QED
  BY <1>1, <1>2, <1>3 DEF EcsNext, CommandNext

(* Commands keep their shape as placeholders are added. *)
LEMMA MadeMore ==
    ASSUME NEW D, NEW E, D \subseteq E
    PROVE  Made(D) \subseteq Made(E) /\ Seq(Made(D)) \subseteq Seq(Made(E))
<1>1. Made(D) \subseteq Made(E)
  BY DEF Made
<1>2. ASSUME NEW s \in Seq(Made(D)) PROVE s \in Seq(Made(E))
  <2>1. Len(s) \in Nat /\ \A n \in 1 .. Len(s) : s[n] \in Made(E)
    BY <1>1
  <2>2. s = [n \in 1 .. Len(s) |-> s[n]]
    OBVIOUS
  <2>3. QED
    BY <2>1, <2>2, IsASeq
<1>3. QED
  BY <1>1, <1>2

LEMMA CommandTypes ==
    ASSUME CommandsOK
    PROVE  /\ commands \in Seq(Made(DOMAIN born)) /\ flushing \in BOOLEAN /\ Len(commands) \in Nat
           /\ DOMAIN commands = 1 .. Len(commands) /\ Len(commands) <= MaxCommands
<1>1. commands \in Seq(Made(DOMAIN born)) /\ flushing \in BOOLEAN /\ Len(commands) <= MaxCommands
  BY DEF CommandsOK, Made
<1>2. QED
  BY <1>1

LEMMA BufferStays ==
    ASSUME BornOK, CommandsOK, UNCHANGED commandVars
    PROVE  BornOK' /\ CommandsOK'
BY DEF BornOK, CommandsOK, Resolved, commandVars

(* One more command is recorded. *)
Sound(c, D) ==
    /\ c.op = "defer add" => c.value \in Values
    /\ c.op = "defer create" => c.target \in D /\ c.target.buffer = bufferId

LEMMA RecordKeeps ==
    ASSUME CommandsOK, NEW c \in Made(DOMAIN born'), Record(c),
           DOMAIN born \subseteq DOMAIN born', bufferId' = bufferId, flushing' = flushing,
           Sound(c, DOMAIN born')
    PROVE  CommandsOK'
<1> DEFINE M == Made(DOMAIN born')
<1>1. /\ commands \in Seq(Made(DOMAIN born)) /\ flushing \in BOOLEAN /\ Len(commands) \in Nat
      /\ DOMAIN commands = 1 .. Len(commands) /\ Len(commands) <= MaxCommands
  BY CommandTypes
<1>2. commands \in Seq(M) /\ c \in M
  BY <1>1, MadeMore
<1>3. commands' = Append(commands, c) /\ Len(commands) < MaxCommands /\ ~ flushing
  BY DEF Record
<1> HIDE DEF M
<1>4. /\ commands' \in Seq(M) /\ Len(commands') = Len(commands) + 1
      /\ \A n \in 1 .. Len(commands) : commands'[n] = commands[n]
      /\ commands'[Len(commands) + 1] = c
  <2>1. /\ Append(commands, c) \in Seq(M) /\ Len(Append(commands, c)) = Len(commands) + 1
        /\ \A n \in 1 .. Len(commands) : Append(commands, c)[n] = commands[n]
        /\ Append(commands, c)[Len(commands) + 1] = c
    BY <1>2, AddedOne
  <2>2. commands' = Append(commands, c)
    BY <1>3
  <2>3. QED
    BY <2>1, <2>2, Zenon
<1>5. Len(commands') <= MaxCommands
  <2>1. Len(commands') = Len(commands) + 1
    BY <1>4
  <2>2. Len(commands) < MaxCommands /\ Len(commands) \in Nat
    BY <1>1, <1>3
  <2>3. QED
    BY <2>1, <2>2, CommandAssumption
<1>a. DOMAIN commands' = 1 .. Len(commands) + 1
  <2>1. DOMAIN commands' = 1 .. Len(commands')
    BY <1>4
  <2>2. QED
    BY <1>4, <2>1
<1>6. ASSUME NEW n \in DOMAIN commands'
      PROVE  /\ commands'[n].op = "defer add" => commands'[n].value \in Values
             /\ commands'[n].op = "defer create" =>
                   commands'[n].target \in DOMAIN born' /\ commands'[n].target.buffer = bufferId'
  <2>1. n \in 1 .. Len(commands) \/ n = Len(commands) + 1
    <3>1. n \in 1 .. Len(commands) + 1 /\ Len(commands) \in Nat
      BY <1>1, <1>a
    <3>2. QED
      BY <3>1
  <2>2. CASE n = Len(commands) + 1
    BY <1>4, <2>2 DEF Sound
  <2>3. CASE n \in 1 .. Len(commands)
    <3>1. n \in DOMAIN commands /\ commands'[n] = commands[n]
      BY <1>1, <1>4, <2>3
    <3>2. QED
      BY <3>1, CommandFacts
  <2>4. QED
    BY <2>1, <2>2, <2>3
<1>7. QED
  BY <1>1, <1>3, <1>4, <1>5, <1>6 DEF CommandsOK, Made, M

LEMMA RecordOtherKeeps ==
    ASSUME plan \in Plans, BornOK, CommandsOK, RecordOther
    PROVE  BornOK' /\ CommandsOK'
<1>1. /\ resolved' = resolved /\ bufferId' = bufferId /\ localId' = localId
      /\ flushing' = flushing /\ born' = born
  BY DEF RecordOther
<1>2. BornOK'
  BY <1>1 DEF BornOK, Resolved
<1>3. PICK t \in {e \in Handles : IsAlive(e)} \cup DOMAIN born :
         \/ \E v \in plan.values : Record(Command("defer add", t, v))
         \/ \E op \in {"defer remove", "defer delete"} : Record(Command(op, t, Nothing))
  BY DEF RecordOther
<1>4. PICK op \in {"defer add", "defer remove", "defer delete"}, v \in Values \cup {Nothing} :
         Record(Command(op, t, v)) /\ (op = "defer add" => v \in Values)
  <2>1. plan.values \subseteq Values
    BY PlanFacts
  <2>2. QED
    BY <1>3, <2>1
<1> DEFINE c == Command(op, t, v)
<1>5. c.op = op /\ c.value = v /\ c \in Made(DOMAIN born')
  BY <1>1 DEF Command, Made
<1>6. op # "defer create"
  OBVIOUS
<1> HIDE DEF c
<1>7. CommandsOK'
  BY <1>1, <1>4, <1>5, <1>6, RecordKeeps DEF c, Sound
<1>8. QED
  BY <1>2, <1>7

LEMMA RecordCreateKeeps ==
    ASSUME BornOK, CommandsOK, RecordCreate
    PROVE  BornOK' /\ CommandsOK'
<1> DEFINE d == [buffer |-> bufferId, local |-> localId + 1]
           c == Command("defer create", d, Nothing)
<1>1. /\ localId < MaxDeferred /\ Record(c) /\ localId' = localId + 1
      /\ born' = [x \in DOMAIN born \cup {d} |-> IF x = d THEN None ELSE born[x]]
      /\ resolved' = resolved /\ bufferId' = bufferId /\ flushing' = flushing
  BY DEF RecordCreate
<1>2. /\ bufferId \in 1 .. MaxBuffers /\ localId \in Nat /\ MaxDeferred \in Nat
      /\ Len(resolved) \in Nat /\ Len(resolved) <= localId /\ DOMAIN resolved = 1 .. Len(resolved)
  BY BufferFacts, CommandAssumption DEF BornOK
<1>a. localId + 1 \in 1 .. MaxDeferred
  <2>1. localId < MaxDeferred
    BY <1>1
  <2> HIDE DEF c, d
  <2>2. QED
    BY <1>2, <2>1
<1>3. d.buffer = bufferId /\ d.local = localId + 1 /\ d \in Deferred
  BY <1>2, <1>a DEF Deferred
<1> HIDE DEF d
<1>4. c.op = "defer create" /\ c.target = d /\ c.value = Nothing /\ c \in Made(DOMAIN born')
  BY <1>1 DEF Command, Made
<1> HIDE DEF c
<1>6. d \notin DOMAIN born
  <2>1. ~ localId + 1 <= localId
    BY <1>2
  <2>2. QED
    BY <1>3, <2>1, DeferredFacts
<1>7. DOMAIN born' = DOMAIN born \cup {d} /\ born'[d] = None /\ \A x \in DOMAIN born : born'[x] = born[x]
  BY <1>1, <1>6
<1>5. CommandsOK'
  BY <1>1, <1>3, <1>4, <1>7, RecordKeeps DEF Sound
<1>8. BornOK'
  <2>1. born' \in [DOMAIN born' -> Handles \cup {None}] /\ DOMAIN born' \subseteq Deferred
    BY <1>1, <1>3, <1>7 DEF BornOK
  <2>2. Len(resolved') <= localId' /\ localId' \in 0 .. MaxDeferred
    BY <1>1, <1>2
  <2>3. ASSUME NEW x \in DOMAIN born'
        PROVE  /\ x.buffer <= bufferId'
               /\ x.buffer = bufferId' => x.local <= localId' /\ born'[x] = Resolved(x.local)'
    <3>1. CASE x = d
      <4>1. x.buffer = bufferId /\ x.local = localId + 1 /\ x.local \notin DOMAIN resolved
        BY <1>2, <1>3, <3>1
      <4>2. Resolved(x.local)' = None
        BY <1>1, <4>1 DEF Resolved
      <4>3. QED
        BY <1>1, <1>2, <1>7, <3>1, <4>1, <4>2
    <3>2. CASE x \in DOMAIN born
      <4>1. x.buffer <= bufferId /\ x.local \in Nat
        BY <3>2, DeferredFacts
      <4>2. x.buffer = bufferId => x.local <= localId /\ born[x] = Resolved(x.local)
        BY <3>2, DeferredFacts
      <4>3. Resolved(x.local)' = Resolved(x.local)
        BY <1>1, <1>7, <3>2 DEF Resolved
      <4>4. x.local <= localId => x.local <= localId'
        BY <1>1, <1>2, <4>1
      <4>5. QED
        BY <1>1, <1>7, <3>2, <4>1, <4>2, <4>3, <4>4
    <3>3. QED
      BY <1>7, <3>1, <3>2
  <2>4. QED
    BY <1>1, <1>2, <2>1, <2>2, <2>3 DEF BornOK
<1>9. QED
  BY <1>5, <1>8

LEMMA ClearBufferKeeps ==
    ASSUME BornOK, CommandsOK, ClearBuffer
    PROVE  BornOK' /\ CommandsOK'
<1>1. /\ ~ flushing /\ flushing' = flushing /\ born' = born /\ commands' = <<>> /\ resolved' = <<>>
      /\ localId' = 0 /\ bufferId' = bufferId + 1 /\ bufferId < MaxBuffers
  BY DEF ClearBuffer
<1>a. flushing' = FALSE /\ MaxCommands \in Nat
  BY <1>1, CommandAssumption DEF CommandsOK
<1>2. CommandsOK'
  <2>1. commands' \in Seq(Made(DOMAIN born')) /\ Len(commands') = 0 /\ DOMAIN commands' = {}
    BY <1>1
  <2>2. Len(commands') <= MaxCommands
    BY <1>a, <2>1
  <2>3. QED
    BY <1>a, <2>1, <2>2 DEF CommandsOK, Made
<1>3. bufferId \in 1 .. MaxBuffers /\ bufferId \in Nat /\ MaxBuffers \in Nat
  BY BufferFacts, CommandAssumption DEF BornOK
<1>4. \A d \in DOMAIN born : d.buffer \in Nat /\ d.buffer <= bufferId
  BY DeferredFacts
<1>5. \A d \in DOMAIN born : d.buffer <= bufferId' /\ d.buffer # bufferId'
  BY <1>1, <1>3, <1>4
<1>6. bufferId' \in 1 .. MaxBuffers /\ localId' \in 0 .. MaxDeferred
  BY <1>1, <1>3, CommandAssumption
<1>7. /\ born' \in [DOMAIN born' -> Handles \cup {None}] /\ DOMAIN born' \subseteq Deferred
      /\ resolved' \in Seq(Handles \cup {None}) /\ Len(resolved') <= localId'
  BY <1>1 DEF BornOK
<1>8. QED
  BY <1>1, <1>2, <1>5, <1>6, <1>7 DEF BornOK

-----------------------------------------------------------------------------
(* A command is made. *)

LEMMA TailKeeps ==
    ASSUME CommandsOK, Apply, DOMAIN born' = DOMAIN born
    PROVE  CommandsOK'
<1>1. /\ commands \in Seq(Made(DOMAIN born)) /\ commands # <<>> /\ Len(commands) <= MaxCommands
      /\ commands' = Tail(commands) /\ flushing' = (Len(commands) > 1) /\ bufferId' = bufferId
  BY DEF CommandsOK, Apply, Made
<1>2. /\ Len(commands) \in Nat \ {0} /\ commands' \in Seq(Made(DOMAIN born))
      /\ Len(commands') = Len(commands) - 1
      /\ \A n \in 1 .. Len(commands) - 1 : commands'[n] = commands[n + 1]
  BY <1>1, FirstOne
<1>3. ASSUME NEW n \in DOMAIN commands'
      PROVE  n + 1 \in DOMAIN commands /\ commands'[n] = commands[n + 1]
  BY <1>1, <1>2
<1>4. flushing' \in BOOLEAN /\ (flushing' => commands' # <<>>)
  <2>1. Len(commands) > 1 => Len(commands') # 0
    BY <1>2
  <2>2. Len(commands) > 1 => commands' # <<>>
    BY <2>1
  <2>3. flushing' = (Len(commands) > 1)
    BY <1>1
  <2>4. (Len(commands) > 1) \in BOOLEAN
    OBVIOUS
  <2>5. QED
    BY <2>2, <2>3, <2>4, Zenon
<1>5. Len(commands') <= MaxCommands
  BY <1>1, <1>2, CommandAssumption
<1>6. ASSUME NEW n \in DOMAIN commands'
      PROVE  /\ commands'[n].op = "defer add" => commands'[n].value \in Values
             /\ commands'[n].op = "defer create" =>
                   commands'[n].target \in DOMAIN born' /\ commands'[n].target.buffer = bufferId'
  BY <1>1, <1>3, CommandFacts
<1>7. QED
  BY <1>2, <1>4, <1>5, <1>6 DEF CommandsOK, Made

LEMMA StoredFacts ==
    ASSUME BornOK, NEW d \in DOMAIN born, d.buffer = bufferId, NEW e \in Handles
    PROVE  /\ Stored(d, e) \in Seq(Handles \cup {None}) /\ Len(Stored(d, e)) <= localId
           /\ d.local \in DOMAIN Stored(d, e) /\ Stored(d, e)[d.local] = e
           /\ \A n \in Nat \ {0} : n # d.local =>
                 (IF n \in DOMAIN Stored(d, e) THEN Stored(d, e)[n] ELSE None) = Resolved(n)
<1> DEFINE m == Max({Len(resolved), d.local})
           s == Stored(d, e)
<1>1. /\ d.local \in Nat \ {0} /\ d.local <= localId /\ localId \in Nat
      /\ Len(resolved) \in Nat /\ Len(resolved) <= localId /\ DOMAIN resolved = 1 .. Len(resolved)
      /\ \A n \in DOMAIN resolved : resolved[n] \in Handles \cup {None}
  BY BufferFacts, DeferredFacts
<1>2. m \in {Len(resolved), d.local} /\ m >= Len(resolved) /\ m >= d.local
  <2> DEFINE S == {Len(resolved), d.local}
  <2>1. \E x \in S : \A y \in S : x >= y
    BY <1>1
  <2>2. m = CHOOSE x \in S : \A y \in S : x >= y
    BY DEF Max
  <2>3. m \in S /\ \A y \in S : m >= y
    BY <2>1, <2>2
  <2>4. QED
    BY <2>3
<1>3. m \in Nat /\ m <= localId /\ d.local \in 1 .. m
  BY <1>1, <1>2
<1>4. s = [n \in 1 .. m |-> IF n = d.local THEN e ELSE IF n <= Len(resolved) THEN resolved[n] ELSE None]
  BY DEF Stored
<1> HIDE DEF m, s
<1>5. \A n \in 1 .. m : s[n] \in Handles \cup {None}
  BY <1>1, <1>3, <1>4
<1>6. s \in Seq(Handles \cup {None}) /\ Len(s) = m /\ DOMAIN s = 1 .. m
  <2>1. s = [n \in 1 .. m |-> s[n]]
    BY <1>4
  <2>2. [n \in 1 .. m |-> s[n]] \in Seq(Handles \cup {None})
    BY <1>3, <1>5, IsASeq
  <2>3. DOMAIN s = 1 .. m
    BY <1>4
  <2>4. Len(s) = m
    BY <1>3, <2>1, <2>2, <2>3
  <2>5. QED
    BY <2>1, <2>2, <2>3, <2>4
<1>7. ASSUME NEW n \in Nat \ {0}, n # d.local
      PROVE  (IF n \in DOMAIN s THEN s[n] ELSE None) = Resolved(n)
  <2>1. CASE n <= Len(resolved)
    <3>1. n \in 1 .. m /\ n \in DOMAIN resolved
      BY <1>1, <1>2, <1>3, <2>1
    <3>2. QED
      BY <1>4, <1>6, <1>7, <2>1, <3>1 DEF Resolved
  <2>2. CASE ~ n <= Len(resolved)
    <3>1. n \notin DOMAIN resolved
      BY <1>1, <2>2
    <3>2. QED
      BY <1>4, <1>6, <1>7, <2>2, <3>1 DEF Resolved
  <2>3. QED
    BY <2>1, <2>2
<1>8. QED
  BY <1>3, <1>4, <1>6, <1>7 DEF s

LEMMA ApplyKeeps ==
    ASSUME EntityOK, BornOK, CommandsOK, Apply
    PROVE  BornOK' /\ CommandsOK'
<1> DEFINE c == Head(commands)
<1>1. bufferId' = bufferId /\ localId' = localId
  BY DEF Apply
<1>2. CASE resolved' = resolved /\ born' = born
  <2>1. BornOK'
    BY <1>1, <1>2 DEF BornOK, Resolved
  <2>2. QED
    BY <1>2, <2>1, TailKeeps
<1>3. CASE c.op = "defer create" /\ ApplyCreate(c.target)
  <2>1. PICK d \in DOMAIN born : d = c.target /\ d.buffer = bufferId
    BY <1>3, HeadFacts
  <2> HIDE DEF c
  <2> DEFINE i == CHOOSE n \in Ids : n \in alive' \ alive
             h == [id |-> i, version |-> version[i]]
  <2>2. Create /\ resolved' = Stored(d, h) /\ born' = [born EXCEPT ![d] = h]
    BY <1>3, <2>1 DEF ApplyCreate
  <2>3. \E n \in Ids : n \in alive' \ alive
    BY <2>2, CreateKeeps DEF Create
  <2>4. i \in Ids
    BY <2>3
  <2>5. h \in Handles
    BY <2>4, EntityTypes DEF Handles
  <2> HIDE DEF i, h
  <2>a. PICK e \in Handles : e = h
    BY <2>5
  <2>6. /\ DOMAIN born' = DOMAIN born /\ born'[d] = e /\ \A x \in DOMAIN born : x # d => born'[x] = born[x]
        /\ born' \in [DOMAIN born' -> Handles \cup {None}]
    BY <2>1, <2>2, <2>a DEF BornOK
  <2>7. /\ resolved' \in Seq(Handles \cup {None}) /\ Len(resolved') <= localId'
        /\ d.local \in DOMAIN resolved' /\ resolved'[d.local] = e
        /\ \A n \in Nat \ {0} : n # d.local => (IF n \in DOMAIN resolved' THEN resolved'[n] ELSE None) = Resolved(n)
    BY <1>1, <2>1, <2>2, <2>a, StoredFacts
  <2>8. ASSUME NEW x \in DOMAIN born'
        PROVE  /\ x.buffer <= bufferId'
               /\ x.buffer = bufferId' => x.local <= localId' /\ born'[x] = Resolved(x.local)'
    <3>1. x \in DOMAIN born /\ x.buffer <= bufferId'
      BY <1>1, <2>6, DeferredFacts
    <3>2. CASE x = d
      <4>1. Resolved(d.local)' = e
        BY <2>7, <3>2 DEF Resolved
      <4>2. QED
        BY <1>1, <2>1, <2>6, <3>1, <3>2, <4>1, DeferredFacts
    <3>3. CASE x # d /\ x.buffer = bufferId
      <4>1. x.local # d.local /\ x.local \in Nat \ {0} /\ x.local <= localId /\ born[x] = Resolved(x.local)
        BY <2>1, <3>1, <3>3, DeferredFacts
      <4>2. Resolved(x.local)' = Resolved(x.local)
        BY <2>6, <2>7, <3>3, <4>1 DEF Resolved
      <4>3. QED
        BY <1>1, <2>6, <3>1, <3>3, <4>1, <4>2
    <3>4. QED
      BY <1>1, <3>1, <3>2, <3>3
  <2>9. BornOK'
    BY <1>1, <2>6, <2>7, <2>8 DEF BornOK
  <2>10. QED
    BY <2>6, <2>9, TailKeeps
<1>4. QED
  <2>1. Apply => (resolved' = resolved /\ born' = born) \/ (c.op = "defer create" /\ ApplyCreate(c.target))
    BY DEF Apply, ApplyOther
  <2>2. QED
    BY <1>2, <1>3, <2>1

LEMMA FlushKeeps ==
    ASSUME BornOK, CommandsOK, Flush
    PROVE  BornOK' /\ CommandsOK'
<1>1. /\ commands # <<>> /\ commands' = commands /\ flushing' = TRUE
      /\ resolved' = resolved /\ bufferId' = bufferId /\ localId' = localId /\ born' = born
  BY DEF Flush
<1>2. BornOK'
  BY <1>1 DEF BornOK, Resolved
<1>3. CommandsOK'
  BY <1>1 DEF CommandsOK
<1>4. QED
  BY <1>2, <1>3

LEMMA CommandSteps ==
    ASSUME plan \in Plans, EntityOK, BornOK, CommandsOK, EcsNext
    PROVE  BornOK' /\ CommandsOK'
BY BufferStays, RecordOtherKeeps, RecordCreateKeeps, ClearBufferKeeps, FlushKeeps, ApplyKeeps
   DEF EcsNext, CommandNext

-----------------------------------------------------------------------------
(* What the observers have noted stays known to be the sets' own or not. *)

LEMMA DeleteFresh ==
    ASSUME FreshOK, NEW e, NEW another, Delete(e, another)
    PROVE  FreshOK'
<1>1. fresh' = FALSE \/ fresh' = (fresh /\ ~ another)
  BY DEF Delete, HardRemove, Bump, Outdate
<1>2. (fresh /\ ~ another) \in BOOLEAN
  OBVIOUS
<1>3. QED
  BY <1>1, <1>2, Zenon DEF FreshOK

LEMMA AddFresh ==
    ASSUME NEW e, NEW v, Add(e, v)
    PROVE  FreshOK'
BY DEF Add, Overwrite, Reuse, AppendNew, Outdate, FreshOK

LEMMA FirstOnlyFresh ==
    ASSUME FreshOK, FirstOnly
    PROVE  FreshOK'
<1>1. CASE (MayMake("create") /\ Create) \/ Reserve
  BY <1>1 DEF Create, Reserve, setVars, FreshOK
<1>2. CASE ClearType \/ SortType
  BY <1>2 DEF ClearType, SortType, Clear, Sort, Bump, Outdate, FreshOK
<1>3. CASE CompactType
  <2>1. fresh' = fresh \/ fresh' = FALSE
    BY <1>3 DEF CompactType, Compact, Bump, Outdate
  <2>2. QED
    BY <2>1 DEF FreshOK
<1>4. CASE Visit
  BY <1>4 DEF Visit, WalkBegin, WalkNext, WalkEnd, FreshOK
<1>5. CASE \E i, j \in DOMAIN slots : SwapSlots(i, j)
  BY <1>5 DEF SwapSlots, Swap, Bump, Outdate, FreshOK
<1>6. CASE \E e \in Handles : RemoveHard(e) \/ RemoveSoft(e) \/ Get(e)
  BY <1>6 DEF RemoveHard, RemoveSoft, Get, HardRemove, SoftRemove, Fill, Bump, Outdate, FreshOK
<1>7. CASE \E e \in Handles, v \in plan.values : MayMake("add") /\ Add(e, v)
  BY <1>7, AddFresh
<1>8. QED
  BY <1>1, <1>2, <1>3, <1>4, <1>5, <1>6, <1>7 DEF FirstOnly

LEMMA ViewFresh ==
    ASSUME FreshOK, ViewNext
    PROVE  FreshOK'
<1>1. CASE FirstOnly
  BY <1>1, FirstOnlyFresh
<1>2. CASE Seconds
  <2>1. ASSUME NEW e \in Handles, AddSecond(e) \/ RemoveSecond(e) PROVE FreshOK'
    BY <2>1 DEF AddSecond, RemoveSecond, Outdate, FreshOK
  <2>2. ASSUME NEW e \in Handles, DeleteBoth(e) PROVE FreshOK'
    <3> DEFINE another == SecondAt(e.id) # Invalid
    <3>1. Delete(e, another)
      BY <2>2 DEF DeleteBoth
    <3> HIDE DEF another
    <3>2. QED
      BY <3>1, DeleteFresh
  <2>3. QED
    BY <1>2, <2>1, <2>2 DEF Seconds
<1>3. CASE Looks
  <2>1. fresh' = TRUE \/ fresh' = FALSE
    BY <1>3 DEF Looks, Look, Open, Rebuild
  <2>2. QED
    BY <2>1 DEF FreshOK
<1>4. QED
  BY <1>1, <1>2, <1>3 DEF ViewNext

LEMMA EcsFresh ==
    ASSUME FreshOK, EcsNext
    PROVE  FreshOK'
<1>1. CASE UNCHANGED allVars
  BY <1>1 DEF allVars, vars, setVars, FreshOK
<1>2. CASE ViewNext
  BY <1>2, ViewFresh
<1>3. CASE Apply /\ ~ UNCHANGED allVars
  <2> DEFINE c == Head(commands)
             e == Target(c)
  <2>1. CASE Create
    BY <2>1 DEF Create, setVars, FreshOK
  <2>2. CASE \E v : Add(e, v)
    BY <2>2, AddFresh
  <2>3. CASE RemoveSoft(e)
    BY <2>3 DEF RemoveSoft, SoftRemove, Bump, Outdate, FreshOK
  <2>4. CASE DeleteBoth(e)
    <3> DEFINE another == SecondAt(e.id) # Invalid
    <3>1. Delete(e, another)
      BY <2>4 DEF DeleteBoth
    <3> HIDE DEF another, e
    <3>2. QED
      BY <3>1, DeleteFresh
  <2>5. Create \/ (\E v : Add(e, v)) \/ RemoveSoft(e) \/ DeleteBoth(e)
    <3>1. CASE c.op = "defer create"
      BY <1>3, <3>1 DEF Apply, ApplyCreate
    <3>2. CASE c.op # "defer create"
      <4>1. ApplyOther(c)
        BY <1>3, <3>2 DEF Apply
      <4> HIDE DEF c
      <4>2. QED
        BY <1>3, <4>1 DEF ApplyOther
    <3>3. QED
      BY <3>1, <3>2
  <2>6. QED
    BY <2>1, <2>2, <2>3, <2>4, <2>5
<1>4. QED
  BY <1>1, <1>2, <1>3 DEF EcsNext, CommandNext, RecordCreate, RecordOther, ClearBuffer, Flush

-----------------------------------------------------------------------------
(* The second type *)

LEMMA SecondFacts ==
    ASSUME SecondOK
    PROVE  /\ second \in Seq(Handles) /\ Len(second) \in Nat /\ DOMAIN second = 1 .. Len(second)
           /\ \A k \in DOMAIN second : /\ second[k] \in Handles /\ second[k].id \in Ids /\ k \in Nat \ {0}
                                       /\ second[k].id \in alive /\ second[k].version = version[second[k].id]
           /\ \A k, n \in DOMAIN second : second[k].id = second[n].id => k = n
<1>1. second \in Seq(Handles)
  BY DEF SecondOK
<1>2. \A k \in DOMAIN second : second[k] \in Handles /\ k \in Nat \ {0}
  BY <1>1
<1>3. \A k \in DOMAIN second : second[k].id \in Ids
  BY <1>2, HandleFacts
<1>4. QED
  BY <1>1, <1>2, <1>3 DEF SecondOK, IsAlive

LEMMA SecondAtIs ==
    ASSUME SecondOK, NEW i
    PROVE  /\ SecondAt(i) # Invalid <=> \E k \in DOMAIN second : second[k].id = i
           /\ SecondAt(i) # Invalid => SecondAt(i) \in DOMAIN second /\ second[SecondAt(i)].id = i
           /\ \A k \in DOMAIN second : second[k].id = i => SecondAt(i) = k
<1>1. \A k \in DOMAIN second : k # Invalid
  BY SecondFacts DEF Invalid
<1>2. InSecond(i) # {} => SecondAt(i) \in InSecond(i)
  BY DEF SecondAt
<1>3. QED
  BY <1>1, <1>2, SecondFacts DEF InSecond, SecondAt

LEMMA WithoutSecondIs ==
    ASSUME SecondOK, NEW e \in Handles
    PROVE  LET s == WithoutSecond(e)
           IN  /\ s \in Seq(Handles)
               /\ \A k \in DOMAIN s : \E n \in DOMAIN second : s[k] = second[n] /\ second[n].id # e.id
               /\ \A k, n \in DOMAIN s : s[k].id = s[n].id => k = n
               /\ SecondAt(e.id) = Invalid => s = second
<1> DEFINE i == SecondAt(e.id)
           n == Len(second)
           t == [second EXCEPT ![i] = Last(second)]
           s == WithoutSecond(e)
<1>1. CASE i = Invalid
  <2>1. s = second
    BY <1>1 DEF WithoutSecond
  <2>2. QED
    BY <1>1, <2>1, SecondFacts, SecondAtIs
<1>2. CASE i # Invalid
  <2>1. i \in 1 .. n /\ second[i].id = e.id /\ n \in Nat /\ second \in Seq(Handles) /\ DOMAIN second = 1 .. n
    BY <1>2, SecondFacts, SecondAtIs
  <2>2. s = Front(t)
    BY <1>2 DEF WithoutSecond
  <2> HIDE DEF s, i
  <2>a. second # <<>>
    BY <2>1
  <2>3. Last(second) = second[n] /\ second[n] \in Handles /\ n \in 1 .. n
    BY <2>1, <2>a, LastOne
  <2>4. /\ t \in Seq(Handles) /\ Len(t) = n /\ t[i] = second[n]
        /\ \A m \in 1 .. n : m # i => t[m] = second[m]
    BY <2>1, <2>3, ChangedOne
  <2> HIDE DEF t, n
  <2>5. t # <<>>
    BY <2>1, <2>3, <2>4
  <2>6. /\ s \in Seq(Handles) /\ Len(s) = n - 1
        /\ \A m \in 1 .. n - 1 : s[m] = t[m]
    BY <2>2, <2>4, <2>5, LastOne
  <2>7. DOMAIN s = 1 .. n - 1
    BY <2>6
  <2> DEFINE from(m) == IF m = i THEN n ELSE m
  <2>8. ASSUME NEW m \in 1 .. n - 1
        PROVE  from(m) \in 1 .. n /\ s[m] = second[from(m)] /\ from(m) # i
    BY <2>1, <2>3, <2>4, <2>6
  <2>9. \A k, m \in 1 .. n - 1 : from(k) = from(m) => k = m
    BY <2>1
  <2> HIDE DEF from
  <2>10. \A k, m \in 1 .. n : second[k].id = second[m].id => k = m
    BY <2>1, SecondFacts
  <2>11. \A k \in DOMAIN s : \E m \in DOMAIN second : s[k] = second[m] /\ second[m].id # e.id
    BY <2>1, <2>7, <2>8, <2>10
  <2>12. \A k, m \in DOMAIN s : s[k].id = s[m].id => k = m
    BY <2>7, <2>8, <2>9, <2>10
  <2>13. QED
    BY <1>2, <2>6, <2>11, <2>12 DEF s, i
<1>3. QED
  BY <1>1, <1>2

(* The owning group's front, in the second type. *)
LEMMA PackedSecondSteps ==
    ASSUME Len(second) \in Nat
    PROVE  /\ PackedSecond[0] = [to |-> second, owned |-> 0]
           /\ \A i \in 1 .. Len(second) : PackedSecond[i] = PackSecond(PackedSecond[i - 1], i)
<1> DEFINE base == [to |-> second, owned |-> 0]
           n == Len(second)
           T == {m \in 0 .. n : \E f : f = [i \in 0 .. m |-> IF i = 0 THEN base ELSE PackSecond(f[i - 1], i)]}
<1> HIDE DEF base, n
<1>0. n \in Nat
  BY DEF n
<1>1. 0 \in T
  <2> DEFINE z == [i \in 0 .. 0 |-> base]
  <2>1. z = [i \in 0 .. 0 |-> IF i = 0 THEN base ELSE PackSecond(z[i - 1], i)]
    OBVIOUS
  <2> HIDE DEF z
  <2>2. 0 \in 0 .. n
    BY <1>0
  <2>3. QED
    BY <2>1, <2>2
<1>2. ASSUME NEW m \in 1 .. n, m - 1 \in T PROVE m \in T
  <2>1. PICK f : f = [i \in 0 .. m - 1 |-> IF i = 0 THEN base ELSE PackSecond(f[i - 1], i)]
    BY <1>2
  <2> DEFINE g == [i \in 0 .. m |-> IF i = m THEN PackSecond(f[m - 1], m) ELSE f[i]]
  <2>2. ASSUME NEW i \in 0 .. m PROVE g[i] = IF i = 0 THEN base ELSE PackSecond(g[i - 1], i)
    <3>1. CASE i = m
      <4>1. i # 0 /\ i - 1 \in 0 .. m /\ i - 1 # m
        BY <3>1
      <4>2. QED
        BY <3>1, <4>1
    <3>2. CASE i # m
      <4>1. i \in 0 .. m - 1 /\ (i # 0 => i - 1 \in 0 .. m /\ i - 1 # m)
        BY <3>2
      <4>2. f[i] = IF i = 0 THEN base ELSE PackSecond(f[i - 1], i)
        BY <2>1, <4>1
      <4>3. QED
        BY <3>2, <4>1, <4>2
    <3>3. QED
      BY <3>1, <3>2
  <2>3. g = [i \in 0 .. m |-> IF i = 0 THEN base ELSE PackSecond(g[i - 1], i)]
    BY <2>2
  <2> HIDE DEF g
  <2>4. QED
    BY <1>0, <2>3
<1> HIDE DEF T
<1>3. n \in T
  <2>1. \A i \in 0 .. n : i \in T
    BY <1>0, <1>1, <1>2, Climb
  <2>2. QED
    BY <1>0, <2>1
<1>4. \E f : f = [i \in 0 .. n |-> IF i = 0 THEN base ELSE PackSecond(f[i - 1], i)]
  BY <1>3 DEF T
<1>5. PackedSecond = [i \in 0 .. n |-> IF i = 0 THEN base ELSE PackSecond(PackedSecond[i - 1], i)]
  BY <1>4, Zenon DEF PackedSecond, base, n
<1>6. QED
  BY <1>0, <1>5 DEF base, n

(* The slots of the second type in another order. *)
Shuffled(t) ==
    /\ t \in Seq(Handles) /\ DOMAIN t = DOMAIN second
    /\ \A k \in DOMAIN t : \E n \in DOMAIN second : t[k] = second[n]
    /\ \A n \in DOMAIN second : \E k \in DOMAIN t : t[k] = second[n]
    /\ \A k, n \in DOMAIN t : t[k].id = t[n].id => k = n

LEMMA ShuffledMore ==
    ASSUME NEW t, Shuffled(t), NEW a \in DOMAIN t, NEW b \in DOMAIN t
    PROVE  LET u == [t EXCEPT ![a] = t[b], ![b] = t[a]]
           IN  /\ Shuffled(u) /\ DOMAIN u = DOMAIN t /\ u[a] = t[b] /\ u[b] = t[a]
               /\ \A k \in DOMAIN t : k # a /\ k # b => u[k] = t[k]
<1> DEFINE u == [t EXCEPT ![a] = t[b], ![b] = t[a]]
           D == DOMAIN t
           from(k) == IF k = a THEN b ELSE IF k = b THEN a ELSE k
<1>1. t \in Seq(Handles) /\ D = 1 .. Len(t) /\ Len(t) \in Nat /\ \A k \in D : t[k] \in Handles
  <2>1. t \in Seq(Handles)
    BY DEF Shuffled
  <2>2. QED
    BY <2>1
<1>a. /\ \A k \in D : \E n \in DOMAIN second : t[k] = second[n]
      /\ \A n \in DOMAIN second : \E k \in D : t[k] = second[n]
      /\ \A k, n \in D : t[k].id = t[n].id => k = n
      /\ DOMAIN second = D
  BY Zenon DEF Shuffled
<1>2. DOMAIN u = D /\ u[a] = t[b] /\ u[b] = t[a] /\ \A k \in D : k # a /\ k # b => u[k] = t[k]
  OBVIOUS
<1>3. u = [k \in D |-> u[k]]
  OBVIOUS
<1> HIDE DEF u, D
<1>4. a \in D /\ b \in D
  BY DEF D
<1>5. \A k \in D : from(k) \in D /\ u[k] = t[from(k)] /\ u[from(k)] = t[k]
  BY <1>2, <1>4
<1>6. \A k, n \in D : from(k) = from(n) => k = n
  OBVIOUS
<1> HIDE DEF from
<1>7. u \in Seq(Handles)
  <2>1. \A k \in 1 .. Len(t) : u[k] \in Handles
    BY <1>1, <1>5
  <2>2. [k \in 1 .. Len(t) |-> u[k]] \in Seq(Handles)
    BY <1>1, <2>1, IsASeq
  <2>3. QED
    BY <1>1, <1>3, <2>2
<1>8. \A k \in D : \E n \in DOMAIN second : u[k] = second[n]
  <2>1. ASSUME NEW k \in D PROVE \E n \in DOMAIN second : u[k] = second[n]
    <3>1. PICK m \in D : u[k] = t[m]
      BY <1>5
    <3>2. PICK n \in DOMAIN second : t[m] = second[n]
      BY <1>a
    <3>3. QED
      BY <3>1, <3>2
  <2>2. QED
    BY <2>1
<1>9. \A n \in DOMAIN second : \E k \in D : u[k] = second[n]
  <2>1. ASSUME NEW n \in DOMAIN second PROVE \E k \in D : u[k] = second[n]
    <3>1. PICK k \in D : t[k] = second[n]
      BY <1>a
    <3>2. QED
      BY <1>5, <3>1
  <2>2. QED
    BY <2>1
<1>10. \A k, n \in D : u[k].id = u[n].id => k = n
  <2>1. ASSUME NEW k \in D, NEW n \in D, u[k].id = u[n].id PROVE k = n
    <3>1. from(k) \in D /\ from(n) \in D /\ u[k] = t[from(k)] /\ u[n] = t[from(n)]
      BY <1>5
    <3>2. from(k) = from(n)
      BY <1>a, <2>1, <3>1
    <3>3. QED
      BY <1>6, <3>2
  <2>2. QED
    BY <2>1
<1>11. DOMAIN second = D
  BY <1>a
<1>12. Shuffled(u)
  BY <1>2, <1>7, <1>8, <1>9, <1>10, <1>11 DEF Shuffled
<1>13. QED
  BY <1>2, <1>12 DEF u, D

LEMMA PackedSecondIs ==
    ASSUME SecondOK
    PROVE  LET p == PackedSecond[Len(second)]
           IN  /\ Shuffled(p.to) /\ p.owned \in 0 .. Len(second)
               /\ \A k \in DOMAIN second : Member(p.to[k].id) <=> k <= p.owned
<1> DEFINE n == Len(second)
           Good(m, acc) ==
               /\ Shuffled(acc.to) /\ acc.owned \in 0 .. m
               /\ \A k \in 1 .. m : Member(acc.to[k].id) <=> k <= acc.owned
           T == {m \in 0 .. n : Good(m, PackedSecond[m])}
<1>0. n \in Nat /\ DOMAIN second = 1 .. n /\ second \in Seq(Handles)
  BY SecondFacts
<1>1. 0 \in T
  <2> DEFINE acc == PackedSecond[0]
  <2>1. acc.to = second /\ acc.owned = 0
    BY <1>0, PackedSecondSteps
  <2> HIDE DEF acc
  <2>2. Shuffled(second)
    BY <1>0, SecondFacts DEF Shuffled
  <2> HIDE DEF n
  <2>3. Good(0, acc)
    BY <1>0, <2>1, <2>2
  <2>4. QED
    BY <1>0, <2>3 DEF acc
<1>2. ASSUME NEW m \in 1 .. n, m - 1 \in T PROVE m \in T
  <2> DEFINE acc == PackedSecond[m - 1]
             new == PackedSecond[m]
             o == acc.owned + 1
             s == acc.to
  <2>1. Good(m - 1, acc)
    BY <1>2
  <2>2. new = PackSecond(acc, m)
    BY <1>0, PackedSecondSteps
  <2> HIDE DEF acc, new, n
  <2>3. /\ Shuffled(s) /\ acc.owned \in 0 .. m - 1 /\ m \in Nat /\ o \in 1 .. m /\ o \in 1 .. n
        /\ \A k \in 1 .. m - 1 : Member(s[k].id) <=> k <= acc.owned
    BY <1>0, <2>1
  <2>a. DOMAIN s = 1 .. n
    BY <1>0, <2>3 DEF Shuffled
  <2>4. CASE ~ Member(s[m].id)
    <3>1. new = acc
      BY <2>2, <2>4 DEF PackSecond, Member
    <3>2. acc.owned \in 0 .. m /\ ~ m <= acc.owned /\ \A k \in 1 .. m : k # m => k \in 1 .. m - 1
      BY <2>3
    <3>3. Good(m, acc)
      BY <2>3, <2>4, <3>2
    <3>4. QED
      BY <3>1, <3>3 DEF new, n
  <2>5. CASE Member(s[m].id)
    <3> DEFINE t == [s EXCEPT ![m] = s[o], ![o] = s[m]]
    <3>1. new.to = t /\ new.owned = o
      BY <2>2, <2>5 DEF PackSecond, Member
    <3> HIDE DEF o, s
    <3>2. /\ Shuffled(t) /\ t[m] = s[o] /\ t[o] = s[m]
          /\ \A k \in 1 .. n : k # m /\ k # o => t[k] = s[k]
      BY <2>3, <2>a, ShuffledMore
    <3> HIDE DEF t
    <3>7. o \in 0 .. m /\ (\A k \in 1 .. m : k <= o <=> k <= acc.owned \/ k = o) /\ ~ o <= acc.owned
      BY <2>3 DEF o
    <3>8. ASSUME NEW k \in 1 .. m PROVE Member(t[k].id) <=> k <= o
      <4>1. CASE k = o
        BY <2>5, <3>2, <3>7, <4>1
      <4>2. CASE k = m /\ k # o
        <5>1. o \in 1 .. m - 1 /\ ~ m <= o
          BY <2>3, <4>2
        <5>2. ~ Member(s[o].id)
          BY <2>3, <3>7, <5>1
        <5>3. QED
          BY <3>2, <4>2, <5>1, <5>2
      <4>3. CASE k # m /\ k # o
        <5>1. k \in 1 .. m - 1 /\ k \in 1 .. n
          BY <1>0, <2>3, <4>3
        <5>2. QED
          BY <2>3, <3>2, <3>7, <4>3, <5>1
      <4>4. QED
        BY <4>1, <4>2, <4>3
    <3>9. Good(m, new)
      BY <3>1, <3>2, <3>7, <3>8
    <3>10. QED
      BY <3>9 DEF new, n
  <2>6. QED
    BY <2>4, <2>5
<1>3. n \in T
  <2> HIDE DEF T
  <2>1. \A i \in 0 .. n : i \in T
    BY <1>0, <1>1, <1>2, Climb
  <2>2. QED
    BY <1>0, <2>1
<1>4. Good(n, PackedSecond[n])
  BY <1>3
<1>5. QED
  BY <1>0, <1>4

-----------------------------------------------------------------------------
(* A set of numbers in increasing order *)

Ordering(f, S) ==
    /\ f \in [1 .. Cardinality(S) -> S] /\ Cardinality(S) \in Nat
    /\ \A i \in S : \E m \in DOMAIN f : f[m] = i
    /\ \A m, n \in DOMAIN f : m < n => f[m] < f[n]

LEMMA OrderingMore ==
    ASSUME NEW S, IsFiniteSet(S), S \subseteq Nat, NEW x \in Nat, \A i \in S : i < x,
           NEW f, Ordering(f, S)
    PROVE  \E g : Ordering(g, S \cup {x})
<1> DEFINE c == Cardinality(S)
           U == S \cup {x}
           g == [m \in 1 .. c + 1 |-> IF m = c + 1 THEN x ELSE f[m]]
<1>1. c \in Nat /\ x \notin S /\ Cardinality(U) = c + 1
  <2>1. c \in Nat
    BY DEF Ordering
  <2>2. x \notin S
    OBVIOUS
  <2>3. QED
    BY <2>1, <2>2, FS_AddElement
<1>2. /\ f \in [1 .. c -> S] /\ DOMAIN f = 1 .. c
      /\ \A i \in S : \E m \in 1 .. c : f[m] = i
      /\ \A m, n \in 1 .. c : m < n => f[m] < f[n]
  <2>1. f \in [1 .. c -> S]
    BY DEF Ordering
  <2>2. DOMAIN f = 1 .. c
    BY <2>1
  <2>3. QED
    BY <2>1, <2>2 DEF Ordering
<1> HIDE DEF c
<1>3. \A m \in 1 .. c + 1 : m # c + 1 => m \in 1 .. c
  BY <1>1
<1>4. /\ DOMAIN g = 1 .. c + 1 /\ g[c + 1] = x /\ c + 1 \in 1 .. c + 1
      /\ \A m \in 1 .. c : m \in 1 .. c + 1 /\ g[m] = f[m] /\ f[m] \in S
  BY <1>1, <1>2
<1>5. g \in [1 .. c + 1 -> U]
  BY <1>2, <1>3
<1> HIDE DEF g
<1>6. \A i \in U : \E m \in DOMAIN g : g[m] = i
  BY <1>2, <1>4
<1>7. ASSUME NEW m \in DOMAIN g, NEW n \in DOMAIN g, m < n PROVE g[m] < g[n]
  <2>1. m \in 1 .. c
    BY <1>1, <1>4, <1>7
  <2>2. CASE n = c + 1
    BY <1>4, <2>1, <2>2
  <2>3. CASE n # c + 1
    BY <1>2, <1>3, <1>4, <1>7, <2>1, <2>3
  <2>4. QED
    BY <2>2, <2>3
<1>8. Ordering(g, U)
  <2> HIDE DEF U
  <2>1. g \in [1 .. Cardinality(U) -> U] /\ Cardinality(U) \in Nat
    BY <1>1, <1>5
  <2>2. QED
    BY <1>6, <1>7, <2>1, Zenon DEF Ordering
<1>9. QED
  BY <1>8

LEMMA OrderingExists ==
    ASSUME NEW n \in Nat, NEW S \in SUBSET (1 .. n)
    PROVE  \E f : Ordering(f, S)
<1> DEFINE T == {m \in 0 .. n : \E f : Ordering(f, S \cap (1 .. m))}
<1>1. 0 \in T
  <2>1. S \cap (1 .. 0) = {} /\ Cardinality({}) = 0
    BY FS_EmptySet
  <2>2. Ordering([m \in {} |-> m], {})
    BY <2>1 DEF Ordering
  <2>3. QED
    BY <2>1, <2>2
<1>2. ASSUME NEW m \in 1 .. n, m - 1 \in T PROVE m \in T
  <2> DEFINE R == S \cap (1 .. m - 1)
  <2>1. PICK f : Ordering(f, R)
    BY <1>2
  <2>2. CASE m \notin S
    <3>1. S \cap (1 .. m) = R
      BY <2>2
    <3>2. QED
      BY <2>1, <3>1
  <2>3. CASE m \in S
    <3>1. S \cap (1 .. m) = R \cup {m} /\ R \subseteq Nat /\ m \in Nat /\ \A i \in R : i < m
      BY <2>3
    <3>2. IsFiniteSet(R)
      <4>1. IsFiniteSet(1 .. n) /\ R \in SUBSET (1 .. n)
        BY FS_Interval
      <4>2. QED
        BY <4>1, FS_Subset
    <3> HIDE DEF R
    <3>3. \E g : Ordering(g, R \cup {m})
      BY <2>1, <3>1, <3>2, OrderingMore
    <3>4. QED
      BY <3>1, <3>3
  <2>4. QED
    BY <2>2, <2>3
<1>3. n \in T
  <2> HIDE DEF T
  <2>1. \A i \in 0 .. n : i \in T
    BY <1>1, <1>2, Climb
  <2>2. QED
    BY <2>1
<1>4. S \cap (1 .. n) = S
  OBVIOUS
<1>5. QED
  BY <1>3, <1>4

LEMMA InOrderIs ==
    ASSUME NEW n \in Nat, NEW S \in SUBSET (1 .. n)
    PROVE  /\ \A m \in DOMAIN InOrder(S) : InOrder(S)[m] \in S
           /\ \A i \in S : \E m \in DOMAIN InOrder(S) : InOrder(S)[m] = i
           /\ \A q, r \in DOMAIN InOrder(S) : InOrder(S)[q] = InOrder(S)[r] => q = r
<1> DEFINE c == Cardinality(S)
           Fits(f) == Range(f) = S /\ \A m, k \in DOMAIN f : m < k => f[m] < f[k]
           g == InOrder(S)
<1>1. PICK f : Ordering(f, S)
  BY OrderingExists
<1>2. f \in [1 .. c -> S] /\ Fits(f) /\ c \in Nat
  BY <1>1 DEF Ordering, Range
<1>3. g = CHOOSE h \in [1 .. c -> S] : Fits(h)
  BY DEF InOrder
<1>4. g \in [1 .. c -> S] /\ Fits(g)
  BY <1>2, <1>3
<1> HIDE DEF g, c
<1>5. DOMAIN g = 1 .. c
  BY <1>4
<1>6. ASSUME NEW q \in DOMAIN g, NEW r \in DOMAIN g, g[q] = g[r] PROVE q = r
  <2>1. q \in Nat /\ r \in Nat /\ g[q] \in Nat /\ g[r] \in Nat
    <3>1. S \subseteq Nat /\ g \in [1 .. c -> S] /\ c \in Nat
      BY <1>2, <1>4
    <3>2. q \in 1 .. c /\ r \in 1 .. c
      BY <1>5, <1>6
    <3>3. g[q] \in S /\ g[r] \in S
      BY <3>1, <3>2
    <3>4. q \in Nat /\ r \in Nat
      BY <3>1, <3>2
    <3>5. QED
      BY <3>1, <3>3, <3>4
  <2>2. ~ q < r /\ ~ r < q
    BY <1>4, <1>6, <2>1
  <2>3. QED
    BY <2>1, <2>2
<1>7. /\ \A m \in DOMAIN g : g[m] \in S
      /\ \A i \in S : \E m \in DOMAIN g : g[m] = i
  BY <1>4 DEF Range
<1>8. QED
  BY <1>6, <1>7 DEF g

-----------------------------------------------------------------------------
(* The second type keeps only entities that live.                          *)

Outlives(S) == \A i \in Ids \ S : i \in alive => i \in alive' /\ version'[i] = version[i]

LEMMA SecondStays ==
    ASSUME SecondOK, second' = second, Outlives({})
    PROVE  SecondOK'
<1>1. \A k \in DOMAIN second : IsAlive(second[k])'
  BY SecondFacts DEF Outlives, IsAlive
<1>2. QED
  BY <1>1, SecondFacts DEF SecondOK

LEMMA SecondFewer ==
    ASSUME SecondOK, NEW e \in Handles, second' = WithoutSecond(e), Outlives({e.id})
    PROVE  SecondOK'
<1> DEFINE s == WithoutSecond(e)
<1>1. /\ s \in Seq(Handles)
      /\ \A k \in DOMAIN s : \E n \in DOMAIN second : s[k] = second[n] /\ second[n].id # e.id
      /\ \A k, n \in DOMAIN s : s[k].id = s[n].id => k = n
  BY WithoutSecondIs
<1> HIDE DEF s
<1>2. ASSUME NEW k \in DOMAIN s PROVE s[k].id \in alive' /\ s[k].version = version'[s[k].id]
  <2>1. PICK n \in DOMAIN second : s[k] = second[n] /\ second[n].id # e.id
    BY <1>1
  <2>2. QED
    BY <2>1, SecondFacts DEF Outlives
<1>3. second' = s
  BY DEF s
<1>4. QED
  BY <1>1, <1>2, <1>3 DEF SecondOK, IsAlive

LEMMA SecondMore ==
    ASSUME SecondOK, NEW e \in Handles, IsAlive(e), SecondAt(e.id) = Invalid, second' = Append(second, e),
           Outlives({})
    PROVE  SecondOK'
<1> DEFINE n == Len(second)
<1>1. second \in Seq(Handles) /\ n \in Nat /\ DOMAIN second = 1 .. n
  BY SecondFacts
<1>2. /\ second' \in Seq(Handles) /\ Len(second') = n + 1
      /\ \A k \in 1 .. n : second'[k] = second[k]
      /\ second'[n + 1] = e
  BY <1>1, AddedOne
<1>3. DOMAIN second' = 1 .. n + 1
  BY <1>2
<1> HIDE DEF n
<1>4. \A k \in DOMAIN second' : k \in 1 .. n \/ k = n + 1
  BY <1>1, <1>3
<1>5. \A k \in 1 .. n : second'[k].id # e.id
  BY <1>1, <1>2, SecondAtIs
<1>6. \A k, m \in DOMAIN second' : second'[k].id = second'[m].id => k = m
  BY <1>1, <1>2, <1>4, <1>5, SecondFacts
<1>7. \A k \in DOMAIN second' : IsAlive(second'[k])
  BY <1>1, <1>2, <1>4, SecondFacts DEF IsAlive
<1>8. \A k \in DOMAIN second' : second'[k].id \in Ids
  BY <1>1, <1>2, <1>4, HandleFacts, SecondFacts
<1>9. \A k \in DOMAIN second' : second'[k].id \in alive' /\ second'[k].version = version'[second'[k].id]
  BY <1>7, <1>8 DEF Outlives, IsAlive
<1>10. QED
  BY <1>2, <1>6, <1>9 DEF SecondOK, IsAlive

LEMMA SecondShuffled ==
    ASSUME SecondOK, NEW s, Shuffled(s), second' = s, Outlives({})
    PROVE  SecondOK'
<1>1. /\ s \in Seq(Handles)
      /\ \A k \in DOMAIN s : \E n \in DOMAIN second : s[k] = second[n]
      /\ \A k, n \in DOMAIN s : s[k].id = s[n].id => k = n
  BY DEF Shuffled
<1>2. ASSUME NEW k \in DOMAIN s PROVE s[k].id \in alive' /\ s[k].version = version'[s[k].id]
  <2>1. PICK n \in DOMAIN second : s[k] = second[n]
    BY <1>1
  <2>2. QED
    BY <2>1, SecondFacts DEF Outlives
<1>4. QED
  BY <1>1, <1>2 DEF SecondOK, IsAlive

LEMMA NobodyDies ==
    ASSUME EntityOK, UNCHANGED entityVars \/ Preallocate \/ CreateReserved \/ CreateAllocated
    PROVE  Outlives({})
<1>1. alive \subseteq alive' /\ version' = version
  <2>1. CASE UNCHANGED entityVars
    BY <2>1 DEF entityVars
  <2>2. CASE Preallocate
    BY <2>2, PreallocateKeeps
  <2>3. CASE CreateReserved \/ CreateAllocated
    BY <2>3, CreateKeeps
  <2>4. QED
    BY <2>1, <2>2, <2>3
<1>2. QED
  BY <1>1 DEF Outlives

LEMMA FirstOnlyNobodyDies ==
    ASSUME EntityOK, FirstOnly
    PROVE  Outlives({})
<1> SUFFICES UNCHANGED entityVars \/ Preallocate \/ CreateReserved \/ CreateAllocated
  BY NobodyDies
<1>1. CASE MayMake("create") /\ Create
  BY <1>1 DEF Create
<1>2. CASE Reserve
  BY <1>2 DEF Reserve
<1>3. CASE ClearType \/ CompactType \/ SortType \/ Visit
  BY <1>3 DEF ClearType, CompactType, SortType, Visit
<1>4. CASE \E i, j \in DOMAIN slots : SwapSlots(i, j)
  BY <1>4 DEF SwapSlots
<1>5. CASE \E e \in Handles : RemoveHard(e) \/ RemoveSoft(e) \/ Get(e)
  BY <1>5 DEF RemoveHard, RemoveSoft, Get
<1>6. CASE \E e \in Handles, v \in plan.values : MayMake("add") /\ Add(e, v)
  BY <1>6 DEF Add
<1>7. QED
  BY <1>1, <1>2, <1>3, <1>4, <1>5, <1>6 DEF FirstOnly

LEMMA DeleteBothSecond ==
    ASSUME EntityOK, SecondOK, NEW e \in Handles, DeleteBoth(e)
    PROVE  SecondOK'
<1> DEFINE another == SecondAt(e.id) # Invalid
<1>1. Delete(e, another) /\ second' = WithoutSecond(e)
  BY DEF DeleteBoth
<1> HIDE DEF another
<1>2. Destroy(e)
  BY <1>1 DEF Delete
<1>3. Outlives({e.id})
  BY <1>2, DestroyKeeps DEF Outlives
<1>4. QED
  BY <1>1, <1>3, SecondFewer

LEMMA SecondsSecond ==
    ASSUME EntityOK, SecondOK, Seconds
    PROVE  SecondOK'
<1>1. ASSUME NEW e \in Handles, AddSecond(e) PROVE SecondOK'
  <2>1. /\ UNCHANGED entityVars /\ IsAlive(e)
        /\ second' = IF SecondAt(e.id) = Invalid THEN Append(second, e) ELSE second
    BY <1>1 DEF AddSecond
  <2>2. Outlives({})
    BY <2>1, NobodyDies
  <2>3. QED
    BY <2>1, <2>2, SecondStays, SecondMore
<1>2. ASSUME NEW e \in Handles, RemoveSecond(e) PROVE SecondOK'
  <2>1. UNCHANGED entityVars /\ second' = WithoutSecond(e)
    BY <1>2 DEF RemoveSecond
  <2>2. Outlives({e.id})
    BY <2>1 DEF Outlives, entityVars
  <2>3. QED
    BY <2>1, <2>2, SecondFewer
<1>3. QED
  BY <1>1, <1>2, DeleteBothSecond DEF Seconds

LEMMA RebuildSecond ==
    ASSUME EntityOK, SecondOK, NEW kind, NEW leader, Rebuild(kind, leader)
    PROVE  SecondOK'
<1>1. UNCHANGED entityVars
  BY DEF Rebuild
<1>2. Outlives({})
  BY <1>1, NobodyDies
<1>3. CASE second' = second
  BY <1>2, <1>3, SecondStays
<1>4. CASE second' = PackedSecond[Len(second)].to
  <2>1. Shuffled(PackedSecond[Len(second)].to)
    BY PackedSecondIs
  <2>2. QED
    BY <1>2, <1>4, <2>1, SecondShuffled
<1>5. second' = second \/ second' = PackedSecond[Len(second)].to
  BY DEF Rebuild
<1>6. QED
  BY <1>3, <1>4, <1>5

LEMMA LooksSecond ==
    ASSUME EntityOK, SecondOK, Looks
    PROVE  SecondOK'
<1>1. CASE Look
  BY <1>1, RebuildSecond DEF Look
<1>2. ASSUME NEW kind \in Kinds, Open(kind) PROVE SecondOK'
  <2>1. CASE kind = "multi"
    <3>1. UNCHANGED entityVars /\ second' = second
      BY <1>2, <2>1 DEF Open
    <3>2. QED
      BY <3>1, NobodyDies, SecondStays
  <2>2. CASE kind # "multi"
    BY <1>2, <2>2, RebuildSecond DEF Open
  <2>3. QED
    BY <2>1, <2>2
<1>3. QED
  BY <1>1, <1>2 DEF Looks

(* What a command may be. *)
ApplyStep ==
    \/ UNCHANGED allVars
    \/ \E e \in Handles : DeleteBoth(e)
    \/ /\ KeepRows /\ second' = second
       /\ Create \/ \E e \in Handles : RemoveSoft(e) \/ \E v \in Values : Add(e, v)

LEMMA ApplyIs ==
    ASSUME BornOK, CommandsOK, Apply
    PROVE  ApplyStep
<1> DEFINE c == Head(commands)
           e == Target(c)
<1>1. c \in Made(DOMAIN born) /\ (c.op = "defer add" => c.value \in Values)
  BY HeadFacts
<1>2. CASE c.op = "defer create"
  BY <1>2 DEF Apply, ApplyCreate, ApplyStep
<1>3. CASE c.op # "defer create" /\ ~ UNCHANGED allVars
  <2>1. ApplyOther(c)
    BY <1>3 DEF Apply
  <2> HIDE DEF c
  <2>2. e # None /\ e \in Handles
    BY <1>1, <1>3, <2>1, TargetFacts DEF ApplyOther
  <2> HIDE DEF e
  <2>3. \/ c.op = "defer add" /\ Add(e, c.value) /\ KeepRows /\ second' = second
        \/ RemoveSoft(e) /\ KeepRows /\ second' = second
        \/ DeleteBoth(e)
    BY <1>3, <2>1 DEF ApplyOther, e
  <2>4. QED
    BY <1>1, <2>2, <2>3 DEF ApplyStep
<1>4. QED
  BY <1>2, <1>3 DEF ApplyStep

LEMMA EcsSecond ==
    ASSUME EntityOK, BornOK, CommandsOK, SecondOK, EcsNext
    PROVE  SecondOK'
<1>1. CASE UNCHANGED allVars
  <2>1. UNCHANGED entityVars /\ second' = second
    BY <1>1 DEF allVars, vars, viewVars
  <2>2. QED
    BY <2>1, NobodyDies, SecondStays
<1>2. CASE FirstOnly /\ second' = second
  BY <1>2, FirstOnlyNobodyDies, SecondStays
<1>3. CASE Seconds \/ Looks
  BY <1>3, SecondsSecond, LooksSecond
<1>4. CASE Apply
  <2>1. ASSUME Create \/ (\E e \in Handles : RemoveSoft(e) \/ \E v \in Values : Add(e, v)), second' = second
        PROVE  SecondOK'
    <3>1. Outlives({})
      BY <2>1, NobodyDies DEF Create, RemoveSoft, Add
    <3>2. QED
      BY <2>1, <3>1, SecondStays
  <2>2. QED
    BY <1>1, <1>4, <2>1, ApplyIs, DeleteBothSecond DEF ApplyStep
<1>5. QED
  BY <1>1, <1>2, <1>3, <1>4 DEF EcsNext, ViewNext, CommandNext, RecordCreate, RecordOther, ClearBuffer, Flush

-----------------------------------------------------------------------------
(* Rows that are handed out on are rows of components that have not moved. *)

Quiet == fresh' => fresh /\ second' = second /\ \A i \in Ids : sparse'[i].dense = sparse[i].dense

LEMMA ShapeKept ==
    ASSUME ShapeOK, KeepRows
    PROVE  ShapeOK'
<1>1. CASE view' = view
  BY <1>1 DEF ShapeOK
<1>2. CASE view' = [view EXCEPT !.rows = <<>>]
  <2>1. view' = [kind |-> view.kind, leader |-> view.leader, rows |-> <<>>]
    BY <1>2 DEF ShapeOK
  <2>2. view = NoView => view' = NoView
    BY <2>1 DEF NoView
  <2>3. QED
    BY <2>1, <2>2 DEF ShapeOK
<1>3. QED
  BY <1>1, <1>2 DEF KeepRows

LEMMA ShapeShown ==
    ASSUME NEW kind \in Kinds, NEW leader \in {"first", "second"}, NEW rows, Show(kind, leader, rows)
    PROVE  ShapeOK'
BY DEF Show, ShapeOK

LEMMA RebuildShape ==
    ASSUME NEW kind \in Kinds, NEW leader \in {"first", "second"}, Rebuild(kind, leader)
    PROVE  ShapeOK'
<1>1. \E rows : Show(kind, leader, rows)
  BY DEF Rebuild
<1>2. QED
  BY <1>1, ShapeShown

LEMMA LooksShape ==
    ASSUME ShapeOK, Looks
    PROVE  ShapeOK'
<1>1. CASE Look
  BY <1>1, RebuildShape DEF Look, ShapeOK
<1>2. ASSUME NEW kind \in Kinds, Open(kind) PROVE ShapeOK'
  <2>1. Smallest \in {"first", "second"}
    BY DEF Smallest
  <2>2. (\E rows : Show(kind, Smallest, rows)) \/ Rebuild(kind, Smallest)
    BY <1>2 DEF Open
  <2>3. QED
    BY <2>1, <2>2, ShapeShown, RebuildShape
<1>3. QED
  BY <1>1, <1>2 DEF Looks

LEMMA EcsShape ==
    ASSUME BornOK, CommandsOK, ShapeOK, EcsNext
    PROVE  ShapeOK'
<1>1. CASE UNCHANGED allVars
  BY <1>1 DEF allVars, viewVars, ShapeOK
<1>2. CASE Apply
  BY <1>1, <1>2, ApplyIs, ShapeKept DEF ApplyStep, DeleteBoth
<1>3. CASE ViewNext
  BY <1>3, ShapeKept, LooksShape DEF ViewNext, Seconds, AddSecond, RemoveSecond, DeleteBoth
<1>4. QED
  BY <1>1, <1>2, <1>3 DEF EcsNext, CommandNext, RecordCreate, RecordOther, ClearBuffer, Flush

LEMMA QuietKeeps ==
    ASSUME SecondOK, ViewOK, Quiet, KeepRows \/ view' = view
    PROVE  ViewOK'
<1> SUFFICES ASSUME view' # NoView, fresh' PROVE Shown(view'.rows, sparse', second')
  BY DEF ViewOK
<1>1. /\ fresh /\ second' = second /\ view' = view
      /\ \A k \in DOMAIN second : sparse'[second[k].id].dense = sparse[second[k].id].dense
  BY SecondFacts DEF Quiet, KeepRows
<1>2. Shown(view.rows, sparse, second)
  BY <1>1 DEF ViewOK
<1>3. QED
  BY <1>1, <1>2 DEF Shown

LEMMA UnmovedQuiet ==
    ASSUME UNCHANGED <<fresh, sparse, second>>
    PROVE  Quiet
BY DEF Quiet

LEMMA OutdatedQuiet ==
    ASSUME fresh' = FALSE
    PROVE  Quiet
BY DEF Quiet

LEMMA AddQuiet ==
    ASSUME NEW e, NEW v, Add(e, v)
    PROVE  Quiet
BY OutdatedQuiet DEF Add, Overwrite, Reuse, AppendNew, Outdate

LEMMA FirstOnlyQuiet ==
    ASSUME StoreOK, FirstOnly, second' = second
    PROVE  Quiet
<1>1. CASE (MayMake("create") /\ Create) \/ Reserve
  BY <1>1, UnmovedQuiet DEF Create, Reserve, setVars
<1>2. CASE ClearType \/ SortType
  BY <1>2, OutdatedQuiet DEF ClearType, SortType, Clear, Sort, Bump, Outdate
<1>3. CASE CompactType
  BY <1>3, CompactKeeps DEF CompactType, StoreOK, Quiet
<1>4. CASE Visit
  BY <1>4, UnmovedQuiet DEF Visit, WalkBegin, WalkNext, WalkEnd
<1>5. CASE \E i, j \in DOMAIN slots : SwapSlots(i, j)
  BY <1>5, OutdatedQuiet DEF SwapSlots, Swap, Bump, Outdate
<1>6. CASE \E e \in Handles : RemoveHard(e) \/ RemoveSoft(e)
  BY <1>6, OutdatedQuiet DEF RemoveHard, RemoveSoft, HardRemove, SoftRemove, Bump, Outdate
<1>7. CASE \E e \in Handles : Get(e)
  BY <1>7, UnmovedQuiet DEF Get, Fill
<1>8. CASE \E e \in Handles, v \in plan.values : MayMake("add") /\ Add(e, v)
  BY <1>8, AddQuiet
<1>9. QED
  BY <1>1, <1>2, <1>3, <1>4, <1>5, <1>6, <1>7, <1>8 DEF FirstOnly

LEMMA DeleteBothQuiet ==
    ASSUME SecondOK, NEW e \in Handles, DeleteBoth(e)
    PROVE  Quiet
<1> DEFINE another == SecondAt(e.id) # Invalid
<1>1. Delete(e, another) /\ second' = WithoutSecond(e)
  BY DEF DeleteBoth
<1>2. ~ another => second' = second
  BY <1>1, WithoutSecondIs
<1> HIDE DEF another
<1>3. CASE HardRemove(e)
  BY <1>3, OutdatedQuiet DEF HardRemove, Bump, Outdate
<1>4. CASE fresh' = (fresh /\ ~ another) /\ sparse' = sparse
  <2>1. fresh' => fresh /\ ~ another
    BY <1>4, Zenon
  <2>2. QED
    BY <1>2, <1>4, <2>1 DEF Quiet
<1>5. QED
  BY <1>1, <1>3, <1>4 DEF Delete

LEMMA SecondsQuiet ==
    ASSUME SecondOK, Seconds
    PROVE  Quiet /\ KeepRows
<1>1. ASSUME NEW e \in Handles, AddSecond(e) \/ RemoveSecond(e) PROVE Quiet /\ KeepRows
  BY <1>1, OutdatedQuiet DEF AddSecond, RemoveSecond, Outdate
<1>2. ASSUME NEW e \in Handles, DeleteBoth(e) PROVE Quiet /\ KeepRows
  BY <1>2, DeleteBothQuiet DEF DeleteBoth
<1>3. QED
  BY <1>1, <1>2 DEF Seconds

LEMMA ApplyQuiet ==
    ASSUME BornOK, CommandsOK, SecondOK, Apply
    PROVE  Quiet /\ (KeepRows \/ view' = view)
<1>1. CASE UNCHANGED allVars
  BY <1>1, UnmovedQuiet DEF allVars, viewVars, vars, setVars
<1>2. ASSUME NEW e \in Handles, DeleteBoth(e) PROVE Quiet /\ KeepRows
  BY <1>2, DeleteBothQuiet DEF DeleteBoth
<1>3. CASE KeepRows /\ second' = second /\ Create
  BY <1>3, UnmovedQuiet DEF Create, setVars
<1>4. CASE KeepRows /\ \E e \in Handles : RemoveSoft(e)
  BY <1>4, OutdatedQuiet DEF RemoveSoft, SoftRemove, Bump, Outdate
<1>5. CASE KeepRows /\ \E e \in Handles, v \in Values : Add(e, v)
  BY <1>5, AddQuiet
<1>6. QED
  BY <1>1, <1>2, <1>3, <1>4, <1>5, ApplyIs DEF ApplyStep

(* All steps but those of an observer that looks. *)
LEMMA QuietSteps ==
    ASSUME BornOK, CommandsOK, SecondOK, StoreOK, ViewOK, EcsNext, ~ Looks
    PROVE  ViewOK'
<1>1. CASE UNCHANGED allVars
  <2>1. Quiet /\ view' = view
    BY <1>1, UnmovedQuiet DEF allVars, viewVars, vars, setVars
  <2>2. QED
    BY <2>1, QuietKeeps
<1>2. CASE FirstOnly /\ KeepRows /\ second' = second
  BY <1>2, FirstOnlyQuiet, QuietKeeps
<1>3. CASE Seconds
  BY <1>3, SecondsQuiet, QuietKeeps
<1>4. CASE Apply
  BY <1>4, ApplyQuiet, QuietKeeps
<1>5. QED
  BY <1>1, <1>2, <1>3, <1>4 DEF EcsNext, ViewNext, CommandNext, RecordCreate, RecordOther, ClearBuffer, Flush

-----------------------------------------------------------------------------
(* An observer that looks finds the entities with both components. *)

LEMMA BothIs ==
    ASSUME EntityOK, StoreOK, MaskOK, SecondOK, NEW kind, NEW i \in Ids
    PROVE  Both(kind, i) <=> sparse[i].dense # Invalid /\ SecondAt(i) # Invalid
<1>1. mask = Present /\ \A n \in Present : sparse[n].version = version[n]
  BY DEF MaskOK
<1>2. i \in Present <=> sparse[i].dense # Invalid
  BY DEF Present
<1>3. CASE kind # "multi"
  BY <1>1, <1>2, <1>3 DEF Both
<1>4. CASE SecondAt(i) = Invalid
  BY <1>4 DEF Both
<1>5. CASE kind = "multi" /\ SecondAt(i) # Invalid
  <2>1. Both(kind, i) <=> sparse[i].version = second[SecondAt(i)].version
    BY <1>5 DEF Both
  <2>2. second[SecondAt(i)].version = version[i]
    BY <1>5, SecondAtIs, SecondFacts
  <2>3. version[i] # 0
    BY EntityTypes
  <2>4. sparse[i].dense = Invalid => sparse[i].version = 0
    BY EntryFacts DEF StoreOK
  <2>5. QED
    BY <1>1, <1>2, <1>5, <2>1, <2>2, <2>3, <2>4
<1>6. QED
  BY <1>3, <1>4, <1>5

LEMMA FirstLeads ==
    ASSUME SecondOK, NEW sl, NEW sp, NEW fr, Entered(sl, sp, fr), Tame(sl, sp), NEW f, NEW rows,
           rows = [r \in DOMAIN f |-> Row(f[r], SecondAt(sl[f[r]].id))],
           \A r \in DOMAIN f : f[r] \in DOMAIN sl /\ sp[sl[f[r]].id].dense # Invalid
                               /\ SecondAt(sl[f[r]].id) # Invalid,
           \A k \in DOMAIN sl : sp[sl[k].id].dense # Invalid /\ SecondAt(sl[k].id) # Invalid
                                   => \E r \in DOMAIN f : f[r] = k,
           \A q, r \in DOMAIN f : f[q] = f[r] => q = r
    PROVE  Shown(rows, sp, second)
<1>1. DOMAIN rows = DOMAIN f /\ \A r \in DOMAIN f : rows[r] = Row(f[r], SecondAt(sl[f[r]].id))
  OBVIOUS
<1>2. ASSUME NEW r \in DOMAIN f
      PROVE  LET k == SecondAt(sl[f[r]].id)
             IN  k \in DOMAIN second /\ sp[second[k].id].dense # Invalid
                 /\ rows[r] = Row(sp[second[k].id].dense, k)
  <2> DEFINE k == SecondAt(sl[f[r]].id)
  <2>1. k \in DOMAIN second /\ second[k].id = sl[f[r]].id
    BY SecondAtIs
  <2>2. sp[sl[f[r]].id].dense = f[r]
    BY DEF Tame
  <2>3. QED
    BY <1>1, <2>1, <2>2
<1>3. ASSUME NEW k \in DOMAIN second, sp[second[k].id].dense # Invalid
      PROVE  \E r \in DOMAIN f : rows[r] = Row(sp[second[k].id].dense, k)
  <2> DEFINE i == second[k].id
             d == sp[i].dense
  <2>1. i \in Ids /\ SecondAt(i) = k /\ SecondAt(i) # Invalid
    BY SecondFacts, SecondAtIs
  <2>2. d \in DOMAIN sl /\ sl[d].id = i
    BY <1>3, <2>1, EntryFacts
  <2>3. PICK r \in DOMAIN f : f[r] = d
    BY <1>3, <2>1, <2>2
  <2>4. QED
    BY <1>1, <2>1, <2>2, <2>3
<1>4. ASSUME NEW q \in DOMAIN f, NEW r \in DOMAIN f, rows[q] = rows[r] PROVE q = r
  <2>1. rows[q].first = f[q] /\ rows[r].first = f[r]
    BY <1>1 DEF Row
  <2>2. QED
    BY <1>4, <2>1
<1>5. QED
  BY <1>1, <1>2, <1>3, <1>4 DEF Shown

LEMMA SecondLeads ==
    ASSUME NEW se, NEW sp, NEW g, NEW rows,
           rows = [r \in DOMAIN g |-> Row(sp[se[g[r]].id].dense, g[r])],
           \A r \in DOMAIN g : g[r] \in DOMAIN se /\ sp[se[g[r]].id].dense # Invalid,
           \A k \in DOMAIN se : sp[se[k].id].dense # Invalid => \E r \in DOMAIN g : g[r] = k,
           \A q, r \in DOMAIN g : g[q] = g[r] => q = r
    PROVE  Shown(rows, sp, se)
<1>1. DOMAIN rows = DOMAIN g /\ \A r \in DOMAIN g : rows[r] = Row(sp[se[g[r]].id].dense, g[r])
  OBVIOUS
<1>2. ASSUME NEW q \in DOMAIN g, NEW r \in DOMAIN g, rows[q] = rows[r] PROVE q = r
  <2>1. rows[q].second = g[q] /\ rows[r].second = g[r]
    BY <1>1 DEF Row
  <2>2. QED
    BY <1>2, <2>1
<1>3. QED
  BY <1>1, <1>2 DEF Shown

LEMMA AlignedShown ==
    ASSUME StoreOK, SecondOK, NEW leader \in {"first", "second"}, Aligned(leader), NEW rows,
           rows = [i \in DOMAIN (IF leader = "first" THEN slots ELSE second) |-> Row(i, i)]
    PROVE  Shown(rows, sparse, second)
<1> DEFINE a == Len(slots)
           b == Len(second)
           n == IF leader = "first" THEN a ELSE b
<1>1. Entered(slots, sparse, free)
  BY DEF StoreOK
<1>2. a \in Nat /\ DOMAIN slots = 1 .. a /\ b \in Nat /\ DOMAIN second = 1 .. b
  BY <1>1, EnteredFacts, SecondFacts
<1>3. free = <<>> /\ n <= a /\ n <= b /\ \A i \in 1 .. n : slots[i].id = second[i].id
  BY DEF Aligned
<1>4. rows = [i \in 1 .. n |-> Row(i, i)]
  BY <1>2
<1>5. \A k \in DOMAIN slots : sparse[slots[k].id].dense = k
  <2>1. DOMAIN free = {}
    BY <1>3
  <2>2. QED
    BY <1>1, <2>1, SlotFacts
<1>6. \A k \in DOMAIN second : /\ second[k].id \in Ids /\ k # Invalid
                               /\ \A m \in DOMAIN second : second[k].id = second[m].id => k = m
  BY SecondFacts DEF Invalid
<1>7. \A k \in DOMAIN second : LET d == sparse[second[k].id].dense
                               IN  d # Invalid => d \in DOMAIN slots /\ slots[d].id = second[k].id
  BY <1>1, <1>6, EntryFacts
<1>8. (leader = "first" /\ n = a) \/ (leader = "second" /\ n = b)
  OBVIOUS
<1> HIDE DEF n, a, b
<1>9. n \in Nat /\ \A i \in 1 .. n : i \in 1 .. a /\ i \in 1 .. b
  BY <1>2, <1>3, <1>8
<1>10. DOMAIN rows = 1 .. n /\ \A i \in 1 .. n : rows[i] = Row(i, i)
  BY <1>4
<1>11. \A i \in 1 .. n : i \in DOMAIN second /\ sparse[second[i].id].dense = i
  BY <1>2, <1>3, <1>5, <1>9
<1>12. ASSUME NEW k \in DOMAIN second, sparse[second[k].id].dense # Invalid
       PROVE  k \in 1 .. n
  <2> DEFINE d == sparse[second[k].id].dense
  <2>1. CASE n = b
    BY <1>2, <2>1
  <2>2. CASE n = a
    <3>1. d \in DOMAIN slots /\ slots[d].id = second[k].id
      BY <1>7, <1>12
    <3>2. d \in 1 .. n
      BY <1>2, <2>2, <3>1
    <3>3. second[d].id = second[k].id /\ d \in DOMAIN second
      BY <1>3, <1>11, <3>1, <3>2
    <3>4. d = k
      BY <1>6, <3>3
    <3>5. QED
      BY <3>2, <3>4
  <2>3. QED
    BY <1>8, <2>1, <2>2
<1>13. \A q, r \in DOMAIN rows : rows[q] = rows[r] => q = r
  <2>1. \A q \in DOMAIN rows : rows[q].first = q
    BY <1>10 DEF Row
  <2>2. QED
    BY <2>1
<1>14. \A r \in DOMAIN rows : r \in DOMAIN second /\ sparse[second[r].id].dense # Invalid
                              /\ rows[r] = Row(sparse[second[r].id].dense, r)
  BY <1>6, <1>10, <1>11
<1>15. \A k \in DOMAIN second : sparse[second[k].id].dense # Invalid =>
           k \in DOMAIN rows /\ rows[k] = Row(sparse[second[k].id].dense, k)
  BY <1>10, <1>11, <1>12
<1>16. QED
  BY <1>13, <1>14, <1>15 DEF Shown

(* A slot that its entity's entry does not lead to is of an entity without *)
(* the component.                                                          *)
LEMMA OrderlyTame ==
    ASSUME plan.disciplined, Orderly
    PROVE  Tame(slots, sparse)
BY DEF Orderly, Tombstones, IsLive, Tame

LEMMA RowsShown ==
    ASSUME EntityOK, StoreOK, MaskOK, SecondOK, Tame(slots, sparse),
           NEW kind, NEW leader \in {"first", "second"}
    PROVE  Shown(RowsOf(kind, leader), sparse, second)
<1> DEFINE rows == RowsOf(kind, leader)
           F == {i \in DOMAIN slots : Both(kind, slots[i].id)}
           G == {k \in DOMAIN second : Both(kind, second[k].id)}
           f == InOrder(F)
           g == InOrder(G)
<1>1. Entered(slots, sparse, free) /\ Len(slots) \in Nat /\ DOMAIN slots = 1 .. Len(slots)
      /\ (\A k \in DOMAIN slots : slots[k].id \in Ids)
      /\ Len(second) \in Nat /\ DOMAIN second = 1 .. Len(second)
      /\ (\A k \in DOMAIN second : second[k].id \in Ids)
  BY EnteredFacts, SecondFacts DEF StoreOK
<1>2. /\ kind = "multi" /\ Aligned(leader) =>
            rows = [i \in DOMAIN (IF leader = "first" THEN slots ELSE second) |-> Row(i, i)]
      /\ ~ (kind = "multi" /\ Aligned(leader)) /\ leader = "first" =>
            rows = [n \in DOMAIN f |-> Row(f[n], SecondAt(slots[f[n]].id))]
      /\ ~ (kind = "multi" /\ Aligned(leader)) /\ leader # "first" =>
            rows = [n \in DOMAIN g |-> Row(sparse[second[g[n]].id].dense, g[n])]
  BY DEF RowsOf
<1>3. /\ \A k \in F : k \in DOMAIN slots /\ sparse[slots[k].id].dense # Invalid /\ SecondAt(slots[k].id) # Invalid
      /\ \A k \in DOMAIN slots : sparse[slots[k].id].dense # Invalid /\ SecondAt(slots[k].id) # Invalid => k \in F
  BY <1>1, BothIs
<1>4. /\ \A k \in G : k \in DOMAIN second /\ sparse[second[k].id].dense # Invalid
      /\ \A k \in DOMAIN second : sparse[second[k].id].dense # Invalid => k \in G
  <2>1. \A k \in DOMAIN second : SecondAt(second[k].id) # Invalid
    BY SecondAtIs
  <2>2. QED
    BY <1>1, <2>1, BothIs
<1>5. F \in SUBSET (1 .. Len(slots)) /\ G \in SUBSET (1 .. Len(second))
  BY <1>1
<1> HIDE DEF rows, F, G
<1>6. /\ \A m \in DOMAIN f : f[m] \in F
      /\ \A i \in F : \E m \in DOMAIN f : f[m] = i
      /\ \A q, r \in DOMAIN f : f[q] = f[r] => q = r
  BY <1>1, <1>5, InOrderIs
<1>7. /\ \A m \in DOMAIN g : g[m] \in G
      /\ \A i \in G : \E m \in DOMAIN g : g[m] = i
      /\ \A q, r \in DOMAIN g : g[q] = g[r] => q = r
  BY <1>1, <1>5, InOrderIs
<1> HIDE DEF f, g
<1>8. CASE kind = "multi" /\ Aligned(leader)
  BY <1>2, <1>8, AlignedShown DEF rows
<1>9. CASE ~ (kind = "multi" /\ Aligned(leader)) /\ leader = "first"
  <2>1. Shown(rows, sparse, second)
    BY <1>1, <1>2, <1>3, <1>6, <1>9, FirstLeads
  <2>2. QED
    BY <2>1 DEF rows
<1>10. CASE ~ (kind = "multi" /\ Aligned(leader)) /\ leader # "first"
  <2>1. Shown(rows, sparse, second)
    BY <1>2, <1>4, <1>7, <1>10, SecondLeads
  <2>2. QED
    BY <2>1 DEF rows
<1>11. QED
  BY <1>8, <1>9, <1>10

LEMMA MemberIs ==
    ASSUME EntityOK, StoreOK, MaskOK, SecondOK, NEW i \in Ids
    PROVE  Member(i) <=> sparse[i].dense # Invalid /\ SecondAt(i) # Invalid
BY BothIs DEF Member

LEMMA FirstPackedShown ==
    ASSUME EntityOK, StoreOK, MaskOK, SecondOK, Tame(slots, sparse)
    PROVE  LET p == PackedFirst[Len(slots)]
           IN  Shown([i \in 1 .. p.owned |-> Row(i, SecondAt(p.to.slots[i].id))], p.to.sparse, second)
<1> DEFINE p == PackedFirst[Len(slots)]
           t == p.to
           f == [i \in 1 .. p.owned |-> i]
           rows == [i \in 1 .. p.owned |-> Row(i, SecondAt(p.to.slots[i].id))]
<1>1. Entered(slots, sparse, free) /\ Len(slots) \in Nat /\ DOMAIN slots = 1 .. Len(slots)
  BY EnteredFacts DEF StoreOK
<1>2. /\ Entered(t.slots, t.sparse, t.free) /\ Moved(slots, sparse, t.slots, t.sparse)
      /\ DOMAIN t.slots = DOMAIN slots /\ Tame(t.slots, t.sparse)
      /\ p.owned \in 0 .. Len(slots)
      /\ \A k \in DOMAIN slots : Member(t.slots[k].id) <=> k <= p.owned
  BY <1>1, PackedFirstKeeps
<1> HIDE DEF p
<1>3. ASSUME NEW k \in DOMAIN slots
      PROVE  t.sparse[t.slots[k].id].dense # Invalid /\ SecondAt(t.slots[k].id) # Invalid <=> k <= p.owned
  <2> DEFINE i == t.slots[k].id
  <2>1. i \in Ids
    BY <1>2, EnteredFacts
  <2>2. t.sparse[i].dense = Invalid <=> sparse[i].dense = Invalid
    BY <1>2, <2>1 DEF Moved, Same
  <2>3. Member(i) <=> sparse[i].dense # Invalid /\ SecondAt(i) # Invalid
    BY <2>1, MemberIs
  <2>4. QED
    BY <1>2, <2>2, <2>3
<1>4. \A r \in DOMAIN f : f[r] = r /\ r \in DOMAIN slots /\ r <= p.owned
  BY <1>1, <1>2
<1>5. \A k \in DOMAIN slots : k <= p.owned => k \in DOMAIN f
  BY <1>1, <1>2
<1>6. rows = [r \in DOMAIN f |-> Row(f[r], SecondAt(t.slots[f[r]].id))]
  OBVIOUS
<1> HIDE DEF f, rows
<1>7. /\ \A r \in DOMAIN f : f[r] \in DOMAIN t.slots /\ t.sparse[t.slots[f[r]].id].dense # Invalid
                               /\ SecondAt(t.slots[f[r]].id) # Invalid
      /\ \A k \in DOMAIN t.slots : t.sparse[t.slots[k].id].dense # Invalid /\ SecondAt(t.slots[k].id) # Invalid
                                   => \E r \in DOMAIN f : f[r] = k
      /\ \A q, r \in DOMAIN f : f[q] = f[r] => q = r
  <2>1. \A r \in DOMAIN f : f[r] \in DOMAIN t.slots /\ t.sparse[t.slots[f[r]].id].dense # Invalid
                               /\ SecondAt(t.slots[f[r]].id) # Invalid
    BY <1>2, <1>3, <1>4
  <2>2. \A k \in DOMAIN t.slots : t.sparse[t.slots[k].id].dense # Invalid /\ SecondAt(t.slots[k].id) # Invalid
                                   => k \in DOMAIN f
    BY <1>2, <1>3, <1>5
  <2>3. QED
    BY <1>4, <2>1, <2>2, Zenon
<1>8. Shown(rows, t.sparse, second)
  BY <1>2, <1>6, <1>7, FirstLeads
<1>9. QED
  BY <1>8 DEF rows, p

LEMMA SecondPackedShown ==
    ASSUME EntityOK, StoreOK, MaskOK, SecondOK
    PROVE  LET p == PackedSecond[Len(second)]
           IN  Shown([k \in 1 .. p.owned |-> Row(sparse[p.to[k].id].dense, k)], sparse, p.to)
<1> DEFINE p == PackedSecond[Len(second)]
           s == p.to
           g == [k \in 1 .. p.owned |-> k]
           rows == [k \in 1 .. p.owned |-> Row(sparse[p.to[k].id].dense, k)]
<1>1. Len(second) \in Nat /\ DOMAIN second = 1 .. Len(second) /\ \A k \in DOMAIN second : second[k].id \in Ids
  BY SecondFacts
<1>2. /\ Shuffled(s) /\ p.owned \in 0 .. Len(second)
      /\ \A k \in DOMAIN second : Member(s[k].id) <=> k <= p.owned
  BY PackedSecondIs
<1> HIDE DEF p
<1>a. DOMAIN s = DOMAIN second /\ \A k \in DOMAIN s : \E n \in DOMAIN second : s[k] = second[n]
  BY <1>2 DEF Shuffled
<1>3. ASSUME NEW k \in DOMAIN second PROVE sparse[s[k].id].dense # Invalid <=> k <= p.owned
  <2>1. PICK n \in DOMAIN second : s[k] = second[n]
    BY <1>a
  <2>2. SecondAt(s[k].id) # Invalid /\ s[k].id \in Ids
    BY <1>1, <2>1, SecondAtIs
  <2>3. QED
    BY <1>2, <2>2, MemberIs
<1>4. \A r \in DOMAIN g : g[r] = r /\ r \in DOMAIN second /\ r <= p.owned
  BY <1>1, <1>2
<1>5. \A k \in DOMAIN second : k <= p.owned => k \in DOMAIN g
  BY <1>1, <1>2
<1>6. rows = [r \in DOMAIN g |-> Row(sparse[s[g[r]].id].dense, g[r])]
  OBVIOUS
<1> HIDE DEF g, rows
<1>7. /\ \A r \in DOMAIN g : g[r] \in DOMAIN s /\ sparse[s[g[r]].id].dense # Invalid
      /\ \A k \in DOMAIN s : sparse[s[k].id].dense # Invalid => \E r \in DOMAIN g : g[r] = k
      /\ \A q, r \in DOMAIN g : g[q] = g[r] => q = r
  BY <1>3, <1>4, <1>5, <1>a
<1>8. Shown(rows, sparse, s)
  BY <1>6, <1>7, SecondLeads
<1>9. QED
  BY <1>8 DEF rows, p

LEMMA RebuildShows ==
    ASSUME plan.disciplined, EntityOK, StoreOK, MaskOK, SecondOK,
           NEW kind, NEW leader \in {"first", "second"}, Rebuild(kind, leader)
    PROVE  ViewOK'
<1> SUFFICES Shown(view'.rows, sparse', second')
  BY DEF ViewOK
<1>1. Tame(slots, sparse)
  BY OrderlyTame DEF Rebuild
<1>2. CASE kind # "owning"
  <2>1. view'.rows = RowsOf(kind, leader) /\ sparse' = sparse /\ second' = second
    BY <1>2 DEF Rebuild, Show
  <2>2. Shown(RowsOf(kind, leader), sparse, second)
    BY <1>1, RowsShown
  <2>3. QED
    BY <2>1, <2>2
<1>3. CASE kind = "owning" /\ leader = "first"
  <2> DEFINE p == PackedFirst[Len(slots)]
             rows == [i \in 1 .. p.owned |-> Row(i, SecondAt(p.to.slots[i].id))]
  <2>1. Shown(rows, p.to.sparse, second)
    BY <1>1, FirstPackedShown
  <2>2. view'.rows = rows /\ sparse' = p.to.sparse /\ second' = second
    BY <1>3 DEF Rebuild, Show, Become
  <2> HIDE DEF rows, p
  <2>3. QED
    BY <2>1, <2>2
<1>4. CASE kind = "owning" /\ leader # "first"
  <2> DEFINE p == PackedSecond[Len(second)]
             rows == [k \in 1 .. p.owned |-> Row(sparse[p.to[k].id].dense, k)]
  <2>1. Shown(rows, sparse, p.to)
    BY SecondPackedShown
  <2>2. view'.rows = rows /\ sparse' = sparse /\ second' = p.to
    BY <1>4 DEF Rebuild, Show
  <2> HIDE DEF rows, p
  <2>3. QED
    BY <2>1, <2>2
<1>5. QED
  BY <1>2, <1>3, <1>4

LEMMA LooksShow ==
    ASSUME plan.disciplined, EntityOK, StoreOK, MaskOK, SecondOK, ShapeOK, Looks
    PROVE  ViewOK'
<1>1. CASE Look
  BY <1>1, RebuildShows DEF Look, ShapeOK
<1>2. ASSUME NEW kind \in Kinds, Open(kind) PROVE ViewOK'
  <2>1. CASE kind = "multi"
    BY <1>2, <2>1 DEF Open, ViewOK
  <2>2. CASE kind # "multi"
    <3>1. Smallest \in {"first", "second"}
      BY DEF Smallest
    <3>2. QED
      BY <1>2, <2>2, <3>1, RebuildShows DEF Open
  <2>3. QED
    BY <2>1, <2>2
<1>3. QED
  BY <1>1, <1>2 DEF Looks

LEMMA EcsShows ==
    ASSUME plan.disciplined, EntityOK, BornOK, CommandsOK, StoreOK, MaskOK, SecondOK, ShapeOK, ViewOK, EcsNext
    PROVE  ViewOK'
BY QuietSteps, LooksShow

(* The rows shown are the ones that are exact. *)
LEMMA ShownExact ==
    ASSUME EntityOK, StoreOK, MaskOK, SecondOK, ShapeOK, ViewOK
    PROVE  ViewExact
<1>1. ViewTypeOK
  BY SecondFacts DEF ShapeOK, ViewTypeOK
<1> SUFFICES ASSUME view # NoView, fresh
             PROVE  /\ {view.rows[r] : r \in DOMAIN view.rows}
                          = {Row(SparseLookup(e), SecondAt(e.id)) : e \in {f \in Range(second) : Holds(f)}}
                    /\ IsInjective(view.rows)
  BY <1>1 DEF ViewExact
<1> DEFINE rows == view.rows
<1>2. Shown(rows, sparse, second)
  BY DEF ViewOK
<1> HIDE DEF rows
<1>3. ASSUME NEW k \in DOMAIN second
      PROVE  /\ Holds(second[k]) <=> sparse[second[k].id].dense # Invalid
             /\ sparse[second[k].id].dense # Invalid =>
                   Row(SparseLookup(second[k]), SecondAt(second[k].id)) = Row(sparse[second[k].id].dense, k)
  <2> DEFINE i == second[k].id
  <2>1. i \in Ids /\ second[k].version = version[i] /\ SecondAt(i) = k
    BY SecondFacts, SecondAtIs
  <2>2. sparse[i].dense # Invalid => sparse[i].version = version[i]
    BY <2>1 DEF MaskOK, Present
  <2>3. QED
    BY <2>1, <2>2 DEF Holds, SparseLookup
<1>4. Range(second) = {second[k] : k \in DOMAIN second}
  BY DEF Range
<1> DEFINE L == {rows[r] : r \in DOMAIN rows}
           R == {Row(SparseLookup(e), SecondAt(e.id)) : e \in {f \in Range(second) : Holds(f)}}
<1>5. ASSUME NEW r \in DOMAIN rows PROVE rows[r] \in R
  <2>1. PICK k \in DOMAIN second : sparse[second[k].id].dense # Invalid
                                   /\ rows[r] = Row(sparse[second[k].id].dense, k)
    BY <1>2 DEF Shown
  <2>2. second[k] \in {f \in Range(second) : Holds(f)}
    BY <1>3, <1>4, <2>1
  <2>3. QED
    BY <1>3, <2>1, <2>2
<1>6. ASSUME NEW e \in Range(second), Holds(e) PROVE Row(SparseLookup(e), SecondAt(e.id)) \in L
  <2>1. PICK k \in DOMAIN second : e = second[k]
    BY <1>4
  <2>2. PICK r \in DOMAIN rows : rows[r] = Row(sparse[second[k].id].dense, k)
    BY <1>2, <1>3, <1>6, <2>1 DEF Shown
  <2>3. QED
    BY <1>3, <1>6, <2>1, <2>2
<1>7. L = R
  BY <1>5, <1>6
<1>8. IsInjective(rows)
  BY <1>2 DEF Shown, IsInjective
<1>9. QED
  BY <1>7, <1>8 DEF rows

-----------------------------------------------------------------------------
(* The invariant *)

LEMMA InitIInv == EcsInit => IInv
<1> SUFFICES ASSUME EcsInit PROVE IInv
  OBVIOUS
<1>1. /\ plan \in Plans /\ mask = {} /\ EntityInit
      /\ slots = <<>> /\ sparse = [i \in Ids |-> Gone] /\ free = <<>> /\ live = 0
      /\ fresh = FALSE /\ hot = Cold /\ walk = NoWalk
      /\ commands = <<>> /\ resolved = <<>> /\ bufferId = 1 /\ localId = 0
      /\ flushing = FALSE /\ born = <<>>
      /\ second = <<>> /\ view = NoView
  BY DEF EcsInit, Init, SetInit, CommandInit, ViewInit
<1>2. EntityOK /\ FreshOK
  BY <1>1, InitEntities DEF FreshOK
<1>3. BornOK
  <2>1. DOMAIN born = {} /\ born \in [{} -> Handles \cup {None}] /\ Len(resolved) = 0
    BY <1>1
  <2>2. 1 \in 1 .. MaxBuffers /\ 0 \in 0 .. MaxDeferred
    BY CommandAssumption
  <2>3. QED
    BY <1>1, <2>1, <2>2 DEF BornOK
<1>4. CommandsOK
  <2>1. commands \in Seq(Made(DOMAIN born)) /\ Len(commands) = 0 /\ DOMAIN commands = {}
    BY <1>1
  <2>2. Len(commands) <= MaxCommands
    BY <2>1, CommandAssumption
  <2>3. QED
    BY <1>1, <2>1, <2>2 DEF CommandsOK, Made
<1>5. \A i \in Ids : sparse[i].dense = Invalid /\ sparse[i].version = 0 /\ sparse[i] \in Entry
  BY <1>1, MaxVersionAssumption DEF Gone, Entry, Invalid
<1>6. Present = {}
  BY <1>5 DEF Present
<1>7. StoreOK
  <2>1. sparse \in [Ids -> Entry]
    BY <1>1, <1>5
  <2>2. Entered(slots, sparse, free)
    BY <1>1, <1>5, <2>1 DEF Entered
  <2>3. QED
    BY <1>1, <1>6, <2>2, FS_EmptySet DEF StoreOK
<1>8. MaskOK
  BY <1>1, <1>6 DEF MaskOK
<1>9. HotOK
  BY <1>1 DEF HotOK, Cold
<1>10. WalkOK
  <2>1. /\ walk.phase = "none" /\ walk.index = 0 /\ walk.pending = <<>> /\ walk.skip = FALSE
        /\ walk.at = None /\ walk.owed = {} /\ walk.seen = {} /\ walk.again = FALSE /\ walk.strayed = FALSE
    BY <1>1 DEF NoWalk
  <2>2. walk \in Walks
    BY <1>1 DEF NoWalk, Walks
  <2>3. ~ Walking
    BY <2>1 DEF Walking
  <2>4. QED
    BY <2>1, <2>2, <2>3 DEF WalkOK
<1>11. SecondOK /\ ShapeOK /\ ViewOK
  <2>1. second \in Seq(Handles) /\ DOMAIN second = {}
    BY <1>1
  <2>2. view = [kind |-> view.kind, leader |-> view.leader, rows |-> view.rows]
    BY <1>1 DEF NoView
  <2>3. QED
    BY <1>1, <2>1, <2>2 DEF SecondOK, ShapeOK, ViewOK
<1>12. QED
  BY <1>1, <1>2, <1>3, <1>4, <1>7, <1>8, <1>9, <1>10, <1>11 DEF IInv, Facts

LEMMA StepIInv == IInv /\ [EcsNext]_ecsVars => IInv'
<1> SUFFICES ASSUME IInv, [EcsNext]_ecsVars PROVE IInv'
  OBVIOUS
<1>1. /\ plan \in Plans /\ FreshOK /\ EntityOK /\ BornOK /\ CommandsOK /\ SecondOK /\ ShapeOK
      /\ plan.disciplined => Facts /\ ViewOK
  BY DEF IInv
<1>2. CASE EcsNext
  <2>1. /\ EntityStep /\ plan' = plan
        /\ plan.disciplined /\ EntityOK /\ Facts => Kept
    BY <1>1, <1>2, EcsSteps
  <2>2. EntityOK' /\ FreshOK' /\ BornOK' /\ CommandsOK'
    BY <1>1, <1>2, <2>1, EntityStepKeeps, EcsFresh, CommandSteps
  <2>3. plan.disciplined => Facts'
    BY <1>1, <2>1 DEF Kept
  <2>4. SecondOK' /\ ShapeOK'
    BY <1>1, <1>2, EcsSecond, EcsShape
  <2>5. plan.disciplined => ViewOK'
    BY <1>1, <1>2, EcsShows DEF Facts
  <2>6. QED
    BY <1>1, <2>1, <2>2, <2>3, <2>4, <2>5 DEF IInv
<1>3. CASE UNCHANGED ecsVars
  <2>1. UNCHANGED allVars /\ UNCHANGED commandVars
    BY <1>3 DEF ecsVars
  <2>2. BornOK' /\ CommandsOK'
    BY <1>1, <2>1, BufferStays
  <2>3. EntityStep /\ plan' = plan /\ (plan.disciplined /\ EntityOK /\ Facts => Kept) /\ fresh' = fresh
    BY <2>1, AllStays DEF allVars, vars, setVars
  <2>4. EntityOK' /\ FreshOK'
    BY <1>1, <2>3, EntityStepKeeps DEF FreshOK
  <2>5. plan.disciplined => Facts'
    BY <1>1, <2>3 DEF Kept
  <2>6. SecondOK' /\ ShapeOK' /\ (ViewOK => ViewOK')
    <3>1. UNCHANGED entityVars /\ UNCHANGED <<fresh, sparse, second, view>>
      BY <2>1 DEF allVars, vars, setVars, viewVars
    <3>2. SecondOK'
      BY <1>1, <3>1, NobodyDies, SecondStays
    <3>3. QED
      BY <1>1, <3>1, <3>2, UnmovedQuiet, QuietKeeps DEF ShapeOK
  <2>7. QED
    BY <1>1, <2>2, <2>3, <2>4, <2>5, <2>6 DEF IInv
<1>4. QED
  BY <1>2, <1>3

(* The records of entities, storage, masks, cache, walk, second type,      *)
(* observer and command buffer hang together in every state: the inductive *)
(* invariant.                                                              *)
THEOREM InductiveInvariant == EcsSpec => []IInv
<1>1. EcsInit => IInv
  BY InitIInv
<1>2. IInv /\ [EcsNext]_ecsVars => IInv'
  BY StepIInv
<1>3. QED
  BY <1>1, <1>2, PTL DEF EcsSpec

-----------------------------------------------------------------------------
(* What it implies *)

(* Each entity with an entry has one live slot. *)
LEMMA LiveSlots ==
    ASSUME Entered(slots, sparse, free)
    PROVE  Cardinality(DOMAIN slots \ Tombstones) = Cardinality(Present)
<1> DEFINE L == DOMAIN slots \ Tombstones
           f == [i \in Present |-> sparse[i].dense]
<1>1. \A k \in DOMAIN slots : slots[k].id \in Ids /\ k # Invalid
  BY EnteredFacts DEF Invalid
<1>2. \A k \in L : sparse[slots[k].id].dense = k /\ slots[k].id \in Present
  BY <1>1 DEF Tombstones, IsLive, Present
<1>3. \A i \in Present : f[i] \in DOMAIN slots /\ slots[f[i]].id = i /\ sparse[i].dense = f[i]
  BY EntryFacts DEF Present
<1>4. \A i \in Present : f[i] \in L
  BY <1>3 DEF Tombstones, IsLive
<1>5. f \in [Present -> L]
  BY <1>4
<1>6. \A i, j \in Present : f[i] = f[j] => i = j
  BY <1>3
<1>7. \A k \in L : \E i \in Present : f[i] = k
  BY <1>2
<1> HIDE DEF L, f
<1>8. f \in Bijection(Present, L)
  BY <1>5, <1>6, <1>7 DEF Bijection, Injection, Surjection, IsInjective
<1>9. ExistsBijection(Present, L)
  BY <1>8 DEF ExistsBijection
<1>10. QED
  BY <1>9, PresentFinite, FS_Bijection DEF L

LEMMA RecordsFrom ==
    ASSUME IInv, plan.disciplined
    PROVE  RecordsAgree
<1>1. /\ plan \in Plans /\ FreshOK /\ EntityOK
      /\ StoreOK /\ MaskOK /\ HotOK
  BY DEF IInv, Facts
<1>2. Entered(slots, sparse, free) /\ live = Cardinality(Present)
  BY <1>1 DEF StoreOK
<1>3. /\ Len(slots) \in Nat /\ DOMAIN slots = 1 .. Len(slots)
      /\ slots \in Seq(Slot) /\ sparse \in [Ids -> Entry] /\ free \in Seq(Nat \ {0})
      /\ \A i \in Ids : sparse[i] \in Entry /\ sparse[i].dense \in Nat /\ sparse[i].version \in 0 .. MaxVersion
  BY <1>2, EnteredFacts
<1>4. live = Cardinality(DOMAIN slots \ Tombstones)
  BY <1>2, LiveSlots
<1>5. live \in 0 .. Len(slots)
  <2>1. IsFiniteSet(1 .. Len(slots)) /\ Cardinality(1 .. Len(slots)) = Len(slots)
    <3>1. /\ IsFiniteSet(1 .. Len(slots))
          /\ Cardinality(1 .. Len(slots)) = IF 1 > Len(slots) THEN 0 ELSE Len(slots) - 1 + 1
      <4>1. 1 \in Int /\ Len(slots) \in Int
        BY <1>3
      <4>2. QED
        BY <4>1, FS_Interval, Zenon
    <3>2. \A n \in Nat : (IF 1 > n THEN 0 ELSE n - 1 + 1) = n
      OBVIOUS
    <3>3. QED
      BY <1>3, <3>1, <3>2
  <2>2. DOMAIN slots \ Tombstones \in SUBSET (1 .. Len(slots))
    BY <1>3
  <2>3. Cardinality(DOMAIN slots \ Tombstones) <= Len(slots)
    BY <2>1, <2>2, FS_Subset
  <2>4. live \in Nat
    BY <1>2, PresentFinite
  <2>5. QED
    BY <1>3, <1>4, <2>3, <2>4
<1>6. sparse \in [Ids -> [dense : 0 .. Len(slots), version : 0 .. MaxVersion]]
  <2>1. ASSUME NEW i \in Ids PROVE sparse[i] \in [dense : 0 .. Len(slots), version : 0 .. MaxVersion]
    <3>1. sparse[i].dense \in 0 .. Len(slots)
      <4>1. sparse[i].dense = 0 \/ sparse[i].dense \in 1 .. Len(slots)
        BY <1>2, <1>3, EntryFacts DEF Invalid
      <4>2. QED
        BY <1>3, <4>1
    <3>2. sparse[i] = [dense |-> sparse[i].dense, version |-> sparse[i].version]
      BY <1>3 DEF Entry
    <3>3. QED
      BY <1>3, <3>1, <3>2
  <2>2. QED
    BY <1>3, <2>1
<1>7. \A l \in DOMAIN hot : hot[l] # None => hot[l].key \in Handles /\ Line(hot[l].key) = l
  BY <1>1 DEF HotOK
<1>8. SetTypeOK
  BY <1>1, <1>3, <1>5, <1>6, <1>7 DEF SetTypeOK, FreshOK
<1>9. TypeOK
  BY <1>1, <1>8 DEF TypeOK, EntityOK, MaskOK, Present
<1>10. MaskAgrees
  <2>1. ASSUME NEW e \in Handles PROVE (IsAlive(e) /\ e.id \in mask) <=> Holds(e)
    <3>1. e.id \in Ids
      BY HandleFacts
    <3>2. e.id \in mask <=> sparse[e.id].dense # Invalid
      BY <1>1, <3>1 DEF MaskOK, Present
    <3>3. e.id \in mask => e.id \in alive /\ sparse[e.id].version = version[e.id]
      BY <1>1 DEF MaskOK
    <3>4. QED
      BY <3>2, <3>3 DEF IsAlive, Holds
  <2>2. QED
    BY <2>1 DEF MaskAgrees
<1>11. HotAgrees
  BY <1>1, LookupIs, HandlesNamed DEF HotAgrees
<1>12. EntriesAgree
  BY <1>2, <1>4, EntryFacts DEF EntriesAgree, Owner
<1>13. TombstonesKnown
  <2>1. ASSUME NEW k \in Tombstones PROVE k \in Range(free)
    <3>1. k \in DOMAIN slots /\ sparse[slots[k].id].dense # k
      BY DEF Tombstones, IsLive
    <3>2. QED
      BY <1>2, <3>1, SlotFacts DEF Range
  <2>2. QED
    BY <2>1 DEF TombstonesKnown
<1>14. QED
  BY <1>9, <1>10, <1>11, <1>12, <1>13 DEF RecordsAgree

(* Where the application is disciplined, mask, cache, entries, slots and   *)
(* the list of free slots agree after every call of the manager, of a      *)
(* walk's callback, of an observer and of a flush.                         *)
THEOREM RecordsAlwaysAgree == EcsSpec => [](plan.disciplined => RecordsAgree)
<1>1. IInv => (plan.disciplined => RecordsAgree)
  BY RecordsFrom
<1>2. QED
  BY <1>1, InductiveInvariant, PTL

(* Where the application is disciplined, a walk whose callback strays from *)
(* no entity but the visited one has, when it ends, visited everybody that *)
(* kept the component exactly once: for_each_safe.                         *)
THEOREM WalksVisitAll == EcsSpec => [](plan.disciplined => WalkVisitsAll)
<1>1. IInv => (plan.disciplined => WalkVisitsAll)
  BY DEF IInv, Facts, WalkOK, WalkVisitsAll
<1>2. QED
  BY <1>1, InductiveInvariant, PTL

(* An observer that need not look again hands out each entity with both    *)
(* components once, with the slots they are in.                            *)
THEOREM ViewsExact == EcsSpec => [](plan.disciplined => ViewExact)
<1>1. IInv => (plan.disciplined => ViewExact)
  BY ShownExact DEF IInv, Facts
<1>2. QED
  BY <1>1, InductiveInvariant, PTL

LEMMA PlaceholdersFrom ==
    ASSUME IInv
    PROVE  PlaceholdersExact
<1>1. BornOK /\ CommandsOK
  BY DEF IInv
<1>2. CommandTypeOK
  BY <1>1 DEF BornOK, CommandsOK, CommandTypeOK
<1>3. ASSUME NEW d \in DOMAIN born
      PROVE  Resolve(d) = IF d.buffer = bufferId /\ born[d] # None /\ IsAlive(born[d])
                          THEN born[d] ELSE None
  <2>1. d.buffer = bufferId => born[d] = Resolved(d.local)
    BY <1>1, <1>3, DeferredFacts
  <2>2. QED
    BY <2>1 DEF Resolve, Resolved
<1>4. QED
  BY <1>2, <1>3 DEF PlaceholdersExact

(* A placeholder of the command buffer stands for the entity created for   *)
(* it while that entity lives and the buffer has not been cleared since,   *)
(* and for nothing otherwise, disciplined or not.                          *)
THEOREM PlaceholdersAlwaysExact == EcsSpec => []PlaceholdersExact
<1>1. IInv => PlaceholdersExact
  BY PlaceholdersFrom
<1>2. QED
  BY <1>1, InductiveInvariant, PTL

-----------------------------------------------------------------------------
(* The promise *)

AllAlive == {e \in Handles : IsAlive(e)}
AllIssued == {e \in Handles : IsAlive(e) \/ e.version < version[e.id]}
AllHeld == [e \in Handles |-> Held(e)]

LEMMA AliveIs ==
    ASSUME NEW e \in Handles
    PROVE  /\ e \in AllAlive <=> e.id \in alive /\ e.version = version[e.id]
           /\ e \in AllIssued <=> (e.id \in alive /\ e.version = version[e.id]) \/ e.version < version[e.id]
BY DEF AllAlive, AllIssued, IsAlive

LEMMA HeldNext == HotOK' => (\A e \in Handles : Held(e) = Comp(e))'
<1>1. HotOK => \A e \in Handles : Held(e) = Comp(e)
  BY HeldIs
<1>2. QED
  BY <1>1, PTL

LEMMA HeldChanges ==
    ASSUME HotOK'
    PROVE  \A e \in Handles : Held(e)' = Comp(e)'
BY HeldNext

(* The steps, one effect after the other. *)
LEMMA InitPromise == EcsInit => Promise!Init
<1> SUFFICES ASSUME EcsInit PROVE Promise!Init
  OBVIOUS
<1>1. alive = {} /\ \A i \in Ids : version[i] = 1
  BY DEF EcsInit, Init, EntityInit
<1>2. \A e \in Handles : e.id \notin alive /\ ~ e.version < version[e.id]
  BY <1>1, HandleFacts
<1>3. {e \in Handles : IsAlive(e)} = {} /\ {e \in Handles : IsAlive(e) \/ e.version < version[e.id]} = {}
  BY <1>2 DEF IsAlive
<1>4. sparse = [i \in Ids |-> Gone] /\ hot = Cold
  BY DEF EcsInit, Init, SetInit
<1>5. HotOK
  BY <1>4 DEF HotOK, Cold
<1>6. ASSUME NEW e \in Handles PROVE Held(e) = Nothing
  <2>1. e.id \in Ids /\ sparse[e.id].dense = Invalid
    BY <1>4, HandleFacts DEF Gone
  <2>2. QED
    BY <1>5, <2>1, HeldIs DEF Comp, Holds
<1>7. [e \in Handles |-> Held(e)] = [h \in Handles |-> Nothing]
  BY <1>6
<1>8. QED
  BY <1>3, <1>7 DEF Promise!Init

LEMMA SameHandlesPromise ==
    ASSUME SameHandles
    PROVE  AllAlive' = AllAlive /\ AllIssued' = AllIssued
BY DEF SameHandles, AllAlive, AllIssued, IsAlive

LEMMA CreatePromise ==
    ASSUME EntityOK, HotOK, HotOK', CreateEffect
    PROVE  \E h \in Handles : Promise!Create(h)
<1>1. PICK i \in Ids : i \notin alive /\ alive' = alive \cup {i}
  BY DEF CreateEffect
<1>2. version' = version /\ version \in [Ids -> 1 .. MaxVersion] /\ \A f \in Handles : Comp(f)' = Comp(f)
  BY EntityTypes DEF CreateEffect
<1>3. PICK h \in Handles : h.id = i /\ h.version = version[i]
  <2>1. [id |-> i, version |-> version[i]] \in Handles
    BY <1>2 DEF Handles
  <2>2. QED
    BY <2>1
<1>4. ~ h.version < version[i]
  BY <1>3, HandleFacts
<1>5. h \notin AllIssued
  BY <1>1, <1>3, <1>4 DEF AllIssued, IsAlive
<1>6. \A f \in Handles : f.id = i /\ f.version = version[i] <=> f = h
  BY <1>3, HandleFacts
<1>7. AllAlive' = AllAlive \cup {h} /\ AllIssued' = AllIssued \cup {h}
  <2>1. ASSUME NEW f \in Handles
        PROVE  (f.id \in alive' /\ f.version = version'[f.id]) <=> (f.id \in alive /\ f.version = version[f.id]) \/ f = h
    BY <1>1, <1>2, <1>6
  <2>2. QED
    BY <1>2, <2>1 DEF AllAlive, AllIssued, IsAlive
<1>8. AllHeld' = AllHeld
  BY <1>2, HeldIs, HeldChanges DEF AllHeld
<1>9. QED
  BY <1>5, <1>7, <1>8 DEF Promise!Create, AllAlive, AllIssued, AllHeld

LEMMA DeletePromise ==
    ASSUME EntityOK, HotOK, HotOK', NEW e \in Handles, DeleteEffect(e)
    PROVE  Promise!Delete(e)
<1>1. /\ e.id \in alive /\ e.version = version[e.id] /\ alive' = alive \ {e.id}
      /\ version'[e.id] = version[e.id] + 1 /\ \A i \in Ids : i # e.id => version'[i] = version[i]
      /\ \A f \in Handles : Comp(f)' = IF f = e THEN Nothing ELSE Comp(f)
  BY DEF DeleteEffect, IsAlive
<1>2. e \in AllAlive
  BY <1>1 DEF AllAlive, IsAlive
<1>3. ASSUME NEW f \in Handles
      PROVE  /\ (f.id \in alive' /\ f.version = version'[f.id])
                   <=> (f.id \in alive /\ f.version = version[f.id]) /\ f # e
             /\ (f.id \in alive' /\ f.version = version'[f.id]) \/ f.version < version'[f.id]
                   <=> (f.id \in alive /\ f.version = version[f.id]) \/ f.version < version[f.id]
  <2>1. f.id \in Ids /\ f.version \in Nat /\ version[e.id] \in Nat
    BY HandleFacts, EntityTypes, MaxVersionAssumption
  <2>2. CASE f.id # e.id
    BY <1>1, <2>1, <2>2
  <2>3. CASE f.id = e.id
    <3>1. f.version = version[e.id] <=> f = e
      BY <1>1, <2>3, HandleFacts
    <3>2. f.version < version[e.id] + 1 <=> f.version = version[e.id] \/ f.version < version[e.id]
      BY <2>1
    <3>3. f.id \notin alive' /\ f.id \in alive /\ version'[f.id] = version[e.id] + 1 /\ version[f.id] = version[e.id]
      BY <1>1, <2>3
    <3>4. QED
      BY <3>1, <3>2, <3>3
  <2>4. QED
    BY <2>2, <2>3
<1>4. AllAlive' = AllAlive \ {e}
  BY <1>3 DEF AllAlive, IsAlive
<1>5. AllIssued' = AllIssued
  BY <1>3 DEF AllIssued, IsAlive
<1>6. AllHeld' = [AllHeld EXCEPT ![e] = Nothing]
  BY <1>1, HeldIs, HeldChanges DEF AllHeld
<1>7. QED
  BY <1>2, <1>4, <1>5, <1>6 DEF Promise!Delete, AllAlive, AllIssued, AllHeld

LEMMA EffectPromise ==
    ASSUME EntityOK, HotOK, HotOK', Effect
    PROVE  Promise!Next \/ UNCHANGED Promise!vars
<1>1. CASE NoEffect
  <2>1. AllAlive' = AllAlive /\ AllIssued' = AllIssued
    BY <1>1, SameHandlesPromise DEF NoEffect
  <2>2. AllHeld' = AllHeld
    BY <1>1, HeldIs, HeldChanges DEF AllHeld, NoEffect
  <2>3. QED
    BY <2>1, <2>2 DEF Promise!vars, AllAlive, AllIssued, AllHeld
<1>2. CASE CreateEffect
  BY <1>2, CreatePromise DEF Promise!Next
<1>3. CASE ClearEffect
  <2>1. AllAlive' = AllAlive /\ AllIssued' = AllIssued
    BY <1>3, SameHandlesPromise DEF ClearEffect
  <2>2. AllHeld' = [h \in Handles |-> Nothing]
    BY <1>3, HeldChanges DEF AllHeld, ClearEffect
  <2>3. Promise!Clear
    BY <2>1, <2>2 DEF Promise!Clear, AllAlive, AllIssued, AllHeld
  <2>4. QED
    BY <2>3 DEF Promise!Next
<1>4. ASSUME NEW e \in Handles, DeleteEffect(e) PROVE Promise!Next
  BY <1>4, DeletePromise DEF Promise!Next
<1>5. ASSUME NEW e \in Handles, RemoveEffect(e) PROVE Promise!Next
  <2>1. AllAlive' = AllAlive /\ AllIssued' = AllIssued
    BY <1>5, SameHandlesPromise DEF RemoveEffect
  <2>2. AllHeld' = [AllHeld EXCEPT ![e] = Nothing]
    BY <1>5, HeldIs, HeldChanges DEF AllHeld, RemoveEffect
  <2>3. Promise!Remove(e)
    BY <2>1, <2>2 DEF Promise!Remove, AllAlive, AllIssued, AllHeld
  <2>4. QED
    BY <2>3 DEF Promise!Next
<1>6. ASSUME NEW e \in Handles, NEW v \in Values, AddEffect(e, v) PROVE Promise!Next
  <2>1. AllAlive' = AllAlive /\ AllIssued' = AllIssued /\ e \in AllAlive
    BY <1>6, SameHandlesPromise DEF AddEffect, AllAlive
  <2>2. AllHeld' = [AllHeld EXCEPT ![e] = v]
    BY <1>6, HeldIs, HeldChanges DEF AllHeld, AddEffect
  <2>3. Promise!Add(e, v)
    BY <2>1, <2>2 DEF Promise!Add, AllAlive, AllIssued, AllHeld
  <2>4. QED
    BY <2>3 DEF Promise!Next
<1>7. QED
  BY <1>1, <1>2, <1>3, <1>4, <1>5, <1>6 DEF Effect

(* Every step of a disciplined application has one of the effects. *)
LEMMA StepHasEffect ==
    ASSUME IInv, plan.disciplined, [EcsNext]_ecsVars
    PROVE  EntityOK /\ HotOK /\ HotOK' /\ Effect
<1>1. plan \in Plans /\ EntityOK /\ BornOK /\ CommandsOK /\ Facts /\ HotOK
  BY DEF IInv, Facts
<1>2. CASE EcsNext
  <2>1. Kept
    BY <1>1, <1>2, EcsSteps
  <2>2. QED
    BY <1>1, <2>1 DEF Kept, Facts
<1>3. CASE UNCHANGED ecsVars
  <2>1. UNCHANGED allVars
    BY <1>3 DEF ecsVars
  <2>2. Kept
    BY <1>1, <2>1, AllStays
  <2>3. QED
    BY <1>1, <2>2 DEF Kept, Facts
<1>4. QED
  BY <1>2, <1>3

LEMMA EffectRevivesNobody ==
    ASSUME HotOK, HotOK', Effect, NEW e \in Handles, NEW f \in Handles,
           Held(e) # Nothing, Held(e)' = Nothing, f # e
    PROVE  Held(f)' \in {Held(f), Nothing}
<1>1. /\ Held(e) = Comp(e) /\ Held(f) = Comp(f)
      /\ Held(e)' = Comp(e)' /\ Held(f)' = Comp(f)'
  BY HeldIs, HeldChanges
<1>2. Comp(e) # Nothing /\ Comp(e)' = Nothing
  BY <1>1
<1>3. CASE NoEffect \/ CreateEffect \/ ClearEffect
  BY <1>1, <1>2, <1>3 DEF NoEffect, CreateEffect, ClearEffect
<1>4. CASE \E h \in Handles : DeleteEffect(h) \/ RemoveEffect(h)
  BY <1>1, <1>2, <1>4 DEF DeleteEffect, RemoveEffect
<1>5. CASE \E h \in Handles, v \in Values : AddEffect(h, v)
  BY <1>1, <1>2, <1>5 DEF AddEffect
<1>6. QED
  BY <1>3, <1>4, <1>5 DEF Effect

(* Where every plan is disciplined, taking one entity's component away     *)
(* gives no other entity one: no tombstone that hard_remove moves comes to *)
(* life.  Without discipline one does.                                     *)
THEOREM NobodyRevives ==
    ASSUME \A p \in Plans : p.disciplined
    PROVE  EcsSpec => NoRevival
<1>1. IInv /\ [EcsNext]_ecsVars =>
        [\A e, f \in Handles :
            Held(e) # Nothing /\ Held(e)' = Nothing /\ f # e
               => Held(f)' \in {Held(f), Nothing}]_vars
  <2> SUFFICES ASSUME IInv, [EcsNext]_ecsVars
               PROVE  \A e, f \in Handles :
                         Held(e) # Nothing /\ Held(e)' = Nothing /\ f # e
                            => Held(f)' \in {Held(f), Nothing}
    OBVIOUS
  <2>1. plan.disciplined
    BY DEF IInv
  <2>2. HotOK /\ HotOK' /\ Effect
    BY <2>1, StepHasEffect
  <2>3. QED
    BY <2>2, EffectRevivesNobody
<1>2. QED
  BY <1>1, InductiveInvariant, PTL DEF EcsSpec, NoRevival

(* The detailed specification implements the abstract one: where every     *)
(* plan is disciplined, the manager, its masks, the slots with their       *)
(* tombstones and caches, the observers and the command buffer keep the    *)
(* promise of WorldSpec.                                                   *)
THEOREM ImplementsPromise ==
    ASSUME \A p \in Plans : p.disciplined
    PROVE  EcsSpec => KeepsPromise
<1>1. EcsInit => Promise!Init
  BY InitPromise
<1>2. IInv /\ [EcsNext]_ecsVars => [Promise!Next]_(Promise!vars)
  <2> SUFFICES ASSUME IInv, [EcsNext]_ecsVars
               PROVE  Promise!Next \/ UNCHANGED Promise!vars
    OBVIOUS
  <2>1. plan.disciplined
    BY DEF IInv
  <2>2. QED
    BY <2>1, StepHasEffect, EffectPromise
<1>3. QED
  BY <1>1, <1>2, InductiveInvariant, PTL DEF EcsSpec, KeepsPromise, Promise!Spec
=============================================================================
