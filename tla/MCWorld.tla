------------------------------ MODULE MCWorld ------------------------------
(* Instances of Commands for TLC: what applications do with one component  *)
(* type of a few entities, or with two that an observer joins.             *)
EXTENDS Commands

Basic == {"create", "add"}

(* Entities come and go; nothing is removed softly. *)
Lives == [calls |-> Basic \cup {"reserve", "delete", "hard", "get", "clear"},
          values |-> {1, 2}, free |-> 3, disciplined |-> TRUE]

(* Components come and go in every way, and move. *)
Moves == [calls |-> Basic \cup {"hard", "soft", "compact", "sort", "swap", "clear", "get"},
          values |-> {1, 2}, free |-> 3, disciplined |-> TRUE]

(* Callbacks of a walk remove softly and hard, add and create. *)
Walks == [calls |-> Basic \cup {"hard", "soft", "walk"},
          values |-> {1}, free |-> 3, disciplined |-> TRUE]

(* Callbacks of a walk delete entities. *)
Culls == [calls |-> Basic \cup {"delete", "walk"}, values |-> {1}, free |-> 3, disciplined |-> TRUE]

(* Soft and hard removals as they come. *)
Loose == [calls |-> Basic \cup {"hard", "soft"}, values |-> {1, 2}, free |-> 3, disciplined |-> FALSE]

(* Two types are joined by an observer of each kind. *)
Joins(kind) == [calls |-> Basic \cup {"second", "soft", "hard", "compact", kind},
                values |-> {1}, free |-> 2, disciplined |-> TRUE]
Groups == [calls |-> Basic \cup {"second", "soft", "delete", "group"},
           values |-> {1}, free |-> 1, disciplined |-> TRUE]

(* Calls are recorded and made later, while others are made directly. *)
Defers == [calls |-> {"defer create", "defer add", "defer delete", "delete"},
           values |-> {1}, free |-> 1, disciplined |-> TRUE]
Strips == [calls |-> {"defer create", "defer add", "defer remove", "soft"},
           values |-> {1}, free |-> 2, disciplined |-> TRUE]

CarefulPlans == {Defers, Strips, Lives, Moves, Walks, Culls, Groups,
                 Joins("multi"), Joins("owning")}
LoosePlans == {Loose}
TwoValues == {1, 2}
=============================================================================
