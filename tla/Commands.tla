------------------------------ MODULE Commands ------------------------------
(***************************************************************************)
(* command_buffer, include/ecs/command/command_buffer.hpp: structural      *)
(* calls are recorded, on entities or on placeholders of entities that     *)
(* only the flush creates, and flush makes them in the order recorded.     *)
(*                                                                         *)
(* A flush is one call: nobody else makes one until its last command.  A   *)
(* command that fails changes nothing, and the flush goes on; the first    *)
(* failure is returned, which is left out.  Recording while a flush runs   *)
(* is not supported by the code.                                           *)
(***************************************************************************)
EXTENDS Views

CONSTANTS
    MaxCommands,    \* bound on the commands recorded at a time
    MaxDeferred,    \* bound on the placeholders of one buffer id
    MaxBuffers      \* bound on the buffer ids

ASSUME CommandAssumption ==
    MaxCommands \in Nat /\ MaxDeferred \in Nat /\ MaxBuffers \in Nat \ {0}

VARIABLES
    commands,   \* commands_ still to be made
    resolved,   \* resolved_: the entity created for each local id
    bufferId,   \* buffer_id_
    localId,    \* next_local_id_
    flushing,   \* flush is making the commands
    born        \* history: each placeholder given out, and its entity

commandVars == <<commands, resolved, bufferId, localId, flushing, born>>
ecsVars == <<allVars, commandVars>>

CommandInit ==
    /\ commands = <<>> /\ resolved = <<>>
    /\ bufferId = 1 /\ localId = 0
    /\ flushing = FALSE
    /\ born = <<>>

Deferred == [buffer : 1 .. MaxBuffers, local : 1 .. MaxDeferred]

(* The entity that the placeholder d stands for, while it lives. *)
Resolve(d) ==
    IF /\ d.buffer = bufferId
       /\ d.local \in DOMAIN resolved
       /\ resolved[d.local] # None
       /\ IsAlive(resolved[d.local])
    THEN resolved[d.local] ELSE None

Target(c) == IF c.target \in DOMAIN born THEN Resolve(c.target) ELSE c.target

-----------------------------------------------------------------------------
(* Recording *)

Command(op, target, v) == [op |-> op, target |-> target, value |-> v]

Record(c) ==
    /\ ~ flushing
    /\ MayCall /\ c.op \in plan.calls
    /\ Len(commands) < MaxCommands
    /\ commands' = Append(commands, c)

RecordCreate ==
    /\ localId < MaxDeferred
    /\ LET d == [buffer |-> bufferId, local |-> localId + 1]
       IN  /\ Record(Command("defer create", d, Nothing))
           /\ born' = [x \in DOMAIN born \cup {d} |-> IF x = d THEN None ELSE born[x]]
    /\ localId' = localId + 1
    /\ UNCHANGED <<allVars, resolved, bufferId, flushing>>

RecordOther ==
    /\ \E t \in {e \in Handles : IsAlive(e)} \cup DOMAIN born :
          \/ \E v \in plan.values : Record(Command("defer add", t, v))
          \/ \E op \in {"defer remove", "defer delete"} : Record(Command(op, t, Nothing))
    /\ UNCHANGED <<allVars, resolved, bufferId, localId, flushing, born>>

(* variant: the cleared buffer goes on under its old id *)
ClearBufferSameId ==
    /\ ~ flushing
    /\ "defer create" \in plan.calls /\ bufferId < MaxBuffers
    /\ commands' = <<>> /\ resolved' = <<>>
    /\ localId' = 0
    /\ UNCHANGED <<allVars, bufferId, flushing, born>>

(* Placeholders given out so far stand for nothing any more. *)
ClearBuffer ==
    /\ ~ flushing
    /\ "defer create" \in plan.calls /\ bufferId < MaxBuffers
    /\ commands' = <<>> /\ resolved' = <<>>
    /\ localId' = 0
    /\ bufferId' = bufferId + 1
    /\ UNCHANGED <<allVars, flushing, born>>

-----------------------------------------------------------------------------
(* Flush *)

Recorded(op) == Cardinality({n \in DOMAIN commands : commands[n].op = op})

(* No index outgrows the bound on versions, nor the tombstones theirs; and *)
(* with discipline no flush deletes while there are tombstones.            *)
Flush ==
    /\ ~ flushing /\ commands # <<>>
    /\ MayCall
    /\ \A i \in Ids : version[i] + Recorded("defer delete") <= MaxVersion
    /\ Len(free) + Recorded("defer remove") <= plan.free
    /\ plan.disciplined /\ Recorded("defer delete") > 0
          => Tombstones = {} /\ Recorded("defer remove") = 0
    /\ flushing' = TRUE
    /\ UNCHANGED <<allVars, commands, resolved, bufferId, localId, born>>

NoIdLeft == reserve = <<>> /\ recycled = <<>> /\ nextId = MaxId

Stored(d, e) ==
    [n \in 1 .. Max({Len(resolved), d.local}) |->
        IF n = d.local THEN e ELSE IF n <= Len(resolved) THEN resolved[n] ELSE None]

(* apply_create: the entity is the one that was not alive before. *)
ApplyCreate(d) ==
    /\ ~ NoIdLeft
    /\ Create /\ KeepRows /\ UNCHANGED second
    /\ LET i == CHOOSE n \in Ids : n \in alive' \ alive
           e == [id |-> i, version |-> version[i]]
       IN  /\ resolved' = Stored(d, e)
           /\ born' = [born EXCEPT ![d] = e]

ApplyOther(c) ==
    /\ LET e == Target(c)
       IN  CASE e = None \/ ~ IsAlive(e) -> UNCHANGED allVars
             [] OTHER ->
                  CASE c.op = "defer add" -> Add(e, c.value) /\ KeepRows /\ UNCHANGED second
                    [] c.op = "defer remove" /\ Holds(e) ->
                          RemoveSoft(e) /\ KeepRows /\ UNCHANGED second
                    [] c.op = "defer delete" -> DeleteBoth(e)
                    [] OTHER -> UNCHANGED allVars
    /\ UNCHANGED <<resolved, born>>

Apply ==
    /\ flushing
    /\ LET c == Head(commands)
       IN  IF c.op # "defer create" THEN ApplyOther(c)
           ELSE ApplyCreate(c.target)
                \/ (NoIdLeft /\ UNCHANGED <<allVars, resolved, born>>)
    /\ commands' = Tail(commands)
    /\ flushing' = (Len(commands) > 1)
    /\ UNCHANGED <<bufferId, localId>>

CommandNext == RecordCreate \/ RecordOther \/ ClearBuffer \/ Flush \/ Apply

EcsNext == (~ flushing /\ ViewNext /\ UNCHANGED commandVars) \/ CommandNext

EcsInit == Init /\ ViewInit /\ CommandInit

EcsSpec == EcsInit /\ [][EcsNext]_ecsVars

-----------------------------------------------------------------------------

CommandTypeOK ==
    /\ Len(commands) <= MaxCommands
    /\ resolved \in Seq(Handles \cup {None})
    /\ bufferId \in 1 .. MaxBuffers /\ localId \in 0 .. MaxDeferred
    /\ DOMAIN born \subseteq Deferred
    /\ flushing => commands # <<>>

(* A placeholder stands for the entity created for it, while that entity   *)
(* lives and the buffer has not been cleared since, and for nothing        *)
(* otherwise: not for an entity that has taken over its index or number.   *)
PlaceholdersExact ==
    /\ CommandTypeOK
    /\ \A d \in DOMAIN born :
          Resolve(d) = IF d.buffer = bufferId /\ born[d] # None /\ IsAlive(born[d])
                       THEN born[d] ELSE None
=============================================================================
