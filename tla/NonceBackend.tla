---------------------------- MODULE NonceBackend ----------------------------
(***************************************************************************)
(* The NonceBackend protocol of src/passkit/challenge/store.py 44-54 as an *)
(* atomic object: each call takes effect in one step between its           *)
(* invocation and its return ("Atomically remove and return").             *)
(***************************************************************************)
EXTENDS Naturals, FiniteSets

CONSTANTS
    Ids,
    Threads,
    MaxNow,         \* clock readings a caller may pass are 0 .. MaxNow
    expires_at      \* expires_at[id] of the challenge with that id

VARIABLES
    items,      \* the challenges held
    phase,      \* phase[t]: "idle", "called" or "done"
    op,         \* op[t]: the call thread t is making
    result      \* result[t]: its return value, while it is "done"

vars == <<items, phase, op, result>>

is_expired(id, now) == now >= expires_at[id]

Times == 0 .. MaxNow

\* A call; the unused argument of put, purge and len is fixed.
SomeId == CHOOSE id \in Ids : TRUE
Ops == [name : {"put"}, id : Ids, now : {0}]
          \cup [name : {"take"}, id : Ids, now : Times]
          \cup [name : {"purge"}, id : {SomeId}, now : Times]
          \cup [name : {"len"}, id : {SomeId}, now : {0}]

Results == [taken : SUBSET Ids, count : Nat]
Nothing == [taken |-> {}, count |-> 0]

\* What a call does to a set of held challenges, and what it answers.
Expired(held, now) == {id \in held : is_expired(id, now)}

Effect(o, held) ==
    CASE o.name = "put"   -> held \cup {o.id}
      [] o.name = "take"  -> held \ {o.id}
      [] o.name = "purge" -> held \ Expired(held, o.now)
      [] o.name = "len"   -> held

Reply(o, held) ==
    CASE o.name = "put"   -> Nothing
      [] o.name = "take"  ->
           [taken |-> {id \in held \cap {o.id} : ~is_expired(id, o.now)},
            count |-> 0]
      [] o.name = "purge" ->
           [taken |-> {}, count |-> Cardinality(Expired(held, o.now))]
      [] o.name = "len"   -> [taken |-> {}, count |-> Cardinality(held)]

Init ==
    /\ items = {}
    /\ phase = [t \in Threads |-> "idle"]
    /\ op = [t \in Threads |-> [name |-> "len", id |-> SomeId, now |-> 0]]
    /\ result = [t \in Threads |-> Nothing]

Invoke(t, o) ==
    /\ phase[t] = "idle"
    /\ phase' = [phase EXCEPT ![t] = "called"]
    /\ op' = [op EXCEPT ![t] = o]
    /\ UNCHANGED <<items, result>>

Perform(t) ==
    /\ phase[t] = "called"
    /\ phase' = [phase EXCEPT ![t] = "done"]
    /\ items' = Effect(op[t], items)
    /\ result' = [result EXCEPT ![t] = Reply(op[t], items)]
    /\ UNCHANGED op

Return(t) ==
    /\ phase[t] = "done"
    /\ phase' = [phase EXCEPT ![t] = "idle"]
    /\ result' = [result EXCEPT ![t] = Nothing]
    /\ UNCHANGED <<items, op>>

Next ==
    \E t \in Threads : (\E o \in Ops : Invoke(t, o)) \/ Perform(t) \/ Return(t)

Spec == Init /\ [][Next]_vars
=============================================================================
