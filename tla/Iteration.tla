----------------------------- MODULE Iteration -----------------------------
(***************************************************************************)
(* A loop or a recursion of the code, turn by turn: what it starts with in *)
(* a given context, and what one more turn makes of what there is.         *)
(* Iterate(context)[n] is the state after n turns.                         *)
(***************************************************************************)
EXTENDS Naturals

CONSTANTS
    Base(_),        \* the state before the first turn, from the context
    Step(_, _)      \* the next state, from the context and the state

Iterate(context) ==
    LET state[n \in Nat] == IF n = 0 THEN Base(context) ELSE Step(context, state[n - 1])
    IN  state
=============================================================================
