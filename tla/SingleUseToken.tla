--------------------------- MODULE SingleUseToken ---------------------------
(***************************************************************************)
(* What the challenge component promises, without threads, backends or a   *)
(* clock: a token is issued at most once, a live token can be used once or *)
(* can lapse, and a dead token stays dead.  README.md of the repository:   *)
(* "single-use challenges".                                                *)
(***************************************************************************)
EXTENDS Naturals

CONSTANT Ids

VARIABLES
    fate,   \* fate[id]: "unissued", "live" or "dead"
    uses    \* uses[id]: how many callers were told that id is good

vars == <<fate, uses>>

TypeOK ==
    /\ fate \in [Ids -> {"unissued", "live", "dead"}]
    /\ uses \in [Ids -> Nat]

\* Tokens may be live from the start: a shared backend outlives the nodes.
Init ==
    /\ fate \in [Ids -> {"unissued", "live"}]
    /\ uses = [id \in Ids |-> 0]

Issue(id) ==
    /\ fate[id] = "unissued"
    /\ fate' = [fate EXCEPT ![id] = "live"]
    /\ UNCHANGED uses

Use(id) ==
    /\ fate[id] = "live"
    /\ fate' = [fate EXCEPT ![id] = "dead"]
    /\ uses' = [uses EXCEPT ![id] = @ + 1]

\* Expiry, reaping, and the loss of a process with all it held.
Lapse(S) ==
    /\ \A id \in S : fate[id] = "live"
    /\ fate' = [id \in Ids |-> IF id \in S THEN "dead" ELSE fate[id]]
    /\ UNCHANGED uses

Next ==
    \/ \E id \in Ids : Issue(id) \/ Use(id)
    \/ \E S \in SUBSET Ids : Lapse(S)

Spec == Init /\ [][Next]_vars
=============================================================================
