----------------------- MODULE MCInMemoryNonceBackend -----------------------
(* Instance of InMemoryNonceBackend for TLC: one challenge expires at time  *)
(* 1, the other outlives every clock reading.                               *)
EXTENDS InMemoryNonceBackend

CONSTANTS a, b, t1, t2

TwoIds == {a, b}
TwoThreads == {t1, t2}
Deadlines == [id \in TwoIds |-> IF id = a THEN 1 ELSE 2]
=============================================================================
