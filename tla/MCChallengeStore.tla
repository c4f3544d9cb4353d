-------------------------- MODULE MCChallengeStore --------------------------
(***************************************************************************)
(* Instances of ChallengeStore for TLC.  The configurations differ in the  *)
(* number of stores, in the clock and in the backend they plug in.         *)
(***************************************************************************)
EXTENDS ChallengeStore, TLC

CONSTANTS i1, i2, t1, t2, n1, n2

TwoIds == {i1, i2}
OneId == {i1}
NoSeeds == {}
TwoThreads == {t1, t2}
OneStore == {n1}
TwoStores == {n1, n2}

Perms == Permutations(TwoIds) \cup Permutations(TwoThreads)
SharedPerms == Permutations(TwoThreads) \cup Permutations(TwoStores)
=============================================================================
