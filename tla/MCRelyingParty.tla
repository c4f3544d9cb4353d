--------------------------- MODULE MCRelyingParty ---------------------------
(* Instances of RelyingParty for TLC.  own and sub are origins of one RP ID *)
(* and only own is allowed, which the RP may write with its port; with two  *)
(* keys the devices are two users', with one key the second is a clone.     *)
EXTENDS RelyingParty, TLC

CONSTANTS c1, c2, c3, k1, k2, d1, d2, h1, h2

Own == [scheme |-> "https", host |-> "login", port |-> None]
Sub == [scheme |-> "https", host |-> "sub", port |-> None]

OnlyOwn == {Own}
WithPort == {[Own EXCEPT !.port = 443]}
OwnAndSub == {Own, Sub}
RpIds == [o \in {Own, Sub} |-> "rp"]
TwoChallenges == {c1, c2}
ThreeChallenges == {c1, c2, c3}
OneKey == {k1}
TwoKeys == {k1, k2}
TwoDevices == {d1, d2}
TwoUsers == [d \in TwoDevices |-> IF d = d1 THEN k1 ELSE k2]
Cloned == [d \in TwoDevices |-> k1]
OneHandler == {h1}
TwoHandlers == {h1, h2}

ChallengePerms == Permutations(TwoChallenges) \cup Permutations(TwoHandlers)
ClonePerms == Permutations(ThreeChallenges) \cup Permutations(TwoDevices)
=============================================================================
