------------------------------- MODULE Scorer -------------------------------
(***************************************************************************)
(* src/passkit/zerotrust/scorer.py: score_event and _classify.  A signal   *)
(* input is a record; the clock values are whole seconds; the texts of     *)
(* details and caveats are left out.                                       *)
(***************************************************************************)
EXTENDS Integers

CONSTANT Unknown    \* Python's None

\* Python's round(n / d) for n >= 0: to the nearest, ties to the even integer.
RoundHalfEven(n, d) ==
    LET q == n \div d
        twice == 2 * (n % d)
    IN  IF twice < d \/ (twice = d /\ q % 2 = 0) THEN q ELSE q + 1

AtLeast(m, n) == IF n < m THEN m ELSE n
AtMost(m, n) == IF n > m THEN m ELSE n

Points(holds, n) == IF holds THEN n ELSE 0

GenerousHardwarePoints(sig) == IF sig.hardware_backed = TRUE THEN 25 ELSE 5

HardwarePoints(sig) ==
    IF sig.hardware_backed = TRUE THEN 20
    ELSE IF sig.hardware_backed = FALSE THEN 0
    ELSE 5

SwappedSignCountPoints(sig) ==
    IF ~sig.sign_count_ok THEN -10
    ELSE IF sig.sign_count_observed THEN 5
    ELSE 10

SignCountPoints(sig) ==
    IF ~sig.sign_count_ok THEN -10
    ELSE IF sig.sign_count_observed THEN 10
    ELSE 5

\* Linear in the age of the challenge, 2 at the end of its life, then 0.
FreshnessPoints(sig) ==
    LET f == sig.freshness_seconds
        max == sig.max_freshness_seconds
    IN  IF f = Unknown THEN 5
        ELSE IF f < 0 \/ f > max THEN 0
        ELSE IF max = 0 THEN 10     \* 1 - 0 / 1e-9
        ELSE AtLeast(2, RoundHalfEven(10 * (max - f), max))

\* The breakdown: points of each named signal.
Breakdown(sig) ==
    [user_present |-> Points(sig.user_present, 10),
     phishing_resistant |-> Points(sig.phishing_resistant, 30),
     user_verified |-> Points(sig.user_verified, 20),
     hardware_backed |-> HardwarePoints(sig),
     sign_count |-> SignCountPoints(sig),
     freshness |-> FreshnessPoints(sig)]

MaxPoints ==
    [user_present |-> 10, phishing_resistant |-> 30, user_verified |-> 20,
     hardware_backed |-> 20, sign_count |-> 10, freshness |-> 10]

Total(b) == b.user_present + b.phishing_resistant + b.user_verified
               + b.hardware_backed + b.sign_count + b.freshness

BoundSignals(sig) == sig.phishing_resistant
AAL2Signals(sig) == sig.phishing_resistant /\ sig.user_verified
AAL3Signals(sig) ==
    AAL2Signals(sig) /\ sig.hardware_backed = TRUE /\ sig.sign_count_ok

_classify(sig, score) ==
    IF AAL3Signals(sig) /\ score >= 85 THEN 3
    ELSE IF AAL2Signals(sig) /\ score >= 60 THEN 2
    ELSE 1

score_event(sig) ==
    LET score == AtLeast(0, AtMost(100, Total(Breakdown(sig))))
    IN  [score |-> score, level |-> _classify(sig, score)]

=============================================================================
