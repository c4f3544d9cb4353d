--------------------------- MODULE DecisionProofs ---------------------------
(***************************************************************************)
(* Theorems about policy-check for every policy file and every event: what *)
(* is read, scored and decided belongs together, and what that implies for *)
(* the properties of Decision.                                             *)
(***************************************************************************)
EXTENDS Decision, TLAPS

InCases == \E c \in Cases : document = c.document /\ event = c.event

Stages == {"start", "loaded", "read", "scored", "decided", "failed"}

\* At each stage the variables hold what the calls made so far returned.
IInv ==
    /\ InCases
    /\ stage \in Stages
    /\ stage \in {"loaded", "read", "scored", "decided"} =>
          Raised(document) = {} /\ policy = load_policy(document)
    /\ stage \in {"read", "scored", "decided"} => event.form = "object"
    /\ stage \in {"start", "loaded", "read"} => assurance = Unknown
    /\ assurance # Unknown \/ stage \in {"scored", "decided"} =>
          /\ event.form = "object"
          /\ signals # Other
          /\ assurance = IF signals = Unknown THEN Unknown
                         ELSE Scorer!score_event(signals)
    /\ stage = "decided" =>
          /\ ~EvaluateRaises(policy, facts)
          /\ allow <=> evaluate_policy(policy, Event(facts, assurance))
    /\ stage # "decided" => ~allow

\* The invariant holds initially.
LEMMA InitIInv == Init => IInv
BY CasesAssumption DEF Init, IInv, InCases, Stages, allow

\* What is raised ends the command with another code than 0, and nothing else.
LEMMA FailIInv ==
    ASSUME IInv, NEW errors, Fail(errors), stage # "decided"
    PROVE  IInv'
<1>1. exit' # 0 /\ stage' = "failed"
  BY DEF Fail, ExitCode
<1>2. UNCHANGED <<document, event, policy, assurance>>
  BY DEF Fail
<1>3. InCases'
  BY <1>2 DEF IInv, InCases
<1>4. signals' = signals
  BY <1>2 DEF signals
<1> QED
  BY <1>1, <1>2, <1>3, <1>4 DEF IInv, Stages, allow

\* Every step preserves the invariant.
LEMMA NextIInv == IInv /\ [Next]_vars => IInv'
<1> SUFFICES ASSUME IInv, [Next]_vars PROVE IInv'
  OBVIOUS
<1>1. CASE LoadFails \/ ReadFails \/ ScoreFails \/ EvaluateFails
  BY <1>1, FailIInv DEF LoadFails, ReadFails, ScoreFails, EvaluateFails
<1>2. CASE Load
  BY <1>2 DEF IInv, InCases, Stages, Load, signals, allow
<1>3. CASE ReadEvent
  <2>1. event.form = "object"
    BY <1>3, CasesAssumption DEF IInv, InCases, ReadEvent, ReadErrors
  <2> QED
    BY <1>3, <2>1 DEF IInv, InCases, Stages, ReadEvent, signals, allow
<1>4. CASE Score
  BY <1>4 DEF IInv, InCases, Stages, Score, signals, allow
<1>5. CASE Evaluate
  <2>1. /\ stage' = "decided" /\ ~EvaluateRaises(policy, facts)
        /\ exit' = IF evaluate_policy(policy, Event(facts, assurance)) THEN 0 ELSE 1
        /\ UNCHANGED <<document, event, policy, assurance>>
    BY <1>5 DEF Evaluate
  <2>2. facts' = facts /\ signals' = signals
    BY <2>1 DEF facts, signals
  <2>3. ~EvaluateRaises(policy, facts)'
    BY <2>1, <2>2 DEF EvaluateRaises
  <2>4. (allow <=> evaluate_policy(policy, Event(facts, assurance)))'
    BY <2>1, <2>2 DEF allow
  <2>5. InCases'
    BY <2>1 DEF IInv, InCases
  <2> QED
    BY <1>5, <2>1, <2>2, <2>3, <2>4, <2>5 DEF IInv, Stages, Evaluate
<1>6. CASE UNCHANGED vars
  BY <1>6 DEF vars, IInv, InCases, facts, signals, allow
<1> QED
  BY <1>1, <1>2, <1>3, <1>4, <1>5, <1>6 DEF Next

\* The invariant holds of every reachable state.
THEOREM Invariance == Spec => []IInv
BY InitIInv, NextIInv, PTL DEF Spec

-----------------------------------------------------------------------------
\* The fields of an event are its facts and its assurance.
LEMMA EventFields ==
    ASSUME NEW f, NEW a, FactNames \subseteq DOMAIN f
    PROVE  LET e == Event(f, a) IN
           /\ e.assurance = a
           /\ e.phishing_resistant = f.phishing_resistant
           /\ e.user_verified = f.user_verified
           /\ e.hardware_backed = f.hardware_backed
           /\ e.origin = f.origin
           /\ e.aaguid = f.aaguid
           /\ e.attestation_format = f.attestation_format
BY DEF Event, FactNames

\* An event is allowed if and only if no constraint denies it.
LEMMA AllowedIff ==
    ASSUME NEW p, NEW e
    PROVE  evaluate_policy(p, e) <=>
              /\ ~(p.require_phishing_resistant /\ ~e.phishing_resistant)
              /\ ~(p.require_user_verification /\ ~e.user_verified)
              /\ ~(p.require_hardware_backed /\ e.hardware_backed # TRUE)
              /\ ~OriginDenied(p, e)
              /\ ~AaguidDenied(p, e.aaguid)
              /\ ~AaguidNotAllowed(p, e.aaguid)
              /\ ~FormatDenied(p, e)
              /\ ~AssuranceDenied(p, e.assurance)
BY DEF evaluate_policy, Denials, DeniedIf

\* A decided event has all its facts, and its signals, if any, their types.
LEMMA DecidedFacts ==
    ASSUME IInv, Decided
    PROVE  /\ FactNames \subseteq DOMAIN facts
           /\ facts.aaguid # Unknown => normalize_aaguid(facts.aaguid) # Unknown
BY CasesAssumption DEF IInv, InCases, Decided, facts
-----------------------------------------------------------------------------
\* What a file that loads has said of its levels: a number in range.
LEMMA NoErrors ==
    ASSUME NEW d, d.form \in Forms, Raised(d) = {}
    PROVE  /\ d.form \in {"object", "text"}
           /\ DOMAIN d.fields \subseteq DOMAIN Defaults
           /\ Stated(d.fields).min_aal \in 1 .. 3
           /\ Stated(d.fields).min_assurance \in 0 .. 100
<1>1. d.form \in {"object", "text"} /\ FieldErrors(d.fields) = {}
  BY DEF Raised, Forms
<1> DEFINE unknown == UnknownFields(d.fields)
           aal == OutOfRange(Stated(d.fields).min_aal, 1 .. 3)
<1> HIDE DEF unknown, aal
<1>2. FieldErrors(d.fields) =
         CASE NumberKey \in unknown /\ unknown # {NumberKey} -> {"TypeError"}
           [] unknown # {} /\ (NumberKey \notin unknown \/ unknown = {NumberKey})
                 -> {"PolicyError"}
           [] unknown = {} /\ aal # {} -> aal
           [] OTHER -> OutOfRange(Stated(d.fields).min_assurance, 0 .. 100)
  BY DEF FieldErrors, unknown, aal
<1>3. unknown = {}
  BY <1>1, <1>2
<1>4. aal = {} /\ OutOfRange(Stated(d.fields).min_assurance, 0 .. 100) = {}
  BY <1>1, <1>2, <1>3
<1> QED
  BY <1>1, <1>3, <1>4 DEF unknown, aal, UnknownFields, OutOfRange

\* The Policy of a file: switches by truth value, lists by members.
LEMMA LoadedPolicy ==
    ASSUME NEW d
    PROVE  LET p == load_policy(d)
               s == Stated(d.fields)
           IN  /\ p.require_phishing_resistant = Truth(s.require_phishing_resistant)
               /\ p.require_user_verification = Truth(s.require_user_verification)
               /\ p.require_hardware_backed = Truth(s.require_hardware_backed)
               /\ p.allowed_origins = Members("allowed_origins", s.allowed_origins)
               /\ p.allowed_aaguids = Members("allowed_aaguids", s.allowed_aaguids)
               /\ p.denied_aaguids = Members("denied_aaguids", s.denied_aaguids)
               /\ p.allowed_formats = Members("allowed_formats", s.allowed_formats)
               /\ p.min_aal = s.min_aal
               /\ p.min_assurance = s.min_assurance
BY DEF load_policy, Switches, Lists, Defaults

\* A level above 1 is given only to bound signals of a verified user, level 3
\* only with hardware and without a clone warning (scorer.py 180-190).
LEMMA LevelOf ==
    ASSUME NEW sig, NEW n
    PROVE  LET level == Scorer!_classify(sig, n) IN
           /\ level \in 1 .. 3
           /\ level > 1 => sig.phishing_resistant /\ sig.user_verified
           /\ level > 2 => sig.hardware_backed = TRUE /\ sig.sign_count_ok
BY DEF Scorer!_classify, Scorer!AAL2Signals, Scorer!AAL3Signals

\* What is decided was loaded from a file without errors.
LEMMA DecidedPolicy ==
    ASSUME IInv, Decided
    PROVE  /\ document.form \in Forms
           /\ Raised(document) = {}
           /\ policy = load_policy(document)
BY CasesAssumption DEF IInv, InCases, Decided

\* Its minima are in range.
LEMMA PolicyMinima ==
    ASSUME IInv, Decided
    PROVE  policy.min_aal \in 1 .. 3 /\ policy.min_assurance \in 0 .. 100
<1>1. /\ Stated(document.fields).min_aal \in 1 .. 3
      /\ Stated(document.fields).min_assurance \in 0 .. 100
  BY DecidedPolicy, NoErrors
<1>2. /\ policy.min_aal = Stated(document.fields).min_aal
      /\ policy.min_assurance = Stated(document.fields).min_assurance
  BY DecidedPolicy, LoadedPolicy
<1> QED
  BY <1>1, <1>2

\* A policy that asks for AAL2 or AAL3 admits only signals that show what these
\* levels stand for, for every policy file and every event.
THEOREM LevelCarriesSignalsHolds == Spec => []LevelCarriesSignals
<1>1. IInv => LevelCarriesSignals
  <2> SUFFICES ASSUME IInv, Decided, allow, policy.min_aal > 1
               PROVE  /\ signals # Unknown
                      /\ signals.phishing_resistant /\ signals.user_verified
                      /\ policy.min_aal = 3 =>
                            signals.hardware_backed = TRUE /\ signals.sign_count_ok
    BY DEF LevelCarriesSignals
  <2>1. policy.min_aal \in 1 .. 3
    BY PolicyMinima
  <2>2. ~AssuranceDenied(policy, assurance)
    BY DecidedFacts, EventFields, AllowedIff, ZenonT(60) DEF IInv, Decided
  <2>3. assurance # Unknown /\ ~(assurance.level < policy.min_aal)
    BY <2>2 DEF AssuranceDenied
  <2>4. signals # Unknown /\ assurance = Scorer!score_event(signals)
    BY <2>3 DEF IInv
  <2>5. PICK n : assurance.level = Scorer!_classify(signals, n)
    BY <2>4 DEF Scorer!score_event
  <2> DEFINE level == Scorer!_classify(signals, n)
  <2>6. /\ level \in 1 .. 3
        /\ level > 1 => signals.phishing_resistant /\ signals.user_verified
        /\ level > 2 => signals.hardware_backed = TRUE /\ signals.sign_count_ok
    BY LevelOf
  <2> HIDE DEF level
  <2>7. level \in 1 .. 3 /\ ~(level < policy.min_aal)
    BY <2>3, <2>5, <2>6 DEF level
  <2>8. level > 1 /\ (policy.min_aal = 3 => level > 2)
    BY <2>1, <2>7
  <2> QED
    BY <2>4, <2>6, <2>8
<1> QED
  BY <1>1, Invariance, PTL

\* For every policy and event, registration and login deny the same
\* authenticators for the same reasons.
THEOREM AdmissionAgreesWithLoginHolds == Spec => []AdmissionAgreesWithLogin
<1>1. IInv => AdmissionAgreesWithLogin
  <2> SUFFICES ASSUME IInv, Decided, facts.attestation_format # Unknown
               PROVE  AttestationDenials(AsAttestationPolicy(policy), Registration(facts))
                        = Denials(policy, Event(facts, assurance))
                             \cap {"format", "aaguid", "user_verification"}
    BY DEF AdmissionAgreesWithLogin
  <2> DEFINE p == AsAttestationPolicy(policy)
             r == Registration(facts)
             e == Event(facts, assurance)
  <2>1. /\ p.allowed_aaguids = policy.allowed_aaguids
        /\ p.denied_aaguids = policy.denied_aaguids
        /\ p.allowed_formats = policy.allowed_formats
        /\ p.require_user_verification = policy.require_user_verification
        /\ r.fmt = facts.attestation_format
        /\ r.user_verified = facts.user_verified
    BY DEF AsAttestationPolicy, Registration
  <2>2. /\ e.aaguid = facts.aaguid
        /\ e.user_verified = facts.user_verified
        /\ e.attestation_format = facts.attestation_format
    BY DecidedFacts, EventFields
  <2>3. r.aaguid_hex = IF facts.aaguid = Unknown THEN Unknown
                       ELSE normalize_aaguid(facts.aaguid)
    BY DEF Registration
  <2>4. AttestationAaguidDenied(p, r.aaguid_hex)
           <=> AaguidDenied(policy, e.aaguid) \/ AaguidNotAllowed(policy, e.aaguid)
    BY <2>1, <2>2, <2>3, DecidedFacts
    DEF AttestationAaguidDenied, AaguidDenied, AaguidNotAllowed
  <2>5. (p.allowed_formats # Unknown /\ r.fmt \notin p.allowed_formats)
           <=> FormatDenied(policy, e)
    BY <2>1, <2>2 DEF FormatDenied
  <2> HIDE DEF p, r, e
  <2>6. AttestationDenials(p, r)
           = Denials(policy, e) \cap {"format", "aaguid", "user_verification"}
    BY <2>1, <2>2, <2>4, <2>5 DEF AttestationDenials, Denials, DeniedIf
  <2> QED
    BY <2>6 DEF p, r, e
<1> QED
  BY <1>1, Invariance, PTL
-----------------------------------------------------------------------------
\* A quotient of at most 10 rounds to at most 10.
LEMMA Rounded ==
    ASSUME NEW n \in Nat, NEW d \in Nat \ {0}, n <= 10 * d
    PROVE  Scorer!RoundHalfEven(n, d) \in 0 .. 10
<1> DEFINE q == n \div d
           r == n % d
<1>1. q \in Int /\ r \in 0 .. d - 1 /\ n = d * q + r
  OBVIOUS
<1> HIDE DEF q, r
<1>2. q >= 0
  BY <1>1
<1>3. q <= 10
  BY <1>1
<1>4. q = 10 => r = 0
  BY <1>1
<1>5. Scorer!RoundHalfEven(n, d) \in {q, q + 1} /\ (r = 0 => Scorer!RoundHalfEven(n, d) = q)
  BY <1>1 DEF Scorer!RoundHalfEven, q, r
<1> QED
  BY <1>1, <1>2, <1>3, <1>4, <1>5

\* No signal gives more than its maximum.
LEMMA PointsBounded ==
    ASSUME NEW sig \in SignalTypes
    PROVE  LET b == Scorer!Breakdown(sig) IN
           /\ b.user_present \in 0 .. 10
           /\ b.phishing_resistant \in 0 .. 30
           /\ b.user_verified \in 0 .. 20
           /\ b.hardware_backed \in 0 .. 20
           /\ b.sign_count \in -10 .. 10
           /\ b.freshness \in 0 .. 10
<1>1. Scorer!FreshnessPoints(sig) \in 0 .. 10
  <2> DEFINE f == sig.freshness_seconds
             max == sig.max_freshness_seconds
  <2>1. CASE f = Unknown \/ f < 0 \/ f > max \/ max = 0
    BY <2>1 DEF Scorer!FreshnessPoints
  <2>2. CASE f # Unknown /\ ~(f < 0 \/ f > max) /\ max # 0
    <3>1. f \in Nat /\ max \in Nat \ {0} /\ f <= max
      BY <2>2 DEF SignalTypes
    <3> HIDE DEF f, max
    <3>2. 10 * (max - f) \in Nat /\ 10 * (max - f) <= 10 * max
      BY <3>1
    <3>3. Scorer!RoundHalfEven(10 * (max - f), max) \in 0 .. 10
      BY <3>1, <3>2, Rounded
    <3>4. Scorer!FreshnessPoints(sig)
             = Scorer!AtLeast(2, Scorer!RoundHalfEven(10 * (max - f), max))
      BY <2>2 DEF Scorer!FreshnessPoints, f, max
    <3> QED
      BY <3>3, <3>4 DEF Scorer!AtLeast
  <2> QED
    BY <2>1, <2>2
<1> QED
  BY <1>1 DEF Scorer!Breakdown, Scorer!Points, Scorer!HardwarePoints,
              Scorer!SignCountPoints, SignalTypes

\* The sum of the points is what the level and the score are made of.
LEMMA TotalOf ==
    ASSUME NEW s \in SignalTypes
    PROVE  LET total == Scorer!Total(Scorer!Breakdown(s)) IN
           /\ total \in Int
           /\ total <= 100
<1> DEFINE b == Scorer!Breakdown(s)
           total == Scorer!Total(b)
<1>1. /\ b.user_present \in 0 .. 10 /\ b.phishing_resistant \in 0 .. 30
      /\ b.user_verified \in 0 .. 20 /\ b.hardware_backed \in 0 .. 20
      /\ b.sign_count \in -10 .. 10 /\ b.freshness \in 0 .. 10
  BY PointsBounded
<1> HIDE DEF b
<1>2. total = b.user_present + b.phishing_resistant + b.user_verified
                + b.hardware_backed + b.sign_count + b.freshness
  BY DEF Scorer!Total
<1> HIDE DEF total
<1>3. total \in Int
  BY <1>1, <1>2
<1>4. /\ b.user_present <= 10 /\ b.phishing_resistant <= 30
      /\ b.user_verified <= 20 /\ b.hardware_backed <= 20
      /\ b.sign_count <= 10 /\ b.freshness <= 10
  BY <1>1
<1>5. total <= 100
  BY <1>1, <1>2, <1>4, SMTT(30)
<1> QED
  BY <1>3, <1>5 DEF total, b

\* An event that was scored had signals of the right types.
LEMMA ScoredSignals ==
    ASSUME IInv, assurance # Unknown
    PROVE  signals \in SignalTypes /\ assurance = Scorer!score_event(signals)
BY CasesAssumption DEF IInv, InCases, signals

\* A score is in 0 .. 100 and a level in 1 .. 3.
LEMMA AssuranceBounds ==
    ASSUME IInv, assurance # Unknown
    PROVE  assurance.score \in 0 .. 100 /\ assurance.level \in 1 .. 3
<1> DEFINE total == Scorer!Total(Scorer!Breakdown(signals))
<1>1. signals \in SignalTypes /\ assurance = Scorer!score_event(signals)
  BY ScoredSignals
<1>2. total \in Int
  BY <1>1, TotalOf
<1> HIDE DEF total
<1>3. assurance.score = Scorer!AtLeast(0, Scorer!AtMost(100, total))
  BY <1>1 DEF Scorer!score_event, total
<1>4. assurance.score \in 0 .. 100
  BY <1>2, <1>3 DEF Scorer!AtLeast, Scorer!AtMost
<1>5. PICK n : assurance.level = Scorer!_classify(signals, n)
  BY <1>1 DEF Scorer!score_event
<1>6. assurance.level \in 1 .. 3
  BY <1>5, LevelOf
<1> QED
  BY <1>4, <1>6

\* A denial is named after its constraint.
LEMMA DenialsNamed ==
    ASSUME NEW p, NEW e
    PROVE  /\ Denials(p, e) \subseteq
                 {"phishing_resistant", "user_verification", "hardware_backed", "origin",
                  "aaguid", "format", "assurance"}
           /\ "phishing_resistant" \in Denials(p, e)
                 <=> p.require_phishing_resistant /\ ~e.phishing_resistant
           /\ "user_verification" \in Denials(p, e)
                 <=> p.require_user_verification /\ ~e.user_verified
           /\ "hardware_backed" \in Denials(p, e)
                 <=> p.require_hardware_backed /\ e.hardware_backed # TRUE
           /\ "origin" \in Denials(p, e) <=> OriginDenied(p, e)
           /\ "aaguid" \in Denials(p, e)
                 <=> AaguidDenied(p, e.aaguid) \/ AaguidNotAllowed(p, e.aaguid)
           /\ "format" \in Denials(p, e) <=> FormatDenied(p, e)
           /\ "assurance" \in Denials(p, e) <=> AssuranceDenied(p, e.assurance)
BY DEF Denials, DeniedIf

\* A denial that is not skipped stays if its condition does.
LEMMA DenialsStay ==
    ASSUME NEW p, NEW e, NEW h, NEW skipped,
           p.require_phishing_resistant /\ ~e.phishing_resistant
              => ~h.phishing_resistant,
           p.require_user_verification /\ ~e.user_verified => ~h.user_verified,
           p.require_hardware_backed /\ e.hardware_backed # TRUE
              => h.hardware_backed # TRUE,
           OriginDenied(p, e) => OriginDenied(p, h),
           \/ "aaguid" \in skipped
           \/ AaguidDenied(p, e.aaguid) \/ AaguidNotAllowed(p, e.aaguid)
                 => AaguidDenied(p, h.aaguid) \/ AaguidNotAllowed(p, h.aaguid),
           "format" \in skipped \/ (FormatDenied(p, e) => FormatDenied(p, h)),
           AssuranceDenied(p, e.assurance) => AssuranceDenied(p, h.assurance)
    PROVE  Denials(p, e) \ Denials(p, h) \subseteq skipped
<1> SUFFICES ASSUME NEW d \in Denials(p, e), d \notin skipped
             PROVE  d \in Denials(p, h)
  OBVIOUS
<1>1. d \in {"phishing_resistant", "user_verification", "hardware_backed", "origin",
            "aaguid", "format", "assurance"}
  BY DenialsNamed
<1>2. CASE d = "phishing_resistant"
  BY <1>2, DenialsNamed, Zenon
<1>3. CASE d = "user_verification"
  BY <1>3, DenialsNamed, Zenon
<1>4. CASE d = "hardware_backed"
  BY <1>4, DenialsNamed, Zenon
<1>5. CASE d = "origin"
  BY <1>5, DenialsNamed, Zenon
<1>6. CASE d = "aaguid"
  BY <1>6, DenialsNamed, Zenon
<1>7. CASE d = "format"
  BY <1>7, DenialsNamed, Zenon
<1>8. CASE d = "assurance"
  BY <1>8, DenialsNamed, Zenon
<1> QED
  BY <1>1, <1>2, <1>3, <1>4, <1>5, <1>6, <1>7, <1>8

\* The other facts stay what they are.
LEMMA LeftOutFields ==
    ASSUME NEW name \in FactNames, FactNames \subseteq DOMAIN facts
    PROVE  LET g == LeftOut(name) IN
           /\ FactNames \subseteq DOMAIN g
           /\ \A other \in FactNames \ {name} : g[other] = facts[other]
           /\ g[name] = IF name \in {"phishing_resistant", "user_verified"}
                        THEN FALSE ELSE Unknown
BY DEF LeftOut

\* Leaving out a fact lifts the denials of Skipped at most.
LEMMA FactLeftOut ==
    ASSUME IInv, Decided, NEW name \in FactNames
    PROVE  Lifted(LeftOut(name), assurance) \subseteq Skipped(name)
<1> DEFINE g == LeftOut(name)
           e == Event(facts, assurance)
           h == Event(g, assurance)
<1>1. FactNames \subseteq DOMAIN facts
  BY DecidedFacts
<1>2. /\ FactNames \subseteq DOMAIN g
      /\ \A other \in FactNames \ {name} : g[other] = facts[other]
      /\ g[name] = IF name \in {"phishing_resistant", "user_verified"}
                   THEN FALSE ELSE Unknown
  BY <1>1, LeftOutFields
<1> HIDE DEF g
<1>3. /\ e.assurance = assurance
      /\ e.phishing_resistant = facts.phishing_resistant
      /\ e.user_verified = facts.user_verified
      /\ e.hardware_backed = facts.hardware_backed
      /\ e.origin = facts.origin
      /\ e.aaguid = facts.aaguid
      /\ e.attestation_format = facts.attestation_format
  BY <1>1, EventFields
<1>4. /\ h.assurance = assurance
      /\ h.phishing_resistant = g.phishing_resistant
      /\ h.user_verified = g.user_verified
      /\ h.hardware_backed = g.hardware_backed
      /\ h.origin = g.origin
      /\ h.aaguid = g.aaguid
      /\ h.attestation_format = g.attestation_format
  BY <1>2, EventFields
<1> HIDE DEF e, h
<1>5. ~e.phishing_resistant => ~h.phishing_resistant
  BY <1>2, <1>3, <1>4 DEF FactNames
<1>6. ~e.user_verified => ~h.user_verified
  BY <1>2, <1>3, <1>4 DEF FactNames
<1>7. e.hardware_backed # TRUE => h.hardware_backed # TRUE
  BY <1>2, <1>3, <1>4, NoneAssumption DEF FactNames
<1>8. OriginDenied(policy, e) => OriginDenied(policy, h)
  <2>1. h.origin \in {Unknown, e.origin}
    BY <1>2, <1>3, <1>4 DEF FactNames
  <2> QED
    BY <2>1 DEF OriginDenied
<1>9. \/ "aaguid" \in Skipped(name)
      \/ AaguidDenied(policy, e.aaguid) \/ AaguidNotAllowed(policy, e.aaguid)
            => AaguidDenied(policy, h.aaguid) \/ AaguidNotAllowed(policy, h.aaguid)
  <2>1. CASE name # "aaguid"
    <3>1. h.aaguid = e.aaguid
      BY <2>1, <1>2, <1>3, <1>4 DEF FactNames
    <3> QED
      BY <3>1
  <2>2. CASE name = "aaguid" /\ policy.allowed_aaguids = Unknown
    BY <2>2 DEF Skipped
  <2>3. CASE name = "aaguid" /\ policy.allowed_aaguids # Unknown
    <3>1. h.aaguid = Unknown
      BY <2>3, <1>2, <1>4
    <3> QED
      BY <2>3, <3>1 DEF AaguidNotAllowed
  <2> QED
    BY <2>1, <2>2, <2>3
<1>10. "format" \in Skipped(name) \/ (FormatDenied(policy, e) => FormatDenied(policy, h))
  <2>1. CASE name = "attestation_format"
    BY <2>1 DEF Skipped
  <2>2. CASE name # "attestation_format"
    <3>1. h.attestation_format = e.attestation_format
      BY <2>2, <1>2, <1>3, <1>4 DEF FactNames
    <3> QED
      BY <3>1 DEF FormatDenied
  <2> QED
    BY <2>1, <2>2
<1>11. AssuranceDenied(policy, e.assurance) => AssuranceDenied(policy, h.assurance)
  BY <1>3, <1>4
<1>12. Denials(policy, e) \ Denials(policy, h) \subseteq Skipped(name)
  BY <1>5, <1>6, <1>7, <1>8, <1>9, <1>10, <1>11, DenialsStay
<1> QED
  BY <1>12 DEF Lifted, e, h, g

\* Leaving out the signals lifts none: the minima that a score misses are above
\* the least score and level there are.
LEMMA SignalsLeftOut ==
    ASSUME IInv, Decided
    PROVE  Lifted(facts, Unknown) = {}
<1> DEFINE e == Event(facts, assurance)
           h == Event(facts, Unknown)
<1>1. /\ e.assurance = assurance /\ h.assurance = Unknown
      /\ h.phishing_resistant = e.phishing_resistant
      /\ h.user_verified = e.user_verified
      /\ h.hardware_backed = e.hardware_backed
      /\ h.origin = e.origin
      /\ h.aaguid = e.aaguid
      /\ h.attestation_format = e.attestation_format
  BY DecidedFacts, EventFields
<1> HIDE DEF e, h
<1>2. policy.min_aal \in 1 .. 3 /\ policy.min_assurance \in 0 .. 100
  BY PolicyMinima
<1>3. AssuranceDenied(policy, assurance) => AssuranceDenied(policy, Unknown)
  <2>1. CASE assurance = Unknown
    BY <2>1
  <2>2. CASE assurance # Unknown
    BY <2>2, <1>2, AssuranceBounds DEF AssuranceDenied
  <2> QED
    BY <2>1, <2>2
<1>4. OriginDenied(policy, e) => OriginDenied(policy, h)
  BY <1>1 DEF OriginDenied
<1>5. FormatDenied(policy, e) => FormatDenied(policy, h)
  BY <1>1 DEF FormatDenied
<1>6. Denials(policy, e) \ Denials(policy, h) \subseteq {}
  BY <1>1, <1>3, <1>4, <1>5, DenialsStay
<1> QED
  BY <1>6 DEF Lifted, e, h

\* For every policy file and every event that is decided, leaving out one fact
\* or the signals lifts no denial; the denial by a list of formats and, where
\* there is no allow-list, the one by a deny-list are lifted with the fact they
\* are about (evaluator.py 68-157).
THEOREM MissingFactNeverHelpsHolds == Spec => []MissingFactNeverHelps
<1>1. IInv => MissingFactNeverHelps
  BY FactLeftOut, SignalsLeftOut DEF MissingFactNeverHelps
<1> QED
  BY <1>1, Invariance, PTL

\* Every point is attributable to a named signal, for signals of any age and a
\* challenge of any lifetime (scorer.py 5 and 89-170).
THEOREM AttributableHolds == Spec => []Attributable
<1>1. IInv => Attributable
  <2> SUFFICES ASSUME IInv, assurance # Unknown PROVE Attributable
    BY DEF Attributable
  <2> DEFINE b == Scorer!Breakdown(signals)
             total == Scorer!Total(b)
  <2>1. signals \in SignalTypes /\ assurance = Scorer!score_event(signals)
    BY ScoredSignals
  <2>2. /\ b.user_present \in 0 .. 10 /\ b.phishing_resistant \in 0 .. 30
        /\ b.user_verified \in 0 .. 20 /\ b.hardware_backed \in 0 .. 20
        /\ b.sign_count \in -10 .. 10 /\ b.freshness \in 0 .. 10
    BY <2>1, PointsBounded
  <2>3. DOMAIN b = {"user_present", "phishing_resistant", "user_verified",
                    "hardware_backed", "sign_count", "freshness"}
    BY DEF Scorer!Breakdown
  <2> HIDE DEF b
  <2>4. \A name \in DOMAIN b : b[name] <= Scorer!MaxPoints[name]
    BY <2>2, <2>3 DEF Scorer!MaxPoints
  <2>5. Scorer!Total(Scorer!MaxPoints) = 100
    BY DEF Scorer!Total, Scorer!MaxPoints
  <2>6. total \in Int /\ total <= 100
    BY <2>1, TotalOf DEF b
  <2> HIDE DEF total
  <2>7. assurance.score = Scorer!AtLeast(0, Scorer!AtMost(100, total))
    BY <2>1 DEF Scorer!score_event, total, b
  <2>8. assurance.score = total \/ (total < 0 /\ assurance.score = 0)
    BY <2>6, <2>7 DEF Scorer!AtLeast, Scorer!AtMost
  <2> QED
    BY <2>4, <2>5, <2>8 DEF Attributable, total, b
<1> QED
  BY <1>1, Invariance, PTL
-----------------------------------------------------------------------------
\* A list that is stated, of origins or AAGUIDs, is a list if it admits anything,
\* and what it admits is a member.
LEMMA ListedOrigin ==
    ASSUME NEW p, NEW e, NEW value, value # Unknown,
           value = Other \/ value.items # Unknown,
           p.allowed_origins = Members("allowed_origins", value),
           ~OriginDenied(p, e), ~EvaluateRaises(p, e)
    PROVE  /\ value.list
           /\ \E o \in value.items : normalize_origin(o) = normalize_origin(e.origin)
<1>1. value # Other
  BY NoneAssumption DEF Members, OriginDenied, EvaluateRaises
<1>2. CASE value.list
  BY <1>1, <1>2 DEF Members, OriginDenied
<1>3. CASE ~value.list
  <2>1. p.allowed_origins = {[origin |-> Unknown, spelling |-> Other]}
    BY <1>1, <1>3 DEF Members, Letters
  <2> QED
    BY <2>1, NoneAssumption DEF OriginDenied, IsOrigin
<1> QED
  BY <1>2, <1>3

\* The same of AAGUIDs.
LEMMA ListedAaguid ==
    ASSUME NEW p, NEW e, NEW value, value # Unknown,
           value = Other \/ value.items # Unknown,
           p.allowed_aaguids = Members("allowed_aaguids", value),
           e.aaguid # Unknown => normalize_aaguid(e.aaguid) # Unknown,
           ~AaguidNotAllowed(p, e.aaguid), ~EvaluateRaises(p, e)
    PROVE  /\ value.list
           /\ \E a \in value.items : normalize_aaguid(a) = normalize_aaguid(e.aaguid)
<1>1. value # Other
  BY NoneAssumption DEF Members, AaguidNotAllowed, EvaluateRaises
<1>2. CASE value.list
  BY <1>1, <1>2 DEF Members, AaguidNotAllowed, NormalizedAaguids
<1>3. CASE ~value.list
  <2>1. p.allowed_aaguids = {[digits |-> Unknown, spelling |-> Other]}
    BY <1>1, <1>3 DEF Members, Letters
  <2> QED
    BY <2>1, NoneAssumption
    DEF AaguidNotAllowed, NormalizedAaguids, normalize_aaguid
<1> QED
  BY <1>2, <1>3

\* A format that a stated list of formats admits is on it, as `in` finds it.
LEMMA ListedFormat ==
    ASSUME NEW p, NEW e, NEW value, value # Unknown,
           value = Other \/ value.items # Unknown,
           p.allowed_formats = Members("allowed_formats", value),
           e.attestation_format # Unknown,
           ~FormatDenied(p, e), ~EvaluateRaises(p, e)
    PROVE  e.attestation_format \in value.items
<1>1. value # Other
  BY DEF Members, EvaluateRaises
<1>2. p.allowed_formats = value.items
  BY <1>1 DEF Members, Letters
<1> QED
  BY <1>1, <1>2 DEF FormatDenied

\* An AAGUID that a stated deny-list lets pass is not on it, if it is a list.
LEMMA UnlistedAaguid ==
    ASSUME NEW p, NEW e, NEW value,
           p.denied_aaguids = Members("denied_aaguids", value),
           e.aaguid # Unknown,
           ~AaguidDenied(p, e.aaguid), ~EvaluateRaises(p, e)
    PROVE  /\ value \notin {Unknown, Other}
           /\ value.list => \A a \in value.items :
                 normalize_aaguid(a) # normalize_aaguid(e.aaguid)
<1>1. value \notin {Unknown, Other}
  BY DEF Members, EvaluateRaises
<1>2. CASE value.list
  <2>1. p.denied_aaguids = value.items
    BY <1>1, <1>2 DEF Members
  <2> QED
    BY <1>1, <2>1 DEF AaguidDenied, NormalizedAaguids
<1> QED
  BY <1>1, <1>2

\* An admitted event satisfies what StatedIsEnforced says of the words of the
\* policy file, for every policy file and event (model.py 28-50, evaluator.py
\* 15-49 and 52-163): every constraint but a list of formats without a format, a
\* deny-list without an AAGUID, and a deny-list that is written as one string.
THEOREM StatedIsEnforcedHolds == Spec => []StatedIsEnforced
<1>1. IInv => StatedIsEnforced
  <2> SUFFICES ASSUME IInv, allow PROVE StatedIsEnforced
    BY DEF StatedIsEnforced
  <2> DEFINE fields == document.fields
             says(f) == f \in DOMAIN fields /\ fields[f] # Unknown
             e == Event(facts, assurance)
             s == Stated(fields)
  <2>1. Decided
    BY DEF IInv, Decided
  <2>2. /\ document.form \in {"object", "text"}
        /\ DOMAIN fields \subseteq DOMAIN Defaults
        /\ s.min_aal \in 1 .. 3 /\ s.min_assurance \in 0 .. 100
    BY <2>1, DecidedPolicy, NoErrors
  <2>3. \A f \in Lists \cap DOMAIN fields :
           fields[f] \in {Unknown, Other} \/ fields[f].items # Unknown
    BY CasesAssumption DEF IInv, InCases
  <2>4. \A f \in DOMAIN fields : s[f] = fields[f]
    BY <2>2 DEF Stated
  <2>5. /\ policy.require_phishing_resistant = Truth(s.require_phishing_resistant)
        /\ policy.require_user_verification = Truth(s.require_user_verification)
        /\ policy.require_hardware_backed = Truth(s.require_hardware_backed)
        /\ policy.allowed_origins = Members("allowed_origins", s.allowed_origins)
        /\ policy.allowed_aaguids = Members("allowed_aaguids", s.allowed_aaguids)
        /\ policy.denied_aaguids = Members("denied_aaguids", s.denied_aaguids)
        /\ policy.allowed_formats = Members("allowed_formats", s.allowed_formats)
        /\ policy.min_aal = s.min_aal
        /\ policy.min_assurance = s.min_assurance
    BY <2>1, DecidedPolicy, LoadedPolicy
  <2>6. /\ ~(policy.require_phishing_resistant /\ ~e.phishing_resistant)
        /\ ~(policy.require_user_verification /\ ~e.user_verified)
        /\ ~(policy.require_hardware_backed /\ e.hardware_backed # TRUE)
        /\ ~OriginDenied(policy, e)
        /\ ~AaguidDenied(policy, e.aaguid)
        /\ ~AaguidNotAllowed(policy, e.aaguid)
        /\ ~FormatDenied(policy, e)
        /\ ~AssuranceDenied(policy, e.assurance)
    BY <2>1, AllowedIff DEF IInv, Decided
  <2>7. /\ e.assurance = assurance
        /\ e.phishing_resistant = facts.phishing_resistant
        /\ e.user_verified = facts.user_verified
        /\ e.hardware_backed = facts.hardware_backed
        /\ e.origin = facts.origin
        /\ e.aaguid = facts.aaguid
        /\ e.attestation_format = facts.attestation_format
    BY <2>1, DecidedFacts, EventFields
  <2>8. ~EvaluateRaises(policy, e)
    BY <2>1, <2>7 DEF IInv, Decided, EvaluateRaises
  <2> HIDE DEF fields, s, e
  <2>9. \/ facts.phishing_resistant
        \/ \E no \in {FALSE, Unknown} :
              /\ "require_phishing_resistant" \in DOMAIN fields
              /\ fields["require_phishing_resistant"] = no
    <3>1. CASE "require_phishing_resistant" \in DOMAIN fields
      BY <3>1, <2>4, <2>5, <2>6, <2>7 DEF Truth
    <3>2. CASE "require_phishing_resistant" \notin DOMAIN fields
      <4>1. s.require_phishing_resistant = TRUE
        BY <3>2 DEF s, Stated, Defaults
      <4> QED
        BY <4>1, <2>5, <2>6, <2>7, NoneAssumption DEF Truth
    <3> QED
      BY <3>1, <3>2
  <2>10. ASSUME NEW yes \in {TRUE, Other}
         PROVE  /\ "require_user_verification" \in DOMAIN fields
                      /\ fields["require_user_verification"] = yes
                   => facts.user_verified
                /\ "require_hardware_backed" \in DOMAIN fields
                      /\ fields["require_hardware_backed"] = yes
                   => facts.hardware_backed = TRUE
    <3>1. Truth(yes)
      BY <2>10, NoneAssumption DEF Truth
    <3> QED
      BY <3>1, <2>4, <2>5, <2>6, <2>7
  <2>11. ASSUME says("allowed_origins")
         PROVE  /\ fields["allowed_origins"].list
                /\ \E o \in fields["allowed_origins"].items :
                      normalize_origin(o) = normalize_origin(facts.origin)
    <3> DEFINE value == fields["allowed_origins"]
    <3>1. value # Unknown /\ (value = Other \/ value.items # Unknown)
      BY <2>3, <2>11 DEF Lists
    <3>2. policy.allowed_origins = Members("allowed_origins", value)
      BY <2>4, <2>5, <2>11
    <3> HIDE DEF value
    <3>3. /\ value.list
          /\ \E o \in value.items : normalize_origin(o) = normalize_origin(e.origin)
      BY <2>6, <2>8, <3>1, <3>2, ListedOrigin
    <3> QED
      BY <2>7, <3>3 DEF value
  <2>12. ASSUME says("allowed_aaguids")
         PROVE  /\ fields["allowed_aaguids"].list
                /\ \E a \in fields["allowed_aaguids"].items :
                      normalize_aaguid(a) = normalize_aaguid(facts.aaguid)
    <3> DEFINE value == fields["allowed_aaguids"]
    <3>1. value # Unknown /\ (value = Other \/ value.items # Unknown)
      BY <2>3, <2>12 DEF Lists
    <3>2. policy.allowed_aaguids = Members("allowed_aaguids", value)
      BY <2>4, <2>5, <2>12
    <3>3. e.aaguid # Unknown => normalize_aaguid(e.aaguid) # Unknown
      BY <2>1, <2>7, DecidedFacts
    <3> HIDE DEF value
    <3>4. /\ value.list
          /\ \E a \in value.items : normalize_aaguid(a) = normalize_aaguid(e.aaguid)
      BY <2>6, <2>8, <3>1, <3>2, <3>3, ListedAaguid
    <3> QED
      BY <2>7, <3>4 DEF value
  <2>13. ASSUME says("allowed_formats"), facts.attestation_format # Unknown
         PROVE  facts.attestation_format \in fields["allowed_formats"].items
    <3> DEFINE value == fields["allowed_formats"]
    <3>1. value # Unknown /\ (value = Other \/ value.items # Unknown)
      BY <2>3, <2>13 DEF Lists
    <3>2. policy.allowed_formats = Members("allowed_formats", value)
      BY <2>4, <2>5, <2>13
    <3> HIDE DEF value
    <3>3. e.attestation_format # Unknown
      BY <2>7, <2>13
    <3>4. e.attestation_format \in value.items
      BY <2>6, <2>8, <3>1, <3>2, <3>3, ListedFormat
    <3> QED
      BY <2>7, <3>4 DEF value
  <2>14. ASSUME "denied_aaguids" \in DOMAIN fields, facts.aaguid # Unknown
         PROVE  /\ fields["denied_aaguids"] \notin {Unknown, Other}
                /\ fields["denied_aaguids"].list =>
                      \A a \in fields["denied_aaguids"].items :
                         normalize_aaguid(a) # normalize_aaguid(facts.aaguid)
    <3> DEFINE value == fields["denied_aaguids"]
    <3>1. policy.denied_aaguids = Members("denied_aaguids", value)
      BY <2>4, <2>5, <2>14
    <3> HIDE DEF value
    <3>2. e.aaguid # Unknown
      BY <2>7, <2>14
    <3>3. /\ value \notin {Unknown, Other}
          /\ value.list => \A a \in value.items :
                normalize_aaguid(a) # normalize_aaguid(e.aaguid)
      BY <2>6, <2>8, <3>1, <3>2, UnlistedAaguid
    <3> QED
      BY <2>7, <3>3 DEF value
  <2>15. \A f \in {"min_aal", "min_assurance"} \cap DOMAIN fields : fields[f] \in Nat
    BY <2>2, <2>4
  <2>16. /\ says("min_aal") /\ fields["min_aal"] > 1 =>
               assurance # Unknown /\ assurance.level >= fields["min_aal"]
         /\ says("min_assurance") /\ fields["min_assurance"] > 0 =>
               assurance # Unknown /\ assurance.score >= fields["min_assurance"]
    <3>1. CASE assurance = Unknown
      <4>1. ~(s.min_assurance > 0) /\ ~(s.min_aal > 1)
        BY <3>1, <2>5, <2>6, <2>7 DEF AssuranceDenied
      <4> QED
        BY <4>1, <2>4
    <3>2. CASE assurance # Unknown
      <4>1. ~(assurance.score < s.min_assurance) /\ ~(assurance.level < s.min_aal)
        BY <3>2, <2>5, <2>6, <2>7 DEF AssuranceDenied
      <4>2. assurance.score \in Int /\ assurance.level \in Int
        BY <3>2, AssuranceBounds
      <4> QED
        BY <2>2, <2>4, <3>2, <4>1, <4>2
    <3> QED
      BY <3>1, <3>2
  <2> QED
    BY <2>2, <2>9, <2>10, <2>11, <2>12, <2>13, <2>14, <2>15, <2>16
    DEF StatedIsEnforced, fields
<1> QED
  BY <1>1, Invariance, PTL
-----------------------------------------------------------------------------
\* Rounding, ties to the even integer, keeps the order of two quotients.
LEMMA RoundingKeepsOrder ==
    ASSUME NEW m \in Nat, NEW n \in Nat, NEW d \in Nat \ {0}, m <= n
    PROVE  Scorer!RoundHalfEven(m, d) <= Scorer!RoundHalfEven(n, d)
<1> DEFINE q == m \div d
           r == m % d
           p == n \div d
           t == n % d
<1>1. /\ q \in Int /\ r \in 0 .. d - 1 /\ m = d * q + r
      /\ p \in Int /\ t \in 0 .. d - 1 /\ n = d * p + t
  OBVIOUS
<1> DEFINE up(k, x) == ~(2 * x < d \/ (2 * x = d /\ k % 2 = 0))
<1>2. /\ Scorer!RoundHalfEven(m, d) = IF up(q, r) THEN q + 1 ELSE q
      /\ Scorer!RoundHalfEven(n, d) = IF up(p, t) THEN p + 1 ELSE p
  BY DEF Scorer!RoundHalfEven
<1> HIDE DEF q, r, p, t
<1>3. CASE q < p
  BY <1>1, <1>2, <1>3
<1>4. CASE q = p
  <2>1. r <= t
    BY <1>1, <1>4
  <2>2. up(q, r) => up(p, t)
    BY <1>1, <1>4, <2>1
  <2> QED
    BY <1>1, <1>2, <1>4, <2>2
<1>5. ~(q > p)
  <2> SUFFICES ASSUME q > p PROVE FALSE
    OBVIOUS
  <2>1. d * q >= d * (p + 1)
    BY <1>1
  <2>2. d * (p + 1) = d * p + d
    BY <1>1
  <2> QED
    BY <1>1, <2>1, <2>2
<1> QED
  BY <1>1, <1>3, <1>4, <1>5

\* A younger challenge is not worth less.
LEMMA YoungerIsNoLess ==
    ASSUME NEW s \in SignalTypes, NEW i \in Younger(s)
    PROVE  /\ i \in SignalTypes
           /\ Scorer!FreshnessPoints(s) <= Scorer!FreshnessPoints(i)
<1> DEFINE f == s.freshness_seconds
           g == i.freshness_seconds
           max == s.max_freshness_seconds
<1>1. /\ f \in Int \ {0} /\ f # Unknown /\ max \in Int
      /\ i = [s EXCEPT !.freshness_seconds = g]
      /\ g = IF f < 0 THEN max + 1 ELSE f - 1
  BY DEF Younger, SignalTypes
<1>2. i \in SignalTypes /\ i.max_freshness_seconds = max
  BY <1>1 DEF SignalTypes
<1>3. g \in Int
  BY <1>1
<1>4. CASE f < 0 \/ f > max
  <2>1. Scorer!FreshnessPoints(s) = 0
    BY <1>1, <1>4 DEF Scorer!FreshnessPoints
  <2>2. Scorer!FreshnessPoints(i) \in 0 .. 10
    BY <1>2, PointsBounded DEF Scorer!Breakdown
  <2> QED
    BY <1>2, <2>1, <2>2
<1>5. CASE 0 < f /\ f <= max
  <2>1. /\ max \in Nat \ {0} /\ f \in Nat /\ g \in Nat /\ g # Unknown
        /\ g < f /\ g <= max
    BY <1>1, <1>3, <1>5, CasesAssumption
  <2> DEFINE share(age) == Scorer!AtLeast(2, Scorer!RoundHalfEven(10 * (max - age), max))
  <2>2. Scorer!FreshnessPoints(s) = share(f)
    BY <1>1, <2>1, <1>5 DEF Scorer!FreshnessPoints
  <2>3. Scorer!FreshnessPoints(i) = share(g)
    BY <1>2, <2>1 DEF Scorer!FreshnessPoints
  <2> HIDE DEF f, g, max
  <2> DEFINE m == 10 * (max - f)
             n == 10 * (max - g)
  <2>4. m \in Nat /\ n \in Nat /\ m <= n /\ m <= 10 * max /\ n <= 10 * max
    BY <2>1, <1>5
  <2> HIDE DEF m, n
  <2>5. /\ Scorer!RoundHalfEven(m, max) <= Scorer!RoundHalfEven(n, max)
        /\ Scorer!RoundHalfEven(m, max) \in 0 .. 10
        /\ Scorer!RoundHalfEven(n, max) \in 0 .. 10
    BY <2>1, <2>4, RoundingKeepsOrder, Rounded
  <2>6. share(f) <= share(g)
    BY <2>5 DEF Scorer!AtLeast, m, n
  <2> QED
    BY <1>2, <2>2, <2>3, <2>6
<1> QED
  BY <1>1, <1>4, <1>5

\* Better signals give no fewer points anywhere and keep the signals of a level.
LEMMA BetterPoints ==
    ASSUME NEW s \in SignalTypes, NEW i \in Improvements(s)
    PROVE  LET b == Scorer!Breakdown(s)
               c == Scorer!Breakdown(i)
           IN  /\ i \in SignalTypes
               /\ b.user_present <= c.user_present
               /\ b.phishing_resistant <= c.phishing_resistant
               /\ b.user_verified <= c.user_verified
               /\ b.hardware_backed <= c.hardware_backed
               /\ b.sign_count <= c.sign_count
               /\ b.freshness <= c.freshness
               /\ Scorer!AAL2Signals(s) => Scorer!AAL2Signals(i)
               /\ Scorer!AAL3Signals(s) => Scorer!AAL3Signals(i)
<1> USE DEF Scorer!Breakdown, Scorer!Points, Scorer!HardwarePoints,
            Scorer!SignCountPoints, Scorer!AAL2Signals, Scorer!AAL3Signals
<1>1. CASE i \in Younger(s)
  <2>1. /\ i \in SignalTypes
        /\ Scorer!FreshnessPoints(s) <= Scorer!FreshnessPoints(i)
    BY <1>1, YoungerIsNoLess
  <2>2. /\ i.user_present = s.user_present
        /\ i.phishing_resistant = s.phishing_resistant
        /\ i.user_verified = s.user_verified
        /\ i.hardware_backed = s.hardware_backed
        /\ i.sign_count_ok = s.sign_count_ok
        /\ i.sign_count_observed = s.sign_count_observed
    BY <1>1 DEF Younger, SignalTypes
  <2> QED
    BY <2>1, <2>2 DEF SignalTypes
<1>2. CASE i \notin Younger(s)
  <2>1. \/ i = [s EXCEPT !.user_present = TRUE]
        \/ i = [s EXCEPT !.phishing_resistant = TRUE]
        \/ i = [s EXCEPT !.user_verified = TRUE]
        \/ i = [s EXCEPT !.sign_count_ok = TRUE]
        \/ i = [s EXCEPT !.sign_count_observed = TRUE]
        \/ i = [s EXCEPT !.hardware_backed =
                   IF s.hardware_backed = FALSE THEN Unknown ELSE TRUE]
    BY <1>2 DEF Improvements
  <2>2. i \in SignalTypes
    BY <2>1 DEF SignalTypes
  <2>3. /\ s.user_present => i.user_present
        /\ s.phishing_resistant => i.phishing_resistant
        /\ s.user_verified => i.user_verified
        /\ s.sign_count_ok => i.sign_count_ok
        /\ s.sign_count_observed => i.sign_count_observed
        /\ s.hardware_backed = TRUE => i.hardware_backed = TRUE
        /\ i.hardware_backed = FALSE => s.hardware_backed = FALSE
        /\ i.freshness_seconds = s.freshness_seconds
        /\ i.max_freshness_seconds = s.max_freshness_seconds
    BY <2>1, NoneAssumption DEF SignalTypes
  <2>4. Scorer!FreshnessPoints(i) = Scorer!FreshnessPoints(s)
    BY <2>3 DEF Scorer!FreshnessPoints
  <2>5. Scorer!FreshnessPoints(s) \in 0 .. 10
    BY PointsBounded
  <2> QED
    BY <2>2, <2>3, <2>4, <2>5 DEF SignalTypes
<1> QED
  BY <1>1, <1>2

\* Better signals have no lower score and no lower level.
LEMMA BetterScore ==
    ASSUME NEW s \in SignalTypes, NEW i \in Improvements(s)
    PROVE  LET a == Scorer!score_event(s)
               better == Scorer!score_event(i)
           IN  /\ a.score \in Int /\ better.score \in Int /\ a.score <= better.score
               /\ a.level \in Int /\ better.level \in Int /\ a.level <= better.level
<1> DEFINE b == Scorer!Breakdown(s)
           c == Scorer!Breakdown(i)
           low == Scorer!Total(b)
           high == Scorer!Total(c)
           score(total) == Scorer!AtLeast(0, Scorer!AtMost(100, total))
<1>1. /\ i \in SignalTypes
      /\ b.user_present <= c.user_present
      /\ b.phishing_resistant <= c.phishing_resistant
      /\ b.user_verified <= c.user_verified
      /\ b.hardware_backed <= c.hardware_backed
      /\ b.sign_count <= c.sign_count
      /\ b.freshness <= c.freshness
  BY BetterPoints
<1>2. /\ Scorer!AAL2Signals(s) => Scorer!AAL2Signals(i)
      /\ Scorer!AAL3Signals(s) => Scorer!AAL3Signals(i)
  BY BetterPoints
<1>3. /\ b.user_present \in Int /\ b.phishing_resistant \in Int
      /\ b.user_verified \in Int /\ b.hardware_backed \in Int
      /\ b.sign_count \in Int /\ b.freshness \in Int
      /\ c.user_present \in Int /\ c.phishing_resistant \in Int
      /\ c.user_verified \in Int /\ c.hardware_backed \in Int
      /\ c.sign_count \in Int /\ c.freshness \in Int
  BY <1>1, PointsBounded
<1> HIDE DEF b, c
<1>4. /\ low = b.user_present + b.phishing_resistant + b.user_verified
                 + b.hardware_backed + b.sign_count + b.freshness
      /\ high = c.user_present + c.phishing_resistant + c.user_verified
                  + c.hardware_backed + c.sign_count + c.freshness
  BY DEF Scorer!Total
<1> HIDE DEF low, high
<1>5. low \in Int /\ high \in Int /\ low <= high
  BY <1>1, <1>3, <1>4
<1>6. score(low) \in Int /\ score(high) \in Int /\ score(low) <= score(high)
  BY <1>5 DEF Scorer!AtLeast, Scorer!AtMost
<1>7. /\ Scorer!score_event(s)
            = [score |-> score(low), level |-> Scorer!_classify(s, score(low))]
      /\ Scorer!score_event(i)
            = [score |-> score(high), level |-> Scorer!_classify(i, score(high))]
  BY DEF Scorer!score_event, low, high, b, c
<1> DEFINE n == score(low)
           m == score(high)
<1>8. n \in Int /\ m \in Int /\ n <= m
  BY <1>6
<1> HIDE DEF n, m
<1>9. /\ Scorer!_classify(s, n) \in Int /\ Scorer!_classify(i, m) \in Int
      /\ Scorer!_classify(s, n) <= Scorer!_classify(i, m)
  BY <1>2, <1>8 DEF Scorer!_classify
<1> QED
  BY <1>6, <1>7, <1>9 DEF n, m

\* Better evidence never costs points, a level or the admission, whatever the
\* age of the challenge and whatever the policy (scorer.py 89-190 with
\* evaluator.py 134-157).
THEOREM BetterIsNeverWorseHolds == Spec => []BetterIsNeverWorse
<1>1. IInv => BetterIsNeverWorse
  <2> SUFFICES ASSUME IInv, Decided, signals # Unknown, NEW i \in Improvements(signals)
               PROVE  LET better == Scorer!score_event(i) IN
                      /\ assurance.score <= better.score
                      /\ assurance.level <= better.level
                      /\ allow => Allows(policy, facts, better)
    BY DEF BetterIsNeverWorse
  <2> DEFINE better == Scorer!score_event(i)
             e == Event(facts, assurance)
             h == Event(facts, better)
  <2>1. signals \in SignalTypes /\ assurance = Scorer!score_event(signals)
    BY CasesAssumption DEF IInv, InCases, Decided, signals
  <2>2. /\ assurance.score \in Int /\ better.score \in Int
        /\ assurance.score <= better.score
        /\ assurance.level \in Int /\ better.level \in Int
        /\ assurance.level <= better.level
    BY <2>1, BetterScore
  <2>3. better # Unknown /\ assurance # Unknown
    <3>1. better = [score |-> better.score, level |-> better.level]
          /\ assurance = [score |-> assurance.score, level |-> assurance.level]
      BY <2>1 DEF Scorer!score_event
    <3>2. better \in [score : Int, level : Int] /\ assurance \in [score : Int, level : Int]
      BY <2>2, <3>1
    <3> QED
      BY <3>2, CasesAssumption
  <2>4. policy.min_aal \in Int /\ policy.min_assurance \in Int
    BY PolicyMinima
  <2>5. AssuranceDenied(policy, better) => AssuranceDenied(policy, assurance)
    BY <2>2, <2>3, <2>4 DEF AssuranceDenied
  <2>6. /\ h.assurance = better /\ e.assurance = assurance
        /\ h.phishing_resistant = e.phishing_resistant
        /\ h.user_verified = e.user_verified
        /\ h.hardware_backed = e.hardware_backed
        /\ h.origin = e.origin
        /\ h.aaguid = e.aaguid
        /\ h.attestation_format = e.attestation_format
    BY DecidedFacts, EventFields
  <2> HIDE DEF better, e, h
  <2>7. /\ OriginDenied(policy, h) => OriginDenied(policy, e)
        /\ FormatDenied(policy, h) => FormatDenied(policy, e)
    BY <2>6 DEF OriginDenied, FormatDenied
  <2>8. evaluate_policy(policy, e) => evaluate_policy(policy, h)
    BY <2>5, <2>6, <2>7, AllowedIff
  <2>9. allow => Allows(policy, facts, better)
    BY <2>8 DEF IInv, Decided, Allows, e, h
  <2> QED
    BY <2>2, <2>9 DEF better
<1> QED
  BY <1>1, Invariance, PTL
=============================================================================
