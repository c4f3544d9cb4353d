------------------------------ MODULE Decision ------------------------------
(***************************************************************************)
(* passkit policy-check (cli.py 145-163 and main): a policy file is loaded *)
(* and an event read, its signals are scored, the facts of the event and   *)
(* the score go through the policy; the registration of the authenticator  *)
(* went through the attestation policy with the same lists.                *)
(***************************************************************************)
EXTENDS PolicyLoading

Scorer == INSTANCE Scorer

\* The inputs a run tries: records of a policy document and of an event.  An
\* event has a form and, if it is an object, facts and "signals", which are
\* Unknown if it has none and Other if they are no object.
CONSTANT Cases

\* What data.get makes of an event: every fact is there, if only as None.
FactNames == {"phishing_resistant", "user_verified", "hardware_backed", "origin",
              "aaguid", "attestation_format"}
SignalTypes ==
    [user_present : BOOLEAN, user_verified : BOOLEAN,
     hardware_backed : BOOLEAN \cup {Unknown}, phishing_resistant : BOOLEAN,
     sign_count_ok : BOOLEAN, sign_count_observed : BOOLEAN,
     freshness_seconds : Int \cup {Unknown}, max_freshness_seconds : Int]

ASSUME CasesAssumption ==
    /\ \A c \in Cases :
          /\ c.document.form \in Forms
          /\ \A f \in Lists \cap DOMAIN c.document.fields :
                \/ c.document.fields[f] \in {Unknown, Other}
                \/ c.document.fields[f].items # Unknown
          /\ c.event.form \in {"no_file", "broken", "list", "object"}
    /\ \A c \in Cases : c.event.form = "object" =>
          /\ FactNames \subseteq DOMAIN c.event.facts
          /\ c.event.facts.aaguid # Unknown =>
                normalize_aaguid(c.event.facts.aaguid) # Unknown
          /\ \/ c.event.signals \in {Unknown, Other}
             \/ c.event.signals \in SignalTypes
    /\ Unknown \notin Int \cup [score : Int, level : Int]

VARIABLES
    document,   \* the text of the policy file
    event,      \* the event's JSON
    policy,     \* the loaded Policy, Unknown before
    assurance,  \* what score_event returned, Unknown before or if not called
    stage,      \* "start", "loaded", "read", "scored", "decided" or "failed"
    exit        \* the exit code, Unknown before the end

vars == <<document, event, policy, assurance, stage, exit>>

facts == event.facts
signals == event.signals
allow == exit = 0

Event(f, a) == [name \in DOMAIN f \cup {"assurance"} |->
                   IF name = "assurance" THEN a ELSE f[name]]

Init ==
    /\ \E c \in Cases : document = c.document /\ event = c.event
    /\ policy = Unknown
    /\ assurance = Unknown
    /\ stage = "start"
    /\ exit = Unknown

\* main: what it catches ends with 2; Python ends with 1 on any other exception.
ExitCode(error) == IF error \in {"PolicyError", "KeyError", "ValueError"} THEN 2 ELSE 1
Fail(errors) ==
    /\ \E error \in errors : exit' = ExitCode(error)
    /\ stage' = "failed"
    /\ UNCHANGED <<document, event, policy, assurance>>

LoadFails == stage = "start" /\ Fail(Raised(document))
Load ==
    /\ stage = "start"
    /\ Raised(document) = {}
    /\ stage' = "loaded"
    /\ policy' = load_policy(document)
    /\ UNCHANGED <<document, event, assurance, exit>>

\* _read_json; a list has no get.
ReadErrors ==
    CASE event.form = "no_file" -> {"OSError"}
      [] event.form = "broken" -> {"ValueError"}
      [] event.form = "list" -> {"AttributeError"}
      [] event.form = "object" -> {}
ReadFails == stage = "loaded" /\ Fail(ReadErrors)
ReadEvent ==
    /\ stage = "loaded"
    /\ ReadErrors = {}
    /\ stage' = "read"
    /\ UNCHANGED <<document, event, policy, assurance, exit>>

ScoreFails == stage = "read" /\ signals = Other /\ Fail({"AttributeError"})
Score ==
    /\ stage = "read"
    /\ signals # Other
    /\ stage' = "scored"
    /\ assurance' = IF signals = Unknown THEN Unknown ELSE Scorer!score_event(signals)
    /\ UNCHANGED <<document, event, policy, exit>>

EvaluateFails ==
    /\ stage = "scored"
    /\ EvaluateRaises(policy, facts)
    /\ Fail({"TypeError"})
Evaluate ==
    /\ stage = "scored"
    /\ ~EvaluateRaises(policy, facts)
    /\ stage' = "decided"
    /\ exit' = IF evaluate_policy(policy, Event(facts, assurance)) THEN 0 ELSE 1
    /\ UNCHANGED <<document, event, policy, assurance>>

Next ==
    \/ LoadFails \/ Load \/ ReadFails \/ ReadEvent
    \/ ScoreFails \/ Score \/ EvaluateFails \/ Evaluate

Spec == Init /\ [][Next]_vars

-----------------------------------------------------------------------------
Decided == stage = "decided"
Allows(p, f, a) == evaluate_policy(p, Event(f, a))

\* The inputs that are better than s in one signal and least so.
Younger(s) ==
    IF s.freshness_seconds = Unknown \/ s.freshness_seconds = 0 THEN {}
    ELSE {[s EXCEPT !.freshness_seconds =
             IF @ < 0 THEN s.max_freshness_seconds + 1 ELSE @ - 1]}

Improvements(s) ==
    {[s EXCEPT !.user_present = TRUE], [s EXCEPT !.phishing_resistant = TRUE],
     [s EXCEPT !.user_verified = TRUE], [s EXCEPT !.sign_count_ok = TRUE],
     [s EXCEPT !.sign_count_observed = TRUE],
     [s EXCEPT !.hardware_backed = IF @ = FALSE THEN Unknown ELSE TRUE]}
    \cup Younger(s)

\* Better evidence never costs points, a level or the admission: the signals,
\* the rounding of the age, the clamp, the thresholds of _classify and the
\* minima of the policy work in the same direction.
BetterIsNeverWorse ==
    Decided /\ signals # Unknown =>
        \A s \in Improvements(signals) :
            LET better == Scorer!score_event(s) IN
            /\ assurance.score <= better.score
            /\ assurance.level <= better.level
            /\ allow => Allows(policy, facts, better)

\* "Every point is attributable to a named signal" (scorer.py 5): no signal
\* gives more than its maximum, the maxima add up to the scale of 100, and the
\* score is the sum of the breakdown unless that is negative.
Attributable ==
    assurance # Unknown =>
        LET b == Scorer!Breakdown(signals) IN
        /\ \A name \in DOMAIN b : b[name] <= Scorer!MaxPoints[name]
        /\ Scorer!Total(Scorer!MaxPoints) = 100
        /\ assurance.score = Scorer!Total(b)
           \/ (Scorer!Total(b) < 0 /\ assurance.score = 0)

\* The event with one fact left out is what data.get makes of it; a constraint
\* on a fact is skipped without it where Skipped says so (evaluator.py 110, 125).
LeftOut(name) ==
    [facts EXCEPT ![name] = IF name \in {"phishing_resistant", "user_verified"}
                            THEN FALSE ELSE Unknown]
Skipped(name) ==
    CASE name = "attestation_format" -> {"format"}
      [] name = "aaguid" /\ policy.allowed_aaguids = Unknown -> {"aaguid"}
      [] OTHER -> {}

\* What denies the event but would not deny it with these facts and this score.
Lifted(f, a) ==
    Denials(policy, Event(facts, assurance)) \ Denials(policy, Event(f, a))

\* Leaving a fact or the signals out of an event lifts no denial, whatever else
\* the policy asks for (evaluator.py 68-157), with two exceptions: without a
\* format a list of formats denies nothing, and without an AAGUID a deny-list
\* denies nothing if there is no allow-list.
MissingFactNeverHelps ==
    Decided =>
        /\ \A name \in FactNames : Lifted(LeftOut(name), assurance) \subseteq Skipped(name)
        /\ Lifted(facts, Unknown) = {}

\* A policy that asks for AAL3 is satisfied only by signals of a hardware-backed
\* key, a verified user, a bound assertion and no clone warning, even if it asks
\* for none of them itself; one that asks for AAL2 by the middle two.
LevelCarriesSignals ==
    Decided /\ allow /\ policy.min_aal > 1 =>
        /\ signals # Unknown
        /\ signals.phishing_resistant /\ signals.user_verified
        /\ policy.min_aal = 3 => signals.hardware_backed = TRUE /\ signals.sign_count_ok

\* The registration of the authenticator that made the event.
Registration(f) == [fmt |-> f.attestation_format,
                    aaguid_hex |-> IF f.aaguid = Unknown THEN Unknown
                                   ELSE normalize_aaguid(f.aaguid),
                    user_verified |-> f.user_verified]

AsAttestationPolicy(p) ==
    [allowed_aaguids |-> p.allowed_aaguids, denied_aaguids |-> p.denied_aaguids,
     allowed_formats |-> p.allowed_formats,
     require_user_verification |-> p.require_user_verification]

\* With the same lists, the attestation policy at registration and the policy at
\* login deny the same authenticators and for the same reasons, however the
\* AAGUIDs are written: no credential is admitted that can never log in.
AdmissionAgreesWithLogin ==
    Decided /\ facts.attestation_format # Unknown =>
        AttestationDenials(AsAttestationPolicy(policy), Registration(facts))
            = Denials(policy, Event(facts, assurance))
                \cap {"format", "aaguid", "user_verification"}

\* An event is admitted (exit code 0) only if the words of the policy file admit
\* it.  Every key is known; phishing resistance is shown unless the file waives
\* it; a switch that is neither false nor null is on; an allow-list of origins or
\* AAGUIDs is a list, and the event's origin or AAGUID is on it; minima are
\* numbers, and one that asks for anything is reached by a score.  A stated list
\* of formats, or a lone format, binds an event that names its format, and a
\* deny-list of AAGUIDs one that names its AAGUID.  The rest of what may be
\* written is not enforced: both leave an event without the fact alone
\* (evaluator.py 110, 125), and a deny-list that is a lone string denies nobody,
\* being read letter by letter (112).
StatedIsEnforced ==
    allow =>
        LET stated(f, value) == f \in DOMAIN document.fields /\ document.fields[f] = value
            says(f) == f \in DOMAIN document.fields /\ document.fields[f] # Unknown
            value(f) == document.fields[f]
        IN  /\ document.form \in {"object", "text"}
            /\ DOMAIN document.fields \subseteq DOMAIN Defaults
            /\ \/ facts.phishing_resistant
               \/ \E no \in {FALSE, Unknown} : stated("require_phishing_resistant", no)
            /\ \A yes \in {TRUE, Other} :
                  /\ stated("require_user_verification", yes) => facts.user_verified
                  /\ stated("require_hardware_backed", yes) => facts.hardware_backed = TRUE
            /\ says("allowed_origins") =>
                  /\ value("allowed_origins").list
                  /\ \E o \in value("allowed_origins").items :
                        normalize_origin(o) = normalize_origin(facts.origin)
            /\ says("allowed_aaguids") =>
                  /\ value("allowed_aaguids").list
                  /\ \E a \in value("allowed_aaguids").items :
                        normalize_aaguid(a) = normalize_aaguid(facts.aaguid)
            /\ says("allowed_formats") /\ facts.attestation_format # Unknown =>
                  facts.attestation_format \in value("allowed_formats").items
            /\ "denied_aaguids" \in DOMAIN document.fields /\ facts.aaguid # Unknown =>
                  /\ value("denied_aaguids") \notin {Unknown, Other}
                  /\ value("denied_aaguids").list =>
                        \A a \in value("denied_aaguids").items :
                           normalize_aaguid(a) # normalize_aaguid(facts.aaguid)
            /\ \A f \in {"min_aal", "min_assurance"} \cap DOMAIN document.fields :
                  value(f) \in Nat
            /\ says("min_aal") /\ value("min_aal") > 1 =>
                  assurance # Unknown /\ assurance.level >= value("min_aal")
            /\ says("min_assurance") /\ value("min_assurance") > 0 =>
                  assurance # Unknown /\ assurance.score >= value("min_assurance")
=============================================================================
