------------------------------- MODULE Policy -------------------------------
(***************************************************************************)
(* src/passkit/policy (model.py, evaluator.py) and the registration policy *)
(* of src/passkit/attestation (parser.py, policy.py): what each constraint *)
(* of a policy denies.  A denial is named after its constraint; the texts  *)
(* of reasons and matches are left out.                                    *)
(***************************************************************************)
EXTENDS Integers, FiniteSets

CONSTANT Unknown    \* Python's None

\* metadata.normalize_aaguid: dashes and letter case do not matter.  A raw
\* AAGUID is its digits and the way they are written.
normalize_aaguid(a) == a.digits
NormalizedAaguids(as) == {normalize_aaguid(a) : a \in as}

\* _util.normalize_origin, with the same abstraction; it raises ValueError for
\* text that is no origin.
normalize_origin(o) == o.origin
IsOrigin(o) == o.origin # Unknown

DeniedIf(name, condition) == IF condition THEN {name} ELSE {}

-----------------------------------------------------------------------------
\* evaluate_policy, one constraint after the other; all are evaluated.
OriginDeniedIfGiven(p, e) ==
    /\ p.allowed_origins # Unknown
    /\ e.origin # Unknown
    /\ \/ ~IsOrigin(e.origin)
       \/ normalize_origin(e.origin)
             \notin {normalize_origin(o) : o \in p.allowed_origins}

OriginDenied(p, e) ==
    /\ p.allowed_origins # Unknown
    /\ \/ e.origin = Unknown
       \/ ~IsOrigin(e.origin)
       \/ \E o \in p.allowed_origins : ~IsOrigin(o)
       \/ normalize_origin(e.origin)
             \notin {normalize_origin(o) : o \in p.allowed_origins}

AaguidDenied(p, aaguid) ==
    /\ aaguid # Unknown
    /\ normalize_aaguid(aaguid) \in NormalizedAaguids(p.denied_aaguids)

AaguidNotAllowed(p, aaguid) ==
    /\ p.allowed_aaguids # Unknown
    /\ \/ aaguid = Unknown
       \/ normalize_aaguid(aaguid) \notin NormalizedAaguids(p.allowed_aaguids)

FormatDenied(p, e) ==
    /\ p.allowed_formats # Unknown
    /\ e.attestation_format # Unknown
    /\ e.attestation_format \notin p.allowed_formats

AssuranceDenied(p, a) ==
    IF a = Unknown THEN p.min_assurance > 0 \/ p.min_aal > 1
    ELSE a.score < p.min_assurance \/ a.level < p.min_aal

Denials(p, e) ==
    DeniedIf("phishing_resistant",
             p.require_phishing_resistant /\ ~e.phishing_resistant)
    \cup DeniedIf("user_verification", p.require_user_verification /\ ~e.user_verified)
    \cup DeniedIf("hardware_backed",
                  p.require_hardware_backed /\ e.hardware_backed # TRUE)
    \cup DeniedIf("origin", OriginDenied(p, e))
    \cup DeniedIf("aaguid", AaguidDenied(p, e.aaguid) \/ AaguidNotAllowed(p, e.aaguid))
    \cup DeniedIf("format", FormatDenied(p, e))
    \cup DeniedIf("assurance", AssuranceDenied(p, e.assurance))

evaluate_policy(p, e) == Denials(p, e) = {}

-----------------------------------------------------------------------------
\* check_attestation_policy on a registration r.  The AAGUID of the parsed
\* object is already in normal form.  require_resident_key adds a reason to the
\* result and never denies, so it is left out.
AttestationAaguidUnlisted(p, hex) ==
    p.allowed_aaguids # Unknown /\ hex \notin NormalizedAaguids(p.allowed_aaguids)

AttestationAaguidDenied(p, hex) ==
    IF hex = Unknown THEN p.allowed_aaguids # Unknown
    ELSE \/ hex \in NormalizedAaguids(p.denied_aaguids)
         \/ /\ p.allowed_aaguids # Unknown
            /\ hex \notin NormalizedAaguids(p.allowed_aaguids)

AttestationDenials(p, r) ==
    DeniedIf("format",
             p.allowed_formats # Unknown /\ r.fmt \notin p.allowed_formats)
    \cup DeniedIf("aaguid", AttestationAaguidDenied(p, r.aaguid_hex))
    \cup DeniedIf("user_verification", p.require_user_verification /\ ~r.user_verified)

check_attestation_policy(p, r) == AttestationDenials(p, r) = {}
=============================================================================
