----------------------------- MODULE Ceremonies -----------------------------
(***************************************************************************)
(* Calls of the two verifiers: a good response to a ceremony, or one that  *)
(* differs from it in the client data, the authenticator data, the         *)
(* signature and the caller's arguments, in one place or in several.  The  *)
(* properties compare the verdict on a call with the verdicts on the calls *)
(* it could be confused with.                                              *)
(***************************************************************************)
EXTENDS Verifier, FiniteSets

CONSTANTS
    Challenges, OtherChallenge,
    RpIds,
    Origins,        \* raw origins, among them different spellings of one
    CredIds,
    BadKey,         \* what parse_cose_key refuses
    Junk,           \* a value of another JSON type
    MaxCount,       \* bound on the signature counters
    ClientDatas,    \* the client data and the arguments a run tries
    Arguments

AnyKey == Keys \cup {BadKey, OffCurve}
AnyChallenge == Challenges \cup {OtherChallenge}
OneId == CHOOSE i \in CredIds : TRUE
OneRpId == CHOOSE r \in RpIds : TRUE
NoHost == [scheme |-> "", host |-> "", port |-> None]
AnyClientData ==
    [json : BOOLEAN, type : {TYPE_CREATE, TYPE_GET, None},
     challenge : AnyChallenge \cup {None}, origin : Origins \cup {NoHost, None},
     crossOrigin : BOOLEAN \cup {Junk, None}]

ASSUME CeremoniesAssumption ==
    /\ {BadKey, OffCurve} \cap Keys = {}
    /\ OtherChallenge \notin Challenges
    /\ MaxCount \in Nat
    /\ ClientDatas \subseteq AnyClientData
    /\ \A a \in Arguments :
          /\ DOMAIN a = {"expected_challenge", "expected_origins", "rp_id",
                         "require_user_verification"}
          /\ a.require_user_verification \in BOOLEAN

\* None is no number, text, record or result.
ASSUME NoneAssumption ==
    /\ None \notin Nat
    /\ None # TYPE_GET /\ None # Accepted
    /\ \A o \in Origins \cup {NoHost} \cup UNION {a.expected_origins : a \in Arguments} :
          /\ DOMAIN o = {"scheme", "host", "port"}
          /\ o # None /\ [o EXCEPT !.port = None] # None

VARIABLES
    call,       \* the call being verified
    verdict     \* what it raised or returned, None before

vars == <<call, verdict>>

-----------------------------------------------------------------------------
\* Client data a browser, or a faulty client, sends.
WellFormedClientData ==
    [json : {TRUE}, type : {TYPE_CREATE, TYPE_GET}, challenge : AnyChallenge,
     origin : Origins, crossOrigin : {FALSE}]

Faulty(cds) ==
    {[cd EXCEPT !.json = FALSE] : cd \in cds}
        \cup {[cd EXCEPT !.type = None] : cd \in cds}
        \cup {[cd EXCEPT !.challenge = None] : cd \in cds}
        \cup {[cd EXCEPT !.origin = None] : cd \in cds}
        \cup {[cd EXCEPT !.crossOrigin = Junk] : cd \in cds}
        \cup {[cd EXCEPT !.origin = NoHost] : cd \in cds}

AttestedData == [credential_id : CredIds, key : AnyKey]

AuthData(attested) ==
    [parses : {TRUE}, rp_id_hash : RpIds, user_present : BOOLEAN,
     user_verified : BOOLEAN, sign_count : 0 .. MaxCount, attested : attested]
        \cup [parses : {FALSE}, rp_id_hash : {OneRpId},
              user_present : {TRUE}, user_verified : {TRUE}, sign_count : {0},
              attested : attested]

Extend(args, more) == [f \in DOMAIN args \cup DOMAIN more |->
                          IF f \in DOMAIN args THEN args[f] ELSE more[f]]

IsRegistration ==
    \E a \in Arguments, cd \in ClientDatas,
      form \in {"good", "unhashable", "bad_cbor", "bad_structure"},
      ad \in AuthData({None} \cup AttestedData) :
        call = Extend(a, [kind |-> "registration", client_data |-> cd,
                          attestation_object |->
                             [hashable |-> form # "unhashable",
                              cbor |-> form # "bad_cbor",
                              structure |-> form = "good", auth_data |-> ad]])

\* The signature covers the response, or another counter or another type, or
\* comes from another key.
Signatures(ad, cd) ==
    {Signed(k, ad, cd) : k \in Keys}
        \cup {Signed(k, [ad EXCEPT !.sign_count = MaxCount - @], cd) : k \in Keys}
        \cup {Signed(k, ad, [cd EXCEPT !.type = TYPE_CREATE]) : k \in Keys}

IsAssertion ==
    \E a \in Arguments, cd \in ClientDatas, ad \in AuthData({None}),
      key \in AnyKey, n \in 0 .. MaxCount,
      id \in {OneId}, expected \in CredIds \cup {None} :
        \E sig \in Signatures(ad, cd) :
           call = Extend(a, [kind |-> "assertion", client_data |-> cd,
                             auth_data |-> ad, signature |-> sig,
                             credential_public_key |-> key,
                             stored_sign_count |-> n, credential_id |-> id,
                             expected_credential_id |-> expected])

-----------------------------------------------------------------------------
Verdict(c) ==
    IF c.kind = "registration" THEN verify_registration(c) ELSE verify_assertion(c)

\* cli.py, verify-registration and verify-assertion and main: the exit code.  A
\* PassKitError or a ValueError gives 2, what is caught nowhere 1.
exit_code(c) ==
    CASE Verdict(c).raised = "TypeError" -> 1
      [] Verdict(c).raised \in {"VerificationError", "AttestationError",
                               "COSEError", "ValueError"} -> 2
      [] Verdict(c) = Accepted ->
            IF c.kind = "assertion" /\ clone_warning(c) THEN 3 ELSE 0

Init ==
    /\ IsRegistration \/ IsAssertion
    /\ verdict = None

Verify ==
    /\ verdict = None
    /\ verdict' = Verdict(call)
    /\ UNCHANGED call

Next == Verify

Spec == Init /\ [][Next]_vars
-----------------------------------------------------------------------------
IsAccepted(kind) == call.kind = kind /\ verdict = Accepted

\* Demo 10, for every change and not six: no other client data, authenticator
\* data or key fits the signature of an accepted assertion.
TamperEvident ==
    IsAccepted("assertion") =>
        /\ \A cd \in ClientDatas \ {call.client_data} :
              verify_assertion([call EXCEPT !.client_data = cd]) # Accepted
        /\ \A ad \in AuthData({None}) \ {call.auth_data} :
              verify_assertion([call EXCEPT !.auth_data = ad]) # Accepted
        /\ \A k \in AnyKey \ {call.credential_public_key} :
              verify_assertion([call EXCEPT !.credential_public_key = k]) # Accepted

\* How an origin is spelled, in the response or in the configuration, never
\* changes the verdict (_util.py 34-50: the two forms "compare equal").
Short(o) ==
    IF <<o.scheme, o.port>> \in {<<"https", 443>>, <<"http", 80>>}
    THEN [o EXCEPT !.port = None] ELSE o

Respell(c) ==
    LET cd == [c.client_data EXCEPT !.origin = Short(@)]
        d == [c EXCEPT !.client_data = cd,
                       !.expected_origins = {Short(o) : o \in @}]
    IN  IF c.kind = "registration" THEN d
        ELSE [d EXCEPT !.signature.client_data.origin =
                         IF @ = None THEN None ELSE Short(@)]

SpellingIrrelevant ==
    verdict # None /\ call.client_data.origin # None =>
        verdict = Verdict(Respell(call))

\* Once the counter of an accepted assertion is stored, as WEBAUTHN.md 46 says
\* to, the next assertion of the same key for the same request passes without a
\* warning only if its counter is higher, or if there is no counter at all; with
\* the same or an older one verify-assertion exits with 3 (CLI.md 60).
ReplayWarns ==
    IsAccepted("assertion") =>
        \A n \in 0 .. MaxCount :
            LET stored == new_sign_count(call)
                ad == [call.auth_data EXCEPT !.sign_count = n]
                next == [call EXCEPT
                            !.stored_sign_count = stored, !.auth_data = ad,
                            !.signature = Signed(call.credential_public_key, ad,
                                                 call.client_data)]
            IN  exit_code(next) = (IF n > stored \/ (n = 0 /\ stored = 0) THEN 0 ELSE 3)

\* The assertion a genuine authenticator makes with the registered key: what
\* was registered can be logged in with, whatever its counter (line 178: "so we
\* never persist a credential we cannot later verify against").
LoginAfter(c) ==
    LET cd == [c.client_data EXCEPT !.type = TYPE_GET]
        old == c.attestation_object.auth_data
        ad == [old EXCEPT !.attested = None]
    IN  Extend(c, [auth_data |-> ad, signature |-> Signed(old.attested.key, ad, cd),
                   credential_public_key |-> old.attested.key,
                   stored_sign_count |-> old.sign_count,
                   credential_id |-> old.attested.credential_id,
                   expected_credential_id |-> old.attested.credential_id])

RegisteredIsUsable ==
    IsAccepted("registration") =>
        verify_assertion([LoginAfter(call) EXCEPT !.client_data.type = TYPE_GET])
            = Accepted

\* A registration response signed with the credential's own key (packed self
\* attestation signs the same bytes as an assertion) is not a login.
RegistrationIsNoLogin ==
    IsAccepted("registration") =>
        LET ad == call.attestation_object.auth_data
        IN  verify_assertion([LoginAfter(call) EXCEPT !.auth_data = ad,
                !.signature = Signed(ad.attested.key, ad, call.client_data)]) # Accepted

\* "Raises VerificationError on any failure" (lines 148 and 225) and "Every
\* rejection raises VerificationError" (ARCHITECTURE.md 82).
OnlyVerificationError ==
    verdict # None => verdict.raised \in {"nothing", "VerificationError"}
=============================================================================
