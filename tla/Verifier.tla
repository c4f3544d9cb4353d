------------------------------ MODULE Verifier ------------------------------
(***************************************************************************)
(* src/passkit/webauthn/verifier.py with the parsers it calls: what        *)
(* verify_registration and verify_assertion raise or return for a parsed   *)
(* or unparsable response.  Bytes are abstracted to records; a signature   *)
(* is the record of the key and of what was signed; a hash is its input.   *)
(***************************************************************************)
EXTENDS Naturals, Sequences

CONSTANTS
    Keys,       \* COSE keys parse_cose_key accepts
    OffCurve,   \* one whose numbers make no public key (a point off the curve)
    None        \* a missing field, Python's None

TYPE_CREATE == "webauthn.create"
TYPE_GET == "webauthn.get"

-----------------------------------------------------------------------------
\* An error is its class and code; Accepted stands for a normal return.
Raise(class, code) == [raised |-> class, code |-> code]
Fail(code) == Raise("VerificationError", code)
Accepted == [raised |-> "nothing", code |-> "ok"]

\* Checks are made in order and the first that fails decides.
Check(holds, error) == [holds |-> holds, error |-> error]
FirstError(checks) ==
    IF \A i \in DOMAIN checks : checks[i].holds THEN Accepted
    ELSE checks[CHOOSE i \in DOMAIN checks :
                  /\ ~checks[i].holds
                  /\ \A j \in 1 .. i - 1 : checks[j].holds].error

-----------------------------------------------------------------------------
\* Origins (_util.py): an origin needs a scheme and a host, and the default
\* port of its scheme is dropped.  Letter case is left out.
ValidOrigin(o) == o # None /\ o.scheme # "" /\ o.host # ""

IsDefaultPort(o) == \/ o.scheme = "https" /\ o.port = 443
                    \/ o.scheme = "http" /\ o.port = 80

normalize_origin(o) == IF IsDefaultPort(o) THEN [o EXCEPT !.port = None] ELSE o

AllowedAsWritten(origins) == origins
AllowedOrigins(origins) == {normalize_origin(o) : o \in origins}

\* parse_client_data: JSON object, three strings, an optional Boolean.
ClientDataParses(cd) ==
    /\ cd.json
    /\ cd.type # None
    /\ cd.challenge # None
    /\ cd.origin # None
    /\ cd.crossOrigin \in BOOLEAN \cup {None}

\* _check_challenge and _check_origin.
ChallengeChecks(cd, expected_challenge) ==
    << Check(expected_challenge # None, Fail("config")),
       Check(cd.challenge = expected_challenge, Fail("challenge_mismatch")) >>

OriginWellFormed(cd, expected_origins) ==
    << Check(ValidOrigin(cd.origin), Fail("bad_origin")) >>

OriginChecks(cd, expected_origins) ==
    << Check(expected_origins # {}, Fail("config")),
       Check(ValidOrigin(cd.origin), Fail("bad_origin")),
       Check(\A o \in expected_origins : ValidOrigin(o), Fail("config")),
       Check(/\ ValidOrigin(cd.origin)
             /\ normalize_origin(cd.origin) \in AllowedOrigins(expected_origins),
             Fail("origin_mismatch")) >>

UntypedClientDataChecks(cd, type, c) ==
    << Check(ClientDataParses(cd), Fail("bad_clientdata")) >>
    \o ChallengeChecks(cd, c.expected_challenge)
    \o OriginChecks(cd, c.expected_origins)

ClientDataChecks(cd, type, c) ==
    << Check(ClientDataParses(cd), Fail("bad_clientdata")),
       Check(cd.type = type, Fail("bad_type")) >>
    \o ChallengeChecks(cd, c.expected_challenge)
    \o OriginChecks(cd, c.expected_origins)

\* parse_authenticator_data as its one outcome here, then _check_rp_id_hash
\* and the UP and UV flags.
AuthDataChecks(ad, c) ==
    << Check(ad.parses, Fail("bad_authdata")),
       Check(ad.rp_id_hash = c.rp_id, Fail("rpid_mismatch")),
       Check(ad.user_present, Fail("up_missing")),
       Check(c.require_user_verification => ad.user_verified, Fail("uv_required")) >>

\* cose.parse_cose_key: public_key() of the cryptography library raises
\* ValueError; any other key that is not supported is a COSEError.
KeyChecks(key) ==
    << Check(key # OffCurve, Raise("ValueError", "bad_key")),
       Check(key \in Keys, Raise("COSEError", "bad_key")) >>

\* parse_attestation_object: a map key that Python cannot hash (a list or a
\* map), not CBOR, or not the map of fmt, attStmt, authData.
AttestationChecks(att) ==
    << Check(att.hashable, Raise("TypeError", "unhashable")),
       Check(att.cbor, Raise("AttestationError", "bad_cbor")),
       Check(att.structure, Raise("AttestationError", "bad_structure")) >>

-----------------------------------------------------------------------------
NoKeyChecks(ad) == << >>
CredentialKeyChecks(ad) ==
    IF ad.attested = None THEN << >> ELSE KeyChecks(ad.attested.key)

verify_registration(c) ==
    LET ad == c.attestation_object.auth_data IN
    FirstError(
        ClientDataChecks(c.client_data, TYPE_CREATE, c)
        \o AttestationChecks(c.attestation_object)
        \o AuthDataChecks(ad, c)
        \o << Check(ad.attested # None, Fail("no_attested_data")) >>
        \o CredentialKeyChecks(ad))

\* The key and the bytes authenticatorData || SHA-256(clientDataJSON).
SignedAuthData(key, ad, cd) == [key |-> key, auth_data |-> ad, client_data |-> None]
Signed(key, ad, cd) == [key |-> key, auth_data |-> ad, client_data |-> cd]

verify_assertion(c) ==
    FirstError(
        << Check(\/ c.credential_id = None
                 \/ c.expected_credential_id = None
                 \/ c.credential_id = c.expected_credential_id,
                 Fail("cred_mismatch")) >>
        \o ClientDataChecks(c.client_data, TYPE_GET, c)
        \o AuthDataChecks(c.auth_data, c)
        \o KeyChecks(c.credential_public_key)
        \o << Check(c.signature =
                      Signed(c.credential_public_key, c.auth_data, c.client_data),
                    Fail("bad_signature")) >>)

\* Lines 265-276: whether an accepted assertion carries a clone warning.
clone_warning_if_lower(c) == c.auth_data.sign_count < c.stored_sign_count
clone_warning(c) ==
    /\ c.auth_data.sign_count # 0 \/ c.stored_sign_count # 0
    /\ c.auth_data.sign_count <= c.stored_sign_count

new_sign_count(c) == c.auth_data.sign_count
=============================================================================
