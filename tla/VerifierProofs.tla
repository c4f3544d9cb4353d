--------------------------- MODULE VerifierProofs ---------------------------
(***************************************************************************)
(* What verify_assertion and verify_registration accept, for every input:  *)
(* a response passes exactly if each of the checks holds.  The code raises *)
(* at the first that fails, so the proof needs the least failing check.    *)
(***************************************************************************)
EXTENDS Verifier, WellFoundedInduction, TLAPS

\* A nonempty set of naturals has a least member.
LEMMA LeastMember ==
  ASSUME NEW T \in SUBSET Nat, T # {}
  PROVE \E x \in T : \A y \in T : x <= y
<1> DEFINE R == OpToRel(<, Nat)
<1>1. IsWellFoundedOn(R, Nat)
  BY NatLessThanWellFounded
<1>2. \A x, y \in Nat : y < x => <<y, x>> \in R
  BY DEF OpToRel
<1> HIDE DEF R
<1>3. \E x \in T : \A y \in T : ~ (<<y, x>> \in R)
  BY <1>1, WFMin, Zenon
<1>4. PICK x \in T : \A y \in T : ~ (<<y, x>> \in R)
  BY <1>3, Zenon
<1>5. ASSUME NEW y \in T PROVE x <= y
  <2>1. x \in Nat /\ y \in Nat
    OBVIOUS
  <2>2. ~ (<<y, x>> \in R)
    BY <1>4
  <2>3. ~ (y < x)
    BY <1>2, <2>1, <2>2
  <2> QED BY <2>1, <2>3
<1> QED BY <1>5

\* A check that raises an error, and never Accepted, when it fails.
Classes == {"VerificationError", "ValueError", "COSEError", "AttestationError", "TypeError"}
Codes == {"cred_mismatch", "bad_clientdata", "bad_type", "config", "challenge_mismatch",
          "bad_origin", "origin_mismatch", "bad_authdata", "rpid_mismatch",
          "up_missing", "uv_required", "bad_key", "bad_signature",
          "unhashable", "bad_cbor", "bad_structure", "no_attested_data"}
Checks == [holds : BOOLEAN, error : [raised : Classes, code : Codes]]
AllHold(checks) == \A i \in 1 .. Len(checks) : checks[i].holds

\* No error that a check raises is a normal return.
LEMMA RejectingErrors == Accepted \notin [raised : Classes, code : Codes]
BY DEF Accepted, Classes

\* The first failing check decides, so acceptance means that none fails.
LEMMA AcceptedIffAllHold ==
  ASSUME NEW checks \in Seq(Checks)
  PROVE  FirstError(checks) = Accepted <=> AllHold(checks)
<1>0. DOMAIN checks = 1 .. Len(checks) /\ Len(checks) \in Nat
  OBVIOUS
<1>1. ASSUME AllHold(checks) PROVE FirstError(checks) = Accepted
  BY <1>0, <1>1 DEF FirstError, AllHold
<1>2. ASSUME FirstError(checks) = Accepted, ~AllHold(checks) PROVE FALSE
  <2> DEFINE failing == {i \in 1 .. Len(checks) : ~checks[i].holds}
  <2>1. failing \in SUBSET Nat /\ failing # {}
    BY <1>0, <1>2 DEF AllHold
  <2> HIDE DEF failing
  <2>2. \E i \in failing : \A j \in failing : i <= j
    BY <2>1, LeastMember, Zenon
  <2>3. PICK i \in failing : \A j \in failing : i <= j
    BY <2>2, Zenon
  <2> DEFINE Least(k) == ~checks[k].holds /\ \A j \in 1 .. k - 1 : checks[j].holds
  <2>4. i \in DOMAIN checks /\ Least(i)
    BY <1>0, <2>3 DEF failing
  <2> DEFINE first == CHOOSE k \in DOMAIN checks : Least(k)
  <2>5. first \in DOMAIN checks
    BY <2>4
  <2>6. FirstError(checks) = checks[first].error
    BY <1>0, <1>2 DEF FirstError, AllHold
  <2> HIDE DEF first
  <2>7. checks[first] \in Checks
    BY <2>5
  <2> QED
    BY <1>2, <2>6, <2>7, RejectingErrors DEF Checks
<1> QED
  BY <1>1, <1>2

\* Two lists of checks in a row hold if each does.
LEMMA PassBoth ==
  ASSUME NEW s \in Seq(Checks), NEW t \in Seq(Checks)
  PROVE  /\ s \o t \in Seq(Checks)
         /\ AllHold(s \o t) <=> AllHold(s) /\ AllHold(t)
<1>1. s \o t \in Seq(Checks) /\ Len(s \o t) = Len(s) + Len(t)
  OBVIOUS
<1>2. ASSUME AllHold(s \o t), NEW i \in 1 .. Len(s) PROVE s[i].holds
  <2>1. i \in 1 .. Len(s \o t) /\ (s \o t)[i] = s[i]
    BY <1>1
  <2> QED BY <1>2, <2>1 DEF AllHold
<1>3. ASSUME AllHold(s \o t), NEW i \in 1 .. Len(t) PROVE t[i].holds
  <2>1. Len(s) + i \in 1 .. Len(s \o t) /\ (s \o t)[Len(s) + i] = t[i]
    BY <1>1
  <2> QED BY <1>3, <2>1 DEF AllHold
<1>4. ASSUME AllHold(s), AllHold(t), NEW i \in 1 .. Len(s \o t) PROVE (s \o t)[i].holds
  <2>1. CASE i \in 1 .. Len(s)
    BY <1>1, <1>4, <2>1 DEF AllHold
  <2>2. CASE i \notin 1 .. Len(s)
    <3>1. i - Len(s) \in 1 .. Len(t) /\ (s \o t)[i] = t[i - Len(s)]
      BY <1>1, <2>2
    <3> QED BY <1>4, <3>1 DEF AllHold
  <2> QED BY <2>1, <2>2
<1> QED BY <1>1, <1>2, <1>3, <1>4 DEF AllHold

\* A check that raises VerificationError is a check.
LEMMA FailTyped ==
  \A holds \in BOOLEAN, code \in Codes : Check(holds, Fail(code)) \in Checks
BY DEF Check, Fail, Raise, Checks, Classes

\* Lists of one to four checks hold if their members do.
LEMMA PassOne ==
  ASSUME NEW holds \in BOOLEAN, NEW error, Check(holds, error) \in Checks
  PROVE  /\ <<Check(holds, error)>> \in Seq(Checks)
         /\ AllHold(<<Check(holds, error)>>) <=> holds
<1>1. /\ <<Check(holds, error)>> \in Seq(Checks)
      /\ Len(<<Check(holds, error)>>) = 1
  OBVIOUS
<1>2. Check(holds, error).holds = holds
  BY DEF Check
<1> QED BY <1>1, <1>2 DEF AllHold

LEMMA PassTwo ==
  ASSUME NEW a \in Checks, NEW b \in Checks
  PROVE  /\ <<a, b>> \in Seq(Checks)
         /\ AllHold(<<a, b>>) <=> a.holds /\ b.holds
<1>1. <<a, b>> \in Seq(Checks) /\ Len(<<a, b>>) = 2
  OBVIOUS
<1>2. \A i \in 1 .. 2 : i = 1 \/ i = 2
  OBVIOUS
<1> QED BY <1>1, <1>2 DEF AllHold

LEMMA PassThree ==
  ASSUME NEW a \in Checks, NEW b \in Checks, NEW c \in Checks
  PROVE  /\ <<a, b, c>> \in Seq(Checks)
         /\ AllHold(<<a, b, c>>) <=> a.holds /\ b.holds /\ c.holds
<1>1. <<a, b, c>> \in Seq(Checks) /\ Len(<<a, b, c>>) = 3
  OBVIOUS
<1>2. \A i \in 1 .. 3 : i = 1 \/ i = 2 \/ i = 3
  OBVIOUS
<1> QED BY <1>1, <1>2 DEF AllHold

LEMMA PassFour ==
  ASSUME NEW a \in Checks, NEW b \in Checks, NEW c \in Checks, NEW d \in Checks
  PROVE  /\ <<a, b, c, d>> \in Seq(Checks)
         /\ AllHold(<<a, b, c, d>>) <=> a.holds /\ b.holds /\ c.holds /\ d.holds
<1>1. <<a, b, c, d>> \in Seq(Checks) /\ Len(<<a, b, c, d>>) = 4
  OBVIOUS
<1>2. \A i \in 1 .. 4 : i = 1 \/ i = 2 \/ i = 3 \/ i = 4
  OBVIOUS
<1> QED BY <1>1, <1>2 DEF AllHold

-----------------------------------------------------------------------------
\* What the groups of checks ask for.
ClientDataGood(cd, type, c) ==
    /\ ClientDataParses(cd)
    /\ cd.type = type
    /\ c.expected_challenge # None
    /\ cd.challenge = c.expected_challenge
    /\ c.expected_origins # {}
    /\ ValidOrigin(cd.origin)
    /\ \A o \in c.expected_origins : ValidOrigin(o)
    /\ normalize_origin(cd.origin) \in AllowedOrigins(c.expected_origins)
AuthDataGood(ad, c) ==
    /\ ad.parses
    /\ ad.rp_id_hash = c.rp_id
    /\ ad.user_present
    /\ c.require_user_verification => ad.user_verified
KeyGood(key) == key # OffCurve /\ key \in Keys
Wanted(c) ==
    \/ c.credential_id = None
    \/ c.expected_credential_id = None
    \/ c.credential_id = c.expected_credential_id

\* The inputs of a verifier that the program reads as truth values.
Readable(c, ad) ==
    /\ c.client_data.json \in BOOLEAN
    /\ ad.parses \in BOOLEAN
    /\ ad.user_present \in BOOLEAN
    /\ ad.user_verified \in BOOLEAN
    /\ c.require_user_verification \in BOOLEAN

\* The checks of the client data hold of exactly the good ones.
LEMMA ClientDataPasses ==
  ASSUME NEW cd, cd.json \in BOOLEAN, NEW type, NEW c
  PROVE  /\ ClientDataChecks(cd, type, c) \in Seq(Checks)
         /\ AllHold(ClientDataChecks(cd, type, c)) <=> ClientDataGood(cd, type, c)
<1> DEFINE a == <<Check(ClientDataParses(cd), Fail("bad_clientdata")),
                  Check(cd.type = type, Fail("bad_type"))>>
           b == ChallengeChecks(cd, c.expected_challenge)
           d == OriginChecks(cd, c.expected_origins)
           own == normalize_origin(cd.origin) \in AllowedOrigins(c.expected_origins)
<1>1. ClientDataChecks(cd, type, c) = a \o b \o d
  BY DEF ClientDataChecks
<1>2. /\ a \in Seq(Checks)
      /\ AllHold(a) <=> ClientDataParses(cd) /\ cd.type = type
  <2> DEFINE p == Check(ClientDataParses(cd), Fail("bad_clientdata"))
             q == Check(cd.type = type, Fail("bad_type"))
  <2>1. ClientDataParses(cd) \in BOOLEAN
    BY DEF ClientDataParses
  <2>2. p \in Checks
    BY <2>1, FailTyped DEF Codes
  <2>3. q \in Checks
    BY FailTyped DEF Codes
  <2>4. p.holds = ClientDataParses(cd) /\ q.holds = (cd.type = type)
    BY DEF Check
  <2>5. a = <<p, q>>
    OBVIOUS
  <2> HIDE DEF p, q, a
  <2> QED BY <2>2, <2>3, <2>4, <2>5, PassTwo
<1>3. /\ b \in Seq(Checks)
      /\ AllHold(b) <=> c.expected_challenge # None /\ cd.challenge = c.expected_challenge
  <2> DEFINE p == Check(c.expected_challenge # None, Fail("config"))
             q == Check(cd.challenge = c.expected_challenge, Fail("challenge_mismatch"))
  <2>1. p \in Checks /\ q \in Checks
    BY FailTyped DEF Codes
  <2>2. /\ p.holds = (c.expected_challenge # None)
        /\ q.holds = (cd.challenge = c.expected_challenge)
    BY DEF Check
  <2>3. b = <<p, q>>
    BY DEF ChallengeChecks
  <2> HIDE DEF p, q, b
  <2> QED BY <2>1, <2>2, <2>3, PassTwo
<1>4. /\ d \in Seq(Checks)
      /\ AllHold(d) <=> /\ c.expected_origins # {}
                        /\ ValidOrigin(cd.origin)
                        /\ \A o \in c.expected_origins : ValidOrigin(o)
                        /\ own
  <2> DEFINE p == Check(c.expected_origins # {}, Fail("config"))
             q == Check(ValidOrigin(cd.origin), Fail("bad_origin"))
             r == Check(\A o \in c.expected_origins : ValidOrigin(o), Fail("config"))
             s == Check(ValidOrigin(cd.origin) /\ own, Fail("origin_mismatch"))
  <2>1. p \in Checks /\ r \in Checks
    BY FailTyped DEF Codes
  <2>2. ValidOrigin(cd.origin) \in BOOLEAN
    BY DEF ValidOrigin
  <2>3. q \in Checks /\ s \in Checks
    BY FailTyped, <2>2 DEF Codes
  <2>4. /\ p.holds = (c.expected_origins # {})
        /\ q.holds = ValidOrigin(cd.origin)
        /\ r.holds = (\A o \in c.expected_origins : ValidOrigin(o))
        /\ s.holds = (ValidOrigin(cd.origin) /\ own)
    BY DEF Check
  <2>5. d = <<p, q, r, s>>
    BY DEF OriginChecks
  <2> HIDE DEF p, q, r, s, d, own
  <2>6. d \in Seq(Checks) /\ (AllHold(d) <=> p.holds /\ q.holds /\ r.holds /\ s.holds)
    BY <2>1, <2>3, <2>5, PassFour
  <2> QED BY <2>2, <2>4, <2>6
<1> HIDE DEF a, b, d
<1>5. /\ a \o b \in Seq(Checks)
      /\ AllHold(a \o b) <=> AllHold(a) /\ AllHold(b)
  BY <1>2, <1>3, PassBoth
<1>6. /\ (a \o b) \o d \in Seq(Checks)
      /\ AllHold((a \o b) \o d) <=> AllHold(a \o b) /\ AllHold(d)
  BY <1>4, <1>5, PassBoth
<1> QED BY <1>1, <1>2, <1>3, <1>4, <1>5, <1>6 DEF ClientDataGood

\* The checks of the authenticator data hold of exactly the good ones.
LEMMA AuthDataPasses ==
  ASSUME NEW ad, NEW c, Readable(c, ad)
  PROVE  /\ AuthDataChecks(ad, c) \in Seq(Checks)
         /\ AllHold(AuthDataChecks(ad, c)) <=> AuthDataGood(ad, c)
<1> DEFINE verified == c.require_user_verification => ad.user_verified
           p == Check(ad.parses, Fail("bad_authdata"))
           q == Check(ad.rp_id_hash = c.rp_id, Fail("rpid_mismatch"))
           r == Check(ad.user_present, Fail("up_missing"))
           s == Check(verified, Fail("uv_required"))
<1>1. verified \in BOOLEAN
  OBVIOUS
<1>2. p \in Checks /\ q \in Checks /\ r \in Checks
  BY FailTyped DEF Codes, Readable
<1>3. s \in Checks
  BY <1>1, FailTyped DEF Codes
<1>4. /\ p.holds = ad.parses
      /\ q.holds = (ad.rp_id_hash = c.rp_id)
      /\ r.holds = ad.user_present
      /\ s.holds = verified
  BY DEF Check
<1>5. AuthDataChecks(ad, c) = <<p, q, r, s>>
  BY DEF AuthDataChecks
<1> HIDE DEF p, q, r, s, verified
<1>6. /\ AuthDataChecks(ad, c) \in Seq(Checks)
      /\ AllHold(AuthDataChecks(ad, c)) <=> p.holds /\ q.holds /\ r.holds /\ s.holds
  BY <1>2, <1>3, <1>5, PassFour
<1> QED BY <1>4, <1>6 DEF verified, AuthDataGood, Readable

\* parse_cose_key accepts exactly the good keys.
LEMMA KeyPasses ==
  ASSUME NEW key
  PROVE  /\ KeyChecks(key) \in Seq(Checks)
         /\ AllHold(KeyChecks(key)) <=> KeyGood(key)
<1> DEFINE p == Check(key # OffCurve, Raise("ValueError", "bad_key"))
           q == Check(key \in Keys, Raise("COSEError", "bad_key"))
<1>1. p \in Checks /\ q \in Checks
  BY DEF Check, Raise, Checks, Classes, Codes
<1>2. p.holds = (key # OffCurve) /\ q.holds = (key \in Keys)
  BY DEF Check
<1>3. KeyChecks(key) = <<p, q>>
  BY DEF KeyChecks
<1> HIDE DEF p, q
<1> QED BY <1>1, <1>2, <1>3, PassTwo DEF KeyGood

\* Five groups of checks accept what passes each group.
LEMMA FivePass ==
  ASSUME NEW s1 \in Seq(Checks), NEW s2 \in Seq(Checks), NEW s3 \in Seq(Checks),
         NEW s4 \in Seq(Checks), NEW s5 \in Seq(Checks)
  PROVE  FirstError(s1 \o s2 \o s3 \o s4 \o s5) = Accepted <=>
            AllHold(s1) /\ AllHold(s2) /\ AllHold(s3) /\ AllHold(s4) /\ AllHold(s5)
<1>1. /\ s1 \o s2 \in Seq(Checks)
      /\ AllHold(s1 \o s2) <=> AllHold(s1) /\ AllHold(s2)
  BY PassBoth
<1>2. /\ s1 \o s2 \o s3 \in Seq(Checks)
      /\ AllHold(s1 \o s2 \o s3) <=> AllHold(s1 \o s2) /\ AllHold(s3)
  BY <1>1, PassBoth
<1>3. /\ s1 \o s2 \o s3 \o s4 \in Seq(Checks)
      /\ AllHold(s1 \o s2 \o s3 \o s4) <=> AllHold(s1 \o s2 \o s3) /\ AllHold(s4)
  BY <1>2, PassBoth
<1>4. /\ s1 \o s2 \o s3 \o s4 \o s5 \in Seq(Checks)
      /\ AllHold(s1 \o s2 \o s3 \o s4 \o s5) <=>
            AllHold(s1 \o s2 \o s3 \o s4) /\ AllHold(s5)
  BY <1>3, PassBoth
<1> QED BY <1>1, <1>2, <1>3, <1>4, AcceptedIffAllHold

\* verify_assertion accepts exactly the assertions that pass every check, with
\* a signature over these very bytes by this very key (verifier.py 197-291).
THEOREM AssertionAccepted ==
  ASSUME NEW c, Readable(c, c.auth_data)
  PROVE  verify_assertion(c) = Accepted <=>
            /\ Wanted(c)
            /\ ClientDataGood(c.client_data, TYPE_GET, c)
            /\ AuthDataGood(c.auth_data, c)
            /\ KeyGood(c.credential_public_key)
            /\ c.signature = Signed(c.credential_public_key, c.auth_data, c.client_data)
<1> DEFINE genuine == c.signature =
                        Signed(c.credential_public_key, c.auth_data, c.client_data)
           s1 == <<Check(Wanted(c), Fail("cred_mismatch"))>>
           s2 == ClientDataChecks(c.client_data, TYPE_GET, c)
           s3 == AuthDataChecks(c.auth_data, c)
           s4 == KeyChecks(c.credential_public_key)
           s5 == <<Check(genuine, Fail("bad_signature"))>>
<1>1. s1 \in Seq(Checks) /\ (AllHold(s1) <=> Wanted(c))
  <2>1. Wanted(c) \in BOOLEAN
    BY DEF Wanted
  <2>2. Check(Wanted(c), Fail("cred_mismatch")) \in Checks
    BY <2>1, FailTyped DEF Codes
  <2> QED BY <2>1, <2>2, PassOne
<1>2. /\ s2 \in Seq(Checks)
      /\ AllHold(s2) <=> ClientDataGood(c.client_data, TYPE_GET, c)
  BY ClientDataPasses DEF Readable
<1>3. s3 \in Seq(Checks) /\ (AllHold(s3) <=> AuthDataGood(c.auth_data, c))
  BY AuthDataPasses
<1>4. s4 \in Seq(Checks) /\ (AllHold(s4) <=> KeyGood(c.credential_public_key))
  BY KeyPasses
<1>5. s5 \in Seq(Checks) /\ (AllHold(s5) <=> genuine)
  <2>1. genuine \in BOOLEAN
    OBVIOUS
  <2>2. Check(genuine, Fail("bad_signature")) \in Checks
    BY <2>1, FailTyped DEF Codes
  <2> QED BY <2>1, <2>2, PassOne
<1>6. verify_assertion(c) = FirstError(s1 \o s2 \o s3 \o s4 \o s5)
  BY DEF verify_assertion, Wanted
<1> HIDE DEF s1, s2, s3, s4, s5, genuine
<1> QED BY <1>1, <1>2, <1>3, <1>4, <1>5, <1>6, FivePass DEF genuine

\* verify_registration accepts exactly the registrations that pass every check
\* and whose key it can use later (verifier.py 128-194).
THEOREM RegistrationAccepted ==
  ASSUME NEW c, NEW att, att = c.attestation_object, Readable(c, att.auth_data),
         att.hashable \in BOOLEAN, att.cbor \in BOOLEAN, att.structure \in BOOLEAN
  PROVE  verify_registration(c) = Accepted <=>
            /\ ClientDataGood(c.client_data, TYPE_CREATE, c)
            /\ att.hashable /\ att.cbor /\ att.structure
            /\ AuthDataGood(att.auth_data, c)
            /\ att.auth_data.attested # None
            /\ KeyGood(att.auth_data.attested.key)
<1> DEFINE ad == att.auth_data
           s1 == ClientDataChecks(c.client_data, TYPE_CREATE, c)
           s2 == AttestationChecks(att)
           s3 == AuthDataChecks(ad, c)
           s4 == <<Check(ad.attested # None, Fail("no_attested_data"))>>
           s5 == CredentialKeyChecks(ad)
<1>1. /\ s1 \in Seq(Checks)
      /\ AllHold(s1) <=> ClientDataGood(c.client_data, TYPE_CREATE, c)
  BY ClientDataPasses DEF Readable
<1>2. s2 \in Seq(Checks) /\ (AllHold(s2) <=> att.hashable /\ att.cbor /\ att.structure)
  <2> DEFINE p == Check(att.hashable, Raise("TypeError", "unhashable"))
             q == Check(att.cbor, Raise("AttestationError", "bad_cbor"))
             r == Check(att.structure, Raise("AttestationError", "bad_structure"))
  <2>1. p \in Checks /\ q \in Checks /\ r \in Checks
    BY DEF Check, Raise, Checks, Classes, Codes
  <2>2. p.holds = att.hashable /\ q.holds = att.cbor /\ r.holds = att.structure
    BY DEF Check
  <2>3. s2 = <<p, q, r>>
    BY DEF AttestationChecks
  <2> HIDE DEF p, q, r, s2
  <2> QED BY <2>1, <2>2, <2>3, PassThree
<1>3. s3 \in Seq(Checks) /\ (AllHold(s3) <=> AuthDataGood(ad, c))
  BY AuthDataPasses
<1>4. s4 \in Seq(Checks) /\ (AllHold(s4) <=> ad.attested # None)
  <2>1. Check(ad.attested # None, Fail("no_attested_data")) \in Checks
    BY FailTyped DEF Codes
  <2> QED BY <2>1, PassOne
<1>5. /\ s5 \in Seq(Checks)
      /\ ad.attested # None => (AllHold(s5) <=> KeyGood(ad.attested.key))
  BY KeyPasses DEF CredentialKeyChecks
<1>6. verify_registration(c) = FirstError(s1 \o s2 \o s3 \o s4 \o s5)
  BY DEF verify_registration
<1> HIDE DEF s1, s2, s3, s4, s5
<1> QED BY <1>1, <1>2, <1>3, <1>4, <1>5, <1>6, FivePass
=============================================================================
