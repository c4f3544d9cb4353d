-------------------------- MODULE CeremoniesProofs --------------------------
(***************************************************************************)
(* The properties of Ceremonies for all keys, origins, credentials,        *)
(* counters, client data and arguments.  A call never changes and the      *)
(* verdict is the verifier's, so each property is a fact about two calls,  *)
(* and VerifierProofs says what each of them needs to be accepted.         *)
(***************************************************************************)
EXTENDS Ceremonies, VerifierProofs

ArgNames == {"expected_challenge", "expected_origins", "rp_id",
             "require_user_verification"}
AssertionNames ==
    {"kind", "client_data", "auth_data", "signature", "credential_public_key",
     "stored_sign_count", "credential_id", "expected_credential_id"}
RegistrationNames == {"kind", "client_data", "attestation_object"}

IInv ==
    /\ IsRegistration \/ IsAssertion
    /\ verdict # None => verdict = Verdict(call)

\* The call is one of the enumerated ones and the verdict, once there, is its verdict.
THEOREM Invariance == Spec => []IInv
<1>1. Init => IInv
  BY DEF Init, IInv
<1>2. IInv /\ [Next]_vars => IInv'
  <2> SUFFICES ASSUME IInv, [Next]_vars PROVE IInv'
    OBVIOUS
  <2>1. call' = call
    BY DEF Next, Verify, vars
  <2>2. (IsRegistration \/ IsAssertion)'
    <3>1. CASE IsRegistration
      <4>1. IsRegistration'
        BY <2>1, <3>1, ZenonT(60) DEF IsRegistration
      <4> QED BY <4>1
    <3>2. CASE IsAssertion
      <4>1. IsAssertion'
        BY <2>1, <3>2 DEF IsAssertion
      <4> QED BY <4>1
    <3> QED BY <3>1, <3>2 DEF IInv
  <2>3. CASE Verify
    <3>1. (verdict = Verdict(call))'
      BY <2>1, <2>3 DEF Verify
    <3> QED BY <2>2, <3>1 DEF IInv
  <2>4. CASE UNCHANGED vars
    <3>1. (verdict # None => verdict = Verdict(call))'
      BY <2>1, <2>4 DEF IInv, vars
    <3> QED BY <2>2, <3>1 DEF IInv
  <2> QED BY <2>3, <2>4 DEF Next
<1> QED BY <1>1, <1>2, PTL DEF Spec

-----------------------------------------------------------------------------
\* What a call is made of.
LEMMA ExtendedDomain ==
  ASSUME NEW a, NEW b
  PROVE  DOMAIN Extend(a, b) = DOMAIN a \cup DOMAIN b
BY DEF Extend

\* Extend keeps the fields of its first argument.
LEMMA ExtendedOld ==
  ASSUME NEW a, NEW b, NEW f \in DOMAIN a
  PROVE  Extend(a, b)[f] = a[f]
BY DEF Extend

\* Extend adds the fields that only its second argument has.
LEMMA ExtendedNew ==
  ASSUME NEW a, NEW b, NEW f \in DOMAIN b, f \notin DOMAIN a
  PROVE  Extend(a, b)[f] = b[f]
BY DEF Extend

\* What Extend returns is a function.
LEMMA ExtendedIsFunction ==
  ASSUME NEW a, NEW b, NEW c, c = Extend(a, b)
  PROVE  c = [f \in DOMAIN c |-> c[f]]
BY DEF Extend

\* The caller's arguments have four fields.
LEMMA ArgumentsTyped ==
  \A a \in Arguments : DOMAIN a = ArgNames /\ a.require_user_verification \in BOOLEAN
BY CeremoniesAssumption DEF ArgNames

\* The fields of authenticator data have their types.
LEMMA AuthDataTyped ==
  ASSUME NEW S, NEW ad \in AuthData(S)
  PROVE  /\ ad \in [parses : BOOLEAN, rp_id_hash : {ad.rp_id_hash}, user_present : BOOLEAN,
                    user_verified : BOOLEAN, sign_count : 0 .. MaxCount, attested : S]
         /\ ad.parses \in BOOLEAN /\ ad.user_present \in BOOLEAN
         /\ ad.user_verified \in BOOLEAN /\ ad.sign_count \in 0 .. MaxCount
         /\ ad.attested \in S
<1>1. 0 \in 0 .. MaxCount
  BY CeremoniesAssumption
<1>2. CASE ad \in [parses : {TRUE}, rp_id_hash : RpIds, user_present : BOOLEAN,
                   user_verified : BOOLEAN, sign_count : 0 .. MaxCount, attested : S]
  BY <1>2
<1>3. CASE ad \in [parses : {FALSE}, rp_id_hash : {OneRpId}, user_present : {TRUE},
                   user_verified : {TRUE}, sign_count : {0}, attested : S]
  BY <1>1, <1>3
<1> QED BY <1>2, <1>3 DEF AuthData

\* A call knows which verifier it is for.
LEMMA RegistrationKind == IsRegistration => call.kind = "registration"
<1> SUFFICES ASSUME IsRegistration PROVE call.kind = "registration"
  OBVIOUS
<1>1. PICK a \in Arguments, cd \in ClientDatas,
           form \in {"good", "unhashable", "bad_cbor", "bad_structure"},
           ad \in AuthData({None} \cup AttestedData) :
        call = Extend(a, [kind |-> "registration", client_data |-> cd,
                          attestation_object |->
                             [hashable |-> form # "unhashable",
                              cbor |-> form # "bad_cbor",
                              structure |-> form = "good", auth_data |-> ad]])
  BY DEF IsRegistration
<1> DEFINE more == [kind |-> "registration", client_data |-> cd,
                    attestation_object |->
                             [hashable |-> form # "unhashable",
                              cbor |-> form # "bad_cbor",
                              structure |-> form = "good", auth_data |-> ad]]
<1>2. "kind" \in DOMAIN more /\ more.kind = "registration"
  OBVIOUS
<1>3. "kind" \notin DOMAIN a
  BY ArgumentsTyped DEF ArgNames
<1>4. call = Extend(a, more)
  BY <1>1
<1> HIDE DEF more
<1>5. call["kind"] = more["kind"]
  BY <1>2, <1>3, <1>4, ExtendedNew
<1> QED BY <1>2, <1>5

LEMMA AssertionKind == IsAssertion => call.kind = "assertion"
<1> SUFFICES ASSUME IsAssertion PROVE call.kind = "assertion"
  OBVIOUS
<1>1. PICK a \in Arguments, cd \in ClientDatas, ad \in AuthData({None}),
         key \in AnyKey, n \in 0 .. MaxCount,
         id \in {OneId}, expected \in CredIds \cup {None} :
      \E sig \in Signatures(ad, cd) : call = Extend(a,
                       [kind |-> "assertion", client_data |-> cd,
                        auth_data |-> ad, signature |-> sig,
                        credential_public_key |-> key,
                        stored_sign_count |-> n, credential_id |-> id,
                        expected_credential_id |-> expected])
  BY DEF IsAssertion
<1>picked. PICK sig \in Signatures(ad, cd) : call = Extend(a,
                       [kind |-> "assertion", client_data |-> cd,
                        auth_data |-> ad, signature |-> sig,
                        credential_public_key |-> key,
                        stored_sign_count |-> n, credential_id |-> id,
                        expected_credential_id |-> expected])
  BY <1>1
<1> DEFINE more == [kind |-> "assertion", client_data |-> cd,
                    auth_data |-> ad, signature |-> sig,
                    credential_public_key |-> key,
                    stored_sign_count |-> n, credential_id |-> id,
                    expected_credential_id |-> expected]
<1>2. "kind" \in DOMAIN more /\ more.kind = "assertion"
  OBVIOUS
<1>3. "kind" \notin DOMAIN a
  BY ArgumentsTyped DEF ArgNames
<1>4. call = Extend(a, more)
  BY <1>picked
<1> HIDE DEF more
<1>5. call["kind"] = more["kind"]
  BY <1>2, <1>3, <1>4, ExtendedNew
<1> QED BY <1>2, <1>5

\* There are two kinds of calls.
LEMMA CallKinds == IInv => call.kind \in {"registration", "assertion"}
BY RegistrationKind, AssertionKind DEF IInv

\* The fields of a call of verify_assertion.
LEMMA AssertionCall ==
  ASSUME IInv, call.kind = "assertion"
  PROVE  /\ DOMAIN call = ArgNames \cup AssertionNames
         /\ call = [f \in DOMAIN call |-> call[f]]
         /\ call.require_user_verification \in BOOLEAN
         /\ \E a \in Arguments : call.expected_origins = a.expected_origins
         /\ call.client_data \in ClientDatas
         /\ call.auth_data \in AuthData({None})
         /\ call.credential_public_key \in AnyKey
         /\ call.stored_sign_count \in 0 .. MaxCount
         /\ call.signature \in Signatures(call.auth_data, call.client_data)
<1>1. IsAssertion
  BY RegistrationKind DEF IInv
<1>2. PICK a \in Arguments, cd \in ClientDatas, ad \in AuthData({None}),
           key \in AnyKey, n \in 0 .. MaxCount,
           id \in {OneId}, expected \in CredIds \cup {None} :
        \E sig \in Signatures(ad, cd) : call = Extend(a,
                         [kind |-> "assertion", client_data |-> cd,
                          auth_data |-> ad, signature |-> sig,
                          credential_public_key |-> key,
                          stored_sign_count |-> n, credential_id |-> id,
                          expected_credential_id |-> expected])
  BY <1>1 DEF IsAssertion
<1>picked. PICK sig \in Signatures(ad, cd) : call = Extend(a,
                         [kind |-> "assertion", client_data |-> cd,
                          auth_data |-> ad, signature |-> sig,
                          credential_public_key |-> key,
                          stored_sign_count |-> n, credential_id |-> id,
                          expected_credential_id |-> expected])
  BY <1>2
<1> DEFINE more == [kind |-> "assertion", client_data |-> cd,
                    auth_data |-> ad, signature |-> sig,
                    credential_public_key |-> key,
                    stored_sign_count |-> n, credential_id |-> id,
                    expected_credential_id |-> expected]
<1>3. /\ DOMAIN more = AssertionNames
      /\ more.client_data = cd /\ more.auth_data = ad /\ more.signature = sig
      /\ more.credential_public_key = key /\ more.stored_sign_count = n
  BY DEF AssertionNames
<1>4. call = Extend(a, more)
  BY <1>picked
<1>5. /\ DOMAIN a = ArgNames /\ a.require_user_verification \in BOOLEAN
  BY ArgumentsTyped
<1> HIDE DEF more
<1>6. /\ DOMAIN call = ArgNames \cup AssertionNames
      /\ \A f \in ArgNames : call[f] = a[f]
      /\ \A f \in AssertionNames : f \notin ArgNames => call[f] = more[f]
  <2>1. DOMAIN call = ArgNames \cup AssertionNames
    BY <1>3, <1>4, <1>5, ExtendedDomain
  <2>2. ASSUME NEW f \in ArgNames PROVE call[f] = a[f]
    BY <1>4, <1>5, ExtendedOld
  <2>3. ASSUME NEW f \in AssertionNames, f \notin ArgNames PROVE call[f] = more[f]
    <3>1. f \in DOMAIN more /\ f \notin DOMAIN a
      BY <1>3, <1>5, <2>3
    <3> QED BY <1>4, <3>1, ExtendedNew
  <2> QED BY <2>1, <2>2, <2>3
<1>10. call = [f \in DOMAIN call |-> call[f]]
  BY <1>4, ExtendedIsFunction
<1>7. /\ call.require_user_verification = a.require_user_verification
      /\ call.expected_origins = a.expected_origins
  BY <1>6 DEF ArgNames
<1>8. /\ call.client_data = cd /\ call.auth_data = ad /\ call.signature = sig
      /\ call.credential_public_key = key /\ call.stored_sign_count = n
  BY <1>3, <1>6 DEF ArgNames, AssertionNames
<1>9. call.signature \in Signatures(call.auth_data, call.client_data)
  BY <1>8
<1> QED BY <1>5, <1>6, <1>10, <1>7, <1>8, <1>9

\* The fields of a call of verify_registration.
LEMMA RegistrationCall ==
  ASSUME IInv, call.kind = "registration"
  PROVE  /\ DOMAIN call = ArgNames \cup RegistrationNames
         /\ call = [f \in DOMAIN call |-> call[f]]
         /\ call.require_user_verification \in BOOLEAN
         /\ \E a \in Arguments : call.expected_origins = a.expected_origins
         /\ call.client_data \in ClientDatas
         /\ call.attestation_object.auth_data \in AuthData({None} \cup AttestedData)
         /\ call.attestation_object.hashable \in BOOLEAN
         /\ call.attestation_object.cbor \in BOOLEAN
         /\ call.attestation_object.structure \in BOOLEAN
<1>1. IsRegistration
  BY AssertionKind DEF IInv
<1>2. PICK a \in Arguments, cd \in ClientDatas,
           form \in {"good", "unhashable", "bad_cbor", "bad_structure"},
           ad \in AuthData({None} \cup AttestedData) :
        call = Extend(a, [kind |-> "registration", client_data |-> cd,
                          attestation_object |->
                             [hashable |-> form # "unhashable",
                              cbor |-> form # "bad_cbor",
                              structure |-> form = "good", auth_data |-> ad]])
  BY <1>1 DEF IsRegistration
<1> DEFINE att == [hashable |-> form # "unhashable", cbor |-> form # "bad_cbor",
                   structure |-> form = "good", auth_data |-> ad]
           more == [kind |-> "registration", client_data |-> cd,
                    attestation_object |-> att]
<1>3. /\ DOMAIN more = RegistrationNames
      /\ more.client_data = cd /\ more.attestation_object = att
  BY DEF RegistrationNames
<1>4. call = Extend(a, more)
  BY <1>2
<1>5. DOMAIN a = ArgNames /\ a.require_user_verification \in BOOLEAN
  BY ArgumentsTyped
<1>6. /\ att.auth_data \in AuthData({None} \cup AttestedData)
      /\ att.hashable \in BOOLEAN /\ att.cbor \in BOOLEAN /\ att.structure \in BOOLEAN
  OBVIOUS
<1> HIDE DEF more, att
<1>7. /\ DOMAIN call = ArgNames \cup RegistrationNames
      /\ \A f \in ArgNames : call[f] = a[f]
      /\ \A f \in RegistrationNames : f \notin ArgNames => call[f] = more[f]
  <2>1. DOMAIN call = ArgNames \cup RegistrationNames
    BY <1>3, <1>4, <1>5, ExtendedDomain
  <2>2. ASSUME NEW f \in ArgNames PROVE call[f] = a[f]
    BY <1>4, <1>5, ExtendedOld
  <2>3. ASSUME NEW f \in RegistrationNames, f \notin ArgNames PROVE call[f] = more[f]
    <3>1. f \in DOMAIN more /\ f \notin DOMAIN a
      BY <1>3, <1>5, <2>3
    <3> QED BY <1>4, <3>1, ExtendedNew
  <2> QED BY <2>1, <2>2, <2>3
<1>10. call = [f \in DOMAIN call |-> call[f]]
  BY <1>4, ExtendedIsFunction
<1>8. /\ call.require_user_verification = a.require_user_verification
      /\ call.expected_origins = a.expected_origins
  BY <1>7 DEF ArgNames
<1>9. call.client_data = cd /\ call.attestation_object = att
  BY <1>3, <1>7 DEF ArgNames, RegistrationNames
<1> QED BY <1>5, <1>6, <1>7, <1>10, <1>8, <1>9

\* The fields of client data.
LEMMA ClientDataTyped ==
  ASSUME NEW cd \in ClientDatas
  PROVE  /\ cd \in AnyClientData
         /\ cd.json \in BOOLEAN
         /\ DOMAIN cd = {"json", "type", "challenge", "origin", "crossOrigin"}
BY CeremoniesAssumption DEF AnyClientData

\* A verdict is the one of the verifier that was called.
LEMMA Verified ==
  ASSUME IInv, verdict # None
  PROVE  /\ call.kind = "assertion" => verdict = verify_assertion(call)
         /\ call.kind = "registration" => verdict = verify_registration(call)
BY DEF IInv, Verdict

\* Accepted is a verdict.
LEMMA AcceptedIsSome == Accepted # None
BY NoneAssumption

-----------------------------------------------------------------------------
\* Two assertions that differ only in what is signed are not both accepted.
LEMMA SignedOnce ==
  ASSUME NEW c, NEW d, Readable(c, c.auth_data), Readable(d, d.auth_data),
         verify_assertion(c) = Accepted, d.signature = c.signature,
         \/ d.client_data # c.client_data
         \/ d.auth_data # c.auth_data
         \/ d.credential_public_key # c.credential_public_key
  PROVE  verify_assertion(d) # Accepted
<1>1. c.signature = Signed(c.credential_public_key, c.auth_data, c.client_data)
  BY AssertionAccepted
<1>2. ASSUME verify_assertion(d) = Accepted PROVE FALSE
  <2>1. d.signature = Signed(d.credential_public_key, d.auth_data, d.client_data)
    BY <1>2, AssertionAccepted
  <2> QED BY <1>1, <2>1 DEF Signed
<1> QED BY <1>2

\* What verify_assertion reads as a truth value is one.
LEMMA AssertionReadable ==
  ASSUME IInv, call.kind = "assertion"
  PROVE  Readable(call, call.auth_data)
<1>1. call.client_data.json \in BOOLEAN
  BY AssertionCall, ClientDataTyped
<1>2. /\ call.auth_data.parses \in BOOLEAN /\ call.auth_data.user_present \in BOOLEAN
      /\ call.auth_data.user_verified \in BOOLEAN
  <2>1. call.auth_data \in AuthData({None})
    BY AssertionCall
  <2> QED BY <2>1, AuthDataTyped
<1> QED BY <1>1, <1>2, AssertionCall DEF Readable

\* Demo 10 for every key and every input: the signature of an accepted assertion
\* fits no other client data, authenticator data or key.
THEOREM TamperEvidentHolds == Spec => []TamperEvident
<1>1. ASSUME IInv PROVE TamperEvident
  <2> SUFFICES ASSUME call.kind = "assertion", verdict = Accepted
               PROVE  /\ \A cd \in ClientDatas \ {call.client_data} :
                            verify_assertion([call EXCEPT !.client_data = cd]) # Accepted
                      /\ \A ad \in AuthData({None}) \ {call.auth_data} :
                            verify_assertion([call EXCEPT !.auth_data = ad]) # Accepted
                      /\ \A k \in AnyKey \ {call.credential_public_key} :
                            verify_assertion([call EXCEPT !.credential_public_key = k])
                              # Accepted
    BY DEF TamperEvident, IsAccepted
  <2>1. verify_assertion(call) = Accepted
    BY <1>1, Verified, AcceptedIsSome
  <2>2. Readable(call, call.auth_data)
    BY <1>1, AssertionReadable
  <2>3. /\ DOMAIN call = ArgNames \cup AssertionNames
        /\ call = [f \in DOMAIN call |-> call[f]]
    BY <1>1, AssertionCall
  <2>4. ASSUME NEW cd \in ClientDatas \ {call.client_data}
        PROVE  verify_assertion([call EXCEPT !.client_data = cd]) # Accepted
    <3> DEFINE d == [call EXCEPT !.client_data = cd]
    <3>1. /\ d.client_data = cd /\ d.auth_data = call.auth_data
          /\ d.signature = call.signature
          /\ d.require_user_verification = call.require_user_verification
      BY <2>3 DEF ArgNames, AssertionNames
    <3> HIDE DEF d
    <3>2. Readable(d, d.auth_data)
      BY <2>2, <3>1, ClientDataTyped DEF Readable
    <3>3. verify_assertion(d) # Accepted
      BY <2>1, <2>2, <3>1, <3>2, SignedOnce
    <3> QED BY <3>3 DEF d
  <2>5. ASSUME NEW ad \in AuthData({None}) \ {call.auth_data}
        PROVE  verify_assertion([call EXCEPT !.auth_data = ad]) # Accepted
    <3> DEFINE d == [call EXCEPT !.auth_data = ad]
    <3>1. /\ d.client_data = call.client_data /\ d.auth_data = ad
          /\ d.signature = call.signature
          /\ d.require_user_verification = call.require_user_verification
      BY <2>3 DEF ArgNames, AssertionNames
    <3> HIDE DEF d
    <3>2. /\ ad.parses \in BOOLEAN /\ ad.user_present \in BOOLEAN
          /\ ad.user_verified \in BOOLEAN
      BY AuthDataTyped
    <3>3. Readable(d, d.auth_data)
      BY <2>2, <3>1, <3>2 DEF Readable
    <3>4. verify_assertion(d) # Accepted
      BY <2>1, <2>2, <3>1, <3>3, SignedOnce
    <3> QED BY <3>4 DEF d
  <2>6. ASSUME NEW k \in AnyKey \ {call.credential_public_key}
        PROVE  verify_assertion([call EXCEPT !.credential_public_key = k]) # Accepted
    <3> DEFINE d == [call EXCEPT !.credential_public_key = k]
    <3>1. /\ d.client_data = call.client_data /\ d.auth_data = call.auth_data
          /\ d.signature = call.signature /\ d.credential_public_key = k
          /\ d.require_user_verification = call.require_user_verification
      BY <2>3 DEF ArgNames, AssertionNames
    <3> HIDE DEF d
    <3>2. Readable(d, d.auth_data)
      BY <2>2, <3>1 DEF Readable
    <3>3. verify_assertion(d) # Accepted
      BY <2>1, <2>2, <3>1, <3>2, SignedOnce
    <3> QED BY <3>3 DEF d
  <2> QED BY <2>4, <2>5, <2>6
<1> QED BY <1>1, Invariance, PTL

-----------------------------------------------------------------------------
\* What verify_registration reads as a truth value is one.
LEMMA RegistrationReadable ==
  ASSUME IInv, call.kind = "registration"
  PROVE  Readable(call, call.attestation_object.auth_data)
<1>1. call.client_data.json \in BOOLEAN
  BY RegistrationCall, ClientDataTyped
<1>2. /\ call.attestation_object.auth_data.parses \in BOOLEAN
      /\ call.attestation_object.auth_data.user_present \in BOOLEAN
      /\ call.attestation_object.auth_data.user_verified \in BOOLEAN
  <2>1. call.attestation_object.auth_data \in AuthData({None} \cup AttestedData)
    BY RegistrationCall
  <2> QED BY <2>1, AuthDataTyped
<1> QED BY <1>1, <1>2, RegistrationCall DEF Readable

\* What an accepted registration is made of.
LEMMA Registered ==
  ASSUME IInv, call.kind = "registration", verdict = Accepted
  PROVE  /\ ClientDataGood(call.client_data, TYPE_CREATE, call)
         /\ AuthDataGood(call.attestation_object.auth_data, call)
         /\ call.attestation_object.auth_data.attested # None
         /\ KeyGood(call.attestation_object.auth_data.attested.key)
<1>1. verify_registration(call) = Accepted
  BY Verified, AcceptedIsSome
<1>2. Readable(call, call.attestation_object.auth_data)
  BY RegistrationReadable
<1>3. /\ call.attestation_object.hashable \in BOOLEAN
      /\ call.attestation_object.cbor \in BOOLEAN
      /\ call.attestation_object.structure \in BOOLEAN
  BY RegistrationCall
<1> QED BY <1>1, <1>2, <1>3, RegistrationAccepted

\* The fields of the login that follows a registration.
LEMMA LoginFields ==
  ASSUME IInv, call.kind = "registration",
         NEW ad, ad = call.attestation_object.auth_data,
         NEW login, login = LoginAfter(call)
  PROVE  /\ DOMAIN login = ArgNames \cup RegistrationNames \cup AssertionNames
         /\ \A f \in ArgNames \cup {"kind", "client_data"} : login[f] = call[f]
         /\ login.auth_data = [ad EXCEPT !.attested = None]
         /\ login.signature = Signed(ad.attested.key, [ad EXCEPT !.attested = None],
                                     [call.client_data EXCEPT !.type = TYPE_GET])
         /\ login.credential_public_key = ad.attested.key
         /\ login.credential_id = ad.attested.credential_id
         /\ login.expected_credential_id = ad.attested.credential_id
<1> DEFINE more ==
        [auth_data |-> [ad EXCEPT !.attested = None],
         signature |-> Signed(ad.attested.key, [ad EXCEPT !.attested = None],
                              [call.client_data EXCEPT !.type = TYPE_GET]),
         credential_public_key |-> ad.attested.key,
         stored_sign_count |-> ad.sign_count,
         credential_id |-> ad.attested.credential_id,
         expected_credential_id |-> ad.attested.credential_id]
<1>1. login = Extend(call, more)
  BY DEF LoginAfter
<1>2. /\ DOMAIN more = AssertionNames \ {"kind", "client_data"}
      /\ more.auth_data = [ad EXCEPT !.attested = None]
      /\ more.signature = Signed(ad.attested.key, [ad EXCEPT !.attested = None],
                                 [call.client_data EXCEPT !.type = TYPE_GET])
      /\ more.credential_public_key = ad.attested.key
      /\ more.credential_id = ad.attested.credential_id
      /\ more.expected_credential_id = ad.attested.credential_id
  BY DEF AssertionNames
<1>3. DOMAIN call = ArgNames \cup RegistrationNames
  BY RegistrationCall
<1> HIDE DEF more
<1>4. DOMAIN login = ArgNames \cup RegistrationNames \cup AssertionNames
  <2>1. DOMAIN login = DOMAIN call \cup DOMAIN more
    BY <1>1, ExtendedDomain
  <2> QED BY <1>2, <1>3, <2>1 DEF AssertionNames, RegistrationNames
<1>5. ASSUME NEW f \in ArgNames \cup {"kind", "client_data"} PROVE login[f] = call[f]
  <2>1. f \in DOMAIN call
    BY <1>3 DEF RegistrationNames
  <2> QED BY <1>1, <2>1, ExtendedOld
<1>6. ASSUME NEW f \in AssertionNames \ {"kind", "client_data"}
      PROVE  login[f] = more[f]
  <2>1. f \in DOMAIN more /\ f \notin DOMAIN call
    BY <1>2, <1>3 DEF AssertionNames, RegistrationNames, ArgNames
  <2> QED BY <1>1, <2>1, ExtendedNew
<1>7. /\ login.auth_data = more.auth_data /\ login.signature = more.signature
      /\ login.credential_public_key = more.credential_public_key
      /\ login.credential_id = more.credential_id
      /\ login.expected_credential_id = more.expected_credential_id
  BY <1>6 DEF AssertionNames
<1> QED BY <1>2, <1>4, <1>5, <1>7

\* Signed registration data is never a login: the type says what it was made for.
THEOREM RegistrationIsNoLoginHolds == Spec => []RegistrationIsNoLogin
<1>1. ASSUME IInv PROVE RegistrationIsNoLogin
  <2> SUFFICES ASSUME call.kind = "registration", verdict = Accepted,
                      NEW ad, ad = call.attestation_object.auth_data
               PROVE  verify_assertion([LoginAfter(call) EXCEPT !.auth_data = ad,
                          !.signature = Signed(ad.attested.key, ad, call.client_data)])
                        # Accepted
    BY DEF RegistrationIsNoLogin, IsAccepted
  <2> DEFINE login == LoginAfter(call)
             signed == Signed(ad.attested.key, ad, call.client_data)
             d == [login EXCEPT !.auth_data = ad, !.signature = signed]
  <2>1. /\ DOMAIN login = ArgNames \cup RegistrationNames \cup AssertionNames
        /\ login.client_data = call.client_data
        /\ login.require_user_verification = call.require_user_verification
    <3>1. /\ DOMAIN login = ArgNames \cup RegistrationNames \cup AssertionNames
          /\ \A f \in ArgNames \cup {"kind", "client_data"} : login[f] = call[f]
      BY <1>1, LoginFields, ZenonT(60)
    <3> HIDE DEF login
    <3> QED BY <3>1 DEF ArgNames
  <2> HIDE DEF login, signed
  <2>2. /\ d.client_data = call.client_data /\ d.auth_data = ad
        /\ d.require_user_verification = call.require_user_verification
    BY <2>1 DEF ArgNames, RegistrationNames, AssertionNames
  <2> HIDE DEF d
  <2>3. Readable(d, d.auth_data)
    BY <1>1, <2>2, RegistrationReadable DEF Readable
  <2>4. d.client_data.type # TYPE_GET
    <3>1. call.client_data.type = TYPE_CREATE
      BY <1>1, Registered DEF ClientDataGood
    <3> QED BY <2>2, <3>1 DEF TYPE_CREATE, TYPE_GET
  <2>5. verify_assertion(d) # Accepted
    BY <2>3, <2>4, AssertionAccepted DEF ClientDataGood
  <2> QED BY <2>5 DEF d, login, signed
<1> QED BY <1>1, Invariance, PTL

\* Whatever is registered can be logged in with.
THEOREM RegisteredIsUsableHolds == Spec => []RegisteredIsUsable
<1>1. ASSUME IInv PROVE RegisteredIsUsable
  <2> SUFFICES ASSUME call.kind = "registration", verdict = Accepted
               PROVE  verify_assertion(
                          [LoginAfter(call) EXCEPT !.client_data.type = TYPE_GET])
                            = Accepted
    BY DEF RegisteredIsUsable, IsAccepted
  <2> DEFINE login == LoginAfter(call)
             old == call.attestation_object.auth_data
             new == [old EXCEPT !.attested = None]
             cd == [call.client_data EXCEPT !.type = TYPE_GET]
             d == [login EXCEPT !.client_data.type = TYPE_GET]
  <2>1. /\ DOMAIN login = ArgNames \cup RegistrationNames \cup AssertionNames
        /\ \A f \in ArgNames \cup {"kind", "client_data"} : login[f] = call[f]
        /\ login.auth_data = new
        /\ login.signature = Signed(old.attested.key, new, cd)
        /\ login.credential_public_key = old.attested.key
        /\ login.credential_id = old.attested.credential_id
        /\ login.expected_credential_id = old.attested.credential_id
    BY <1>1, LoginFields
  <2>2. /\ login.client_data = call.client_data
        /\ login.expected_challenge = call.expected_challenge
        /\ login.expected_origins = call.expected_origins
        /\ login.rp_id = call.rp_id
        /\ login.require_user_verification = call.require_user_verification
    BY <2>1 DEF ArgNames
  <2> HIDE DEF login
  <2>3. /\ d.client_data = cd
        /\ d.expected_challenge = call.expected_challenge
        /\ d.expected_origins = call.expected_origins
        /\ d.rp_id = call.rp_id
        /\ d.require_user_verification = call.require_user_verification
    BY <2>1, <2>2 DEF ArgNames, RegistrationNames, AssertionNames
  <2>4. /\ d.auth_data = new
        /\ d.signature = Signed(old.attested.key, new, cd)
        /\ d.credential_public_key = old.attested.key
        /\ d.credential_id = d.expected_credential_id
    BY <2>1, <2>2 DEF ArgNames, RegistrationNames, AssertionNames
  <2> HIDE DEF d
  <2>5. old \in AuthData({None} \cup AttestedData)
    BY <1>1, RegistrationCall
  <2>6. /\ new.parses = old.parses /\ new.rp_id_hash = old.rp_id_hash
        /\ new.user_present = old.user_present /\ new.user_verified = old.user_verified
    BY <2>5, AuthDataTyped
  <2>7. /\ cd.json = call.client_data.json /\ cd.type = TYPE_GET
        /\ cd.challenge = call.client_data.challenge
        /\ cd.origin = call.client_data.origin
        /\ cd.crossOrigin = call.client_data.crossOrigin
    BY <1>1, RegistrationCall, ClientDataTyped
  <2> HIDE DEF new, cd
  <2>8. Readable(call, old)
    BY <1>1, RegistrationReadable
  <2>9. Readable(d, d.auth_data)
    BY <2>3, <2>4, <2>6, <2>7, <2>8 DEF Readable
  <2>10. /\ ClientDataGood(call.client_data, TYPE_CREATE, call)
         /\ AuthDataGood(old, call) /\ KeyGood(old.attested.key)
    BY <1>1, Registered
  <2>11. ClientDataGood(d.client_data, TYPE_GET, d)
    BY <2>3, <2>7, <2>10, NoneAssumption DEF ClientDataGood, ClientDataParses
  <2>12. AuthDataGood(d.auth_data, d)
    BY <2>3, <2>4, <2>6, <2>10 DEF AuthDataGood
  <2>13. Wanted(d)
    BY <2>4 DEF Wanted
  <2>14. verify_assertion(d) = Accepted
    BY <2>3, <2>4, <2>9, <2>10, <2>11, <2>12, <2>13, AssertionAccepted
  <2> QED BY <2>14 DEF d, login
<1> QED BY <1>1, Invariance, PTL

\* A stored counter that does not rise is warned about, whatever the key.
THEOREM ReplayWarnsHolds == Spec => []ReplayWarns
<1>1. ASSUME IInv PROVE ReplayWarns
  <2> SUFFICES ASSUME call.kind = "assertion", verdict = Accepted, NEW n \in 0 .. MaxCount,
                      NEW stored, stored = new_sign_count(call),
                      NEW ad, ad = [call.auth_data EXCEPT !.sign_count = n],
                      NEW d, d = [call EXCEPT
                            !.stored_sign_count = stored, !.auth_data = ad,
                            !.signature = Signed(call.credential_public_key, ad,
                                                 call.client_data)]
               PROVE  exit_code(d) =
                        (IF n > stored \/ (n = 0 /\ stored = 0) THEN 0 ELSE 3)
    BY DEF ReplayWarns, IsAccepted
  <2>1. DOMAIN call = ArgNames \cup AssertionNames
    BY <1>1, AssertionCall
  <2>2. /\ d.stored_sign_count = stored /\ d.auth_data = ad /\ d.kind = "assertion"
        /\ d.signature = Signed(call.credential_public_key, ad, call.client_data)
        /\ d.client_data = call.client_data
        /\ d.credential_public_key = call.credential_public_key
    BY <2>1 DEF ArgNames, AssertionNames
  <2>3. /\ d.expected_challenge = call.expected_challenge
        /\ d.expected_origins = call.expected_origins
        /\ d.rp_id = call.rp_id
        /\ d.require_user_verification = call.require_user_verification
        /\ d.credential_id = call.credential_id
        /\ d.expected_credential_id = call.expected_credential_id
    BY <2>1 DEF ArgNames, AssertionNames
  <2>4. call.auth_data \in AuthData({None})
    BY <1>1, AssertionCall
  <2>5. /\ ad.parses = call.auth_data.parses /\ ad.rp_id_hash = call.auth_data.rp_id_hash
        /\ ad.user_present = call.auth_data.user_present
        /\ ad.user_verified = call.auth_data.user_verified
        /\ ad.sign_count = n
    BY <2>4, AuthDataTyped
  <2>6. stored \in 0 .. MaxCount
    BY <2>4, AuthDataTyped DEF new_sign_count
  <2>7. Readable(call, call.auth_data)
    BY <1>1, AssertionReadable
  <2>8. Readable(d, d.auth_data)
    BY <2>2, <2>3, <2>5, <2>7 DEF Readable
  <2>9. verify_assertion(call) = Accepted
    BY <1>1, Verified, AcceptedIsSome
  <2>10. /\ Wanted(call) /\ ClientDataGood(call.client_data, TYPE_GET, call)
         /\ AuthDataGood(call.auth_data, call) /\ KeyGood(call.credential_public_key)
    BY <2>7, <2>9, AssertionAccepted
  <2>11. /\ Wanted(d) /\ ClientDataGood(d.client_data, TYPE_GET, d)
         /\ AuthDataGood(d.auth_data, d) /\ KeyGood(d.credential_public_key)
    BY <2>2, <2>3, <2>5, <2>10, ZenonT(60) DEF Wanted, ClientDataGood, AuthDataGood
  <2>12. verify_assertion(d) = Accepted
    BY <2>2, <2>8, <2>11, AssertionAccepted
  <2>13. Verdict(d) = Accepted
    BY <2>2, <2>12 DEF Verdict
  <2>14. exit_code(d) = IF clone_warning(d) THEN 3 ELSE 0
    BY <2>2, <2>13 DEF exit_code, Accepted
  <2>15. clone_warning(d) <=> (n # 0 \/ stored # 0) /\ n <= stored
    BY <2>2, <2>5 DEF clone_warning
  <2>16. n \in Nat /\ stored \in Nat
    BY <2>6, CeremoniesAssumption
  <2> QED BY <2>14, <2>15, <2>16
<1> QED BY <1>1, Invariance, PTL

-----------------------------------------------------------------------------
\* Both spellings of an origin are well formed or neither is, and they have one
\* normal form.
LEMMA SpelledAlike ==
  ASSUME NEW o, o # None, [o EXCEPT !.port = None] # None,
         DOMAIN o = {"scheme", "host", "port"}
  PROVE  /\ Short(o) # None
         /\ ValidOrigin(Short(o)) = ValidOrigin(o)
         /\ normalize_origin(Short(o)) = normalize_origin(o)
<1>1. CASE IsDefaultPort(o)
  <2>1. Short(o) = [o EXCEPT !.port = None]
    BY <1>1 DEF Short, IsDefaultPort
  <2>2. /\ Short(o).scheme = o.scheme /\ Short(o).host = o.host /\ Short(o).port = None
    BY <2>1
  <2>3. ~IsDefaultPort(Short(o))
    BY <2>2, NoneAssumption DEF IsDefaultPort
  <2> QED BY <1>1, <2>1, <2>2, <2>3 DEF ValidOrigin, normalize_origin
<1>2. CASE ~IsDefaultPort(o)
  <2>1. Short(o) = o
    BY <1>2 DEF Short, IsDefaultPort
  <2> QED BY <2>1
<1> QED BY <1>1, <1>2

\* The origins of the calls have well-behaved spellings.
LEMMA KnownOrigin ==
  ASSUME NEW o \in Origins \cup {NoHost} \cup UNION {a.expected_origins : a \in Arguments}
  PROVE  /\ Short(o) # None
         /\ ValidOrigin(Short(o)) = ValidOrigin(o)
         /\ normalize_origin(Short(o)) = normalize_origin(o)
BY NoneAssumption, SpelledAlike

\* The checks of the client data do not depend on how origins are spelled.
LEMMA ClientDataAlike ==
  ASSUME NEW c, NEW d, NEW type, c.client_data \in ClientDatas,
         c.client_data.origin # None,
         \E a \in Arguments : c.expected_origins = a.expected_origins,
         d.client_data = [c.client_data EXCEPT !.origin = Short(@)],
         d.expected_origins = {Short(o) : o \in c.expected_origins},
         d.expected_challenge = c.expected_challenge
  PROVE  ClientDataChecks(d.client_data, type, d) = ClientDataChecks(c.client_data, type, c)
<1> DEFINE cd == c.client_data
           ed == d.client_data
<1>1. /\ ed.json = cd.json /\ ed.type = cd.type /\ ed.challenge = cd.challenge
      /\ ed.crossOrigin = cd.crossOrigin /\ ed.origin = Short(cd.origin)
  BY ClientDataTyped
<1>2. cd.origin \in Origins \cup {NoHost}
  BY ClientDataTyped DEF AnyClientData
<1>3. /\ Short(cd.origin) # None
      /\ ValidOrigin(Short(cd.origin)) = ValidOrigin(cd.origin)
      /\ normalize_origin(Short(cd.origin)) = normalize_origin(cd.origin)
  BY <1>2, KnownOrigin
<1>4. \A o \in c.expected_origins :
        /\ ValidOrigin(Short(o)) = ValidOrigin(o)
        /\ normalize_origin(Short(o)) = normalize_origin(o)
  <2>1. \A o \in c.expected_origins : o \in UNION {a.expected_origins : a \in Arguments}
    OBVIOUS
  <2> QED BY <2>1, KnownOrigin
<1>5. ClientDataParses(ed) = ClientDataParses(cd)
  BY <1>1, <1>3 DEF ClientDataParses
<1>6. ChallengeChecks(ed, d.expected_challenge) = ChallengeChecks(cd, c.expected_challenge)
  BY <1>1 DEF ChallengeChecks
<1>7. OriginChecks(ed, d.expected_origins) = OriginChecks(cd, c.expected_origins)
  <2>1. (d.expected_origins # {}) = (c.expected_origins # {})
    OBVIOUS
  <2>2. ValidOrigin(ed.origin) = ValidOrigin(cd.origin)
    BY <1>1, <1>3
  <2>3. (\A o \in d.expected_origins : ValidOrigin(o))
          = (\A o \in c.expected_origins : ValidOrigin(o))
    BY <1>4
  <2>4. AllowedOrigins(d.expected_origins) = AllowedOrigins(c.expected_origins)
    BY <1>4 DEF AllowedOrigins
  <2>5. normalize_origin(ed.origin) = normalize_origin(cd.origin)
    BY <1>1, <1>3
  <2> QED BY <2>1, <2>2, <2>3, <2>4, <2>5 DEF OriginChecks
<1> QED BY <1>1, <1>5, <1>6, <1>7 DEF ClientDataChecks

\* The checks of the authenticator data read two of the caller's arguments.
LEMMA AuthDataAlike ==
  ASSUME NEW ad, NEW c, NEW d, d.rp_id = c.rp_id,
         d.require_user_verification = c.require_user_verification
  PROVE  AuthDataChecks(ad, d) = AuthDataChecks(ad, c)
BY DEF AuthDataChecks

\* The verdict on a registration does not depend on the spelling.
LEMMA RegistrationAlike ==
  ASSUME IInv, call.kind = "registration", call.client_data.origin # None
  PROVE  Verdict(Respell(call)) = verify_registration(call)
<1> DEFINE d == Respell(call)
<1>1. d = [call EXCEPT !.client_data = [call.client_data EXCEPT !.origin = Short(@)],
                       !.expected_origins = {Short(o) : o \in @}]
  BY DEF Respell
<1>2. /\ DOMAIN call = ArgNames \cup RegistrationNames
      /\ call.client_data \in ClientDatas
      /\ \E a \in Arguments : call.expected_origins = a.expected_origins
  BY RegistrationCall
<1> HIDE DEF d
<1>3. /\ d.kind = call.kind
      /\ d.client_data = [call.client_data EXCEPT !.origin = Short(@)]
      /\ d.expected_origins = {Short(o) : o \in call.expected_origins}
      /\ d.expected_challenge = call.expected_challenge
      /\ d.rp_id = call.rp_id
      /\ d.require_user_verification = call.require_user_verification
      /\ d.attestation_object = call.attestation_object
  BY <1>1, <1>2 DEF ArgNames, RegistrationNames
<1>4. ClientDataChecks(d.client_data, TYPE_CREATE, d)
        = ClientDataChecks(call.client_data, TYPE_CREATE, call)
  BY <1>2, <1>3, ClientDataAlike
<1>5. AuthDataChecks(d.attestation_object.auth_data, d)
        = AuthDataChecks(call.attestation_object.auth_data, call)
  BY <1>3, AuthDataAlike
<1>6. verify_registration(d) = verify_registration(call)
  BY <1>3, <1>4, <1>5 DEF verify_registration
<1> QED BY <1>3, <1>6 DEF Verdict, d

\* The signature of a call, respelled, fits the respelled client data exactly if
\* it fitted the original.
LEMMA SignatureAlike ==
  ASSUME NEW cd \in ClientDatas, NEW ad, NEW sig \in Signatures(ad, cd), NEW key,
         NEW e, e = [cd EXCEPT !.origin = Short(@)],
         NEW t, t = [key |-> sig.key, auth_data |-> sig.auth_data,
                     client_data |-> [sig.client_data EXCEPT !.origin = Short(@)]]
  PROVE  (t = Signed(key, ad, e)) = (sig = Signed(key, ad, cd))
<1>1. PICK k, b, f :
         /\ sig = Signed(k, b, f)
         /\ f = cd \/ f = [cd EXCEPT !.type = TYPE_CREATE]
  BY DEF Signatures
<1>2. /\ sig.key = k /\ sig.auth_data = b /\ sig.client_data = f
      /\ t = Signed(k, b, [f EXCEPT !.origin = Short(@)])
  BY <1>1 DEF Signed
<1>3. ASSUME sig = Signed(key, ad, cd) PROVE t = Signed(key, ad, e)
  BY <1>1, <1>2, <1>3 DEF Signed
<1>4. ASSUME t = Signed(key, ad, e) PROVE sig = Signed(key, ad, cd)
  <2>1. k = key /\ b = ad /\ [f EXCEPT !.origin = Short(@)] = e
    BY <1>2, <1>4 DEF Signed
  <2>2. f = cd
    <3>1. /\ DOMAIN cd = {"json", "type", "challenge", "origin", "crossOrigin"}
          /\ cd \in AnyClientData
      BY ClientDataTyped
    <3>2. CASE f = [cd EXCEPT !.type = TYPE_CREATE]
      <4>1. [f EXCEPT !.origin = Short(@)].type = TYPE_CREATE /\ e.type = cd.type
        BY <3>1, <3>2
      <4>2. cd.type = TYPE_CREATE
        BY <2>1, <4>1
      <4> QED BY <3>1, <3>2, <4>2 DEF AnyClientData
    <3> QED BY <1>1, <3>2
  <2> QED BY <1>1, <2>1, <2>2
<1> QED BY <1>3, <1>4

\* The verdict on an assertion does not depend on the spelling.
LEMMA AssertionAlike ==
  ASSUME IInv, call.kind = "assertion", call.client_data.origin # None
  PROVE  Verdict(Respell(call)) = verify_assertion(call)
<1> DEFINE d == Respell(call)
           e == [call EXCEPT !.client_data = [call.client_data EXCEPT !.origin = Short(@)],
                             !.expected_origins = {Short(o) : o \in @}]
           sig == call.signature
<1>1. d = [e EXCEPT !.signature.client_data.origin =
                         IF @ = None THEN None ELSE Short(@)]
  BY DEF Respell
<1>2. /\ DOMAIN call = ArgNames \cup AssertionNames
      /\ call.client_data \in ClientDatas
      /\ sig \in Signatures(call.auth_data, call.client_data)
      /\ \E a \in Arguments : call.expected_origins = a.expected_origins
  BY AssertionCall
<1>3. /\ DOMAIN e = DOMAIN call
      /\ e.kind = call.kind
      /\ e.client_data = [call.client_data EXCEPT !.origin = Short(@)]
      /\ e.expected_origins = {Short(o) : o \in call.expected_origins}
      /\ \A f \in DOMAIN call \ {"client_data", "expected_origins"} : e[f] = call[f]
  BY <1>2 DEF ArgNames, AssertionNames
<1> HIDE DEF e, d
<1>4. /\ d.client_data = e.client_data
      /\ d.expected_origins = e.expected_origins
      /\ \A f \in DOMAIN call \ {"signature"} : d[f] = e[f]
  BY <1>1, <1>2, <1>3 DEF ArgNames, AssertionNames
<1>5. /\ d.kind = call.kind
      /\ d.client_data = [call.client_data EXCEPT !.origin = Short(@)]
      /\ d.expected_origins = {Short(o) : o \in call.expected_origins}
  BY <1>2, <1>3, <1>4 DEF ArgNames, AssertionNames
<1>6. /\ d.expected_challenge = call.expected_challenge
      /\ d.rp_id = call.rp_id
      /\ d.require_user_verification = call.require_user_verification
      /\ d.auth_data = call.auth_data
      /\ d.credential_public_key = call.credential_public_key
      /\ d.credential_id = call.credential_id
      /\ d.expected_credential_id = call.expected_credential_id
  BY <1>2, <1>3, <1>4 DEF ArgNames, AssertionNames
<1>7. d.signature = [key |-> sig.key, auth_data |-> sig.auth_data,
                     client_data |-> [sig.client_data EXCEPT !.origin = Short(@)]]
  <2>1. PICK k, b, f :
           /\ sig = Signed(k, b, f)
           /\ f = call.client_data \/ f = [call.client_data EXCEPT !.type = TYPE_CREATE]
    BY <1>2 DEF Signatures
  <2>2. f.origin = call.client_data.origin
    BY <1>2, <2>1, ClientDataTyped
  <2>3. "origin" \in DOMAIN f
    BY <1>2, <2>1, ClientDataTyped
  <2>4. e.signature = sig
    BY <1>2, <1>3 DEF AssertionNames
  <2>5. d.signature = [sig EXCEPT !.client_data.origin =
                          IF @ = None THEN None ELSE Short(@)]
    BY <1>1, <1>2, <1>3, <2>4 DEF AssertionNames
  <2>6. d.signature = [sig EXCEPT !.client_data =
                          [f EXCEPT !.origin = IF @ = None THEN None ELSE Short(@)]]
    BY <2>1, <2>5 DEF Signed
  <2>7. [f EXCEPT !.origin = IF @ = None THEN None ELSE Short(@)]
          = [f EXCEPT !.origin = Short(@)]
    BY <2>2
  <2> QED BY <2>1, <2>6, <2>7 DEF Signed
<1>8. ClientDataChecks(d.client_data, TYPE_GET, d)
        = ClientDataChecks(call.client_data, TYPE_GET, call)
  BY <1>2, <1>5, <1>6, ClientDataAlike, SMTT(30)
<1>9. AuthDataChecks(d.auth_data, d) = AuthDataChecks(call.auth_data, call)
  BY <1>6, AuthDataAlike
<1>10. (d.signature = Signed(d.credential_public_key, d.auth_data, d.client_data))
         = (sig = Signed(call.credential_public_key, call.auth_data, call.client_data))
  BY <1>2, <1>5, <1>6, <1>7, SignatureAlike
<1> HIDE DEF sig
<1>11. verify_assertion(d) = verify_assertion(call)
  BY <1>6, <1>8, <1>9, <1>10 DEF verify_assertion, sig
<1> QED BY <1>5, <1>11 DEF Verdict, d

\* An origin may be written with its default port or without it, on either side:
\* the verdict is the same.
THEOREM SpellingIrrelevantHolds == Spec => []SpellingIrrelevant
<1>1. ASSUME IInv PROVE SpellingIrrelevant
  <2> SUFFICES ASSUME verdict # None, call.client_data.origin # None
               PROVE  verdict = Verdict(Respell(call))
    BY DEF SpellingIrrelevant
  <2>1. CASE call.kind = "registration"
    BY <1>1, <2>1, Verified, RegistrationAlike
  <2>2. CASE call.kind = "assertion"
    BY <1>1, <2>2, Verified, AssertionAlike
  <2>3. call.kind \in {"registration", "assertion"}
    BY <1>1, CallKinds
  <2> QED BY <2>1, <2>2, <2>3
<1> QED BY <1>1, Invariance, PTL
=============================================================================
