------------------------- MODULE RelyingPartyProofs -------------------------
(***************************************************************************)
(* Theorems about RelyingParty, for any users, devices, origins, handlers  *)
(* and any number of responses and challenges.  What an accepted response  *)
(* shows comes from the lemmas on the verifiers in VerifierProofs; that a  *)
(* challenge is used up before its response is verified, from UsedOnce;    *)
(* that a handler's flag is about the counter it replaces, from Flagged.   *)
(***************************************************************************)
EXTENDS RelyingParty, VerifierProofs

Responses == [type : {TYPE_CREATE, TYPE_GET}, challenge : Challenges, origin : Origins,
              key : Keys, count : Nat \ {0}]
Requests == [kind : {"registration", "login"}, response : Responses,
             challenge : Challenges, account : Keys, warned : BOOLEAN]

Types ==
    /\ fate \in [Challenges -> {"unissued", "live", "dead"}]
    /\ counter \in [Devices -> Nat]
    /\ responses \subseteq Responses
    /\ stored \in [Keys -> Nat \cup {None}]
    /\ pc \in [Handlers -> {"idle", "consume", "verify", "persist"}]
    /\ DOMAIN request = Handlers
    /\ \A h \in Handlers : pc[h] # "idle" => request[h] \in Requests
    /\ logins \in Seq(Requests)

\* A challenge that was consumed is dead, belongs to one handler, and no login
\* rests on it before that handler grants one.
Spent(h) == pc[h] \in {"verify", "persist"}
UsedOnce ==
    /\ \A h \in Handlers : Spent(h) => fate[request[h].challenge] = "dead"
    /\ \A g, h \in Handlers :
          Spent(g) /\ Spent(h) /\ request[g].challenge = request[h].challenge => g = h
    /\ \A i \in 1 .. Len(logins) : fate[logins[i].challenge] = "dead"
    /\ \A i \in 1 .. Len(logins), h \in Handlers :
          Spent(h) => logins[i].challenge # request[h].challenge
    /\ \A i, j \in 1 .. Len(logins) : logins[i].challenge = logins[j].challenge => i = j

\* An account that exists was registered by its key at the RP's origin; what a
\* handler has verified is what the verifier's checks say.
Legit(k) ==
    \/ k \in Registered
    \/ \E r \in responses : r.type = TYPE_CREATE /\ r.key = k /\ AtOwnOrigin(r)
Shown(q) ==
    /\ q.response.type = TYPE_GET
    /\ q.response.key = q.account
    /\ q.response.challenge = q.challenge
    /\ AtOwnOrigin(q.response)
Genuine ==
    /\ \A k \in Keys : stored[k] # None => Legit(k)
    /\ \A h \in Handlers : pc[h] # "idle" =>
          /\ request[h].response \in responses
          /\ request[h].kind = "login" => Legit(request[h].account)
    /\ \A h \in Handlers : pc[h] = "persist" =>
          /\ request[h].kind = "login" => Shown(request[h])
          /\ request[h].kind = "registration" => Legit(request[h].response.key)
    /\ \A i \in 1 .. Len(logins) : Legit(logins[i].account) /\ Shown(logins[i])

\* One response at a time: a handler that grants a login has compared its
\* counter with the one stored now, and a counter of an earlier login above the
\* stored one has left a flag.
FlagOf(k) == \E f \in 1 .. Len(logins) : logins[f].account = k /\ logins[f].warned
Flagged ==
    Serial =>
        /\ \A g, h \in Handlers : pc[g] # "idle" /\ pc[h] # "idle" => g = h
        /\ \A h \in Handlers : pc[h] = "persist" /\ request[h].kind = "login" =>
              (request[h].response.count <= stored[request[h].account] => request[h].warned)
        /\ \A h \in Handlers : pc[h] # "idle" /\ request[h].kind = "login" =>
              stored[request[h].account] # None
        /\ \A i \in 1 .. Len(logins) :
              /\ stored[logins[i].account] # None
              /\ \/ logins[i].response.count <= stored[logins[i].account]
                 \/ FlagOf(logins[i].account)

IInv == Types /\ UsedOnce /\ Genuine /\ Flagged /\ CloneIsFlagged

-----------------------------------------------------------------------------
\* What the verifiers' verdict on a request means.
LEMMA LoginVerdict ==
  ASSUME NEW q \in Requests, q.kind = "login", Verdict(q) = Accepted
  PROVE  Shown(q)
<1> DEFINE c == Arguments(q)
<1>1. verify_assertion(c) = Accepted
  BY DEF Verdict
<1>2. /\ c.client_data = ClientData(q.response)
      /\ c.auth_data = AuthData(q.response)
      /\ c.require_user_verification = TRUE
      /\ c.expected_challenge = q.challenge
      /\ c.expected_origins = expected_origins
      /\ c.credential_public_key = q.account
      /\ c.signature = Signed(q.response.key, AuthData(q.response), ClientData(q.response))
  BY DEF Arguments
<1>3. /\ c.client_data.json = TRUE
      /\ c.client_data.type = q.response.type
      /\ c.client_data.challenge = q.response.challenge
      /\ c.client_data.origin = q.response.origin
  BY <1>2 DEF ClientData
<1>4. /\ c.auth_data.parses = TRUE
      /\ c.auth_data.user_present = TRUE
      /\ c.auth_data.user_verified = TRUE
  BY <1>2 DEF AuthData
<1> HIDE DEF c
<1>5. Readable(c, c.auth_data)
  BY <1>2, <1>3, <1>4 DEF Readable
<1>6. /\ c.client_data.type = TYPE_GET
      /\ c.client_data.challenge = c.expected_challenge
      /\ normalize_origin(c.client_data.origin) \in AllowedOrigins(c.expected_origins)
      /\ c.signature = Signed(c.credential_public_key, c.auth_data, c.client_data)
  BY <1>1, <1>5, AssertionAccepted DEF ClientDataGood
<1>7. AtOwnOrigin(q.response)
  BY <1>2, <1>3, <1>6 DEF AtOwnOrigin, AllowedOrigins
<1>8. Signed(q.response.key, c.auth_data, c.client_data)
        = Signed(q.account, c.auth_data, c.client_data)
  BY <1>2, <1>6
<1>9. q.response.key = q.account
  BY <1>8 DEF Signed
<1> QED
  BY <1>2, <1>3, <1>6, <1>7, <1>9 DEF Shown

\* An accepted registration was made at the relying party's origin.
LEMMA RegistrationVerdict ==
  ASSUME NEW q \in Requests, q.kind = "registration", Verdict(q) = Accepted
  PROVE  q.response.type = TYPE_CREATE /\ AtOwnOrigin(q.response)
<1> DEFINE c == Arguments(q)
           ad == c.attestation_object.auth_data
<1>1. verify_registration(c) = Accepted
  BY DEF Verdict
<1>2. /\ c.client_data = ClientData(q.response)
      /\ ad = AuthData(q.response)
      /\ c.attestation_object.hashable = TRUE
      /\ c.attestation_object.cbor = TRUE
      /\ c.attestation_object.structure = TRUE
      /\ c.require_user_verification = TRUE
      /\ c.expected_origins = expected_origins
  BY DEF Arguments
<1>3. /\ c.client_data.json = TRUE
      /\ c.client_data.type = q.response.type
      /\ c.client_data.origin = q.response.origin
  BY <1>2 DEF ClientData
<1>4. /\ ad.parses = TRUE
      /\ ad.user_present = TRUE
      /\ ad.user_verified = TRUE
  BY <1>2 DEF AuthData
<1> HIDE DEF c
<1>5. Readable(c, ad)
  BY <1>2, <1>3, <1>4 DEF Readable
<1>6. /\ c.client_data.type = TYPE_CREATE
      /\ normalize_origin(c.client_data.origin) \in AllowedOrigins(c.expected_origins)
  BY <1>1, <1>2, <1>5, RegistrationAccepted DEF ClientDataGood
<1> QED
  BY <1>2, <1>3, <1>6 DEF AtOwnOrigin, AllowedOrigins

-----------------------------------------------------------------------------
\* The invariant holds initially.
LEMMA InitIInv == Init => IInv
<1> SUFFICES ASSUME Init PROVE IInv
  OBVIOUS
<1>1. Len(logins) = 0 /\ logins \in Seq(Requests) /\ \A h \in Handlers : pc[h] = "idle"
  BY DEF Init
<1>2. Types
  BY <1>1, RelyingPartyAssumption DEF Init, Types
<1>3. UsedOnce
  BY <1>1 DEF UsedOnce, Spent
<1>4. Genuine
  BY <1>1 DEF Genuine, Init, Legit
<1>5. Flagged /\ CloneIsFlagged
  BY <1>1 DEF Flagged, CloneIsFlagged
<1> QED
  BY <1>2, <1>3, <1>4, <1>5 DEF IInv

\* A login is a request.
LEMMA LoginTyped ==
  ASSUME IInv, NEW i \in 1 .. Len(logins)
  PROVE  logins[i] \in Requests
<1>1. logins \in Seq(Requests)
  BY DEF IInv, Types
<1> QED
  BY <1>1

\* Issue and Lapse: a dead challenge stays dead.
LEMMA StoreStep ==
  ASSUME IInv,
         UNCHANGED <<counter, responses, stored, pc, request, logins>>,
         fate' \in [Challenges -> {"unissued", "live", "dead"}],
         \A c \in Challenges : fate[c] = "dead" => fate'[c] = "dead"
  PROVE  IInv'
<1>1. Types'
  BY DEF IInv, Types
<1>2. UsedOnce'
  <2>1. \A h \in Handlers : Spent(h)' <=> Spent(h)
    BY DEF Spent
  <2>2. \A h \in Handlers : Spent(h) => request[h].challenge \in Challenges
    BY DEF IInv, Types, Spent, Requests
  <2>3. \A i \in 1 .. Len(logins) : logins[i].challenge \in Challenges
    BY LoginTyped DEF Requests
  <2> QED
    BY <2>1, <2>2, <2>3 DEF IInv, UsedOnce
<1>3. Genuine'
  <2>1. \A k : Legit(k) <=> Legit(k)'
    BY DEF Legit
  <2> QED
    BY <2>1 DEF IInv, Genuine
<1>4. Flagged' /\ CloneIsFlagged'
  <2>1. \A k : FlagOf(k) <=> FlagOf(k)'
    BY DEF FlagOf
  <2> QED
    BY <2>1 DEF IInv, Flagged, CloneIsFlagged
<1> QED
  BY <1>1, <1>2, <1>3, <1>4 DEF IInv

\* Each action preserves the invariant: a challenge is issued or lapses.
LEMMA IssueStep == ASSUME IInv, NEW c \in Challenges, Issue(c) PROVE IInv'
<1>1. fate' \in [Challenges -> {"unissued", "live", "dead"}]
  BY DEF IInv, Types, Issue, Token!Issue
<1>2. \A d \in Challenges : fate[d] = "dead" => fate'[d] = "dead"
  BY DEF IInv, Types, Issue, Token!Issue
<1> QED
  BY <1>1, <1>2, StoreStep DEF Issue

LEMMA LapseStep == ASSUME IInv, NEW c \in Challenges, Lapse(c) PROVE IInv'
<1>1. fate' \in [Challenges -> {"unissued", "live", "dead"}]
  BY DEF IInv, Types, Lapse, Token!Lapse
<1>2. \A d \in Challenges : fate[d] = "dead" => fate'[d] = "dead"
  BY DEF IInv, Types, Lapse, Token!Lapse
<1> QED
  BY <1>1, <1>2, StoreStep DEF Lapse

\* A device answers: what was registered or shown stays so.
LEMMA CeremonyStep ==
  ASSUME IInv, NEW d \in Devices, NEW type \in {TYPE_CREATE, TYPE_GET},
         NEW c \in Challenges, NEW o \in Origins, Ceremony(d, type, c, o)
  PROVE  IInv'
<1> DEFINE r == [type |-> type, challenge |-> c, origin |-> o, key |-> KeyOf[d],
                 count |-> counter[d] + 1]
<1>1. /\ responses' = responses \cup {r}
      /\ UNCHANGED <<fate, uses, stored, pc, request, logins>>
  BY DEF Ceremony, tokenVars
<1>2. counter[d] \in Nat
  BY DEF IInv, Types
<1>3. r \in Responses
  BY <1>2, RelyingPartyAssumption DEF Responses
<1> HIDE DEF r
<1>4. counter' \in [Devices -> Nat]
  BY <1>2 DEF Ceremony, IInv, Types
<1>5. Types'
  BY <1>1, <1>3, <1>4 DEF IInv, Types
<1>6. UsedOnce'
  BY <1>1 DEF IInv, UsedOnce, Spent
<1>7. Genuine'
  <2>1. \A k : Legit(k) => Legit(k)'
    BY <1>1 DEF Legit
  <2> QED
    BY <1>1, <2>1 DEF IInv, Genuine
<1>8. Flagged' /\ CloneIsFlagged'
  <2>1. \A k : FlagOf(k) <=> FlagOf(k)'
    BY <1>1 DEF FlagOf
  <2> QED
    BY <1>1, <2>1 DEF IInv, Flagged, CloneIsFlagged
<1> QED
  BY <1>5, <1>6, <1>7, <1>8 DEF IInv

\* A handler takes a response and looks up the credential and the challenge.
LEMMA ReceiveStep ==
  ASSUME IInv, NEW h \in Handlers, NEW kind \in {"registration", "login"},
         NEW r \in responses, NEW c \in Challenges, NEW k \in Keys,
         Receive(h, kind, r, c, k)
  PROVE  IInv'
<1> DEFINE q == [kind |-> kind, response |-> r, challenge |-> c, account |-> k,
                 warned |-> FALSE]
<1>1. /\ pc' = [pc EXCEPT ![h] = "consume"]
      /\ request' = [request EXCEPT ![h] = q]
      /\ pc[h] = "idle"
      /\ Serial => \A g \in Handlers : pc[g] = "idle"
      /\ kind = "login" => stored[k] # None
      /\ UNCHANGED <<fate, uses, counter, responses, stored, logins>>
  BY DEF Receive, tokenVars
<1>2. q \in Requests
  BY DEF IInv, Types, Requests
<1>3. q.kind = kind /\ q.response = r /\ q.account = k
  OBVIOUS
<1> HIDE DEF q
<1>4. /\ pc'[h] = "consume" /\ request'[h] = q
      /\ \A g \in Handlers : g # h => pc'[g] = pc[g] /\ request'[g] = request[g]
  BY <1>1 DEF IInv, Types
<1>5. Types'
  <2>1. /\ pc' \in [Handlers -> {"idle", "consume", "verify", "persist"}]
        /\ DOMAIN request' = Handlers
    BY <1>1 DEF IInv, Types
  <2>2. \A g \in Handlers : pc'[g] # "idle" => request'[g] \in Requests
    BY <1>2, <1>4 DEF IInv, Types
  <2> QED
    BY <1>1, <2>1, <2>2 DEF IInv, Types
<1>6. UsedOnce'
  <2>1. \A g \in Handlers : Spent(g)' => Spent(g) /\ request'[g] = request[g]
    BY <1>4 DEF Spent
  <2> QED
    BY <1>1, <2>1 DEF IInv, UsedOnce
<1>7. Genuine'
  <2>1. \A j : Legit(j) <=> Legit(j)'
    BY <1>1 DEF Legit
  <2>2. kind = "login" => Legit(k)
    BY <1>1 DEF IInv, Genuine
  <2> QED
    BY <1>1, <1>3, <1>4, <2>1, <2>2 DEF IInv, Genuine
<1>8. Flagged' /\ CloneIsFlagged'
  <2>1. \A j : FlagOf(j) <=> FlagOf(j)'
    BY <1>1 DEF FlagOf
  <2> QED
    BY <1>1, <1>3, <1>4, <2>1 DEF IInv, Flagged, CloneIsFlagged
<1> QED
  BY <1>5, <1>6, <1>7, <1>8 DEF IInv

\* A handler gives up its request.
LEMMA RejectStep ==
  ASSUME IInv, NEW h \in Handlers, Reject(h),
         UNCHANGED <<tokenVars, counter, responses, stored, logins>>
  PROVE  IInv'
<1>1. /\ pc' = [pc EXCEPT ![h] = "idle"]
      /\ request' = [request EXCEPT ![h] = None]
      /\ UNCHANGED <<fate, uses, counter, responses, stored, logins>>
  BY DEF Reject, tokenVars
<1>2. /\ pc'[h] = "idle"
      /\ \A g \in Handlers : g # h => pc'[g] = pc[g] /\ request'[g] = request[g]
  BY <1>1 DEF IInv, Types
<1>3. \A g \in Handlers : pc'[g] # "idle" => pc[g] = pc'[g] /\ request'[g] = request[g]
  BY <1>2
<1>4. Types'
  <2>1. /\ pc' \in [Handlers -> {"idle", "consume", "verify", "persist"}]
        /\ DOMAIN request' = Handlers
    BY <1>1 DEF IInv, Types
  <2>2. \A g \in Handlers : pc'[g] # "idle" => request'[g] \in Requests
    BY <1>3 DEF IInv, Types
  <2> QED
    BY <1>1, <2>1, <2>2 DEF IInv, Types
<1>5. UsedOnce'
  <2>1. \A g \in Handlers : Spent(g)' => Spent(g) /\ request'[g] = request[g]
    BY <1>3 DEF Spent
  <2> QED
    BY <1>1, <2>1 DEF IInv, UsedOnce
<1>6. Genuine'
  <2>1. \A j : Legit(j) <=> Legit(j)'
    BY <1>1 DEF Legit
  <2> QED
    BY <1>1, <1>3, <2>1 DEF IInv, Genuine
<1>7. Flagged' /\ CloneIsFlagged'
  <2>1. \A j : FlagOf(j) <=> FlagOf(j)'
    BY <1>1 DEF FlagOf
  <2> QED
    BY <1>1, <1>3, <2>1 DEF IInv, Flagged, CloneIsFlagged
<1> QED
  BY <1>4, <1>5, <1>6, <1>7 DEF IInv

\* The challenge was live, so no other handler and no login has it.
LEMMA ConsumeStep == ASSUME IInv, NEW h \in Handlers, Consume(h) PROVE IInv'
<1> DEFINE c == request[h].challenge
<1>1. pc[h] = "consume" /\ request[h] \in Requests /\ c \in Challenges
  BY DEF Consume, IInv, Types, Requests
<1>2. CASE /\ UseChallenge(c)
           /\ pc' = [pc EXCEPT ![h] = "verify"]
           /\ UNCHANGED request
  <2>1. /\ fate[c] = "live"
        /\ fate' = [fate EXCEPT ![c] = "dead"]
        /\ UNCHANGED <<counter, responses, stored, request, logins>>
    BY <1>2 DEF Consume, UseChallenge, Token!Use
  <2>2. /\ pc'[h] = "verify"
        /\ \A g \in Handlers : g # h => pc'[g] = pc[g]
    BY <1>2 DEF IInv, Types
  <2>3. /\ fate' \in [Challenges -> {"unissued", "live", "dead"}]
        /\ fate'[c] = "dead"
        /\ \A d \in Challenges : fate[d] = "dead" => fate'[d] = "dead" /\ d # c
    BY <1>1, <2>1 DEF IInv, Types
  <2> HIDE DEF c
  <2>4. Types'
    <3>1. /\ pc' \in [Handlers -> {"idle", "consume", "verify", "persist"}]
          /\ DOMAIN request' = Handlers
      BY <1>2 DEF IInv, Types
    <3>2. \A g \in Handlers : pc'[g] # "idle" => request'[g] \in Requests
      BY <1>1, <2>1, <2>2 DEF IInv, Types
    <3> QED
      BY <2>1, <2>3, <3>1, <3>2 DEF IInv, Types
  <2>5. UsedOnce'
    <3>1. \A g \in Handlers : Spent(g)' <=> Spent(g) \/ g = h
      BY <2>2 DEF Spent
    <3>2. \A g \in Handlers : Spent(g) =>
             request[g].challenge \in Challenges /\ request[g].challenge # c
      BY <2>3 DEF IInv, Types, UsedOnce, Spent, Requests
    <3>3. \A i \in 1 .. Len(logins) :
             logins[i].challenge \in Challenges /\ logins[i].challenge # c
      BY <2>3, LoginTyped DEF IInv, UsedOnce, Requests
    <3>4. request[h].challenge = c
      BY DEF c
    <3>5. \A g \in Handlers : Spent(g)' => fate'[request'[g].challenge] = "dead"
      BY <2>1, <2>3, <3>1, <3>2, <3>4 DEF IInv, UsedOnce
    <3>6. \A f, g \in Handlers :
             Spent(f)' /\ Spent(g)' /\ request'[f].challenge = request'[g].challenge
               => f = g
      BY <2>1, <3>1, <3>2, <3>4 DEF IInv, UsedOnce
    <3>7. \A i \in 1 .. Len(logins') : fate'[logins'[i].challenge] = "dead"
      BY <2>1, <2>3, <3>3 DEF IInv, UsedOnce
    <3>8. \A i \in 1 .. Len(logins'), g \in Handlers :
             Spent(g)' => logins'[i].challenge # request'[g].challenge
      BY <2>1, <3>1, <3>3, <3>4 DEF IInv, UsedOnce
    <3> QED
      BY <2>1, <3>5, <3>6, <3>7, <3>8 DEF IInv, UsedOnce
  <2>6. Genuine'
    <3>1. \A j : Legit(j) <=> Legit(j)'
      BY <2>1 DEF Legit
    <3> QED
      BY <1>1, <2>1, <2>2, <3>1 DEF IInv, Genuine
  <2>7. Flagged' /\ CloneIsFlagged'
    <3>1. \A j : FlagOf(j) <=> FlagOf(j)'
      BY <2>1 DEF FlagOf
    <3> QED
      BY <1>1, <2>1, <2>2, <3>1 DEF IInv, Flagged, CloneIsFlagged
  <2> QED
    BY <2>4, <2>5, <2>6, <2>7 DEF IInv
<1>3. CASE Reject(h) /\ UNCHANGED tokenVars
  BY <1>3, RejectStep DEF Consume
<1> QED
  BY <1>2, <1>3 DEF Consume

\* A handler verifies what it received.
LEMMA VerifyStep == ASSUME IInv, NEW h \in Handlers, Verify(h) PROVE IInv'
<1> DEFINE q == request[h]
           warned == q.kind = "login" /\ clone_warning(Arguments(q))
<1>1. pc[h] = "verify" /\ q \in Requests
  BY DEF Verify, IInv, Types
<1>2. CASE Verdict(q) = Accepted
  <2>1. /\ pc' = [pc EXCEPT ![h] = "persist"]
        /\ request' = [request EXCEPT ![h].warned = warned]
        /\ UNCHANGED <<fate, uses, counter, responses, stored, logins>>
    BY <1>2 DEF Verify, tokenVars
  <2>2. warned \in BOOLEAN
    BY DEF clone_warning
  <2>3. q.kind = "login" => (warned <=>
          (q.response.count # 0 \/ stored[q.account] # 0)
            /\ q.response.count <= stored[q.account])
    BY DEF clone_warning, Arguments, AuthData
  <2> HIDE DEF q, warned
  <2>4. /\ pc'[h] = "persist"
        /\ request'[h] = [q EXCEPT !.warned = warned]
        /\ \A g \in Handlers : g # h => pc'[g] = pc[g] /\ request'[g] = request[g]
    BY <2>1 DEF IInv, Types, q
  <2>5. /\ request'[h] \in Requests
        /\ request'[h].kind = q.kind
        /\ request'[h].response = q.response
        /\ request'[h].challenge = q.challenge
        /\ request'[h].account = q.account
        /\ request'[h].warned = warned
    BY <1>1, <2>2, <2>4 DEF Requests
  <2>6. Types'
    <3>1. /\ pc' \in [Handlers -> {"idle", "consume", "verify", "persist"}]
          /\ DOMAIN request' = Handlers
      BY <2>1 DEF IInv, Types
    <3>2. \A g \in Handlers : pc'[g] # "idle" => request'[g] \in Requests
      BY <2>4, <2>5 DEF IInv, Types
    <3> QED
      BY <2>1, <3>1, <3>2 DEF IInv, Types
  <2>7. UsedOnce'
    <3>1. \A g \in Handlers : Spent(g)' <=> Spent(g)
      BY <1>1, <2>4 DEF Spent
    <3>2. \A g \in Handlers : request'[g].challenge = request[g].challenge
      BY <2>4, <2>5 DEF q
    <3> QED
      BY <2>1, <3>1, <3>2 DEF IInv, UsedOnce
  <2>8. Genuine'
    <3>1. \A j : Legit(j) <=> Legit(j)'
      BY <2>1 DEF Legit
    <3>2. (\A g \in Handlers : pc[g] # "idle" =>
              /\ request[g].response \in responses
              /\ request[g].kind = "login" => Legit(request[g].account))'
      BY <1>1, <2>1, <2>4, <2>5, <3>1 DEF IInv, Genuine, q
    <3>3. q.kind = "login" => Shown(q)
      BY <1>1, <1>2, LoginVerdict
    <3>4. q.kind = "login" => Shown(request'[h])
      BY <2>5, <3>3 DEF Shown
    <3>5. q.kind = "registration" => Legit(q.response.key)
      BY <1>1, <1>2, RegistrationVerdict DEF Legit, IInv, Genuine, q
    <3>6. (\A g \in Handlers : pc[g] = "persist" =>
              /\ request[g].kind = "login" => Shown(request[g])
              /\ request[g].kind = "registration" => Legit(request[g].response.key))'
      BY <2>4, <2>5, <3>1, <3>4, <3>5 DEF IInv, Genuine
    <3> QED
      BY <2>1, <3>1, <3>2, <3>6 DEF IInv, Genuine
  <2>9. Flagged' /\ CloneIsFlagged'
    <3>1. \A j : FlagOf(j) <=> FlagOf(j)'
      BY <2>1 DEF FlagOf
    <3>2. q.response.count # 0
      BY <1>1 DEF Requests, Responses
    <3>3. q.kind = "login" =>
            (request'[h].response.count <= stored'[request'[h].account]
               => request'[h].warned)
      BY <2>1, <2>3, <2>5, <3>2
    <3> QED
      BY <1>1, <2>1, <2>4, <2>5, <3>1, <3>3 DEF IInv, Flagged, CloneIsFlagged, q
  <2> QED
    BY <2>6, <2>7, <2>8, <2>9 DEF IInv
<1>3. CASE Verdict(q) # Accepted
  BY <1>3, RejectStep DEF Verify
<1> QED
  BY <1>2, <1>3

\* What both kinds of Persist do to the handlers.
LEMMA PersistEnds ==
  ASSUME IInv, NEW h \in Handlers, pc[h] = "persist", Reject(h)
  PROVE  /\ pc'[h] = "idle"
         /\ \A g \in Handlers : pc'[g] # "idle" =>
               g # h /\ pc[g] = pc'[g] /\ request'[g] = request[g]
         /\ pc' \in [Handlers -> {"idle", "consume", "verify", "persist"}]
         /\ DOMAIN request' = Handlers
         /\ \A g \in Handlers : pc'[g] # "idle" => request'[g] \in Requests
         /\ \A g \in Handlers : Spent(g)' => Spent(g) /\ g # h /\ request'[g] = request[g]
         /\ Serial => \A g \in Handlers : pc'[g] = "idle"
<1>1. /\ pc' = [pc EXCEPT ![h] = "idle"]
      /\ request' = [request EXCEPT ![h] = None]
  BY DEF Reject
<1>2. /\ pc'[h] = "idle"
      /\ \A g \in Handlers : g # h => pc'[g] = pc[g] /\ request'[g] = request[g]
  BY <1>1 DEF IInv, Types
<1>3. \A g \in Handlers : pc'[g] # "idle" =>
         g # h /\ pc[g] = pc'[g] /\ request'[g] = request[g]
  BY <1>2
<1>4. /\ pc' \in [Handlers -> {"idle", "consume", "verify", "persist"}]
      /\ DOMAIN request' = Handlers
  BY <1>1 DEF IInv, Types
<1>5. \A g \in Handlers : pc'[g] # "idle" => request'[g] \in Requests
  BY <1>3 DEF IInv, Types
<1>6. \A g \in Handlers : Spent(g)' => Spent(g) /\ g # h /\ request'[g] = request[g]
  BY <1>3 DEF Spent
<1>7. Serial => \A g \in Handlers : pc'[g] = "idle"
  BY <1>2 DEF IInv, Flagged
<1> QED
  BY <1>2, <1>3, <1>4, <1>5, <1>6, <1>7

\* A registration is stored.
LEMMA PersistRegistrationStep ==
  ASSUME IInv, NEW h \in Handlers, Persist(h), request[h].kind = "registration"
  PROVE  IInv'
<1> DEFINE q == request[h]
           k == q.response.key
<1>1. /\ pc[h] = "persist" /\ q \in Requests
      /\ stored[k] = None
      /\ stored' = [stored EXCEPT ![k] = q.response.count]
      /\ Reject(h)
      /\ UNCHANGED <<fate, uses, counter, responses, logins>>
  BY DEF Persist, tokenVars, IInv, Types
<1>2. /\ k \in Keys /\ q.response.count \in Nat
  BY <1>1 DEF Requests, Responses
<1>3. Legit(k)
  BY <1>1 DEF IInv, Genuine
<1> HIDE DEF q, k
<1>4. /\ stored' \in [Keys -> Nat \cup {None}]
      /\ \A j \in Keys : j # k => stored'[j] = stored[j]
  BY <1>1, <1>2 DEF IInv, Types
<1>5. Types'
  BY <1>1, <1>4, PersistEnds DEF IInv, Types
<1>6. UsedOnce'
  BY <1>1, PersistEnds DEF IInv, UsedOnce
<1>7. Genuine'
  <2>1. \A j : Legit(j) <=> Legit(j)'
    BY <1>1 DEF Legit
  <2> QED
    BY <1>1, <1>3, <1>4, <2>1, PersistEnds DEF IInv, Genuine
<1>8. Flagged' /\ CloneIsFlagged'
  <2>1. \A j : FlagOf(j) <=> FlagOf(j)'
    BY <1>1 DEF FlagOf
  <2>2. ASSUME Serial, NEW i \in 1 .. Len(logins)
        PROVE  stored'[logins[i].account] = stored[logins[i].account]
    <3>1. logins[i].account \in Keys
      BY LoginTyped DEF Requests
    <3>2. stored[logins[i].account] # None
      BY <2>2 DEF IInv, Flagged
    <3> QED
      BY <1>1, <1>4, <3>1, <3>2
  <2> QED
    BY <1>1, <2>1, <2>2, PersistEnds DEF IInv, Flagged, CloneIsFlagged
<1> QED
  BY <1>5, <1>6, <1>7, <1>8 DEF IInv

\* A login is recorded and its counter stored.
LEMMA PersistLoginStep ==
  ASSUME IInv, NEW h \in Handlers, Persist(h), request[h].kind = "login"
  PROVE  IInv'
<1> DEFINE q == request[h]
           k == q.account
           n == Len(logins)
<1>1. /\ pc[h] = "persist" /\ q \in Requests /\ q.kind = "login"
      /\ stored' = [stored EXCEPT ![k] = q.response.count]
      /\ logins' = Append(logins, q)
      /\ Reject(h)
      /\ UNCHANGED <<fate, uses, counter, responses>>
  BY DEF Persist, tokenVars, IInv, Types
<1>2. /\ k \in Keys /\ q.response.count \in Nat /\ q.challenge \in Challenges
  BY <1>1 DEF Requests, Responses
<1>3. Legit(k) /\ Shown(q)
  BY <1>1 DEF IInv, Genuine
<1>4. fate[q.challenge] = "dead"
  BY <1>1 DEF IInv, UsedOnce, Spent
<1> HIDE DEF q, k
<1>5. /\ stored' \in [Keys -> Nat \cup {None}]
      /\ stored'[k] = q.response.count
      /\ \A j \in Keys : j # k => stored'[j] = stored[j]
  BY <1>1, <1>2 DEF IInv, Types
<1>6. /\ n \in Nat
      /\ logins' \in Seq(Requests)
      /\ Len(logins') = n + 1
      /\ logins'[n + 1] = q
      /\ \A i \in 1 .. n : logins'[i] = logins[i]
  BY <1>1 DEF IInv, Types
<1> HIDE DEF n
<1>7. \A i \in 1 .. n + 1 : i \in 1 .. n \/ i = n + 1
  BY <1>6
<1>8. Types'
  BY <1>1, <1>5, <1>6, PersistEnds DEF IInv, Types
<1>9. UsedOnce'
  <2>1. \A i \in 1 .. n : logins[i].challenge # q.challenge
    BY <1>1 DEF IInv, UsedOnce, Spent, q, n
  <2>2. \A g \in Handlers : Spent(g)' => request'[g].challenge # q.challenge
    BY <1>1, PersistEnds DEF IInv, UsedOnce, Spent, q
  <2>3. \A i \in 1 .. n + 1 : fate'[logins'[i].challenge] = "dead"
    BY <1>1, <1>4, <1>6, <1>7 DEF IInv, UsedOnce, n
  <2>4. \A i \in 1 .. n + 1, g \in Handlers :
           Spent(g)' => logins'[i].challenge # request'[g].challenge
    BY <1>1, <1>6, <1>7, <2>2, PersistEnds DEF IInv, UsedOnce, n
  <2>5. \A i, j \in 1 .. n + 1 : logins'[i].challenge = logins'[j].challenge => i = j
    BY <1>6, <1>7, <2>1 DEF IInv, UsedOnce, n
  <2>6. /\ \A g \in Handlers : Spent(g)' => fate'[request'[g].challenge] = "dead"
        /\ \A f, g \in Handlers :
              Spent(f)' /\ Spent(g)' /\ request'[f].challenge = request'[g].challenge
                => f = g
    BY <1>1, PersistEnds DEF IInv, UsedOnce
  <2> QED
    BY <1>6, <2>3, <2>4, <2>5, <2>6 DEF UsedOnce
<1>10. Genuine'
  <2>1. \A j : Legit(j) <=> Legit(j)'
    BY <1>1 DEF Legit
  <2>2. (\A i \in 1 .. Len(logins) : Legit(logins[i].account) /\ Shown(logins[i]))'
    BY <1>3, <1>6, <1>7, <2>1 DEF IInv, Genuine, k, n
  <2>3. (\A j \in Keys : stored[j] # None => Legit(j))'
    BY <1>3, <1>5, <2>1 DEF IInv, Genuine
  <2> QED
    BY <1>1, <2>1, <2>2, <2>3, PersistEnds DEF IInv, Genuine
<1>11. ASSUME Serial
       PROVE  /\ stored[k] \in Nat
              /\ q.response.count <= stored[k] => q.warned
  BY <1>1, <1>2, <1>11 DEF IInv, Types, Flagged, q, k
<1>12. \A j : FlagOf(j) => FlagOf(j)'
  BY <1>6 DEF FlagOf, n
<1>13. \A j : q.warned /\ j = k => FlagOf(j)'
  <2>1. n + 1 \in 1 .. Len(logins') /\ logins'[n + 1].account = k
    BY <1>6 DEF k
  <2> QED
    BY <1>6, <2>1 DEF FlagOf
<1>14. \A i \in 1 .. n : /\ logins[i].account \in Keys
                         /\ logins[i].response.count \in Nat
  BY LoginTyped DEF Requests, Responses, n
<1>15. Flagged'
  <2> SUFFICES ASSUME Serial PROVE Flagged'
    BY DEF Flagged
  <2>1. ASSUME NEW i \in 1 .. n
        PROVE  /\ stored'[logins[i].account] # None
               /\ \/ logins[i].response.count <= stored'[logins[i].account]
                  \/ FlagOf(logins[i].account)'
    <3>1. /\ stored[logins[i].account] # None
          /\ \/ logins[i].response.count <= stored[logins[i].account]
             \/ FlagOf(logins[i].account)
      BY DEF IInv, Flagged, n
    <3>2. CASE logins[i].account # k
      BY <1>5, <1>6, <1>12, <1>14, <3>1, <3>2
    <3>3. CASE logins[i].account = k
      BY <1>2, <1>5, <1>6, <1>11, <1>12, <1>13, <1>14, <3>1, <3>3, RelyingPartyAssumption
    <3> QED
      BY <3>2, <3>3
  <2>2. /\ stored'[q.account] # None
        /\ q.response.count <= stored'[q.account]
    BY <1>2, <1>5, RelyingPartyAssumption DEF k
  <2>3. (\A i \in 1 .. Len(logins) :
            /\ stored[logins[i].account] # None
            /\ \/ logins[i].response.count <= stored[logins[i].account]
               \/ FlagOf(logins[i].account))'
    BY <1>6, <1>7, <2>1, <2>2
  <2> QED
    BY <1>1, <2>3, PersistEnds DEF Flagged
<1>16. CloneIsFlagged'
  <2> SUFFICES ASSUME Serial, NEW i \in 1 .. n + 1, NEW j \in 1 .. n + 1, i < j,
                      logins'[i].account = logins'[j].account,
                      logins'[j].response.count <= logins'[i].response.count
               PROVE  \E f \in 1 .. n + 1 :
                         f <= j /\ logins'[f].account = logins'[i].account
                           /\ logins'[f].warned
    <3>1. DOMAIN logins' = 1 .. n + 1
      BY <1>6
    <3> QED
      BY <3>1 DEF CloneIsFlagged
  <2>1. i \in 1 .. n /\ logins'[i] = logins[i]
    BY <1>6, <1>7
  <2>2. CASE j \in 1 .. n
    <3>1. logins'[j] = logins[j]
      BY <1>6, <2>2
    <3>2. \E f \in 1 .. n :
             f <= j /\ logins[f].account = logins[i].account /\ logins[f].warned
      BY <2>1, <2>2, <3>1 DEF IInv, CloneIsFlagged, n
    <3> QED
      BY <1>6, <2>1, <3>2
  <2>3. CASE j = n + 1
    <3>1. logins[i].account = k /\ q.response.count <= logins[i].response.count
      BY <1>6, <2>1, <2>3 DEF k
    <3>2. CASE FlagOf(k)
      BY <1>6, <2>1, <2>3, <3>1, <3>2 DEF FlagOf, n
    <3>3. CASE ~FlagOf(k)
      <4>1. logins[i].response.count <= stored[k]
        BY <2>1, <3>1, <3>3 DEF IInv, Flagged, n
      <4>2. q.warned
        BY <1>2, <1>11, <1>14, <2>1, <3>1, <4>1
      <4> QED
        BY <1>6, <2>1, <2>3, <3>1, <4>2 DEF k
    <3> QED
      BY <3>2, <3>3
  <2> QED
    BY <1>7, <2>2, <2>3
<1> QED
  BY <1>8, <1>9, <1>10, <1>15, <1>16 DEF IInv

\* Every step preserves the invariant.
LEMMA NextIInv == IInv /\ [Next]_vars => IInv'
<1> SUFFICES ASSUME IInv, [Next]_vars PROVE IInv'
  OBVIOUS
<1>1. ASSUME NEW c \in Challenges, Issue(c) \/ Lapse(c) PROVE IInv'
  BY <1>1, IssueStep, LapseStep
<1>2. ASSUME NEW d \in Devices, NEW type \in {TYPE_CREATE, TYPE_GET},
             NEW c \in Challenges, NEW o \in Origins, Ceremony(d, type, c, o)
      PROVE  IInv'
  BY <1>2, CeremonyStep
<1>3. ASSUME NEW h \in Handlers, NEW kind \in {"registration", "login"},
             NEW r \in responses, NEW c \in Challenges, NEW k \in Keys,
             Receive(h, kind, r, c, k)
      PROVE  IInv'
  BY <1>3, ReceiveStep
<1>4. ASSUME NEW h \in Handlers, Consume(h) \/ Verify(h) PROVE IInv'
  BY <1>4, ConsumeStep, VerifyStep
<1>5. ASSUME NEW h \in Handlers, Persist(h) PROVE IInv'
  <2>1. request[h].kind \in {"registration", "login"}
    BY <1>5 DEF Persist, IInv, Types, Requests
  <2> QED
    BY <1>5, <2>1, PersistRegistrationStep, PersistLoginStep
<1>6. ASSUME NEW h \in Handlers, AlreadyRegistered(h) PROVE IInv'
  BY <1>6, RejectStep DEF AlreadyRegistered
<1>7. CASE UNCHANGED vars
  <2>1. UNCHANGED <<fate, uses, counter, responses, stored, pc, request, logins>>
    BY <1>7 DEF vars, tokenVars
  <2>2. \A k : (Legit(k) <=> Legit(k)') /\ (FlagOf(k) <=> FlagOf(k)')
    BY <2>1 DEF Legit, FlagOf
  <2>3. Types' /\ UsedOnce'
    BY <2>1 DEF IInv, Types, UsedOnce, Spent
  <2> QED
    BY <2>1, <2>2, <2>3 DEF IInv, Genuine, Flagged, CloneIsFlagged
<1> QED
  BY <1>1, <1>2, <1>3, <1>4, <1>5, <1>6, <1>7 DEF Next

\* The invariant holds of every reachable state.
THEOREM Invariance == Spec => []IInv
BY InitIInv, NextIInv, PTL DEF Spec

-----------------------------------------------------------------------------
\* Whatever arrives, in whatever order and however often, no two logins rest on
\* one challenge (store.py 119-135 before verifier.py 197-291, as demo_03 does).
THEOREM NoReplayHolds == Spec => []NoReplay
<1>1. IInv => NoReplay
  <2>1. logins \in Seq(Requests) => DOMAIN logins = 1 .. Len(logins)
    OBVIOUS
  <2> QED
    BY <2>1 DEF IInv, Types, UsedOnce, NoReplay
<1> QED
  BY <1>1, Invariance, PTL

\* Every login is one that the account's key made at the RP's own origin for the
\* challenge that was consumed for it (verifier.py 81-115 and 238-263).
THEOREM LoginIsGenuineHolds == Spec => []LoginIsGenuine
<1>1. IInv => LoginIsGenuine
  BY DEF IInv, Types, Genuine, Legit, Shown, LoginIsGenuine
<1> QED
  BY <1>1, Invariance, PTL

\* With one response at a time, a clone and the original cannot both go on
\* without a flagged login, for any number of each (verifier.py 265-276).
THEOREM CloneIsFlaggedHolds == Spec => []CloneIsFlagged
<1>1. IInv => CloneIsFlagged
  BY DEF IInv
<1> QED
  BY <1>1, Invariance, PTL

\* With one response at a time, a stored counter falls or stays only at a login
\* that is flagged (verifier.py 265-285).
THEOREM FallsOnlyFlaggedHolds == Spec => FallsOnlyFlagged
<1> DEFINE Falls(k) ==
      /\ Len(logins') > Len(logins)
      /\ stored[k] # None
      /\ logins'[Len(logins')].account = k
      /\ stored'[k] <= stored[k]
<1>1. ASSUME IInv, [Next]_vars, Serial, NEW k \in Keys, Falls(k)
      PROVE  logins'[Len(logins')].warned
  <2>1. PICK h \in Handlers : Persist(h) /\ request[h].kind = "login"
    <3>1. logins' # logins
      BY <1>1
    <3> QED
      BY <1>1, <3>1 DEF Next, vars, Issue, Lapse, Ceremony, Receive, Consume, Verify,
           Persist, AlreadyRegistered
  <2> DEFINE q == request[h]
  <2>2. /\ pc[h] = "persist" /\ q.kind = "login" /\ q \in Requests
        /\ stored' = [stored EXCEPT ![q.account] = q.response.count]
        /\ logins' = Append(logins, q)
    BY <1>1, <2>1 DEF Persist, IInv, Types
  <2>3. q.response.count <= stored[q.account] => q.warned
    BY <1>1, <2>2 DEF IInv, Flagged
  <2> HIDE DEF q
  <2>4. logins'[Len(logins')] = q
    BY <1>1, <2>2 DEF IInv, Types
  <2>5. q.account = k /\ stored'[k] = q.response.count
    BY <1>1, <2>2, <2>4 DEF IInv, Types
  <2> QED
    BY <1>1, <2>3, <2>4, <2>5
<1>2. IInv /\ [Next]_vars =>
        (Serial => \A k \in Keys : Falls(k) => logins'[Len(logins')].warned)
  BY <1>1
<1>3. IInv /\ [Next]_vars =>
        [Serial =>
           \A k \in Keys : Len(logins') > Len(logins) /\ stored[k] # None
              /\ logins'[Len(logins')].account = k /\ stored'[k] <= stored[k]
              => logins'[Len(logins')].warned]_vars
  BY <1>2
<1> QED
  BY <1>3, Invariance, PTL DEF Spec, FallsOnlyFlagged
=============================================================================
