---------------------------- MODULE RelyingParty ----------------------------
(***************************************************************************)
(* A relying party that uses passkit as demos/demo_01 and demo_03 do: it   *)
(* issues a challenge, gets a response, consumes the challenge, verifies   *)
(* the response against the credential it stored and stores the new        *)
(* counter.  Several request handlers run at once; responses are delayed,  *)
(* lost, reordered and delivered again; a user's authenticator may answer  *)
(* at another site, and a device may be a clone.  The challenge component  *)
(* is SingleUseToken, which ChallengeStore implements.                     *)
(***************************************************************************)
EXTENDS Verifier, FiniteSets

CONSTANTS
    Challenges,
    Devices,
    KeyOf,          \* KeyOf[d]: the credential key in device d
    Origins,        \* the origins browsers visit
    RpIdOf,         \* RpIdOf[o]: the RP ID a browser allows at origin o
    expected_origins, rp_id,    \* the RP's configuration
    Registered,     \* keys registered, with counter 0, before the run starts
    Handlers,
    Serial,         \* TRUE: the RP handles one response at a time
    MaxCeremonies   \* bound on the responses made

ASSUME RelyingPartyAssumption ==
    /\ KeyOf \in [Devices -> Keys]
    /\ Registered \subseteq Keys
    /\ Serial \in BOOLEAN
    /\ MaxCeremonies \in Nat
    /\ None \notin Challenges \cup Nat

VARIABLES
    fate, uses,     \* the challenge store, see SingleUseToken
    counter,        \* counter[d]: signature counter of device d
    responses,      \* what devices have answered; any may arrive, or never
    stored,         \* stored[k]: sign count of the credential, None if absent
    pc, request,    \* what handler h is doing, and with which response
    logins          \* history: the logins granted, in the order of the grants

tokenVars == <<fate, uses>>
vars == <<tokenVars, counter, responses, stored, pc, request, logins>>

Token == INSTANCE SingleUseToken WITH Ids <- Challenges

-----------------------------------------------------------------------------
\* A response as the verifier sees it.
ClientData(r) == [json |-> TRUE, type |-> r.type, challenge |-> r.challenge,
                  origin |-> r.origin, crossOrigin |-> FALSE]

AuthData(r) == [parses |-> TRUE, rp_id_hash |-> RpIdOf[r.origin],
                user_present |-> TRUE, user_verified |-> TRUE,
                sign_count |-> r.count,
                attested |-> IF r.type = TYPE_CREATE
                             THEN [credential_id |-> r.key, key |-> r.key]
                             ELSE None]

\* The keyword arguments of the two verifiers in the demos.
Arguments(q) == [client_data |-> ClientData(q.response),
                 auth_data |-> AuthData(q.response),
                 attestation_object |-> [hashable |-> TRUE, cbor |-> TRUE, structure |-> TRUE,
                                         auth_data |-> AuthData(q.response)],
                 signature |-> Signed(q.response.key, AuthData(q.response),
                                      ClientData(q.response)),
                 credential_public_key |-> q.account,
                 credential_id |-> q.response.key,
                 expected_credential_id |-> None,
                 expected_challenge |-> q.challenge,
                 expected_origins |-> expected_origins, rp_id |-> rp_id,
                 stored_sign_count |-> stored[q.account],
                 require_user_verification |-> TRUE]

\* An idle handler has no request.
Init ==
    /\ fate = [c \in Challenges |-> "unissued"]
    /\ uses = [c \in Challenges |-> 0]
    /\ counter = [d \in Devices |-> 0]
    /\ responses = {}
    /\ stored = [k \in Keys |-> IF k \in Registered THEN 0 ELSE None]
    /\ pc = [h \in Handlers |-> "idle"]
    /\ request = [h \in Handlers |-> None]
    /\ logins = << >>

-----------------------------------------------------------------------------
\* The store.
Issue(c) ==
    /\ Token!Issue(c)
    /\ UNCHANGED <<counter, responses, stored, pc, request, logins>>

\* Expiry, reaping, or the loss of the store's process.
Lapse(c) ==
    /\ Token!Lapse({c})
    /\ UNCHANGED <<counter, responses, stored, pc, request, logins>>

\* A user at some origin answers a challenge with a device, which counts up.
Ceremony(d, type, c, o) ==
    /\ Cardinality(responses) < MaxCeremonies
    /\ fate[c] # "unissued"
    /\ counter' = [counter EXCEPT ![d] = @ + 1]
    /\ responses' = responses \cup
         {[type |-> type, challenge |-> c, origin |-> o, key |-> KeyOf[d],
           count |-> counter[d] + 1]}
    /\ UNCHANGED <<tokenVars, stored, pc, request, logins>>

\* A response arrives for an account, under the id of the challenge it claims.
Receive(h, kind, r, c, k) ==
    /\ pc[h] = "idle"
    /\ Serial => \A g \in Handlers : pc[g] = "idle"
    /\ kind = "login" => stored[k] # None
    /\ pc' = [pc EXCEPT ![h] = "consume"]
    /\ request' = [request EXCEPT ![h] =
                     [kind |-> kind, response |-> r, challenge |-> c, account |-> k,
                      warned |-> FALSE]]
    /\ UNCHANGED <<tokenVars, counter, responses, stored, logins>>

Reject(h) ==
    /\ pc' = [pc EXCEPT ![h] = "idle"]
    /\ request' = [request EXCEPT ![h] = None]

PeekChallenge(c) == fate[c] = "live" /\ UNCHANGED tokenVars
UseChallenge(c) == Token!Use(c)

\* store.consume(id): a ChallengeError ends the request.
Consume(h) ==
    /\ pc[h] = "consume"
    /\ \/ /\ UseChallenge(request[h].challenge)
          /\ pc' = [pc EXCEPT ![h] = "verify"]
          /\ UNCHANGED request
       \/ /\ fate[request[h].challenge] # "live"
          /\ Reject(h)
          /\ UNCHANGED tokenVars
    /\ UNCHANGED <<counter, responses, stored, logins>>

Verdict(q) ==
    IF q.kind = "login" THEN verify_assertion(Arguments(q))
    ELSE verify_registration(Arguments(q))

\* verify_registration or verify_assertion, which is given the counter stored
\* now; an error ends the request.
Verify(h) ==
    LET q == request[h] IN
    /\ pc[h] = "verify"
    /\ IF Verdict(q) = Accepted
       THEN /\ pc' = [pc EXCEPT ![h] = "persist"]
            /\ request' = [request EXCEPT ![h].warned =
                             q.kind = "login" /\ clone_warning(Arguments(q))]
       ELSE Reject(h)
    /\ UNCHANGED <<tokenVars, counter, responses, stored, logins>>

\* A new credential is stored with its counter; a login's counter replaces the
\* stored one, with or without a warning.  That a registration never replaces a
\* stored credential is assumed of the deployment: demo_01 registers one account
\* once and does not ask.
Persist(h) ==
    LET q == request[h]
        k == IF q.kind = "login" THEN q.account ELSE q.response.key
    IN  /\ pc[h] = "persist"
        /\ q.kind = "registration" => stored[k] = None
        /\ stored' = [stored EXCEPT ![k] = q.response.count]
        /\ logins' = IF q.kind = "login" THEN Append(logins, q) ELSE logins
        /\ Reject(h)
        /\ UNCHANGED <<tokenVars, counter, responses>>

\* A key that is already registered is left as it is, so no late or repeated
\* registration puts the counter back; CloneIsFlagged needs that.
AlreadyRegistered(h) ==
    /\ pc[h] = "persist"
    /\ request[h].kind = "registration"
    /\ stored[request[h].response.key] # None
    /\ Reject(h)
    /\ UNCHANGED <<tokenVars, counter, responses, stored, logins>>

Next ==
    \/ \E c \in Challenges : Issue(c) \/ Lapse(c)
    \/ \E d \in Devices, type \in {TYPE_CREATE, TYPE_GET}, c \in Challenges,
          o \in Origins : Ceremony(d, type, c, o)
    \/ \E h \in Handlers, kind \in {"registration", "login"}, r \in responses,
          c \in Challenges, k \in Keys : Receive(h, kind, r, c, k)
    \/ \E h \in Handlers :
          Consume(h) \/ Verify(h) \/ Persist(h) \/ AlreadyRegistered(h)

Spec == Init /\ [][Next]_vars

-----------------------------------------------------------------------------
\* The RP may write its origin in another way than browsers do.
AtOwnOrigin(r) ==
    \E own \in expected_origins : normalize_origin(own) = normalize_origin(r.origin)

\* Each login granted to an account is one that the account's key made: a get
\* ceremony, at the RP's own origin, for the challenge that was consumed for it,
\* after a create ceremony at that origin registered the key.  Registration
\* responses, other accounts' responses and relayed ones never become logins.
LoginIsGenuine ==
    \A i \in DOMAIN logins :
        LET l == logins[i] IN
        /\ l.response.type = TYPE_GET
        /\ l.response.key = l.account
        /\ l.response.challenge = l.challenge
        /\ l.account \in Registered \/
           \E r \in responses : /\ r.type = TYPE_CREATE
                               /\ r.key = l.account
                               /\ AtOwnOrigin(r)
        /\ AtOwnOrigin(l.response)

\* A response delivered again, or to several handlers at once, gives one login:
\* no two logins rest on one challenge (SECURITY_MODEL.md: replay).
NoReplay ==
    \A i, j \in DOMAIN logins :
        logins[i].challenge = logins[j].challenge => i = j

\* With one response handled at a time: if two logins of an account show a
\* counter that did not advance, some login of that account was flagged.  So a
\* clone and the original cannot both go on unnoticed (lines 268-276), even
\* though a flagged login lowers the stored counter.
CloneIsFlagged ==
    Serial =>
        \A i, j \in DOMAIN logins :
            /\ i < j
            /\ logins[i].account = logins[j].account
            /\ logins[j].response.count <= logins[i].response.count
            => \E f \in DOMAIN logins :
                  f <= j /\ logins[f].account = logins[i].account /\ logins[f].warned

\* With one response handled at a time a stored counter falls, or stays as it
\* is, only at a login that is flagged.
FallsOnlyFlagged ==
    [][Serial =>
         \A k \in Keys : Len(logins') > Len(logins) /\ stored[k] # None
            /\ logins'[Len(logins')].account = k /\ stored'[k] <= stored[k]
            => logins'[Len(logins')].warned]_vars
=============================================================================
