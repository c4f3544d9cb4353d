------------------------------- MODULE MCWire -------------------------------
(* Messages at the boundaries of every head, keys with leading zeros, and   *)
(* authenticatorData with and without its optional parts; payloads whose    *)
(* parts can be exchanged.                                                  *)
EXTENDS Wire

Fill(n, b) == [i \in 1 .. n |-> b]
Message(kind, value, positions, limit) ==
    [kind |-> kind, value |-> value, positions |-> positions, limit |-> limit]

\* 0, 23, 24, 2^8 and 2^16 and 2^32 with what is below, 2^64 - 1.
Arguments == {<< >>, <<23>>, <<24>>, <<255>>, <<1, 0>>, <<255, 255>>, <<1, 0, 0>>,
              Fill(4, 255), <<1>> \o Fill(4, 0), Fill(8, 255)}
Ints == {Int_(neg, arg) : neg \in BOOLEAN, arg \in Arguments}
Strings == {ByteString(Fill(n, 65)) : n \in {0, 1, 23, 24, 256}}
           \cup {Text(<<65, 194, 128>>)}

One == Int_(FALSE, <<1>>)
Two == Int_(FALSE, <<2>>)
Containers ==
    {Array(<<One, Simple("null"), ByteString(<<1>>)>>),
     Map({<<One, Two>>, <<Two, One>>}),
     Map({<<Simple("true"), Array(<< >>)>>, <<Int_(TRUE, << >>), Simple("false")>>}),
     Map({<<Text(<<65>>), Map({<<One, One>>})>>})}

ItemMessages ==
    {Message("item", v, 1 .. 9, 1) : v \in Ints \cup Strings}
    \cup {Message("item", v, 1 .. 9, 3) : v \in Containers}

-----------------------------------------------------------------------------
\* Numbers of 31 and 32 bytes; two points differ in the first byte of y only.
X == Fill(31, 5)
Y == <<9>> \o X
MCPoints == {<<X, X>>, <<Y, X>>, <<Y, Y>>}
Modulus == <<1, 128>> \o Fill(255, 5)
Keys ==
    {PublicKey("ES256", p[1], p[2]) : p \in MCPoints}
    \cup {PublicKey("RS256", n, <<1, 0, 1>>) : n \in {Modulus, Tail(Modulus)}}

\* The bytes outside the coordinates, and the first one of each number.
KeyPositions == 1 .. 14 \cup 43 .. 46

KeyMessages == {Message("key", k, KeyPositions, 1) : k \in Keys}

-----------------------------------------------------------------------------
Sent(flags, sign_count, attested, extensions) ==
    [rp_id_hash |-> Fill(32, 7), flags |-> flags, sign_count |-> sign_count,
     attested_credential_data |-> attested, extensions |-> extensions]
Credential(id, key) ==
    [aaguid |-> Fill(16, 3), credential_id |-> id, credential_public_key |-> key]

Tiny == Credential(<<9>>, dumps(Map({<<One, Two>>})))
Anonymous == Credential(<< >>, dumps(Map({<<One, Two>>})))
Full == Credential(<<9, 9>>, public_key_to_cose(PublicKey("ES256", X, X)))
Extension == Map({<<Text(<<65>>), Simple("true")>>})

\* The flags, the last byte of the counter, the length and all after it.
AuthDataPositions == {33, 37} \cup 54 .. 64

AuthDataMessages ==
    {Message("authdata", v, AuthDataPositions, 2) :
        v \in {Sent({FLAG_UP}, << >>, None, None),
               Sent({FLAG_UP, FLAG_UV}, <<1, 0, 0, 1>>, Tiny, None),
               Sent({FLAG_UP, 8, FLAG_ED}, <<1>>, None, Extension),
               Sent({FLAG_UP, FLAG_ED}, <<1>>, Anonymous, Extension)}}
    \cup {Message("authdata", Sent({FLAG_UP}, <<1>>, Full, None), AuthDataPositions, 1)}

-----------------------------------------------------------------------------
\* Challenges that differ in every field, made with our key, another or none.
Challenge(name, hmac_key, extra) ==
    [value |-> name, id |-> name, rp_id |-> name, origins |-> {name},
     expires_at |-> IF name = "first" THEN 9 ELSE 10, extra |-> extra, hmac_key |-> hmac_key]

PayloadMessages ==
    {Message("payload", c, {}, 3) :
        c \in {Challenge("first", HmacKey, {}), Challenge("second", HmacKey, {"flow"}),
               Challenge("second", "theirs", {}), Challenge("first", NoKey, {"flow"})}}

MCMessages == ItemMessages \cup KeyMessages \cup AuthDataMessages \cup PayloadMessages
=============================================================================
