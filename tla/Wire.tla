-------------------------------- MODULE Wire --------------------------------
(***************************************************************************)
(* An encoded message on its way to the verifier.  It is cut, extended and *)
(* changed byte by byte, so the states include what a broken or different  *)
(* encoder would send; each state is read by the parser for its kind.  A   *)
(* cross-device payload is JSON: a client changes its fields and its tag.  *)
(***************************************************************************)
EXTENDS AuthData, CrossDevice

CONSTANTS
    Messages,   \* records [kind, value, positions, limit]: what is encoded,
                \* which of its bytes change, and how many changes are made
    Octets,     \* the bytes that replace others or are added
    HmacKey     \* the key of the verifier that gets a payload back

VARIABLES
    message,    \* the message sent
    data,       \* its bytes, or the payload, as they are now
    result,     \* what the parser for its kind says of them
    changes     \* the number of changes so far

vars == <<message, data, result, changes>>

\* authenticatorData with extensions comes from an authenticator: the helper
\* of testing.py writes none, so their bytes follow what it writes.
EncodeAuthData(v) ==
    make_authenticator_data(v.rp_id_hash, v.flags, v.sign_count, v.attested_credential_data)
    \o (IF v.extensions = None THEN << >> ELSE dumps(v.extensions))

Encode(m) ==
    CASE m.kind = "item" -> dumps(m.value)
      [] m.kind = "key" -> public_key_to_cose(m.value)
      [] m.kind = "authdata" -> EncodeAuthData(m.value)
      [] m.kind = "payload" -> build_challenge(m.value)

-----------------------------------------------------------------------------
\* What can be sent.  A number has no leading zeros; a string is no longer than
\* the lengths that the model tells apart.
IsNumber(d) == d \in Seq(0 .. 255) /\ (d # << >> => d[1] # 0)
IsString(s) == s \in Seq(0 .. 255) /\ Len(s) < TooLong

\* One value of the types that dumps knows, whatever is in it.
IsItem(x) ==
    \/ /\ x.type = "int"
       /\ x = Int_(x.neg, x.arg)
       /\ x.neg \in BOOLEAN /\ IsNumber(x.arg) /\ Len(x.arg) <= 8
    \/ x.type = "bytes" /\ x = ByteString(x.bytes) /\ IsString(x.bytes)
    \/ x.type = "text" /\ x = Text(x.text) /\ IsString(x.text) /\ IsUtf8(x.text)
    \/ /\ x.type = "array"
       /\ x = Array(x.items)
       /\ x.items \in Seq(Children(x)) /\ Len(x.items) < TooLong
    \/ /\ x.type = "map"
       /\ x = Map(x.entries)
       /\ x.entries \subseteq Children(x) \X Children(x)
       /\ IsFiniteSet(x.entries) /\ Cardinality(x.entries) < TooLong
       /\ \A e \in x.entries : Hashable(e[1])
       /\ \A e, f \in x.entries : Hashed(e[1]) = Hashed(f[1]) => e = f
    \/ /\ x.type = "simple"
       /\ x = Simple(x.simple)
       /\ x.simple \in {"false", "true", "null"}

\* dumps writes it: all that is in it has these types, and it is not too deep.
IsValue(v) ==
    LET parts == Within!Iterate(v)[RecursionLimit]
    IN  /\ \A x \in parts : IsItem(x)
        /\ v \in DOMAIN Dumps!Iterate(parts)[RecursionLimit]

\* A public key of the cryptography library, of a kind that is accepted.
IsKey(key) ==
    LET a == key.numbers[1]
        b == key.numbers[2]
    IN  /\ key = PublicKey(key.alg, a, b)
        /\ IsNumber(a) /\ IsNumber(b)
        /\ \/ /\ key.alg = "ES256"
              /\ Len(a) <= 32 /\ Len(b) <= 32 /\ <<a, b>> \in Points
           \/ /\ key.alg = "RS256"
              /\ IsString(a) /\ IsString(b)
              /\ BitLength(a) >= 2048 /\ RsaNumbersValid(a, b)

\* authenticatorData: fields of their widths, the key one CBOR item, a map of
\* extensions if and only if ED says so, and AT not set without its part.
IsAttested(att) ==
    /\ att = [aaguid |-> att.aaguid, credential_id |-> att.credential_id,
              credential_public_key |-> att.credential_public_key]
    /\ IsString(att.aaguid) /\ Len(att.aaguid) = 16
    /\ IsString(att.credential_id)
    /\ IsString(att.credential_public_key) /\ loads(att.credential_public_key).ok
IsAuthData(v) ==
    /\ v = [rp_id_hash |-> v.rp_id_hash, flags |-> v.flags, sign_count |-> v.sign_count,
            attested_credential_data |-> v.attested_credential_data,
            extensions |-> v.extensions]
    /\ IsString(v.rp_id_hash) /\ Len(v.rp_id_hash) = 32
    /\ v.flags \subseteq Bits
    /\ IsNumber(v.sign_count) /\ Len(v.sign_count) <= 4
    /\ IF v.attested_credential_data = None THEN FLAG_AT \notin v.flags
       ELSE IsAttested(v.attested_credential_data)
    /\ IF v.extensions = None THEN FLAG_ED \notin v.flags
       ELSE FLAG_ED \in v.flags /\ IsValue(v.extensions) /\ v.extensions.type = "map"

Kinds == {"item", "key", "authdata", "payload"}
ASSUME MessagesAssumption ==
    /\ Octets \subseteq 0 .. 255
    /\ \A m \in Messages :
          /\ m.kind \in Kinds
          /\ m.kind = "item" => IsValue(m.value)
          /\ m.kind = "key" => IsKey(m.value) /\ RecursionLimit >= 2
          /\ m.kind = "authdata" => IsAuthData(m.value)

\* No message grows to the lengths that the model does not tell apart.
ASSUME LengthAssumption ==
    \A m \in Messages : m.kind # "payload" =>
        m.limit \in Nat /\ Len(Encode(m)) + m.limit < TooLong

\* verify_challenge_payload has no default for its key.
ASSUME KeyAssumption == HmacKey # NoKey

Read(kind, bytes) ==
    CASE kind = "item" -> loads(bytes)
      [] kind = "key" -> parse_cose_key(bytes)
      [] kind = "authdata" -> parse_authenticator_data(bytes)
      [] kind = "payload" -> verify_challenge_payload(bytes, HmacKey)

Init ==
    /\ message \in Messages
    /\ data = Encode(message)
    /\ result = Read(message.kind, data)
    /\ changes = 0

Change(bytes) ==
    /\ changes < message.limit
    /\ data' = bytes
    /\ result' = Read(message.kind, bytes)
    /\ changes' = changes + 1
    /\ UNCHANGED message

InBytes == message.kind # "payload"

Cut == InBytes /\ data # << >> /\ Change(Front(data))

Extend(b) == InBytes /\ Change(Append(data, b))

Replace(i, b) == InBytes /\ data[i] # b /\ Change(ReplaceAt(data, i, b))

\* The payloads a client may have seen, whose parts it puts together anew.
Payloads == {build_challenge(m.value) : m \in {n \in Messages : n.kind = "payload"}}

Alter(field, p) ==
    /\ ~InBytes
    /\ data.body # NoBody
    /\ Change([data EXCEPT !.body[field] = p.body[field]])

Retag(tag) == ~InBytes /\ Change([data EXCEPT !.tag = tag])

DropBody == ~InBytes /\ Change([data EXCEPT !.body = NoBody])

Next ==
    \/ Cut
    \/ \E b \in Octets : Extend(b)
    \/ \E i \in message.positions \cap DOMAIN data, b \in Octets : Replace(i, b)
    \/ \E p \in Payloads : (\E field \in DOMAIN p.body : Alter(field, p)) \/ Retag(p.tag)
    \/ Retag(NoTag)
    \/ DropBody

Spec == Init /\ [][Next]_vars

-----------------------------------------------------------------------------
\* What the encoders write, the parsers read back unchanged: heads of every
\* width, keys in any order, numbers with leading zeros, flags set late.
ReadBack ==
    changes = 0 /\ InBytes =>
        /\ result.ok
        /\ result.value =
             IF message.kind = "authdata"
             THEN [message.value EXCEPT !.flags =
                      @ \cup (IF message.value.attested_credential_data = None
                              THEN {} ELSE {FLAG_AT})]
             ELSE message.value

\* Whatever loads accepts, dumps writes in a form that has the same value and
\* is no longer: its heads are the shortest there are (_cbor.py 134-145).  In
\* which order it puts the entries of a map is not said here.
Canonical ==
    message.kind = "item" /\ result.ok =>
        LET bytes == dumps(result.value) IN
        /\ loads(bytes) = Value(result.value)
        /\ Len(bytes) <= Len(data)

\* No accepted message is the beginning of another: cutting or extending one
\* makes its parser refuse it (the trailing and truncation checks).
PrefixFree ==
    [][InBytes /\ result.ok /\ Len(data') # Len(data) => ~result'.ok]_vars

\* A byte of accepted data cannot change without changing the value or being
\* refused, the two spellings of null excepted: no entry of a map hides another,
\* and no byte is skipped.  Tag numbers are dropped, so the data may not have a
\* byte that can be a tag's head (192 .. 223) anywhere, inside of strings included.
Tagged(bytes) == \E i \in DOMAIN bytes : bytes[i] \div 32 = 6
Spelling(bytes) == [i \in DOMAIN bytes |-> IF bytes[i] = 247 THEN 246 ELSE bytes[i]]

EveryByteCounts ==
    [][message.kind = "item" /\ result.ok /\ result'.ok /\ ~Tagged(data) /\ ~Tagged(data')
       /\ Spelling(data) # Spelling(data') => result' # result]_vars

\* Accepted authenticatorData is exactly its fields one after another, those
\* of them that its flags announce, the credential key one whole CBOR item and
\* the extensions another: no offset or length is off, and parse_cose_key, which
\* reads the key again, will not find it cut or followed by other bytes.
FieldBytes(v) ==
    v.rp_id_hash \o <<ByteOf(v.flags)>> \o ToBytes(v.sign_count, 4)
    \o (IF FLAG_AT \in v.flags THEN AttestedBytes(v.attested_credential_data)
        ELSE << >>)

NothingUnread ==
    message.kind = "authdata" /\ result.ok =>
        LET v == result.value
            rest == SubSeq(data, Len(FieldBytes(v)) + 1, Len(data))
        IN  /\ IsPrefix(FieldBytes(v), data)
            /\ IF FLAG_ED \in v.flags THEN loads(rest) = Value(v.extensions)
               ELSE rest = << >> /\ v.extensions = None
            /\ IF FLAG_AT \in v.flags
               THEN loads(v.attested_credential_data.credential_public_key).ok
               ELSE v.attested_credential_data = None

\* A key that is accepted in any encoding is accepted, as the same key, when
\* public_key_to_cose writes it: leading zeros come and go without harm.
KeyIsPortable ==
    message.kind = "key" /\ result.ok =>
        parse_cose_key(public_key_to_cose(result.value)) = result

\* A payload that comes back is accepted only with a body that was built with
\* the verifier's key, whatever parts of which payloads it is made of: no field
\* is outside the tag, and no tag serves for another body ("tamper-evident",
\* builder.py 4-5).  Without changes it is accepted exactly if it has the key.
PayloadIsOurs ==
    message.kind = "payload" =>
        /\ result.ok =>
             \E m \in Messages : /\ m.kind = "payload"
                                 /\ m.value.hmac_key = HmacKey
                                 /\ result.value = Body(m.value)
        /\ changes = 0 => (result.ok <=> message.value.hmac_key = HmacKey)
=============================================================================
