------------------------------ MODULE AuthData ------------------------------
(***************************************************************************)
(* authenticatorData: parse_authenticator_data of webauthn/authdata.py and *)
(* the encoder of testing.py.  Layout: 32 bytes hash of the RP ID, flags,  *)
(* 4 bytes signCount; with AT 16 bytes AAGUID, 2 bytes length, credential  *)
(* id, COSE key; with ED a CBOR map.                                       *)
(***************************************************************************)
EXTENDS CoseKey

FLAG_UP == 1
FLAG_UV == 4
FLAG_AT == 64
FLAG_ED == 128

\* A flag byte as the set of its bits, and back.
Bits == {1, 2, 4, 8, 16, 32, 64, 128}
ByteOf(flags) ==
    LET value(bit) == IF bit \in flags THEN bit ELSE 0
    IN  value(1) + value(2) + value(4) + value(8)
        + value(16) + value(32) + value(64) + value(128)
FlagSet(byte) == {bit \in Bits : (byte \div bit) % 2 = 1}

BadAuthData == Error("bad_authdata")

\* decode_first on the rest of the data; only a ValueError is turned into a
\* VerificationError, so any other error of the decoder escapes.
At(offset, item) ==
    IF item.ok THEN Decoded(item.value, offset + item.offset)
    ELSE IF item.error \in {"TypeError", "RecursionError"} THEN item
    ELSE BadAuthData
DecodeAt(data, offset) == At(offset, decode_first(SubSeq(data, offset + 1, Len(data))))

Attested(data, offset) ==
    LET id_len == Size(Digits(Bytes(data, offset + 16, 2)))
        key_at == offset + 18 + id_len
    IN  IF ~_need(data, offset, 18) THEN BadAuthData
        ELSE IF ~_need(data, offset + 18, id_len) THEN BadAuthData
        ELSE AndThen(DecodeAt(data, key_at), LAMBDA key :
                 Decoded([aaguid |-> Bytes(data, offset, 16),
                          credential_id |-> Bytes(data, offset + 18, id_len),
                          credential_public_key |->
                             Bytes(data, key_at, key.offset - key_at)],
                         key.offset))

Extensions(data, offset) ==
    AndThen(DecodeAt(data, offset), LAMBDA ext :
        IF ext.value.type = "map" THEN ext ELSE BadAuthData)

Present(flag, byte, part, offset) ==
    IF flag \in FlagSet(byte) THEN part ELSE Decoded(None, offset)

AnythingLeft(data, offset) == offset <= Len(data)
NothingLeft(data, offset) == offset = Len(data)

parse_authenticator_data(data) ==
    IF Len(data) < 37 THEN BadAuthData
    ELSE AndThen(Present(FLAG_AT, data[33], Attested(data, 37), 37), LAMBDA att :
         AndThen(Present(FLAG_ED, data[33], Extensions(data, att.offset), att.offset),
                 LAMBDA ext :
             IF ~NothingLeft(data, ext.offset) THEN BadAuthData
             ELSE Value([rp_id_hash |-> Bytes(data, 0, 32),
                         flags |-> FlagSet(data[33]),
                         sign_count |-> Digits(Bytes(data, 33, 4)),
                         attested_credential_data |-> att.value,
                         extensions |-> ext.value])))

-----------------------------------------------------------------------------
AttestedBytes(att) ==
    att.aaguid \o ToBytes(LengthDigits(att.credential_id), 2)
    \o att.credential_id \o att.credential_public_key

EarlyFlagByte(flags, attested) == ByteOf(flags)
FlagByte(flags, attested) ==
    ByteOf(flags \cup (IF attested = None THEN {} ELSE {FLAG_AT}))

\* flags holds UP and UV as the caller asks, and its extra_flags.
make_authenticator_data(rp_id_hash, flags, sign_count, attested) ==
    rp_id_hash \o <<FlagByte(flags, attested)>> \o ToBytes(sign_count, 4)
    \o (IF attested = None THEN << >> ELSE AttestedBytes(attested))
=============================================================================
