------------------------------ MODULE CoseKey -------------------------------
(***************************************************************************)
(* src/passkit/_cose.py: public keys from and to COSE_Key bytes.  A public *)
(* key is its algorithm and its two numbers: x, y (ES256) or n, e (RS256). *)
(***************************************************************************)
EXTENDS Cbor

CONSTANTS
    Points,     \* the pairs of numbers that are points of P-256
    None        \* Python's None

PublicKey(alg, a, b) == [alg |-> alg, numbers |-> <<a, b>>]

COSE_KTY == Int_(FALSE, <<1>>)
COSE_ALG == Int_(FALSE, <<3>>)
COSE_CRV == Int_(TRUE, << >>)
COSE_EC_X == Int_(TRUE, <<1>>)
COSE_EC_Y == Int_(TRUE, <<2>>)
COSE_RSA_N == Int_(TRUE, << >>)
COSE_RSA_E == Int_(TRUE, <<1>>)

KTY_EC2 == Int_(FALSE, <<2>>)
KTY_RSA == Int_(FALSE, <<3>>)
ALG_ES256 == Int_(TRUE, <<6>>)
ALG_RS256 == Int_(TRUE, <<1, 0>>)
CRV_P256 == Int_(FALSE, <<1>>)

\* dict.get, and == between two ints or Booleans.
Get(cose, label) ==
    LET found == {e \in cose.entries : Hashed(e[1]) = label} IN
    IF found = {} THEN Simple("null") ELSE (CHOOSE e \in found : TRUE)[2]
Equals(v, int) == Hashed(v) = int

-----------------------------------------------------------------------------
\* The cryptography library: public_key() raises ValueError for a point off
\* the curve, and for an exponent that is even, below 3 or not below n.
BitLength(digits) ==
    IF digits = << >> THEN 0
    ELSE 8 * (Len(digits) - 1) + Min({b \in 1 .. 8 : digits[1] < 2^b})

IsBelow(m, n) ==
    \/ Len(m) < Len(n)
    \/ Len(m) = Len(n) /\ BytesLess(m, n)

RsaNumbersValid(n, e) == IsBelow(<<2>>, e) /\ IsBelow(e, n) /\ e[Len(e)] % 2 = 1

Ec2Key(cose) ==
    LET x == Get(cose, COSE_EC_X)
        y == Get(cose, COSE_EC_Y)
        point == <<Digits(x.bytes), Digits(y.bytes)>>
    IN  IF ~ /\ Equals(Get(cose, COSE_ALG), ALG_ES256)
             /\ Equals(Get(cose, COSE_CRV), CRV_P256)
             /\ x.type = "bytes" /\ y.type = "bytes"
             /\ Len(x.bytes) = 32 /\ Len(y.bytes) = 32
        THEN Error("COSEError")
        ELSE IF point \in Points THEN Value(PublicKey("ES256", point[1], point[2]))
        ELSE Error("ValueError")

RsaKey(cose) ==
    LET n == Get(cose, COSE_RSA_N)
        e == Get(cose, COSE_RSA_E)
    IN  IF ~ /\ Equals(Get(cose, COSE_ALG), ALG_RS256)
             /\ n.type = "bytes" /\ e.type = "bytes"
             /\ BitLength(Digits(n.bytes)) >= 2048
        THEN Error("COSEError")
        ELSE IF RsaNumbersValid(Digits(n.bytes), Digits(e.bytes))
        THEN Value(PublicKey("RS256", Digits(n.bytes), Digits(e.bytes)))
        ELSE Error("ValueError")

\* A missing kty or alg equals no supported one.
KeyOfType(kty, cose) ==
    CASE Equals(kty, KTY_EC2) -> Ec2Key(cose)
      [] Equals(kty, KTY_RSA) -> RsaKey(cose)
      [] OTHER -> Error("COSEError")

parse_cose_key(data) ==
    AndThen(loads(data), LAMBDA cose :
        IF cose.value.type = "map" THEN KeyOfType(Get(cose.value, COSE_KTY), cose.value)
        ELSE Error("COSEError"))

-----------------------------------------------------------------------------
MinimalCoordinate(number) == number
Coordinate(number) == ToBytes(number, 32)

public_key_to_cose(key) ==
    LET a == key.numbers[1]
        b == key.numbers[2]
    IN  IF key.alg = "ES256"
        THEN dumps(Map({<<COSE_KTY, KTY_EC2>>, <<COSE_ALG, ALG_ES256>>,
                        <<COSE_CRV, CRV_P256>>,
                        <<COSE_EC_X, ByteString(Coordinate(a))>>,
                        <<COSE_EC_Y, ByteString(Coordinate(b))>>}))
        ELSE dumps(Map({<<COSE_KTY, KTY_RSA>>, <<COSE_ALG, ALG_RS256>>,
                        <<COSE_RSA_N, ByteString(a)>>, <<COSE_RSA_E, ByteString(b)>>}))
=============================================================================
