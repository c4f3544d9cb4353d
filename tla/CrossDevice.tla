---------------------------- MODULE CrossDevice ----------------------------
(***************************************************************************)
(* The payload of src/passkit/challenge/builder.py that takes a challenge  *)
(* to another device and back: build_challenge and                         *)
(* verify_challenge_payload.  A JSON object is a record, so the order of   *)
(* its keys does not matter, as it does not to sort_keys; an HMAC is the   *)
(* key and what is hashed.                                                 *)
(***************************************************************************)
EXTENDS Integers

CONSTANT NoKey      \* hmac_key is None

\* A body: the challenge's value, id and expiry in tenths of a second, which is
\* cut down to whole seconds.  extra = {} if the caller gives none.
Body(c) ==
    [v |-> 1, challenge |-> c.value, rpId |-> c.rp_id, origins |-> c.origins,
     exp |-> c.expires_at \div 10, cid |-> c.id, ctx |-> c.extra]

_tag_of_challenge(body, hmac_key) ==
    [key |-> hmac_key, serialized |-> [challenge |-> body.challenge, cid |-> body.cid]]
_tag(body, hmac_key) == [key |-> hmac_key, serialized |-> body]

\* Without a key there is no tag.  NoTag and NoBody are also values that are no
\* string and no object.
NoBody == [v |-> 0]
NoTag == [key |-> NoKey, serialized |-> NoBody]
build_challenge(c) ==
    [body |-> Body(c),
     tag |-> IF c.hmac_key = NoKey THEN NoTag ELSE _tag(Body(c), c.hmac_key)]

PayloadOk(payload, hmac_key) ==
    /\ payload.body # NoBody
    /\ payload.tag # NoTag
    /\ payload.tag = _tag(payload.body, hmac_key)
verify_challenge_payload(payload, hmac_key) ==
    IF PayloadOk(payload, hmac_key)
    THEN [ok |-> TRUE, value |-> payload.body]
    ELSE [ok |-> FALSE, error |-> "ValueError"]
=============================================================================
