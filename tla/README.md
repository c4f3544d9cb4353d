# passkit in TLA+

passkit (Python, `src/passkit/`) is the verifier side of passkey logins: a
single-use challenge store, the WebAuthn registration and assertion verifiers, a
score for how strong a login was, and a policy that admits or denies it.  This
directory models those parts, model-checks them with TLC on small instances and
proves with TLAPS, for every instance, what the challenge store, its in-memory
backend, the verifiers, a relying party, the policy check and the parsers of the
byte formats promise.

## The system

| component | state it keeps | operations | what makes it correct |
|---|---|---|---|
| challenge store (`challenge/store.py`) | the backend it was given or made; nothing else | `issue`, `consume`, `purge_expired`, `__len__` | an id is accepted once, only before its expiry, by any node; a refused id stays refused |
| in-memory backend (same file) | `_items`, `_lock` | `put`, `take`, `purge_expired`, `__len__`, each under the lock | the four methods are atomic; none fails halfway or keeps the lock |
| verifier (`webauthn/`, `_util.py`) | none | `verify_registration`, `verify_assertion` | nothing but what the key signed, for this challenge, origin and RP, is accepted; what is registered can log in |
| relying party (demos, `testing.py`) | per credential: key and `signCount` | issue, consume, verify, persist | a login is one the account's key made, once; clones are noticed |
| scorer (`zerotrust/scorer.py`) | none | `score_event` | monotone in the evidence; every point attributable |
| policy (`policy/`) and attestation policy (`attestation/`) | none | `evaluate_policy`, `check_attestation_policy`, `load_policy` | what the file says is enforced; no denial is escaped by leaving a fact out, formats and deny-lists excepted; registration and login agree |
| CLI (`cli.py`) | a store that dies with the process | six subcommands | passes facts through unchanged; exit code 0 only for what was admitted |
| CBOR, COSE, authenticatorData (`_cbor.py`, `_cose.py`, `webauthn/authdata.py`) | none | decode, encode, verify a signature | strict: no bytes skipped, no field shifted |
| cross-device builder (`challenge/builder.py`) | GF(256) tables | payload, tag, deeplink, QR code | a payload that was put together anew is refused; a scanner reads what was drawn |
| report (`report.py`) | none | `render_report` | formatting only |

How they interact: a relying party calls `ChallengeStore.issue`, hands the
challenge to a browser, gets a response at some later time, calls `consume` and
then a verifier with the challenge and the credential it stored, and stores the
new counter.  The verifier calls the parsers, which raise on malformed input.
The result of a login becomes the signals of `score_event`, whose result goes
with the facts of the event into `evaluate_policy`.  The only shared mutable
state is the backend of a store (threads, and nodes if it is a shared one) and
the relying party's credential table.

What is hard here: consume calls that race on one id; the clock, which the
store reads *before* it calls the backend and which may step; restarts that
lose a backend; backends the library did not write; the two loops of
`purge_expired`; the order of a ceremony's checks and what a signature really
covers; counters that must catch a clone although storing them after a warning
lowers them; thresholds over rounded, clamped sums; a policy file whose mistakes
must not widen it; and the order in which patterns, data, mask and format share
the matrix of a QR code.  `PROJECT.json` lists
these hazards with their lines.

## Modules

| module | models | role |
|---|---|---|
| `SingleUseToken` | what a challenge id promises: unissued, live, dead; used at most once | abstract specification |
| `ChallengeStore` | the store objects of several nodes and the threads that call them | core component, refines `SingleUseToken` |
| `ChallengeStoreProofs` | theorems about `ChallengeStore`, and that it implements `SingleUseToken` | proofs |
| `NonceBackend` | the backend protocol as an atomic object | abstract specification |
| `InMemoryNonceBackend` | the built-in backend, one dict or lock operation per step | refines `NonceBackend` |
| `InMemoryNonceBackendProofs` | its exclusion, and that it implements `NonceBackend` | proofs |
| `Verifier` | the two verifiers as lists of checks with their errors | operators, used by `Ceremonies` and `RelyingParty` |
| `VerifierProofs` | exactly what the two verifiers accept | proofs |
| `Ceremonies` | every call of the verifiers over a set of responses | properties of the verdicts |
| `CeremoniesProofs` | all properties of `Ceremonies` | proofs |
| `RelyingParty` | a deployment: store (`SingleUseToken`), verifier, credential table, devices, network | composition |
| `RelyingPartyProofs` | all properties of `RelyingParty` | proofs |
| `Scorer`, `Policy` | `score_event`; the two policy checks | operators |
| `PolicyLoading` | `load_policy`: from a text to a `Policy` or an exception | operators |
| `Decision` | `passkit policy-check`: load, read, score, evaluate, exit | composition of the three |
| `DecisionProofs` | theorems about `Decision` | proofs |
| `Iteration` | a loop or a recursion, turn by turn | functions for the loops and recursions of `Cbor` |
| `IterationProofs` | that such a function is what its definition says | proofs |
| `Cbor`, `CoseKey`, `AuthData` | the byte formats: decoder and encoder of each | operators on byte sequences |
| `CrossDevice` | the payload that goes to another device, and its tag | operators |
| `Wire` | an encoded message or a payload that is changed on its way to its parser | properties of the formats |
| `WireProofs` | lemmas on the decoders, the encoders and the layouts, and all properties of `Wire` | proofs |
| `QrEncoder` | tables, error correction, bit stream and patterns of the QR encoder | operators |
| `QrReader` | a scanner, from the QR standard (ISO/IEC 18004) and not from the code | external; the abstract specification of the encoder |
| `QrCode` | `build_qr_payload` from the text to the squares of the SVG | the drawing, read back by `QrReader` |
| `MC*` | constants of the TLC instances | |

### ChallengeStore

`items[b]` is the set of ids a backend holds (a `Challenge` is its id plus
`created_at`; `expires_at` is derived as in `issue`).  A thread's call is split
where other threads can get in between: a call begins by reading the clock
(`Enter`), does its one backend call (`put`, `take`, `purge_expired`, atomic
steps here), and answers (`IssueReturn`, `Answer`, `CallEnd`).  `take` pops
before it checks expiry, and `Answer` applies the store's own second check.
`SelectBackend` is `backend or InMemoryNonceBackend()`: the shared backend is
used only if it is not empty.  `Restart` loses a node's calls and its private
backend and runs `__init__` again.  The clock ticks, and unless `ClockMonotone`
steps back as well.  `TakeFilters = FALSE` is a plugged-in backend whose `take`
does not check expiry.  `popped` and `accepts` are history variables.

Callers ask only for ids that `issue` returned, or for one that nobody issued:
an id is 128 random bits, so it does not repeat and is not guessed.

### NonceBackend and InMemoryNonceBackend

Between acquiring and releasing the lock the detailed module takes the dict
operations one by one: the pop and the expiry check of `take`, each entry of the
list comprehension and each `del` of `purge_expired`.  An iteration over a dict
that changed, and a `del` of a missing key, would raise; `PurgeNeverRaises`
says that neither happens.  In the refinement mapping a critical section takes
effect when it releases the lock.

### Verifier, Ceremonies, RelyingParty

A verifier is the sequence of checks its code makes, in the code's order;
`FirstError` is the error of the first that fails.  Bytes are records, SHA-256
is the identity on records (so it is injective), and a signature verifies if it
is the record of the same key, authenticator data and client data: this is the
assumption that the signature scheme cannot be forged.  An origin is a scheme, a
host and a port; letter case is left out, default ports are not.
authenticatorData and CBOR either parse or raise their error (`Wire` has the bytes).

`Ceremonies` has one step, the call; its inputs are all combinations of client
data (types, challenges, origins, and the malformed ones), authenticator data,
signatures, keys and arguments.  Its properties compare the verdict on one call
with those on calls that differ from it.

`RelyingParty` follows `demos/demo_01`, `demo_03` and `testing.py`.  Responses
are put in a set and never removed, so they arrive late, in any order,
repeatedly or not at all, for any account and at any handler.  A browser at any
origin can make a device answer (`RpIdOf` says which RP ID that origin may use).
`Serial` limits the relying party to one response at a time.

Two things are assumed of the deployment beyond what the demos show.  A credential
that is already stored is not replaced by a registration (`AlreadyRegistered`;
`demo_01:37-38` stores without asking, once): otherwise a registration response
that is delivered again with a fresh challenge of its own would put the counter
back, and `CloneIsFlagged` and `FallsOnlyFlagged` would not hold.  And, for those
two properties only, responses to the relying party are handled one at a time.

### Scorer, Policy, PolicyLoading, Decision

`score_event` is computed exactly, with the half-even rounding of Python's
`round`.  An AAGUID is its digits and a spelling, an origin likewise, so that
normalisation matters.  `Denials` names the constraints of a policy that an
event fails; the texts of reasons are left out.

`load_policy` goes from the form of a text (missing, not UTF-8, broken, no
mapping, a mapping) and its fields to a `Policy` or to the class of what is
raised.  Fields may be unknown, null, of a wrong type or out of range; a string
where a list belongs is iterated letter by letter, as Python does.

`Decision` is the process behind `passkit policy-check`: one action for each of
its stages and one for each way a stage fails.  Exceptions that `main` catches
end with 2, the others with 1, which is also the code of a denial.  The facts of
an event have their types; a document may have anything in its fields.

### Cbor, CoseKey, AuthData, Wire

These follow the code byte by byte, with its offsets from 0.  A number of up to
eight bytes is its big-endian bytes without leading zeros, because TLC's
integers have 32 bits; all lengths above two bytes are one number that exceeds
any data (`TooLong`).  `_decode` returns a value and an offset, or the class of
its error; a key that is a list or a map gives `TypeError`, as Python's `in`
does, and `True` and `1` are one key.  A dict is a set of pairs; `dumps` sorts
it by encoded key.

The loops and recursions of `_cbor.py` are instances of `Iteration`: `Elements`
and `Entries` are the loops over an array and a map, turn by turn, and `Calls`
the calls of `_decode`, one more at each turn, for all offsets at once.  After
`RecursionLimit` turns there is what Python's stack allows; a deeper item gives
`RecursionError`, which the parsers let through.  `dumps` goes the other way:
`Within` collects the parts of a value, `Dumps` writes those whose own parts are
written.  In the code every kind of length but that of the data is unbounded;
here a length of more than two bytes is `TooLong`.

P-256 is a set of points (`Points`), and the range check of
the `cryptography` library is written out.

`Wire` encodes a message and then cuts, extends or changes bytes of it; `result`
is what the parser of its kind says.  Two kinds of change lose nothing, and
`EveryByteCounts` leaves them out: `undefined`, which the decoder reads as `null`,
and tag numbers, which it drops.  Of tags it says nothing at all, in that it only
speaks of data without any byte that could be the head of one (192 to 223), even
where such a byte is part of a string.  The decoder accepts heads that are longer
than needed; `Canonical` says the encoder never writes them.  The order in which
`dumps` puts the entries of a map is in the model (`Sorted`) but not in `Canonical`.

In `Verifier` a parser is only its outcome; `Wire` is what justifies that.

### CrossDevice

A JSON object is a record and an HMAC is the record of the key and of what is
hashed, so it cannot be forged or guessed.  In `Wire` a client holds payloads
made with the verifier's key, with another key and with none; it exchanges their
fields and tags one at a time, takes the tag or the body away, and cannot compute a
tag of its own: a tag by a key it holds is among those it starts with.

### QrEncoder, QrReader, QrCode

`QrCode` has one step per phase of `_qr_matrix` and `_place_and_mask`, and one
per pair of columns of the zig-zag.  Error correction is done in GF(256) as the
code does it, with its tables; positions are the code's, row first.  `QrReader`
says independently what the standard says: block and codeword counts, where the
patterns, formats and version blocks are, in which order the data modules are
read, which mask the format names, and that a block is intact if its polynomial
vanishes at the first powers of 2.  It takes the grid from the squares of the
SVG and returns every text the image can be read as.

## Runs

| run | instance | shows |
|---|---|---|
| `store` | 1 node, 2 threads, 2 ids, TTL 1, clock 0..2, steps back | types, `OnePlace`, `CallsConsistent`, `SingleUse`, `RefusedIsGone`, refinement of `SingleUseToken` |
| `store_shared` | 2 nodes, 2 threads, 2 ids of which one is in the shared backend from the start, monotone clock, backend that does not check expiry | `SingleUse` across nodes, `AcceptedInWindow`, `ReapsOnlyExpired`, refinement |
| `store_detached` | 2 nodes, shared backend empty at the start | violated: `NeverRefusesLive` |
| `in_memory` | 2 threads, 2 ids with different deadlines, readings 0..2 | `OnlyHolderInside`, `PurgeNeverRaises`, refinement of `NonceBackend`, `LockIsFreed` |
| `ceremonies` | 2 keys and 2 kinds of bad key, 1 right and 1 wrong challenge, 4 origins (2 spellings of one), 2 RP IDs, counters 0..1, 6 sets of arguments | `TamperEvident`, `SpellingIrrelevant`, `ReplayWarns`, `RegisteredIsUsable`, `RegistrationIsNoLogin` |
| `ceremonies_errors` | the same | violated: `OnlyVerificationError` |
| `relying_party` | 2 users with a device each, one registered before the run, 2 challenges, 2 origins of one RP ID, the RP's own with its default port in the configuration, 2 handlers, 2 responses | `LoginIsGenuine`, `NoReplay` |
| `clone` | 1 account, 2 devices with its key, 3 challenges, 4 responses, 1 handler | `CloneIsFlagged`, `FallsOnlyFlagged` |
| `decision` | documents with up to 2 constraints and 432 events with and without signals; 2 strict documents with every signal input, ages -1..22 for a life of 0 and 20; documents with 1 or 2 mistakes and files and events that cannot be read | `MissingFactNeverHelps`, `LevelCarriesSignals`, `AdmissionAgreesWithLogin`, `BetterIsNeverWorse`, `Attributable`, `StatedIsEnforced` |
| `wire` | 26 items at the boundaries of each head width and 4 containers, 5 keys, 5 authenticatorData, 4 payloads; up to 3 changes (containers, payloads), 2 or 1 (others), 13 byte values; 4 nested calls | `ReadBack`, `Canonical`, `PrefixFree`, `EveryByteCounts`, `NothingUnread`, `KeyIsPortable`, `PayloadIsOurs` |
| `qr_code` | texts of 0, 14, 15, 26, 42, 62, 84, 106, 152, 180, 213 and 214 bytes, of all different bytes and of ones | `ReadBack`, `BlocksReadBack`, `StreamFits`, `FunctionModulesKept` |
| `qr_versions` | texts of 118 bytes | violated: `ReadBackAll` |

Why the bounds are enough.  In the store every hazard involves one id, two calls
and two readings of the clock: two threads, a second id for non-interference,
and one tick beyond the deadline show each order of them.  Two nodes are the
fewest that share a backend.  A replay needs two handlers and one response; a
mix-up needs two users, and a registration followed by a login two responses; a
clone must answer between two logins of the original and once more, so four
responses on three challenges (a fourth response reuses one).  Policy constraints are independent conjuncts except for the pairs that
share a fact (allow-list and deny-list, the two minima), so two at a time
suffice.  Ages matter to the scorer through rounding: a life of 20 has ties
(half points) at every odd age.  Two mistakes in one policy file show which of
them is raised, and one mistake beside one constraint whether it loses it.  A parser goes wrong at a length or a flag it
trusts, so the bytes that change are heads, lengths, flags and what follows
them, never the inside of a hash or a coordinate; one change makes a wrong
length, two a length and what it covers, three a duplicate key and a change
that it hides.  The lengths of `qr_code` are the capacities of versions 1 to 6
and 8 to 10 with one byte more at the two ends, so each of these versions is drawn
once when it is full, 15 bytes are the first for version 2, and 214 are refused.
Versions 8, 9 and 10 have blocks of unequal size.  Their images cannot be read
(`qr_versions`), so `BlocksReadBack` gives the scanner the codewords before they
are drawn.

`CHECK_DEADLOCK FALSE` stands in the runs of `Ceremonies` and `Decision`, which
end after one call, of `QrCode`, which ends with the image or a refusal, and of
`Wire`, whose message stays as it is in the end; the other systems never stop.

Fairness is assumed in one place: `InMemoryNonceBackend` has weak fairness for
the steps of a thread that holds the lock, since Python keeps running a runnable
thread.  Nothing is assumed of who gets the lock (`threading.Lock` makes no
promise), so no call is claimed to end; only that the lock is freed
(`LockIsFreed`).  All other properties are safety properties.

### Disagreements between code and documentation

* `store_detached`: `store.py:104` replaces an empty backend, because `or` asks
  its `__len__`; nodes that start on an empty shared backend do not share it,
  though `store.py:7-8` offers the backend as exchangeable and
  `SECURITY_MODEL.md` tells to share one across nodes.
* `ceremonies_errors`: the verifiers let `AttestationError`, `COSEError`,
  `ValueError` and `TypeError` through; their docstrings and `ARCHITECTURE.md`
  say `VerificationError`.
* `qr_versions`: versions 7 to 10 have no version information, so what is drawn
  is no QR code of that version; the docstring says versions 1-10 and demo 8
  draws a version 7.

Seen, and not a run:

* `consume` reports a stored but expired challenge as `replay_or_unknown`; its
  docstring says `expired` (`store.py:124`).  That error is only reached with a
  backend that does not filter.
* A list of allowed formats does not constrain an event that names no format
  (`evaluator.py:125`), although `Policy`'s docstring says a list means membership
  (`model.py:13-14`).  `MissingFactNeverHelps` and `StatedIsEnforced` name this as an
  exception: with it struck out, TLC finds both violated.
* `denied_aaguids: "..."`, a text where a list belongs, is taken letter by
  letter and denies nothing (`evaluator.py:112`); an exception of `StatedIsEnforced`.
* A `TypeError` or a YAML error ends `policy-check` with 1, which `CLI.md` gives
  as the code of a denial.
* `verify_challenge_payload` checks the tag and neither `exp` nor `use`.
* `_cbor.py` says it rejects what is not canonical, but accepts longer heads and
  unsorted maps.
* `require_resident_key` never denies (`attestation/policy.py:63`), though
  README.md says it is enforced.

## Proofs

All theorems hold for every value of the constants that satisfies these
assumptions, which TLC evaluates on every run:

* `StoreAssumption`: the TTL is positive (`__init__` refuses others), a shared
  store is a store, and the made-up id is no drawn one.
* `InMemoryAssumption`: finitely many ids, deadlines are numbers, and nobody is
  named like the free lock.
* `RelyingPartyAssumption`: every device has a key; `None` is no challenge and no
  counter.
* `CeremoniesAssumption` and `NoneAssumption` in `Ceremonies`: bad keys and the
  wrong challenge are not good ones, client data and arguments have their fields
  and flags are Booleans; `None` is no number, text, record or result.
* `RecursionLimitAssumption` in `Cbor`: the limit is a number.
* `MessagesAssumption` and `KeyAssumption` in `Wire`: what is sent are values of
  the types the code has (`IsValue`: what `dumps` can write within the depth of
  the stack; `IsKey`: a key the library can hold, and a stack of at least the two
  calls that a key takes; `IsAuthData`: fields of their widths, and a key of one
  item), what is put in place of a byte is a byte, and the verifier of a payload
  has a key.
* `LengthAssumption` in `Wire`: no message grows to a length that the model does
  not tell apart.
* `CasesAssumption` in `Decision` and `NoneAssumption` in `PolicyLoading`: a file
  and an event have one of their forms, the fields of a signals object have their
  types, and null is none of the other values.

| module | theorem | states |
|---|---|---|
| `ChallengeStoreProofs` | `TypeCorrect`, `SingleUseHolds`, `RefusedIsGoneHolds`, `OnePlaceHolds`, `CallsConsistentHolds` | `Spec => []P` for each invariant |
| | `AcceptedInWindowHolds`, `ReapsOnlyExpiredHolds` | the same if the clock is monotone |
| | `StoreRefinesToken` | `Spec => TokenSpec` |
| `InMemoryNonceBackendProofs` | `OnlyHolderInsideHolds`, `PurgeNeverRaisesHolds` | `Spec => []P` |
| | `ImplementsAtomicHolds` | `Spec => ImplementsAtomic` |
| `VerifierProofs` | `AssertionAccepted`, `RegistrationAccepted` | acceptance is exactly the conjunction of the checks |
| `CeremoniesProofs` | `TamperEvidentHolds`, `RegistrationIsNoLoginHolds`, `RegisteredIsUsableHolds`, `ReplayWarnsHolds`, `SpellingIrrelevantHolds` | `Spec => []P` |
| `RelyingPartyProofs` | `NoReplayHolds`, `LoginIsGenuineHolds`, `CloneIsFlaggedHolds`, `FallsOnlyFlaggedHolds` | `Spec => []P`, and the action property |
| `WireProofs` | `DecodeAgrees` | an item is read from its own bytes alone |
| | `PrefixFreeHolds`, `EveryByteCountsHolds` | `Spec => P` for each action property |
| | `RoundTrip` | what `dumps` can write `loads` reads back, at any depth |
| | `LoadsCanonical` | what `loads` accepts `dumps` can write, in no more bytes, and it is read as the same value |
| | `ValueWeighs` | two encodings of one value, without tags, have bytes of the same total weight |
| | `KeyWritten`, `AuthDataRestored` | the same for a key in any encoding, and for authenticatorData of any fields |
| | `ReadBackHolds`, `CanonicalHolds`, `KeyIsPortableHolds`, `NothingUnreadHolds`, `PayloadIsOursHolds` | `Spec => []P` |
| `DecisionProofs` | `MissingFactNeverHelpsHolds`, `LevelCarriesSignalsHolds`, `AdmissionAgreesWithLoginHolds`, `AttributableHolds`, `StatedIsEnforcedHolds`, `BetterIsNeverWorseHolds` | `Spec => []P` |

**Challenge store.**  `SingleUse` is not inductive: a state in which an accepted
id is still in some backend satisfies it and leads to one that does not.  The
inductive invariant `IInv` adds where an id can be.  `OnePlace`: an id is with
the `issue` call that has not put it yet, or in one backend, or in the hand of
one `consume` call, or in none of these; never in two, and in none once it was
accepted or before it is drawn.  `CallsConsistent`: a call in `put` has an id
nobody knows, a call in `take` or later one that is known or made up, and `take`
hands a call only the id it asked for, out of the backend.  `NextIInv` shows
action by action that each step preserves each part; steps that only remove an
id from places follow from `OnePlaceShrinks`.  The two theorems with a monotone
clock use `ClockInv` besides: nothing is dated after the present, and a call asks
for a challenge that was created before it read the clock.  The refinement
follows from `OnePlace`: taking an id away from its one place ends its life.

**In-memory backend.**  Mutual exclusion is not enough for the refinement: `IInv`
also says how far the section of the lock's holder has come (`Progress`), in
terms of the entries it found, and what a thread outside leaves behind
(`Outside`).  At the release these make the section the one atomic step.

**Verifiers.**  The code raises at the first check that fails.  That such a check
exists if not all hold is the well-foundedness of the naturals (`LeastMember`);
the rest composes the groups of checks (`AllHold`).  Each property of
`Ceremonies` is then a fact about two calls: `TamperEvident` because a signature
is over one key, client data and authenticator data; `SpellingIrrelevant` because
the two lists of checks are equal, errors included, not only their outcome.

**Relying party.**  `NoReplay` is not inductive, as two handlers could hold one
challenge between `consume` and the login; `UsedOnce` excludes it through the
token's fate.  `Genuine` carries what the verifier established to the moment the
login is recorded.  `Flagged` is what makes `CloneIsFlagged` inductive: a login
above the stored counter has left a flag.

**Policy check.**  The invariant says what each stage has computed from the
document and the event; the rest are lemmas on the operators, the longest of
them that half-even rounding keeps order (`RoundingKeepsOrder`), with which more
evidence never scores less.  `MissingFactNeverHelps` compares the denials of two
events (`DenialsStay`): a fact that is left out changes only its own denial, and the
score's is kept because no score is below 0 and no level below 1 (`AssuranceBounds`).
`StatedIsEnforced` goes back from the exit code to the words of the file, through
what a switch, a list, a lone string or a value of another type is loaded as.  Their
exceptions (formats, deny-lists) are part of the statements, not of the assumptions.

**Byte formats.**  The provers cannot instantiate the library's induction
theorems, which take a predicate; `IterationProofs` has induction in the form they
can use, over a set of naturals (`Induction`, from the well-foundedness of the
naturals by `LeastNumber`), and derives from it that `Iterate` is the function its
recursion defines (`IterateDef`): lemmas about the idiom of the model, which say
nothing of the code by themselves.  `WireProofs` applies it to the turns of a loop and to the depth
of calls.  `DecodeAgrees`: two sequences of bytes that agree on the bytes of an
item in one of them give the same item in both, with the same end, and the end is
not the beginning.  So of two accepted items neither is the beginning of the
other (`LoadsPrefixFree`), nor of two keys; for authenticatorData one follows the
offsets of `parse_authenticator_data` field by field (`AuthDataPrefixFree`).
`NothingUnread` goes the other way: each field that was parsed, written again, is
the part of the data it was read from (`DigitsRestored`, `FlagsRestored`,
`AttestedRestored`), these parts meet (`Meet`), and what is left is one item
(`KeyIsWhole`, `ExtensionsAreWhole`).  Both need the invariant that `data` stays a
sequence of bytes and that `result` is what its parser says of it.

The round trip is an induction on depth.  `Values(k)` are the values that k
nested calls of `dumps` write and `Output(k)` is what they write; `WrittenIsRead`
says that k nested calls of `_decode` read it back, wherever it stands and
whatever follows it, head by head for each of the five widths and turn by turn
for arrays and maps.  A map needs more: the order of its entries is total on what
their keys are written as (`OrderTotal`), so `Sorted` puts each entry in one place
(`SortedEnumerates`), and no key is read as a duplicate, since different keys are
written differently.  `DumpsWrites` is that the recursion of the model, which
goes from the parts of a value to the value, writes just this.  For
`LoadsCanonical` the other direction is needed: what k calls read, k calls can
write in no more bytes (`CallsEconomical`), because no head is longer than the one
that was read, and because the length of a map does not depend on the order of
its entries (each is given as many `Cells` as it is long, and cells are counted).  A key
is a map of four or five entries with small labels (`Ec2Portable`, `RsaPortable`); a coordinate
is written in 32 bytes whatever width the number has.  In authenticatorData each
field is found again at its offset (`SentFields`, `HeldAttested`, `HeldItem`).
`Canonical` and `KeyIsPortable` hold of changed data too, and need the part
`Length_` of the invariant: after n changes data is at most n bytes longer than
what was sent, so its length is one the model tells apart.

`EveryByteCounts` compares two decodings that may go different ways from the changed
byte on: it may turn an array into a map, or move a boundary between two items.  A
direct induction would have to follow both.  Instead each byte has a weight
(`Weight`), and bytes of the same weight are the same but for the two spellings of
null (`WeightTells`).  A head of more bytes than it needs weighs what the shortest
one does, because the zeros in front of its argument weigh less than nothing by
just what the wider head weighs more (`HeadWeighs`).  So what an item weighs depends on its value alone
(`ItemWeight`): by induction on turns for an array, and for a map by counting as
many `Cells` as each entry weighs, since its entries come in any order
(`DictWeighed`).  By induction on calls two encodings of one value weigh the same
(`ValueWeighs`), and a byte replaced by one of another weight would change the sum
(`ReplacedWeighs`).  Tags are left out as the decoder drops their numbers.

For `PayloadIsOurs` the invariant says that whatever a client puts together has a tag
of the verifier's key only if that tag was built, with the body it was built for.

Only model-checked: liveness (`LockIsFreed`; out of the prover's reach); the QR code
(`ReadBack`, `BlocksReadBack`, `StreamFits`, `FunctionModulesKept`), whose arithmetic in GF(256) uses the
exclusive or of `Bitwise`, a recursive operator that the prover's SMT backend does not
take; and the violated properties.

## Not modelled

* `evaluate_attestation` and the AAGUID metadata table: a classification that
  no decision in the library uses.
* `report.py`, the installers, and the CLI's input and output other than that of
  `policy-check` and the exit codes of the two verify commands; `build_deeplink`.
* The parsers of JSON and YAML (libraries): a text is one of the forms they make
  of it.  Facts of an event that have the wrong type.
* In `Verifier`, the `TypeError` (an unhashable map key) and the `RecursionError` (deep
  nesting) that client data, authenticatorData or a stored key can raise: each of them
  has one kind of parse error there.  `AuthData` and `CoseKey` tell them apart, and so
  does `AttestationChecks` for the first.
* The check of arguments that are not bytes, and the few frames of Python's stack
  by which the callers of the CBOR decoder differ.
* The letters of a URL and of an AAGUID: an origin is scheme, host and port, and
  letter case is a spelling.
* The scanner's side of a QR code beyond what the standard says; the code always
  draws mask 0, so the choice among masks does not arise.
* Growth of `_items` when nobody purges: the library calls `purge_expired`
  nowhere, so no bound holds.
* Two handlers that log in to one account at once: both may read one stored
  counter, and the later write may lower it without a warning.  The library
  leaves this to its caller, so the clone properties assume `Serial`.

## Plan

1. Done: every component with a decision or a state of its own, the runs, and
   proofs of all safety properties but those of the QR code.
2. Left: the capacity and the bit stream of the QR encoder (`StreamFits`), whose
   tables are finite, once exclusive or is written without recursion;
   `evaluate_attestation` if a decision comes to depend on it; the
   cross-device flow as a composition of `CrossDevice` with `SingleUseToken`, once
   the library has code that calls both.
