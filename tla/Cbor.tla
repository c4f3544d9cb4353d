-------------------------------- MODULE Cbor --------------------------------
(***************************************************************************)
(* The codec of src/passkit/_cbor.py on sequences of bytes.  A number of   *)
(* up to eight bytes is kept as its big-endian bytes without leading       *)
(* zeros, so that no width is lost to TLC's integers.  Offsets are those   *)
(* of the code, from 0.                                                    *)
(***************************************************************************)
EXTENDS Integers, SequencesExt

\* How deep Python's stack lets _decode and dumps call themselves: in a deeper
\* item they raise RecursionError, which is no ValueError.  The few frames by
\* which their callers differ are left out.
CONSTANT RecursionLimit
ASSUME RecursionLimitAssumption == RecursionLimit \in Nat

\* int.from_bytes(bytes, "big") and int.to_bytes(width, "big").
Digits(bytes) ==
    LET nonzero == {i \in DOMAIN bytes : bytes[i] # 0} IN
    IF nonzero = {} THEN << >> ELSE SubSeq(bytes, Min(nonzero), Len(bytes))

ToBytes(digits, width) ==
    LET zeros == width - Len(digits) IN
    [i \in 1 .. width |-> IF i <= zeros THEN 0 ELSE digits[i - zeros]]

\* A length as a number.  TooLong is the bound: it stands for every length of
\* more than two bytes and exceeds the data of a run, as all of these do.
TooLong == 65536
Size(digits) ==
    IF Len(digits) > 2 THEN TooLong
    ELSE LET b == ToBytes(digits, 2) IN 256 * b[1] + b[2]

LengthDigits(s) == Digits(<<Len(s) \div 256, Len(s) % 256>>)

-----------------------------------------------------------------------------
\* Values.  The int n is [neg, arg] with n = arg or, if neg, n = -1 - arg.
Int_(neg, arg) == [type |-> "int", neg |-> neg, arg |-> arg]
ByteString(b) == [type |-> "bytes", bytes |-> b]
Text(t) == [type |-> "text", text |-> t]
Array(items) == [type |-> "array", items |-> items]
Map(entries) == [type |-> "map", entries |-> entries]
Simple(s) == [type |-> "simple", simple |-> s]

Value(v) == [ok |-> TRUE, value |-> v]
Decoded(v, offset) == [ok |-> TRUE, value |-> v, offset |-> offset]
Error(class) == [ok |-> FALSE, error |-> class]
CBORError == Error("CBORError")

\* Dict keys: True equals 1 and False equals 0; lists and dicts have no hash.
Hashed(key) ==
    CASE key = Simple("true") -> Int_(FALSE, <<1>>)
      [] key = Simple("false") -> Int_(FALSE, << >>)
      [] OTHER -> key
Hashable(key) == key.type \notin {"array", "map"}

HasKey(entries, key) == \E e \in entries : Hashed(e[1]) = Hashed(key)
Put(entries, key, val) ==
    {e \in entries : Hashed(e[1]) # Hashed(key)} \cup {<<key, val>>}

\* bytes.decode("utf-8") raises for any other byte sequence.
Utf8Unit(u) ==
    /\ \A i \in 2 .. Len(u) : u[i] \in 128 .. 191
    /\ CASE Len(u) = 1 -> u[1] < 128
         [] Len(u) = 2 -> u[1] \in 194 .. 223
         [] Len(u) = 3 -> /\ u[1] \in 224 .. 239
                          /\ u[1] = 224 => u[2] >= 160
                          /\ u[1] = 237 => u[2] < 160
         [] Len(u) = 4 -> /\ u[1] \in 240 .. 244
                          /\ u[1] = 240 => u[2] >= 144
                          /\ u[1] = 244 => u[2] < 144

\* upTo[n]: the first n bytes are whole characters.
IsUtf8(s) ==
    LET upTo[n \in 0 .. Len(s)] ==
            \/ n = 0
            \/ \E u \in 1 .. 4 :
                  u <= n /\ Utf8Unit(SubSeq(s, n - u + 1, n)) /\ upTo[n - u]
    IN  upTo[Len(s)]

-----------------------------------------------------------------------------
\* Heads: an argument below 24 is in the initial byte; info 24 to 27 says that
\* it follows in 1, 2, 4 or 8 bytes.
Widths == <<1, 2, 4, 8>>

_need(data, offset, n) == offset + n <= Len(data)

Bytes(data, offset, n) == SubSeq(data, offset + 1, offset + n)

_read_length(data, offset, info) ==
    IF info < 24 THEN Decoded(Digits(<<info>>), offset)
    ELSE IF info \in 24 .. 27 /\ _need(data, offset, Widths[info - 23])
    THEN LET width == Widths[info - 23] IN
         Decoded(Digits(Bytes(data, offset, width)), offset + width)
    ELSE CBORError

ReadString(data, offset, n, isText) ==
    LET s == Bytes(data, offset, n) IN
    IF ~_need(data, offset, n) \/ (isText /\ ~IsUtf8(s)) THEN CBORError
    ELSE Decoded(IF isText THEN Text(s) ELSE ByteString(s), offset + n)

ReadSimple(info, offset) ==
    CASE info = 20 -> Decoded(Simple("false"), offset)
      [] info = 21 -> Decoded(Simple("true"), offset)
      [] info \in {22, 23} -> Decoded(Simple("null"), offset)
      [] OTHER -> CBORError

NeverDuplicate(entries, key) == FALSE
Duplicate(entries, key) == HasKey(entries, key)

\* result[key] = val, unless the key has no hash or is there already.
AddEntry(entries, key, val) ==
    IF ~Hashable(key) THEN Error("TypeError")
    ELSE IF Duplicate(entries, key) THEN CBORError
    ELSE Decoded(Map(Put(entries, key, val.value)), val.offset)

\* r is a result, Then(r) what follows it if it is no error.
AndThen(r, Then(_)) == IF r.ok THEN Then(r) ELSE r

\* The loops over the elements of an array and the entries of a map that begin
\* at loop.offset; loop.item[o] is the item at offset o.
NoElements(loop) == Decoded(Array(<< >>), loop.offset)
NextElement(loop, list) ==
    AndThen(list, LAMBDA items :
    AndThen(loop.item[items.offset], LAMBDA item :
        Decoded(Array(Append(items.value.items, item.value)), item.offset)))
Elements == INSTANCE Iteration WITH Base <- NoElements, Step <- NextElement

NoEntries(loop) == Decoded(Map({}), loop.offset)
NextEntry(loop, dict) ==
    AndThen(dict, LAMBDA map :
    AndThen(loop.item[map.offset], LAMBDA key :
    AndThen(loop.item[key.offset], LAMBDA val :
        AddEntry(map.value.entries, key.value, val))))
Entries == INSTANCE Iteration WITH Base <- NoEntries, Step <- NextEntry

\* What follows the head of an item.  As an item has at least one byte, no loop
\* that succeeds has more turns than the data has bytes.
Turns(data, arg) == IF Size(arg) <= Len(data) THEN Size(arg) ELSE Len(data) + 1
Loop(item, offset) == [item |-> item, offset |-> offset]
Rest(data, item, major, head) ==
    LET arg == head.value
        at == head.offset
    IN  CASE major \in {0, 1} -> Decoded(Int_(major = 1, arg), at)
          [] major \in {2, 3} -> ReadString(data, at, Size(arg), major = 3)
          [] major = 4 -> Elements!Iterate(Loop(item, at))[Turns(data, arg)]
          [] major = 5 -> Entries!Iterate(Loop(item, at))[Turns(data, arg)]
          [] major = 6 -> item[at]      \* the tag is dropped

\* The item at an offset, where item[o] is what a further call returns for o.
ItemAt(data, item, offset) ==
    LET major == data[offset + 1] \div 32
        info == data[offset + 1] % 32
    IN  IF ~_need(data, offset, 1) THEN CBORError
        ELSE IF major = 7 THEN ReadSimple(info, offset + 1)
        ELSE AndThen(_read_length(data, offset + 1, info), LAMBDA head :
                 Rest(data, item, major, head))

\* All items, for a stack that allows no call, and for one that allows one more.
NoCall(data) == [offset \in Nat |-> Error("RecursionError")]
OneMoreCall(data, item) == [offset \in Nat |-> ItemAt(data, item, offset)]
Calls == INSTANCE Iteration WITH Base <- NoCall, Step <- OneMoreCall

_decode(data, offset) == Calls!Iterate(data)[RecursionLimit][offset]

decode_first(data) == _decode(data, 0)

SomeRead(data, offset) == offset <= Len(data)
AllRead(data, offset) == offset = Len(data)

loads(data) ==
    AndThen(_decode(data, 0), LAMBDA item :
        IF AllRead(data, item.offset) THEN Value(item.value) ELSE CBORError)

-----------------------------------------------------------------------------
NoByteWidth(arg) == IF Len(arg) <= 2 THEN 2 ELSE IF Len(arg) <= 4 THEN 3 ELSE 4
WidthIndex(arg) == Min({i \in DOMAIN Widths : Len(arg) <= Widths[i]})

_encode_head(major, arg) ==
    IF Size(arg) < 24 THEN <<32 * major + Size(arg)>>
    ELSE LET i == WidthIndex(arg) IN
         <<32 * major + 23 + i>> \o ToBytes(arg, Widths[i])

\* The order of Python's bytes.
BytesLess(a, b) ==
    \/ IsStrictPrefix(a, b)
    \/ \E i \in DOMAIN a \cap DOMAIN b :
          /\ a[i] < b[i]
          /\ \A j \in 1 .. i - 1 : a[j] = b[j]

\* Encoded entries in the order of their keys.
Sorted(encoded) ==
    LET Before(x) == {y \in encoded : BytesLess(y[1], x[1])}
    IN  [i \in 1 .. Cardinality(encoded) |->
           CHOOSE x \in encoded : Cardinality(Before(x)) = i - 1]

\* One item, where bytes[x] is what a further call returns for its part x.
EncodeItem(v, bytes) ==
    CASE v.type = "int" -> _encode_head(IF v.neg THEN 1 ELSE 0, v.arg)
      [] v.type = "bytes" -> _encode_head(2, LengthDigits(v.bytes)) \o v.bytes
      [] v.type = "text" -> _encode_head(3, LengthDigits(v.text)) \o v.text
      [] v.type = "array" ->
           _encode_head(4, LengthDigits(v.items))
           \o FlattenSeq([i \in DOMAIN v.items |-> bytes[v.items[i]]])
      [] v.type = "map" ->
           LET sorted == Sorted({<<bytes[e[1]], bytes[e[2]]>> : e \in v.entries})
           IN  _encode_head(5, LengthDigits(sorted))
               \o FlattenSeq([i \in DOMAIN sorted |-> sorted[i][1] \o sorted[i][2]])
      [] v.type = "simple" ->
           <<CASE v.simple = "false" -> 244 [] v.simple = "true" -> 245
               [] v.simple = "null" -> 246>>

\* A value and all that is in it, down to the depth that can be written.
Children(v) ==
    CASE v.type = "array" -> Range(v.items)
      [] v.type = "map" -> UNION {{e[1], e[2]} : e \in v.entries}
      [] OTHER -> {}
Itself(v) == {v}
WithChildren(v, parts) == parts \cup UNION {Children(x) : x \in parts}
Within == INSTANCE Iteration WITH Base <- Itself, Step <- WithChildren

\* The parts that k nested calls can write.
NoBytes(parts) == << >>
OneMoreDump(parts, bytes) ==
    [x \in {y \in parts : Children(y) \subseteq DOMAIN bytes} |-> EncodeItem(x, bytes)]
Dumps == INSTANCE Iteration WITH Base <- NoBytes, Step <- OneMoreDump

dumps(v) == Dumps!Iterate(Within!Iterate(v)[RecursionLimit])[RecursionLimit][v]
=============================================================================
