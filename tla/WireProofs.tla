----------------------------- MODULE WireProofs -----------------------------
(***************************************************************************)
(* What holds of the bytes of Wire whatever the messages and the limit on  *)
(* calls.  The codec comes first: an item is read from its own bytes alone *)
(* and is followed by the same item in any data that begins alike, so no   *)
(* accepted message is the beginning of another.  Then authenticatorData:  *)
(* what was read, written again field by field, is what was there.  The    *)
(* bytes of a value have one weight in all its encodings, so each counts.  *)
(* Then the invariant of Wire, and its properties.                         *)
(***************************************************************************)
EXTENDS Wire, SequenceTheorems, FiniteSetTheorems, TLAPS

ElementTurns == INSTANCE IterationProofs WITH Base <- NoElements, Step <- NextElement
EntryTurns == INSTANCE IterationProofs WITH Base <- NoEntries, Step <- NextEntry
CallDepths == INSTANCE IterationProofs WITH Base <- NoCall, Step <- OneMoreCall

\* The loop over the elements of an array makes its turns.
LEMMA ElementsStart == \A loop : Elements!Iterate(loop)[0] = NoElements(loop)
BY ElementTurns!IterateDef DEF Elements!Iterate, ElementTurns!Iterate
\* One more turn takes one more element.
LEMMA ElementsTurn ==
    \A loop : \A n \in Nat :
        Elements!Iterate(loop)[n + 1] = NextElement(loop, Elements!Iterate(loop)[n])
BY ElementTurns!IterateDef DEF Elements!Iterate, ElementTurns!Iterate

\* So does the loop over the entries of a map.
LEMMA EntriesStart == \A loop : Entries!Iterate(loop)[0] = NoEntries(loop)
BY EntryTurns!IterateDef DEF Entries!Iterate, EntryTurns!Iterate
\* One more turn takes one more entry.
LEMMA EntriesTurn ==
    \A loop : \A n \in Nat :
        Entries!Iterate(loop)[n + 1] = NextEntry(loop, Entries!Iterate(loop)[n])
BY EntryTurns!IterateDef DEF Entries!Iterate, EntryTurns!Iterate

\* The decoder at one more call is made of the decoder at one call less.
LEMMA CallsStart == \A bytes : Calls!Iterate(bytes)[0] = NoCall(bytes)
BY CallDepths!IterateDef DEF Calls!Iterate, CallDepths!Iterate
\* One more call decodes with what the calls before it return.
LEMMA CallsTurn ==
    \A bytes : \A n \in Nat :
        Calls!Iterate(bytes)[n + 1] = OneMoreCall(bytes, Calls!Iterate(bytes)[n])
BY CallDepths!IterateDef DEF Calls!Iterate, CallDepths!Iterate

-----------------------------------------------------------------------------
Byte == 0 .. 255

\* Two sequences of bytes with the same first m bytes.
Agree(a, b, m) ==
    /\ m <= Len(a) /\ m <= Len(b)
    /\ \A i \in 1 .. m : a[i] = b[i]

\* Bytes within what agrees are the same.
LEMMA SameBytes ==
    ASSUME NEW a \in Seq(Byte), NEW b \in Seq(Byte), NEW m \in Nat, Agree(a, b, m),
           NEW offset \in Nat, NEW n \in Nat, offset + n <= m
    PROVE  Bytes(a, offset, n) = Bytes(b, offset, n)
<1>1. \A i \in 1 .. n : a[offset + i] = b[offset + i]
  BY DEF Agree
<1>2. Len(Bytes(a, offset, n)) = n /\ Len(Bytes(b, offset, n)) = n
  BY DEF Agree, Bytes
<1>3. \A i \in 1 .. n : Bytes(a, offset, n)[i] = a[offset + i]
  BY DEF Agree, Bytes
<1>4. \A i \in 1 .. n : Bytes(b, offset, n)[i] = b[offset + i]
  BY DEF Agree, Bytes
<1>5. Bytes(a, offset, n) \in Seq(Byte) /\ Bytes(b, offset, n) \in Seq(Byte)
  BY DEF Agree, Bytes
<1>6. \A i \in 1 .. n : Bytes(a, offset, n)[i] = Bytes(b, offset, n)[i]
  BY <1>1, <1>3, <1>4
<1> QED
  BY <1>2, <1>5, <1>6, SeqEqual

\* Bytes are bytes, as many as asked for.
LEMMA BytesTyped ==
    ASSUME NEW bytes \in Seq(Byte), NEW offset \in Nat, NEW n \in Nat,
           offset + n <= Len(bytes)
    PROVE  Bytes(bytes, offset, n) \in Seq(Byte) /\ Len(Bytes(bytes, offset, n)) = n
BY DEF Bytes

\* The first byte that is not 0 exists if there is one.
LEMMA FirstNonzero ==
    ASSUME NEW s \in Seq(Byte), {i \in DOMAIN s : s[i] # 0} # {}
    PROVE  LET k == Min({i \in DOMAIN s : s[i] # 0})
           IN  k \in DOMAIN s /\ s[k] # 0 /\ \A i \in 1 .. k - 1 : s[i] = 0
<1> DEFINE T == {i \in DOMAIN s : s[i] # 0}
<1>1. T \subseteq Nat /\ T # {}
  OBVIOUS
<1>2. \E x \in T : \A y \in T : x <= y
  <2> HIDE DEF T
  <2> QED BY <1>1, ElementTurns!LeastNumber
<1>3. Min(T) \in T /\ \A y \in T : Min(T) <= y
  <2> HIDE DEF T
  <2> QED BY <1>2 DEF Min
<1>4. \A i \in 1 .. Min(T) - 1 : i \in DOMAIN s /\ i \notin T
  <2>1. T \subseteq 1 .. Len(s) /\ DOMAIN s = 1 .. Len(s) /\ Len(s) \in Nat
    BY LenProperties
  <2> DEFINE k == Min(T)
  <2>2. k \in 1 .. Len(s) /\ \A y \in T : k <= y
    BY <1>3, <2>1
  <2> HIDE DEF k, T
  <2>3. \A i \in 1 .. k - 1 : i \in DOMAIN s /\ i \notin T
    BY <2>1, <2>2
  <2> QED
    BY <2>3 DEF k
<1> QED
  BY <1>3, <1>4

\* Digits are bytes, no more than there were.
LEMMA DigitsTyped ==
    ASSUME NEW s \in Seq(Byte)
    PROVE  Digits(s) \in Seq(Byte) /\ Len(Digits(s)) <= Len(s)
<1> DEFINE T == {i \in DOMAIN s : s[i] # 0}
<1>1. CASE T = {}
  BY <1>1 DEF Digits
<1>2. CASE T # {}
  <2>1. Min(T) \in DOMAIN s
    BY <1>2, FirstNonzero
  <2>2. Digits(s) = SubSeq(s, Min(T), Len(s))
    BY <1>2 DEF Digits
  <2> HIDE DEF T
  <2> QED BY <2>1, <2>2
<1> QED BY <1>1, <1>2

\* A number in bytes of a given width.
LEMMA ToBytesTyped ==
    ASSUME NEW d \in Seq(Byte), NEW width \in Nat, Len(d) <= width
    PROVE  ToBytes(d, width) \in Seq(Byte) /\ Len(ToBytes(d, width)) = width
<1>1. \A i \in 1 .. width : i > width - Len(d) => d[i - (width - Len(d))] \in Byte
  <2> SUFFICES ASSUME NEW i \in 1 .. width, i > width - Len(d)
               PROVE  d[i - (width - Len(d))] \in Byte
    OBVIOUS
  <2>1. i - (width - Len(d)) \in 1 .. Len(d)
    BY LenProperties
  <2> QED
    BY <2>1, ElementOfSeq
<1>2. \A i \in 1 .. width :
         (IF i <= width - Len(d) THEN 0 ELSE d[i - (width - Len(d))]) \in Byte
  <2>1. 0 \in Byte /\ Len(d) \in Nat
    BY LenProperties DEF Byte
  <2> QED
    BY <1>1, <2>1
<1>3. ToBytes(d, width) \in [1 .. width -> Byte]
  BY <1>2 DEF ToBytes
<1> QED
  BY <1>3

\* Two bytes are two numbers below 256.
LEMMA TwoBytes ==
    ASSUME NEW s \in Seq(Byte), Len(s) = 2
    PROVE  s[1] \in 0 .. 255 /\ s[2] \in 0 .. 255
<1>1. 1 \in 1 .. Len(s) /\ 2 \in 1 .. Len(s)
  OBVIOUS
<1>2. s[1] \in Byte /\ s[2] \in Byte
  BY <1>1, ElementOfSeq
<1> QED
  BY <1>2 DEF Byte

\* A length is a number.
LEMMA SizeTyped ==
    ASSUME NEW d \in Seq(Byte)
    PROVE  Size(d) \in Nat
<1>1. CASE Len(d) > 2
  BY <1>1 DEF Size, TooLong
<1>2. CASE Len(d) <= 2
  <2> DEFINE b == ToBytes(d, 2)
  <2>1. b \in Seq(Byte) /\ Len(b) = 2
    BY <1>2, ToBytesTyped
  <2> HIDE DEF b
  <2>2. b[1] \in 0 .. 255 /\ b[2] \in 0 .. 255
    BY <2>1, TwoBytes
  <2>3. Size(d) = 256 * b[1] + b[2]
    BY <1>2, LenProperties DEF Size, b
  <2> DEFINE x == b[1]
             y == b[2]
  <2>5. x \in 0 .. 255 /\ y \in 0 .. 255 /\ Size(d) = 256 * x + y
    BY <2>2, <2>3
  <2> HIDE DEF x, y
  <2> QED
    BY <2>5
<1> QED
  BY <1>1, <1>2, LenProperties

-----------------------------------------------------------------------------
\* A head ends behind its beginning and within the data.
LEMMA HeadTyped ==
    ASSUME NEW bytes \in Seq(Byte), NEW offset \in Nat, offset <= Len(bytes),
           NEW info \in 0 .. 31, _read_length(bytes, offset, info).ok
    PROVE  LET head == _read_length(bytes, offset, info)
           IN  /\ head.value \in Seq(Byte)
               /\ head.offset \in Nat /\ offset <= head.offset /\ head.offset <= Len(bytes)
<1>1. CASE info < 24
  <2> DEFINE s == <<info>>
  <2>1. s \in Seq(Byte)
    BY <1>1 DEF Byte
  <2>2. _read_length(bytes, offset, info) = Decoded(Digits(s), offset)
    BY <1>1 DEF _read_length
  <2> HIDE DEF s
  <2> QED
    BY <2>1, <2>2, DigitsTyped DEF Decoded
<1>2. CASE info \in 24 .. 27 /\ _need(bytes, offset, Widths[info - 23])
  <2> DEFINE width == Widths[info - 23]
  <2>1. width \in Nat
    BY <1>2 DEF Widths
  <2>2. _read_length(bytes, offset, info)
           = Decoded(Digits(Bytes(bytes, offset, width)), offset + width)
    BY <1>2 DEF _read_length
  <2>3. offset + width <= Len(bytes)
    BY <1>2 DEF _need
  <2> HIDE DEF width
  <2>4. Bytes(bytes, offset, width) \in Seq(Byte)
    BY <2>1, <2>3, BytesTyped
  <2> QED
    BY <2>1, <2>2, <2>3, <2>4, DigitsTyped DEF Decoded
<1>3. CASE ~(info < 24) /\ ~(info \in 24 .. 27 /\ _need(bytes, offset, Widths[info - 23]))
  BY <1>3 DEF _read_length, CBORError, Error
<1> QED
  BY <1>1, <1>2, <1>3

\* A head is read from its own bytes alone.
LEMMA HeadAgrees ==
    ASSUME NEW a \in Seq(Byte), NEW b \in Seq(Byte), NEW m \in Nat, Agree(a, b, m),
           NEW offset \in Nat, offset <= m, NEW info \in 0 .. 31,
           _read_length(a, offset, info).ok, _read_length(a, offset, info).offset <= m
    PROVE  _read_length(b, offset, info) = _read_length(a, offset, info)
<1>1. CASE info < 24
  BY <1>1 DEF _read_length
<1>2. CASE info \in 24 .. 27 /\ _need(a, offset, Widths[info - 23])
  <2> DEFINE width == Widths[info - 23]
  <2>1. width \in Nat
    BY <1>2 DEF Widths
  <2>2. _read_length(a, offset, info)
           = Decoded(Digits(Bytes(a, offset, width)), offset + width)
    BY <1>2 DEF _read_length
  <2>3. offset + width <= m
    BY <2>2 DEF Decoded
  <2>4. offset + width <= Len(b)
    BY <2>1, <2>3, LenProperties DEF Agree
  <2>5. _need(b, offset, width)
    BY <2>4 DEF _need
  <2>6. _read_length(b, offset, info)
           = Decoded(Digits(Bytes(b, offset, width)), offset + width)
    BY <1>2, <2>5 DEF _read_length
  <2> HIDE DEF width
  <2>7. Bytes(a, offset, width) = Bytes(b, offset, width)
    BY <2>1, <2>3, SameBytes
  <2> QED
    BY <2>2, <2>6, <2>7
<1>3. CASE ~(info < 24) /\ ~(info \in 24 .. 27 /\ _need(a, offset, Widths[info - 23]))
  BY <1>3 DEF _read_length, CBORError, Error
<1> QED
  BY <1>1, <1>2, <1>3

-----------------------------------------------------------------------------
\* What is known of the items of a deeper call: they end behind their beginning
\* and within the data, and are read from their own bytes alone.
Progress(item, len) ==
    \A o \in Nat : item[o].ok =>
        item[o].offset \in Nat /\ o < item[o].offset /\ item[o].offset <= len

Agreeing(item, other, m) ==
    \A o \in Nat : item[o].ok /\ item[o].offset <= m => other[o] = item[o]

ReadAlike(item, other, len, m) == Progress(item, len) /\ Agreeing(item, other, m)

\* A list of n elements takes at least n bytes.
LEMMA ElementsProgress ==
    ASSUME NEW item, NEW len \in Nat, Progress(item, len), NEW at \in Nat, at <= len
    PROVE  \A n \in Nat :
              LET list == Elements!Iterate(Loop(item, at))[n] IN
              list.ok => list.offset \in Nat /\ at + n <= list.offset /\ list.offset <= len
<1> DEFINE list(n) == Elements!Iterate(Loop(item, at))[n]
           T == {n \in Nat : list(n).ok =>
                    list(n).offset \in Nat /\ at + n <= list(n).offset /\ list(n).offset <= len}
<1>1. 0 \in T
  <2>1. list(0) = Decoded(Array(<< >>), at)
    BY ElementsStart DEF NoElements, Loop
  <2> QED
    BY <2>1 DEF Decoded
<1>2. \A n \in Nat : n \in T => n + 1 \in T
  <2> SUFFICES ASSUME NEW n \in Nat, n \in T, list(n + 1).ok
               PROVE  /\ list(n + 1).offset \in Nat
                      /\ at + (n + 1) <= list(n + 1).offset
                      /\ list(n + 1).offset <= len
    OBVIOUS
  <2>1. list(n + 1) = NextElement(Loop(item, at), list(n))
    BY ElementsTurn
  <2> DEFINE before == list(n)
             next == item[before.offset]
  <2>2. NextElement(Loop(item, at), before)
          = IF before.ok
            THEN IF next.ok
                 THEN Decoded(Array(Append(before.value.items, next.value)), next.offset)
                 ELSE next
            ELSE before
    BY DEF NextElement, AndThen, Loop
  <2>3. before.ok => before.offset \in Nat /\ at + n <= before.offset /\ before.offset <= len
    OBVIOUS
  <2> HIDE DEF list, before
  <2>4. before.ok /\ next.ok
    BY <2>1, <2>2 DEF before
  <2>5. list(n + 1).offset = next.offset
    BY <2>1, <2>2, <2>4 DEF Decoded, before
  <2> QED
    BY <2>3, <2>4, <2>5 DEF Progress
<1>3. \A n \in Nat : n \in T
  <2> HIDE DEF T
  <2> QED
    BY <1>1, <1>2, ElementTurns!Induction
<1> QED
  BY <1>3

\* A list that lies within what agrees is the same list.
LEMMA ElementsAgree ==
    ASSUME NEW item, NEW other, NEW len, NEW m, ReadAlike(item, other, len, m),
           len \in Nat, m \in Nat, NEW at \in Nat, at <= len, NEW n \in Nat,
           Elements!Iterate(Loop(item, at))[n].ok,
           Elements!Iterate(Loop(item, at))[n].offset <= m
    PROVE  Elements!Iterate(Loop(other, at))[n] = Elements!Iterate(Loop(item, at))[n]
<1>0. Progress(item, len) /\ Agreeing(item, other, m)
  BY DEF ReadAlike
<1> DEFINE list(k) == Elements!Iterate(Loop(item, at))[k]
           same(k) == Elements!Iterate(Loop(other, at))[k]
           T == {k \in Nat : list(k).ok /\ list(k).offset <= m => same(k) = list(k)}
<1>1. 0 \in T
  BY ElementsStart DEF NoElements, Loop
<1>2. \A k \in Nat : k \in T => k + 1 \in T
  <2> SUFFICES ASSUME NEW k \in Nat, k \in T, list(k + 1).ok, list(k + 1).offset <= m
               PROVE  same(k + 1) = list(k + 1)
    OBVIOUS
  <2> DEFINE before == list(k)
             next == item[before.offset]
             twin == same(k)
  <2>1. list(k + 1) = NextElement(Loop(item, at), before)
    BY ElementsTurn
  <2>2. same(k + 1) = NextElement(Loop(other, at), twin)
    BY ElementsTurn
  <2>3. NextElement(Loop(item, at), before)
          = IF before.ok
            THEN IF next.ok
                 THEN Decoded(Array(Append(before.value.items, next.value)), next.offset)
                 ELSE next
            ELSE before
    BY DEF NextElement, AndThen, Loop
  <2>4. before.ok => before.offset \in Nat /\ before.offset <= len
    BY <1>0, ElementsProgress
  <2>5. before.ok /\ before.offset <= m => twin = before
    OBVIOUS
  <2>6. NextElement(Loop(other, at), before)
          = IF before.ok
            THEN IF other[before.offset].ok
                 THEN Decoded(Array(Append(before.value.items, other[before.offset].value)),
                              other[before.offset].offset)
                 ELSE other[before.offset]
            ELSE before
    BY DEF NextElement, AndThen, Loop
  <2> HIDE DEF list, same, before, twin
  <2>7. before.ok /\ next.ok
    BY <2>1, <2>3
  <2>8. list(k + 1).offset = next.offset
    BY <2>1, <2>3, <2>7 DEF Decoded
  <2>9. next.offset \in Nat /\ before.offset < next.offset
    BY <1>0, <2>4, <2>7 DEF Progress
  <2>10. twin = before
    BY <2>4, <2>5, <2>7, <2>8, <2>9
  <2>11. other[before.offset] = next
    BY <1>0, <2>4, <2>7, <2>8 DEF Agreeing
  <2> HIDE DEF next
  <2> QED
    BY <2>1, <2>2, <2>3, <2>6, <2>7, <2>10, <2>11
<1>3. \A k \in Nat : k \in T
  <2> HIDE DEF T
  <2> QED
    BY <1>1, <1>2, ElementTurns!Induction
<1> QED
  BY <1>3

\* A map of n entries takes at least n bytes.
LEMMA EntriesProgress ==
    ASSUME NEW item, NEW len \in Nat, Progress(item, len), NEW at \in Nat, at <= len
    PROVE  \A n \in Nat :
              LET map == Entries!Iterate(Loop(item, at))[n] IN
              map.ok => map.offset \in Nat /\ at + n <= map.offset /\ map.offset <= len
<1> DEFINE map(n) == Entries!Iterate(Loop(item, at))[n]
           T == {n \in Nat : map(n).ok =>
                    map(n).offset \in Nat /\ at + n <= map(n).offset /\ map(n).offset <= len}
<1>1. 0 \in T
  <2>1. map(0) = Decoded(Map({}), at)
    BY EntriesStart DEF NoEntries, Loop
  <2> QED
    BY <2>1 DEF Decoded
<1>2. \A n \in Nat : n \in T => n + 1 \in T
  <2> SUFFICES ASSUME NEW n \in Nat, n \in T, map(n + 1).ok
               PROVE  /\ map(n + 1).offset \in Nat
                      /\ at + (n + 1) <= map(n + 1).offset
                      /\ map(n + 1).offset <= len
    OBVIOUS
  <2> DEFINE before == map(n)
             key == item[before.offset]
             val == item[key.offset]
  <2>1. map(n + 1) = NextEntry(Loop(item, at), before)
    BY EntriesTurn
  <2>2. NextEntry(Loop(item, at), before)
          = IF before.ok
            THEN IF key.ok
                 THEN IF val.ok THEN AddEntry(before.value.entries, key.value, val) ELSE val
                 ELSE key
            ELSE before
    BY DEF NextEntry, AndThen, Loop
  <2>3. before.ok => before.offset \in Nat /\ at + n <= before.offset /\ before.offset <= len
    OBVIOUS
  <2> HIDE DEF map, before
  <2>4. before.ok /\ key.ok /\ val.ok
    BY <2>1, <2>2
  <2>5. AddEntry(before.value.entries, key.value, val).ok
           => AddEntry(before.value.entries, key.value, val).offset = val.offset
    BY DEF AddEntry, Decoded, CBORError, Error
  <2>6. map(n + 1).offset = val.offset
    BY <2>1, <2>2, <2>4, <2>5
  <2>7. key.offset \in Nat /\ before.offset < key.offset
    BY <2>3, <2>4 DEF Progress
  <2> HIDE DEF key
  <2>8. val.offset \in Nat /\ key.offset < val.offset /\ val.offset <= len
    BY <2>4, <2>7 DEF Progress
  <2> QED
    BY <2>3, <2>4, <2>6, <2>7, <2>8
<1>3. \A n \in Nat : n \in T
  <2> HIDE DEF T
  <2> QED
    BY <1>1, <1>2, ElementTurns!Induction
<1> QED
  BY <1>3

\* A map that lies within what agrees is the same map.
LEMMA EntriesAgree ==
    ASSUME NEW item, NEW other, NEW len, NEW m, ReadAlike(item, other, len, m),
           len \in Nat, m \in Nat, NEW at \in Nat, at <= len, NEW n \in Nat,
           Entries!Iterate(Loop(item, at))[n].ok,
           Entries!Iterate(Loop(item, at))[n].offset <= m
    PROVE  Entries!Iterate(Loop(other, at))[n] = Entries!Iterate(Loop(item, at))[n]
<1>0. Progress(item, len) /\ Agreeing(item, other, m)
  BY DEF ReadAlike
<1> DEFINE map(k) == Entries!Iterate(Loop(item, at))[k]
           same(k) == Entries!Iterate(Loop(other, at))[k]
           T == {k \in Nat : map(k).ok /\ map(k).offset <= m => same(k) = map(k)}
<1>1. 0 \in T
  BY EntriesStart DEF NoEntries, Loop
<1>2. \A k \in Nat : k \in T => k + 1 \in T
  <2> SUFFICES ASSUME NEW k \in Nat, k \in T, map(k + 1).ok, map(k + 1).offset <= m
               PROVE  same(k + 1) = map(k + 1)
    OBVIOUS
  <2> DEFINE before == map(k)
             key == item[before.offset]
             val == item[key.offset]
             twin == same(k)
  <2>1. map(k + 1) = NextEntry(Loop(item, at), before)
    BY EntriesTurn
  <2>2. same(k + 1) = NextEntry(Loop(other, at), twin)
    BY EntriesTurn
  <2>3. NextEntry(Loop(item, at), before)
          = IF before.ok
            THEN IF key.ok
                 THEN IF val.ok THEN AddEntry(before.value.entries, key.value, val) ELSE val
                 ELSE key
            ELSE before
    BY DEF NextEntry, AndThen, Loop
  <2>4. before.ok => before.offset \in Nat /\ before.offset <= len
    BY <1>0, EntriesProgress
  <2>5. before.ok /\ before.offset <= m => twin = before
    OBVIOUS
  <2>6. before.ok /\ key.ok /\ val.ok
           /\ other[before.offset] = key /\ other[key.offset] = val
           => NextEntry(Loop(other, at), before)
                = AddEntry(before.value.entries, key.value, val)
    BY DEF NextEntry, AndThen, Loop
  <2> HIDE DEF map, same, before, twin
  <2>7. before.ok /\ key.ok /\ val.ok
    BY <2>1, <2>3
  <2>8. AddEntry(before.value.entries, key.value, val).ok
           => AddEntry(before.value.entries, key.value, val).offset = val.offset
    BY DEF AddEntry, Decoded, CBORError, Error
  <2>9. map(k + 1).offset = val.offset
    BY <2>1, <2>3, <2>7, <2>8
  <2>10. key.offset \in Nat /\ before.offset < key.offset
    BY <1>0, <2>4, <2>7 DEF Progress
  <2>11. val.offset \in Nat /\ key.offset < val.offset
    <3> HIDE DEF key
    <3> QED
      BY <1>0, <2>7, <2>10 DEF Progress
  <2>12. twin = before
    <3> HIDE DEF key, val
    <3> QED
      BY <2>4, <2>5, <2>7, <2>9, <2>10, <2>11
  <2>13. key.offset <= m /\ val.offset <= m
    <3> HIDE DEF key, val
    <3> QED
      BY <2>9, <2>10, <2>11
  <2>14. other[before.offset] = key
    BY <1>0, <2>4, <2>7, <2>13 DEF Agreeing
  <2>15. other[key.offset] = val
    <3> HIDE DEF key
    <3> QED
      BY <1>0, <2>7, <2>10, <2>13 DEF Agreeing
  <2> HIDE DEF key, val
  <2> QED
    BY <2>1, <2>2, <2>3, <2>6, <2>7, <2>12, <2>14, <2>15
<1>3. \A k \in Nat : k \in T
  <2> HIDE DEF T
  <2> QED
    BY <1>1, <1>2, ElementTurns!Induction
<1> QED
  BY <1>3

-----------------------------------------------------------------------------
\* What follows a head ends within the data and not before the head does.
LEMMA RestProgress ==
    ASSUME NEW bytes \in Seq(Byte), NEW item, Progress(item, Len(bytes)),
           NEW major \in 0 .. 6, NEW head, head.value \in Seq(Byte),
           head.offset \in Nat, head.offset <= Len(bytes),
           Rest(bytes, item, major, head).ok
    PROVE  LET r == Rest(bytes, item, major, head)
           IN  r.offset \in Nat /\ head.offset <= r.offset /\ r.offset <= Len(bytes)
<1> DEFINE arg == head.value
           at == head.offset
<1>1. Size(arg) \in Nat /\ Turns(bytes, arg) \in Nat /\ Len(bytes) \in Nat
  BY SizeTyped, LenProperties DEF Turns
<1>2. CASE major \in {0, 1}
  BY <1>2 DEF Rest, Decoded
<1>3. CASE major \in {2, 3}
  <2>1. Rest(bytes, item, major, head) = ReadString(bytes, at, Size(arg), major = 3)
    BY <1>3 DEF Rest
  <2>2. ReadString(bytes, at, Size(arg), major = 3).offset = at + Size(arg)
        /\ at + Size(arg) <= Len(bytes)
    BY <2>1 DEF ReadString, _need, Decoded, CBORError, Error
  <2> HIDE DEF arg, at
  <2> QED
    BY <1>1, <2>1, <2>2 DEF at
<1>4. CASE major = 4
  <2>1. Rest(bytes, item, major, head) = Elements!Iterate(Loop(item, at))[Turns(bytes, arg)]
    BY <1>4 DEF Rest
  <2> DEFINE n == Turns(bytes, arg)
             r == Elements!Iterate(Loop(item, at))[n]
  <2>2. at + n <= r.offset /\ r.offset \in Nat /\ r.offset <= Len(bytes)
    BY <1>1, <2>1, ElementsProgress
  <2> HIDE DEF n
  <2> QED
    BY <1>1, <2>1, <2>2 DEF n
<1>5. CASE major = 5
  <2>1. Rest(bytes, item, major, head) = Entries!Iterate(Loop(item, at))[Turns(bytes, arg)]
    BY <1>5 DEF Rest
  <2> DEFINE n == Turns(bytes, arg)
             r == Entries!Iterate(Loop(item, at))[n]
  <2>2. at + n <= r.offset /\ r.offset \in Nat /\ r.offset <= Len(bytes)
    BY <1>1, <2>1, EntriesProgress
  <2> HIDE DEF n
  <2> QED
    BY <1>1, <2>1, <2>2 DEF n
<1>6. CASE major = 6
  BY <1>6 DEF Rest, Progress
<1> QED
  BY <1>2, <1>3, <1>4, <1>5, <1>6

\* What follows a head is read from its own bytes alone: a loop that succeeds
\* has not been cut short by Turns.
LEMMA RestAgrees ==
    ASSUME NEW a \in Seq(Byte), NEW b \in Seq(Byte), NEW m \in Nat, Agree(a, b, m),
           NEW item, NEW other, ReadAlike(item, other, Len(a), m),
           NEW major \in 0 .. 6, NEW head, head.value \in Seq(Byte),
           head.offset \in Nat, head.offset <= Len(a),
           Rest(a, item, major, head).ok, Rest(a, item, major, head).offset <= m
    PROVE  Rest(b, other, major, head) = Rest(a, item, major, head)
<1> DEFINE arg == head.value
           at == head.offset
<1>1. Size(arg) \in Nat /\ Turns(a, arg) \in Nat /\ Len(a) \in Nat /\ Len(b) \in Nat
  BY SizeTyped, LenProperties DEF Turns
<1>2. CASE major \in {0, 1}
  BY <1>2 DEF Rest
<1>3. CASE major \in {2, 3}
  <2>1. Rest(a, item, major, head) = ReadString(a, at, Size(arg), major = 3)
        /\ Rest(b, other, major, head) = ReadString(b, at, Size(arg), major = 3)
    BY <1>3 DEF Rest
  <2>2. ReadString(a, at, Size(arg), major = 3).offset = at + Size(arg)
    BY <2>1 DEF ReadString, _need, Decoded, CBORError, Error
  <2> DEFINE n == Size(arg)
  <2>3. at + n <= m
    BY <2>1, <2>2
  <2>4. Bytes(a, at, n) = Bytes(b, at, n)
    BY <1>1, <2>3, SameBytes
  <2>5. _need(a, at, n) /\ _need(b, at, n)
    BY <1>1, <2>3 DEF Agree, _need
  <2> HIDE DEF arg, at, n
  <2>6. ReadString(b, at, n, major = 3) = ReadString(a, at, n, major = 3)
    BY <2>4, <2>5 DEF ReadString
  <2> QED
    BY <2>1, <2>6 DEF n
<1>4. Turns(a, arg) <= m => Turns(b, arg) = Turns(a, arg)
  <2>1. m <= Len(a) /\ m <= Len(b)
    BY DEF Agree
  <2> DEFINE n == Size(arg)
  <2>2. n \in Nat
    BY <1>1
  <2> HIDE DEF n
  <2> QED
    BY <1>1, <2>1, <2>2 DEF Turns, n
<1>5. CASE major = 4
  <2>1. Rest(a, item, major, head) = Elements!Iterate(Loop(item, at))[Turns(a, arg)]
        /\ Rest(b, other, major, head) = Elements!Iterate(Loop(other, at))[Turns(b, arg)]
    BY <1>5 DEF Rest
  <2> DEFINE n == Turns(a, arg)
             r == Elements!Iterate(Loop(item, at))[n]
  <2>2. at + n <= r.offset /\ r.offset \in Nat
    BY <1>1, <2>1, ElementsProgress DEF ReadAlike
  <2>3. n <= m
    <3>1. r.offset <= m
      BY <2>1
    <3> HIDE DEF n, r, at
    <3> QED
      BY <1>1, <2>2, <3>1 DEF n, at
  <2> DEFINE len == Len(a)
  <2>4. len \in Nat /\ ReadAlike(item, other, len, m) /\ at \in Nat /\ at <= len
    BY <1>1
  <2>5. n \in Nat /\ r.ok /\ r.offset <= m
    BY <1>1, <2>1
  <2>6. Elements!Iterate(Loop(other, at))[n] = r
    <3> HIDE DEF len, at, n
    <3> QED
      BY SMTT(30), <2>4, <2>5, ElementsAgree
  <2> QED
    BY <1>4, <2>1, <2>3, <2>6
<1>6. CASE major = 5
  <2>1. Rest(a, item, major, head) = Entries!Iterate(Loop(item, at))[Turns(a, arg)]
        /\ Rest(b, other, major, head) = Entries!Iterate(Loop(other, at))[Turns(b, arg)]
    BY <1>6 DEF Rest
  <2> DEFINE n == Turns(a, arg)
             r == Entries!Iterate(Loop(item, at))[n]
  <2>2. at + n <= r.offset /\ r.offset \in Nat
    BY <1>1, <2>1, EntriesProgress DEF ReadAlike
  <2>3. n <= m
    <3>1. r.offset <= m
      BY <2>1
    <3> HIDE DEF n, r, at
    <3> QED
      BY <1>1, <2>2, <3>1 DEF n, at
  <2> DEFINE len == Len(a)
  <2>4. len \in Nat /\ ReadAlike(item, other, len, m) /\ at \in Nat /\ at <= len
    BY <1>1
  <2>5. n \in Nat /\ r.ok /\ r.offset <= m
    BY <1>1, <2>1
  <2>6. Entries!Iterate(Loop(other, at))[n] = r
    <3> HIDE DEF len, at, n
    <3> QED
      BY SMTT(30), <2>4, <2>5, EntriesAgree
  <2> QED
    BY <1>4, <2>1, <2>3, <2>6
<1>7. CASE major = 6
  BY <1>7 DEF Rest, ReadAlike, Agreeing
<1> QED
  BY <1>2, <1>3, <1>5, <1>6, <1>7

-----------------------------------------------------------------------------
\* The two parts of an initial byte.
LEMMA InitialByte ==
    ASSUME NEW bytes \in Seq(Byte), NEW offset \in Nat, offset + 1 <= Len(bytes)
    PROVE  bytes[offset + 1] \div 32 \in 0 .. 7 /\ bytes[offset + 1] % 32 \in 0 .. 31
<1>1. offset + 1 \in 1 .. Len(bytes)
  BY LenProperties
<1>2. bytes[offset + 1] \in 0 .. 255
  BY <1>1, ElementOfSeq DEF Byte
<1>3. \A x \in 0 .. 255 : x \div 32 \in 0 .. 7 /\ x % 32 \in 0 .. 31
  OBVIOUS
<1> QED
  BY <1>2, <1>3

\* An item ends behind its beginning and within the data, if the items in it do.
LEMMA ItemProgress ==
    ASSUME NEW bytes \in Seq(Byte), NEW item, Progress(item, Len(bytes)),
           NEW offset \in Nat, ItemAt(bytes, item, offset).ok
    PROVE  LET r == ItemAt(bytes, item, offset)
           IN  r.offset \in Nat /\ offset < r.offset /\ r.offset <= Len(bytes)
<1> DEFINE major == bytes[offset + 1] \div 32
           info == bytes[offset + 1] % 32
           at == offset + 1
           head == _read_length(bytes, at, info)
<1>1. at <= Len(bytes) /\ at \in Nat /\ Len(bytes) \in Nat
  BY LenProperties DEF ItemAt, _need, CBORError, Error
<1>2. major \in 0 .. 7 /\ info \in 0 .. 31
  BY <1>1, InitialByte
<1>3. ItemAt(bytes, item, offset)
        = IF major = 7 THEN ReadSimple(info, at)
          ELSE IF head.ok THEN Rest(bytes, item, major, head) ELSE head
  BY <1>1 DEF ItemAt, _need, AndThen
<1> HIDE DEF major, info, head, at
<1>4. CASE major = 7
  <2>1. ItemAt(bytes, item, offset).offset = at
    BY <1>3, <1>4 DEF ReadSimple, Decoded, CBORError, Error
  <2> QED
    BY <1>1, <2>1 DEF at
<1>5. CASE major # 7
  <2>1. head.ok
    BY <1>3, <1>5
  <2>2. head.value \in Seq(Byte)
        /\ head.offset \in Nat /\ at <= head.offset /\ head.offset <= Len(bytes)
    BY <1>1, <1>2, <2>1, HeadTyped DEF head
  <2>3. major \in 0 .. 6
    BY <1>2, <1>5
  <2> DEFINE r == Rest(bytes, item, major, head)
  <2>4. ItemAt(bytes, item, offset) = r
    BY <1>3, <1>5, <2>1
  <2>5. r.offset \in Nat /\ head.offset <= r.offset /\ r.offset <= Len(bytes)
    BY <2>2, <2>3, <2>4, RestProgress
  <2> HIDE DEF r
  <2> QED
    BY <1>1, <2>2, <2>4, <2>5 DEF at
<1> QED
  BY <1>4, <1>5

\* An item is read from its own bytes alone, if the items in it are.
LEMMA ItemAgrees ==
    ASSUME NEW a \in Seq(Byte), NEW b \in Seq(Byte), NEW m \in Nat, Agree(a, b, m),
           NEW item, NEW other, ReadAlike(item, other, Len(a), m), NEW offset \in Nat,
           ItemAt(a, item, offset).ok, ItemAt(a, item, offset).offset <= m
    PROVE  ItemAt(b, other, offset) = ItemAt(a, item, offset)
<1> DEFINE major == a[offset + 1] \div 32
           info == a[offset + 1] % 32
           at == offset + 1
           head == _read_length(a, at, info)
           r == ItemAt(a, item, offset)
<1>1. at <= Len(a) /\ at \in Nat /\ Len(a) \in Nat
  BY LenProperties DEF ItemAt, _need, CBORError, Error
<1>2. r.offset \in Nat /\ offset < r.offset /\ r.offset <= m
  BY ItemProgress DEF ReadAlike
<1>3. at <= m /\ at <= Len(b)
  <2> HIDE DEF r
  <2> QED
    BY <1>2 DEF Agree
<1>4. a[at] = b[at]
  BY <1>3 DEF Agree
<1>5. major \in 0 .. 7 /\ info \in 0 .. 31
  BY <1>1, InitialByte
<1>6. r = IF major = 7 THEN ReadSimple(info, at)
          ELSE IF head.ok THEN Rest(a, item, major, head) ELSE head
  BY <1>1 DEF ItemAt, _need, AndThen
<1> DEFINE twin == _read_length(b, at, info)
<1>7. ItemAt(b, other, offset)
        = IF major = 7 THEN ReadSimple(info, at)
          ELSE IF twin.ok THEN Rest(b, other, major, twin) ELSE twin
  BY <1>3, <1>4 DEF ItemAt, _need, AndThen
<1>8. r.ok /\ r = ItemAt(a, item, offset)
  OBVIOUS
<1> HIDE DEF major, info, head, at, r, twin
<1>9. CASE major = 7
  BY <1>6, <1>7, <1>8, <1>9
<1>10. CASE major # 7
  <2>1. head.ok /\ r = Rest(a, item, major, head)
    BY <1>6, <1>8, <1>10
  <2>2. head.value \in Seq(Byte)
        /\ head.offset \in Nat /\ at <= head.offset /\ head.offset <= Len(a)
    BY <1>1, <1>5, <2>1, HeadTyped DEF head
  <2>3. major \in 0 .. 6
    BY <1>5, <1>10
  <2>4. head.offset <= r.offset
    BY <1>8, <2>1, <2>2, <2>3, RestProgress DEF ReadAlike
  <2>5. head.offset <= m
    BY <1>2, <2>2, <2>4
  <2>6. twin = head
    BY ZenonT(60), <1>1, <1>3, <1>5, <2>1, <2>5, HeadAgrees DEF head, twin
  <2>7. Rest(b, other, major, head) = Rest(a, item, major, head)
    BY SMTT(30), <1>2, <1>8, <2>1, <2>2, <2>3, RestAgrees
  <2> QED
    BY <1>7, <1>8, <1>10, <2>1, <2>6, <2>7
<1> QED
  BY <1>9, <1>10

\* For every depth of the stack: items end behind their beginning and within
\* the data, and are read from their own bytes alone.
LEMMA CallsReadAlike ==
    ASSUME NEW a \in Seq(Byte), NEW b \in Seq(Byte), NEW m \in Nat, Agree(a, b, m)
    PROVE  \A depth \in Nat :
              ReadAlike(Calls!Iterate(a)[depth], Calls!Iterate(b)[depth], Len(a), m)
<1> DEFINE item(k) == Calls!Iterate(a)[k]
           other(k) == Calls!Iterate(b)[k]
           T == {k \in Nat : ReadAlike(item(k), other(k), Len(a), m)}
<1>1. 0 \in T
  <2>1. item(0) = NoCall(a) /\ other(0) = NoCall(b)
    BY CallsStart
  <2>2. \A o \in Nat : ~ NoCall(a)[o].ok
    BY DEF NoCall, Error
  <2> QED
    BY <2>1, <2>2 DEF ReadAlike, Progress, Agreeing
<1>2. \A k \in Nat : k \in T => k + 1 \in T
  <2> SUFFICES ASSUME NEW k \in Nat, k \in T
               PROVE  ReadAlike(item(k + 1), other(k + 1), Len(a), m)
    OBVIOUS
  <2>1. item(k + 1) = OneMoreCall(a, item(k)) /\ other(k + 1) = OneMoreCall(b, other(k))
    BY CallsTurn
  <2>2. ReadAlike(item(k), other(k), Len(a), m)
    OBVIOUS
  <2> HIDE DEF item, other, T
  <2>3. \A o \in Nat : item(k + 1)[o] = ItemAt(a, item(k), o)
                       /\ other(k + 1)[o] = ItemAt(b, other(k), o)
    BY <2>1 DEF OneMoreCall
  <2>4. Progress(item(k + 1), Len(a))
    BY SMTT(30), <2>2, <2>3, ItemProgress DEF ReadAlike, Progress
  <2>5. Agreeing(item(k + 1), other(k + 1), m)
    BY <2>2, <2>3, ItemAgrees DEF Agreeing
  <2> QED
    BY <2>4, <2>5 DEF ReadAlike
<1>3. \A k \in Nat : k \in T
  <2> HIDE DEF T
  <2> QED
    BY <1>1, <1>2, ElementTurns!Induction
<1> QED
  BY <1>3

-----------------------------------------------------------------------------
\* A decoded item ends behind its beginning and within the data.
LEMMA DecodeTyped ==
    ASSUME NEW bytes \in Seq(Byte), NEW offset \in Nat, _decode(bytes, offset).ok
    PROVE  LET r == _decode(bytes, offset)
           IN  r.offset \in Nat /\ offset < r.offset /\ r.offset <= Len(bytes)
<1>1. Agree(bytes, bytes, Len(bytes)) /\ Len(bytes) \in Nat
  BY LenProperties DEF Agree
<1> DEFINE item == Calls!Iterate(bytes)[RecursionLimit]
<1>2. ReadAlike(item, item, Len(bytes), Len(bytes))
  BY <1>1, CallsReadAlike, RecursionLimitAssumption
<1>3. item[offset].ok /\ _decode(bytes, offset) = item[offset]
  BY DEF _decode
<1> HIDE DEF item
<1> QED
  BY <1>2, <1>3 DEF ReadAlike, Progress

\* _decode reads an item from its own bytes alone: whatever follows them in
\* other data, the outcome is the same.
THEOREM DecodeAgrees ==
    ASSUME NEW a \in Seq(Byte), NEW b \in Seq(Byte), NEW m \in Nat, Agree(a, b, m),
           NEW offset \in Nat, _decode(a, offset).ok, _decode(a, offset).offset <= m
    PROVE  _decode(b, offset) = _decode(a, offset)
<1> DEFINE item == Calls!Iterate(a)[RecursionLimit]
           other == Calls!Iterate(b)[RecursionLimit]
<1>1. ReadAlike(item, other, Len(a), m)
  BY CallsReadAlike, RecursionLimitAssumption
<1>2. item[offset] = _decode(a, offset) /\ other[offset] = _decode(b, offset)
  BY DEF _decode
<1> HIDE DEF item, other
<1> QED
  BY <1>1, <1>2 DEF ReadAlike, Agreeing

\* Data of which other data is a beginning.
Extends(b, a) == Agree(a, b, Len(a)) /\ Len(a) # Len(b)

\* loads does not accept data and a part of it.
THEOREM LoadsPrefixFree ==
    ASSUME NEW a \in Seq(Byte), NEW b \in Seq(Byte), Extends(b, a)
    PROVE  ~ (loads(a).ok /\ loads(b).ok)
<1> SUFFICES ASSUME loads(a).ok, loads(b).ok PROVE FALSE
  OBVIOUS
<1> DEFINE r == _decode(a, 0)
<1>1. r.ok /\ r.offset = Len(a)
  BY DEF loads, AndThen, AllRead, Value, CBORError, Error
<1>2. _decode(b, 0).ok /\ _decode(b, 0).offset = Len(b)
  BY DEF loads, AndThen, AllRead, Value, CBORError, Error
<1>3. Len(a) \in Nat /\ Agree(a, b, Len(a))
  BY LenProperties DEF Extends
<1>4. r.offset <= Len(a)
  <2> HIDE DEF r
  <2> QED
    BY <1>1, <1>3
<1>5. _decode(b, 0) = r
  BY <1>1, <1>3, <1>4, DecodeAgrees
<1> HIDE DEF r
<1> QED
  BY <1>1, <1>2, <1>5 DEF Extends

\* parse_cose_key does not accept data and a part of it.
THEOREM KeyPrefixFree ==
    ASSUME NEW a \in Seq(Byte), NEW b \in Seq(Byte), Extends(b, a)
    PROVE  ~ (parse_cose_key(a).ok /\ parse_cose_key(b).ok)
<1>1. \A d : parse_cose_key(d).ok => loads(d).ok
  BY DEF parse_cose_key, AndThen
<1> QED
  BY <1>1, LoadsPrefixFree

-----------------------------------------------------------------------------
\* The rest of data from an offset.
From(bytes, offset) == SubSeq(bytes, offset + 1, Len(bytes))

\* The rest of data is data, and the rests of data that agrees agree.
LEMMA FromTyped ==
    ASSUME NEW bytes \in Seq(Byte), NEW offset \in Nat, offset <= Len(bytes)
    PROVE  /\ From(bytes, offset) \in Seq(Byte)
           /\ Len(From(bytes, offset)) = Len(bytes) - offset
           /\ Len(bytes) - offset \in Nat
           /\ \A i \in 1 .. Len(bytes) - offset : From(bytes, offset)[i] = bytes[offset + i]
BY LenProperties DEF From

\* What is left of two sequences that agree agrees too.
LEMMA FromAgrees ==
    ASSUME NEW a \in Seq(Byte), NEW b \in Seq(Byte), Agree(a, b, Len(a)),
           NEW offset \in Nat, offset <= Len(a)
    PROVE  Agree(From(a, offset), From(b, offset), Len(a) - offset)
<1>1. Len(a) <= Len(b) /\ Len(a) \in Nat /\ Len(b) \in Nat /\ offset <= Len(b)
  BY LenProperties DEF Agree
<1>2. /\ Len(From(a, offset)) = Len(a) - offset
      /\ \A i \in 1 .. Len(a) - offset : From(a, offset)[i] = a[offset + i]
  BY FromTyped
<1>3. /\ Len(From(b, offset)) = Len(b) - offset
      /\ \A i \in 1 .. Len(b) - offset : From(b, offset)[i] = b[offset + i]
  BY <1>1, FromTyped
<1>4. \A i \in 1 .. Len(a) - offset : a[offset + i] = b[offset + i]
  BY <1>1 DEF Agree
<1> QED
  BY <1>1, <1>2, <1>3, <1>4 DEF Agree

\* An item inside authenticatorData ends behind its beginning and within the
\* data: it is the first item of the rest of the data.
LEMMA DecodeAtTyped ==
    ASSUME NEW bytes \in Seq(Byte), NEW offset \in Nat, offset <= Len(bytes),
           DecodeAt(bytes, offset).ok
    PROVE  LET item == _decode(From(bytes, offset), 0)
           IN  /\ item.ok /\ item.offset \in Nat
               /\ 0 < item.offset /\ item.offset <= Len(bytes) - offset
               /\ DecodeAt(bytes, offset) = Decoded(item.value, offset + item.offset)
<1> DEFINE item == _decode(From(bytes, offset), 0)
<1>1. DecodeAt(bytes, offset) = At(offset, item)
  BY DEF DecodeAt, decode_first, From
<1>2. From(bytes, offset) \in Seq(Byte) /\ Len(From(bytes, offset)) = Len(bytes) - offset
  BY FromTyped
<1>3. item.ok
  <2> HIDE DEF item
  <2> QED
    BY <1>1 DEF At, BadAuthData, Error
<1>4. item.offset \in Nat /\ 0 < item.offset /\ item.offset <= Len(bytes) - offset
  BY <1>2, <1>3, DecodeTyped
<1> HIDE DEF item
<1>5. DecodeAt(bytes, offset) = Decoded(item.value, offset + item.offset)
  BY <1>1, <1>3 DEF At
<1> QED
  BY <1>3, <1>4, <1>5 DEF item

\* It is read from its own bytes alone.
LEMMA DecodeAtAgrees ==
    ASSUME NEW a \in Seq(Byte), NEW b \in Seq(Byte), Agree(a, b, Len(a)),
           NEW offset \in Nat, offset <= Len(a), DecodeAt(a, offset).ok
    PROVE  DecodeAt(b, offset) = DecodeAt(a, offset)
<1> DEFINE s == From(a, offset)
           t == From(b, offset)
           m == Len(a) - offset
<1>1. offset <= Len(b)
  BY LenProperties DEF Agree
<1>2. s \in Seq(Byte) /\ t \in Seq(Byte) /\ m \in Nat /\ Agree(s, t, m)
  BY <1>1, FromTyped, FromAgrees
<1>3. _decode(s, 0).ok /\ _decode(s, 0).offset <= m
  BY DecodeAtTyped
<1>4. DecodeAt(a, offset) = At(offset, _decode(s, 0))
      /\ DecodeAt(b, offset) = At(offset, _decode(t, 0))
  BY DEF DecodeAt, decode_first, From
<1> HIDE DEF s, t, m
<1>5. _decode(t, 0) = _decode(s, 0)
  BY <1>2, <1>3, DecodeAgrees
<1> QED
  BY <1>4, <1>5

-----------------------------------------------------------------------------
\* The length of the credential id, and where the key begins.
IdLen(bytes, offset) == Size(Digits(Bytes(bytes, offset + 16, 2)))
KeyAt(bytes, offset) == offset + 18 + IdLen(bytes, offset)

\* Attested credential data that is accepted has all its parts.
LEMMA AttestedParts ==
    ASSUME NEW bytes \in Seq(Byte), NEW offset \in Nat, Attested(bytes, offset).ok
    PROVE  LET id_len == IdLen(bytes, offset)
               key_at == KeyAt(bytes, offset)
               key == DecodeAt(bytes, key_at)
           IN  /\ id_len \in Nat /\ key_at \in Nat
               /\ offset + 18 <= Len(bytes) /\ key_at <= Len(bytes)
               /\ key.ok
               /\ Attested(bytes, offset)
                    = Decoded([aaguid |-> Bytes(bytes, offset, 16),
                               credential_id |-> Bytes(bytes, offset + 18, id_len),
                               credential_public_key |->
                                  Bytes(bytes, key_at, key.offset - key_at)],
                              key.offset)
<1> DEFINE id_len == IdLen(bytes, offset)
           key_at == KeyAt(bytes, offset)
           key == DecodeAt(bytes, key_at)
           value == [aaguid |-> Bytes(bytes, offset, 16),
                     credential_id |-> Bytes(bytes, offset + 18, id_len),
                     credential_public_key |-> Bytes(bytes, key_at, key.offset - key_at)]
<1>1. Attested(bytes, offset)
        = IF ~_need(bytes, offset, 18) THEN BadAuthData
          ELSE IF ~_need(bytes, offset + 18, id_len) THEN BadAuthData
          ELSE IF key.ok THEN Decoded(value, key.offset) ELSE key
  BY DEF Attested, AndThen, IdLen, KeyAt
<1>2. ~ BadAuthData.ok
  BY DEF BadAuthData, Error
<1>3. offset + 18 <= Len(bytes)
  <2> HIDE DEF id_len, key, value
  <2> QED
    BY <1>1, <1>2 DEF _need
<1>4. id_len \in Nat
  <2>1. offset + 16 \in Nat /\ (offset + 16) + 2 <= Len(bytes)
    BY <1>3, LenProperties
  <2>2. Bytes(bytes, offset + 16, 2) \in Seq(Byte)
    BY <2>1, BytesTyped
  <2> QED
    BY <2>2, DigitsTyped, SizeTyped DEF IdLen
<1>5. (offset + 18) + id_len <= Len(bytes) /\ key.ok
      /\ Attested(bytes, offset) = Decoded(value, key.offset)
  <2> HIDE DEF id_len, key, value
  <2> QED
    BY <1>1, <1>2 DEF _need
<1>6. key_at \in Nat /\ key_at <= Len(bytes)
  <2>1. key_at = offset + 18 + id_len
    BY DEF KeyAt
  <2> HIDE DEF id_len, key_at
  <2> QED
    BY <1>4, <1>5, <2>1
<1> QED
  BY <1>3, <1>4, <1>5, <1>6

\* Attested credential data ends behind its beginning and within the data.
LEMMA AttestedTyped ==
    ASSUME NEW bytes \in Seq(Byte), NEW offset \in Nat, Attested(bytes, offset).ok
    PROVE  LET r == Attested(bytes, offset)
           IN  r.offset \in Nat /\ offset <= r.offset /\ r.offset <= Len(bytes)
<1> DEFINE key_at == KeyAt(bytes, offset)
           item == _decode(From(bytes, key_at), 0)
<1>1. /\ IdLen(bytes, offset) \in Nat /\ key_at \in Nat /\ key_at <= Len(bytes)
      /\ DecodeAt(bytes, key_at).ok
      /\ Attested(bytes, offset).offset = DecodeAt(bytes, key_at).offset
  BY AttestedParts DEF Decoded
<1>2. /\ item.offset \in Nat /\ item.offset <= Len(bytes) - key_at
      /\ DecodeAt(bytes, key_at).offset = key_at + item.offset
  BY <1>1, DecodeAtTyped DEF Decoded
<1>3. offset <= key_at
  BY <1>1 DEF KeyAt
<1> HIDE DEF key_at, item
<1> QED
  BY <1>1, <1>2, <1>3, LenProperties

\* It is read from its own bytes alone.
LEMMA AttestedAgrees ==
    ASSUME NEW a \in Seq(Byte), NEW b \in Seq(Byte), Agree(a, b, Len(a)),
           NEW offset \in Nat, Attested(a, offset).ok
    PROVE  Attested(b, offset) = Attested(a, offset)
<1> DEFINE id_len == IdLen(a, offset)
           key_at == KeyAt(a, offset)
           key == DecodeAt(a, key_at)
           m == Len(a)
<1>1. /\ id_len \in Nat /\ key_at \in Nat /\ offset + 18 <= m /\ key_at <= m /\ key.ok
      /\ Attested(a, offset)
           = Decoded([aaguid |-> Bytes(a, offset, 16),
                      credential_id |-> Bytes(a, offset + 18, id_len),
                      credential_public_key |-> Bytes(a, key_at, key.offset - key_at)],
                     key.offset)
  BY AttestedParts
<1>2. m \in Nat /\ m <= Len(b) /\ Len(b) \in Nat /\ Agree(a, b, m)
  BY LenProperties DEF Agree
<1>3. DecodeAt(b, key_at) = key
  BY <1>1, DecodeAtAgrees
<1>4. key.offset \in Nat /\ key_at <= key.offset /\ key.offset <= m
  <2> DEFINE item == _decode(From(a, key_at), 0)
  <2>1. item.offset \in Nat /\ item.offset <= m - key_at /\ key.offset = key_at + item.offset
    BY <1>1, DecodeAtTyped DEF Decoded
  <2> HIDE DEF item, key, key_at, m
  <2> QED
    BY <1>1, <1>2, <2>1
<1>5. key_at = offset + 18 + id_len
  BY DEF KeyAt
<1> HIDE DEF id_len, key_at, key, m
<1>6. Bytes(a, offset + 16, 2) = Bytes(b, offset + 16, 2)
      /\ Bytes(a, offset, 16) = Bytes(b, offset, 16)
  <2>1. offset + 16 \in Nat /\ (offset + 16) + 2 <= m /\ offset + 16 <= m
    BY <1>1, <1>2
  <2> QED
    BY <1>2, <2>1, SameBytes
<1>7. Bytes(a, offset + 18, id_len) = Bytes(b, offset + 18, id_len)
  <2>1. offset + 18 \in Nat /\ (offset + 18) + id_len <= m
    BY <1>1, <1>2, <1>5
  <2> QED
    BY <1>1, <1>2, <2>1, SameBytes
<1>8. Bytes(a, key_at, key.offset - key_at) = Bytes(b, key_at, key.offset - key_at)
  <2>1. key.offset - key_at \in Nat /\ key_at + (key.offset - key_at) <= m
    BY <1>1, <1>2, <1>4
  <2> QED
    BY <1>1, <1>2, <2>1, SameBytes
<1>9. IdLen(b, offset) = id_len /\ KeyAt(b, offset) = key_at
  BY <1>6 DEF IdLen, KeyAt, id_len, key_at
<1>10. _need(b, offset, 18) /\ _need(b, offset + 18, id_len)
  BY <1>1, <1>2, <1>5 DEF _need
<1>11. Attested(b, offset)
         = IF ~_need(b, offset, 18) THEN BadAuthData
           ELSE IF ~_need(b, offset + 18, IdLen(b, offset)) THEN BadAuthData
           ELSE IF DecodeAt(b, KeyAt(b, offset)).ok
           THEN Decoded([aaguid |-> Bytes(b, offset, 16),
                         credential_id |-> Bytes(b, offset + 18, IdLen(b, offset)),
                         credential_public_key |->
                            Bytes(b, KeyAt(b, offset),
                                  DecodeAt(b, KeyAt(b, offset)).offset - KeyAt(b, offset))],
                        DecodeAt(b, KeyAt(b, offset)).offset)
           ELSE DecodeAt(b, KeyAt(b, offset))
  BY DEF Attested, AndThen, IdLen, KeyAt
<1> QED
  BY <1>1, <1>3, <1>6, <1>7, <1>8, <1>9, <1>10, <1>11

-----------------------------------------------------------------------------
\* The two optional parts of authenticatorData.
AttPart(bytes) == Present(FLAG_AT, bytes[33], Attested(bytes, 37), 37)
ExtPart(bytes) ==
    Present(FLAG_ED, bytes[33], Extensions(bytes, AttPart(bytes).offset), AttPart(bytes).offset)

\* authenticatorData that is accepted has all its parts and nothing else.
LEMMA ParsedParts ==
    ASSUME NEW bytes \in Seq(Byte), parse_authenticator_data(bytes).ok
    PROVE  /\ 37 <= Len(bytes)
           /\ AttPart(bytes).ok /\ ExtPart(bytes).ok
           /\ AttPart(bytes).offset \in 37 .. Len(bytes)
           /\ ExtPart(bytes).offset = Len(bytes)
           /\ parse_authenticator_data(bytes)
                = Value([rp_id_hash |-> Bytes(bytes, 0, 32),
                         flags |-> FlagSet(bytes[33]),
                         sign_count |-> Digits(Bytes(bytes, 33, 4)),
                         attested_credential_data |-> AttPart(bytes).value,
                         extensions |-> ExtPart(bytes).value])
<1> DEFINE att == AttPart(bytes)
           ext == ExtPart(bytes)
           v == [rp_id_hash |-> Bytes(bytes, 0, 32),
                 flags |-> FlagSet(bytes[33]),
                 sign_count |-> Digits(Bytes(bytes, 33, 4)),
                 attested_credential_data |-> att.value,
                 extensions |-> ext.value]
<1>1. parse_authenticator_data(bytes)
        = IF Len(bytes) < 37 THEN BadAuthData
          ELSE IF att.ok
          THEN IF ext.ok
               THEN IF ~NothingLeft(bytes, ext.offset) THEN BadAuthData ELSE Value(v)
               ELSE ext
          ELSE att
  BY DEF parse_authenticator_data, AndThen, AttPart, ExtPart
<1>2. ~ BadAuthData.ok
  BY DEF BadAuthData, Error
<1>3. Len(bytes) \in Nat
  BY LenProperties
<1> HIDE DEF att, ext, v
<1>4. /\ 37 <= Len(bytes) /\ att.ok /\ ext.ok /\ ext.offset = Len(bytes)
      /\ parse_authenticator_data(bytes) = Value(v)
  BY <1>1, <1>2, <1>3 DEF NothingLeft
<1>5. att.offset \in 37 .. Len(bytes)
  <2>1. CASE FLAG_AT \in FlagSet(bytes[33])
    <3>1. att = Attested(bytes, 37)
      BY <2>1 DEF att, AttPart, Present
    <3> QED
      BY <1>3, <1>4, <3>1, AttestedTyped
  <2>2. CASE FLAG_AT \notin FlagSet(bytes[33])
    BY <1>3, <1>4, <2>2 DEF att, AttPart, Present, Decoded
  <2> QED
    BY <2>1, <2>2
<1> QED
  BY <1>4, <1>5 DEF att, ext, v

\* parse_authenticator_data does not accept data and a part of it.
THEOREM AuthDataPrefixFree ==
    ASSUME NEW a \in Seq(Byte), NEW b \in Seq(Byte), Extends(b, a)
    PROVE  ~ (parse_authenticator_data(a).ok /\ parse_authenticator_data(b).ok)
<1> SUFFICES ASSUME parse_authenticator_data(a).ok, parse_authenticator_data(b).ok
             PROVE  FALSE
  OBVIOUS
<1>1. Agree(a, b, Len(a)) /\ Len(a) # Len(b) /\ Len(a) \in Nat
  BY LenProperties DEF Extends
<1>2. /\ 37 <= Len(a) /\ AttPart(a).ok /\ ExtPart(a).ok
      /\ AttPart(a).offset \in 37 .. Len(a) /\ ExtPart(a).offset = Len(a)
  BY ParsedParts
<1>3. AttPart(b).ok /\ ExtPart(b).ok /\ ExtPart(b).offset = Len(b)
  BY ParsedParts
<1>4. a[33] = b[33]
  BY <1>1, <1>2 DEF Agree
<1>5. AttPart(b) = AttPart(a)
  <2>1. CASE FLAG_AT \in FlagSet(a[33])
    BY <1>1, <1>2, <1>4, <2>1, AttestedAgrees DEF AttPart, Present
  <2>2. CASE FLAG_AT \notin FlagSet(a[33])
    BY <1>4, <2>2 DEF AttPart, Present
  <2> QED
    BY <2>1, <2>2
<1> DEFINE offset == AttPart(a).offset
<1>6. ExtPart(b) = ExtPart(a)
  <2>1. CASE FLAG_ED \in FlagSet(a[33])
    <3>1. Extensions(a, offset).ok
      BY <1>2, <2>1 DEF ExtPart, Present
    <3>2. DecodeAt(a, offset).ok
      BY <3>1 DEF Extensions, AndThen
    <3>3. DecodeAt(b, offset) = DecodeAt(a, offset)
      BY <1>1, <1>2, <3>2, DecodeAtAgrees
    <3> QED
      BY <1>4, <1>5, <2>1, <3>3 DEF ExtPart, Present, Extensions, AndThen
  <2>2. CASE FLAG_ED \notin FlagSet(a[33])
    BY <1>4, <1>5, <2>2 DEF ExtPart, Present
  <2> QED
    BY <2>1, <2>2
<1> QED
  BY <1>1, <1>2, <1>3, <1>6

-----------------------------------------------------------------------------
\* int.to_bytes restores what int.from_bytes read, leading zeros included.
LEMMA DigitsRestored ==
    ASSUME NEW s \in Seq(Byte)
    PROVE  ToBytes(Digits(s), Len(s)) = s
<1> DEFINE T == {i \in DOMAIN s : s[i] # 0}
           k == Min(T)
           n == Len(s)
<1>1. n \in Nat /\ DOMAIN s = 1 .. n /\ s = [i \in 1 .. n |-> s[i]]
  BY LenProperties
<1>2. CASE T = {}
  <2>1. Digits(s) = << >>
    BY <1>2 DEF Digits
  <2>2. \A i \in 1 .. n : s[i] = 0
    BY <1>1, <1>2
  <2>3. ToBytes(<< >>, n) = [i \in 1 .. n |-> 0]
    <3> HIDE DEF n
    <3> QED
      BY <1>1 DEF ToBytes
  <2> HIDE DEF n
  <2> QED
    BY <1>1, <2>1, <2>2, <2>3 DEF n
<1>3. CASE T # {}
  <2>1. k \in DOMAIN s /\ \A i \in 1 .. k - 1 : s[i] = 0
    BY <1>3, FirstNonzero
  <2>2. Digits(s) = SubSeq(s, k, n)
    BY <1>3 DEF Digits
  <2> DEFINE d == SubSeq(s, k, n)
  <2> HIDE DEF T, k, n
  <2>3. k \in 1 .. n
    BY <1>1, <2>1
  <2>4. \A i \in k .. n : s[i] \in Byte
    BY <2>3, LenProperties DEF n
  <2>5. Len(d) = n - k + 1 /\ \A i \in 1 .. n - k + 1 : d[i] = s[k + i - 1]
    BY <1>1, <2>3, <2>4, SubSeqProperties
  <2> HIDE DEF d
  <2>6. ToBytes(d, n) = [i \in 1 .. n |-> IF i <= k - 1 THEN 0 ELSE d[i - (k - 1)]]
    BY <1>1, <2>3, <2>5 DEF ToBytes
  <2>7. \A i \in 1 .. n : s[i] = IF i <= k - 1 THEN 0 ELSE d[i - (k - 1)]
    <3> SUFFICES ASSUME NEW i \in 1 .. n
                 PROVE  s[i] = IF i <= k - 1 THEN 0 ELSE d[i - (k - 1)]
      OBVIOUS
    <3>1. CASE i <= k - 1
      <4>1. i \in 1 .. k - 1
        BY <1>1, <2>3, <3>1
      <4> QED
        BY <2>1, <3>1, <4>1
    <3>2. CASE ~ (i <= k - 1)
      <4> DEFINE j == i - (k - 1)
      <4>1. j \in 1 .. n - k + 1 /\ k + j - 1 = i
        BY <1>1, <2>3, <3>2
      <4> HIDE DEF j
      <4>2. d[j] = s[i]
        BY <2>5, <4>1
      <4> QED
        BY <3>2, <4>2 DEF j
    <3> QED
      BY <3>1, <3>2
  <2>8. ToBytes(d, n) = s
    BY <1>1, <2>6, <2>7
  <2> QED
    BY <2>2, <2>8 DEF n, d
<1> QED
  BY <1>2, <1>3

\* A flag byte is the byte of its flags.
LEMMA FlagsRestored == \A byte \in Byte : ByteOf(FlagSet(byte)) = byte
<1> SUFFICES ASSUME NEW x \in Byte PROVE ByteOf(FlagSet(x)) = x
  OBVIOUS
<1> DEFINE value(bit) == IF bit \in FlagSet(x) THEN bit ELSE 0
<1>1. \A bit \in Bits : value(bit) = IF (x \div bit) % 2 = 1 THEN bit ELSE 0
  BY DEF FlagSet
<1>2. ByteOf(FlagSet(x)) = value(1) + value(2) + value(4) + value(8)
                           + value(16) + value(32) + value(64) + value(128)
  BY DEF ByteOf
<1> HIDE DEF value
<1>3. /\ value(1) = IF (x \div 1) % 2 = 1 THEN 1 ELSE 0
      /\ value(2) = IF (x \div 2) % 2 = 1 THEN 2 ELSE 0
      /\ value(4) = IF (x \div 4) % 2 = 1 THEN 4 ELSE 0
      /\ value(8) = IF (x \div 8) % 2 = 1 THEN 8 ELSE 0
      /\ value(16) = IF (x \div 16) % 2 = 1 THEN 16 ELSE 0
      /\ value(32) = IF (x \div 32) % 2 = 1 THEN 32 ELSE 0
      /\ value(64) = IF (x \div 64) % 2 = 1 THEN 64 ELSE 0
      /\ value(128) = IF (x \div 128) % 2 = 1 THEN 128 ELSE 0
  BY <1>1 DEF Bits
<1> QED
  BY <1>2, <1>3 DEF Byte

\* The length of a credential id is written as it was read, in two bytes.
LEMMA LengthRestored ==
    ASSUME NEW s \in Seq(Byte), Len(s) = 2,
           NEW id, Len(id) = Size(Digits(s))
    PROVE  ToBytes(LengthDigits(id), 2) = s
<1>1. ToBytes(Digits(s), 2) = s /\ Len(Digits(s)) <= 2 /\ Digits(s) \in Seq(Byte)
  BY DigitsRestored, DigitsTyped
<1>2. Size(Digits(s)) = 256 * s[1] + s[2]
  BY <1>1, LenProperties DEF Size
<1>3. s[1] \in 0 .. 255 /\ s[2] \in 0 .. 255
  BY TwoBytes
<1>4. s = <<s[1], s[2]>>
  <2> DEFINE t == <<s[1], s[2]>>
  <2>1. t \in Seq(Byte) /\ Len(t) = 2 /\ t[1] = s[1] /\ t[2] = s[2]
    BY <1>3 DEF Byte
  <2> HIDE DEF t
  <2>2. \A i \in 1 .. 2 : s[i] = t[i]
    BY <2>1
  <2>3. s = t
    BY <2>1, <2>2, SeqEqual
  <2> QED
    BY <2>3 DEF t
<1>5. Len(id) \div 256 = s[1] /\ Len(id) % 256 = s[2]
  <2> DEFINE x == s[1]
             y == s[2]
             n == Len(id)
  <2>1. n \in Nat /\ n = 256 * x + y /\ x \in 0 .. 255 /\ y \in 0 .. 255
    BY <1>1, <1>2, <1>3, SizeTyped
  <2> HIDE DEF x, y, n
  <2>2. n \div 256 = x /\ n % 256 = y
    BY <2>1
  <2> QED
    BY <2>2 DEF x, y, n
<1>6. LengthDigits(id) = Digits(<<s[1], s[2]>>)
  BY <1>5 DEF LengthDigits
<1> QED
  BY <1>1, <1>4, <1>6

-----------------------------------------------------------------------------
\* n bytes at an offset and k bytes at the middle are both.
Meet(s, offset, n, middle, k, both) ==
    /\ s \in Seq(Byte) /\ offset \in Nat /\ n \in Nat /\ k \in Nat
    /\ middle = offset + n /\ both = n + k /\ middle + k <= Len(s)

\* Adjacent bytes are one piece.
LEMMA Adjacent ==
    ASSUME NEW s, NEW offset, NEW n, NEW middle, NEW k, NEW both,
           Meet(s, offset, n, middle, k, both)
    PROVE  Bytes(s, offset, n) \o Bytes(s, middle, k) = Bytes(s, offset, both)
<1>0. /\ s \in Seq(Byte) /\ offset \in Nat /\ n \in Nat /\ k \in Nat
      /\ middle = offset + n /\ both = n + k /\ middle + k <= Len(s)
  BY DEF Meet
<1>1. Len(s) \in Nat
  BY <1>0, LenProperties
<1>2. /\ offset + 1 \in 1 .. Len(s) + 1
      /\ offset + n \in (offset + 1) - 1 .. Len(s)
      /\ offset + n + k \in offset + n .. Len(s)
  BY <1>0, <1>1
<1>3. SubSeq(s, offset + 1, offset + n) \o SubSeq(s, (offset + n) + 1, offset + n + k)
        = SubSeq(s, offset + 1, offset + n + k)
  BY <1>0, <1>2, ConcatAdjacentSubSeq
<1>4. offset + both = offset + n + k
  BY <1>0
<1> QED
  BY <1>0, <1>3, <1>4 DEF Bytes

\* Attested credential data is its four parts one after another.
LEMMA AttestedRestored ==
    ASSUME NEW bytes \in Seq(Byte), NEW offset \in Nat, Attested(bytes, offset).ok
    PROVE  LET r == Attested(bytes, offset)
           IN  AttestedBytes(r.value) = Bytes(bytes, offset, r.offset - offset)
<1> DEFINE id_len == IdLen(bytes, offset)
           key_at == KeyAt(bytes, offset)
           key == DecodeAt(bytes, key_at)
           r == Attested(bytes, offset)
           n == key.offset - key_at
           item == _decode(From(bytes, key_at), 0)
<1>1. /\ id_len \in Nat /\ key_at \in Nat /\ offset + 18 <= Len(bytes) /\ key_at <= Len(bytes)
      /\ key.ok /\ r.offset = key.offset
      /\ r.value.aaguid = Bytes(bytes, offset, 16)
      /\ r.value.credential_id = Bytes(bytes, offset + 18, id_len)
      /\ r.value.credential_public_key = Bytes(bytes, key_at, n)
  BY AttestedParts DEF Decoded
<1>2. item.offset \in Nat /\ item.offset <= Len(bytes) - key_at
      /\ key.offset = key_at + item.offset
  BY <1>1, DecodeAtTyped DEF Decoded
<1>3. key_at = offset + 18 + id_len
  BY DEF KeyAt
<1>4. id_len = Size(Digits(Bytes(bytes, offset + 16, 2)))
  BY DEF IdLen
<1> HIDE DEF id_len, key_at, key, r, item
<1>5. Len(bytes) \in Nat
  BY LenProperties
<1>6. n \in Nat /\ offset + 18 + id_len + n <= Len(bytes) /\ key.offset - offset = 18 + id_len + n
  BY <1>1, <1>2, <1>3, <1>5
<1> HIDE DEF n
<1>7. Bytes(bytes, offset + 16, 2) \in Seq(Byte) /\ Len(Bytes(bytes, offset + 16, 2)) = 2
  <2> DEFINE o == offset + 16
             w == 2
  <2>1. o \in Nat /\ w \in Nat /\ o + w <= Len(bytes)
    BY <1>1, <1>5
  <2>2. Bytes(bytes, offset + 16, 2) = Bytes(bytes, o, w) /\ w = 2
    OBVIOUS
  <2> HIDE DEF o, w
  <2>3. Bytes(bytes, o, w) \in Seq(Byte) /\ Len(Bytes(bytes, o, w)) = w
    BY <2>1, BytesTyped
  <2> QED
    BY <2>2, <2>3
<1>8. Len(Bytes(bytes, offset + 18, id_len)) = id_len
  <2>1. offset + 18 \in Nat /\ offset + 18 + id_len <= Len(bytes)
    BY <1>1, <1>3
  <2> QED
    BY <1>1, <2>1, BytesTyped
<1>9. ToBytes(LengthDigits(Bytes(bytes, offset + 18, id_len)), 2)
        = Bytes(bytes, offset + 16, 2)
  BY <1>4, <1>7, <1>8, LengthRestored
<1>10. AttestedBytes(r.value)
         = Bytes(bytes, offset, 16) \o Bytes(bytes, offset + 16, 2)
           \o Bytes(bytes, offset + 18, id_len) \o Bytes(bytes, offset + 18 + id_len, n)
  BY <1>1, <1>3, <1>9 DEF AttestedBytes
<1>11. Bytes(bytes, offset, 16) \o Bytes(bytes, offset + 16, 2) = Bytes(bytes, offset, 18)
  <2>1. Meet(bytes, offset, 16, offset + 16, 2, 18)
    BY <1>1, <1>5 DEF Meet
  <2> QED
    BY <2>1, Adjacent
<1>12. Bytes(bytes, offset, 18) \o Bytes(bytes, offset + 18, id_len)
         = Bytes(bytes, offset, 18 + id_len)
  <2>1. Meet(bytes, offset, 18, offset + 18, id_len, 18 + id_len)
    BY <1>1, <1>3 DEF Meet
  <2> QED
    BY <2>1, Adjacent
<1>13. Bytes(bytes, offset, 18 + id_len) \o Bytes(bytes, offset + 18 + id_len, n)
         = Bytes(bytes, offset, 18 + id_len + n)
  <2>1. Meet(bytes, offset, 18 + id_len, offset + 18 + id_len, n, 18 + id_len + n)
    BY <1>1, <1>6 DEF Meet
  <2> QED
    BY <2>1, Adjacent
<1>14. r.offset - offset = 18 + id_len + n
  BY <1>1, <1>6
<1>15. AttestedBytes(r.value) = Bytes(bytes, offset, 18 + id_len + n)
  BY <1>10, <1>11, <1>12, <1>13
<1> QED
  BY <1>14, <1>15 DEF r

\* The bytes of the key, taken by themselves, are one whole item.
LEMMA KeyIsWhole ==
    ASSUME NEW bytes \in Seq(Byte), NEW offset \in Nat, Attested(bytes, offset).ok
    PROVE  loads(Attested(bytes, offset).value.credential_public_key).ok
<1> DEFINE key_at == KeyAt(bytes, offset)
           key == DecodeAt(bytes, key_at)
           s == From(bytes, key_at)
           item == _decode(s, 0)
           t == Bytes(bytes, key_at, key.offset - key_at)
<1>1. /\ IdLen(bytes, offset) \in Nat /\ key_at \in Nat /\ key_at <= Len(bytes) /\ key.ok
      /\ Attested(bytes, offset).value.credential_public_key = t
  BY AttestedParts DEF Decoded
<1>2. /\ item.ok /\ item.offset \in Nat /\ 0 < item.offset
      /\ item.offset <= Len(bytes) - key_at /\ key.offset = key_at + item.offset
  BY <1>1, DecodeAtTyped DEF Decoded
<1>3. /\ s \in Seq(Byte) /\ Len(s) = Len(bytes) - key_at
      /\ \A i \in 1 .. Len(bytes) - key_at : s[i] = bytes[key_at + i]
  BY <1>1, FromTyped
<1> DEFINE n == item.offset
<1> HIDE DEF key_at, s, key, item
<1>4. Len(bytes) \in Nat
  BY LenProperties
<1>5. n \in Nat /\ key_at + n <= Len(bytes) /\ t = Bytes(bytes, key_at, n)
  <2> HIDE DEF n
  <2>1. n \in Nat /\ n <= Len(bytes) - key_at /\ key.offset = key_at + n
    BY <1>2 DEF n
  <2>2. key.offset - key_at = n /\ key_at + n <= Len(bytes)
    BY <1>1, <1>4, <2>1
  <2> QED
    BY <2>1, <2>2
<1> HIDE DEF n, t
<1>6. t \in Seq(Byte) /\ Len(t) = n
  BY <1>1, <1>5, BytesTyped
<1>7. \A i \in 1 .. n : t[i] = bytes[key_at + i]
  <2>1. t = SubSeq(bytes, key_at + 1, key_at + n)
    BY <1>5 DEF Bytes
  <2>2. \A i \in key_at + 1 .. key_at + n : bytes[i] \in Byte
    BY <1>1, <1>4, <1>5, LenProperties
  <2>3. \A i \in 1 .. (key_at + n) - (key_at + 1) + 1 : t[i] = bytes[(key_at + 1) + i - 1]
    BY <1>1, <1>5, <2>1, <2>2, SubSeqProperties
  <2> QED
    BY <1>1, <1>5, <2>3
<1>8. Agree(s, t, n)
  <2>1. n <= Len(s) /\ n <= Len(t)
    BY <1>1, <1>3, <1>4, <1>5, <1>6
  <2>2. \A i \in 1 .. n : s[i] = t[i]
    <3>1. \A i \in 1 .. n : i \in 1 .. Len(bytes) - key_at
      BY <1>1, <1>4, <1>5
    <3> QED
      BY <1>3, <1>7, <3>1
  <2> QED
    BY <2>1, <2>2 DEF Agree
<1>9. _decode(s, 0).ok /\ _decode(s, 0).offset <= n /\ n = _decode(s, 0).offset
  BY <1>2, <1>5 DEF item, n
<1>10. _decode(t, 0) = _decode(s, 0)
  BY <1>3, <1>5, <1>6, <1>8, <1>9, DecodeAgrees
<1>11. loads(t).ok
  BY <1>6, <1>9, <1>10 DEF loads, AndThen, AllRead, Value
<1> QED
  BY <1>1, <1>11

\* The bytes of the extensions, taken by themselves, are one whole item.
LEMMA ExtensionsAreWhole ==
    ASSUME NEW bytes \in Seq(Byte), NEW offset \in Nat, offset <= Len(bytes),
           Extensions(bytes, offset).ok, Extensions(bytes, offset).offset = Len(bytes)
    PROVE  loads(From(bytes, offset)) = Value(Extensions(bytes, offset).value)
<1> DEFINE s == From(bytes, offset)
           item == _decode(s, 0)
           ext == DecodeAt(bytes, offset)
<1>1. ext.ok /\ Extensions(bytes, offset) = ext
  BY DEF Extensions, AndThen, BadAuthData, Error
<1>2. item.ok /\ item.offset \in Nat /\ ext.offset = offset + item.offset
      /\ ext.value = item.value
  BY <1>1, DecodeAtTyped DEF Decoded
<1>3. Len(s) = Len(bytes) - offset /\ Len(bytes) \in Nat
  BY FromTyped, LenProperties
<1> HIDE DEF s, ext
<1>4. item.offset = Len(s)
  <2> HIDE DEF item
  <2> QED
    BY <1>1, <1>2, <1>3
<1>5. loads(s) = Value(item.value)
  BY <1>2, <1>4 DEF loads, AndThen, AllRead
<1> QED
  BY <1>1, <1>2, <1>5 DEF s

\* Accepted authenticatorData is its fields one after another.
LEMMA FieldsRestored ==
    ASSUME NEW bytes \in Seq(Byte), parse_authenticator_data(bytes).ok
    PROVE  FieldBytes(parse_authenticator_data(bytes).value)
             = Bytes(bytes, 0, AttPart(bytes).offset)
<1> DEFINE v == parse_authenticator_data(bytes).value
           att == AttPart(bytes)
<1>1. /\ 37 <= Len(bytes) /\ att.ok /\ att.offset \in 37 .. Len(bytes)
      /\ v.rp_id_hash = Bytes(bytes, 0, 32) /\ v.flags = FlagSet(bytes[33])
      /\ v.sign_count = Digits(Bytes(bytes, 33, 4))
      /\ v.attested_credential_data = att.value
  BY ParsedParts DEF Value
<1>2. Len(bytes) \in Nat
  BY LenProperties
<1>3. ByteOf(v.flags) = bytes[33] /\ <<bytes[33]>> = Bytes(bytes, 32, 1)
  <2>1. 33 \in 1 .. Len(bytes)
    BY <1>1, <1>2
  <2>2. bytes[33] \in Byte
    BY <2>1, ElementOfSeq
  <2>3. Bytes(bytes, 32, 1) \in Seq(Byte) /\ Len(Bytes(bytes, 32, 1)) = 1
    <3>1. 32 + 1 <= Len(bytes)
      BY <1>1, <1>2
    <3> QED
      BY <3>1, BytesTyped
  <2>4. Bytes(bytes, 32, 1)[1] = bytes[33]
    BY <1>1, <1>2 DEF Bytes
  <2>5. <<bytes[33]>> \in Seq(Byte) /\ Len(<<bytes[33]>>) = 1 /\ <<bytes[33]>>[1] = bytes[33]
    BY <2>2
  <2>6. <<bytes[33]>> = Bytes(bytes, 32, 1)
    BY <2>3, <2>4, <2>5, SeqEqual
  <2> QED
    BY <1>1, <2>2, <2>6, FlagsRestored
<1>4. ToBytes(v.sign_count, 4) = Bytes(bytes, 33, 4)
  <2>1. Bytes(bytes, 33, 4) \in Seq(Byte) /\ Len(Bytes(bytes, 33, 4)) = 4
    <3>1. 33 + 4 <= Len(bytes)
      BY <1>1, <1>2
    <3> QED
      BY <3>1, BytesTyped
  <2> QED
    BY <1>1, <2>1, DigitsRestored
<1>5. v.rp_id_hash \o <<ByteOf(v.flags)>> \o ToBytes(v.sign_count, 4) = Bytes(bytes, 0, 37)
  <2>1. Meet(bytes, 0, 32, 32, 1, 33) /\ Meet(bytes, 0, 33, 33, 4, 37)
    BY <1>1, <1>2 DEF Meet
  <2>2. Bytes(bytes, 0, 32) \o Bytes(bytes, 32, 1) = Bytes(bytes, 0, 33)
    BY <2>1, Adjacent
  <2>3. Bytes(bytes, 0, 33) \o Bytes(bytes, 33, 4) = Bytes(bytes, 0, 37)
    BY <2>1, Adjacent
  <2> QED
    BY <1>1, <1>3, <1>4, <2>2, <2>3
<1> DEFINE base == v.rp_id_hash \o <<ByteOf(v.flags)>> \o ToBytes(v.sign_count, 4)
<1>6. FieldBytes(v) = base \o (IF FLAG_AT \in FlagSet(bytes[33]) THEN AttestedBytes(att.value)
                               ELSE << >>)
  BY <1>1 DEF FieldBytes
<1>7. CASE FLAG_AT \in FlagSet(bytes[33])
  <2>1. att = Attested(bytes, 37)
    BY <1>7 DEF AttPart, Present
  <2>2. AttestedBytes(att.value) = Bytes(bytes, 37, att.offset - 37)
    BY <1>1, <2>1, AttestedRestored
  <2> DEFINE n == att.offset
  <2> DEFINE k == n - 37
  <2>3. Meet(bytes, 0, 37, 37, k, n)
    <3> HIDE DEF att
    <3> QED
      BY <1>1, <1>2 DEF Meet
  <2>4. Bytes(bytes, 0, 37) \o Bytes(bytes, 37, k) = Bytes(bytes, 0, n)
    <3> HIDE DEF n, k
    <3> QED
      BY <2>3, Adjacent
  <2>5. FieldBytes(v) = Bytes(bytes, 0, att.offset)
    <3> HIDE DEF base, v, att
    <3> QED
      BY <1>5, <1>6, <1>7, <2>2, <2>4 DEF base
  <2> QED
    BY <2>5
<1>8. CASE FLAG_AT \notin FlagSet(bytes[33])
  <2>1. att.offset = 37
    BY <1>8 DEF AttPart, Present, Decoded
  <2>2. Bytes(bytes, 0, 37) \in Seq(Byte)
    BY <1>1, <1>2, BytesTyped
  <2>3. Bytes(bytes, 0, 37) \o << >> = Bytes(bytes, 0, 37)
    BY <2>2, ConcatEmptySeq
  <2>4. FieldBytes(v) = Bytes(bytes, 0, att.offset)
    <3> HIDE DEF base, v, att
    <3> QED
      BY <1>5, <1>6, <1>8, <2>1, <2>3 DEF base
  <2> QED
    BY <2>4
<1> QED
  BY <1>7, <1>8

-----------------------------------------------------------------------------
(* The codec, from dumps to loads: numbers and heads.                       *)
\* A number has no leading zeros; that of a head has at most eight bytes.
Number == {a \in Seq(Byte) : a # << >> => a[1] # 0}
Arg == {a \in Number : Len(a) <= 8}

\* Digits have no leading zero.
LEMMA DigitsLead ==
    ASSUME NEW s \in Seq(Byte), Digits(s) # << >>
    PROVE  Digits(s)[1] # 0
<1> DEFINE T == {i \in DOMAIN s : s[i] # 0}
           k == Min(T)
           n == Len(s)
<1>1. T # {} /\ Digits(s) = SubSeq(s, k, n)
  BY DEF Digits
<1>2. k \in DOMAIN s /\ s[k] # 0
  BY <1>1, FirstNonzero
<1>3. k \in 1 .. n /\ n \in Nat
  <2> HIDE DEF T, k
  <2> QED
    BY <1>2, LenProperties
<1> HIDE DEF T, k
<1>4. \A i \in k .. n : s[i] \in Byte
  BY <1>3, LenProperties DEF n
<1> HIDE DEF n
<1>5. \A i \in 1 .. n - k + 1 : SubSeq(s, k, n)[i] = s[k + i - 1]
  BY <1>3, <1>4, SubSeqProperties
<1>6. 1 \in 1 .. n - k + 1 /\ k + 1 - 1 = k
  BY <1>3
<1>7. SubSeq(s, k, n)[1] = s[k]
  BY <1>5, <1>6
<1> QED
  BY <1>1, <1>2, <1>7 DEF n

\* The digits of bytes are a number, those of at most eight bytes one for a head.
LEMMA DigitsAreArg ==
    ASSUME NEW s \in Seq(Byte)
    PROVE  Digits(s) \in Number /\ (Len(s) <= 8 => Digits(s) \in Arg)
<1>1. Digits(s) \in Seq(Byte) /\ Len(Digits(s)) <= Len(s) /\ Len(s) \in Nat
      /\ Len(Digits(s)) \in Nat
  BY DigitsTyped, LenProperties
<1> QED
  BY <1>1, DigitsLead DEF Arg, Number

\* A number written in any width that holds it is read back.
LEMMA NumberRestored ==
    ASSUME NEW a \in Number, NEW width \in Nat, Len(a) <= width
    PROVE  Digits(ToBytes(a, width)) = a
<1> DEFINE t == ToBytes(a, width)
           n == Len(a)
           z == width - n
           T == {i \in DOMAIN t : t[i] # 0}
<1>1. a \in Seq(Byte) /\ n \in Nat /\ z \in Nat /\ (a # << >> => a[1] # 0) /\ z + n = width
  BY LenProperties DEF Number
<1>2. t = [i \in 1 .. width |-> IF i <= z THEN 0 ELSE a[i - z]]
  BY DEF ToBytes
<1>3. t \in Seq(Byte) /\ Len(t) = width
  BY <1>1, ToBytesTyped
<1> HIDE DEF t
<1>4. DOMAIN t = 1 .. width
  BY <1>2
<1> HIDE DEF z
<1>5. CASE n = 0
  <2>1. a = << >>
    BY <1>1, <1>5, EmptySeq
  <2>2. \A i \in 1 .. width : i <= z
    BY <1>1, <1>5
  <2>3. T = {}
    BY <1>2, <1>4, <2>2
  <2>4. Digits(t) = << >>
    BY <2>3 DEF Digits
  <2> QED
    BY <2>1, <2>4 DEF t
<1>6. CASE n # 0
  <2> DEFINE k == z + 1
  <2>1. a[1] # 0
    BY <1>1, <1>6, EmptySeq
  <2>2. k \in 1 .. width /\ ~ (k <= z) /\ k - z = 1
    BY <1>1, <1>6
  <2> HIDE DEF k
  <2>3. k \in T
    BY <1>2, <1>4, <2>1, <2>2
  <2>4. \A i \in T : k <= i
    <3> SUFFICES ASSUME NEW i \in T PROVE k <= i
      OBVIOUS
    <3>1. i \in 1 .. width /\ t[i] # 0
      BY <1>4
    <3>2. ~ (i <= z)
      BY <1>2, <3>1
    <3> QED
      BY <1>1, <3>1, <3>2 DEF k
  <2>5. Min(T) = k
    <3> DEFINE m == Min(T)
    <3>1. T \subseteq Nat
      BY <1>4
    <3> HIDE DEF T
    <3>2. m \in T /\ \A i \in T : m <= i
      BY <2>3, <2>4 DEF Min
    <3> HIDE DEF m
    <3>3. m \in Nat /\ k \in Nat /\ m <= k /\ k <= m
      BY <2>3, <2>4, <3>1, <3>2
    <3> QED
      BY <3>3 DEF m
  <2>6. Digits(t) = SubSeq(t, k, width)
    BY <1>3, <2>3, <2>5 DEF Digits
  <2>7. \A i \in k .. width : t[i] \in Byte
    BY <1>3, <2>2, LenProperties
  <2>8. /\ SubSeq(t, k, width) \in Seq(Byte)
        /\ Len(SubSeq(t, k, width)) = n
        /\ \A i \in 1 .. n : SubSeq(t, k, width)[i] = t[k + i - 1]
    <3>1. width - k + 1 = n /\ k <= width
      BY <1>1, <2>2 DEF k
    <3>2. k \in Int /\ width \in Int
      BY <2>2
    <3> QED
      BY <2>7, <3>1, <3>2, SubSeqProperties
  <2>9. \A i \in 1 .. n : t[k + i - 1] = a[i]
    <3> SUFFICES ASSUME NEW i \in 1 .. n PROVE t[k + i - 1] = a[i]
      OBVIOUS
    <3> DEFINE j == k + i - 1
    <3>1. j \in 1 .. width /\ ~ (j <= z) /\ j - z = i
      BY <1>1 DEF k
    <3> HIDE DEF j
    <3>2. t[j] = a[i]
      BY <1>2, <3>1
    <3> QED
      BY <3>2 DEF j
  <2>10. SubSeq(t, k, width) = a
    <3> DEFINE u == SubSeq(t, k, width)
    <3>1. u \in Seq(Byte) /\ Len(u) = Len(a) /\ \A i \in 1 .. Len(u) : u[i] = a[i]
      BY <2>8, <2>9
    <3> HIDE DEF u
    <3>2. u = a
      BY <1>1, <3>1, SeqEqual
    <3> QED
      BY <3>2 DEF u
  <2> QED
    BY <2>6, <2>10 DEF t
<1> QED
  BY <1>5, <1>6

\* A length below TooLong is a number of at most two bytes, and its size is it.
LEMMA LengthWritten ==
    ASSUME NEW s, Len(s) \in Nat, Len(s) < TooLong
    PROVE  /\ LengthDigits(s) \in Arg /\ Len(LengthDigits(s)) <= 2
           /\ Size(LengthDigits(s)) = Len(s)
<1> DEFINE x == Len(s) \div 256
           y == Len(s) % 256
           b == <<x, y>>
           d == Digits(b)
<1>1. x \in 0 .. 255 /\ y \in 0 .. 255 /\ 256 * x + y = Len(s)
  <2> DEFINE n == Len(s)
  <2>1. n \in Nat /\ n < 65536
    BY DEF TooLong
  <2> HIDE DEF n
  <2>2. n \div 256 \in 0 .. 255 /\ n % 256 \in 0 .. 255 /\ 256 * (n \div 256) + (n % 256) = n
    BY <2>1
  <2> QED
    BY <2>2 DEF n
<1> HIDE DEF x, y
<1>2. b \in Seq(Byte) /\ Len(b) = 2 /\ b[1] = x /\ b[2] = y
  BY <1>1 DEF Byte
<1> HIDE DEF b
<1>3. d \in Arg /\ d \in Seq(Byte) /\ Len(d) <= 2 /\ ToBytes(d, 2) = b
  <2>1. Len(b) <= 8
    BY <1>2
  <2>2. d \in Arg
    BY <1>2, <2>1, DigitsAreArg
  <2>3. d \in Seq(Byte) /\ Len(d) <= 2
    BY <1>2, DigitsTyped
  <2>4. ToBytes(d, 2) = b
    BY <1>2, DigitsRestored
  <2> QED
    BY <2>2, <2>3, <2>4
<1>4. LengthDigits(s) = d
  BY DEF LengthDigits, d, b, x, y
<1> HIDE DEF d
<1>5. Len(d) \in Nat
  BY <1>3, LenProperties
<1>6. Size(d) = 256 * b[1] + b[2]
  BY <1>3, <1>5 DEF Size
<1> QED
  BY <1>1, <1>2, <1>3, <1>4, <1>6

\* A length that was read is written in the digits it was read from.
LEMMA LengthKept ==
    ASSUME NEW arg \in Arg, NEW s, Len(s) = Size(arg), Size(arg) < TooLong
    PROVE  LengthDigits(s) = arg
<1>1. arg \in Seq(Byte) /\ Len(arg) \in Nat /\ Len(arg) <= 2
  BY LenProperties DEF Arg, Number, Size
<1>0. arg \in Number
  BY DEF Arg
<1> DEFINE b == ToBytes(arg, 2)
<1>2. b \in Seq(Byte) /\ Len(b) = 2 /\ Digits(b) = arg
  BY <1>0, <1>1, ToBytesTyped, NumberRestored
<1>3. Size(arg) = 256 * b[1] + b[2]
  BY <1>1 DEF Size
<1> HIDE DEF b
<1>4. b[1] \in 0 .. 255 /\ b[2] \in 0 .. 255
  BY <1>2, TwoBytes
<1>5. Len(s) \div 256 = b[1] /\ Len(s) % 256 = b[2]
  <2> DEFINE x == b[1]
             y == b[2]
             n == Len(s)
  <2>1. x \in 0 .. 255 /\ y \in 0 .. 255 /\ n = 256 * x + y
    BY <1>3, <1>4
  <2> HIDE DEF x, y, n
  <2>2. n \div 256 = x /\ n % 256 = y
    BY <2>1
  <2> QED
    BY <2>2 DEF x, y, n
<1> DEFINE t == <<b[1], b[2]>>
<1>6. t \in Seq(Byte) /\ Len(t) = 2 /\ t[1] = b[1] /\ t[2] = b[2]
  BY <1>4 DEF Byte
<1>7. LengthDigits(s) = Digits(t)
  BY <1>5 DEF LengthDigits
<1> HIDE DEF t
<1>8. \A i \in 1 .. 2 : t[i] = b[i]
  BY <1>6
<1>9. t = b
  BY <1>2, <1>6, <1>8, SeqEqual
<1> QED
  BY <1>2, <1>7, <1>9

\* bytes has s at an offset.
Holds(bytes, offset, s) ==
    /\ offset + Len(s) <= Len(bytes)
    /\ \A i \in 1 .. Len(s) : bytes[offset + i] = s[i]

\* What bytes hold is what is read there.
LEMMA HeldBytes ==
    ASSUME NEW bytes \in Seq(Byte), NEW offset \in Nat, NEW s \in Seq(Byte),
           Holds(bytes, offset, s)
    PROVE  Bytes(bytes, offset, Len(s)) = s
<1> DEFINE n == Len(s)
           t == Bytes(bytes, offset, n)
<1>1. n \in Nat /\ offset + n <= Len(bytes) /\ Len(bytes) \in Nat
      /\ \A i \in 1 .. n : bytes[offset + i] = s[i]
  BY LenProperties DEF Holds
<1>2. t = SubSeq(bytes, offset + 1, offset + n)
  BY DEF Bytes
<1> HIDE DEF n
<1>3. \A i \in offset + 1 .. offset + n : bytes[i] \in Byte
  BY <1>1, LenProperties
<1> HIDE DEF t
<1> DEFINE first == offset + 1
           last == offset + n
<1>4. first \in Int /\ last \in Int /\ last - first + 1 = n /\ (first <= last <=> n # 0)
  BY <1>1
<1>5. t = SubSeq(bytes, first, last) /\ \A i \in first .. last : bytes[i] \in Byte
  BY <1>2, <1>3
<1>6. \A i \in 1 .. n : first + i - 1 = offset + i
  BY <1>1
<1> HIDE DEF first, last
<1>7. t \in Seq(Byte) /\ Len(t) = n /\ \A i \in 1 .. n : t[i] = bytes[first + i - 1]
  BY <1>1, <1>4, <1>5, SubSeqProperties
<1>8. \A i \in 1 .. n : t[i] = s[i]
  BY <1>1, <1>6, <1>7
<1>9. t = s
  BY <1>7, <1>8, SeqEqual DEF n
<1> QED
  BY <1>9 DEF t, n

\* What holds two sequences, one after the other, holds each.
LEMMA HeldParts ==
    ASSUME NEW bytes \in Seq(Byte), NEW offset \in Nat,
           NEW s \in Seq(Byte), NEW t \in Seq(Byte), Holds(bytes, offset, s \o t)
    PROVE  Holds(bytes, offset, s) /\ Holds(bytes, offset + Len(s), t)
<1> DEFINE u == s \o t
           m == Len(s)
           n == Len(t)
<1>1. m \in Nat /\ n \in Nat /\ Len(bytes) \in Nat
  BY LenProperties
<1>2. Len(u) = m + n
  BY ConcatProperties
<1>3. \A i \in 1 .. m + n : u[i] = IF i <= m THEN s[i] ELSE t[i - m]
  BY ConcatProperties
<1>4. offset + (m + n) <= Len(bytes) /\ \A i \in 1 .. m + n : bytes[offset + i] = u[i]
  BY <1>2 DEF Holds
<1> HIDE DEF u
<1>5. \A i \in 1 .. m : i \in 1 .. m + n /\ i <= m
  BY <1>1
<1>6. \A i \in 1 .. m : bytes[offset + i] = s[i]
  BY <1>3, <1>4, <1>5
<1>7. \A i \in 1 .. n : bytes[(offset + m) + i] = t[i]
  <2> SUFFICES ASSUME NEW i \in 1 .. n PROVE bytes[(offset + m) + i] = t[i]
    OBVIOUS
  <2> DEFINE j == m + i
  <2>1. j \in 1 .. m + n /\ ~ (j <= m) /\ j - m = i /\ offset + j = (offset + m) + i
    BY <1>1
  <2> HIDE DEF j
  <2>2. bytes[offset + j] = t[i]
    BY <1>3, <1>4, <2>1
  <2> QED
    BY <2>1, <2>2
<1>8. offset + m <= Len(bytes) /\ (offset + m) + n <= Len(bytes)
  BY <1>1, <1>4
<1> QED
  BY <1>6, <1>7, <1>8 DEF Holds

\* The smallest width that holds a number.
LEMMA WidthFound ==
    ASSUME NEW arg \in Arg
    PROVE  /\ WidthIndex(arg) \in 1 .. 4
           /\ Len(arg) <= Widths[WidthIndex(arg)]
           /\ \A i \in 1 .. 4 : Len(arg) <= Widths[i] => WidthIndex(arg) <= i
<1> DEFINE T == {i \in DOMAIN Widths : Len(arg) <= Widths[i]}
<1>1. Len(arg) \in Nat /\ Len(arg) <= 8
  BY LenProperties DEF Arg, Number
<1>2. DOMAIN Widths = 1 .. 4 /\ Widths[4] = 8
  BY DEF Widths
<1>3. T \subseteq Nat /\ T # {}
  BY <1>1, <1>2
<1> HIDE DEF T
<1>4. \E x \in T : \A y \in T : x <= y
  BY <1>3, ElementTurns!LeastNumber
<1>5. Min(T) \in T /\ \A y \in T : Min(T) <= y
  BY <1>4 DEF Min
<1>6. WidthIndex(arg) = Min(T)
  BY DEF WidthIndex, T
<1> QED
  BY <1>2, <1>5, <1>6 DEF T

\* A head is one byte or more.
LEMMA HeadWritten ==
    ASSUME NEW major \in 0 .. 6, NEW arg \in Arg
    PROVE  /\ _encode_head(major, arg) \in Seq(Byte)
           /\ Len(_encode_head(major, arg)) \in Nat \ {0}
<1>1. CASE Size(arg) < 24
  <2> DEFINE b == 32 * major + Size(arg)
  <2>1. Size(arg) \in Nat
    BY SizeTyped DEF Arg, Number
  <2>2. b \in Byte
    BY <1>1, <2>1 DEF Byte
  <2>3. _encode_head(major, arg) = <<b>>
    BY <1>1 DEF _encode_head
  <2> HIDE DEF b
  <2> QED
    BY <2>2, <2>3
<1>2. CASE ~ (Size(arg) < 24)
  <2> DEFINE i == WidthIndex(arg)
             b == 32 * major + 23 + i
             s == <<b>>
             t == ToBytes(arg, Widths[i])
  <2>1. i \in 1 .. 4 /\ Len(arg) <= Widths[i]
    BY WidthFound
  <2> HIDE DEF i
  <2>2. Widths[i] \in Nat
    BY <2>1 DEF Widths
  <2>3. t \in Seq(Byte)
    BY <2>1, <2>2, ToBytesTyped DEF Arg, Number
  <2>4. b \in Byte
    BY <2>1 DEF Byte
  <2>5. s \in Seq(Byte) /\ Len(s) = 1
    BY <2>4
  <2>6. _encode_head(major, arg) = s \o t
    BY <1>2 DEF _encode_head, i
  <2> HIDE DEF s, t
  <2>7. s \o t \in Seq(Byte) /\ Len(s \o t) = Len(s) + Len(t)
    BY <2>3, <2>5, ConcatProperties
  <2>8. Len(t) \in Nat
    BY <2>3, LenProperties
  <2> QED
    BY <2>5, <2>6, <2>7, <2>8
<1> QED
  BY <1>1, <1>2

\* A number below 24 is one digit or none, the same as in one byte.
LEMMA SmallNumber ==
    ASSUME NEW arg \in Arg, Size(arg) < 24
    PROVE  Digits(<<Size(arg)>>) = arg
<1>1. arg \in Seq(Byte) /\ Len(arg) \in Nat /\ Len(arg) <= 2
  BY LenProperties DEF Arg, Number, Size, TooLong
<1> DEFINE b == ToBytes(arg, 2)
           z == 2 - Len(arg)
<1>2. b \in Seq(Byte) /\ Len(b) = 2
  BY <1>1, ToBytesTyped
<1>3. Size(arg) = 256 * b[1] + b[2]
  BY <1>1 DEF Size
<1>4. b[1] = (IF 1 <= z THEN 0 ELSE arg[1 - z]) /\ b[2] = (IF 2 <= z THEN 0 ELSE arg[2 - z])
  BY DEF ToBytes
<1> HIDE DEF b
<1>5. b[1] = 0 /\ Size(arg) = b[2]
  <2> DEFINE x == b[1]
             y == b[2]
  <2>1. x \in 0 .. 255 /\ y \in 0 .. 255 /\ Size(arg) = 256 * x + y /\ 256 * x + y < 24
    BY <1>2, <1>3, TwoBytes
  <2> HIDE DEF x, y
  <2>2. x = 0 /\ Size(arg) = y
    BY <2>1
  <2> QED
    BY <2>2 DEF x, y
<1>6. Len(arg) <= 1
  <2>1. CASE Len(arg) = 2
    <3>1. b[1] = arg[1]
      BY <1>4, <2>1
    <3>2. arg[1] # 0
      BY <2>1, EmptySeq DEF Arg, Number
    <3> QED
      BY <1>5, <3>1, <3>2
  <2> DEFINE n == Len(arg)
  <2>2. n \in Nat /\ n <= 2 /\ (n = 2 => n <= 1)
    BY <1>1, <2>1
  <2> HIDE DEF n
  <2>3. n <= 1
    BY <2>2
  <2> QED
    BY <2>3 DEF n
<1> DEFINE t == ToBytes(arg, 1)
<1>7. t \in Seq(Byte) /\ Len(t) = 1 /\ Digits(t) = arg
  <2>1. arg \in Number
    BY DEF Arg
  <2> QED
    BY <1>1, <1>6, <2>1, ToBytesTyped, NumberRestored
<1>8. t[1] = b[2]
  <2>1. t[1] = IF 1 <= 1 - Len(arg) THEN 0 ELSE arg[1 - (1 - Len(arg))]
    BY DEF ToBytes
  <2>2. CASE Len(arg) = 0
    BY <1>4, <2>1, <2>2
  <2>3. CASE Len(arg) = 1
    BY <1>4, <2>1, <2>3
  <2>4. Len(arg) = 0 \/ Len(arg) = 1
    <3> DEFINE n == Len(arg)
    <3>1. n \in Nat /\ n <= 1
      BY <1>1, <1>6
    <3> HIDE DEF n
    <3>2. n = 0 \/ n = 1
      BY <3>1
    <3> QED
      BY <3>2 DEF n
  <2> QED
    BY <2>2, <2>3, <2>4
<1> HIDE DEF t
<1> DEFINE u == <<Size(arg)>>
<1>9. t[1] \in Byte
  BY <1>7, ElementOfSeq
<1>10. u \in Seq(Byte) /\ Len(u) = 1 /\ u[1] = t[1]
  BY <1>5, <1>8, <1>9
<1> HIDE DEF u
<1>11. \A i \in 1 .. 1 : u[i] = t[i]
  BY <1>10
<1>12. u = t
  BY <1>7, <1>10, <1>11, SeqEqual
<1> QED
  BY <1>7, <1>12 DEF u

\* A head is read as it was written.
LEMMA HeadRestored ==
    ASSUME NEW bytes \in Seq(Byte), NEW offset \in Nat, NEW major \in 0 .. 6,
           NEW arg \in Arg, Holds(bytes, offset, _encode_head(major, arg))
    PROVE  LET h == _encode_head(major, arg)
               first == bytes[offset + 1]
           IN  /\ offset + 1 <= Len(bytes)
               /\ first \div 32 = major /\ first % 32 \in 0 .. 31
               /\ _read_length(bytes, offset + 1, first % 32) = Decoded(arg, offset + Len(h))
<1>1. CASE Size(arg) < 24
  <2> DEFINE size == Size(arg)
             b == 32 * major + size
  <2>1. size \in Nat /\ size < 24
    BY <1>1, SizeTyped DEF Arg, Number
  <2>2. _encode_head(major, arg) = <<b>>
    BY <1>1 DEF _encode_head
  <2>3. Digits(<<size>>) = arg
    BY <1>1, SmallNumber
  <2> HIDE DEF size
  <2>4. b \div 32 = major /\ b % 32 = size
    BY <2>1
  <2> HIDE DEF b
  <2>5. offset + 1 <= Len(bytes) /\ bytes[offset + 1] = b
    BY <2>2 DEF Holds
  <2>6. _read_length(bytes, offset + 1, size) = Decoded(arg, offset + 1)
    BY <2>1, <2>3 DEF _read_length
  <2>7. Len(<<b>>) = 1 /\ size \in 0 .. 31
    BY <2>1
  <2> QED
    BY <2>2, <2>4, <2>5, <2>6, <2>7
<1>2. CASE ~ (Size(arg) < 24)
  <2> DEFINE i == WidthIndex(arg)
             b == 32 * major + 23 + i
             info == 23 + i
             width == Widths[i]
             s == <<b>>
             t == ToBytes(arg, width)
  <2>1. i \in 1 .. 4 /\ Len(arg) <= width
    BY WidthFound
  <2> HIDE DEF i
  <2>2. width \in Nat
    BY <2>1 DEF Widths
  <2> HIDE DEF width
  <2>3. t \in Seq(Byte) /\ Len(t) = width /\ Digits(t) = arg
    BY <2>1, <2>2, ToBytesTyped, NumberRestored DEF Arg, Number
  <2>4. b \in Byte /\ b \div 32 = major /\ b % 32 = info /\ info \in 24 .. 27 /\ info - 23 = i
    BY <2>1 DEF Byte
  <2> HIDE DEF b
  <2>5. s \in Seq(Byte) /\ Len(s) = 1 /\ s[1] = b
    BY <2>4
  <2>6. _encode_head(major, arg) = s \o t
    BY <1>2 DEF _encode_head, i, b, width
  <2> HIDE DEF s, t
  <2>7. Len(s \o t) = 1 + width
    <3>1. Len(s \o t) = Len(s) + Len(t)
      BY <2>3, <2>5, ConcatProperties
    <3> QED
      BY <2>3, <2>5, <3>1
  <2>8. Holds(bytes, offset, s) /\ Holds(bytes, offset + 1, t)
    BY <2>3, <2>5, <2>6, HeldParts
  <2>9. offset + 1 <= Len(bytes) /\ bytes[offset + 1] = b
    BY <2>5, <2>8 DEF Holds
  <2> DEFINE at == offset + 1
  <2>10. at \in Nat /\ Holds(bytes, at, t)
    BY <2>8
  <2> HIDE DEF at
  <2>11. Bytes(bytes, at, width) = t /\ _need(bytes, at, width)
    BY <2>3, <2>10, HeldBytes DEF _need, Holds
  <2>12. _read_length(bytes, at, info) = Decoded(arg, at + width)
    <3>1. ~ (info < 24) /\ info \in 24 .. 27 /\ Widths[info - 23] = width
      BY <2>4 DEF width
    <3> HIDE DEF info
    <3> QED
      BY <2>3, <2>11, <3>1 DEF _read_length
  <2>13. at + width = offset + (1 + width)
    BY <2>2 DEF at
  <2>14. info \in 0 .. 31
    BY <2>4
  <2> HIDE DEF info
  <2> QED
    BY <2>4, <2>6, <2>7, <2>9, <2>12, <2>13, <2>14 DEF at
<1> QED
  BY <1>1, <1>2

-----------------------------------------------------------------------------
(* Strings, and sequences joined one after another.                         *)
\* What follows a head that was written is read with it.
LEMMA ItemRestored ==
    ASSUME NEW bytes \in Seq(Byte), NEW offset \in Nat, NEW major \in 0 .. 6,
           NEW arg \in Arg, Holds(bytes, offset, _encode_head(major, arg)), NEW item
    PROVE  ItemAt(bytes, item, offset)
             = Rest(bytes, item, major, Decoded(arg, offset + Len(_encode_head(major, arg))))
<1> DEFINE h == _encode_head(major, arg)
           first == bytes[offset + 1]
           at == offset + 1
           end == offset + Len(h)
<1>1. at <= Len(bytes) /\ first \div 32 = major /\ _read_length(bytes, at, first % 32) = Decoded(arg, end)
  BY HeadRestored
<1>2. first = bytes[at]
  OBVIOUS
<1> DEFINE head == _read_length(bytes, at, first % 32)
<1>3. ItemAt(bytes, item, offset)
        = IF head.ok THEN Rest(bytes, item, first \div 32, head) ELSE head
  BY <1>1 DEF ItemAt, _need, AndThen
<1> HIDE DEF first, end
<1>4. head = Decoded(arg, end) /\ head.ok
  BY <1>1 DEF Decoded
<1> HIDE DEF head
<1>5. ItemAt(bytes, item, offset) = Rest(bytes, item, major, Decoded(arg, end))
  BY <1>1, <1>3, <1>4
<1> QED
  BY <1>5 DEF end

\* A string is read as it was written.
LEMMA StringRestored ==
    ASSUME NEW bytes \in Seq(Byte), NEW at \in Nat, NEW s \in Seq(Byte),
           Holds(bytes, at, s), NEW isText \in BOOLEAN, isText => IsUtf8(s)
    PROVE  ReadString(bytes, at, Len(s), isText)
             = Decoded(IF isText THEN Text(s) ELSE ByteString(s), at + Len(s))
<1>1. Bytes(bytes, at, Len(s)) = s
  BY HeldBytes
<1>2. _need(bytes, at, Len(s))
  BY DEF _need, Holds
<1> QED
  BY <1>1, <1>2 DEF ReadString

\* Sequences joined one by one, as FlattenSeq joins them.
NothingJoined(seqs) == [turn |-> 0, bytes |-> << >>]
JoinNext(seqs, joined) ==
    [turn |-> joined.turn + 1, bytes |-> joined.bytes \o seqs[joined.turn + 1]]
Joins == INSTANCE IterationProofs WITH Base <- NothingJoined, Step <- JoinNext
Joined(seqs, n) == Joins!Iterate(seqs)[n].bytes

\* Each turn joins the next sequence.
LEMMA JoinedTurn ==
    ASSUME NEW seqs
    PROVE  /\ Joined(seqs, 0) = << >>
           /\ \A n \in Nat : Joined(seqs, n + 1) = Joined(seqs, n) \o seqs[n + 1]
<1> DEFINE j == Joins!Iterate(seqs)
           T == {n \in Nat : j[n].turn = n}
<1>1. j[0] = NothingJoined(seqs) /\ \A n \in Nat : j[n + 1] = JoinNext(seqs, j[n])
  BY Joins!IterateDef
<1> HIDE DEF j
<1>2. 0 \in T
  BY <1>1 DEF NothingJoined
<1>7. /\ \A n \in Nat : j[n + 1].turn = j[n].turn + 1
      /\ \A n \in Nat : j[n + 1].bytes = j[n].bytes \o seqs[j[n].turn + 1]
  <2> SUFFICES ASSUME NEW n \in Nat
               PROVE  /\ j[n + 1].turn = j[n].turn + 1
                      /\ j[n + 1].bytes = j[n].bytes \o seqs[j[n].turn + 1]
    OBVIOUS
  <2> DEFINE x == j[n]
             y == j[n + 1]
  <2>1. y = JoinNext(seqs, x)
    BY <1>1
  <2> HIDE DEF x, y
  <2>2. y.turn = x.turn + 1 /\ y.bytes = x.bytes \o seqs[x.turn + 1]
    BY <2>1 DEF JoinNext
  <2> QED
    BY <2>2 DEF x, y
<1>3. \A n \in Nat : n \in T => n + 1 \in T
  BY <1>7
<1> HIDE DEF T
<1>4. \A n \in Nat : n \in T
  BY <1>2, <1>3, Joins!Induction
<1>5. \A n \in Nat : j[n].turn = n
  BY <1>4 DEF T
<1>6. j[0].bytes = << >> /\ \A n \in Nat : j[n + 1].bytes = j[n].bytes \o seqs[n + 1]
  <2>1. j[0].bytes = << >>
    BY <1>1 DEF NothingJoined
  <2>2. \A n \in Nat : j[n + 1].bytes = j[n].bytes \o seqs[n + 1]
    <3> SUFFICES ASSUME NEW n \in Nat PROVE j[n + 1].bytes = j[n].bytes \o seqs[n + 1]
      OBVIOUS
    <3>1. j[n].turn = n
      BY <1>5
    <3>2. j[n + 1].bytes = j[n].bytes \o seqs[j[n].turn + 1]
      BY <1>7
    <3> QED
      BY <3>1, <3>2
  <2> QED
    BY <2>1, <2>2
<1> QED
  BY <1>6 DEF j, Joined

\* Joined bytes are bytes.
LEMMA JoinedTyped ==
    ASSUME NEW seqs \in Seq(Seq(Byte))
    PROVE  \A n \in 0 .. Len(seqs) :
              /\ Joined(seqs, n) \in Seq(Byte) /\ Len(Joined(seqs, n)) \in Nat
              /\ n < Len(seqs) =>
                    /\ seqs[n + 1] \in Seq(Byte) /\ Len(seqs[n + 1]) \in Nat
                    /\ Len(Joined(seqs, n + 1)) = Len(Joined(seqs, n)) + Len(seqs[n + 1])
<1> DEFINE N == Len(seqs)
           T == {n \in Nat : n <= N => Joined(seqs, n) \in Seq(Byte)}
<1>1. N \in Nat /\ \A n \in 1 .. N : seqs[n] \in Seq(Byte)
  BY LenProperties
<1>2. 0 \in T
  <2>1. << >> \in Seq(Byte)
    OBVIOUS
  <2> QED
    BY <2>1, JoinedTurn
<1>3. \A n \in Nat : n < N => seqs[n + 1] \in Seq(Byte)
  <2> HIDE DEF N
  <2>1. \A n \in Nat : n < N => n + 1 \in 1 .. N
    BY <1>1
  <2> QED
    BY <1>1, <2>1
<1>4. \A n \in Nat : n \in T => n + 1 \in T
  <2> SUFFICES ASSUME NEW n \in Nat, n \in T, n + 1 <= N
               PROVE  Joined(seqs, n + 1) \in Seq(Byte)
    OBVIOUS
  <2> HIDE DEF N
  <2>1. n < N /\ n <= N
    BY <1>1
  <2>2. Joined(seqs, n) \in Seq(Byte) /\ seqs[n + 1] \in Seq(Byte)
    BY <1>3, <2>1
  <2>3. Joined(seqs, n) \o seqs[n + 1] \in Seq(Byte)
    BY <2>2, ConcatProperties
  <2> QED
    BY <2>3, JoinedTurn
<1> HIDE DEF T
<1>5. \A n \in Nat : n \in T
  BY <1>2, <1>4, Joins!Induction
<1>6. \A n \in Nat : n <= N => Joined(seqs, n) \in Seq(Byte)
  BY <1>5 DEF T
<1> SUFFICES ASSUME NEW n \in 0 .. N
             PROVE  /\ Joined(seqs, n) \in Seq(Byte) /\ Len(Joined(seqs, n)) \in Nat
                    /\ n < N =>
                          /\ seqs[n + 1] \in Seq(Byte) /\ Len(seqs[n + 1]) \in Nat
                          /\ Len(Joined(seqs, n + 1)) = Len(Joined(seqs, n)) + Len(seqs[n + 1])
  OBVIOUS
<1> HIDE DEF N
<1>7. n \in Nat /\ n <= N
  BY <1>1
<1> DEFINE a == Joined(seqs, n)
           b == seqs[n + 1]
<1>8. a \in Seq(Byte) /\ Joined(seqs, n + 1) = a \o b /\ (n < N => b \in Seq(Byte))
  BY <1>3, <1>6, <1>7, JoinedTurn
<1> HIDE DEF a, b
<1>9. n < N => Len(a \o b) = Len(a) + Len(b) /\ Len(b) \in Nat
  BY <1>8, ConcatProperties, LenProperties
<1>10. Len(a) \in Nat
  BY <1>8, LenProperties
<1> QED
  BY <1>8, <1>9, <1>10 DEF a, b

\* FlattenSeq joins them all.
LEMMA FlattenJoins ==
    ASSUME NEW seqs \in Seq(Seq(Byte))
    PROVE  /\ FlattenSeq(seqs) = Joined(seqs, Len(seqs))
           /\ FlattenSeq(seqs) \in Seq(Byte)
<1> DEFINE N == Len(seqs)
<1>1. N \in Nat
  BY LenProperties
<1>2. CASE N = 0
  <2>1. seqs = << >>
    BY <1>2, EmptySeq
  <2>2. FlattenSeq(seqs) = << >>
    BY <1>2, <2>1 DEF FlattenSeq
  <2>3. N \in 0 .. N
    BY <1>1
  <2> QED
    BY <1>2, <2>2, <2>3, JoinedTurn, JoinedTyped
<1>3. CASE N # 0
  <2> DEFINE Equation(f) ==
               f = [i \in 1 .. N |-> IF i = 1 THEN seqs[i] ELSE f[i - 1] \o seqs[i]]
             g == [i \in 1 .. N |-> Joined(seqs, i)]
             f == CHOOSE f : Equation(f)
  <2>1. FlattenSeq(seqs) = f[N]
    BY <1>3 DEF FlattenSeq
  <2> HIDE DEF N
  <2>2. \A i \in 1 .. N : i - 1 \in Nat /\ (i - 1) + 1 = i /\ (i # 1 => i - 1 \in 1 .. N)
    BY <1>1
  <2>3. 1 \in 1 .. N => seqs[1] \in Seq(Byte)
    BY <1>1, ElementOfSeq DEF N
  <2>4. Joined(seqs, 0 + 1) = << >> \o seqs[0 + 1]
    BY JoinedTurn
  <2>5. 1 \in 1 .. N => Joined(seqs, 1) = seqs[1]
    <3>1. 0 + 1 = 1
      OBVIOUS
    <3>2. Joined(seqs, 1) = << >> \o seqs[1]
      BY <2>4, <3>1
    <3> QED
      BY <2>3, <3>2, ConcatEmptySeq
  <2>6. \A i \in 1 .. N : i # 1 => Joined(seqs, i) = Joined(seqs, i - 1) \o seqs[i]
    BY <2>2, JoinedTurn
  <2>7. Equation(g)
    BY <2>2, <2>5, <2>6
  <2>8. Equation(f)
    BY <2>7
  <2> HIDE DEF f
  <2> DEFINE T == {i \in Nat : i + 1 <= N => f[i + 1] = Joined(seqs, i + 1)}
  <2>9. f = [i \in 1 .. N |-> IF i = 1 THEN seqs[i] ELSE f[i - 1] \o seqs[i]]
    BY <2>8
  <2>10. 0 \in T
    <3> SUFFICES ASSUME 0 + 1 <= N PROVE f[0 + 1] = Joined(seqs, 0 + 1)
      OBVIOUS
    <3>1. 1 \in 1 .. N /\ 0 + 1 = 1
      BY <1>1
    <3>2. f[1] = seqs[1]
      BY <2>9, <3>1
    <3> QED
      BY <2>5, <3>1, <3>2
  <2>11. \A i \in Nat : i \in T => i + 1 \in T
    <3> SUFFICES ASSUME NEW i \in Nat, i \in T, (i + 1) + 1 <= N
                 PROVE  f[(i + 1) + 1] = Joined(seqs, (i + 1) + 1)
      OBVIOUS
    <3> DEFINE k == (i + 1) + 1
    <3>1. k \in 1 .. N /\ k # 1 /\ k - 1 = i + 1 /\ i + 1 <= N
      BY <1>1
    <3> HIDE DEF k
    <3>2. f[k - 1] = Joined(seqs, k - 1)
      BY <3>1
    <3>3. f[k] = f[k - 1] \o seqs[k]
      BY <2>9, <3>1
    <3>4. f[k] = Joined(seqs, k)
      BY <2>6, <3>1, <3>2, <3>3
    <3> QED
      BY <3>4 DEF k
  <2> HIDE DEF T
  <2>12. \A i \in Nat : i \in T
    BY <2>10, <2>11, Joins!Induction
  <2>13. f[(N - 1) + 1] = Joined(seqs, (N - 1) + 1)
    <3>1. N - 1 \in Nat /\ (N - 1) + 1 <= N
      BY <1>1, <1>3
    <3> QED
      BY <2>12, <3>1 DEF T
  <2>14. (N - 1) + 1 = N /\ N \in 0 .. N
    BY <1>1
  <2>15. f[N] = Joined(seqs, N)
    BY <2>13, <2>14
  <2>16. Joined(seqs, N) \in Seq(Byte)
    BY <2>14, JoinedTyped DEF N
  <2> QED
    BY <2>1, <2>15, <2>16 DEF N
<1> QED
  BY <1>2, <1>3

\* What holds joined sequences holds each of them behind those before it.
LEMMA HeldJoined ==
    ASSUME NEW bytes \in Seq(Byte), NEW at \in Nat, NEW seqs \in Seq(Seq(Byte)),
           Holds(bytes, at, FlattenSeq(seqs))
    PROVE  \A n \in Nat : n < Len(seqs) =>
              /\ Holds(bytes, at + Len(Joined(seqs, n)), seqs[n + 1])
              /\ at + Len(Joined(seqs, n)) \in Nat
<1> DEFINE N == Len(seqs)
           T == {d \in Nat : d <= N => Holds(bytes, at, Joined(seqs, N - d))}
<1>1. N \in Nat
  BY LenProperties
<1>2. 0 \in T
  <2>1. N - 0 = N
    BY <1>1
  <2>2. Holds(bytes, at, Joined(seqs, N))
    BY FlattenJoins
  <2> HIDE DEF N
  <2> QED
    BY <2>1, <2>2
<1>3. \A n \in Nat : n < N /\ Holds(bytes, at, Joined(seqs, n + 1)) =>
         Holds(bytes, at, Joined(seqs, n)) /\ Holds(bytes, at + Len(Joined(seqs, n)), seqs[n + 1])
  <2> SUFFICES ASSUME NEW n \in Nat, n < N, Holds(bytes, at, Joined(seqs, n + 1))
               PROVE  /\ Holds(bytes, at, Joined(seqs, n))
                      /\ Holds(bytes, at + Len(Joined(seqs, n)), seqs[n + 1])
    OBVIOUS
  <2> DEFINE a == Joined(seqs, n)
             b == seqs[n + 1]
  <2>1. n \in 0 .. N
    BY <1>1
  <2>2. a \in Seq(Byte) /\ b \in Seq(Byte) /\ Joined(seqs, n + 1) = a \o b
    BY <2>1, JoinedTyped, JoinedTurn
  <2> HIDE DEF a, b
  <2>3. Holds(bytes, at, a \o b)
    BY <2>2
  <2>4. Holds(bytes, at, a) /\ Holds(bytes, at + Len(a), b)
    BY <2>2, <2>3, HeldParts
  <2> QED
    BY <2>4 DEF a, b
<1>4. \A d \in Nat : d \in T => d + 1 \in T
  <2> HIDE DEF N
  <2> SUFFICES ASSUME NEW d \in Nat, d <= N => Holds(bytes, at, Joined(seqs, N - d)), d + 1 <= N
               PROVE  Holds(bytes, at, Joined(seqs, N - (d + 1)))
    OBVIOUS
  <2> DEFINE n == N - (d + 1)
  <2>1. n \in Nat /\ n < N /\ n + 1 = N - d /\ d <= N
    BY <1>1
  <2> HIDE DEF n
  <2>2. Holds(bytes, at, Joined(seqs, n + 1))
    BY <2>1
  <2>3. Holds(bytes, at, Joined(seqs, n))
    BY <1>3, <2>1, <2>2
  <2> QED
    BY <2>3 DEF n
<1> HIDE DEF T
<1>5. \A d \in Nat : d \in T
  BY <1>2, <1>4, Joins!Induction
<1>6. \A d \in Nat : d <= N => Holds(bytes, at, Joined(seqs, N - d))
  BY <1>5 DEF T
<1> SUFFICES ASSUME NEW n \in Nat, n < N
             PROVE  /\ Holds(bytes, at + Len(Joined(seqs, n)), seqs[n + 1])
                    /\ at + Len(Joined(seqs, n)) \in Nat
  OBVIOUS
<1>7. Len(Joined(seqs, n)) \in Nat
  <2>1. n \in 0 .. N
    BY <1>1
  <2> QED
    BY <2>1, JoinedTyped
<1> HIDE DEF N
<1> DEFINE d == N - (n + 1)
<1>8. d \in Nat /\ d <= N /\ N - d = n + 1
  BY <1>1
<1> HIDE DEF d
<1>9. Holds(bytes, at, Joined(seqs, n + 1))
  BY <1>6, <1>8
<1> QED
  BY <1>3, <1>7, <1>9

-----------------------------------------------------------------------------
(* Arrays and maps, read from what their parts were written as.             *)
\* Wherever bytes have s, the value is read from it.
Reads(item, bytes, s, value) ==
    \A o \in Nat : Holds(bytes, o, s) => item[o] = Decoded(value, o + Len(s))

\* bytes have items one after another, each as the sequence it is read from.
ElementsHeld(bytes, at, item, S, items, seqs) ==
    /\ bytes \in Seq(Byte) /\ at \in Nat /\ items \in Seq(S)
    /\ seqs \in Seq(Seq(Byte)) /\ Len(seqs) = Len(items)
    /\ Holds(bytes, at, FlattenSeq(seqs))
    /\ \A n \in Nat : n < Len(seqs) => Reads(item, bytes, seqs[n + 1], items[n + 1])

\* An array is read as it was written, element by element.
LEMMA ElementsRestored ==
    ASSUME NEW bytes, NEW at, NEW item, NEW S, NEW items, NEW seqs,
           ElementsHeld(bytes, at, item, S, items, seqs)
    PROVE  Elements!Iterate(Loop(item, at))[Len(items)]
             = Decoded(Array(items), at + Len(FlattenSeq(seqs)))
<1> DEFINE N == Len(items)
           list(n) == Elements!Iterate(Loop(item, at))[n]
           part(n) == SubSeq(items, 1, n)
           end(n) == at + Len(Joined(seqs, n))
           T == {n \in Nat : n <= N => list(n) = Decoded(Array(part(n)), end(n))}
<1>0. /\ bytes \in Seq(Byte) /\ at \in Nat /\ items \in Seq(S)
      /\ seqs \in Seq(Seq(Byte)) /\ Len(seqs) = Len(items)
      /\ Holds(bytes, at, FlattenSeq(seqs))
      /\ \A n \in Nat : n < Len(seqs) => Reads(item, bytes, seqs[n + 1], items[n + 1])
  BY DEF ElementsHeld
<1> USE <1>0
<1>1. N \in Nat /\ Len(seqs) = N
  BY LenProperties
<1>2. 0 \in T
  <2>1. list(0) = Decoded(Array(<< >>), at)
    BY ElementsStart DEF NoElements, Loop
  <2>2. part(0) = << >>
    BY SubSeqEmpty
  <2>3. end(0) = at
    <3> DEFINE x == Len(Joined(seqs, 0))
    <3>1. Joined(seqs, 0) = << >> /\ Len(<< >>) = 0
      BY JoinedTurn
    <3>2. x = 0 /\ at \in Nat
      BY <3>1
    <3> HIDE DEF x
    <3>3. at + x = at
      BY <3>2
    <3> QED
      BY <3>3 DEF x
  <2> HIDE DEF list, part, end
  <2> QED
    BY <2>1, <2>2, <2>3
<1>3. \A n \in Nat : n < N => Append(part(n), items[n + 1]) = part(n + 1)
  <2> SUFFICES ASSUME NEW n \in Nat, n < N
               PROVE  Append(part(n), items[n + 1]) = part(n + 1)
    OBVIOUS
  <2> DEFINE k == n + 1
  <2>1. k \in 1 .. Len(items) /\ 1 \in 1 .. Len(items) /\ k \in 1 .. Len(items) /\ k - 1 = n
    BY <1>1
  <2>2. \A i \in 1 .. n : items[i] \in S
    BY <2>1, LenProperties
  <2>3. SubSeq(items, 1, n) \in Seq(S)
    BY <2>2, SubSeqProperties
  <2> HIDE DEF k
  <2>4. SubSeq(items, 1, k) = SubSeq(items, 1, k - 1) \o <<items[k]>>
    BY <2>1, SubSeqRecursiveSecond
  <2>5. items[k] \in S
    BY <2>1, ElementOfSeq
  <2>6. Append(SubSeq(items, 1, n), items[k]) = SubSeq(items, 1, n) \o <<items[k]>>
    BY <2>3, <2>5, AppendIsConcat
  <2> QED
    BY <2>1, <2>4, <2>6 DEF k
<1>4. \A n \in Nat : n < N =>
         /\ item[end(n)] = Decoded(items[n + 1], end(n + 1))
         /\ end(n) \in Nat
  <2> SUFFICES ASSUME NEW n \in Nat, n < N
               PROVE  item[end(n)] = Decoded(items[n + 1], end(n + 1)) /\ end(n) \in Nat
    OBVIOUS
  <2> HIDE DEF N
  <2>1. n \in 0 .. Len(seqs) /\ n < Len(seqs)
    BY <1>1
  <2>2. Len(Joined(seqs, n)) \in Nat /\ Len(seqs[n + 1]) \in Nat
        /\ Len(Joined(seqs, n + 1)) = Len(Joined(seqs, n)) + Len(seqs[n + 1])
    BY <2>1, JoinedTyped
  <2>3. end(n + 1) = end(n) + Len(seqs[n + 1])
    <3> DEFINE x == Len(Joined(seqs, n))
               y == Len(seqs[n + 1])
               z == Len(Joined(seqs, n + 1))
    <3>1. x \in Nat /\ y \in Nat /\ z = x + y
      BY <2>2
    <3> HIDE DEF x, y, z
    <3>2. at + z = (at + x) + y
      BY <3>1
    <3> QED
      BY <3>2 DEF x, y, z
  <2>4. Holds(bytes, end(n), seqs[n + 1]) /\ end(n) \in Nat
    BY <2>1, HeldJoined
  <2>5. Reads(item, bytes, seqs[n + 1], items[n + 1])
    BY <2>1
  <2> HIDE DEF end
  <2> QED
    BY <2>3, <2>4, <2>5 DEF Reads
<1>5. \A n \in Nat : n \in T => n + 1 \in T
  <2> SUFFICES ASSUME NEW n \in Nat, n <= N => list(n) = Decoded(Array(part(n)), end(n)), n + 1 <= N
               PROVE  list(n + 1) = Decoded(Array(part(n + 1)), end(n + 1))
    OBVIOUS
  <2>1. n < N
    BY <1>1
  <2>2. list(n + 1) = NextElement(Loop(item, at), list(n))
    BY ElementsTurn
  <2>3. list(n) = Decoded(Array(part(n)), end(n))
    BY <2>1
  <2>4. item[end(n)] = Decoded(items[n + 1], end(n + 1))
    BY <1>4, <2>1
  <2>5. Append(part(n), items[n + 1]) = part(n + 1)
    BY <1>3, <2>1
  <2> HIDE DEF list, part, end
  <2> DEFINE before == list(n)
             next == item[end(n)]
  <2>6. before.ok /\ before.offset = end(n) /\ before.value.items = part(n)
    BY <2>3 DEF Decoded, Array
  <2>7. next.ok /\ next.value = items[n + 1] /\ next.offset = end(n + 1)
    BY <2>4 DEF Decoded
  <2>8. NextElement(Loop(item, at), before)
          = IF before.ok
            THEN IF item[before.offset].ok
                 THEN Decoded(Array(Append(before.value.items, item[before.offset].value)),
                              item[before.offset].offset)
                 ELSE item[before.offset]
            ELSE before
    BY DEF NextElement, AndThen, Loop
  <2> HIDE DEF before, next
  <2>9. NextElement(Loop(item, at), before)
          = Decoded(Array(Append(part(n), items[n + 1])), end(n + 1))
    BY <2>6, <2>7, <2>8 DEF next
  <2> QED
    BY <2>2, <2>5, <2>9 DEF before
<1>6. \A n \in Nat : n \in T
  <2> HIDE DEF T
  <2> QED
    BY <1>2, <1>5, ElementTurns!Induction
<1>7. list(N) = Decoded(Array(part(N)), end(N))
  <2> HIDE DEF N, list, part, end
  <2>1. N <= N
    BY <1>1
  <2> QED
    BY <1>1, <1>6, <2>1
<1>8. part(N) = items
  BY SubSeqFull
<1>9. end(N) = at + Len(FlattenSeq(seqs))
  BY FlattenJoins
<1> QED
  BY <1>7, <1>8, <1>9

\* The numbers up to the next.
LEMMA OneMore == \A n \in Nat : 1 .. n + 1 = (1 .. n) \cup {n + 1}
OBVIOUS

\* The keys of entries have hashes, which differ.
DistinctKeys(entry) ==
    \A n \in Nat : n < Len(entry) =>
        /\ Hashable(entry[n + 1][1])
        /\ \A m \in 1 .. n : Hashed(entry[m][1]) # Hashed(entry[n + 1][1])

\* bytes have entries one after another, each a key and its value.
EntriesHeld(bytes, at, item, S, entry, seqs) ==
    /\ bytes \in Seq(Byte) /\ at \in Nat /\ entry \in Seq(S \X S)
    /\ seqs \in Seq(Seq(Byte)) /\ Len(seqs) = Len(entry)
    /\ Holds(bytes, at, FlattenSeq(seqs))
    /\ DistinctKeys(entry)
    /\ \A n \in Nat : n < Len(seqs) =>
          \E k, v \in Seq(Byte) :
             /\ seqs[n + 1] = k \o v
             /\ Reads(item, bytes, k, entry[n + 1][1])
             /\ Reads(item, bytes, v, entry[n + 1][2])

\* A map is read as it was written, entry by entry.
LEMMA EntriesRestored ==
    ASSUME NEW bytes, NEW at, NEW item, NEW S, NEW entry, NEW seqs,
           EntriesHeld(bytes, at, item, S, entry, seqs)
    PROVE  Entries!Iterate(Loop(item, at))[Len(entry)]
             = Decoded(Map(Range(entry)), at + Len(FlattenSeq(seqs)))
<1> DEFINE N == Len(entry)
           map(n) == Entries!Iterate(Loop(item, at))[n]
           part(n) == {entry[i] : i \in 1 .. n}
           end(n) == at + Len(Joined(seqs, n))
           T == {n \in Nat : n <= N => map(n) = Decoded(Map(part(n)), end(n))}
<1>0. /\ bytes \in Seq(Byte) /\ at \in Nat /\ entry \in Seq(S \X S)
      /\ seqs \in Seq(Seq(Byte)) /\ Len(seqs) = Len(entry)
      /\ Holds(bytes, at, FlattenSeq(seqs))
      /\ DistinctKeys(entry)
      /\ \A n \in Nat : n < Len(seqs) =>
            \E k, v \in Seq(Byte) :
               /\ seqs[n + 1] = k \o v
               /\ Reads(item, bytes, k, entry[n + 1][1])
               /\ Reads(item, bytes, v, entry[n + 1][2])
  BY DEF EntriesHeld
<1> USE <1>0
<1>1. N \in Nat /\ Len(seqs) = N
  BY LenProperties
<1>2. 0 \in T
  <2>1. map(0) = Decoded(Map({}), at)
    BY EntriesStart DEF NoEntries, Loop
  <2>2. part(0) = {}
    OBVIOUS
  <2>3. end(0) = at
    <3> DEFINE x == Len(Joined(seqs, 0))
    <3>1. Joined(seqs, 0) = << >> /\ Len(<< >>) = 0
      BY JoinedTurn
    <3>2. x = 0 /\ at \in Nat
      BY <3>1
    <3> HIDE DEF x
    <3>3. at + x = at
      BY <3>2
    <3> QED
      BY <3>3 DEF x
  <2> HIDE DEF map, part, end
  <2> QED
    BY <2>1, <2>2, <2>3
<1>3. \A n \in Nat : n < N =>
         \E middle \in Nat :
            /\ end(n) \in Nat
            /\ item[end(n)] = Decoded(entry[n + 1][1], middle)
            /\ item[middle] = Decoded(entry[n + 1][2], end(n + 1))
  <2> SUFFICES ASSUME NEW n \in Nat, n < N
               PROVE  \E middle \in Nat :
                         /\ end(n) \in Nat
                         /\ item[end(n)] = Decoded(entry[n + 1][1], middle)
                         /\ item[middle] = Decoded(entry[n + 1][2], end(n + 1))
    OBVIOUS
  <2> HIDE DEF N
  <2>1. n \in 0 .. Len(seqs) /\ n < Len(seqs)
    BY <1>1
  <2>2. Len(Joined(seqs, n)) \in Nat /\ Len(seqs[n + 1]) \in Nat
        /\ Len(Joined(seqs, n + 1)) = Len(Joined(seqs, n)) + Len(seqs[n + 1])
    BY <2>1, JoinedTyped
  <2>3. end(n + 1) = end(n) + Len(seqs[n + 1])
    <3> DEFINE x == Len(Joined(seqs, n))
               y == Len(seqs[n + 1])
               z == Len(Joined(seqs, n + 1))
    <3>1. x \in Nat /\ y \in Nat /\ z = x + y
      BY <2>2
    <3> HIDE DEF x, y, z
    <3>2. at + z = (at + x) + y
      BY <3>1
    <3> QED
      BY <3>2 DEF x, y, z
  <2>4. Holds(bytes, end(n), seqs[n + 1]) /\ end(n) \in Nat
    BY <2>1, HeldJoined
  <2>5. PICK k, v \in Seq(Byte) :
           /\ seqs[n + 1] = k \o v
           /\ Reads(item, bytes, k, entry[n + 1][1])
           /\ Reads(item, bytes, v, entry[n + 1][2])
    BY <2>1
  <2> DEFINE o == end(n)
  <2> HIDE DEF end
  <2>6. o \in Nat /\ Holds(bytes, o, k \o v)
    BY <2>4, <2>5
  <2> HIDE DEF o
  <2>7. Holds(bytes, o, k) /\ Holds(bytes, o + Len(k), v)
    BY <2>6, HeldParts
  <2>8. Len(k) \in Nat /\ Len(v) \in Nat /\ Len(k \o v) = Len(k) + Len(v)
    BY ConcatProperties, LenProperties
  <2> DEFINE middle == o + Len(k)
  <2>9. middle \in Nat /\ middle + Len(v) = o + (Len(k) + Len(v))
    BY <2>6, <2>8
  <2> HIDE DEF middle
  <2>10. item[o] = Decoded(entry[n + 1][1], middle)
    BY <2>5, <2>6, <2>7 DEF Reads, middle
  <2>11. item[middle] = Decoded(entry[n + 1][2], middle + Len(v))
    <3>1. Holds(bytes, middle, v)
      BY <2>7 DEF middle
    <3> QED
      BY <2>5, <2>9, <3>1 DEF Reads
  <2>12. end(n + 1) = middle + Len(v)
    BY <2>3, <2>5, <2>8, <2>9 DEF o
  <2> QED
    BY <2>6, <2>9, <2>10, <2>11, <2>12 DEF o
<1>4. \A n \in Nat : n < N =>
         /\ Hashable(entry[n + 1][1])
         /\ ~ HasKey(part(n), entry[n + 1][1])
         /\ Put(part(n), entry[n + 1][1], entry[n + 1][2]) = part(n + 1)
  <2> SUFFICES ASSUME NEW n \in Nat, n < N
               PROVE  /\ Hashable(entry[n + 1][1])
                      /\ ~ HasKey(part(n), entry[n + 1][1])
                      /\ Put(part(n), entry[n + 1][1], entry[n + 1][2]) = part(n + 1)
    OBVIOUS
  <2> DEFINE key == entry[n + 1][1]
             val == entry[n + 1][2]
  <2>1. Hashable(key) /\ \A m \in 1 .. n : Hashed(entry[m][1]) # Hashed(key)
    BY DEF DistinctKeys
  <2>2. \A e \in part(n) : Hashed(e[1]) # Hashed(key)
    BY <2>1
  <2>3. ~ HasKey(part(n), key)
    BY <2>2 DEF HasKey
  <2>4. Put(part(n), key, val) = part(n) \cup {<<key, val>>}
    BY <2>2 DEF Put
  <2>5. <<key, val>> = entry[n + 1]
    <3>1. n + 1 \in 1 .. Len(entry)
      BY <1>1
    <3>2. entry[n + 1] \in S \X S
      BY <3>1, ElementOfSeq
    <3> QED
      BY <3>2
  <2>6. 1 .. n + 1 = (1 .. n) \cup {n + 1}
    BY OneMore
  <2>7. part(n + 1) = part(n) \cup {entry[n + 1]}
    BY <2>6
  <2> HIDE DEF part
  <2> QED
    BY <2>1, <2>3, <2>4, <2>5, <2>7
<1>5. \A n \in Nat : n \in T => n + 1 \in T
  <2> HIDE DEF N, map, part, end
  <2> SUFFICES ASSUME NEW n \in Nat, n <= N => map(n) = Decoded(Map(part(n)), end(n)), n + 1 <= N
               PROVE  map(n + 1) = Decoded(Map(part(n + 1)), end(n + 1))
    OBVIOUS
  <2> USE DEF N, map, part, end
  <2>1. n < N
    BY <1>1
  <2>2. map(n + 1) = NextEntry(Loop(item, at), map(n))
    BY EntriesTurn
  <2>3. map(n) = Decoded(Map(part(n)), end(n))
    BY <2>1
  <2>4. PICK middle \in Nat :
           /\ item[end(n)] = Decoded(entry[n + 1][1], middle)
           /\ item[middle] = Decoded(entry[n + 1][2], end(n + 1))
    BY <1>3, <2>1
  <2> DEFINE before == map(n)
             key == item[before.offset]
             val == item[key.offset]
             k == entry[n + 1][1]
             v == entry[n + 1][2]
  <2>5. Hashable(k) /\ ~ HasKey(part(n), k) /\ Put(part(n), k, v) = part(n + 1)
    BY <1>4, <2>1
  <2> HIDE DEF map, part, end
  <2>6. before.ok /\ before.offset = end(n) /\ before.value.entries = part(n)
    BY <2>3 DEF Decoded, Map
  <2>7. NextEntry(Loop(item, at), before)
          = IF before.ok
            THEN IF key.ok
                 THEN IF val.ok THEN AddEntry(before.value.entries, key.value, val) ELSE val
                 ELSE key
            ELSE before
    BY DEF NextEntry, AndThen, Loop
  <2> HIDE DEF before, k, v
  <2>8. key.ok /\ key.value = k /\ key.offset = middle
    BY <2>4, <2>6 DEF Decoded, k
  <2> HIDE DEF key
  <2>9. val.ok /\ val.value = v /\ val.offset = end(n + 1)
    BY <2>4, <2>8 DEF Decoded, v
  <2> HIDE DEF val
  <2>10. AddEntry(part(n), k, val) = Decoded(Map(part(n + 1)), end(n + 1))
    BY <2>5, <2>9 DEF AddEntry, Duplicate
  <2>11. NextEntry(Loop(item, at), before) = AddEntry(part(n), k, val)
    BY <2>6, <2>7, <2>8, <2>9
  <2> QED
    BY <2>2, <2>10, <2>11 DEF before
<1>6. \A n \in Nat : n \in T
  <2> HIDE DEF T
  <2> QED
    BY <1>2, <1>5, ElementTurns!Induction
<1>7. map(N) = Decoded(Map(part(N)), end(N))
  <2> HIDE DEF N, map, part, end
  <2>1. N <= N
    BY <1>1
  <2> QED
    BY <1>1, <1>6, <2>1
<1>8. end(N) = at + Len(FlattenSeq(seqs))
  BY FlattenJoins
<1>9. part(N) = Range(entry)
  BY LenProperties DEF Range
<1> QED
  BY <1>7, <1>8, <1>9

-----------------------------------------------------------------------------
(* The order of bytes, in which the keys of a map are sorted.               *)
\* A byte is a number.
LEMMA ByteIsInt ==
    ASSUME NEW s \in Seq(Byte)
    PROVE  \A j \in 1 .. Len(s) : s[j] \in Int
<1> SUFFICES ASSUME NEW j \in 1 .. Len(s) PROVE s[j] \in Int
  OBVIOUS
<1> DEFINE x == s[j]
<1>1. x \in Byte
  BY ElementOfSeq
<1> HIDE DEF x
<1>2. x \in Int
  BY <1>1 DEF Byte
<1> QED
  BY <1>2 DEF x

\* The first place where bytes are less than others: they end there, or have a
\* lower byte.
LessAt(a, b, i) ==
    /\ i \in Nat /\ 1 <= i /\ i <= Len(b) /\ i <= Len(a) + 1
    /\ i <= Len(a) => a[i] < b[i]
    /\ \A j \in 1 .. i - 1 : a[j] = b[j]

\* Bytes are less than others at some place.
LEMMA LessSomewhere ==
    ASSUME NEW a \in Seq(Byte), NEW b \in Seq(Byte)
    PROVE  BytesLess(a, b) <=> \E i \in Nat : LessAt(a, b, i)
<1> DEFINE m == Len(a)
           n == Len(b)
<1>1. m \in Nat /\ n \in Nat /\ DOMAIN a = 1 .. m /\ DOMAIN b = 1 .. n
  BY LenProperties
<1>2. SubSeq(a, 1, m) = a /\ SubSeq(b, 1, n) = b
  BY SubSeqFull
<1>3. m <= n => /\ SubSeq(b, 1, m) \in Seq(Byte) /\ Len(SubSeq(b, 1, m)) = m
                /\ \A i \in 1 .. m : SubSeq(b, 1, m)[i] = b[i]
  <2> SUFFICES ASSUME m <= n
               PROVE  /\ SubSeq(b, 1, m) \in Seq(Byte) /\ Len(SubSeq(b, 1, m)) = m
                      /\ \A i \in 1 .. m : SubSeq(b, 1, m)[i] = b[i]
    OBVIOUS
  <2>1. \A i \in 1 .. m : b[i] \in Byte
    BY <1>1, LenProperties
  <2> HIDE DEF m
  <2>2. (1 <= m <=> m # 0) /\ m - 1 + 1 = m /\ \A i \in 1 .. m : 1 + i - 1 = i
    BY <1>1
  <2> QED
    BY <1>1, <2>1, <2>2, SubSeqProperties
<1>4. ASSUME IsStrictPrefix(a, b) PROVE LessAt(a, b, m + 1)
  <2>1. m <= n /\ a = SubSeq(b, 1, m) /\ a # b
    BY <1>2, <1>4 DEF IsStrictPrefix, IsPrefix
  <2>2. m # n
    BY <1>2, <2>1
  <2>3. \A i \in 1 .. m : a[i] = b[i]
    BY <1>3, <2>1
  <2>4. m + 1 \in Nat /\ 1 <= m + 1 /\ m + 1 <= n /\ ~ (m + 1 <= m) /\ (m + 1) - 1 = m
    <3> HIDE DEF m, n
    <3> QED
      BY <1>1, <2>1, <2>2
  <2> QED
    BY <2>3, <2>4 DEF LessAt
<1>5. ASSUME NEW i \in DOMAIN a \cap DOMAIN b, a[i] < b[i], \A j \in 1 .. i - 1 : a[j] = b[j]
      PROVE  LessAt(a, b, i)
  <2>1. i \in Nat /\ 1 <= i /\ i <= n /\ i <= m + 1
    BY <1>1
  <2> QED
    BY <1>5, <2>1 DEF LessAt
<1>6. ASSUME NEW i \in Nat, LessAt(a, b, i) PROVE BytesLess(a, b)
  <2>1. CASE i <= m
    <3>1. i \in DOMAIN a \cap DOMAIN b
      BY <1>1, <1>6, <2>1 DEF LessAt
    <3> QED
      BY <1>6, <2>1, <3>1 DEF LessAt, BytesLess
  <2>2. CASE ~ (i <= m)
    <3>1. i = m + 1 /\ m < n /\ i - 1 = m
      BY <1>1, <1>6, <2>2 DEF LessAt
    <3>2. \A j \in 1 .. m : a[j] = b[j]
      BY <1>6, <3>1 DEF LessAt
    <3>3. m <= n
      BY <1>1, <3>1
    <3>4. \A j \in 1 .. m : a[j] = SubSeq(b, 1, m)[j]
      BY <1>3, <3>2, <3>3
    <3>5. a = SubSeq(b, 1, m)
      BY <1>3, <3>3, <3>4, SeqEqual
    <3>6. a # b
      BY <1>1, <3>1
    <3> QED
      BY <1>2, <3>3, <3>5, <3>6 DEF BytesLess, IsStrictPrefix, IsPrefix
  <2> QED
    BY <2>1, <2>2
<1> QED
  <2>1. ASSUME BytesLess(a, b) PROVE \E i \in Nat : LessAt(a, b, i)
    <3>1. CASE IsStrictPrefix(a, b)
      <4>1. m + 1 \in Nat
        BY <1>1
      <4> QED
        BY <1>4, <3>1, <4>1
    <3>2. CASE \E i \in DOMAIN a \cap DOMAIN b : a[i] < b[i] /\ \A j \in 1 .. i - 1 : a[j] = b[j]
      <4>1. PICK i \in DOMAIN a \cap DOMAIN b : a[i] < b[i] /\ \A j \in 1 .. i - 1 : a[j] = b[j]
        BY <3>2
      <4>2. LessAt(a, b, i) /\ i \in Nat
        BY <1>1, <1>5, <4>1
      <4> QED
        BY <4>2
    <3> QED
      BY <2>1, <3>1, <3>2 DEF BytesLess
  <2> QED
    BY <1>6, <2>1

\* The order of bytes is strict and total.
LEMMA OrderIrreflexive == \A a \in Seq(Byte) : ~ BytesLess(a, a)
<1> SUFFICES ASSUME NEW a \in Seq(Byte), NEW i \in Nat, LessAt(a, a, i) PROVE FALSE
  BY LessSomewhere
<1>1. i \in 1 .. Len(a) /\ a[i] < a[i]
  BY LenProperties DEF LessAt
<1> DEFINE x == a[i]
<1>2. x \in Int /\ x < x
  BY <1>1, ByteIsInt
<1> HIDE DEF x
<1> QED
  BY <1>2

\* What is less than something less is less.
LEMMA OrderTransitive ==
    ASSUME NEW a \in Seq(Byte), NEW b \in Seq(Byte), NEW c \in Seq(Byte),
           BytesLess(a, b), BytesLess(b, c)
    PROVE  BytesLess(a, c)
<1>1. PICK i \in Nat : LessAt(a, b, i)
  BY LessSomewhere
<1>2. PICK k \in Nat : LessAt(b, c, k)
  BY LessSomewhere
<1> DEFINE m == Len(a)
           n == Len(b)
           p == Len(c)
<1>3. m \in Nat /\ n \in Nat /\ p \in Nat
  BY LenProperties
<1>4. /\ 1 <= i /\ i <= n /\ i <= m + 1
      /\ i <= m => a[i] < b[i]
      /\ \A j \in 1 .. i - 1 : a[j] = b[j]
  BY <1>1 DEF LessAt
<1>5. /\ 1 <= k /\ k <= p /\ k <= n + 1
      /\ k <= n => b[k] < c[k]
      /\ \A j \in 1 .. k - 1 : b[j] = c[j]
  BY <1>2 DEF LessAt
<1>6. /\ i <= m => a[i] \in Int /\ b[i] \in Int
      /\ k <= n => b[k] \in Int /\ (k <= p => c[k] \in Int)
      /\ i <= p => c[i] \in Int
      /\ k <= m => a[k] \in Int
  <2>1. /\ \A j \in 1 .. m : a[j] \in Int
        /\ \A j \in 1 .. n : b[j] \in Int
        /\ \A j \in 1 .. p : c[j] \in Int
    BY ByteIsInt
  <2> HIDE DEF m, n, p
  <2> QED
    BY <1>3, <1>4, <1>5, <2>1
<1> HIDE DEF m, n, p
<1>7. CASE i < k
  <2>1. i \in 1 .. k - 1 /\ i <= p
    BY <1>3, <1>4, <1>5, <1>7
  <2>2. b[i] = c[i]
    BY <1>5, <2>1
  <2>3. \A j \in 1 .. i - 1 : a[j] = c[j]
    <3>1. \A j \in 1 .. i - 1 : j \in 1 .. k - 1
      BY <1>7
    <3> QED
      BY <1>4, <1>5, <3>1
  <2>4. LessAt(a, c, i)
    BY <1>4, <2>1, <2>2, <2>3 DEF LessAt, m, p
  <2> QED
    BY <2>4, LessSomewhere
<1>8. CASE k < i
  <2>1. k \in 1 .. i - 1 /\ k <= n /\ k <= m + 1 /\ k <= m
    BY <1>3, <1>4, <1>5, <1>8
  <2>2. a[k] = b[k]
    BY <1>4, <2>1
  <2>3. \A j \in 1 .. k - 1 : a[j] = c[j]
    <3>1. \A j \in 1 .. k - 1 : j \in 1 .. i - 1
      BY <1>8
    <3> QED
      BY <1>4, <1>5, <3>1
  <2>4. LessAt(a, c, k)
    BY <1>5, <2>1, <2>2, <2>3 DEF LessAt, m, p
  <2> QED
    BY <2>4, LessSomewhere
<1>9. CASE k = i
  <2>1. k <= n /\ \A j \in 1 .. k - 1 : a[j] = c[j]
    BY <1>4, <1>5, <1>9
  <2>2. k <= m => a[k] < c[k]
    <3> SUFFICES ASSUME k <= m PROVE a[k] < c[k]
      OBVIOUS
    <3> DEFINE x == a[k]
               y == b[k]
               z == c[k]
    <3>1. x < y /\ y < z /\ x \in Int /\ y \in Int /\ z \in Int
      BY <1>4, <1>5, <1>6, <1>9, <2>1
    <3> HIDE DEF x, y, z
    <3>2. x < z
      BY <3>1
    <3> QED
      BY <3>2 DEF x, z
  <2>3. LessAt(a, c, k)
    BY <1>4, <1>5, <1>9, <2>1, <2>2 DEF LessAt, m, p
  <2> QED
    BY <2>3, LessSomewhere
<1> QED
  BY <1>7, <1>8, <1>9

\* Of different bytes one is less than the other.
LEMMA OrderTotal ==
    ASSUME NEW a \in Seq(Byte), NEW b \in Seq(Byte), a # b
    PROVE  BytesLess(a, b) \/ BytesLess(b, a)
<1> DEFINE m == Len(a)
           n == Len(b)
           T == {i \in Nat : 1 <= i /\ (i > m \/ i > n \/ a[i] # b[i])}
<1>1. m \in Nat /\ n \in Nat
  BY LenProperties
<1>2. /\ \A j \in 1 .. m : a[j] \in Int
      /\ \A j \in 1 .. n : b[j] \in Int
  BY ByteIsInt
<1>3. m = n => \E j \in 1 .. m : a[j] # b[j]
  BY SeqEqual
<1> HIDE DEF m, n
<1>4. m + 1 \in T
  BY <1>1
<1>5. T \subseteq Nat
  OBVIOUS
<1> HIDE DEF T
<1>6. PICK i \in T : \A j \in T : i <= j
  BY <1>4, <1>5, ElementTurns!LeastNumber
<1>7. i \in Nat /\ 1 <= i /\ (i > m \/ i > n \/ a[i] # b[i])
  BY <1>6 DEF T
<1>8. \A j \in 1 .. i - 1 : j <= m /\ j <= n /\ a[j] = b[j]
  <2> SUFFICES ASSUME NEW j \in 1 .. i - 1 PROVE j <= m /\ j <= n /\ a[j] = b[j]
    OBVIOUS
  <2>1. j \in Nat /\ 1 <= j /\ ~ (i <= j)
    BY <1>7
  <2>2. ~ (j \in T)
    BY <1>6, <2>1
  <2> QED
    BY <1>1, <2>1, <2>2 DEF T
<1>9. i <= m + 1 /\ i <= n + 1
  <2>1. CASE i = 1
    BY <1>1, <2>1
  <2>2. CASE i # 1
    <3>1. i - 1 \in 1 .. i - 1
      BY <1>7, <2>2
    <3>2. i - 1 <= m /\ i - 1 <= n
      BY <1>8, <3>1
    <3> QED
      BY <1>1, <1>7, <3>2
  <2> QED
    BY <2>1, <2>2
<1>10. CASE i > m /\ i > n
  <2>1. i = m + 1 /\ m = n /\ i - 1 = m
    BY <1>1, <1>7, <1>9, <1>10
  <2> QED
    BY <1>3, <1>8, <2>1
<1>11. CASE i > m /\ i <= n
  <2>1. LessAt(a, b, i)
    <3>1. ~ (i <= m)
      BY <1>1, <1>7, <1>11
    <3> QED
      BY <1>7, <1>8, <1>9, <1>11, <3>1 DEF LessAt, m, n
  <2> QED
    BY <1>7, <2>1, LessSomewhere
<1>12. CASE i <= m /\ i > n
  <2>1. LessAt(b, a, i)
    <3>1. ~ (i <= n)
      BY <1>1, <1>7, <1>12
    <3> QED
      BY <1>7, <1>8, <1>9, <1>12, <3>1 DEF LessAt, m, n
  <2> QED
    BY <1>7, <2>1, LessSomewhere
<1>13. CASE i <= m /\ i <= n
  <2>1. i \in 1 .. m /\ i \in 1 .. n
    BY <1>1, <1>7, <1>13
  <2>2. a[i] \in Int /\ b[i] \in Int
    BY <1>2, <2>1
  <2>3. a[i] # b[i]
    BY <1>1, <1>7, <1>13
  <2>4. a[i] < b[i] \/ b[i] < a[i]
    BY <2>2, <2>3
  <2>5. LessAt(a, b, i) \/ LessAt(b, a, i)
    BY <1>7, <1>8, <1>9, <1>13, <2>4 DEF LessAt, m, n
  <2> QED
    BY <1>7, <2>5, LessSomewhere
<1> QED
  BY <1>1, <1>7, <1>10, <1>11, <1>12, <1>13

\* Entries in bytes, finitely many, with different keys.
EncodedEntries(E) ==
    /\ E \subseteq Seq(Byte) \X Seq(Byte)
    /\ IsFiniteSet(E)
    /\ \A x, y \in E : x[1] = y[1] => x = y

Lower(E, x) == {y \in E : BytesLess(y[1], x[1])}

\* An entry has fewer before it than there are, and of two one has fewer.
LEMMA RanksDiffer ==
    ASSUME NEW E, EncodedEntries(E)
    PROVE  /\ Cardinality(E) \in Nat
           /\ \A x \in E : Cardinality(Lower(E, x)) \in 0 .. Cardinality(E) - 1
           /\ \A x, y \in E : Cardinality(Lower(E, x)) = Cardinality(Lower(E, y)) => x = y
<1>1. IsFiniteSet(E) /\ Cardinality(E) \in Nat
  BY FS_CardinalityType DEF EncodedEntries
<1>2. \A x \in E : x[1] \in Seq(Byte)
  BY DEF EncodedEntries
<1>3. \A x \in E : x \notin Lower(E, x)
  BY <1>2, OrderIrreflexive DEF Lower
<1>4. \A x \in E : /\ IsFiniteSet(Lower(E, x)) /\ Cardinality(Lower(E, x)) \in Nat
                   /\ Cardinality(Lower(E, x)) <= Cardinality(E) - 1
  <2> SUFFICES ASSUME NEW x \in E
               PROVE  /\ IsFiniteSet(Lower(E, x)) /\ Cardinality(Lower(E, x)) \in Nat
                      /\ Cardinality(Lower(E, x)) <= Cardinality(E) - 1
    OBVIOUS
  <2> DEFINE others == E \ {x}
             lower == Lower(E, x)
  <2>1. IsFiniteSet(others) /\ Cardinality(others) = Cardinality(E) - 1
    BY <1>1, FS_RemoveElement
  <2>2. lower \in SUBSET others
    BY <1>3 DEF Lower
  <2> HIDE DEF others, lower
  <2>3. IsFiniteSet(lower) /\ Cardinality(lower) <= Cardinality(others)
    BY <2>1, <2>2, FS_Subset
  <2>4. Cardinality(lower) \in Nat
    BY <2>3, FS_CardinalityType
  <2> QED
    BY <2>1, <2>3, <2>4 DEF lower
<1>5. \A x, y \in E : BytesLess(x[1], y[1]) => Cardinality(Lower(E, x)) # Cardinality(Lower(E, y))
  <2> SUFFICES ASSUME NEW x \in E, NEW y \in E, BytesLess(x[1], y[1]),
                      Cardinality(Lower(E, x)) = Cardinality(Lower(E, y))
               PROVE  FALSE
    OBVIOUS
  <2>1. Lower(E, x) \in SUBSET Lower(E, y)
    <3> SUFFICES ASSUME NEW z \in E, BytesLess(z[1], x[1]) PROVE BytesLess(z[1], y[1])
      BY DEF Lower
    <3>1. z[1] \in Seq(Byte) /\ x[1] \in Seq(Byte) /\ y[1] \in Seq(Byte)
      BY <1>2
    <3> QED
      BY <3>1, OrderTransitive
  <2>2. Lower(E, x) = Lower(E, y)
    BY <1>4, <2>1, FS_Subset
  <2>3. x \in Lower(E, y)
    BY DEF Lower
  <2> QED
    BY <1>3, <2>2, <2>3
<1>6. \A x, y \in E : Cardinality(Lower(E, x)) = Cardinality(Lower(E, y)) => x = y
  <2> SUFFICES ASSUME NEW x \in E, NEW y \in E, x # y,
                      Cardinality(Lower(E, x)) = Cardinality(Lower(E, y))
               PROVE  FALSE
    OBVIOUS
  <2>1. x[1] # y[1]
    BY DEF EncodedEntries
  <2>2. BytesLess(x[1], y[1]) \/ BytesLess(y[1], x[1])
    BY <1>2, <2>1, OrderTotal
  <2> QED
    BY <1>5, <2>2
<1>7. \A x \in E : Cardinality(Lower(E, x)) \in 0 .. Cardinality(E) - 1
  BY <1>1, <1>4
<1> QED
  BY <1>1, <1>6, <1>7

\* Sorting puts each entry in one place.
LEMMA SortedEnumerates ==
    ASSUME NEW E, EncodedEntries(E)
    PROVE  /\ Cardinality(E) \in Nat
           /\ Sorted(E) \in [1 .. Cardinality(E) -> E]
           /\ \A x \in E : \E i \in 1 .. Cardinality(E) : Sorted(E)[i] = x
           /\ \A i, j \in 1 .. Cardinality(E) : Sorted(E)[i] = Sorted(E)[j] => i = j
<1> DEFINE n == Cardinality(E)
           rank == [x \in E |-> Cardinality(Lower(E, x))]
           ranks == 0 .. n - 1
<1>1. n \in Nat /\ IsFiniteSet(E)
  BY RanksDiffer DEF EncodedEntries
<1>2. rank \in [E -> ranks] /\ \A x, y \in E : rank[x] = rank[y] => x = y
  BY RanksDiffer
<1>3. rank \in Injection(E, ranks)
  <2> HIDE DEF rank, ranks
  <2> QED
    BY <1>2 DEF Injection, IsInjective
<1>4. IsFiniteSet(ranks) /\ Cardinality(ranks) = n
  <2>1. 0 \in Int /\ n - 1 \in Int
    BY <1>1
  <2>2. IsFiniteSet(ranks) /\ Cardinality(ranks) = IF 0 > n - 1 THEN 0 ELSE (n - 1) - 0 + 1
    BY <2>1, FS_Interval
  <2> HIDE DEF ranks, n
  <2> QED
    BY <1>1, <2>2
<1>5. rank \in Surjection(E, ranks)
  <2> HIDE DEF rank, ranks
  <2> QED
    BY <1>3, <1>4, FS_Injection
<1>6. \A r \in ranks : \E x \in E : rank[x] = r
  <2> HIDE DEF rank, ranks
  <2> QED
    BY <1>5 DEF Surjection
<1>7. Sorted(E) = [i \in 1 .. n |-> CHOOSE x \in E : rank[x] = i - 1]
  BY DEF Sorted, Lower
<1>8. \A i \in 1 .. n : i - 1 \in ranks
  BY <1>1
<1> HIDE DEF rank
<1>9. \A i \in 1 .. n : Sorted(E)[i] \in E /\ rank[Sorted(E)[i]] = i - 1
  <2> HIDE DEF ranks, n
  <2> QED
    BY <1>6, <1>7, <1>8
<1>10. Sorted(E) \in [1 .. n -> E]
  <2> HIDE DEF ranks, n
  <2> QED
    BY <1>7, <1>9
<1>11. \A x \in E : \E i \in 1 .. n : Sorted(E)[i] = x
  <2> SUFFICES ASSUME NEW x \in E PROVE \E i \in 1 .. n : Sorted(E)[i] = x
    OBVIOUS
  <2> DEFINE i == rank[x] + 1
  <2>1. rank[x] \in ranks
    BY <1>2
  <2>2. i \in 1 .. n /\ i - 1 = rank[x]
    <3> HIDE DEF n
    <3> QED
      BY <1>1, <2>1
  <2> HIDE DEF n, ranks, i
  <2>3. Sorted(E)[i] \in E /\ rank[Sorted(E)[i]] = rank[x]
    BY <1>9, <2>2
  <2>4. Sorted(E)[i] = x
    BY <1>2, <2>3
  <2> QED
    BY <2>2, <2>4
<1>12. \A i, j \in 1 .. n : Sorted(E)[i] = Sorted(E)[j] => i = j
  <2> HIDE DEF n
  <2> SUFFICES ASSUME NEW i \in 1 .. n, NEW j \in 1 .. n, Sorted(E)[i] = Sorted(E)[j]
               PROVE  i = j
    OBVIOUS
  <2>1. i - 1 = j - 1
    BY <1>9
  <2> QED
    BY <2>1
<1> QED
  BY <1>1, <1>10, <1>11, <1>12

-----------------------------------------------------------------------------
(* The values whose parts are in a set, and one call of dumps.              *)
\* Strings, lists and maps whose length is written in two bytes or less.
Short(T) == {s \in Seq(T) : Len(s) < TooLong}
Dicts(S) ==
    {E \in SUBSET (S \X S) :
        /\ IsFiniteSet(E) /\ Cardinality(E) < TooLong
        /\ \A e \in E : Hashable(e[1])
        /\ \A e, f \in E : Hashed(e[1]) = Hashed(f[1]) => e = f}

\* The values whose parts are in S.
ValuesOver(S) ==
    {Int_(neg, arg) : neg \in BOOLEAN, arg \in Arg}
    \cup {ByteString(s) : s \in Short(Byte)}
    \cup {Text(s) : s \in {t \in Short(Byte) : IsUtf8(t)}}
    \cup {Array(s) : s \in Short(S)}
    \cup {Map(E) : E \in Dicts(S)}
    \cup {Simple(s) : s \in {"false", "true", "null"}}

\* w writes the values in S in bytes, different ones differently.
OneToOne(S, w) ==
    /\ \A x \in S : w[x] \in Seq(Byte)
    /\ \A x, y \in S : w[x] = w[y] => x = y

\* It writes them so that item reads them from bytes.
Writes(S, w, item, bytes) ==
    /\ OneToOne(S, w)
    /\ \A x \in S : w[x] # << >> /\ Reads(item, bytes, w[x], x)

\* s is read as x one call further up, and is not empty.
WrittenAs(s, x, item, bytes) ==
    /\ s \in Seq(Byte) /\ s # << >>
    /\ \A o \in Nat : Holds(bytes, o, s) => ItemAt(bytes, item, o) = Decoded(x, o + Len(s))

\* What is written as a head and what belongs to it is read so.
LEMMA HeadedItem ==
    ASSUME NEW bytes \in Seq(Byte), NEW item, NEW major \in 0 .. 6, NEW arg \in Arg,
           NEW s \in Seq(Byte), NEW x,
           \A at \in Nat : Holds(bytes, at, s) =>
              LET h == Decoded(arg, at) IN Rest(bytes, item, major, h) = Decoded(x, at + Len(s))
    PROVE  WrittenAs(_encode_head(major, arg) \o s, x, item, bytes)
<1> DEFINE h == _encode_head(major, arg)
           hs == h \o s
<1>1. h \in Seq(Byte) /\ Len(h) \in Nat \ {0}
  BY HeadWritten
<1>2. \A o \in Nat : Holds(bytes, o, h) =>
         ItemAt(bytes, item, o) = Rest(bytes, item, major, Decoded(arg, o + Len(h)))
  BY ItemRestored
<1> HIDE DEF h
<1>3. hs \in Seq(Byte) /\ Len(hs) = Len(h) + Len(s) /\ Len(s) \in Nat
  BY <1>1, ConcatProperties, LenProperties
<1>4. \A o \in Nat : Holds(bytes, o, hs) => Holds(bytes, o, h) /\ Holds(bytes, o + Len(h), s)
  BY <1>1, HeldParts
<1> HIDE DEF hs
<1>5. hs # << >>
  BY <1>1, <1>3, EmptySeq
<1>6. ASSUME NEW o \in Nat, Holds(bytes, o, hs)
      PROVE  ItemAt(bytes, item, o) = Decoded(x, o + Len(hs))
  <2> DEFINE at == o + Len(h)
  <2>1. at \in Nat /\ at + Len(s) = o + Len(hs)
    BY <1>1, <1>3
  <2>2. Holds(bytes, o, h) /\ Holds(bytes, at, s)
    BY <1>4, <1>6
  <2>3. ItemAt(bytes, item, o) = Rest(bytes, item, major, Decoded(arg, at))
    BY <1>2, <2>2
  <2> HIDE DEF at
  <2>4. Rest(bytes, item, major, Decoded(arg, at)) = Decoded(x, at + Len(s))
    BY <2>1, <2>2
  <2> QED
    BY <2>1, <2>3, <2>4
<1>7. WrittenAs(hs, x, item, bytes)
  BY <1>3, <1>5, <1>6 DEF WrittenAs
<1> QED
  BY <1>7 DEF hs, h

\* Numbers are read as they were written.
LEMMA IntRestored ==
    ASSUME NEW bytes \in Seq(Byte), NEW item, NEW w, NEW neg \in BOOLEAN, NEW arg \in Arg
    PROVE  WrittenAs(EncodeItem(Int_(neg, arg), w), Int_(neg, arg), item, bytes)
<1> DEFINE major == IF neg THEN 1 ELSE 0
           x == Int_(neg, arg)
           h == _encode_head(major, arg)
           e == << >>
<1>1. major \in 0 .. 6 /\ major \in {0, 1} /\ (major = 1) = neg
  OBVIOUS
<1>2. EncodeItem(x, w) = h
  BY DEF EncodeItem, Int_
<1> HIDE DEF major
<1>3. e \in Seq(Byte) /\ Len(e) = 0
  OBVIOUS
<1> HIDE DEF e
<1>4. \A at \in Nat : Rest(bytes, item, major, Decoded(arg, at)) = Decoded(x, at + Len(e))
  <2> SUFFICES ASSUME NEW at \in Nat
               PROVE  Rest(bytes, item, major, Decoded(arg, at)) = Decoded(x, at + Len(e))
    OBVIOUS
  <2>1. Rest(bytes, item, major, Decoded(arg, at)) = Decoded(Int_(major = 1, arg), at)
    BY <1>1 DEF Rest, Decoded
  <2>2. at + Len(e) = at
    BY <1>3
  <2> QED
    BY <1>1, <2>1, <2>2
<1>5. WrittenAs(h \o e, x, item, bytes)
  <2> HIDE DEF h, x
  <2>1. \A at \in Nat : Holds(bytes, at, e) =>
           LET first == Decoded(arg, at)
           IN  Rest(bytes, item, major, first) = Decoded(x, at + Len(e))
    BY <1>4
  <2> QED
    BY <1>1, <1>3, <2>1, HeadedItem DEF h
<1>6. h \o e = h
  BY <1>1, HeadWritten, ConcatEmptySeq DEF e
<1> QED
  BY <1>2, <1>5, <1>6

\* Strings are read as they were written.
LEMMA BytesRestored ==
    ASSUME NEW bytes \in Seq(Byte), NEW item, NEW w, NEW s \in Short(Byte)
    PROVE  /\ WrittenAs(EncodeItem(ByteString(s), w), ByteString(s), item, bytes)
           /\ IsUtf8(s) => WrittenAs(EncodeItem(Text(s), w), Text(s), item, bytes)
<1> DEFINE d == LengthDigits(s)
<1>1. s \in Seq(Byte) /\ Len(s) \in Nat /\ Len(s) < TooLong
  BY LenProperties DEF Short
<1>2. d \in Arg /\ Size(d) = Len(s)
  BY <1>1, LengthWritten
<1>3. EncodeItem(ByteString(s), w) = _encode_head(2, d) \o s
  BY DEF EncodeItem, ByteString
<1>4. EncodeItem(Text(s), w) = _encode_head(3, d) \o s
  BY DEF EncodeItem, Text
<1> HIDE DEF d
<1>5. \A at \in Nat : Holds(bytes, at, s) =>
         LET h == Decoded(d, at) IN Rest(bytes, item, 2, h) = Decoded(ByteString(s), at + Len(s))
  <2> SUFFICES ASSUME NEW at \in Nat, Holds(bytes, at, s)
               PROVE  Rest(bytes, item, 2, Decoded(d, at)) = Decoded(ByteString(s), at + Len(s))
    OBVIOUS
  <2>1. ReadString(bytes, at, Len(s), FALSE) = Decoded(ByteString(s), at + Len(s))
    BY <1>1, StringRestored
  <2>2. Rest(bytes, item, 2, Decoded(d, at)) = ReadString(bytes, at, Size(d), 2 = 3)
    BY DEF Rest, Decoded
  <2>3. (2 = 3) = FALSE
    OBVIOUS
  <2> QED
    BY <1>2, <2>1, <2>2, <2>3
<1>6. ASSUME IsUtf8(s)
      PROVE  \A at \in Nat : Holds(bytes, at, s) =>
                LET h == Decoded(d, at) IN Rest(bytes, item, 3, h) = Decoded(Text(s), at + Len(s))
  <2> SUFFICES ASSUME NEW at \in Nat, Holds(bytes, at, s)
               PROVE  Rest(bytes, item, 3, Decoded(d, at)) = Decoded(Text(s), at + Len(s))
    OBVIOUS
  <2>1. ReadString(bytes, at, Len(s), TRUE) = Decoded(Text(s), at + Len(s))
    BY <1>1, <1>6, StringRestored
  <2>2. Rest(bytes, item, 3, Decoded(d, at)) = ReadString(bytes, at, Size(d), 3 = 3)
    BY DEF Rest, Decoded
  <2>3. (3 = 3) = TRUE
    OBVIOUS
  <2> QED
    BY <1>2, <2>1, <2>2, <2>3
<1>7. WrittenAs(_encode_head(2, d) \o s, ByteString(s), item, bytes)
  <2>1. 2 \in 0 .. 6
    OBVIOUS
  <2> QED
    BY <1>1, <1>2, <1>5, <2>1, HeadedItem
<1>8. ASSUME IsUtf8(s) PROVE WrittenAs(_encode_head(3, d) \o s, Text(s), item, bytes)
  <2>1. 3 \in 0 .. 6
    OBVIOUS
  <2> QED
    BY <1>1, <1>2, <1>6, <1>8, <2>1, HeadedItem
<1> QED
  BY <1>3, <1>4, <1>7, <1>8

\* The simple values are read as they were written.
LEMMA SimpleRestored ==
    ASSUME NEW bytes \in Seq(Byte), NEW item, NEW w, NEW s \in {"false", "true", "null"}
    PROVE  WrittenAs(EncodeItem(Simple(s), w), Simple(s), item, bytes)
<1> DEFINE b == CASE s = "false" -> 244 [] s = "true" -> 245 [] s = "null" -> 246
           t == <<b>>
           x == Simple(s)
<1>1. EncodeItem(x, w) = t
  BY DEF EncodeItem, Simple
<1>2. b \in Byte /\ b \div 32 = 7 /\ b % 32 \in {20, 21, 22}
      /\ \A at : ReadSimple(b % 32, at) = Decoded(x, at)
  <2>1. CASE s = "false"
    <3>1. b = 244
      BY <2>1
    <3> HIDE DEF b
    <3>2. b \in Byte /\ b \div 32 = 7 /\ b % 32 = 20
      BY <3>1 DEF Byte
    <3>3. \A at : ReadSimple(b % 32, at) = Decoded(x, at)
      BY <2>1, <3>2 DEF ReadSimple
    <3> QED
      BY <3>2, <3>3
  <2>2. CASE s = "true"
    <3>1. b = 245
      BY <2>2
    <3> HIDE DEF b
    <3>2. b \in Byte /\ b \div 32 = 7 /\ b % 32 = 21
      BY <3>1 DEF Byte
    <3>3. \A at : ReadSimple(b % 32, at) = Decoded(x, at)
      BY <2>2, <3>2 DEF ReadSimple
    <3> QED
      BY <3>2, <3>3
  <2>3. CASE s = "null"
    <3>1. b = 246
      BY <2>3
    <3> HIDE DEF b
    <3>2. b \in Byte /\ b \div 32 = 7 /\ b % 32 = 22
      BY <3>1 DEF Byte
    <3>3. \A at : ReadSimple(b % 32, at) = Decoded(x, at)
      BY <2>3, <3>2 DEF ReadSimple
    <3> QED
      BY <3>2, <3>3
  <2> QED
    BY <2>1, <2>2, <2>3
<1> HIDE DEF b
<1>3. t \in Seq(Byte) /\ Len(t) = 1 /\ t[1] = b /\ t # << >>
  BY <1>2
<1> HIDE DEF t, x
<1>4. ASSUME NEW o \in Nat, Holds(bytes, o, t)
      PROVE  ItemAt(bytes, item, o) = Decoded(x, o + Len(t))
  <2>1. o + 1 <= Len(bytes) /\ bytes[o + 1] = b
    BY <1>3, <1>4 DEF Holds
  <2>2. ItemAt(bytes, item, o) = ReadSimple(b % 32, o + 1)
    BY <1>2, <2>1 DEF ItemAt, _need
  <2> QED
    BY <1>2, <1>3, <2>2
<1>5. WrittenAs(t, x, item, bytes)
  BY <1>3, <1>4 DEF WrittenAs
<1> QED
  BY <1>1, <1>5 DEF x

\* Joined sequences that are not empty have a byte each.
LEMMA FlattenLong ==
    ASSUME NEW seqs \in Seq(Seq(Byte)),
           \A n \in Nat : n < Len(seqs) => seqs[n + 1] # << >>
    PROVE  Len(seqs) <= Len(FlattenSeq(seqs)) /\ Len(FlattenSeq(seqs)) \in Nat
<1> DEFINE N == Len(seqs)
           T == {n \in Nat : n <= N => n <= Len(Joined(seqs, n))}
<1>1. N \in Nat
  BY LenProperties
<1>2. 0 \in T
  <2>1. Joined(seqs, 0) = << >> /\ Len(<< >>) = 0
    BY JoinedTurn
  <2> QED
    BY <2>1
<1>3. \A n \in Nat : n \in T => n + 1 \in T
  <2> HIDE DEF N
  <2> SUFFICES ASSUME NEW n \in Nat, n <= N => n <= Len(Joined(seqs, n)), n + 1 <= N
               PROVE  n + 1 <= Len(Joined(seqs, n + 1))
    OBVIOUS
  <2> DEFINE x == Len(Joined(seqs, n))
             y == Len(seqs[n + 1])
             z == Len(Joined(seqs, n + 1))
  <2>1. n \in 0 .. N /\ n < N /\ n <= N
    BY <1>1
  <2>2. x \in Nat /\ seqs[n + 1] \in Seq(Byte) /\ z = x + y
    BY <2>1, JoinedTyped DEF N
  <2>3. y \in Nat \ {0}
    <3>1. seqs[n + 1] # << >>
      BY <2>1 DEF N
    <3> QED
      BY <2>2, <3>1, EmptySeq
  <2>4. n <= x
    BY <2>1
  <2> HIDE DEF x, y, z
  <2>5. n + 1 <= z
    BY <2>2, <2>3, <2>4
  <2> QED
    BY <2>5 DEF z
<1>4. \A n \in Nat : n \in T
  <2> HIDE DEF T
  <2> QED
    BY <1>2, <1>3, Joins!Induction
<1>5. N <= Len(Joined(seqs, N))
  <2> HIDE DEF N
  <2> QED
    BY <1>1, <1>4
<1> QED
  BY <1>5, FlattenJoins, LenProperties

\* Loops over what was written have as many turns as there are parts.
LEMMA TurnsRestored ==
    ASSUME NEW bytes \in Seq(Byte), NEW arg, NEW n \in Nat, Size(arg) = n,
           NEW at \in Nat, NEW s, Holds(bytes, at, s), Len(s) \in Nat, n <= Len(s)
    PROVE  Turns(bytes, arg) = n
<1>1. Len(bytes) \in Nat /\ at + Len(s) <= Len(bytes)
  BY LenProperties DEF Holds
<1>2. n <= Len(bytes)
  BY <1>1
<1> QED
  BY <1>2 DEF Turns

\* Arrays are read as they were written.
LEMMA ArrayRestored ==
    ASSUME NEW bytes \in Seq(Byte), NEW item, NEW S, NEW w, Writes(S, w, item, bytes),
           NEW items \in Short(S)
    PROVE  WrittenAs(EncodeItem(Array(items), w), Array(items), item, bytes)
<1> DEFINE N == Len(items)
           d == LengthDigits(items)
           seqs == [i \in DOMAIN items |-> w[items[i]]]
           s == FlattenSeq(seqs)
<1>1. items \in Seq(S) /\ N \in Nat /\ N < TooLong /\ DOMAIN items = 1 .. N
      /\ \A i \in 1 .. N : items[i] \in S
  BY LenProperties DEF Short
<1>2. d \in Arg /\ Size(d) = N
  BY <1>1, LengthWritten
<1>3. EncodeItem(Array(items), w) = _encode_head(4, d) \o s
  BY DEF EncodeItem, Array
<1>4. seqs \in Seq(Seq(Byte)) /\ Len(seqs) = N
      /\ \A i \in 1 .. N : seqs[i] = w[items[i]]
  <2>1. \A i \in 1 .. N : w[items[i]] \in Seq(Byte)
    BY <1>1 DEF Writes, OneToOne
  <2> HIDE DEF N
  <2>2. seqs \in [1 .. N -> Seq(Byte)]
    BY <1>1, <2>1
  <2> QED
    BY <1>1, <2>2
<1> HIDE DEF d, seqs
<1>5. \A n \in Nat : n < N => /\ seqs[n + 1] # << >>
                              /\ Reads(item, bytes, seqs[n + 1], items[n + 1])
  <2> SUFFICES ASSUME NEW n \in Nat, n < N
               PROVE  seqs[n + 1] # << >> /\ Reads(item, bytes, seqs[n + 1], items[n + 1])
    OBVIOUS
  <2> DEFINE k == n + 1
  <2>1. k \in 1 .. N
    BY <1>1
  <2> HIDE DEF k, N
  <2>2. seqs[k] = w[items[k]] /\ items[k] \in S
    BY <1>1, <1>4, <2>1
  <2>3. seqs[k] # << >> /\ Reads(item, bytes, seqs[k], items[k])
    BY <2>2 DEF Writes
  <2> QED
    BY <2>3 DEF k
<1>6. s \in Seq(Byte)
  BY <1>4, FlattenJoins
<1>7. N <= Len(s) /\ Len(s) \in Nat
  BY <1>4, <1>5, FlattenLong
<1>8. \A at \in Nat : Holds(bytes, at, s) =>
         LET h == Decoded(d, at) IN Rest(bytes, item, 4, h) = Decoded(Array(items), at + Len(s))
  <2> SUFFICES ASSUME NEW at \in Nat, Holds(bytes, at, s)
               PROVE  Rest(bytes, item, 4, Decoded(d, at)) = Decoded(Array(items), at + Len(s))
    OBVIOUS
  <2>1. Rest(bytes, item, 4, Decoded(d, at)) = Elements!Iterate(Loop(item, at))[Turns(bytes, d)]
    BY DEF Rest, Decoded
  <2>2. Turns(bytes, d) = N
    <3> HIDE DEF s, N
    <3> QED
      BY <1>1, <1>2, <1>7, TurnsRestored
  <2>3. Elements!Iterate(Loop(item, at))[N] = Decoded(Array(items), at + Len(s))
    <3>1. items \in Seq(S) /\ seqs \in Seq(Seq(Byte)) /\ Len(seqs) = Len(items)
      BY <1>1, <1>4
    <3>2. Holds(bytes, at, FlattenSeq(seqs))
      OBVIOUS
    <3>3. \A n \in Nat : n < Len(seqs) => Reads(item, bytes, seqs[n + 1], items[n + 1])
      BY <1>4, <1>5
    <3>4. ElementsHeld(bytes, at, item, S, items, seqs)
      BY <3>1, <3>2, <3>3 DEF ElementsHeld
    <3> QED
      BY <3>4, ElementsRestored
  <2> QED
    BY <2>1, <2>2, <2>3
<1> HIDE DEF s
<1>9. WrittenAs(_encode_head(4, d) \o s, Array(items), item, bytes)
  <2>1. 4 \in 0 .. 6
    OBVIOUS
  <2> QED
    BY <1>2, <1>6, <1>8, <2>1, HeadedItem
<1> QED
  BY <1>3, <1>9

\* The entries of a map as they are written.
EncodedDict(E, w) == {<<w[e[1]], w[e[2]]>> : e \in E}

\* Written entries are as many as there were, or fewer, with different keys.
LEMMA DictEncoded ==
    ASSUME NEW S, NEW w, OneToOne(S, w), NEW E \in Dicts(S)
    PROVE  /\ EncodedEntries(EncodedDict(E, w))
           /\ Cardinality(EncodedDict(E, w)) <= Cardinality(E)
           /\ Cardinality(EncodedDict(E, w)) \in Nat /\ Cardinality(E) \in Nat
<1> DEFINE D == EncodedDict(E, w)
           f == [e \in E |-> <<w[e[1]], w[e[2]]>>]
<1>1. E \subseteq S \X S /\ IsFiniteSet(E) /\ \A d, e \in E : Hashed(d[1]) = Hashed(e[1]) => d = e
  BY DEF Dicts
<1>2. f \in Surjection(E, D)
  <2>1. f \in [E -> D]
    BY DEF EncodedDict
  <2>2. \A x \in D : \E e \in E : f[e] = x
    BY DEF EncodedDict
  <2> HIDE DEF f, D
  <2> QED
    BY <2>1, <2>2 DEF Surjection
<1> HIDE DEF f
<1>3. IsFiniteSet(D) /\ Cardinality(D) <= Cardinality(E)
  <2> HIDE DEF D
  <2> QED
    BY <1>1, <1>2, FS_Surjection
<1>4. D \subseteq Seq(Byte) \X Seq(Byte)
  <2> SUFFICES ASSUME NEW e \in E PROVE <<w[e[1]], w[e[2]]>> \in Seq(Byte) \X Seq(Byte)
    BY DEF EncodedDict
  <2>1. e[1] \in S /\ e[2] \in S
    BY <1>1
  <2> QED
    BY <2>1 DEF OneToOne
<1>5. \A x, y \in D : x[1] = y[1] => x = y
  <2> SUFFICES ASSUME NEW d \in E, NEW e \in E, w[d[1]] = w[e[1]]
               PROVE  <<w[d[1]], w[d[2]]>> = <<w[e[1]], w[e[2]]>>
    BY DEF EncodedDict
  <2>1. d[1] \in S /\ e[1] \in S
    BY <1>1
  <2>2. d[1] = e[1]
    BY <2>1 DEF OneToOne
  <2>3. d = e
    BY <1>1, <2>2
  <2> QED
    BY <2>3
<1> QED
  BY <1>1, <1>3, <1>4, <1>5, FS_CardinalityType DEF EncodedEntries

\* The entry that was written as x.
EntryOf(E, w, x) == CHOOSE e \in E : <<w[e[1]], w[e[2]]>> = x

\* Entries as they are written, one after another.
Joint(entry, w) == [i \in DOMAIN entry |-> w[entry[i][1]] \o w[entry[i][2]]]

\* The entries of E, each once, in an order in which w writes them.
InOrder(entry, E, S, w) ==
    /\ entry \in Seq(S \X S) /\ Range(entry) = E /\ Len(entry) < TooLong
    /\ \A i, j \in 1 .. Len(entry) : entry[i] = entry[j] => i = j
    /\ EncodeItem(Map(E), w) = _encode_head(5, LengthDigits(entry)) \o FlattenSeq(Joint(entry, w))

\* A map is written as its entries in some order.
LEMMA MapWritten ==
    ASSUME NEW S, NEW w, OneToOne(S, w), NEW E \in Dicts(S)
    PROVE  \E entry : InOrder(entry, E, S, w)
<1> DEFINE D == EncodedDict(E, w)
           N == Cardinality(D)
           sorted == Sorted(D)
           seqs == [i \in DOMAIN sorted |-> sorted[i][1] \o sorted[i][2]]
           entry == [i \in 1 .. N |-> EntryOf(E, w, sorted[i])]
<1>1. EncodedEntries(D) /\ N \in Nat /\ N < TooLong
  BY DictEncoded DEF Dicts, TooLong
<1>2. /\ sorted \in [1 .. N -> D]
      /\ \A x \in D : \E i \in 1 .. N : sorted[i] = x
      /\ \A i, j \in 1 .. N : sorted[i] = sorted[j] => i = j
  BY <1>1, SortedEnumerates
<1>3. EncodeItem(Map(E), w) = _encode_head(5, LengthDigits(sorted)) \o FlattenSeq(seqs)
  BY DEF EncodeItem, Map, EncodedDict
<1>4. E \subseteq S \X S
  BY DEF Dicts
<1>5. \A x \in D : \E e \in E : <<w[e[1]], w[e[2]]>> = x
  BY DEF EncodedDict
<1>6. \A e \in E : <<w[e[1]], w[e[2]]>> \in D
  BY DEF EncodedDict
<1> HIDE DEF D
<1>7. \A x \in D : EntryOf(E, w, x) \in E
         /\ <<w[EntryOf(E, w, x)[1]], w[EntryOf(E, w, x)[2]]>> = x
  BY <1>5 DEF EntryOf
<1> HIDE DEF N, sorted
<1>8. /\ DOMAIN sorted = 1 .. N /\ Len(sorted) = N
      /\ \A i \in 1 .. N : sorted[i] \in D
  BY <1>1, <1>2
<1>9. \A i \in 1 .. N :
          /\ entry[i] \in E
          /\ w[entry[i][1]] = sorted[i][1] /\ w[entry[i][2]] = sorted[i][2]
  <2> SUFFICES ASSUME NEW i \in 1 .. N
               PROVE  /\ entry[i] \in E
                      /\ w[entry[i][1]] = sorted[i][1] /\ w[entry[i][2]] = sorted[i][2]
    OBVIOUS
  <2> DEFINE x == sorted[i]
             e == EntryOf(E, w, x)
  <2>1. x \in D /\ entry[i] = e
    BY <1>8
  <2> HIDE DEF x, e
  <2>2. e \in E /\ <<w[e[1]], w[e[2]]>> = x
    BY <1>7, <2>1 DEF e
  <2> HIDE DEF entry
  <2> QED
    BY <2>1, <2>2 DEF x
<1>10. entry \in Seq(S \X S) /\ Len(entry) = N /\ DOMAIN entry = 1 .. N
  <2>1. \A i \in 1 .. N : EntryOf(E, w, sorted[i]) \in S \X S
    BY <1>4, <1>7, <1>8
  <2>2. entry \in [1 .. N -> S \X S]
    BY <2>1
  <2> HIDE DEF entry
  <2> QED
    BY <1>1, <2>2
<1> HIDE DEF entry
<1>11. seqs = Joint(entry, w)
  BY <1>8, <1>9, <1>10 DEF Joint
<1>12. \A i, j \in 1 .. N : entry[i] = entry[j] => i = j
  <2> SUFFICES ASSUME NEW i \in 1 .. N, NEW j \in 1 .. N, entry[i] = entry[j] PROVE i = j
    OBVIOUS
  <2> DEFINE x == sorted[i]
             y == sorted[j]
  <2>1. x[1] = y[1] /\ x \in D /\ y \in D
    BY <1>8, <1>9
  <2> HIDE DEF x, y
  <2>2. x = y
    BY <1>1, <2>1 DEF EncodedEntries
  <2> QED
    BY <1>2, <2>2 DEF x, y
<1>13. Range(entry) = E
  <2>1. \A e \in E : \E i \in 1 .. N : entry[i] = e
    <3> SUFFICES ASSUME NEW e \in E PROVE \E i \in 1 .. N : entry[i] = e
      OBVIOUS
    <3>1. PICK i \in 1 .. N : sorted[i] = <<w[e[1]], w[e[2]]>>
      BY <1>2, <1>6
    <3> DEFINE f == entry[i]
    <3>2. f \in E /\ <<w[f[1]], w[f[2]]>> = <<w[e[1]], w[e[2]]>>
      BY <1>9, <3>1
    <3> HIDE DEF f
    <3>3. f \in S \X S /\ e \in S \X S
      BY <1>4, <3>2
    <3>4. f[1] = e[1] /\ f[2] = e[2]
      BY <3>2, <3>3 DEF OneToOne
    <3>5. f = e
      BY <3>3, <3>4
    <3> QED
      BY <3>5 DEF f
  <2>2. {entry[i] : i \in 1 .. N} = E
    BY <1>9, <2>1
  <2> QED
    BY <1>10, <2>2 DEF Range
<1>14. LengthDigits(entry) = LengthDigits(sorted)
  BY <1>8, <1>10 DEF LengthDigits
<1>15. InOrder(entry, E, S, w)
  BY <1>1, <1>3, <1>10, <1>11, <1>12, <1>13, <1>14 DEF InOrder
<1> QED
  BY <1>15

\* Each entry of the list is written as its key and its value.
InParts(entry, S, w, seqs) ==
    /\ seqs \in Seq(Seq(Byte)) /\ Len(seqs) = Len(entry)
    /\ \A i \in 1 .. Len(entry) :
          /\ entry[i][1] \in S /\ entry[i][2] \in S
          /\ w[entry[i][1]] \in Seq(Byte) /\ w[entry[i][2]] \in Seq(Byte)
          /\ seqs[i] = w[entry[i][1]] \o w[entry[i][2]]

\* What the entries are written as, in bytes.
LEMMA JointTyped ==
    ASSUME NEW S, NEW w, OneToOne(S, w), NEW E, NEW entry, InOrder(entry, E, S, w)
    PROVE  InParts(entry, S, w, Joint(entry, w))
<1> DEFINE N == Len(entry)
           s == Joint(entry, w)
<1>1. N \in Nat /\ DOMAIN entry = 1 .. N /\ \A i \in 1 .. N : entry[i] \in S \X S
  BY LenProperties DEF InOrder
<1> HIDE DEF N
<1>2. \A i \in 1 .. N : entry[i][1] \in S /\ entry[i][2] \in S
  BY <1>1
<1>3. \A i \in 1 .. N : w[entry[i][1]] \in Seq(Byte) /\ w[entry[i][2]] \in Seq(Byte)
  BY <1>2 DEF OneToOne
<1>4. \A i \in 1 .. N : w[entry[i][1]] \o w[entry[i][2]] \in Seq(Byte)
  BY <1>3, ConcatProperties
<1>5. s \in [1 .. N -> Seq(Byte)] /\ \A i \in 1 .. N : s[i] = w[entry[i][1]] \o w[entry[i][2]]
  BY <1>1, <1>4 DEF Joint
<1> HIDE DEF s
<1>6. s \in Seq(Seq(Byte)) /\ Len(s) = N
  BY <1>1, <1>5
<1> QED
  BY <1>2, <1>3, <1>5, <1>6 DEF s, N, InParts

\* Maps are read as they were written.
LEMMA MapRestored ==
    ASSUME NEW bytes \in Seq(Byte), NEW item, NEW S, NEW w, Writes(S, w, item, bytes),
           NEW E \in Dicts(S)
    PROVE  WrittenAs(EncodeItem(Map(E), w), Map(E), item, bytes)
<1>1. OneToOne(S, w)
  BY DEF Writes
<1>2. PICK entry : InOrder(entry, E, S, w)
  BY <1>1, MapWritten
<1> DEFINE N == Len(entry)
           d == LengthDigits(entry)
           seqs == Joint(entry, w)
           s == FlattenSeq(seqs)
<1>3. /\ entry \in Seq(S \X S) /\ Range(entry) = E /\ N < TooLong /\ N \in Nat
      /\ \A i, j \in 1 .. N : entry[i] = entry[j] => i = j
      /\ EncodeItem(Map(E), w) = _encode_head(5, d) \o s
  BY <1>2, LenProperties DEF InOrder
<1>4. /\ \A e \in E : Hashable(e[1])
      /\ \A e, f \in E : Hashed(e[1]) = Hashed(f[1]) => e = f
  BY DEF Dicts
<1>5. d \in Arg /\ Size(d) = N
  BY <1>3, LengthWritten
<1>6. /\ seqs \in Seq(Seq(Byte)) /\ Len(seqs) = N
      /\ \A i \in 1 .. N :
            /\ entry[i][1] \in S /\ entry[i][2] \in S
            /\ w[entry[i][1]] \in Seq(Byte) /\ w[entry[i][2]] \in Seq(Byte)
            /\ seqs[i] = w[entry[i][1]] \o w[entry[i][2]]
  <2>1. InParts(entry, S, w, Joint(entry, w))
    BY <1>1, <1>2, JointTyped
  <2> QED
    BY <2>1 DEF InParts
<1>7. \A i \in 1 .. N : entry[i] \in E
  BY <1>3, LenProperties DEF Range
<1> HIDE DEF seqs, d
<1>8. DistinctKeys(entry)
  <2> SUFFICES ASSUME NEW n \in Nat, n < N
               PROVE  /\ Hashable(entry[n + 1][1])
                      /\ \A m \in 1 .. n : Hashed(entry[m][1]) # Hashed(entry[n + 1][1])
    BY DEF DistinctKeys
  <2> DEFINE k == n + 1
  <2> HIDE DEF N
  <2>1. k \in 1 .. N /\ \A m \in 1 .. n : m \in 1 .. N /\ m # k
    BY <1>3
  <2> HIDE DEF k
  <2>2. entry[k] \in E /\ \A m \in 1 .. n : entry[m] \in E /\ entry[m] # entry[k]
    BY <1>3, <1>7, <2>1
  <2>3. Hashable(entry[k][1]) /\ \A m \in 1 .. n : Hashed(entry[m][1]) # Hashed(entry[k][1])
    BY <1>4, <2>2
  <2> QED
    BY <2>3 DEF k
<1>9. \A n \in Nat : n < N =>
          /\ seqs[n + 1] # << >>
          /\ \E k, v \in Seq(Byte) :
                /\ seqs[n + 1] = k \o v
                /\ Reads(item, bytes, k, entry[n + 1][1])
                /\ Reads(item, bytes, v, entry[n + 1][2])
  <2> SUFFICES ASSUME NEW n \in Nat, n < N
               PROVE  /\ seqs[n + 1] # << >>
                      /\ \E k, v \in Seq(Byte) :
                            /\ seqs[n + 1] = k \o v
                            /\ Reads(item, bytes, k, entry[n + 1][1])
                            /\ Reads(item, bytes, v, entry[n + 1][2])
    OBVIOUS
  <2> DEFINE j == n + 1
             e == entry[j]
             k == w[e[1]]
             v == w[e[2]]
  <2> HIDE DEF N
  <2>1. j \in 1 .. N
    BY <1>3
  <2> HIDE DEF j
  <2>2. e[1] \in S /\ e[2] \in S /\ k \in Seq(Byte) /\ v \in Seq(Byte) /\ seqs[j] = k \o v
    BY <1>6, <2>1
  <2> HIDE DEF e
  <2>3. Reads(item, bytes, k, e[1]) /\ Reads(item, bytes, v, e[2]) /\ k # << >>
    BY <2>2 DEF Writes
  <2> HIDE DEF k, v
  <2>4. k \o v # << >>
    BY <2>2, <2>3, ConcatEqualIffEmpty
  <2> QED
    BY <2>2, <2>3, <2>4 DEF j, e
<1>10. s \in Seq(Byte)
  BY <1>6, FlattenJoins
<1>11. N <= Len(s) /\ Len(s) \in Nat
  BY <1>6, <1>9, FlattenLong
<1>12. \A at \in Nat : Holds(bytes, at, s) =>
          LET h == Decoded(d, at) IN Rest(bytes, item, 5, h) = Decoded(Map(E), at + Len(s))
  <2> SUFFICES ASSUME NEW at \in Nat, Holds(bytes, at, s)
               PROVE  Rest(bytes, item, 5, Decoded(d, at)) = Decoded(Map(E), at + Len(s))
    OBVIOUS
  <2>1. Rest(bytes, item, 5, Decoded(d, at)) = Entries!Iterate(Loop(item, at))[Turns(bytes, d)]
    BY DEF Rest, Decoded
  <2>2. Turns(bytes, d) = N
    <3> HIDE DEF s, N
    <3> QED
      BY <1>3, <1>5, <1>11, TurnsRestored
  <2>3. EntriesHeld(bytes, at, item, S, entry, seqs)
    BY <1>3, <1>6, <1>8, <1>9 DEF EntriesHeld
  <2>4. Entries!Iterate(Loop(item, at))[Len(entry)]
          = Decoded(Map(Range(entry)), at + Len(s))
    <3>1. Entries!Iterate(Loop(item, at))[Len(entry)]
            = Decoded(Map(Range(entry)), at + Len(FlattenSeq(seqs)))
      BY <2>3, EntriesRestored
    <3> QED
      BY <3>1
  <2> QED
    BY <1>3, <2>1, <2>2, <2>4
<1> HIDE DEF s, N
<1>13. WrittenAs(_encode_head(5, d) \o s, Map(E), item, bytes)
  <2>1. 5 \in 0 .. 6
    OBVIOUS
  <2> QED
    BY <1>5, <1>10, <1>12, <2>1, HeadedItem
<1> QED
  BY <1>3, <1>13

-----------------------------------------------------------------------------
(* Calls of dumps within one another, and the round trip.                   *)
\* What k nested calls of dumps write, and of what.
NoValues(c) == << >>
OneMoreValue(c, w) == [x \in ValuesOver(DOMAIN w) |-> EncodeItem(x, w)]
Written == INSTANCE IterationProofs WITH Base <- NoValues, Step <- OneMoreValue
Output(k) == Written!Iterate(None)[k]
Values(k) == DOMAIN Output(k)

\* One call writes the values whose parts the calls below it write.
LEMMA WrittenTurn ==
    /\ Values(0) = {}
    /\ \A k \in Nat : /\ Values(k + 1) = ValuesOver(Values(k))
                      /\ Output(k + 1)
                           = [x \in ValuesOver(Values(k)) |-> EncodeItem(x, Output(k))]
<1>1. Output(0) = << >>
  BY Written!IterateDef DEF Output, NoValues
<1>2. DOMAIN << >> = {}
  OBVIOUS
<1>3. \A k \in Nat : Output(k + 1) = OneMoreValue(None, Output(k))
  BY Written!IterateDef DEF Output
<1>4. Values(0) = {}
  BY <1>1, <1>2 DEF Values
<1>5. \A k \in Nat : Output(k + 1)
                       = [x \in ValuesOver(Values(k)) |-> EncodeItem(x, Output(k))]
  BY <1>3 DEF OneMoreValue, Values
<1>6. \A k \in Nat : Values(k + 1) = ValuesOver(Values(k))
  BY <1>5 DEF Values
<1> QED
  BY <1>4, <1>5, <1>6

\* One item is read as it was written if its parts are.
LEMMA ItemWritten ==
    ASSUME NEW bytes \in Seq(Byte), NEW item, NEW S, NEW w, Writes(S, w, item, bytes),
           NEW x \in ValuesOver(S)
    PROVE  WrittenAs(EncodeItem(x, w), x, item, bytes)
<1>1. ASSUME NEW neg \in BOOLEAN, NEW arg \in Arg, x = Int_(neg, arg)
      PROVE  WrittenAs(EncodeItem(x, w), x, item, bytes)
  BY <1>1, IntRestored
<1>2. ASSUME NEW s \in Short(Byte), x = ByteString(s)
      PROVE  WrittenAs(EncodeItem(x, w), x, item, bytes)
  BY <1>2, BytesRestored
<1>3. ASSUME NEW s \in Short(Byte), IsUtf8(s), x = Text(s)
      PROVE  WrittenAs(EncodeItem(x, w), x, item, bytes)
  BY <1>3, BytesRestored
<1>4. ASSUME NEW s \in Short(S), x = Array(s)
      PROVE  WrittenAs(EncodeItem(x, w), x, item, bytes)
  BY <1>4, ArrayRestored
<1>5. ASSUME NEW E \in Dicts(S), x = Map(E)
      PROVE  WrittenAs(EncodeItem(x, w), x, item, bytes)
  BY <1>5, MapRestored
<1>6. ASSUME NEW s \in {"false", "true", "null"}, x = Simple(s)
      PROVE  WrittenAs(EncodeItem(x, w), x, item, bytes)
  BY <1>6, SimpleRestored
<1> QED
  BY <1>1, <1>2, <1>3, <1>4, <1>5, <1>6 DEF ValuesOver

\* What k calls write, k calls read, from any bytes that hold it.
LEMMA WrittenIsRead ==
    \A k \in Nat : \A bytes \in Seq(Byte) :
        Writes(Values(k), Output(k), Calls!Iterate(bytes)[k], bytes)
<1> DEFINE T == {k \in Nat : \A bytes \in Seq(Byte) :
                    Writes(Values(k), Output(k), Calls!Iterate(bytes)[k], bytes)}
<1>1. 0 \in T
  BY WrittenTurn DEF Writes, OneToOne
<1>2. \A k \in Nat : k \in T => k + 1 \in T
  <2> SUFFICES ASSUME NEW k \in Nat,
                      \A bytes \in Seq(Byte) :
                         Writes(Values(k), Output(k), Calls!Iterate(bytes)[k], bytes),
                      NEW bytes \in Seq(Byte)
               PROVE  Writes(Values(k + 1), Output(k + 1), Calls!Iterate(bytes)[k + 1], bytes)
    OBVIOUS
  <2> DEFINE w == Output(k + 1)
             S == Values(k + 1)
             item(b) == Calls!Iterate(b)[k + 1]
  <2>1. S = ValuesOver(Values(k)) /\ \A x \in S : w[x] = EncodeItem(x, Output(k))
    BY WrittenTurn
  <2>2. ASSUME NEW b \in Seq(Byte), NEW x \in S
        PROVE  w[x] \in Seq(Byte) /\ w[x] # << >> /\ Reads(item(b), b, w[x], x)
    <3>1. Writes(Values(k), Output(k), Calls!Iterate(b)[k], b)
      OBVIOUS
    <3> HIDE DEF S, w
    <3>2. WrittenAs(w[x], x, Calls!Iterate(b)[k], b)
      BY <2>1, <3>1, ItemWritten
    <3>3. \A o \in Nat : item(b)[o] = ItemAt(b, Calls!Iterate(b)[k], o)
      <4> DEFINE below == Calls!Iterate(b)[k]
      <4>1. item(b) = OneMoreCall(b, below)
        BY CallsTurn
      <4> HIDE DEF item, below
      <4>2. \A o \in Nat : item(b)[o] = ItemAt(b, below, o)
        BY <4>1 DEF OneMoreCall
      <4> QED
        BY <4>2 DEF below
    <3> HIDE DEF item
    <3> QED
      BY <3>2, <3>3 DEF WrittenAs, Reads
  <2>3. ASSUME NEW x \in S, NEW y \in S, w[x] = w[y] PROVE x = y
    <3> DEFINE b == w[x]
    <3> HIDE DEF item, S, w
    <3>1. b \in Seq(Byte)
      BY <2>2
    <3> HIDE DEF b
    <3>2. Reads(item(b), b, b, x) /\ Reads(item(b), b, b, y)
      BY <2>2, <2>3, <3>1 DEF b
    <3>3. Holds(b, 0, b)
      BY <3>1, LenProperties DEF Holds
    <3>4. item(b)[0] = Decoded(x, 0 + Len(b)) /\ item(b)[0] = Decoded(y, 0 + Len(b))
      BY <3>2, <3>3 DEF Reads
    <3>5. Decoded(x, 0 + Len(b)).value = x /\ Decoded(y, 0 + Len(b)).value = y
      BY DEF Decoded
    <3> QED
      BY <3>4, <3>5
  <2> HIDE DEF w, S, item
  <2>4. Writes(S, w, item(bytes), bytes)
    BY <2>2, <2>3 DEF Writes, OneToOne
  <2> QED
    BY <2>4 DEF w, S, item
<1>3. \A k \in Nat : k \in T
  <2> HIDE DEF T
  <2> QED
    BY <1>1, <1>2, ElementTurns!Induction
<1> QED
  BY <1>3

InsideOf == INSTANCE IterationProofs WITH Base <- Itself, Step <- WithChildren
DumpDepths == INSTANCE IterationProofs WITH Base <- NoBytes, Step <- OneMoreDump

\* What is in a value begins with itself and is joined by its children.
LEMMA WithinTurn ==
    \A v : /\ Within!Iterate(v)[0] = {v}
           /\ \A n \in Nat :
                Within!Iterate(v)[n + 1]
                  = Within!Iterate(v)[n] \cup UNION {Children(x) : x \in Within!Iterate(v)[n]}
<1>1. \A v : Within!Iterate(v)[0] = Itself(v)
  BY InsideOf!IterateDef DEF Within!Iterate, InsideOf!Iterate
<1>2. \A v : \A n \in Nat :
         Within!Iterate(v)[n + 1] = WithChildren(v, Within!Iterate(v)[n])
  BY InsideOf!IterateDef DEF Within!Iterate, InsideOf!Iterate
<1>3. \A v, parts : WithChildren(v, parts) = parts \cup UNION {Children(x) : x \in parts}
  BY DEF WithChildren
<1>4. \A v : Itself(v) = {v}
  BY DEF Itself
<1> QED
  BY <1>1, <1>2, <1>3, <1>4

\* One more call writes what consists of what the calls below it write.
LEMMA DumpsTurn ==
    \A parts : \A k \in Nat :
        LET bytes == Dumps!Iterate(parts)[k]
        IN  Dumps!Iterate(parts)[k + 1]
              = [x \in {y \in parts : Children(y) \subseteq DOMAIN bytes} |-> EncodeItem(x, bytes)]
<1>1. \A parts : \A k \in Nat :
         Dumps!Iterate(parts)[k + 1] = OneMoreDump(parts, Dumps!Iterate(parts)[k])
  BY DumpDepths!IterateDef DEF Dumps!Iterate, DumpDepths!Iterate
<1> QED
  BY <1>1 DEF OneMoreDump

\* The parts of a value are in the set that it is over.
LEMMA ChildrenWithin ==
    ASSUME NEW S, NEW x \in ValuesOver(S)
    PROVE  Children(x) \subseteq S
<1>1. ASSUME x.type \notin {"array", "map"} PROVE Children(x) = {}
  BY <1>1 DEF Children
<1>2. ASSUME NEW s \in Short(S), x = Array(s) PROVE Children(x) \subseteq S
  <2>1. Children(x) = Range(s)
    BY <1>2 DEF Children, Array
  <2>2. \A i \in DOMAIN s : s[i] \in S
    BY LenProperties DEF Short
  <2> QED
    BY <2>1, <2>2 DEF Range
<1>3. ASSUME NEW E \in Dicts(S), x = Map(E) PROVE Children(x) \subseteq S
  <2>1. Children(x) = UNION {{e[1], e[2]} : e \in E}
    BY <1>3 DEF Children, Map
  <2>2. \A e \in E : e[1] \in S /\ e[2] \in S
    BY DEF Dicts
  <2> QED
    BY <2>1, <2>2
<1>4. \A neg, arg : Int_(neg, arg).type = "int"
  BY DEF Int_
<1>5. \A s : ByteString(s).type = "bytes" /\ Text(s).type = "text" /\ Simple(s).type = "simple"
  BY DEF ByteString, Text, Simple
<1> QED
  BY <1>1, <1>2, <1>3, <1>4, <1>5 DEF ValuesOver

\* What is written of a value depends on what is written of its parts only.
LEMMA EncodedAlike ==
    ASSUME NEW S, NEW x \in ValuesOver(S), NEW v, NEW w,
           \A y \in Children(x) : v[y] = w[y]
    PROVE  EncodeItem(x, v) = EncodeItem(x, w)
<1>1. ASSUME x.type \notin {"array", "map"} PROVE EncodeItem(x, v) = EncodeItem(x, w)
  BY <1>1 DEF EncodeItem
<1>2. ASSUME NEW s \in Short(S), x = Array(s) PROVE EncodeItem(x, v) = EncodeItem(x, w)
  <2>1. Children(x) = Range(s)
    BY <1>2 DEF Children, Array
  <2>2. \A i \in DOMAIN s : v[s[i]] = w[s[i]]
    BY <2>1 DEF Range
  <2>3. [i \in DOMAIN s |-> v[s[i]]] = [i \in DOMAIN s |-> w[s[i]]]
    BY <2>2
  <2> QED
    BY <1>2, <2>3 DEF EncodeItem, Array
<1>3. ASSUME NEW E \in Dicts(S), x = Map(E) PROVE EncodeItem(x, v) = EncodeItem(x, w)
  <2>1. Children(x) = UNION {{e[1], e[2]} : e \in E}
    BY <1>3 DEF Children, Map
  <2>2. \A e \in E : v[e[1]] = w[e[1]] /\ v[e[2]] = w[e[2]]
    BY <2>1
  <2>3. {<<v[e[1]], v[e[2]]>> : e \in E} = {<<w[e[1]], w[e[2]]>> : e \in E}
    BY <2>2
  <2> QED
    BY <1>3, <2>3 DEF EncodeItem, Map
<1>4. \A neg, arg : Int_(neg, arg).type = "int"
  BY DEF Int_
<1>5. \A s : ByteString(s).type = "bytes" /\ Text(s).type = "text" /\ Simple(s).type = "simple"
  BY DEF ByteString, Text, Simple
<1> QED
  BY <1>1, <1>2, <1>3, <1>4, <1>5 DEF ValuesOver

\* The parts that dumps collects of a value include the children of each.
LEMMA PartsClosed ==
    ASSUME NEW v \in Values(RecursionLimit)
    PROVE  LET parts == Within!Iterate(v)[RecursionLimit]
           IN  v \in parts /\ \A x \in parts : Children(x) \subseteq parts
<1> DEFINE R == RecursionLimit
           in(n) == Within!Iterate(v)[n]
           T == {n \in Nat : n <= R =>
                    /\ v \in in(n)
                    /\ \A x \in in(n) : x \in Values(R - n) \/ Children(x) \subseteq in(n)}
<1>1. R \in Nat
  BY RecursionLimitAssumption
<1>2. 0 \in T
  <2>1. in(0) = {v} /\ R - 0 = R
    BY <1>1, WithinTurn
  <2> QED
    BY <2>1
<1>3. \A n \in Nat : n \in T => n + 1 \in T
  <2> HIDE DEF in, R
  <2> SUFFICES ASSUME NEW n \in Nat, n + 1 <= R,
                      n <= R => /\ v \in in(n)
                                /\ \A x \in in(n) : \/ x \in Values(R - n)
                                                    \/ Children(x) \subseteq in(n)
               PROVE  /\ v \in in(n + 1)
                      /\ \A x \in in(n + 1) : \/ x \in Values(R - (n + 1))
                                              \/ Children(x) \subseteq in(n + 1)
    OBVIOUS
  <2> DEFINE k == R - (n + 1)
  <2>1. k \in Nat /\ k + 1 = R - n /\ n <= R
    BY <1>1
  <2> HIDE DEF k
  <2>2. in(n + 1) = in(n) \cup UNION {Children(x) : x \in in(n)}
    BY WithinTurn DEF in
  <2>3. v \in in(n + 1)
    BY <2>1, <2>2
  <2>4. \A x \in in(n) : Children(x) \subseteq in(n + 1)
    BY <2>2
  <2>5. ASSUME NEW y \in in(n), NEW x \in Children(y)
        PROVE  x \in Values(k) \/ x \in in(n)
    <3>1. CASE y \in Values(k + 1)
      <4>1. y \in ValuesOver(Values(k))
        BY <2>1, <3>1, WrittenTurn
      <4> QED
        BY <4>1, ChildrenWithin
    <3>2. CASE Children(y) \subseteq in(n)
      BY <3>2
    <3> QED
      BY <2>1, <3>1, <3>2
  <2>6. \A x \in in(n + 1) : x \in Values(k) \/ Children(x) \subseteq in(n + 1)
    BY <2>2, <2>4, <2>5
  <2> QED
    BY <2>3, <2>6 DEF k
<1>4. \A n \in Nat : n \in T
  <2> HIDE DEF T
  <2> QED
    BY <1>2, <1>3, ElementTurns!Induction
<1>5. R - R = 0 /\ Values(0) = {} /\ R <= R
  BY <1>1, WrittenTurn
<1> HIDE DEF in, R
<1>6. v \in in(R) /\ \A x \in in(R) : Children(x) \subseteq in(R)
  BY <1>1, <1>4, <1>5
<1> QED
  BY <1>6 DEF in, R

\* dumps writes what its calls, each of its parts by one call less, write.
LEMMA DumpsWrites ==
    ASSUME NEW v \in Values(RecursionLimit)
    PROVE  dumps(v) = Output(RecursionLimit)[v]
<1> DEFINE parts == Within!Iterate(v)[RecursionLimit]
           d(k) == Dumps!Iterate(parts)[k]
           T == {k \in Nat : \A x \in parts \cap Values(k) :
                    x \in DOMAIN d(k) /\ d(k)[x] = Output(k)[x]}
<1>1. v \in parts /\ \A x \in parts : Children(x) \subseteq parts
  BY PartsClosed
<1> HIDE DEF parts
<1>2. 0 \in T
  BY WrittenTurn
<1>3. \A k \in Nat : k \in T => k + 1 \in T
  <2> SUFFICES ASSUME NEW k \in Nat,
                      \A x \in parts \cap Values(k) : x \in DOMAIN d(k) /\ d(k)[x] = Output(k)[x],
                      NEW x \in parts, x \in Values(k + 1)
               PROVE  x \in DOMAIN d(k + 1) /\ d(k + 1)[x] = Output(k + 1)[x]
    OBVIOUS
  <2>1. d(k + 1) = [y \in {z \in parts : Children(z) \subseteq DOMAIN d(k)} |-> EncodeItem(y, d(k))]
    BY DumpsTurn
  <2>2. x \in ValuesOver(Values(k)) /\ Output(k + 1)[x] = EncodeItem(x, Output(k))
    BY WrittenTurn
  <2>3. Children(x) \subseteq Values(k) /\ Children(x) \subseteq parts
    BY <1>1, <2>2, ChildrenWithin
  <2> HIDE DEF d
  <2>4. \A y \in Children(x) : y \in DOMAIN d(k) /\ d(k)[y] = Output(k)[y]
    BY <2>3
  <2>5. EncodeItem(x, d(k)) = EncodeItem(x, Output(k))
    BY <2>2, <2>4, EncodedAlike
  <2> QED
    BY <2>1, <2>2, <2>4, <2>5
<1>4. \A k \in Nat : k \in T
  <2> HIDE DEF T
  <2> QED
    BY <1>2, <1>3, ElementTurns!Induction
<1> HIDE DEF d
<1>5. d(RecursionLimit)[v] = Output(RecursionLimit)[v]
  BY <1>1, <1>4, RecursionLimitAssumption
<1> QED
  BY <1>5 DEF dumps, d, parts

\* Whatever dumps can write, loads reads back: the value that was written, and
\* nothing is left over.
THEOREM RoundTrip ==
    ASSUME NEW v \in Values(RecursionLimit)
    PROVE  dumps(v) \in Seq(Byte) /\ loads(dumps(v)) = Value(v)
<1> DEFINE s == Output(RecursionLimit)[v]
           item == Calls!Iterate(s)[RecursionLimit]
<1>1. dumps(v) = s
  BY DumpsWrites
<1>2. s \in Seq(Byte)
  <2> DEFINE e == << >>
             below == Calls!Iterate(e)[RecursionLimit]
  <2>1. e \in Seq(Byte)
    OBVIOUS
  <2> HIDE DEF e
  <2>2. Writes(Values(RecursionLimit), Output(RecursionLimit), below, e)
    BY <2>1, WrittenIsRead, RecursionLimitAssumption
  <2> QED
    BY <2>2 DEF Writes, OneToOne
<1> HIDE DEF s
<1>3. Writes(Values(RecursionLimit), Output(RecursionLimit), item, s)
  BY <1>2, WrittenIsRead, RecursionLimitAssumption
<1>4. item[0] = Decoded(v, 0 + Len(s))
  <2>1. Reads(item, s, s, v)
    BY <1>3 DEF Writes, s
  <2>2. Holds(s, 0, s)
    BY <1>2, LenProperties DEF Holds
  <2> HIDE DEF item
  <2> QED
    BY <2>1, <2>2 DEF Reads
<1>5. _decode(s, 0) = item[0]
  BY DEF _decode
<1>6. 0 + Len(s) = Len(s)
  BY <1>2, LenProperties
<1> HIDE DEF item
<1>7. loads(s) = Value(v)
  <2> DEFINE r == _decode(s, 0)
  <2>1. r.ok /\ r.value = v /\ r.offset = Len(s)
    BY <1>4, <1>5, <1>6 DEF Decoded
  <2>2. loads(s) = IF r.ok THEN IF r.offset = Len(s) THEN Value(r.value) ELSE CBORError ELSE r
    BY DEF loads, AndThen, AllRead
  <2> HIDE DEF r
  <2> QED
    BY <2>1, <2>2
<1> QED
  BY <1>1, <1>2, <1>7

-----------------------------------------------------------------------------
(* The codec, from loads to dumps: what was read is written in no more bytes. *)
\* More parts, more values.
LEMMA MoreValues ==
    ASSUME NEW S, NEW R, S \subseteq R
    PROVE  ValuesOver(S) \subseteq ValuesOver(R)
<1>1. Short(S) \subseteq Short(R)
  <2> SUFFICES ASSUME NEW s \in Seq(S) PROVE s \in Seq(R)
    BY DEF Short
  <2>1. s \in [1 .. Len(s) -> S] /\ Len(s) \in Nat
    BY LenProperties
  <2> QED
    BY <2>1
<1>2. Dicts(S) \subseteq Dicts(R)
  BY DEF Dicts
<1> QED
  BY <1>1, <1>2 DEF ValuesOver

\* A further call writes what could be written before, and writes it the same.
LEMMA ValuesGrow ==
    \A k \in Nat : /\ Values(k) \subseteq Values(k + 1)
                   /\ \A x \in Values(k) : Output(k + 1)[x] = Output(k)[x]
<1> DEFINE T == {k \in Nat : /\ Values(k) \subseteq Values(k + 1)
                             /\ \A x \in Values(k) : Output(k + 1)[x] = Output(k)[x]}
<1>1. 0 \in T
  BY WrittenTurn
<1>2. \A k \in Nat : k \in T => k + 1 \in T
  <2> SUFFICES ASSUME NEW j \in Nat, NEW k \in Nat, k = j + 1,
                      Values(j) \subseteq Values(k),
                      \A x \in Values(j) : Output(k)[x] = Output(j)[x]
               PROVE  /\ Values(k) \subseteq Values(k + 1)
                      /\ \A x \in Values(k) : Output(k + 1)[x] = Output(k)[x]
    OBVIOUS
  <2>1. /\ Values(k) = ValuesOver(Values(j)) /\ Values(k + 1) = ValuesOver(Values(k))
        /\ \A x \in ValuesOver(Values(j)) : Output(k)[x] = EncodeItem(x, Output(j))
        /\ \A x \in ValuesOver(Values(k)) : Output(k + 1)[x] = EncodeItem(x, Output(k))
    BY WrittenTurn
  <2>2. Values(k) \subseteq Values(k + 1)
    BY <2>1, MoreValues
  <2>3. ASSUME NEW x \in Values(k) PROVE Output(k + 1)[x] = Output(k)[x]
    <3>1. x \in ValuesOver(Values(j)) /\ x \in ValuesOver(Values(k))
      BY <2>1, <2>2
    <3>2. \A y \in Children(x) : Output(k)[y] = Output(j)[y]
      BY <3>1, ChildrenWithin
    <3>3. EncodeItem(x, Output(k)) = EncodeItem(x, Output(j))
      BY <3>1, <3>2, EncodedAlike
    <3> QED
      BY <2>1, <3>1, <3>3
  <2> QED
    BY <2>2, <2>3
<1>3. \A k \in Nat : k \in T
  <2> HIDE DEF T
  <2> QED
    BY <1>1, <1>2, ElementTurns!Induction
<1> QED
  BY <1>3

\* One byte is the digits of its number.
LEMMA OneByte ==
    ASSUME NEW n \in 0 .. 23
    PROVE  Size(Digits(<<n>>)) = n
<1> DEFINE s == <<n>>
           T == {i \in DOMAIN s : s[i] # 0}
<1>1. s \in Seq(Byte) /\ Len(s) = 1 /\ s[1] = n /\ DOMAIN s = {1}
  BY DEF Byte
<1>2. CASE n = 0
  <2> HIDE DEF s
  <2>1. T = {}
    BY <1>1, <1>2
  <2>2. Digits(s) = << >>
    BY <2>1 DEF Digits
  <2> DEFINE e == << >>
  <2>3. Len(e) = 0
    OBVIOUS
  <2> HIDE DEF e
  <2>4. ToBytes(e, 2)[1] = 0 /\ ToBytes(e, 2)[2] = 0
    BY <2>3 DEF ToBytes
  <2>5. Size(e) = 256 * ToBytes(e, 2)[1] + ToBytes(e, 2)[2]
    BY <2>3 DEF Size
  <2>6. Size(e) = 0
    BY <2>4, <2>5
  <2> QED
    BY <1>2, <2>2, <2>6 DEF e, s
<1>3. CASE n # 0
  <2> HIDE DEF s
  <2>1. T # {}
    BY <1>1, <1>3
  <2>2. Min(T) = 1
    BY <1>1, <2>1, FirstNonzero
  <2> HIDE DEF T
  <2>3. Digits(s) = SubSeq(s, 1, Len(s))
    BY <1>1, <2>1, <2>2 DEF Digits, T
  <2>4. Digits(s) = s
    BY <1>1, <2>3, SubSeqFull
  <2>5. ToBytes(s, 2)[1] = 0 /\ ToBytes(s, 2)[2] = n
    BY <1>1 DEF ToBytes
  <2>6. Size(s) = 256 * ToBytes(s, 2)[1] + ToBytes(s, 2)[2]
    BY <1>1 DEF Size
  <2>7. Size(s) = n
    BY <2>5, <2>6
  <2> QED
    BY <2>4, <2>7 DEF s
<1> QED
  BY <1>2, <1>3

\* A head is written in one byte and the narrowest width that holds it.
LEMMA HeadLong ==
    ASSUME NEW major \in 0 .. 6, NEW arg \in Arg
    PROVE  Len(_encode_head(major, arg))
             = IF Size(arg) < 24 THEN 1 ELSE 1 + Widths[WidthIndex(arg)]
<1>1. CASE Size(arg) < 24
  <2> DEFINE b == 32 * major + Size(arg)
  <2>1. _encode_head(major, arg) = <<b>>
    BY <1>1 DEF _encode_head
  <2> HIDE DEF b
  <2> QED
    BY <1>1, <2>1
<1>2. CASE ~ (Size(arg) < 24)
  <2> DEFINE i == WidthIndex(arg)
             b == 32 * major + 23 + i
             s == <<b>>
             t == ToBytes(arg, Widths[i])
  <2>1. i \in 1 .. 4 /\ Len(arg) <= Widths[i]
    BY WidthFound
  <2> HIDE DEF i
  <2>2. Widths[i] \in Nat
    BY <2>1 DEF Widths
  <2>3. t \in Seq(Byte) /\ Len(t) = Widths[i]
    BY <2>1, <2>2, ToBytesTyped DEF Arg, Number
  <2>4. b \in Byte
    BY <2>1 DEF Byte
  <2>5. s \in Seq(Byte) /\ Len(s) = 1
    BY <2>4
  <2>6. _encode_head(major, arg) = s \o t
    BY <1>2 DEF _encode_head, i
  <2> HIDE DEF s, t
  <2>7. Len(s \o t) = Len(s) + Len(t)
    BY <2>3, <2>5, ConcatProperties
  <2> QED
    BY <1>2, <2>3, <2>5, <2>6, <2>7 DEF i
<1> QED
  BY <1>1, <1>2

\* A number is read from a head that is no shorter than the one it is written in.
LEMMA HeadEconomical ==
    ASSUME NEW bytes \in Seq(Byte), NEW at \in Nat, at <= Len(bytes), NEW info \in 0 .. 31,
           NEW major \in 0 .. 6, _read_length(bytes, at, info).ok
    PROVE  LET head == _read_length(bytes, at, info)
           IN  /\ head.value \in Arg
               /\ head.offset \in Nat /\ at <= head.offset /\ head.offset <= Len(bytes)
               /\ at + Len(_encode_head(major, head.value)) <= head.offset + 1
<1> DEFINE head == _read_length(bytes, at, info)
           arg == head.value
           long == Len(_encode_head(major, arg))
<1>1. head.offset \in Nat /\ at <= head.offset /\ head.offset <= Len(bytes)
  BY HeadTyped
<1>2. CASE info < 24
  <2> DEFINE s == <<info>>
  <2>1. s \in Seq(Byte) /\ Len(s) <= 8
    BY <1>2 DEF Byte
  <2>2. head = Decoded(Digits(s), at)
    BY <1>2 DEF _read_length
  <2>3. Size(Digits(s)) = info
    <3>1. info \in 0 .. 23
      BY <1>2
    <3> QED
      BY <3>1, OneByte
  <2> HIDE DEF s, head
  <2>4. arg = Digits(s) /\ head.offset = at
    BY <2>2 DEF Decoded
  <2>5. arg \in Arg
    BY <2>1, <2>4, DigitsAreArg
  <2> HIDE DEF arg
  <2>6. long = 1
    BY <1>2, <2>3, <2>4, <2>5, HeadLong
  <2> HIDE DEF long
  <2>7. at + long <= head.offset + 1
    BY <2>4, <2>6
  <2> QED
    BY <1>1, <2>5, <2>7 DEF long, arg, head
<1>3. CASE info \in 24 .. 27 /\ _need(bytes, at, Widths[info - 23])
  <2> DEFINE k == info - 23
             width == Widths[k]
             s == Bytes(bytes, at, width)
  <2>1. k \in 1 .. 4
    BY <1>3
  <2>2. head = Decoded(Digits(s), at + width)
    BY <1>3 DEF _read_length
  <2>3. at + width <= Len(bytes)
    BY <1>3 DEF _need
  <2> HIDE DEF k
  <2>4. width \in 1 .. 8
    BY <2>1 DEF Widths
  <2> HIDE DEF width
  <2>5. s \in Seq(Byte) /\ Len(s) = width
    BY <2>3, <2>4, BytesTyped
  <2> HIDE DEF s, head
  <2>6. arg = Digits(s) /\ head.offset = at + width
    BY <2>2 DEF Decoded
  <2>7. arg \in Arg /\ Len(arg) <= width
    <3>1. Len(s) <= 8 /\ Len(s) <= width
      BY <2>4, <2>5
    <3>2. Digits(s) \in Arg
      BY <2>5, <3>1, DigitsAreArg
    <3>3. Len(Digits(s)) <= width
      BY <2>5, DigitsTyped
    <3> QED
      BY <2>6, <3>2, <3>3
  <2> HIDE DEF arg
  <2>8. Widths[WidthIndex(arg)] <= width /\ Widths[WidthIndex(arg)] \in Nat
    <3> DEFINE i == WidthIndex(arg)
    <3>1. i \in 1 .. 4 /\ i <= k
      BY <2>1, <2>7, WidthFound DEF width
    <3> HIDE DEF i
    <3>2. Widths[i] <= Widths[k] /\ Widths[i] \in Nat
      BY <2>1, <3>1 DEF Widths
    <3> QED
      BY <3>2 DEF i, width
  <2>9. long = 1 \/ long = 1 + Widths[WidthIndex(arg)]
    BY <2>7, HeadLong
  <2> DEFINE u == Widths[WidthIndex(arg)]
  <2> HIDE DEF long, u
  <2>10. at + long <= head.offset + 1
    BY <2>4, <2>6, <2>8, <2>9 DEF u
  <2> QED
    BY <1>1, <2>7, <2>10 DEF long, arg, head
<1>4. CASE ~(info < 24) /\ ~(info \in 24 .. 27 /\ _need(bytes, at, Widths[info - 23]))
  BY <1>4 DEF _read_length, CBORError, Error
<1> QED
  BY <1>2, <1>3, <1>4

\* One more sequence is joined to what the others are joined to.
LEMMA FlattenAppend ==
    ASSUME NEW seqs \in Seq(Seq(Byte)), NEW s \in Seq(Byte)
    PROVE  /\ Append(seqs, s) \in Seq(Seq(Byte))
           /\ FlattenSeq(seqs) \in Seq(Byte) /\ FlattenSeq(Append(seqs, s)) \in Seq(Byte)
           /\ Len(FlattenSeq(Append(seqs, s))) = Len(FlattenSeq(seqs)) + Len(s)
<1> DEFINE N == Len(seqs)
           more == Append(seqs, s)
           T == {n \in Nat : n <= N => Joined(more, n) = Joined(seqs, n)}
<1>1. N \in Nat
  BY LenProperties
<1>2. /\ more \in Seq(Seq(Byte)) /\ Len(more) = N + 1 /\ more[N + 1] = s
      /\ \A i \in 1 .. N : more[i] = seqs[i]
  BY AppendProperties
<1> HIDE DEF N, more
<1>3. 0 \in T
  BY JoinedTurn
<1>4. \A n \in Nat : n \in T => n + 1 \in T
  <2> SUFFICES ASSUME NEW n \in Nat, n <= N => Joined(more, n) = Joined(seqs, n), n + 1 <= N
               PROVE  Joined(more, n + 1) = Joined(seqs, n + 1)
    OBVIOUS
  <2>1. n <= N /\ n + 1 \in 1 .. N
    BY <1>1
  <2>2. more[n + 1] = seqs[n + 1]
    BY <1>2, <2>1
  <2>3. Joined(more, n) = Joined(seqs, n)
    BY <2>1
  <2> QED
    BY <2>2, <2>3, JoinedTurn
<1>5. \A n \in Nat : n \in T
  <2> HIDE DEF T
  <2> QED
    BY <1>3, <1>4, Joins!Induction
<1>6. Joined(more, N) = Joined(seqs, N)
  BY <1>1, <1>5
<1> HIDE DEF T
<1> DEFINE a == Joined(seqs, N)
<1>7. FlattenSeq(seqs) = a /\ a \in Seq(Byte)
  BY FlattenJoins DEF N
<1>8. FlattenSeq(more) = Joined(more, N + 1) /\ FlattenSeq(more) \in Seq(Byte)
  BY <1>2, FlattenJoins
<1>9. Joined(more, N + 1) = Joined(more, N) \o more[N + 1]
  BY <1>1, JoinedTurn
<1>10. FlattenSeq(more) = a \o s
  BY <1>2, <1>6, <1>8, <1>9
<1> HIDE DEF a
<1>11. Len(a \o s) = Len(a) + Len(s)
  BY <1>7, ConcatProperties
<1> QED
  BY <1>2, <1>7, <1>8, <1>10, <1>11 DEF more

\* What item reads from bytes is in S, and w writes it in bytes that are no more
\* than those it was read from.
Economical(item, bytes, S, w) ==
    /\ bytes \in Seq(Byte) /\ Len(bytes) < TooLong
    /\ OneToOne(S, w)
    /\ \A o \in Nat : item[o].ok =>
          /\ item[o].value \in S
          /\ item[o].offset \in Nat /\ o < item[o].offset /\ item[o].offset <= Len(bytes)
          /\ o + Len(w[item[o].value]) <= item[o].offset

\* The elements of an array as they are written.
Each(items, w) == [i \in DOMAIN items |-> w[items[i]]]

\* A list of n elements that were read from the bytes before end.
ListRead(list, at, n, bytes, S, w) ==
    \E items \in Seq(S) :
       /\ list.value = Array(items) /\ Len(items) = n
       /\ list.offset \in Nat /\ at + n <= list.offset /\ list.offset <= Len(bytes)
       /\ at + Len(FlattenSeq(Each(items, w))) <= list.offset

\* w stands for each member of S by one of B.
Stands(w, S, B) == \A x \in S : w[x] \in B

\* What stands for the elements is of one kind.
LEMMA EachTyped ==
    ASSUME NEW S, NEW B, NEW w, Stands(w, S, B), NEW items \in Seq(S)
    PROVE  Each(items, w) \in Seq(B) /\ Len(Each(items, w)) = Len(items)
<1> DEFINE N == Len(items)
           a == Each(items, w)
<1>1. N \in Nat /\ DOMAIN items = 1 .. N /\ \A i \in 1 .. N : items[i] \in S
  BY LenProperties
<1> HIDE DEF N
<1>2. a \in [1 .. N -> B]
  BY <1>1 DEF Each, Stands
<1> HIDE DEF a
<1>3. a \in Seq(B) /\ Len(a) = N
  BY <1>1, <1>2
<1> QED
  BY <1>3 DEF a, N

\* One more element comes behind the others.
LEMMA EachAppend ==
    ASSUME NEW S, NEW B, NEW w, Stands(w, S, B), NEW items \in Seq(S), NEW x \in S
    PROVE  /\ Each(items, w) \in Seq(B)
           /\ Each(Append(items, x), w) = Append(Each(items, w), w[x])
<1> DEFINE N == Len(items)
           more == Append(items, x)
           a == Each(items, w)
           b == Each(more, w)
           c == Append(a, w[x])
<1>1. N \in Nat /\ DOMAIN items = 1 .. N /\ \A i \in 1 .. N : items[i] \in S
  BY LenProperties
<1>2. /\ more \in Seq(S) /\ Len(more) = N + 1 /\ more[N + 1] = x
      /\ \A i \in 1 .. N : more[i] = items[i]
  BY AppendProperties
<1>3. DOMAIN more = 1 .. N + 1 /\ \A i \in 1 .. N + 1 : more[i] \in S
  BY <1>2, LenProperties
<1>4. a = [i \in 1 .. N |-> w[items[i]]] /\ b = [i \in 1 .. N + 1 |-> w[more[i]]]
  BY <1>1, <1>3 DEF Each
<1> HIDE DEF N, more
<1>5. a \in [1 .. N -> B]
  BY <1>1, <1>4 DEF Stands
<1>6. b \in [1 .. N + 1 -> B]
  BY <1>3, <1>4 DEF Stands
<1>7. \A i \in 1 .. N : a[i] = b[i]
  <2> SUFFICES ASSUME NEW i \in 1 .. N PROVE a[i] = b[i]
    OBVIOUS
  <2>1. i \in 1 .. N + 1
    BY <1>1
  <2> QED
    BY <1>2, <1>4, <2>1
<1>8. b[N + 1] = w[x]
  <2>1. N + 1 \in 1 .. N + 1
    BY <1>1
  <2> QED
    BY <1>2, <1>4, <2>1
<1> HIDE DEF a, b
<1>9. a \in Seq(B) /\ Len(a) = N
  BY <1>1, <1>5
<1>10. b \in Seq(B) /\ Len(b) = N + 1
  <2>1. N + 1 \in Nat
    BY <1>1
  <2> QED
    BY <1>6, <2>1
<1>11. w[x] \in B
  BY DEF Stands
<1>12. /\ c \in Seq(B) /\ Len(c) = N + 1 /\ c[N + 1] = w[x]
       /\ \A i \in 1 .. N : c[i] = a[i]
  BY <1>9, <1>11, AppendProperties
<1> HIDE DEF c
<1>13. \A i \in 1 .. N + 1 : b[i] = c[i]
  <2>1. 1 .. N + 1 = (1 .. N) \cup {N + 1}
    BY <1>1, OneMore
  <2> QED
    BY <1>7, <1>8, <1>12, <2>1
<1>14. b = c
  BY <1>10, <1>12, <1>13, SeqEqual
<1> QED
  BY <1>9, <1>14 DEF a, b, c, more

\* The elements of an array are written in bytes that are no more than those
\* they were read from.
LEMMA ElementsEconomical ==
    ASSUME NEW item, NEW bytes, NEW S, NEW w, Economical(item, bytes, S, w),
           NEW at \in Nat, at <= Len(bytes)
    PROVE  \A n \in Nat :
              LET list == Elements!Iterate(Loop(item, at))[n]
              IN  list.ok => ListRead(list, at, n, bytes, S, w)
<1> DEFINE list(n) == Elements!Iterate(Loop(item, at))[n]
           T == {n \in Nat : list(n).ok => ListRead(list(n), at, n, bytes, S, w)}
<1>1. 0 \in T
  <2> DEFINE e == << >>
  <2>1. list(0) = Decoded(Array(e), at)
    BY ElementsStart DEF NoElements, Loop
  <2>2. e \in Seq(S) /\ Len(e) = 0
    OBVIOUS
  <2>3. Len(FlattenSeq(Each(e, w))) = 0
    <3>1. Each(e, w) = << >>
      BY DEF Each
    <3>2. FlattenSeq(<< >>) = << >>
      BY DEF FlattenSeq
    <3> QED
      BY <3>1, <3>2
  <2> HIDE DEF e, list
  <2>4. list(0).value = Array(e) /\ list(0).offset = at
    BY <2>1 DEF Decoded
  <2>5. /\ at + 0 <= at /\ at + Len(FlattenSeq(Each(e, w))) <= at
    BY <2>3
  <2>6. ListRead(list(0), at, 0, bytes, S, w)
    BY <2>2, <2>4, <2>5 DEF ListRead
  <2> QED
    BY <2>6
<1>2. \A n \in Nat : n \in T => n + 1 \in T
  <2> HIDE DEF list
  <2> SUFFICES ASSUME NEW n \in Nat,
                      list(n).ok => ListRead(list(n), at, n, bytes, S, w),
                      list(n + 1).ok
               PROVE  ListRead(list(n + 1), at, n + 1, bytes, S, w)
    OBVIOUS
  <2> DEFINE before == list(n)
             after == list(n + 1)
             next == item[before.offset]
  <2>1. after = NextElement(Loop(item, at), before)
    BY ElementsTurn DEF list
  <2> HIDE DEF after, before
  <2>2. NextElement(Loop(item, at), before)
          = IF before.ok
            THEN IF next.ok
                 THEN Decoded(Array(Append(before.value.items, next.value)), next.offset)
                 ELSE next
            ELSE before
    BY DEF NextElement, AndThen, Loop
  <2>3. before.ok /\ next.ok
    BY <2>1, <2>2 DEF after
  <2>4. PICK items \in Seq(S) :
           /\ before.value = Array(items) /\ Len(items) = n
           /\ before.offset \in Nat /\ at + n <= before.offset /\ before.offset <= Len(bytes)
           /\ at + Len(FlattenSeq(Each(items, w))) <= before.offset
    BY <2>3 DEF ListRead, before
  <2> DEFINE x == next.value
             more == Append(items, x)
             o == before.offset
  <2>5. /\ x \in S /\ next.offset \in Nat /\ o < next.offset /\ next.offset <= Len(bytes)
        /\ o + Len(w[x]) <= next.offset /\ w[x] \in Seq(Byte)
    BY <2>3, <2>4 DEF Economical, OneToOne
  <2>6. after = Decoded(Array(more), next.offset)
    <3>1. before.value.items = items
      BY <2>4 DEF Array
    <3> QED
      BY <2>1, <2>2, <2>3, <3>1
  <2> HIDE DEF next
  <2>7. after.value = Array(more) /\ after.offset = next.offset
    BY <2>6 DEF Decoded
  <2> HIDE DEF x
  <2>8. more \in Seq(S) /\ Len(more) = n + 1
    BY <2>4, <2>5, AppendProperties
  <2>9. Len(FlattenSeq(Each(more, w))) = Len(FlattenSeq(Each(items, w))) + Len(w[x])
        /\ Len(FlattenSeq(Each(items, w))) \in Nat /\ Len(w[x]) \in Nat
    <3> DEFINE a == Each(items, w)
               b == w[x]
    <3>1. a \in Seq(Seq(Byte)) /\ Each(more, w) = Append(a, b)
      <4>1. Stands(w, S, Seq(Byte))
        BY DEF Economical, OneToOne, Stands
      <4> QED
        BY <2>4, <2>5, <4>1, EachAppend
    <3>2. b \in Seq(Byte)
      BY <2>5
    <3> HIDE DEF a, b
    <3>3. FlattenSeq(a) \in Seq(Byte) /\ Len(FlattenSeq(Append(a, b))) = Len(FlattenSeq(a)) + Len(b)
      BY <3>1, <3>2, FlattenAppend
    <3>4. Len(FlattenSeq(a)) \in Nat /\ Len(b) \in Nat
      BY <3>2, <3>3, LenProperties
    <3> QED
      BY <3>1, <3>3, <3>4 DEF a, b
  <2> DEFINE p == Len(FlattenSeq(Each(items, w)))
             q == Len(w[x])
             r == Len(FlattenSeq(Each(more, w)))
  <2>10. p \in Nat /\ q \in Nat /\ r = p + q /\ at + p <= o /\ o + q <= next.offset
         /\ o \in Nat /\ next.offset \in Nat /\ at + n <= o /\ o < next.offset
    BY <2>4, <2>5, <2>9
  <2> HIDE DEF p, q, r, o, more
  <2>11. at + r <= next.offset /\ at + (n + 1) <= next.offset
    BY <2>10
  <2>12. ListRead(after, at, n + 1, bytes, S, w)
    BY <2>5, <2>7, <2>8, <2>11 DEF ListRead, r
  <2> QED
    BY <2>12 DEF after
<1>3. \A n \in Nat : n \in T
  <2> HIDE DEF T
  <2> QED
    BY <1>1, <1>2, ElementTurns!Induction
<1> QED
  BY <1>3

\* What an item is read as belongs to values, and is written in bytes that are
\* no more than those from offset on to its end.
Saves(r, offset, bytes, values, w) ==
    r.ok => /\ r.value \in values
            /\ EncodeItem(r.value, w) \in Seq(Byte)
            /\ r.offset \in Nat /\ r.offset <= Len(bytes)
            /\ offset + Len(EncodeItem(r.value, w)) <= r.offset

\* A head that was read, from offset on, as arg.
HeadRead(bytes, offset, head, major) ==
    /\ head.value \in Arg
    /\ offset \in Nat /\ head.offset \in Nat /\ offset < head.offset /\ head.offset <= Len(bytes)
    /\ offset + Len(_encode_head(major, head.value)) <= head.offset

\* What is written behind a head that was read from at most as many bytes.
LEMMA HeadedSaves ==
    ASSUME NEW bytes, NEW offset, NEW head, NEW major \in 0 .. 6,
           HeadRead(bytes, offset, head, major),
           NEW s \in Seq(Byte), NEW end \in Nat, head.offset + Len(s) <= end
    PROVE  /\ _encode_head(major, head.value) \o s \in Seq(Byte)
           /\ offset + Len(_encode_head(major, head.value) \o s) <= end
<1> DEFINE h == _encode_head(major, head.value)
           m == Len(h)
           n == Len(s)
<1>1. h \in Seq(Byte) /\ m \in Nat /\ n \in Nat
  BY HeadWritten, LenProperties DEF HeadRead
<1>2. offset + m <= head.offset /\ head.offset \in Nat /\ offset \in Nat /\ head.offset + n <= end
  BY DEF HeadRead
<1> HIDE DEF h
<1>3. h \o s \in Seq(Byte) /\ Len(h \o s) = m + n
  BY <1>1, ConcatProperties
<1> HIDE DEF m, n
<1>4. offset + (m + n) <= end
  BY <1>1, <1>2
<1> QED
  BY <1>3, <1>4 DEF h

\* A number is written in bytes that are no more than those it was read from.
LEMMA IntSaves ==
    ASSUME NEW bytes, NEW item, NEW S, NEW w, NEW offset, NEW head, NEW major \in {0, 1},
           HeadRead(bytes, offset, head, major)
    PROVE  Saves(Rest(bytes, item, major, head), offset, bytes, ValuesOver(S), w)
<1> DEFINE r == Rest(bytes, item, major, head)
           arg == head.value
           neg == major = 1
           x == Int_(neg, arg)
<1>1. r = Decoded(x, head.offset)
  BY DEF Rest
<1>2. arg \in Arg /\ neg \in BOOLEAN /\ major \in 0 .. 6 /\ (IF neg THEN 1 ELSE 0) = major
  BY DEF HeadRead
<1>3. EncodeItem(x, w) = _encode_head(IF neg THEN 1 ELSE 0, arg)
  BY DEF EncodeItem, Int_
<1> HIDE DEF r, neg
<1>4. x \in ValuesOver(S)
  BY <1>2 DEF ValuesOver
<1> HIDE DEF x, arg
<1>5. r.value = x /\ r.offset = head.offset
  BY <1>1 DEF Decoded
<1>6. EncodeItem(x, w) = _encode_head(major, arg)
  BY <1>2, <1>3
<1>7. _encode_head(major, arg) \in Seq(Byte)
  BY <1>2, HeadWritten
<1> QED
  BY <1>4, <1>5, <1>6, <1>7 DEF Saves, HeadRead, r, arg

\* A string is written in bytes that are no more than those it was read from.
LEMMA StringSaves ==
    ASSUME NEW bytes, NEW item, NEW S, NEW w, Economical(item, bytes, S, w),
           NEW offset, NEW head, NEW major \in {2, 3},
           HeadRead(bytes, offset, head, major)
    PROVE  Saves(Rest(bytes, item, major, head), offset, bytes, ValuesOver(S), w)
<1> DEFINE r == Rest(bytes, item, major, head)
           arg == head.value
           at == head.offset
           n == Size(arg)
           s == Bytes(bytes, at, n)
           isText == major = 3
           x == IF isText THEN Text(s) ELSE ByteString(s)
<1>1. bytes \in Seq(Byte) /\ Len(bytes) \in Nat /\ Len(bytes) < TooLong
  BY LenProperties DEF Economical, OneToOne
<1>2. arg \in Arg /\ at \in Nat /\ at <= Len(bytes) /\ major \in 0 .. 6
  BY DEF HeadRead
<1>3. n \in Nat
  BY <1>2, SizeTyped DEF Arg, Number
<1>4. r = ReadString(bytes, at, n, isText)
  BY DEF Rest
<1> SUFFICES ASSUME r.ok PROVE Saves(r, offset, bytes, ValuesOver(S), w)
  BY DEF Saves
<1> HIDE DEF r
<1>5. at + n <= Len(bytes) /\ (isText => IsUtf8(s)) /\ r = Decoded(x, at + n)
  BY <1>4 DEF ReadString, _need, CBORError, Error
<1>6. s \in Seq(Byte) /\ Len(s) = n
  BY <1>1, <1>2, <1>3, <1>5, BytesTyped
<1> HIDE DEF s, n, arg, at
<1>7. n < TooLong /\ s \in Short(Byte)
  <2>1. n < TooLong
    BY <1>1, <1>2, <1>3, <1>5 DEF TooLong
  <2> QED
    BY <1>6, <2>1 DEF Short
<1>8. LengthDigits(s) = arg
  BY <1>2, <1>6, <1>7, LengthKept DEF n
<1>9. x \in ValuesOver(S)
  BY <1>5, <1>7 DEF ValuesOver
<1>10. EncodeItem(x, w) = _encode_head(major, arg) \o s
  <2>1. CASE isText
    <3>1. major = 3 /\ x = Text(s)
      BY <2>1
    <3>2. EncodeItem(Text(s), w) = _encode_head(3, LengthDigits(s)) \o s
      BY DEF EncodeItem, Text
    <3> QED
      BY <1>8, <3>1, <3>2
  <2>2. CASE ~isText
    <3>1. major = 2 /\ x = ByteString(s)
      BY <2>2
    <3>2. EncodeItem(ByteString(s), w) = _encode_head(2, LengthDigits(s)) \o s
      BY DEF EncodeItem, ByteString
    <3> QED
      BY <1>8, <3>1, <3>2
  <2> QED
    BY <2>1, <2>2
<1> HIDE DEF x
<1>11. r.value = x /\ r.offset = at + n
  BY <1>5 DEF Decoded
<1> DEFINE end == at + n
<1>12. end \in Nat /\ at + Len(s) <= end
  BY <1>2, <1>3, <1>6
<1> HIDE DEF end
<1>13. /\ _encode_head(major, arg) \o s \in Seq(Byte)
       /\ offset + Len(_encode_head(major, arg) \o s) <= end
  BY <1>2, <1>6, <1>12, HeadedSaves DEF arg, at
<1> QED
  BY <1>5, <1>9, <1>10, <1>11, <1>12, <1>13 DEF Saves, end

\* A loop that ends well has as many turns as its head says.
LEMMA TurnsTaken ==
    ASSUME NEW bytes \in Seq(Byte), NEW arg \in Arg, NEW at \in Nat, NEW end \in Nat,
           at + Turns(bytes, arg) <= end, end <= Len(bytes)
    PROVE  Turns(bytes, arg) = Size(arg) /\ Size(arg) \in Nat /\ Size(arg) <= Len(bytes)
<1> DEFINE len == Len(bytes)
           n == Size(arg)
<1>1. len \in Nat /\ n \in Nat
  BY LenProperties, SizeTyped DEF Arg, Number
<1>2. Turns(bytes, arg) = IF n <= len THEN n ELSE len + 1
  BY DEF Turns
<1> HIDE DEF len, n
<1>3. at + Turns(bytes, arg) <= end /\ end <= len
  BY DEF len
<1>4. n <= len
  BY <1>1, <1>2, <1>3
<1> QED
  BY <1>1, <1>2, <1>4 DEF n, len

\* An array is written in bytes that are no more than those it was read from.
LEMMA ArraySaves ==
    ASSUME NEW bytes, NEW item, NEW S, NEW w, Economical(item, bytes, S, w),
           NEW offset, NEW head, HeadRead(bytes, offset, head, 4)
    PROVE  Saves(Rest(bytes, item, 4, head), offset, bytes, ValuesOver(S), w)
<1> DEFINE r == Rest(bytes, item, 4, head)
           arg == head.value
           at == head.offset
           n == Turns(bytes, arg)
<1>1. bytes \in Seq(Byte) /\ Len(bytes) \in Nat /\ Len(bytes) < TooLong
      /\ \A x \in S : w[x] \in Seq(Byte)
  BY LenProperties DEF Economical, OneToOne
<1>2. arg \in Arg /\ at \in Nat /\ at <= Len(bytes)
  BY DEF HeadRead
<1>3. n \in Nat
  BY <1>1, <1>2, SizeTyped DEF Arg, Number, Turns
<1>4. r = Elements!Iterate(Loop(item, at))[n]
  BY DEF Rest
<1> SUFFICES ASSUME r.ok PROVE Saves(r, offset, bytes, ValuesOver(S), w)
  BY DEF Saves
<1> HIDE DEF r
<1>5. ListRead(r, at, n, bytes, S, w)
  <2> HIDE DEF at, n
  <2> QED
    BY <1>2, <1>3, <1>4, ElementsEconomical
<1> HIDE DEF at, arg
<1>6. PICK items \in Seq(S) :
         /\ r.value = Array(items) /\ Len(items) = n
         /\ r.offset \in Nat /\ at + n <= r.offset /\ r.offset <= Len(bytes)
         /\ at + Len(FlattenSeq(Each(items, w))) <= r.offset
  BY <1>5 DEF ListRead
<1> DEFINE s == FlattenSeq(Each(items, w))
           x == Array(items)
           end == r.offset
<1>7. n = Size(arg) /\ Size(arg) \in Nat /\ Size(arg) < TooLong
  <2>1. n = Size(arg) /\ Size(arg) \in Nat /\ Size(arg) <= Len(bytes)
    BY <1>1, <1>2, <1>6, TurnsTaken
  <2> QED
    BY <1>1, <2>1 DEF TooLong
<1> HIDE DEF n
<1>8. LengthDigits(items) = arg /\ items \in Short(S)
  BY <1>2, <1>6, <1>7, LengthKept DEF Short
<1>9. x \in ValuesOver(S)
  BY <1>8 DEF ValuesOver
<1>10. EncodeItem(x, w) = _encode_head(4, arg) \o s
  BY <1>8 DEF EncodeItem, Array, Each
<1>11. s \in Seq(Byte)
  <2>1. Stands(w, S, Seq(Byte))
    BY <1>1 DEF Stands
  <2>2. Each(items, w) \in Seq(Seq(Byte))
    BY <1>6, <2>1, EachTyped
  <2> QED
    BY <2>2, FlattenJoins
<1> HIDE DEF s, x, end
<1>12. end \in Nat /\ at + Len(s) <= end /\ end <= Len(bytes) /\ r.value = x
  BY <1>6 DEF s, end, x
<1>13. /\ _encode_head(4, arg) \o s \in Seq(Byte)
       /\ offset + Len(_encode_head(4, arg) \o s) <= end
  BY <1>11, <1>12, HeadedSaves DEF arg, at
<1> QED
  BY <1>9, <1>10, <1>12, <1>13 DEF Saves, end

\* The bytes that entries are written in, each as a cell of its own: their
\* number does not depend on an order.
Cost(e, w) == Len(w[e[1]]) + Len(w[e[2]])
Cells(E, w) == UNION {{e} \X (1 .. Cost(e, w)) : e \in E}

\* One more entry has cells of its own.
LEMMA CellsGrow ==
    ASSUME NEW E, NEW w, NEW e, e \notin E, Cost(e, w) \in Nat, IsFiniteSet(Cells(E, w))
    PROVE  /\ IsFiniteSet(Cells(E \cup {e}, w))
           /\ Cardinality(Cells(E, w)) \in Nat
           /\ Cardinality(Cells(E \cup {e}, w)) = Cardinality(Cells(E, w)) + Cost(e, w)
<1> DEFINE n == Cost(e, w)
           a == Cells(E, w)
           b == {e} \X (1 .. n)
<1>1. Cells(E \cup {e}, w) = a \cup b
  BY DEF Cells
<1>2. a \cap b = {}
  BY DEF Cells
<1>3. IsFiniteSet(b) /\ Cardinality(b) = n
  <2> DEFINE one == {e}
             row == 1 .. n
  <2>1. IsFiniteSet(one) /\ Cardinality(one) = 1
    BY FS_Singleton
  <2>2. IsFiniteSet(row) /\ Cardinality(row) = n
    <3> HIDE DEF n
    <3>1. n \in Nat
      BY DEF n
    <3>2. 1 \in Int /\ n \in Int
      BY <3>1
    <3>3. IsFiniteSet(row) /\ Cardinality(row) = IF 1 > n THEN 0 ELSE n - 1 + 1
      BY <3>2, FS_Interval
    <3> QED
      BY <3>1, <3>3
  <2> HIDE DEF one, row
  <2>3. IsFiniteSet(one \X row) /\ Cardinality(one \X row) = Cardinality(one) * Cardinality(row)
    BY <2>1, <2>2, FS_Product
  <2>4. 1 * n = n
    <3> HIDE DEF n
    <3>1. n \in Nat
      BY DEF n
    <3> QED
      BY <3>1
  <2> QED
    BY <2>1, <2>2, <2>3, <2>4 DEF one, row
<1> HIDE DEF a, b, n
<1>4. IsFiniteSet(a) /\ Cardinality(a) \in Nat /\ n \in Nat
  BY FS_CardinalityType DEF a, n
<1>5. IsFiniteSet(a \cup b) /\ Cardinality(a \cup b) = Cardinality(a) + n
  <2>1. /\ IsFiniteSet(a \cup b)
        /\ Cardinality(a \cup b) = Cardinality(a) + Cardinality(b) - Cardinality(a \cap b)
    BY <1>3, <1>4, FS_Union
  <2>2. Cardinality(a \cap b) = 0
    BY <1>2, FS_EmptySet
  <2> QED
    BY <1>3, <1>4, <2>1, <2>2
<1> QED
  BY <1>1, <1>4, <1>5 DEF a, n

\* A map is written in as many bytes as its entries have cells.
LEMMA CellsJoined ==
    ASSUME NEW S, NEW w, OneToOne(S, w), NEW E, NEW entry, InOrder(entry, E, S, w)
    PROVE  /\ FlattenSeq(Joint(entry, w)) \in Seq(Byte)
           /\ Len(FlattenSeq(Joint(entry, w))) = Cardinality(Cells(E, w))
           /\ Len(entry) = Cardinality(E)
<1> DEFINE N == Len(entry)
           seqs == Joint(entry, w)
           part(n) == {entry[i] : i \in 1 .. n}
           T == {n \in Nat : n <= N =>
                    /\ IsFiniteSet(Cells(part(n), w))
                    /\ Len(Joined(seqs, n)) = Cardinality(Cells(part(n), w))}
<1>1. /\ N \in Nat /\ DOMAIN entry = 1 .. N /\ Range(entry) = E
      /\ \A i, j \in 1 .. N : entry[i] = entry[j] => i = j
  BY LenProperties DEF InOrder
<1>2. InParts(entry, S, w, seqs)
  BY JointTyped
<1>3. /\ seqs \in Seq(Seq(Byte)) /\ Len(seqs) = N
      /\ \A i \in 1 .. N : /\ w[entry[i][1]] \in Seq(Byte) /\ w[entry[i][2]] \in Seq(Byte)
                           /\ seqs[i] = w[entry[i][1]] \o w[entry[i][2]]
  BY <1>2 DEF InParts
<1> HIDE DEF N, seqs
<1>4. \A i \in 1 .. N : Len(seqs[i]) = Cost(entry[i], w) /\ Cost(entry[i], w) \in Nat
  <2> SUFFICES ASSUME NEW i \in 1 .. N
               PROVE  Len(seqs[i]) = Cost(entry[i], w) /\ Cost(entry[i], w) \in Nat
    OBVIOUS
  <2> DEFINE e == entry[i]
             k == w[e[1]]
             v == w[e[2]]
  <2>1. k \in Seq(Byte) /\ v \in Seq(Byte) /\ seqs[i] = k \o v
    BY <1>3
  <2>2. Cost(e, w) = Len(k) + Len(v)
    BY DEF Cost
  <2> HIDE DEF e, k, v
  <2>3. Len(k \o v) = Len(k) + Len(v) /\ Len(k) \in Nat /\ Len(v) \in Nat
    BY <2>1, ConcatProperties, LenProperties
  <2> QED
    BY <2>1, <2>2, <2>3 DEF e
<1>5. 0 \in T
  <2>1. Cells(part(0), w) = {}
    BY DEF Cells
  <2>2. Joined(seqs, 0) = << >> /\ Len(<< >>) = 0
    BY JoinedTurn
  <2> QED
    BY <2>1, <2>2, FS_EmptySet
<1>6. \A n \in Nat : n \in T => n + 1 \in T
  <2> HIDE DEF part
  <2> SUFFICES ASSUME NEW n \in Nat, n + 1 <= N,
                      n <= N => /\ IsFiniteSet(Cells(part(n), w))
                                /\ Len(Joined(seqs, n)) = Cardinality(Cells(part(n), w))
               PROVE  /\ IsFiniteSet(Cells(part(n + 1), w))
                      /\ Len(Joined(seqs, n + 1)) = Cardinality(Cells(part(n + 1), w))
    OBVIOUS
  <2> DEFINE k == n + 1
             e == entry[k]
  <2>1. n < N /\ n <= N /\ k \in 1 .. N /\ n \in 0 .. N
    BY <1>1
  <2>2. 1 .. k = (1 .. n) \cup {k}
    BY OneMore
  <2> HIDE DEF k
  <2>3. part(k) = part(n) \cup {e}
    BY <2>2 DEF part
  <2>4. e \notin part(n)
    <3>1. \A i \in 1 .. n : i \in 1 .. N /\ i # k
      BY <1>1, <2>1 DEF k
    <3> QED
      BY <1>1, <2>1, <3>1 DEF part
  <2>5. Len(seqs[k]) = Cost(e, w) /\ Cost(e, w) \in Nat
    BY <1>4, <2>1
  <2>6. Len(Joined(seqs, k)) = Len(Joined(seqs, n)) + Len(seqs[k])
    BY <1>3, <2>1, JoinedTyped DEF k
  <2> HIDE DEF e
  <2>7. /\ IsFiniteSet(Cells(part(n) \cup {e}, w))
        /\ Cardinality(Cells(part(n) \cup {e}, w)) = Cardinality(Cells(part(n), w)) + Cost(e, w)
    BY <2>1, <2>4, <2>5, CellsGrow
  <2>8. /\ IsFiniteSet(Cells(part(k), w))
        /\ Len(Joined(seqs, k)) = Cardinality(Cells(part(k), w))
    BY <2>1, <2>3, <2>5, <2>6, <2>7
  <2> QED
    BY <2>8 DEF k
<1>7. \A n \in Nat : n \in T
  <2> HIDE DEF T
  <2> QED
    BY <1>5, <1>6, ElementTurns!Induction
<1>8. part(N) = E
  BY <1>1 DEF Range
<1>9. Len(Joined(seqs, N)) = Cardinality(Cells(E, w))
  <2> HIDE DEF part
  <2>1. N <= N
    BY <1>1
  <2> QED
    BY <1>1, <1>7, <1>8, <2>1
<1>10. FlattenSeq(seqs) = Joined(seqs, N) /\ FlattenSeq(seqs) \in Seq(Byte)
  BY <1>3, FlattenJoins
<1>11. N = Cardinality(E)
  <2>1. entry \in Bijection(1 .. N, E)
    <3>1. entry = [i \in 1 .. N |-> entry[i]]
      BY <1>1, LenProperties DEF InOrder
    <3>2. \A i \in 1 .. N : entry[i] \in E
      BY <1>1 DEF Range
    <3>3. entry \in [1 .. N -> E]
      BY <3>1, <3>2
    <3>4. \A e \in E : \E i \in 1 .. N : entry[i] = e
      BY <1>1 DEF Range
    <3>5. entry \in Injection(1 .. N, E)
      BY <1>1, <3>3 DEF Injection, IsInjective
    <3>6. entry \in Surjection(1 .. N, E)
      BY <3>3, <3>4 DEF Surjection
    <3> QED
      BY <3>5, <3>6 DEF Bijection
  <2>2. ExistsBijection(1 .. N, E)
    BY <2>1 DEF ExistsBijection
  <2> QED
    BY <1>1, <2>2, FS_CountingElements
<1> QED
  BY <1>9, <1>10, <1>11 DEF seqs, N

\* A map of n entries that were read from the bytes before end.
DictRead(dict, at, n, bytes, S, w) ==
    \E E : /\ dict.value = Map(E)
           /\ E \subseteq S \X S /\ IsFiniteSet(E) /\ Cardinality(E) = n
           /\ \A e \in E : Hashable(e[1])
           /\ \A e, f \in E : Hashed(e[1]) = Hashed(f[1]) => e = f
           /\ dict.offset \in Nat /\ at + n <= dict.offset /\ dict.offset <= Len(bytes)
           /\ IsFiniteSet(Cells(E, w)) /\ at + Cardinality(Cells(E, w)) <= dict.offset

\* The entries of a map are written in bytes that are no more than those they
\* were read from.
LEMMA EntriesEconomical ==
    ASSUME NEW item, NEW bytes, NEW S, NEW w, Economical(item, bytes, S, w),
           NEW at \in Nat, at <= Len(bytes)
    PROVE  \A n \in Nat :
              LET dict == Entries!Iterate(Loop(item, at))[n]
              IN  dict.ok => DictRead(dict, at, n, bytes, S, w)
<1> DEFINE dict(n) == Entries!Iterate(Loop(item, at))[n]
           T == {n \in Nat : dict(n).ok => DictRead(dict(n), at, n, bytes, S, w)}
<1>1. 0 \in T
  <2> DEFINE E == {}
             c == Cells(E, w)
  <2>1. dict(0) = Decoded(Map(E), at)
    BY EntriesStart DEF NoEntries, Loop
  <2>2. c = {}
    BY DEF Cells
  <2>3. IsFiniteSet(E) /\ Cardinality(E) = 0 /\ IsFiniteSet(c) /\ Cardinality(c) = 0
    BY <2>2, FS_EmptySet
  <2>4. E \subseteq S \X S /\ \A e \in E : FALSE
    OBVIOUS
  <2> HIDE DEF E, dict
  <2>5. dict(0).value = Map(E) /\ dict(0).offset = at
    BY <2>1 DEF Decoded
  <2>6. at + 0 <= at /\ at + Cardinality(c) <= at
    BY <2>3
  <2>7. DictRead(dict(0), at, 0, bytes, S, w)
    BY <2>3, <2>4, <2>5, <2>6 DEF DictRead
  <2> QED
    BY <2>7
<1>2. \A n \in Nat : n \in T => n + 1 \in T
  <2> HIDE DEF dict
  <2> SUFFICES ASSUME NEW n \in Nat,
                      dict(n).ok => DictRead(dict(n), at, n, bytes, S, w),
                      dict(n + 1).ok
               PROVE  DictRead(dict(n + 1), at, n + 1, bytes, S, w)
    OBVIOUS
  <2> DEFINE before == dict(n)
             after == dict(n + 1)
             key == item[before.offset]
             val == item[key.offset]
  <2>1. after = NextEntry(Loop(item, at), before)
    BY EntriesTurn DEF dict
  <2> HIDE DEF after, before
  <2>2. NextEntry(Loop(item, at), before)
          = IF before.ok
            THEN IF key.ok
                 THEN IF val.ok THEN AddEntry(before.value.entries, key.value, val) ELSE val
                 ELSE key
            ELSE before
    BY DEF NextEntry, AndThen, Loop
  <2>3. before.ok /\ key.ok /\ val.ok
    BY <2>1, <2>2 DEF after
  <2>4. PICK E :
           /\ before.value = Map(E)
           /\ E \subseteq S \X S /\ IsFiniteSet(E) /\ Cardinality(E) = n
           /\ \A e \in E : Hashable(e[1])
           /\ \A e, f \in E : Hashed(e[1]) = Hashed(f[1]) => e = f
           /\ before.offset \in Nat /\ at + n <= before.offset /\ before.offset <= Len(bytes)
           /\ IsFiniteSet(Cells(E, w)) /\ at + Cardinality(Cells(E, w)) <= before.offset
    BY <2>3 DEF DictRead, before
  <2> DEFINE k == key.value
             v == val.value
             e == <<k, v>>
             o == before.offset
             m == key.offset
             p == val.offset
  <2>5. /\ k \in S /\ m \in Nat /\ o < m /\ m <= Len(bytes) /\ o + Len(w[k]) <= m
    BY <2>3, <2>4 DEF Economical
  <2>6. /\ v \in S /\ p \in Nat /\ m < p /\ p <= Len(bytes) /\ m + Len(w[v]) <= p
    BY <2>3, <2>5 DEF Economical
  <2>7. after = AddEntry(E, k, val)
    <3>1. before.value.entries = E
      BY <2>4 DEF Map
    <3> QED
      BY <2>1, <2>2, <2>3, <3>1
  <2> HIDE DEF val, key
  <2>8. /\ Hashable(k) /\ ~ HasKey(E, k)
        /\ after = Decoded(Map(Put(E, k, v)), p)
    BY <2>7 DEF AddEntry, Duplicate, CBORError, Error, after
  <2>9. \A f \in E : Hashed(f[1]) # Hashed(k)
    BY <2>8 DEF HasKey
  <2>10. Put(E, k, v) = E \cup {e}
    BY <2>9 DEF Put
  <2> DEFINE G == E \cup {e}
  <2>11. after.value = Map(G) /\ after.offset = p
    BY <2>8, <2>10 DEF Decoded
  <2> HIDE DEF k, v
  <2>12. e \in S \X S /\ e[1] = k /\ e[2] = v
    BY <2>5, <2>6
  <2> HIDE DEF e
  <2>13. e \notin E
    BY <2>9, <2>12
  <2>14. G \subseteq S \X S /\ IsFiniteSet(G) /\ Cardinality(G) = n + 1
    BY <2>4, <2>12, <2>13, FS_AddElement
  <2>15. /\ \A f \in G : Hashable(f[1])
         /\ \A f, g \in G : Hashed(f[1]) = Hashed(g[1]) => f = g
    BY <2>4, <2>8, <2>9, <2>12
  <2>16. Cost(e, w) = Len(w[k]) + Len(w[v]) /\ Len(w[k]) \in Nat /\ Len(w[v]) \in Nat
         /\ Cost(e, w) \in Nat
    <3>1. w[k] \in Seq(Byte) /\ w[v] \in Seq(Byte)
      BY <2>5, <2>6 DEF Economical, OneToOne
    <3> DEFINE x == w[k]
               y == w[v]
    <3>2. Cost(e, w) = Len(x) + Len(y)
      BY <2>12 DEF Cost
    <3> HIDE DEF x, y
    <3>3. Len(x) \in Nat /\ Len(y) \in Nat
      BY <3>1, LenProperties DEF x, y
    <3>4. Len(x) + Len(y) \in Nat
      BY <3>3
    <3> QED
      BY <3>2, <3>3, <3>4 DEF x, y
  <2>17. /\ IsFiniteSet(Cells(G, w)) /\ Cardinality(Cells(E, w)) \in Nat
         /\ Cardinality(Cells(G, w)) = Cardinality(Cells(E, w)) + Cost(e, w)
    BY <2>4, <2>13, <2>16, CellsGrow
  <2> DEFINE a == Len(w[k])
             b == Len(w[v])
             c == Cardinality(Cells(E, w))
             d == Cardinality(Cells(G, w))
  <2>18. /\ a \in Nat /\ b \in Nat /\ c \in Nat /\ d = c + (a + b)
         /\ o \in Nat /\ m \in Nat /\ p \in Nat /\ at + n <= o /\ at + c <= o
         /\ o < m /\ m < p /\ o + a <= m /\ m + b <= p
    BY <2>4, <2>5, <2>6, <2>16, <2>17
  <2> HIDE DEF a, b, c, d, o, m, p, G
  <2>19. at + (n + 1) <= p /\ at + d <= p
    BY <2>18
  <2>20. DictRead(after, at, n + 1, bytes, S, w)
    BY <2>6, <2>11, <2>14, <2>15, <2>17, <2>19 DEF DictRead, d
  <2> QED
    BY <2>20 DEF after
<1>3. \A n \in Nat : n \in T
  <2> HIDE DEF T
  <2> QED
    BY <1>1, <1>2, ElementTurns!Induction
<1> QED
  BY <1>3

\* A map is written in bytes that are no more than those it was read from.
LEMMA MapSaves ==
    ASSUME NEW bytes, NEW item, NEW S, NEW w, Economical(item, bytes, S, w),
           NEW offset, NEW head, HeadRead(bytes, offset, head, 5)
    PROVE  Saves(Rest(bytes, item, 5, head), offset, bytes, ValuesOver(S), w)
<1> DEFINE r == Rest(bytes, item, 5, head)
           arg == head.value
           at == head.offset
           n == Turns(bytes, arg)
<1>1. bytes \in Seq(Byte) /\ Len(bytes) \in Nat /\ Len(bytes) < TooLong /\ OneToOne(S, w)
  BY LenProperties DEF Economical
<1>2. arg \in Arg /\ at \in Nat /\ at <= Len(bytes)
  BY DEF HeadRead
<1>3. n \in Nat
  BY <1>1, <1>2, SizeTyped DEF Arg, Number, Turns
<1>4. r = Entries!Iterate(Loop(item, at))[n]
  BY DEF Rest
<1> SUFFICES ASSUME r.ok PROVE Saves(r, offset, bytes, ValuesOver(S), w)
  BY DEF Saves
<1> HIDE DEF r
<1>5. DictRead(r, at, n, bytes, S, w)
  <2> HIDE DEF at, n
  <2> QED
    BY <1>2, <1>3, <1>4, EntriesEconomical
<1> HIDE DEF at, arg
<1>6. PICK E : /\ r.value = Map(E)
               /\ E \subseteq S \X S /\ IsFiniteSet(E) /\ Cardinality(E) = n
               /\ \A e \in E : Hashable(e[1])
               /\ \A e, f \in E : Hashed(e[1]) = Hashed(f[1]) => e = f
               /\ r.offset \in Nat /\ at + n <= r.offset /\ r.offset <= Len(bytes)
               /\ IsFiniteSet(Cells(E, w)) /\ at + Cardinality(Cells(E, w)) <= r.offset
  BY <1>5 DEF DictRead
<1> DEFINE x == Map(E)
           end == r.offset
<1>7. n = Size(arg) /\ Size(arg) \in Nat /\ Size(arg) < TooLong
  <2>1. n = Size(arg) /\ Size(arg) \in Nat /\ Size(arg) <= Len(bytes)
    BY <1>1, <1>2, <1>6, TurnsTaken
  <2> QED
    BY <1>1, <2>1 DEF TooLong
<1> HIDE DEF n
<1>8. E \in Dicts(S)
  BY <1>6, <1>7 DEF Dicts
<1>9. x \in ValuesOver(S)
  BY <1>8 DEF ValuesOver
<1>10. PICK entry : InOrder(entry, E, S, w)
  BY <1>1, <1>8, MapWritten
<1> DEFINE s == FlattenSeq(Joint(entry, w))
<1>11. EncodeItem(x, w) = _encode_head(5, LengthDigits(entry)) \o s
  BY <1>10 DEF InOrder
<1>12. s \in Seq(Byte) /\ Len(s) = Cardinality(Cells(E, w)) /\ Len(entry) = Cardinality(E)
  BY <1>1, <1>10, CellsJoined
<1>13. LengthDigits(entry) = arg
  BY <1>2, <1>6, <1>7, <1>12, LengthKept
<1> HIDE DEF s, x, end
<1>14. end \in Nat /\ at + Len(s) <= end /\ end <= Len(bytes) /\ r.value = x
  BY <1>6, <1>12 DEF end, x
<1>15. /\ _encode_head(5, arg) \o s \in Seq(Byte)
       /\ offset + Len(_encode_head(5, arg) \o s) <= end
  BY <1>12, <1>14, HeadedSaves DEF arg, at
<1> QED
  BY <1>9, <1>11, <1>13, <1>14, <1>15 DEF Saves, end

\* A simple value is written in one byte.
LEMMA SimpleSaves ==
    ASSUME NEW bytes, NEW S, NEW w, NEW info, NEW offset \in Nat,
           Len(bytes) \in Nat, offset + 1 <= Len(bytes)
    PROVE  Saves(ReadSimple(info, offset + 1), offset, bytes, ValuesOver(S), w)
<1> DEFINE r == ReadSimple(info, offset + 1)
<1> SUFFICES ASSUME r.ok PROVE Saves(r, offset, bytes, ValuesOver(S), w)
  BY DEF Saves
<1>1. PICK s \in {"false", "true", "null"} : r = Decoded(Simple(s), offset + 1)
  BY DEF ReadSimple, CBORError, Error
<1> DEFINE x == Simple(s)
           b == CASE s = "false" -> 244 [] s = "true" -> 245 [] s = "null" -> 246
<1>2. EncodeItem(x, w) = <<b>>
  BY DEF EncodeItem, Simple
<1>3. b \in Byte
  BY DEF Byte
<1> HIDE DEF b, r
<1> DEFINE t == <<b>>
<1>4. t \in Seq(Byte) /\ Len(t) = 1
  BY <1>3
<1>5. x \in ValuesOver(S)
  BY DEF ValuesOver
<1>6. r.value = x /\ r.offset = offset + 1
  BY <1>1 DEF Decoded, x
<1>7. EncodeItem(x, w) = t
  BY <1>2
<1> HIDE DEF x, t
<1>8. EncodeItem(x, w) \in Seq(Byte) /\ Len(EncodeItem(x, w)) = 1
  BY <1>4, <1>7
<1>9. /\ r.value = x /\ x \in ValuesOver(S) /\ r.offset = offset + 1
      /\ r.offset \in Nat /\ offset + Len(EncodeItem(x, w)) <= r.offset
  BY <1>5, <1>6, <1>8
<1> QED
  BY <1>6, <1>8, <1>9 DEF Saves

\* Every item is written in bytes that are no more than those it was read from,
\* if that holds of the items in it; a tag costs bytes and is not written.
LEMMA ItemSaves ==
    ASSUME NEW bytes, NEW item, NEW S, NEW w, Economical(item, bytes, S, w),
           S \subseteq ValuesOver(S), \A x \in S : EncodeItem(x, w) = w[x],
           NEW offset \in Nat
    PROVE  Saves(ItemAt(bytes, item, offset), offset, bytes, ValuesOver(S), w)
<1> DEFINE major == bytes[offset + 1] \div 32
           info == bytes[offset + 1] % 32
           at == offset + 1
           head == _read_length(bytes, at, info)
           r == ItemAt(bytes, item, offset)
<1>0. bytes \in Seq(Byte)
  BY DEF Economical
<1> SUFFICES ASSUME r.ok PROVE Saves(r, offset, bytes, ValuesOver(S), w)
  BY DEF Saves
<1>1. at <= Len(bytes) /\ at \in Nat /\ Len(bytes) \in Nat
  BY <1>0, LenProperties DEF ItemAt, _need, CBORError, Error
<1>2. major \in 0 .. 7 /\ info \in 0 .. 31
  BY <1>0, <1>1, InitialByte
<1>3. r = IF major = 7 THEN ReadSimple(info, at)
          ELSE IF head.ok THEN Rest(bytes, item, major, head) ELSE head
  BY <1>1 DEF ItemAt, _need, AndThen
<1> HIDE DEF major, info, head, r
<1>4. CASE major = 7
  BY <1>1, <1>3, <1>4, SimpleSaves
<1>5. CASE major # 7
  <2>1. head.ok /\ r = Rest(bytes, item, major, head)
    BY <1>3, <1>5
  <2>2. major \in 0 .. 6
    BY <1>2, <1>5
  <2>3. HeadRead(bytes, offset, head, major)
    <3> HIDE DEF at
    <3>1. /\ head.value \in Arg
          /\ head.offset \in Nat /\ at <= head.offset /\ head.offset <= Len(bytes)
          /\ at + Len(_encode_head(major, head.value)) <= head.offset + 1
      BY <1>0, <1>1, <1>2, <2>1, <2>2, HeadEconomical DEF head
    <3> DEFINE l == Len(_encode_head(major, head.value))
    <3>2. l \in Nat
      BY <2>2, <3>1, HeadWritten
    <3> HIDE DEF l
    <3>3. at = offset + 1 /\ at + l <= head.offset + 1
      BY <3>1 DEF l, at
    <3>4. offset + l <= head.offset /\ offset < head.offset
      BY <3>1, <3>2, <3>3
    <3> QED
      BY <3>1, <3>4 DEF HeadRead, l
  <2> HIDE DEF at
  <2>4. CASE major \in {0, 1}
    BY <2>1, <2>3, <2>4, IntSaves
  <2>5. CASE major \in {2, 3}
    BY <2>1, <2>3, <2>5, StringSaves
  <2>6. CASE major = 4
    BY <2>1, <2>3, <2>6, ArraySaves
  <2>7. CASE major = 5
    BY <2>1, <2>3, <2>7, MapSaves
  <2>8. CASE major = 6
    <3> DEFINE o == head.offset
               t == item[o]
    <3>1. r = t
      BY <2>1, <2>8 DEF Rest
    <3>2. o \in Nat /\ offset < o
      BY <2>3 DEF HeadRead
    <3> HIDE DEF o
    <3>3. /\ t.value \in S /\ t.offset \in Nat /\ t.offset <= Len(bytes)
          /\ o + Len(w[t.value]) <= t.offset /\ w[t.value] \in Seq(Byte)
      BY <3>1, <3>2 DEF Economical, OneToOne
    <3> HIDE DEF t
    <3>4. t.value \in ValuesOver(S) /\ EncodeItem(t.value, w) = w[t.value]
      BY <3>3
    <3> DEFINE l == Len(w[t.value])
    <3>5. l \in Nat
      BY <3>3, LenProperties
    <3> HIDE DEF l
    <3>6. offset + l <= t.offset
      BY <3>2, <3>3, <3>5 DEF l
    <3> QED
      BY <3>1, <3>3, <3>4, <3>6 DEF Saves, l
  <2> QED
    BY <2>2, <2>4, <2>5, <2>6, <2>7, <2>8
<1> QED
  BY <1>4, <1>5

\* What k calls read, k calls write, in bytes that are no more.
LEMMA CallsEconomical ==
    \A k \in Nat : \A bytes \in Seq(Byte) : Len(bytes) < TooLong =>
        Economical(Calls!Iterate(bytes)[k], bytes, Values(k), Output(k))
<1> DEFINE T == {k \in Nat : \A bytes \in Seq(Byte) : Len(bytes) < TooLong =>
                    Economical(Calls!Iterate(bytes)[k], bytes, Values(k), Output(k))}
<1>1. 0 \in T
  <2> SUFFICES ASSUME NEW bytes \in Seq(Byte), Len(bytes) < TooLong
               PROVE  Economical(Calls!Iterate(bytes)[0], bytes, Values(0), Output(0))
    OBVIOUS
  <2>1. \A o \in Nat : Calls!Iterate(bytes)[0][o] = Error("RecursionError")
    BY CallsStart DEF NoCall
  <2>2. \A o \in Nat : ~ Calls!Iterate(bytes)[0][o].ok
    BY <2>1 DEF Error
  <2> QED
    BY <2>2, WrittenTurn DEF Economical, OneToOne
<1>2. \A k \in Nat : k \in T => k + 1 \in T
  <2> SUFFICES ASSUME NEW k \in Nat,
                      \A bytes \in Seq(Byte) : Len(bytes) < TooLong =>
                         Economical(Calls!Iterate(bytes)[k], bytes, Values(k), Output(k)),
                      NEW bytes \in Seq(Byte), Len(bytes) < TooLong
               PROVE  Economical(Calls!Iterate(bytes)[k + 1], bytes, Values(k + 1), Output(k + 1))
    OBVIOUS
  <2> DEFINE item == Calls!Iterate(bytes)[k]
             above == Calls!Iterate(bytes)[k + 1]
             S == Values(k)
             R == Values(k + 1)
             w == Output(k)
             v == Output(k + 1)
  <2>1. Economical(item, bytes, S, w)
    OBVIOUS
  <2>2. R = ValuesOver(S) /\ \A x \in R : v[x] = EncodeItem(x, w)
    BY WrittenTurn
  <2>3. S \subseteq R /\ \A x \in S : v[x] = w[x]
    BY ValuesGrow
  <2>4. OneToOne(R, v)
    <3>1. Writes(R, v, above, bytes)
      BY WrittenIsRead
    <3> QED
      BY <3>1 DEF Writes
  <2>5. \A o \in Nat : above[o] = ItemAt(bytes, item, o)
    <3>1. above = OneMoreCall(bytes, item)
      BY CallsTurn
    <3> HIDE DEF above, item
    <3> QED
      BY <3>1 DEF OneMoreCall
  <2> HIDE DEF item, above, S, R, w, v
  <2>6. S \subseteq ValuesOver(S) /\ \A x \in S : EncodeItem(x, w) = w[x]
    BY <2>2, <2>3
  <2>7. Progress(item, Len(bytes))
    BY <2>1 DEF Economical, Progress
  <2>8. ASSUME NEW o \in Nat, above[o].ok
        PROVE  /\ above[o].value \in R
               /\ above[o].offset \in Nat /\ o < above[o].offset /\ above[o].offset <= Len(bytes)
               /\ o + Len(v[above[o].value]) <= above[o].offset
    <3> DEFINE r == ItemAt(bytes, item, o)
    <3>1. above[o] = r /\ r.ok
      BY <2>5, <2>8
    <3>2. Saves(r, o, bytes, ValuesOver(S), w)
      BY <2>1, <2>6, ItemSaves
    <3>3. r.offset \in Nat /\ o < r.offset /\ r.offset <= Len(bytes)
      BY <2>7, <3>1, ItemProgress
    <3> HIDE DEF r
    <3> QED
      BY <2>2, <3>1, <3>2, <3>3 DEF Saves
  <2>9. Economical(above, bytes, R, v)
    BY <2>4, <2>8 DEF Economical
  <2> QED
    BY <2>9 DEF above, R, v
<1>3. \A k \in Nat : k \in T
  <2> HIDE DEF T
  <2> QED
    BY <1>1, <1>2, ElementTurns!Induction
<1> QED
  BY <1>3

\* Whatever loads accepts, dumps can write, in bytes that are no more, and
\* loads reads the same value from them.
THEOREM LoadsCanonical ==
    ASSUME NEW bytes \in Seq(Byte), Len(bytes) < TooLong, loads(bytes).ok
    PROVE  LET v == loads(bytes).value
           IN  /\ v \in Values(RecursionLimit)
               /\ dumps(v) \in Seq(Byte) /\ Len(dumps(v)) <= Len(bytes)
               /\ loads(dumps(v)) = Value(v)
<1> DEFINE R == RecursionLimit
           item == Calls!Iterate(bytes)[R]
           r == _decode(bytes, 0)
           v == loads(bytes).value
<1>1. R \in Nat
  BY RecursionLimitAssumption
<1>2. Economical(item, bytes, Values(R), Output(R))
  BY <1>1, CallsEconomical
<1>3. r = item[0]
  BY DEF _decode
<1>4. loads(bytes) = IF r.ok THEN IF r.offset = Len(bytes) THEN Value(r.value) ELSE CBORError ELSE r
  BY DEF loads, AndThen, AllRead
<1> HIDE DEF item, r
<1>5. r.ok /\ r.offset = Len(bytes) /\ v = r.value
  BY <1>4 DEF CBORError, Error, Value
<1> HIDE DEF v
<1>6. v \in Values(R) /\ 0 + Len(Output(R)[v]) <= Len(bytes) /\ Output(R)[v] \in Seq(Byte)
  BY <1>2, <1>3, <1>5 DEF Economical, OneToOne
<1>7. dumps(v) = Output(R)[v]
  BY <1>6, DumpsWrites
<1> DEFINE n == Len(Output(R)[v])
<1>8. n \in Nat /\ 0 + n <= Len(bytes)
  BY <1>6, LenProperties
<1> HIDE DEF n
<1>9. n <= Len(bytes)
  BY <1>8
<1>10. loads(dumps(v)) = Value(v) /\ dumps(v) \in Seq(Byte)
  BY <1>6, RoundTrip
<1> QED
  BY <1>6, <1>7, <1>9, <1>10 DEF v, n

-----------------------------------------------------------------------------
\* Every byte counts.  Each byte gets a weight: bytes of the same weight are the
\* same, and the bytes of any two encodings of a value, without tags, have the same
\* sum, whatever the widths of their heads and the order of their entries.  So no
\* single byte can change while the value stays.

\* The sum of the first n members of a sequence of numbers, one by one.
NothingSummed(s) == [turn |-> 0, total |-> 0]
SumNext(s, sum) == [turn |-> sum.turn + 1, total |-> sum.total + s[sum.turn + 1]]
Sums == INSTANCE IterationProofs WITH Base <- NothingSummed, Step <- SumNext
Total(s, n) == Sums!Iterate(s)[n].total

\* Each turn adds the next number.
LEMMA TotalTurn ==
    ASSUME NEW s
    PROVE  /\ Total(s, 0) = 0
           /\ \A n \in Nat : Total(s, n + 1) = Total(s, n) + s[n + 1]
<1> DEFINE j == Sums!Iterate(s)
           T == {n \in Nat : j[n].turn = n}
<1>1. j[0] = NothingSummed(s) /\ \A n \in Nat : j[n + 1] = SumNext(s, j[n])
  BY Sums!IterateDef
<1> HIDE DEF j
<1>2. 0 \in T
  BY <1>1 DEF NothingSummed
<1>3. \A n \in Nat : /\ j[n + 1].turn = j[n].turn + 1
                     /\ j[n + 1].total = j[n].total + s[j[n].turn + 1]
  <2> SUFFICES ASSUME NEW n \in Nat
               PROVE  /\ j[n + 1].turn = j[n].turn + 1
                      /\ j[n + 1].total = j[n].total + s[j[n].turn + 1]
    OBVIOUS
  <2> DEFINE x == j[n]
             y == j[n + 1]
  <2>1. y = SumNext(s, x)
    BY <1>1
  <2> HIDE DEF x, y
  <2>2. y.turn = x.turn + 1 /\ y.total = x.total + s[x.turn + 1]
    BY <2>1 DEF SumNext
  <2> QED
    BY <2>2 DEF x, y
<1>4. \A n \in Nat : n \in T => n + 1 \in T
  BY <1>3
<1> HIDE DEF T
<1>5. \A n \in Nat : n \in T
  BY <1>2, <1>4, Sums!Induction
<1>6. \A n \in Nat : j[n].turn = n
  BY <1>5 DEF T
<1>7. j[0].total = 0
  BY <1>1 DEF NothingSummed
<1>8. ASSUME NEW n \in Nat PROVE j[n + 1].total = j[n].total + s[n + 1]
  <2>1. j[n].turn = n
    BY <1>6
  <2>2. j[n + 1].total = j[n].total + s[j[n].turn + 1]
    BY <1>3
  <2> QED
    BY <2>1, <2>2
<1> QED
  BY <1>7, <1>8 DEF j, Total

\* The sum of whole numbers is a whole number.
LEMMA TotalTyped ==
    ASSUME NEW s \in Seq(Int)
    PROVE  \A n \in Nat : n <= Len(s) => Total(s, n) \in Int
<1> DEFINE N == Len(s)
           T == {n \in Nat : n <= N => Total(s, n) \in Int}
<1>1. N \in Nat /\ \A n \in 1 .. N : s[n] \in Int
  BY LenProperties
<1>2. 0 \in T
  BY TotalTurn
<1> HIDE DEF N
<1>3. \A n \in Nat : n \in T => n + 1 \in T
  <2> SUFFICES ASSUME NEW n \in Nat, n \in T, n + 1 <= N
               PROVE  Total(s, n + 1) \in Int
    OBVIOUS
  <2>1. n <= N /\ n + 1 \in 1 .. N
    BY <1>1
  <2> DEFINE x == Total(s, n)
             y == s[n + 1]
  <2>2. x \in Int /\ y \in Int /\ Total(s, n + 1) = x + y
    BY <1>1, <2>1, TotalTurn
  <2> HIDE DEF x, y
  <2> QED
    BY <2>2
<1>4. \A n \in Nat : n \in T
  <2> HIDE DEF T
  <2> QED
    BY <1>2, <1>3, ElementTurns!Induction
<1> QED
  BY <1>4 DEF N

\* A part of a sequence adds its own sum, wherever it is.
LEMMA TotalMoved ==
    ASSUME NEW a \in Seq(Int), NEW d \in Nat, NEW b \in Seq(Int), Holds(a, d, b)
    PROVE  /\ Total(a, d) \in Int /\ Total(b, Len(b)) \in Int
           /\ Total(a, d + Len(b)) = Total(a, d) + Total(b, Len(b))
<1> DEFINE M == Len(b)
           N == Len(a)
           T == {n \in Nat : n <= M => Total(a, d + n) = Total(a, d) + Total(b, n)}
<1>1. M \in Nat /\ N \in Nat /\ d + M <= N /\ \A i \in 1 .. M : a[d + i] = b[i] /\ b[i] \in Int
  BY LenProperties DEF Holds
<1> HIDE DEF M, N
<1>2. d <= N /\ \A n \in Nat : n <= M => d + n \in Nat /\ d + n <= N
  BY <1>1
<1>3. Total(a, d) \in Int /\ \A n \in Nat : n <= M => Total(b, n) \in Int /\ Total(a, d + n) \in Int
  BY <1>2, TotalTyped DEF M, N
<1> DEFINE p == Total(a, d)
<1>4. 0 \in T
  <2>1. Total(b, 0) = 0 /\ d + 0 = d
    BY TotalTurn
  <2>2. p \in Int
    BY <1>3
  <2> HIDE DEF p
  <2>3. p + 0 = p
    BY <2>2
  <2> QED
    BY <2>1, <2>3 DEF p
<1>5. \A n \in Nat : n \in T => n + 1 \in T
  <2> SUFFICES ASSUME NEW n \in Nat, n \in T, n + 1 <= M
               PROVE  Total(a, d + (n + 1)) = p + Total(b, n + 1)
    OBVIOUS
  <2>1. n <= M /\ n + 1 \in 1 .. M /\ d + n \in Nat /\ d + (n + 1) = (d + n) + 1
    BY <1>1
  <2>2. a[d + (n + 1)] = b[n + 1] /\ b[n + 1] \in Int
    BY <1>1, <2>1
  <2> DEFINE x == Total(a, d + n)
             y == Total(b, n)
             z == b[n + 1]
  <2>3. Total(a, (d + n) + 1) = x + a[(d + n) + 1]
    BY <2>1, TotalTurn
  <2>4. Total(b, n + 1) = y + z
    BY TotalTurn
  <2>5. x \in Int /\ y \in Int /\ z \in Int /\ p \in Int /\ x = p + y
    BY <1>3, <2>1, <2>2
  <2>6. Total(a, d + (n + 1)) = x + z
    BY <2>1, <2>2, <2>3
  <2> HIDE DEF x, y, z, p
  <2>7. x + z = p + (y + z)
    BY <2>5
  <2> QED
    BY <2>4, <2>6, <2>7
<1>6. \A n \in Nat : n \in T
  <2> HIDE DEF T
  <2> QED
    BY <1>4, <1>5, ElementTurns!Induction
<1>7. M <= M
  BY <1>1
<1> QED
  BY <1>1, <1>3, <1>6, <1>7 DEF M

\* One more number adds itself.
LEMMA TotalAppend ==
    ASSUME NEW s \in Seq(Int), NEW x \in Int
    PROVE  /\ Append(s, x) \in Seq(Int) /\ Total(s, Len(s)) \in Int
           /\ Total(Append(s, x), Len(s) + 1) = Total(s, Len(s)) + x
<1> DEFINE t == Append(s, x)
           n == Len(s)
<1>1. /\ t \in Seq(Int) /\ Len(t) = n + 1 /\ t[n + 1] = x /\ n \in Nat
      /\ \A i \in 1 .. n : t[i] = s[i]
  BY AppendProperties, LenProperties
<1> HIDE DEF t
<1>2. Holds(t, 0, s)
  <2>1. \A i \in 1 .. n : 0 + i = i
    BY <1>1
  <2>2. 0 + n <= n + 1
    BY <1>1
  <2> QED
    BY <1>1, <2>1, <2>2 DEF Holds
<1>3. Total(s, n) \in Int /\ Total(t, 0 + n) = Total(t, 0) + Total(s, n)
  BY <1>1, <1>2, TotalMoved
<1>4. 0 + n = n
  BY <1>1
<1> DEFINE y == Total(s, n)
<1>5. Total(t, n) = 0 + y /\ y \in Int
  BY <1>3, <1>4, TotalTurn
<1>6. Total(t, n + 1) = Total(t, n) + x
  BY <1>1, TotalTurn
<1> HIDE DEF y
<1>7. Total(t, n) = y
  BY <1>5
<1> QED
  BY <1>1, <1>5, <1>6, <1>7 DEF y, t, n

\* The weight of a byte as the first of an item: the width of its argument makes
\* up for the zeros in front of a number, of which each weighs -100, and the two
\* spellings of null weigh the same.
InfoWeight(n) ==
    IF n < 24 THEN n - 100 ELSE IF n = 24 THEN 0 ELSE IF n = 25 THEN 100
    ELSE IF n = 26 THEN 300 ELSE IF n = 27 THEN 700 ELSE 1000 + n
Respelled(b) == IF b = 247 THEN 246 ELSE b
Weight(b) == 10000 * (Respelled(b) \div 32) + InfoWeight(Respelled(b) % 32)
Weights(bytes) == [i \in DOMAIN bytes |-> Weight(bytes[i])]
Heavy(bytes) == Total(Weights(bytes), Len(bytes))

\* Bytes of the same weight are the same but for the spelling of null.
LEMMA WeightTells ==
    \A b \in Byte : /\ Weight(b) \in Int
                    /\ \A c \in Byte : Weight(b) = Weight(c) => Respelled(b) = Respelled(c)
<1>1. \A b \in Byte : Respelled(b) \in Byte
  BY DEF Respelled, Byte
<1>2. \A b \in Byte : /\ b \div 32 \in 0 .. 7 /\ b % 32 \in 0 .. 31
                      /\ b = 32 * (b \div 32) + (b % 32)
  <2>1. \A b \in 0 .. 255 : b \div 32 \in 0 .. 7 /\ b % 32 \in 0 .. 31
    OBVIOUS
  <2>2. \A b \in 0 .. 255 : b = 32 * (b \div 32) + (b % 32)
    OBVIOUS
  <2> QED
    BY <2>1, <2>2 DEF Byte
<1>3. \A n \in 0 .. 31 : InfoWeight(n) \in -100 .. 1031
  BY DEF InfoWeight
<1>4. \A m, n \in 0 .. 31 : InfoWeight(m) = InfoWeight(n) => m = n
  BY DEF InfoWeight
<1> SUFFICES ASSUME NEW b \in Byte
             PROVE  /\ Weight(b) \in Int
                    /\ \A c \in Byte : Weight(b) = Weight(c) => Respelled(b) = Respelled(c)
  OBVIOUS
<1> DEFINE x == Respelled(b)
           m == x \div 32
           i == InfoWeight(x % 32)
<1>5. m \in 0 .. 7 /\ i \in -100 .. 1031 /\ Weight(b) = 10000 * m + i /\ x % 32 \in 0 .. 31
      /\ x = 32 * m + (x % 32)
  BY <1>1, <1>2, <1>3 DEF Weight
<1>6. ASSUME NEW c \in Byte, Weight(b) = Weight(c) PROVE x = Respelled(c)
  <2> DEFINE y == Respelled(c)
             n == y \div 32
             j == InfoWeight(y % 32)
  <2>1. n \in 0 .. 7 /\ j \in -100 .. 1031 /\ Weight(c) = 10000 * n + j /\ y % 32 \in 0 .. 31
        /\ y = 32 * n + (y % 32)
    BY <1>1, <1>2, <1>3 DEF Weight
  <2> HIDE DEF m, i, n, j
  <2>2. m = n /\ i = j
    BY <1>5, <1>6, <2>1
  <2>3. x % 32 = y % 32
    BY <1>4, <1>5, <2>1, <2>2 DEF i, j
  <2>4. x = 32 * m + (x % 32) /\ y = 32 * n + (y % 32)
    BY <1>5, <2>1
  <2> QED
    BY <2>2, <2>3, <2>4
<1>7. Weight(b) \in Int
  <2> HIDE DEF m, i
  <2> QED
    BY <1>5
<1> QED
  BY <1>6, <1>7

\* The weights of bytes are whole numbers, one for each.
LEMMA WeightsTyped ==
    ASSUME NEW s \in Seq(Byte)
    PROVE  /\ Weights(s) \in Seq(Int) /\ Len(Weights(s)) = Len(s) /\ Len(s) \in Nat
           /\ \A i \in 1 .. Len(s) : Weights(s)[i] = Weight(s[i]) /\ Weight(s[i]) \in Int
           /\ \A n \in Nat : n <= Len(s) => Total(Weights(s), n) \in Int
<1> DEFINE n == Len(s)
           u == Weights(s)
<1>1. n \in Nat /\ DOMAIN s = 1 .. n /\ \A i \in 1 .. n : s[i] \in Byte
  BY LenProperties
<1>2. \A i \in 1 .. n : Weight(s[i]) \in Int
  BY <1>1, WeightTells
<1>3. u = [i \in 1 .. n |-> Weight(s[i])]
  BY <1>1 DEF Weights
<1> HIDE DEF n
<1>4. u \in [1 .. n -> Int] /\ \A i \in 1 .. n : u[i] = Weight(s[i])
  BY <1>2, <1>3
<1> HIDE DEF u
<1>5. u \in Seq(Int) /\ Len(u) = n
  BY <1>1, <1>4
<1>6. \A m \in Nat : m <= Len(u) => Total(u, m) \in Int
  BY <1>5, TotalTyped
<1> QED
  BY <1>1, <1>2, <1>4, <1>5, <1>6 DEF n, u

\* Bytes weigh the same wherever they are.
LEMMA HeldWeight ==
    ASSUME NEW bytes \in Seq(Byte), NEW offset \in Nat, NEW s \in Seq(Byte),
           Holds(bytes, offset, s)
    PROVE  /\ Total(Weights(bytes), offset) \in Int /\ Heavy(s) \in Int
           /\ Total(Weights(bytes), offset + Len(s)) = Total(Weights(bytes), offset) + Heavy(s)
<1> DEFINE a == Weights(bytes)
           b == Weights(s)
<1>1. a \in Seq(Int) /\ Len(a) = Len(bytes) /\ Len(bytes) \in Nat
      /\ \A i \in 1 .. Len(bytes) : a[i] = Weight(bytes[i])
  BY WeightsTyped
<1>2. b \in Seq(Int) /\ Len(b) = Len(s) /\ Len(s) \in Nat
      /\ \A i \in 1 .. Len(s) : b[i] = Weight(s[i])
  BY WeightsTyped
<1>3. offset + Len(s) <= Len(bytes) /\ \A i \in 1 .. Len(s) : bytes[offset + i] = s[i]
  BY DEF Holds
<1> HIDE DEF a, b
<1>4. \A i \in 1 .. Len(s) : offset + i \in 1 .. Len(bytes)
  BY <1>1, <1>2, <1>3
<1>5. \A i \in 1 .. Len(s) : a[offset + i] = b[i]
  BY <1>1, <1>2, <1>3, <1>4
<1>6. Holds(a, offset, b)
  BY <1>1, <1>2, <1>3, <1>5 DEF Holds
<1>7. /\ Total(a, offset) \in Int /\ Total(b, Len(b)) \in Int
      /\ Total(a, offset + Len(b)) = Total(a, offset) + Total(b, Len(b))
  BY <1>1, <1>2, <1>6, TotalMoved
<1> QED
  BY <1>2, <1>7 DEF Heavy, a, b

\* What is read somewhere is held there.
LEMMA BytesHeld ==
    ASSUME NEW bytes \in Seq(Byte), NEW offset \in Nat, NEW n \in Nat,
           offset + n <= Len(bytes)
    PROVE  /\ Bytes(bytes, offset, n) \in Seq(Byte) /\ Len(Bytes(bytes, offset, n)) = n
           /\ Holds(bytes, offset, Bytes(bytes, offset, n))
<1> DEFINE s == Bytes(bytes, offset, n)
<1>1. s \in Seq(Byte) /\ Len(s) = n
  BY BytesTyped
<1>2. \A i \in 1 .. n : bytes[offset + i] = s[i]
  BY DEF Bytes
<1> HIDE DEF s
<1>3. Holds(bytes, offset, s)
  BY <1>1, <1>2 DEF Holds
<1> QED
  BY <1>1, <1>3 DEF s

\* One byte more adds its weight.
LEMMA NextWeight ==
    ASSUME NEW bytes \in Seq(Byte), NEW offset \in Nat, offset + 1 <= Len(bytes)
    PROVE  /\ bytes[offset + 1] \in Byte /\ Weight(bytes[offset + 1]) \in Int
           /\ Total(Weights(bytes), offset) \in Int
           /\ Total(Weights(bytes), offset + 1)
                = Total(Weights(bytes), offset) + Weight(bytes[offset + 1])
<1>1. Len(bytes) \in Nat
  BY LenProperties
<1>2. offset + 1 \in 1 .. Len(bytes) /\ offset <= Len(bytes)
  BY <1>1
<1>3. bytes[offset + 1] \in Byte
  BY <1>2, LenProperties
<1>4. /\ Weights(bytes)[offset + 1] = Weight(bytes[offset + 1])
      /\ Weight(bytes[offset + 1]) \in Int /\ Total(Weights(bytes), offset) \in Int
  BY <1>2, WeightsTyped
<1> QED
  BY <1>3, <1>4, TotalTurn

\* The zeros in front of a number weigh -100 each.
LEMMA ZerosWeight ==
    ASSUME NEW d \in Seq(Byte), NEW width \in Nat, Len(d) <= width
    PROVE  /\ Len(d) \in Nat /\ Heavy(d) \in Int
           /\ Heavy(ToBytes(d, width)) = Heavy(d) - 100 * (width - Len(d))
<1> DEFINE t == ToBytes(d, width)
           n == Len(d)
           z == width - n
           T == {k \in Nat : k <= z => Total(Weights(t), k) = 0 - 100 * k}
<1>1. n \in Nat /\ z \in Nat /\ z + n = width
  BY LenProperties
<1>2. t \in Seq(Byte) /\ Len(t) = width /\ t = [i \in 1 .. width |-> IF i <= z THEN 0 ELSE d[i - z]]
  BY ToBytesTyped DEF ToBytes
<1> HIDE DEF t, n, z
<1>3. \A i \in 1 .. z : i \in 1 .. width /\ t[i] = 0
  <2> SUFFICES ASSUME NEW i \in 1 .. z PROVE i \in 1 .. width /\ t[i] = 0
    OBVIOUS
  <2>1. i \in 1 .. width /\ i <= z
    BY <1>1
  <2> QED
    BY <1>2, <2>1
<1>4. \A i \in 1 .. n : t[z + i] = d[i]
  <2> SUFFICES ASSUME NEW i \in 1 .. n PROVE t[z + i] = d[i]
    OBVIOUS
  <2> DEFINE k == z + i
  <2>1. k \in 1 .. width /\ ~ (k <= z) /\ k - z = i
    BY <1>1
  <2> HIDE DEF k
  <2>2. t[k] = d[i]
    BY <1>2, <2>1
  <2> QED
    BY <2>2 DEF k
<1>5. Weight(0) = 0 - 100
  BY DEF Weight, Respelled, InfoWeight
<1>6. 0 \in T
  BY TotalTurn
<1>7. \A k \in Nat : k \in T => k + 1 \in T
  <2> SUFFICES ASSUME NEW k \in Nat, k \in T, k + 1 <= z
               PROVE  Total(Weights(t), k + 1) = 0 - 100 * (k + 1)
    OBVIOUS
  <2>1. k <= z /\ k + 1 \in 1 .. z /\ k + 1 <= Len(t)
    BY <1>1, <1>2
  <2> DEFINE x == Total(Weights(t), k)
  <2>2. Total(Weights(t), k + 1) = x + Weight(0) /\ x = 0 - 100 * k
    BY <1>2, <1>3, <2>1, NextWeight
  <2> HIDE DEF x
  <2>3. x + (0 - 100) = 0 - 100 * (k + 1)
    BY <2>2
  <2> QED
    BY <1>5, <2>2, <2>3
<1>8. \A k \in Nat : k \in T
  <2> HIDE DEF T
  <2> QED
    BY <1>6, <1>7, ElementTurns!Induction
<1>9. Total(Weights(t), z) = 0 - 100 * z
  <2>1. z <= z
    BY <1>1
  <2> QED
    BY <1>1, <1>8, <2>1
<1> HIDE DEF T
<1>10. Holds(t, z, d)
  BY <1>1, <1>2, <1>4 DEF Holds, n
<1>11. Heavy(d) \in Int /\ Total(Weights(t), z + n) = Total(Weights(t), z) + Heavy(d)
  BY <1>1, <1>2, <1>10, HeldWeight DEF n
<1> DEFINE x == Heavy(d)
           y == Total(Weights(t), z)
<1>12. Heavy(t) = y + x /\ x \in Int /\ y = 0 - 100 * z
  BY <1>1, <1>2, <1>9, <1>11 DEF Heavy
<1> HIDE DEF x, y
<1>13. Heavy(t) = x - 100 * z
  BY <1>1, <1>12
<1> QED
  BY <1>1, <1>12, <1>13 DEF x, n, z, t

\* What a head weighs that announces a number, in whatever width.
HeadWeight(major, arg) == 10000 * major - 100 + 100 * Len(arg) + Heavy(arg)

LEMMA HeadWeightTyped ==
    ASSUME NEW major \in 0 .. 6, NEW arg \in Arg
    PROVE  HeadWeight(major, arg) \in Int /\ Heavy(arg) \in Int /\ Len(arg) \in Nat
<1>1. arg \in Seq(Byte) /\ Len(arg) \in Nat /\ Len(arg) <= Len(arg)
  BY LenProperties DEF Arg, Number
<1>2. Heavy(arg) \in Int
  BY <1>1, ZerosWeight
<1> DEFINE n == Len(arg)
           h == Heavy(arg)
<1>3. HeadWeight(major, arg) = 10000 * major - 100 + 100 * n + h
  BY DEF HeadWeight
<1>4. n \in Nat /\ h \in Int
  BY <1>1, <1>2
<1> HIDE DEF n, h
<1>5. 10000 * major - 100 + 100 * n + h \in Int
  BY <1>4
<1> QED
  BY <1>1, <1>2, <1>3, <1>5

\* The weight of a byte that begins an item which is no simple value.
LEMMA InitialWeight ==
    ASSUME NEW b \in Byte, b \div 32 \in 0 .. 6
    PROVE  Weight(b) = 10000 * (b \div 32) + InfoWeight(b % 32)
<1>1. b # 247
  BY DEF Byte
<1> QED
  BY <1>1 DEF Weight, Respelled

\* One byte below 24 as a number.
LEMMA SmallWeight ==
    ASSUME NEW info \in 0 .. 23
    PROVE  /\ Digits(<<info>>) \in Arg
           /\ 100 * Len(Digits(<<info>>)) + Heavy(Digits(<<info>>)) = info
<1> DEFINE s == <<info>>
           d == Digits(s)
<1>1. s \in Seq(Byte) /\ Len(s) = 1 /\ s[1] = info /\ info \in Byte
  BY DEF Byte
<1> HIDE DEF s
<1>2. d \in Arg /\ d \in Seq(Byte) /\ Len(d) <= 1 /\ ToBytes(d, 1) = s
  <2>1. Len(s) <= 8
    BY <1>1
  <2>2. d \in Arg
    BY <1>1, <2>1, DigitsAreArg
  <2>3. d \in Seq(Byte) /\ Len(d) <= Len(s)
    BY <1>1, DigitsTyped
  <2>4. ToBytes(d, Len(s)) = s
    BY <1>1, DigitsRestored
  <2> QED
    BY <1>1, <2>2, <2>3, <2>4
<1>3. Heavy(s) = info - 100
  <2>0. 0 \in Nat /\ 0 + 1 = 1 /\ 0 + 1 <= Len(s)
    BY <1>1
  <2>1. Total(Weights(s), 0 + 1) = Total(Weights(s), 0) + Weight(s[0 + 1])
    BY <1>1, <2>0, NextWeight
  <2>2. Total(Weights(s), 1) = 0 + Weight(info)
    BY <1>1, <2>0, <2>1, TotalTurn
  <2>3. Weight(info) = info - 100
    <3>1. Respelled(info) = info /\ info \div 32 = 0 /\ info % 32 = info
      BY DEF Respelled
    <3> QED
      BY <3>1 DEF Weight, InfoWeight
  <2> QED
    BY <1>1, <2>2, <2>3 DEF Heavy
<1> HIDE DEF d
<1>4. /\ Len(d) \in Nat /\ Heavy(d) \in Int
      /\ Heavy(ToBytes(d, 1)) = Heavy(d) - 100 * (1 - Len(d))
  BY <1>2, ZerosWeight
<1> DEFINE n == Len(d)
           h == Heavy(d)
<1>5. n \in Nat /\ h \in Int /\ info - 100 = h - 100 * (1 - n)
  BY <1>2, <1>3, <1>4
<1> HIDE DEF n, h
<1>6. 100 * n + h = info
  BY <1>5
<1> QED
  BY <1>2, <1>6 DEF n, h, d, s

\* A head weighs the same in whatever width it was written.
LEMMA HeadWeighs ==
    ASSUME NEW bytes \in Seq(Byte), NEW offset \in Nat, offset + 1 <= Len(bytes),
           NEW major \in 0 .. 6, bytes[offset + 1] \div 32 = major,
           NEW info, bytes[offset + 1] % 32 = info,
           _read_length(bytes, offset + 1, info).ok
    PROVE  LET head == _read_length(bytes, offset + 1, info)
           IN  /\ head.value \in Arg /\ HeadWeight(major, head.value) \in Int
               /\ head.offset \in Nat /\ offset < head.offset /\ head.offset <= Len(bytes)
               /\ Total(Weights(bytes), offset) \in Int
               /\ Total(Weights(bytes), head.offset)
                    = Total(Weights(bytes), offset) + HeadWeight(major, head.value)
<1> DEFINE at == offset + 1
           head == _read_length(bytes, at, info)
           arg == head.value
           u == Weights(bytes)
           x == Total(u, offset)
           y == Total(u, at)
<1>1. info \in 0 .. 31 /\ at \in Nat /\ offset < at /\ at <= Len(bytes) /\ Len(bytes) \in Nat
  <2>1. Len(bytes) \in Nat /\ at \in Nat /\ offset < at
    BY LenProperties
  <2>2. info \in 0 .. 31
    BY InitialByte
  <2> QED
    BY <2>1, <2>2
<1>2. x \in Int /\ y = x + (10000 * major + InfoWeight(info))
  <2>1. /\ bytes[at] \in Byte /\ x \in Int /\ y = x + Weight(bytes[at])
    BY NextWeight
  <2>2. Weight(bytes[at]) = 10000 * major + InfoWeight(info)
    BY <2>1, InitialWeight
  <2> QED
    BY <2>1, <2>2
<1> HIDE DEF x, y, u
<1>3. CASE info < 24
  <2> DEFINE d == Digits(<<info>>)
             n == Len(d)
             h == Heavy(d)
  <2>1. head = Decoded(d, at)
    BY <1>3 DEF _read_length
  <2>2. d \in Arg /\ 100 * n + h = info
    <3>1. info \in 0 .. 23
      BY <1>1, <1>3
    <3> QED
      BY <3>1, SmallWeight
  <2> HIDE DEF d, head
  <2>3. arg = d /\ head.offset = at
    BY <2>1 DEF Decoded
  <2>4. HeadWeight(major, d) \in Int /\ h \in Int /\ n \in Nat
    BY <2>2, HeadWeightTyped
  <2>5. HeadWeight(major, d) = 10000 * major - 100 + 100 * n + h
    BY DEF HeadWeight
  <2>6. InfoWeight(info) = info - 100
    BY <1>3 DEF InfoWeight
  <2> HIDE DEF n, h, at
  <2>7. y = x + HeadWeight(major, d)
    BY <1>1, <1>2, <2>2, <2>4, <2>5, <2>6
  <2> QED
    BY <1>1, <1>2, <2>2, <2>3, <2>4, <2>7 DEF x, y, u, head, arg, at
<1>4. CASE info \in 24 .. 27 /\ _need(bytes, at, Widths[info - 23])
  <2> DEFINE width == Widths[info - 23]
             s == Bytes(bytes, at, width)
             d == Digits(s)
             n == Len(d)
             h == Heavy(d)
             z == Total(u, at + width)
  <2>1. head = Decoded(d, at + width)
    BY <1>4 DEF _read_length
  <2>2. width \in 1 .. 8 /\ InfoWeight(info) = 100 * width - 100
    <3>1. info \in {24, 25, 26, 27}
      BY <1>4
    <3>2. CASE info = 24
      <4>1. width = 1
        BY <3>2 DEF Widths
      <4> QED
        BY <3>2, <4>1 DEF InfoWeight
    <3>3. CASE info = 25
      <4>1. width = 2
        BY <3>3 DEF Widths
      <4> QED
        BY <3>3, <4>1 DEF InfoWeight
    <3>4. CASE info = 26
      <4>1. width = 4
        BY <3>4 DEF Widths
      <4> QED
        BY <3>4, <4>1 DEF InfoWeight
    <3>5. CASE info = 27
      <4>1. width = 8
        BY <3>5 DEF Widths
      <4> QED
        BY <3>5, <4>1 DEF InfoWeight
    <3> QED
      BY <3>1, <3>2, <3>3, <3>4, <3>5
  <2>3. at + width <= Len(bytes)
    BY <1>4 DEF _need
  <2> HIDE DEF width
  <2>4. s \in Seq(Byte) /\ Len(s) = width /\ Holds(bytes, at, s)
    <3>1. at \in Nat /\ width \in Nat
      BY <1>1, <2>2
    <3> HIDE DEF at
    <3> QED
      BY <2>3, <3>1, BytesHeld
  <2> HIDE DEF s
  <2>5. d \in Arg /\ n <= width /\ ToBytes(d, width) = s /\ d \in Seq(Byte)
    BY <2>2, <2>4, DigitsAreArg, DigitsTyped, DigitsRestored
  <2>6. Heavy(s) \in Int /\ z = y + Heavy(s)
    BY <1>1, <2>4, HeldWeight DEF u, y
  <2> HIDE DEF d, z
  <2>7. n \in Nat /\ h \in Int /\ Heavy(ToBytes(d, width)) = h - 100 * (width - n)
    BY <2>2, <2>5, ZerosWeight
  <2>8. HeadWeight(major, d) \in Int /\ HeadWeight(major, d) = 10000 * major - 100 + 100 * n + h
    <3>1. HeadWeight(major, d) \in Int
      BY <2>5, HeadWeightTyped
    <3> QED
      BY <3>1 DEF HeadWeight
  <2> HIDE DEF head
  <2>9. arg = d /\ head.offset = at + width
    BY <2>1 DEF Decoded
  <2> HIDE DEF n, h, at
  <2>10. z = x + HeadWeight(major, d)
    BY <1>2, <2>2, <2>5, <2>6, <2>7, <2>8
  <2>11. at + width \in Nat /\ offset < at + width
    BY <1>1, <2>2
  <2> QED
    BY <1>2, <2>3, <2>5, <2>8, <2>9, <2>10, <2>11 DEF x, z, u, head, arg, at
<1>5. CASE ~(info < 24) /\ ~(info \in 24 .. 27 /\ _need(bytes, at, Widths[info - 23]))
  BY <1>5 DEF _read_length, CBORError, Error
<1> QED
  BY <1>3, <1>4, <1>5

\* Bytes without a tag, short enough for the lengths that are told apart.
Untagged(bytes) ==
    /\ bytes \in Seq(Byte) /\ Len(bytes) < TooLong
    /\ \A i \in 1 .. Len(bytes) : bytes[i] \div 32 # 6

\* What item reads from bytes weighs what w says of its value.
Weighed(item, bytes, S, w) ==
    /\ DOMAIN w = S
    /\ \A o \in Nat : item[o].ok =>
          /\ item[o].value \in S /\ w[item[o].value] \in Int
          /\ item[o].offset \in Nat /\ o < item[o].offset /\ item[o].offset <= Len(bytes)
          /\ Total(Weights(bytes), item[o].offset)
               = Total(Weights(bytes), o) + w[item[o].value]

Measured(S, w) == {x \in S : w[x] \in Int}

\* A list of n elements from at on, which weigh what their values do.
ListWeighed(list, at, n, bytes, S, w) ==
    \E items \in Seq(Measured(S, w)) :
       /\ list.value = Array(items) /\ Len(items) = n
       /\ list.offset \in Nat /\ at + n <= list.offset /\ list.offset <= Len(bytes)
       /\ Total(Weights(bytes), list.offset)
            = Total(Weights(bytes), at) + Total(Each(items, w), n)

\* The elements of an array weigh what their values do.
LEMMA ElementsWeigh ==
    ASSUME NEW item, NEW bytes, NEW S, NEW w, Untagged(bytes), Weighed(item, bytes, S, w),
           NEW at \in Nat, at <= Len(bytes)
    PROVE  \A n \in Nat :
              LET list == Elements!Iterate(Loop(item, at))[n]
              IN  list.ok => ListWeighed(list, at, n, bytes, S, w)
<1> DEFINE list(n) == Elements!Iterate(Loop(item, at))[n]
           M == Measured(S, w)
           u == Weights(bytes)
           T == {n \in Nat : list(n).ok => ListWeighed(list(n), at, n, bytes, S, w)}
<1>0. /\ \A x \in M : w[x] \in Int
      /\ \A n \in Nat : n <= Len(bytes) => Total(u, n) \in Int
  BY WeightsTyped DEF Measured, Untagged
<1> HIDE DEF M, u
<1>1. 0 \in T
  <2> DEFINE e == << >>
             f == Each(e, w)
  <2>1. list(0) = Decoded(Array(e), at)
    BY ElementsStart DEF NoElements, Loop
  <2>2. e \in Seq(M) /\ Len(e) = 0
    OBVIOUS
  <2> HIDE DEF e, list, f
  <2>3. list(0).value = Array(e) /\ list(0).offset = at
    BY <2>1 DEF Decoded
  <2>4. Total(f, 0) = 0
    BY TotalTurn
  <2>5. at + 0 <= at /\ Total(u, at) = Total(u, at) + Total(f, 0)
    <3> DEFINE t == Total(u, at)
    <3>1. t \in Int
      BY <1>0
    <3> HIDE DEF t
    <3>2. t = t + 0
      BY <3>1
    <3> QED
      BY <2>4, <3>2 DEF t
  <2>6. ListWeighed(list(0), at, 0, bytes, S, w)
    BY <2>2, <2>3, <2>5 DEF ListWeighed, M, u, f
  <2> QED
    BY <2>6
<1>2. \A n \in Nat : n \in T => n + 1 \in T
  <2> HIDE DEF list
  <2> SUFFICES ASSUME NEW n \in Nat,
                      list(n).ok => ListWeighed(list(n), at, n, bytes, S, w),
                      list(n + 1).ok
               PROVE  ListWeighed(list(n + 1), at, n + 1, bytes, S, w)
    OBVIOUS
  <2> DEFINE before == list(n)
             after == list(n + 1)
             next == item[before.offset]
  <2>1. after = NextElement(Loop(item, at), before)
    BY ElementsTurn DEF list
  <2> HIDE DEF after, before
  <2>2. NextElement(Loop(item, at), before)
          = IF before.ok
            THEN IF next.ok
                 THEN Decoded(Array(Append(before.value.items, next.value)), next.offset)
                 ELSE next
            ELSE before
    BY DEF NextElement, AndThen, Loop
  <2>3. before.ok /\ next.ok
    BY <2>1, <2>2 DEF after
  <2>4. PICK items \in Seq(M) :
           /\ before.value = Array(items) /\ Len(items) = n
           /\ before.offset \in Nat /\ at + n <= before.offset /\ before.offset <= Len(bytes)
           /\ Total(u, before.offset) = Total(u, at) + Total(Each(items, w), n)
    BY <2>3 DEF ListWeighed, before, M, u
  <2> DEFINE x == next.value
             more == Append(items, x)
             o == before.offset
  <2>5. /\ x \in M /\ next.offset \in Nat /\ o < next.offset /\ next.offset <= Len(bytes)
        /\ Total(u, next.offset) = Total(u, o) + w[x] /\ w[x] \in Int
    BY <2>3, <2>4 DEF Weighed, M, Measured, u
  <2>6. after = Decoded(Array(more), next.offset)
    <3>1. before.value.items = items
      BY <2>4 DEF Array
    <3> QED
      BY <2>1, <2>2, <2>3, <3>1
  <2> HIDE DEF next
  <2>7. after.value = Array(more) /\ after.offset = next.offset
    BY <2>6 DEF Decoded
  <2> HIDE DEF x
  <2>8. more \in Seq(M) /\ Len(more) = n + 1
    BY <2>4, <2>5, AppendProperties
  <2> DEFINE a == Each(items, w)
             p == Total(u, at)
             q == Total(a, n)
             r == w[x]
  <2>9. a \in Seq(Int) /\ Len(a) = n /\ Each(more, w) = Append(a, r)
    <3>1. Stands(w, M, Int)
      BY <1>0 DEF Stands
    <3>2. a \in Seq(Int) /\ Len(a) = Len(items)
      BY <2>4, <3>1, EachTyped
    <3>3. Each(more, w) = Append(a, r)
      BY <2>4, <2>5, <3>1, EachAppend
    <3> QED
      BY <2>4, <3>2, <3>3
  <2> HIDE DEF a
  <2>10. q \in Int /\ r \in Int /\ Total(Append(a, r), n + 1) = q + r
    BY <2>5, <2>9, TotalAppend
  <2>11. p \in Int /\ Total(u, next.offset) = (p + q) + r
    BY <1>0, <2>4, <2>5 DEF a
  <2> HIDE DEF p, q, r, o, more
  <2>12. Total(u, next.offset) = p + Total(Each(more, w), n + 1)
    <3>1. (p + q) + r = p + (q + r)
      BY <2>10, <2>11
    <3> QED
      BY <2>9, <2>10, <2>11, <3>1
  <2>13. at + (n + 1) <= next.offset
    <3>1. o \in Nat /\ at + n <= o /\ o < next.offset /\ next.offset \in Nat
      BY <2>4, <2>5 DEF o
    <3> QED
      BY <3>1
  <2>14. ListWeighed(after, at, n + 1, bytes, S, w)
    BY <2>5, <2>7, <2>8, <2>12, <2>13 DEF ListWeighed, M, u, p
  <2> QED
    BY <2>14 DEF after
<1>3. \A n \in Nat : n \in T
  <2> HIDE DEF T
  <2> QED
    BY <1>1, <1>2, ElementTurns!Induction
<1> QED
  BY <1>3

\* The sum of the weights of the entries of a map, which does not depend on an
\* order: what they weigh more than nothing less what they weigh less than that.
Gain(w) == [x \in DOMAIN w |-> [i \in 1 .. w[x] |-> 0]]
Loss(w) == [x \in DOMAIN w |-> [i \in 1 .. 0 - w[x] |-> 0]]
FinitelyHeavy(E, w) == IsFiniteSet(Cells(E, Gain(w))) /\ IsFiniteSet(Cells(E, Loss(w)))
MapWeight(E, w) == Cardinality(Cells(E, Gain(w))) - Cardinality(Cells(E, Loss(w)))

\* A number is what it has above nothing less what it has below.
LEMMA GainLoss ==
    ASSUME NEW w, NEW x \in DOMAIN w, w[x] \in Int
    PROVE  /\ Len(Gain(w)[x]) \in Nat /\ Len(Loss(w)[x]) \in Nat
           /\ w[x] = Len(Gain(w)[x]) - Len(Loss(w)[x])
<1> DEFINE n == w[x]
           a == [i \in 1 .. n |-> 0]
           b == [i \in 1 .. 0 - n |-> 0]
           e == << >>
<1>1. Gain(w)[x] = a /\ Loss(w)[x] = b /\ n \in Int
  BY DEF Gain, Loss
<1>2. e = [i \in 1 .. 0 |-> 0] /\ Len(e) = 0
  OBVIOUS
<1> HIDE DEF n, e
<1>3. CASE n >= 0
  <2>1. n \in Nat
    BY <1>1, <1>3
  <2>2. a \in Seq({0}) /\ Len(a) = n
    BY <2>1
  <2>3. 1 .. 0 - n = 1 .. 0
    BY <2>1
  <2>4. b = e
    BY <1>2, <2>3
  <2> HIDE DEF a, b
  <2> QED
    BY <1>1, <1>2, <2>1, <2>2, <2>4 DEF n
<1>4. CASE ~ (n >= 0)
  <2> DEFINE m == 0 - n
  <2>1. m \in Nat /\ n = 0 - m
    BY <1>1, <1>4
  <2>2. b = [i \in 1 .. m |-> 0]
    OBVIOUS
  <2>3. 1 .. n = 1 .. 0
    BY <1>1, <1>4
  <2>4. a = e
    BY <1>2, <2>3
  <2> HIDE DEF a, b, m
  <2>5. Len(b) = m
    BY <2>1, <2>2
  <2> QED
    BY <1>1, <1>2, <2>1, <2>4, <2>5 DEF n
<1> QED
  BY <1>3, <1>4

\* One more entry adds the weights of its key and its value.
LEMMA MapWeightGrows ==
    ASSUME NEW E, NEW w, NEW k \in DOMAIN w, NEW v \in DOMAIN w, w[k] \in Int, w[v] \in Int,
           <<k, v>> \notin E, FinitelyHeavy(E, w)
    PROVE  /\ FinitelyHeavy(E \cup {<<k, v>>}, w)
           /\ MapWeight(E, w) \in Int
           /\ MapWeight(E \cup {<<k, v>>}, w) = MapWeight(E, w) + w[k] + w[v]
<1> DEFINE e == <<k, v>>
           G == Gain(w)
           L == Loss(w)
           a == Len(G[k])
           b == Len(G[v])
           c == Len(L[k])
           d == Len(L[v])
           p == Cardinality(Cells(E, G))
           q == Cardinality(Cells(E, L))
           r == Cardinality(Cells(E \cup {e}, G))
           s == Cardinality(Cells(E \cup {e}, L))
<1>1. a \in Nat /\ c \in Nat /\ w[k] = a - c
  BY GainLoss
<1>2. b \in Nat /\ d \in Nat /\ w[v] = b - d
  BY GainLoss
<1>3. e \notin E /\ e[1] = k /\ e[2] = v
  OBVIOUS
<1>4. Cost(e, G) = a + b /\ Cost(e, L) = c + d
  BY DEF Cost
<1>5. IsFiniteSet(Cells(E, G)) /\ IsFiniteSet(Cells(E, L))
  BY DEF FinitelyHeavy
<1> HIDE DEF e, G, L, a, b, c, d
<1>6. Cost(e, G) \in Nat /\ Cost(e, L) \in Nat
  BY <1>1, <1>2, <1>4
<1>7. IsFiniteSet(Cells(E \cup {e}, G)) /\ p \in Nat /\ r = p + Cost(e, G)
  BY <1>3, <1>5, <1>6, CellsGrow
<1>8. IsFiniteSet(Cells(E \cup {e}, L)) /\ q \in Nat /\ s = q + Cost(e, L)
  BY <1>3, <1>5, <1>6, CellsGrow
<1>9. MapWeight(E, w) = p - q /\ MapWeight(E \cup {e}, w) = r - s
  BY DEF MapWeight, G, L
<1>10. FinitelyHeavy(E \cup {e}, w)
  BY <1>7, <1>8 DEF FinitelyHeavy, G, L
<1> HIDE DEF p, q, r, s
<1>11. p - q \in Int /\ r - s = p - q + (a - c) + (b - d)
  BY <1>1, <1>2, <1>4, <1>7, <1>8
<1> QED
  BY <1>1, <1>2, <1>9, <1>10, <1>11 DEF e

\* A map of n entries from at on, which weigh what their keys and values do.
DictWeighed(dict, at, n, bytes, S, w) ==
    \E E : /\ dict.value = Map(E)
           /\ E \subseteq Measured(S, w) \X Measured(S, w)
           /\ IsFiniteSet(E) /\ Cardinality(E) = n
           /\ dict.offset \in Nat /\ at + n <= dict.offset /\ dict.offset <= Len(bytes)
           /\ FinitelyHeavy(E, w) /\ MapWeight(E, w) \in Int
           /\ Total(Weights(bytes), dict.offset)
                = Total(Weights(bytes), at) + MapWeight(E, w)

\* The entries of a map weigh what their keys and values do.
LEMMA EntriesWeigh ==
    ASSUME NEW item, NEW bytes, NEW S, NEW w, Untagged(bytes), Weighed(item, bytes, S, w),
           NEW at \in Nat, at <= Len(bytes)
    PROVE  \A n \in Nat :
              LET dict == Entries!Iterate(Loop(item, at))[n]
              IN  dict.ok => DictWeighed(dict, at, n, bytes, S, w)
<1> DEFINE dict(n) == Entries!Iterate(Loop(item, at))[n]
           M == Measured(S, w)
           u == Weights(bytes)
           T == {n \in Nat : dict(n).ok => DictWeighed(dict(n), at, n, bytes, S, w)}
<1>0. /\ DOMAIN w = S /\ \A x \in M : x \in S /\ w[x] \in Int
      /\ \A n \in Nat : n <= Len(bytes) => Total(u, n) \in Int
  BY WeightsTyped DEF Measured, Untagged, Weighed
<1> HIDE DEF M, u
<1>1. 0 \in T
  <2> DEFINE E == {}
             c == Cells(E, Gain(w))
             d == Cells(E, Loss(w))
             t == Total(u, at)
  <2>1. dict(0) = Decoded(Map(E), at)
    BY EntriesStart DEF NoEntries, Loop
  <2>2. c = {} /\ d = {}
    BY DEF Cells
  <2>3. /\ IsFiniteSet(E) /\ Cardinality(E) = 0
        /\ IsFiniteSet(c) /\ Cardinality(c) = 0 /\ IsFiniteSet(d) /\ Cardinality(d) = 0
    BY <2>2, FS_EmptySet
  <2>4. E \subseteq M \X M
    OBVIOUS
  <2> HIDE DEF E, dict
  <2>5. FinitelyHeavy(E, w) /\ MapWeight(E, w) = 0
    <3>1. MapWeight(E, w) = 0 - 0
      BY <2>3 DEF MapWeight
    <3> QED
      BY <2>3, <3>1 DEF FinitelyHeavy
  <2>6. dict(0).value = Map(E) /\ dict(0).offset = at
    BY <2>1 DEF Decoded
  <2>7. t \in Int
    BY <1>0
  <2> HIDE DEF t
  <2>8. at + 0 <= at /\ t = t + 0
    BY <2>7
  <2>9. DictWeighed(dict(0), at, 0, bytes, S, w)
    BY <2>3, <2>4, <2>5, <2>6, <2>8 DEF DictWeighed, M, u, t
  <2> QED
    BY <2>9
<1>2. \A n \in Nat : n \in T => n + 1 \in T
  <2> HIDE DEF dict
  <2> SUFFICES ASSUME NEW n \in Nat,
                      dict(n).ok => DictWeighed(dict(n), at, n, bytes, S, w),
                      dict(n + 1).ok
               PROVE  DictWeighed(dict(n + 1), at, n + 1, bytes, S, w)
    OBVIOUS
  <2> DEFINE before == dict(n)
             after == dict(n + 1)
             key == item[before.offset]
             val == item[key.offset]
  <2>1. after = NextEntry(Loop(item, at), before)
    BY EntriesTurn DEF dict
  <2> HIDE DEF after, before
  <2>2. NextEntry(Loop(item, at), before)
          = IF before.ok
            THEN IF key.ok
                 THEN IF val.ok THEN AddEntry(before.value.entries, key.value, val) ELSE val
                 ELSE key
            ELSE before
    BY DEF NextEntry, AndThen, Loop
  <2>3. before.ok /\ key.ok /\ val.ok
    BY <2>1, <2>2 DEF after
  <2>4. PICK E :
           /\ before.value = Map(E)
           /\ E \subseteq M \X M /\ IsFiniteSet(E) /\ Cardinality(E) = n
           /\ before.offset \in Nat /\ at + n <= before.offset /\ before.offset <= Len(bytes)
           /\ FinitelyHeavy(E, w) /\ MapWeight(E, w) \in Int
           /\ Total(u, before.offset) = Total(u, at) + MapWeight(E, w)
    BY <2>3 DEF DictWeighed, before, M, u
  <2> DEFINE k == key.value
             v == val.value
             e == <<k, v>>
             o == before.offset
             m == key.offset
             p == val.offset
  <2>5. /\ k \in M /\ m \in Nat /\ o < m /\ m <= Len(bytes)
        /\ Total(u, m) = Total(u, o) + w[k]
    BY <2>3, <2>4 DEF Weighed, M, Measured, u
  <2>6. /\ v \in M /\ p \in Nat /\ m < p /\ p <= Len(bytes)
        /\ Total(u, p) = Total(u, m) + w[v]
    BY <2>3, <2>5 DEF Weighed, M, Measured, u
  <2>7. after = AddEntry(E, k, val)
    <3>1. before.value.entries = E
      BY <2>4 DEF Map
    <3> QED
      BY <2>1, <2>2, <2>3, <3>1
  <2> HIDE DEF val, key
  <2>8. ~ HasKey(E, k) /\ after = Decoded(Map(Put(E, k, v)), p)
    BY <2>7 DEF AddEntry, Duplicate, CBORError, Error, after
  <2>9. \A f \in E : Hashed(f[1]) # Hashed(k)
    BY <2>8 DEF HasKey
  <2>10. Put(E, k, v) = E \cup {e}
    BY <2>9 DEF Put
  <2> DEFINE G == E \cup {e}
  <2>11. after.value = Map(G) /\ after.offset = p
    BY <2>8, <2>10 DEF Decoded
  <2> HIDE DEF k, v
  <2>12. e \in M \X M /\ e[1] = k /\ e[2] = v
    BY <2>5, <2>6
  <2>13. e \notin E
    BY <2>9, <2>12
  <2>14. FinitelyHeavy(G, w) /\ MapWeight(G, w) = MapWeight(E, w) + w[k] + w[v]
    <3>1. k \in DOMAIN w /\ v \in DOMAIN w /\ w[k] \in Int /\ w[v] \in Int
      BY <1>0, <2>5, <2>6
    <3>2. <<k, v>> \notin E /\ FinitelyHeavy(E, w)
      BY <2>4, <2>13
    <3> QED
      BY <3>1, <3>2, MapWeightGrows
  <2> HIDE DEF e
  <2>15. G \subseteq M \X M /\ IsFiniteSet(G) /\ Cardinality(G) = n + 1
    BY <2>4, <2>12, <2>13, FS_AddElement
  <2> DEFINE a == w[k]
             b == w[v]
             c == MapWeight(E, w)
             d == MapWeight(G, w)
             t == Total(u, at)
             z == Total(u, p)
  <2>16. /\ a \in Int /\ b \in Int /\ c \in Int /\ d = c + a + b /\ t \in Int
         /\ z = Total(u, m) + b /\ Total(u, m) = Total(u, o) + a /\ Total(u, o) = t + c
    BY <1>0, <2>4, <2>5, <2>6, <2>14
  <2>17. o \in Nat /\ m \in Nat /\ p \in Nat /\ at + n <= o /\ o < m /\ m < p
    BY <2>4, <2>5, <2>6
  <2>18. z = ((t + c) + a) + b
    BY <2>16
  <2> HIDE DEF a, b, c, d, t, z, G, o, m, p
  <2>19. z = t + d /\ d \in Int
    BY <2>16, <2>18
  <2>20. at + (n + 1) <= p
    BY <2>17
  <2>21. DictWeighed(after, at, n + 1, bytes, S, w)
    BY <2>6, <2>11, <2>14, <2>15, <2>19, <2>20 DEF DictWeighed, d, z, t, M, u
  <2> QED
    BY <2>21 DEF after
<1>3. \A n \in Nat : n \in T
  <2> HIDE DEF T
  <2> QED
    BY <1>1, <1>2, ElementTurns!Induction
<1> QED
  BY <1>3

\* What a value weighs, where w[x] is what its part x weighs.
CountDigits(n) == LengthDigits([i \in 1 .. n |-> 0])
SimpleByte(s) == CASE s = "false" -> 244 [] s = "true" -> 245 [] s = "null" -> 246
ItemWeight(x, w) ==
    CASE x.type = "int" -> HeadWeight(IF x.neg THEN 1 ELSE 0, x.arg)
      [] x.type = "bytes" -> HeadWeight(2, LengthDigits(x.bytes)) + Heavy(x.bytes)
      [] x.type = "text" -> HeadWeight(3, LengthDigits(x.text)) + Heavy(x.text)
      [] x.type = "array" ->
           HeadWeight(4, LengthDigits(x.items)) + Total(Each(x.items, w), Len(x.items))
      [] x.type = "map" ->
           HeadWeight(5, CountDigits(Cardinality(x.entries))) + MapWeight(x.entries, w)
      [] x.type = "simple" -> Weight(SimpleByte(x.simple))

\* What was read from offset on weighs what its value does.
Weighs(r, offset, bytes, w) ==
    r.ok => /\ ItemWeight(r.value, w) \in Int
            /\ Total(Weights(bytes), r.offset)
                 = Total(Weights(bytes), offset) + ItemWeight(r.value, w)

\* A head that was read, from offset on, and what it weighs.
HeadWeighed(bytes, offset, head, major) ==
    /\ head.value \in Arg /\ HeadWeight(major, head.value) \in Int
    /\ offset \in Nat /\ head.offset \in Nat /\ head.offset <= Len(bytes)
    /\ Total(Weights(bytes), offset) \in Int
    /\ Total(Weights(bytes), head.offset)
         = Total(Weights(bytes), offset) + HeadWeight(major, head.value)

\* What follows a head adds its weight to that of the head.
LEMMA BehindHead ==
    ASSUME NEW bytes, NEW offset, NEW head, NEW major, HeadWeighed(bytes, offset, head, major),
           NEW x, NEW w, NEW weight \in Int, NEW r,
           ItemWeight(x, w) = HeadWeight(major, head.value) + weight,
           r.value = x,
           Total(Weights(bytes), r.offset) = Total(Weights(bytes), head.offset) + weight
    PROVE  Weighs(r, offset, bytes, w)
<1> DEFINE t == Total(Weights(bytes), offset)
           h == HeadWeight(major, head.value)
           i == ItemWeight(x, w)
           z == Total(Weights(bytes), r.offset)
<1>1. t \in Int /\ h \in Int /\ i = h + weight /\ z = (t + h) + weight
  BY DEF HeadWeighed
<1> HIDE DEF t, h, i, z
<1>2. i \in Int /\ z = t + i
  BY <1>1
<1> QED
  BY <1>2 DEF Weighs, i, z, t

\* Numbers weigh what their heads do.
LEMMA IntWeighs ==
    ASSUME NEW bytes, NEW item, NEW w, NEW offset, NEW head, NEW major \in {0, 1},
           HeadWeighed(bytes, offset, head, major)
    PROVE  Weighs(Rest(bytes, item, major, head), offset, bytes, w)
<1> DEFINE r == Rest(bytes, item, major, head)
           arg == head.value
           neg == major = 1
           x == Int_(neg, arg)
<1>1. r = Decoded(x, head.offset)
  BY DEF Rest
<1>2. neg \in BOOLEAN /\ (IF neg THEN 1 ELSE 0) = major
  OBVIOUS
<1>3. ItemWeight(x, w) = HeadWeight(IF neg THEN 1 ELSE 0, arg)
  BY DEF ItemWeight, Int_
<1> HIDE DEF r, neg, x
<1>4. r.value = x /\ r.offset = head.offset
  BY <1>1 DEF Decoded
<1> QED
  BY <1>2, <1>3, <1>4 DEF Weighs, HeadWeighed, r, arg

\* Strings weigh what their heads and their bytes do.
LEMMA StringWeighs ==
    ASSUME NEW bytes, NEW item, NEW w, Untagged(bytes),
           NEW offset, NEW head, NEW major \in {2, 3}, HeadWeighed(bytes, offset, head, major)
    PROVE  Weighs(Rest(bytes, item, major, head), offset, bytes, w)
<1> DEFINE r == Rest(bytes, item, major, head)
           arg == head.value
           at == head.offset
           n == Size(arg)
           s == Bytes(bytes, at, n)
           isText == major = 3
           x == IF isText THEN Text(s) ELSE ByteString(s)
<1>1. bytes \in Seq(Byte) /\ Len(bytes) \in Nat /\ Len(bytes) < TooLong
  BY LenProperties DEF Untagged
<1>2. arg \in Arg /\ at \in Nat /\ at <= Len(bytes)
  BY DEF HeadWeighed
<1>3. n \in Nat
  BY <1>2, SizeTyped DEF Arg, Number
<1>4. r = ReadString(bytes, at, n, isText)
  BY DEF Rest
<1> SUFFICES ASSUME r.ok PROVE Weighs(r, offset, bytes, w)
  BY DEF Weighs
<1> HIDE DEF r
<1>5. at + n <= Len(bytes) /\ r = Decoded(x, at + n)
  BY <1>4 DEF ReadString, _need, CBORError, Error
<1>6. s \in Seq(Byte) /\ Len(s) = n /\ Holds(bytes, at, s)
  BY <1>1, <1>2, <1>3, <1>5, BytesHeld
<1> HIDE DEF s, n, arg, at
<1>7. n < TooLong
  BY <1>1, <1>2, <1>3, <1>5 DEF TooLong
<1>8. LengthDigits(s) = arg
  BY <1>2, <1>6, <1>7, LengthKept DEF n
<1>9. ItemWeight(x, w) = HeadWeight(major, arg) + Heavy(s)
  <2>1. CASE isText
    <3>1. major = 3 /\ x = Text(s)
      BY <2>1
    <3>2. ItemWeight(Text(s), w) = HeadWeight(3, LengthDigits(s)) + Heavy(s)
      BY DEF ItemWeight, Text
    <3> QED
      BY <1>8, <3>1, <3>2
  <2>2. CASE ~isText
    <3>1. major = 2 /\ x = ByteString(s)
      BY <2>2
    <3>2. ItemWeight(ByteString(s), w) = HeadWeight(2, LengthDigits(s)) + Heavy(s)
      BY DEF ItemWeight, ByteString
    <3> QED
      BY <1>8, <3>1, <3>2
  <2> QED
    BY <2>1, <2>2
<1> HIDE DEF x
<1>10. r.value = x /\ r.offset = at + n
  BY <1>5 DEF Decoded
<1>11. /\ Heavy(s) \in Int
       /\ Total(Weights(bytes), r.offset) = Total(Weights(bytes), at) + Heavy(s)
  BY <1>1, <1>2, <1>6, <1>10, HeldWeight
<1> QED
  BY <1>9, <1>10, <1>11, BehindHead DEF arg, at

\* Arrays weigh what their heads and their elements do.
LEMMA ArrayWeighs ==
    ASSUME NEW bytes, NEW item, NEW S, NEW w, Untagged(bytes), Weighed(item, bytes, S, w),
           NEW offset, NEW head, HeadWeighed(bytes, offset, head, 4)
    PROVE  Weighs(Rest(bytes, item, 4, head), offset, bytes, w)
<1> DEFINE r == Rest(bytes, item, 4, head)
           arg == head.value
           at == head.offset
           n == Turns(bytes, arg)
           M == Measured(S, w)
<1>1. bytes \in Seq(Byte) /\ Len(bytes) \in Nat /\ Len(bytes) < TooLong
  BY LenProperties DEF Untagged
<1>2. arg \in Arg /\ at \in Nat /\ at <= Len(bytes)
  BY DEF HeadWeighed
<1>3. n \in Nat
  BY <1>1, <1>2, SizeTyped DEF Arg, Number, Turns
<1>4. r = Elements!Iterate(Loop(item, at))[n]
  BY DEF Rest
<1> SUFFICES ASSUME r.ok PROVE Weighs(r, offset, bytes, w)
  BY DEF Weighs
<1> HIDE DEF r
<1>5. ListWeighed(r, at, n, bytes, S, w)
  <2> HIDE DEF at, n
  <2> QED
    BY <1>2, <1>3, <1>4, ElementsWeigh
<1> HIDE DEF at, arg, M
<1>6. PICK items \in Seq(M) :
         /\ r.value = Array(items) /\ Len(items) = n
         /\ r.offset \in Nat /\ at + n <= r.offset /\ r.offset <= Len(bytes)
         /\ Total(Weights(bytes), r.offset)
              = Total(Weights(bytes), at) + Total(Each(items, w), n)
  BY <1>5 DEF ListWeighed, M
<1> DEFINE x == Array(items)
           a == Each(items, w)
<1>7. n = Size(arg) /\ Size(arg) \in Nat /\ Size(arg) < TooLong
  <2>1. n = Size(arg) /\ Size(arg) \in Nat /\ Size(arg) <= Len(bytes)
    BY <1>1, <1>2, <1>6, TurnsTaken
  <2> QED
    BY <1>1, <2>1 DEF TooLong
<1> HIDE DEF n
<1>8. LengthDigits(items) = arg
  BY <1>2, <1>6, <1>7, LengthKept
<1>9. ItemWeight(x, w) = HeadWeight(4, arg) + Total(a, n)
  BY <1>6, <1>8 DEF ItemWeight, Array
<1>10. Total(a, n) \in Int
  <2>1. Stands(w, M, Int)
    BY DEF Stands, M, Measured
  <2>2. a \in Seq(Int) /\ Len(a) = n
    BY <1>6, <2>1, EachTyped
  <2> HIDE DEF a
  <2>3. n \in Nat /\ n <= Len(a)
    BY <1>7, <2>2
  <2> QED
    BY <2>2, <2>3, TotalTyped
<1> HIDE DEF x, a
<1>11. r.value = x /\ Total(Weights(bytes), r.offset) = Total(Weights(bytes), at) + Total(a, n)
  BY <1>6 DEF x, a
<1> QED
  BY <1>9, <1>10, <1>11, BehindHead DEF arg, at

\* Maps weigh what their heads and their entries do.
LEMMA MapWeighs ==
    ASSUME NEW bytes, NEW item, NEW S, NEW w, Untagged(bytes), Weighed(item, bytes, S, w),
           NEW offset, NEW head, HeadWeighed(bytes, offset, head, 5)
    PROVE  Weighs(Rest(bytes, item, 5, head), offset, bytes, w)
<1> DEFINE r == Rest(bytes, item, 5, head)
           arg == head.value
           at == head.offset
           n == Turns(bytes, arg)
<1>1. bytes \in Seq(Byte) /\ Len(bytes) \in Nat /\ Len(bytes) < TooLong
  BY LenProperties DEF Untagged
<1>2. arg \in Arg /\ at \in Nat /\ at <= Len(bytes)
  BY DEF HeadWeighed
<1>3. n \in Nat
  BY <1>1, <1>2, SizeTyped DEF Arg, Number, Turns
<1>4. r = Entries!Iterate(Loop(item, at))[n]
  BY DEF Rest
<1> SUFFICES ASSUME r.ok PROVE Weighs(r, offset, bytes, w)
  BY DEF Weighs
<1> HIDE DEF r
<1>5. DictWeighed(r, at, n, bytes, S, w)
  <2> HIDE DEF at, n
  <2> QED
    BY <1>2, <1>3, <1>4, EntriesWeigh
<1> HIDE DEF at, arg
<1>6. PICK E :
         /\ r.value = Map(E) /\ Cardinality(E) = n
         /\ r.offset \in Nat /\ at + n <= r.offset /\ r.offset <= Len(bytes)
         /\ MapWeight(E, w) \in Int
         /\ Total(Weights(bytes), r.offset) = Total(Weights(bytes), at) + MapWeight(E, w)
  BY <1>5 DEF DictWeighed
<1> DEFINE x == Map(E)
<1>7. n = Size(arg) /\ Size(arg) \in Nat /\ Size(arg) < TooLong
  <2>1. n = Size(arg) /\ Size(arg) \in Nat /\ Size(arg) <= Len(bytes)
    BY <1>1, <1>2, <1>6, TurnsTaken
  <2> QED
    BY <1>1, <2>1 DEF TooLong
<1> HIDE DEF n
<1>8. CountDigits(n) = arg
  <2> DEFINE s == [i \in 1 .. n |-> 0]
  <2>1. s \in Seq({0}) /\ Len(s) = n
    BY <1>7
  <2> HIDE DEF s
  <2>2. LengthDigits(s) = arg
    BY <1>2, <1>7, <2>1, LengthKept
  <2> QED
    BY <2>2 DEF CountDigits, s
<1>9. ItemWeight(x, w) = HeadWeight(5, arg) + MapWeight(E, w)
  BY <1>6, <1>8 DEF ItemWeight, Map
<1> HIDE DEF x
<1>10. r.value = x
  BY <1>6 DEF x
<1> QED
  BY <1>6, <1>9, <1>10, BehindHead DEF arg, at

\* A simple value weighs what its byte does, in either spelling of null.
LEMMA SimpleWeighs ==
    ASSUME NEW bytes, NEW w, Untagged(bytes), NEW offset \in Nat, offset + 1 <= Len(bytes),
           bytes[offset + 1] \div 32 = 7
    PROVE  Weighs(ReadSimple(bytes[offset + 1] % 32, offset + 1), offset, bytes, w)
<1> DEFINE b == bytes[offset + 1]
           r == ReadSimple(b % 32, offset + 1)
<1>1. bytes \in Seq(Byte)
  BY DEF Untagged
<1>2. /\ b \in Byte /\ Weight(b) \in Int /\ Total(Weights(bytes), offset) \in Int
      /\ Total(Weights(bytes), offset + 1) = Total(Weights(bytes), offset) + Weight(b)
  BY <1>1, NextWeight
<1>3. b \div 32 = 7
  OBVIOUS
<1> HIDE DEF b
<1> SUFFICES ASSUME r.ok PROVE Weighs(r, offset, bytes, w)
  BY DEF Weighs, b
<1>4. \E s \in {"false", "true", "null"} :
         r = Decoded(Simple(s), offset + 1) /\ Weight(b) = Weight(SimpleByte(s))
  <2>1. b % 32 \in {20, 21, 22, 23}
    BY DEF ReadSimple, CBORError, Error
  <2>2. b = 224 + (b % 32)
    BY <1>2, <1>3 DEF Byte
  <2>3. CASE b % 32 = 20
    <3>1. r = Decoded(Simple("false"), offset + 1) /\ b = SimpleByte("false")
      BY <2>2, <2>3 DEF ReadSimple, SimpleByte
    <3> QED
      BY <3>1
  <2>4. CASE b % 32 = 21
    <3>1. r = Decoded(Simple("true"), offset + 1) /\ b = SimpleByte("true")
      BY <2>2, <2>4 DEF ReadSimple, SimpleByte
    <3> QED
      BY <3>1
  <2>5. CASE b % 32 \in {22, 23}
    <3>1. r = Decoded(Simple("null"), offset + 1)
      BY <2>5 DEF ReadSimple
    <3>2. b \in {246, 247}
      BY <2>2, <2>5
    <3>3. Weight(b) = Weight(246) /\ SimpleByte("null") = 246
      BY <3>2 DEF Weight, Respelled, SimpleByte
    <3> QED
      BY <3>1, <3>3
  <2> QED
    BY <2>1, <2>3, <2>4, <2>5
<1> HIDE DEF r
<1>5. PICK s \in {"false", "true", "null"} :
         r = Decoded(Simple(s), offset + 1) /\ Weight(b) = Weight(SimpleByte(s))
  BY <1>4
<1>6. r.value = Simple(s) /\ r.offset = offset + 1
  BY <1>5 DEF Decoded
<1>7. ItemWeight(Simple(s), w) = Weight(b)
  BY <1>5 DEF ItemWeight, Simple
<1> QED
  BY <1>2, <1>6, <1>7 DEF Weighs

\* Every item weighs what its value does, if the items in it do.
LEMMA ItemWeighs ==
    ASSUME NEW bytes, NEW item, NEW S, NEW w, Untagged(bytes), Weighed(item, bytes, S, w),
           NEW offset \in Nat
    PROVE  Weighs(ItemAt(bytes, item, offset), offset, bytes, w)
<1> DEFINE major == bytes[offset + 1] \div 32
           info == bytes[offset + 1] % 32
           at == offset + 1
           head == _read_length(bytes, at, info)
           r == ItemAt(bytes, item, offset)
<1>0. bytes \in Seq(Byte)
  BY DEF Untagged
<1> SUFFICES ASSUME r.ok PROVE Weighs(r, offset, bytes, w)
  BY DEF Weighs
<1>1. at <= Len(bytes) /\ at \in Nat /\ Len(bytes) \in Nat
  BY <1>0, LenProperties DEF ItemAt, _need, CBORError, Error
<1>2. major \in 0 .. 7 /\ info \in 0 .. 31 /\ major # 6
  <2>1. at \in 1 .. Len(bytes)
    BY <1>1
  <2> QED
    BY <1>0, <1>1, <2>1, InitialByte DEF Untagged
<1>3. r = IF major = 7 THEN ReadSimple(info, at)
          ELSE IF head.ok THEN Rest(bytes, item, major, head) ELSE head
  BY <1>1 DEF ItemAt, _need, AndThen
<1> HIDE DEF r
<1>4. CASE major = 7
  BY <1>1, <1>3, <1>4, SimpleWeighs
<1>5. CASE major # 7
  <2> HIDE DEF major, info, head
  <2>1. head.ok /\ r = Rest(bytes, item, major, head)
    BY <1>3, <1>5 DEF r
  <2>2. major \in 0 .. 5
    BY <1>2, <1>5
  <2>3. HeadWeighed(bytes, offset, head, major)
    <3>1. major \in 0 .. 6
      BY <2>2
    <3> QED
      BY <1>0, <1>1, <2>1, <3>1, HeadWeighs DEF HeadWeighed, head, major, info
  <2>4. CASE major \in {0, 1}
    BY <2>1, <2>3, <2>4, IntWeighs
  <2>5. CASE major \in {2, 3}
    BY <2>1, <2>3, <2>5, StringWeighs
  <2>6. CASE major = 4
    BY <2>1, <2>3, <2>6, ArrayWeighs
  <2>7. CASE major = 5
    BY <2>1, <2>3, <2>7, MapWeighs
  <2> QED
    BY <2>2, <2>4, <2>5, <2>6, <2>7
<1> QED
  BY <1>4, <1>5

\* What k calls read weighs what its value does, whatever it was read from.
LEMMA CallsWeigh ==
    \A k \in Nat : \E w : \A bytes :
        Untagged(bytes) => Weighed(Calls!Iterate(bytes)[k], bytes, Values(k), w)
<1> DEFINE T == {k \in Nat : \E w : \A bytes :
                    Untagged(bytes) => Weighed(Calls!Iterate(bytes)[k], bytes, Values(k), w)}
<1>1. 0 \in T
  <2> DEFINE e == [x \in Values(0) |-> 0]
  <2>1. ASSUME NEW bytes PROVE Weighed(Calls!Iterate(bytes)[0], bytes, Values(0), e)
    <3>1. \A o \in Nat : Calls!Iterate(bytes)[0][o] = Error("RecursionError")
      BY CallsStart DEF NoCall
    <3>2. \A o \in Nat : ~ Calls!Iterate(bytes)[0][o].ok
      BY <3>1 DEF Error
    <3> QED
      BY <3>2 DEF Weighed
  <2> QED
    BY <2>1
<1>2. \A k \in Nat : k \in T => k + 1 \in T
  <2> SUFFICES ASSUME NEW k \in Nat, k \in T
               PROVE  \E w : \A bytes : Untagged(bytes) =>
                         Weighed(Calls!Iterate(bytes)[k + 1], bytes, Values(k + 1), w)
    OBVIOUS
  <2>1. PICK w : \A bytes :
           Untagged(bytes) => Weighed(Calls!Iterate(bytes)[k], bytes, Values(k), w)
    OBVIOUS
  <2> DEFINE R == Values(k + 1)
             v == [x \in R |-> ItemWeight(x, w)]
  <2>2. ASSUME NEW bytes, Untagged(bytes)
        PROVE  Weighed(Calls!Iterate(bytes)[k + 1], bytes, R, v)
    <3> DEFINE item == Calls!Iterate(bytes)[k]
               above == Calls!Iterate(bytes)[k + 1]
    <3>1. Weighed(item, bytes, Values(k), w)
      BY <2>1, <2>2
    <3>2. Economical(above, bytes, R, Output(k + 1))
      BY <2>2, CallsEconomical DEF Untagged
    <3>3. \A o \in Nat : above[o] = ItemAt(bytes, item, o)
      <4>1. above = OneMoreCall(bytes, item)
        BY CallsTurn
      <4> HIDE DEF above, item
      <4> QED
        BY <4>1 DEF OneMoreCall
    <3> HIDE DEF item, above, R
    <3>4. ASSUME NEW o \in Nat, above[o].ok
          PROVE  /\ above[o].value \in R /\ v[above[o].value] \in Int
                 /\ above[o].offset \in Nat /\ o < above[o].offset
                 /\ above[o].offset <= Len(bytes)
                 /\ Total(Weights(bytes), above[o].offset)
                      = Total(Weights(bytes), o) + v[above[o].value]
      <4> DEFINE r == above[o]
      <4>1. Weighs(r, o, bytes, w)
        BY <2>2, <3>1, <3>3, ItemWeighs
      <4>2. r.value \in R /\ r.offset \in Nat /\ o < r.offset /\ r.offset <= Len(bytes)
        BY <3>2, <3>4 DEF Economical
      <4> HIDE DEF r
      <4>3. v[r.value] = ItemWeight(r.value, w)
        BY <4>2
      <4> QED
        BY <3>4, <4>1, <4>2, <4>3 DEF Weighs, r
    <3>5. DOMAIN v = R
      OBVIOUS
    <3> HIDE DEF v
    <3>6. Weighed(above, bytes, R, v)
      BY <3>4, <3>5 DEF Weighed
    <3> QED
      BY <3>6 DEF above
  <2> QED
    BY <2>2
<1>3. \A k \in Nat : k \in T
  <2> HIDE DEF T
  <2> QED
    BY <1>1, <1>2, ElementTurns!Induction
<1> QED
  BY <1>3

\* Two encodings of the same value weigh the same, however long, nested and
\* ordered they are, and whatever the widths of their heads, if neither has tags.
THEOREM ValueWeighs ==
    ASSUME NEW a, Untagged(a), loads(a).ok, NEW b, Untagged(b), loads(b).ok,
           loads(a).value = loads(b).value
    PROVE  Heavy(a) = Heavy(b)
<1> DEFINE R == RecursionLimit
<1>1. PICK w : \A bytes :
         Untagged(bytes) => Weighed(Calls!Iterate(bytes)[R], bytes, Values(R), w)
  BY RecursionLimitAssumption, CallsWeigh
<1>2. ASSUME NEW bytes, Untagged(bytes), loads(bytes).ok
      PROVE  w[loads(bytes).value] \in Int /\ Heavy(bytes) = w[loads(bytes).value]
  <2> DEFINE item == Calls!Iterate(bytes)[R]
             r == _decode(bytes, 0)
             v == loads(bytes).value
  <2>1. Weighed(item, bytes, Values(R), w)
    BY <1>1, <1>2
  <2>2. r = item[0]
    BY DEF _decode
  <2>3. loads(bytes)
          = IF r.ok THEN IF r.offset = Len(bytes) THEN Value(r.value) ELSE CBORError ELSE r
    BY DEF loads, AndThen, AllRead
  <2> HIDE DEF item, r
  <2>4. r.ok /\ r.offset = Len(bytes) /\ v = r.value
    BY <1>2, <2>3 DEF CBORError, Error, Value
  <2> HIDE DEF v
  <2>5. w[v] \in Int /\ Total(Weights(bytes), Len(bytes)) = Total(Weights(bytes), 0) + w[v]
    BY <2>1, <2>2, <2>4 DEF Weighed
  <2> DEFINE z == w[v]
  <2>6. z \in Int /\ Heavy(bytes) = 0 + z
    BY <2>5, TotalTurn DEF Heavy
  <2> HIDE DEF z
  <2>7. Heavy(bytes) = z
    BY <2>6
  <2> QED
    BY <2>6, <2>7 DEF z, v
<1> QED
  BY <1>2

\* A byte that is replaced by one of another weight changes the weight of all.
LEMMA ReplacedWeighs ==
    ASSUME NEW a \in Seq(Byte), NEW i \in 1 .. Len(a), NEW b \in Byte,
           Heavy(ReplaceAt(a, i, b)) = Heavy(a)
    PROVE  Weight(b) = Weight(a[i])
<1> DEFINE c == ReplaceAt(a, i, b)
           n == Len(a)
           h == i - 1
           m == n - i
           p == Bytes(a, 0, h)
           q == Bytes(a, i, m)
<1>1. /\ n \in Nat /\ i \in Nat /\ h \in Nat /\ m \in Nat
      /\ 0 + h <= n /\ i + m <= n /\ i + m = n /\ h + 1 = i /\ i <= n /\ 0 + h = h
  BY LenProperties
<1>2. /\ c \in Seq(Byte) /\ Len(c) = n /\ c[i] = b
      /\ \A j \in 1 .. n : j # i => c[j] = a[j]
  BY ExceptSeq DEF ReplaceAt
<1>3. p \in Seq(Byte) /\ Len(p) = h /\ Holds(a, 0, p)
  <2> HIDE DEF h
  <2> QED
    BY <1>1, BytesHeld
<1>4. q \in Seq(Byte) /\ Len(q) = m /\ Holds(a, i, q)
  <2> HIDE DEF m
  <2> QED
    BY <1>1, BytesHeld
<1> HIDE DEF c, n, p, q, h, m
<1>5. Holds(c, 0, p)
  <2>1. \A j \in 1 .. h : 0 + j \in 1 .. n /\ 0 + j # i
    BY <1>1
  <2> QED
    BY <1>1, <1>2, <1>3, <2>1 DEF Holds
<1>6. Holds(c, i, q)
  <2>1. \A j \in 1 .. m : i + j \in 1 .. n /\ i + j # i
    BY <1>1
  <2> QED
    BY <1>1, <1>2, <1>4, <2>1 DEF Holds
<1>7. ASSUME NEW s \in Seq(Byte), Len(s) = n, Holds(s, 0, p), Holds(s, i, q)
      PROVE  /\ Heavy(s) = Heavy(p) + Weight(s[i]) + Heavy(q)
             /\ Heavy(p) \in Int /\ Weight(s[i]) \in Int /\ Heavy(q) \in Int
  <2> DEFINE x == Heavy(p)
             y == Weight(s[i])
             z == Heavy(q)
  <2>1. x \in Int /\ Total(Weights(s), 0 + h) = Total(Weights(s), 0) + x
    BY <1>1, <1>3, <1>7, HeldWeight
  <2>2. y \in Int /\ Total(Weights(s), h + 1) = Total(Weights(s), h) + y
    BY <1>1, <1>7, NextWeight
  <2>3. z \in Int /\ Total(Weights(s), i + m) = Total(Weights(s), i) + z
    BY <1>1, <1>4, <1>7, HeldWeight
  <2>4. Heavy(s) = ((0 + x) + y) + z
    BY <1>1, <1>7, <2>1, <2>2, <2>3, TotalTurn DEF Heavy
  <2> HIDE DEF x, y, z
  <2>5. Heavy(s) = x + y + z
    BY <2>1, <2>2, <2>3, <2>4
  <2> QED
    BY <2>1, <2>2, <2>3, <2>5 DEF x, y, z
<1> DEFINE x == Heavy(p)
           z == Heavy(q)
           y == Weight(a[i])
           t == Weight(b)
<1>8. x \in Int /\ y \in Int /\ z \in Int /\ Heavy(a) = x + y + z
  BY <1>3, <1>4, <1>7 DEF n
<1>9. t \in Int /\ Heavy(c) = x + t + z
  BY <1>2, <1>5, <1>6, <1>7
<1>10. x + y + z = x + t + z
  BY <1>8, <1>9 DEF c
<1> HIDE DEF x, y, z, t
<1>11. t = y
  BY <1>8, <1>9, <1>10
<1> QED
  BY <1>11 DEF t, y

\* What ~Tagged says in the words of the lemmas.
LEMMA NotTagged ==
    ASSUME NEW bytes \in Seq(Byte), Len(bytes) < TooLong, ~Tagged(bytes)
    PROVE  Untagged(bytes)
BY LenProperties DEF Tagged, Untagged

\* One byte replaced in accepted data without tags: the same value only if the
\* byte is the same but for the spelling of null.
LEMMA ReplacedTells ==
    ASSUME NEW a \in Seq(Byte), Len(a) < TooLong, ~Tagged(a), loads(a).ok,
           NEW i \in 1 .. Len(a), NEW b \in Byte,
           ~Tagged(ReplaceAt(a, i, b)), loads(ReplaceAt(a, i, b)) = loads(a)
    PROVE  Spelling(ReplaceAt(a, i, b)) = Spelling(a)
<1> DEFINE c == ReplaceAt(a, i, b)
<1>1. /\ c \in Seq(Byte) /\ Len(c) = Len(a) /\ c[i] = b
      /\ \A j \in 1 .. Len(a) : j # i => c[j] = a[j]
  BY ExceptSeq DEF ReplaceAt
<1>2. Untagged(a) /\ Untagged(c)
  <2>1. Untagged(a)
    BY NotTagged
  <2>2. c \in Seq(Byte) /\ Len(c) < TooLong /\ ~Tagged(c)
    BY <1>1
  <2> HIDE DEF c
  <2> QED
    BY <2>1, <2>2, NotTagged
<1>3. loads(c).ok /\ loads(a).value = loads(c).value
  OBVIOUS
<1>4. Heavy(c) = Heavy(a)
  <2> HIDE DEF c
  <2> QED
    BY <1>2, <1>3, ValueWeighs
<1>5. Weight(b) = Weight(a[i])
  BY <1>4, ReplacedWeighs
<1>6. a[i] \in Byte
  BY ElementOfSeq
<1>7. Respelled(b) = Respelled(a[i])
  BY <1>5, <1>6, WeightTells
<1>8. DOMAIN a = 1 .. Len(a) /\ DOMAIN c = 1 .. Len(a)
  BY <1>1, LenProperties
<1> HIDE DEF c
<1>9. \A j \in 1 .. Len(a) : Respelled(c[j]) = Respelled(a[j])
  BY <1>1, <1>7
<1>10. Spelling(c) = Spelling(a)
  BY <1>8, <1>9 DEF Spelling, Respelled
<1> QED
  BY <1>10 DEF c

-----------------------------------------------------------------------------
(* Keys: what public_key_to_cose writes, and what was read as a key.          *)
\* A number is its own digits.
LEMMA DigitsKept == ASSUME NEW d \in Number PROVE Digits(d) = d
<1> DEFINE n == Len(d)
           t == ToBytes(d, n)
<1>1. d \in Seq(Byte) /\ n \in Nat
  BY LenProperties DEF Number
<1>2. t \in Seq(Byte) /\ Len(t) = n
  BY <1>1, ToBytesTyped
<1>3. ASSUME NEW i \in 1 .. n PROVE t[i] = d[i]
  <2>1. n - n = 0 /\ i - 0 = i /\ ~ (i <= 0)
    BY <1>1
  <2> QED
    BY <2>1 DEF ToBytes
<1>4. Digits(t) = d
  BY <1>1, NumberRestored
<1> HIDE DEF t
<1>5. t = d
  BY <1>1, <1>2, <1>3, SeqEqual
<1> QED
  BY <1>4, <1>5

\* A map that can be written has entries of values that can be written with one
\* call less.
LEMMA MapShape ==
    ASSUME NEW k \in Nat, NEW v \in Values(k), v.type = "map"
    PROVE  \E j \in Nat : k = j + 1 /\ v.entries \in Dicts(Values(j)) /\ v = Map(v.entries)
<1>1. k # 0
  BY WrittenTurn
<1> DEFINE j == k - 1
<1>2. j \in Nat /\ k = j + 1
  BY <1>1
<1> HIDE DEF j
<1>3. v \in ValuesOver(Values(j))
  BY <1>2, WrittenTurn
<1>4. PICK E \in Dicts(Values(j)) : v = Map(E)
  BY <1>3 DEF ValuesOver, Int_, ByteString, Text, Array, Map, Simple
<1>5. v.entries = E
  BY <1>4 DEF Map
<1> QED
  BY <1>2, <1>4, <1>5

\* The bytes of a byte string.
LEMMA BytesShape ==
    ASSUME NEW S, NEW x \in ValuesOver(S), x.type = "bytes"
    PROVE  x.bytes \in Short(Byte)
<1>1. PICK s \in Short(Byte) : x = ByteString(s)
  BY DEF ValuesOver, Int_, ByteString, Text, Array, Map, Simple
<1> QED
  BY <1>1 DEF ByteString

\* A byte string that is found in a map.
LEMMA BytesFound ==
    ASSUME NEW j \in Nat, NEW E \in Dicts(Values(j)), NEW label,
           Get(Map(E), label).type = "bytes"
    PROVE  j # 0 /\ Get(Map(E), label).bytes \in Short(Byte)
<1> DEFINE found == {e \in E : Hashed(e[1]) = label}
           e == CHOOSE f \in found : TRUE
           x == Get(Map(E), label)
<1>1. Map(E).entries = E
  BY DEF Map
<1>2. x = IF found = {} THEN Simple("null") ELSE e[2]
  BY <1>1 DEF Get
<1>3. found # {}
  BY <1>2 DEF Simple
<1>4. e \in found /\ x = e[2]
  BY <1>2, <1>3
<1> HIDE DEF e, x
<1>5. x \in Values(j)
  BY <1>4 DEF Dicts
<1>6. j # 0
  BY <1>5, WrittenTurn
<1> DEFINE i == j - 1
<1>7. i \in Nat /\ j = i + 1
  BY <1>6
<1> HIDE DEF i
<1>8. x \in ValuesOver(Values(i))
  BY <1>5, <1>7, WrittenTurn
<1> QED
  BY <1>6, <1>8, BytesShape DEF x

\* What is found under the key of an entry is its value.
LEMMA EntryFound ==
    ASSUME NEW S, NEW E \in Dicts(S), NEW e \in E, NEW label, Hashed(e[1]) = label
    PROVE  Get(Map(E), label) = e[2]
<1> DEFINE found == {f \in E : Hashed(f[1]) = label}
<1>1. found = {e}
  BY DEF Dicts
<1>2. Map(E).entries = E
  BY DEF Map
<1>3. (CHOOSE f \in found : TRUE) = e
  BY <1>1
<1> QED
  BY <1>1, <1>2, <1>3 DEF Get

\* At most five entries.
LEMMA FewEntries ==
    ASSUME NEW a, NEW b, NEW c, NEW d, NEW e
    PROVE  IsFiniteSet({a, b, c, d, e}) /\ Cardinality({a, b, c, d, e}) < TooLong
<1> DEFINE n(S) == Cardinality(S)
           Finite(S) == IsFiniteSet(S) /\ n(S) \in Nat
           Grows(S, x) == Finite(S \cup {x}) /\ n(S \cup {x}) <= n(S) + 1
<1>1. Finite({}) /\ n({}) = 0
  BY FS_EmptySet
<1>2. \A S, x : Finite(S) => Grows(S, x)
  <2> SUFFICES ASSUME NEW S, NEW x, Finite(S) PROVE Grows(S, x)
    OBVIOUS
  <2>1. IsFiniteSet(S \cup {x}) /\ n(S \cup {x}) = IF x \in S THEN n(S) ELSE n(S) + 1
    BY FS_AddElement
  <2> HIDE DEF n
  <2> QED
    BY <2>1
<1> DEFINE O == {}
           A == O \cup {a}
           B == A \cup {b}
           C == B \cup {c}
           D == C \cup {d}
           T == D \cup {e}
<1> HIDE DEF Grows
<1>3. Grows(O, a) /\ n(O) = 0
  BY <1>1, <1>2
<1>4. Grows(A, b)
  BY <1>2, <1>3 DEF Grows
<1>5. Grows(B, c)
  BY <1>2, <1>4 DEF Grows
<1>6. Grows(C, d)
  BY <1>2, <1>5 DEF Grows
<1>7. Grows(D, e)
  BY <1>2, <1>6 DEF Grows
<1>8. T = {a, b, c, d, e}
  OBVIOUS
<1> HIDE DEF n, O
<1>9. IsFiniteSet(T) /\ n(T) \in Nat /\ n(T) <= 5
  <2>1. /\ Finite(A) /\ n(A) <= n(O) + 1 /\ Finite(B) /\ n(B) <= n(A) + 1
        /\ Finite(C) /\ n(C) <= n(B) + 1 /\ Finite(D) /\ n(D) <= n(C) + 1
        /\ Finite(T) /\ n(T) <= n(D) + 1
    BY <1>3, <1>4, <1>5, <1>6, <1>7 DEF Grows
  <2> HIDE DEF A, B, C, D, T
  <2> QED
    BY <1>3, <2>1
<1> HIDE DEF T
<1> QED
  BY <1>8, <1>9 DEF n, TooLong

\* The numbers in keys are numbers that any call writes.
LEMMA KeyNumbers ==
    ASSUME NEW S
    PROVE  \A x \in {COSE_KTY, COSE_ALG, COSE_CRV, COSE_EC_X, COSE_EC_Y, COSE_RSA_N, COSE_RSA_E,
                     KTY_EC2, KTY_RSA, ALG_ES256, ALG_RS256, CRV_P256} :
              x \in ValuesOver(S) /\ Hashable(x) /\ Hashed(x) = x
<1>1. ASSUME NEW neg \in BOOLEAN, NEW arg \in Arg
      PROVE  /\ Int_(neg, arg) \in ValuesOver(S) /\ Hashable(Int_(neg, arg))
             /\ Hashed(Int_(neg, arg)) = Int_(neg, arg)
  BY DEF ValuesOver, Hashable, Hashed, Int_, Simple
<1>2. << >> \in Arg
  BY DEF Arg, Number
<1>3. ASSUME NEW b \in 1 .. 6 PROVE <<b>> \in Arg
  <2> DEFINE s == <<b>>
  <2>1. s \in Seq(Byte) /\ Len(s) = 1 /\ s[1] # 0
    BY DEF Byte
  <2> HIDE DEF s
  <2> QED
    BY <2>1 DEF Arg, Number, s
<1>4. <<1, 0>> \in Arg
  <2> DEFINE s == <<1, 0>>
             n == Len(s)
  <2>1. s \in Seq(Byte) /\ n = 2 /\ s[1] # 0
    BY DEF Byte
  <2> HIDE DEF n
  <2>2. n <= 8
    BY <2>1
  <2> HIDE DEF s
  <2>3. s \in Arg
    BY <2>1, <2>2 DEF Arg, Number, n
  <2> QED
    BY <2>3 DEF s
<1>5. <<1>> \in Arg /\ <<2>> \in Arg /\ <<3>> \in Arg /\ <<6>> \in Arg
  BY <1>3
<1> HIDE <1>3
<1> QED
  BY <1>1, <1>2, <1>4, <1>5
  DEF COSE_KTY, COSE_ALG, COSE_CRV, COSE_EC_X, COSE_EC_Y, COSE_RSA_N, COSE_RSA_E,
      KTY_EC2, KTY_RSA, ALG_ES256, ALG_RS256, CRV_P256

\* No two labels of a key, and no two key types, are the same.
LEMMA LabelsDiffer ==
    /\ COSE_KTY # COSE_ALG /\ COSE_KTY # COSE_CRV /\ COSE_KTY # COSE_EC_X /\ COSE_KTY # COSE_EC_Y
    /\ COSE_ALG # COSE_CRV /\ COSE_ALG # COSE_EC_X /\ COSE_ALG # COSE_EC_Y
    /\ COSE_CRV # COSE_EC_X /\ COSE_CRV # COSE_EC_Y /\ COSE_EC_X # COSE_EC_Y
    /\ COSE_KTY # COSE_RSA_N /\ COSE_KTY # COSE_RSA_E /\ COSE_ALG # COSE_RSA_N
    /\ COSE_ALG # COSE_RSA_E /\ COSE_RSA_N # COSE_RSA_E /\ KTY_EC2 # KTY_RSA
<1>1. \A m, n : \A a, b : Int_(m, a) = Int_(n, b) => m = n /\ a = b
  BY DEF Int_
<1>2. <<1>> # <<3>> /\ <<1>> # <<2>> /\ <<2>> # <<3>> /\ << >> # <<1>> /\ << >> # <<2>>
  OBVIOUS
<1>3. \A a, b : Int_(FALSE, a) # Int_(TRUE, b)
  BY <1>1
<1>4. Int_(FALSE, <<1>>) # Int_(FALSE, <<3>>) /\ Int_(FALSE, <<2>>) # Int_(FALSE, <<3>>)
  <2>1. \A n : Int_(n, <<1>>) # Int_(n, <<3>>) /\ Int_(n, <<2>>) # Int_(n, <<3>>)
    BY <1>1, <1>2
  <2> QED
    BY <2>1
<1>5. /\ Int_(TRUE, << >>) # Int_(TRUE, <<1>>) /\ Int_(TRUE, << >>) # Int_(TRUE, <<2>>)
      /\ Int_(TRUE, <<1>>) # Int_(TRUE, <<2>>)
  BY <1>1, <1>2
<1>6. \A l \in {COSE_CRV, COSE_EC_X, COSE_EC_Y, COSE_RSA_N, COSE_RSA_E} :
         COSE_KTY # l /\ COSE_ALG # l
  BY <1>3 DEF COSE_KTY, COSE_ALG, COSE_CRV, COSE_EC_X, COSE_EC_Y, COSE_RSA_N, COSE_RSA_E
<1>7. COSE_KTY # COSE_ALG /\ KTY_EC2 # KTY_RSA
  BY <1>4 DEF COSE_KTY, COSE_ALG, KTY_EC2, KTY_RSA
<1>8. /\ COSE_CRV # COSE_EC_X /\ COSE_CRV # COSE_EC_Y /\ COSE_EC_X # COSE_EC_Y
      /\ COSE_RSA_N # COSE_RSA_E
  BY <1>5 DEF COSE_CRV, COSE_EC_X, COSE_EC_Y, COSE_RSA_N, COSE_RSA_E
<1> QED
  BY <1>6, <1>7, <1>8

\* The entries that public_key_to_cose writes.
Ec2Entries(x, y) ==
    {<<COSE_KTY, KTY_EC2>>, <<COSE_ALG, ALG_ES256>>, <<COSE_CRV, CRV_P256>>,
     <<COSE_EC_X, ByteString(x)>>, <<COSE_EC_Y, ByteString(y)>>}
RsaEntries(n, e) ==
    {<<COSE_KTY, KTY_RSA>>, <<COSE_ALG, ALG_RS256>>,
     <<COSE_RSA_N, ByteString(n)>>, <<COSE_RSA_E, ByteString(e)>>}

\* A byte string is a value that any call writes.
LEMMA BytesAreValues ==
    ASSUME NEW S, NEW s \in Short(Byte)
    PROVE  ByteString(s) \in ValuesOver(S)
BY DEF ValuesOver

\* They are the entries of a dict.
LEMMA Ec2Dict ==
    ASSUME NEW S, NEW x \in Short(Byte), NEW y \in Short(Byte)
    PROVE  Ec2Entries(x, y) \in Dicts(ValuesOver(S))
<1> DEFINE E == Ec2Entries(x, y)
<1>1. IsFiniteSet(E) /\ Cardinality(E) < TooLong
  BY FewEntries DEF Ec2Entries
<1>2. ByteString(x) \in ValuesOver(S) /\ ByteString(y) \in ValuesOver(S)
  BY BytesAreValues
<1>3. E \subseteq ValuesOver(S) \X ValuesOver(S)
  BY <1>2, KeyNumbers DEF Ec2Entries
<1>4. \A e \in E : Hashable(e[1]) /\ Hashed(e[1]) = e[1]
  BY KeyNumbers DEF Ec2Entries
<1>5. \A e, f \in E : e[1] = f[1] => e = f
  BY LabelsDiffer DEF Ec2Entries
<1> HIDE DEF E
<1> QED
  BY <1>1, <1>3, <1>4, <1>5 DEF Dicts, E

\* So are those of an RSA key.
LEMMA RsaDict ==
    ASSUME NEW S, NEW n \in Short(Byte), NEW e \in Short(Byte)
    PROVE  RsaEntries(n, e) \in Dicts(ValuesOver(S))
<1> DEFINE E == RsaEntries(n, e)
<1>1. IsFiniteSet(E) /\ Cardinality(E) < TooLong
  <2> DEFINE a == <<COSE_KTY, KTY_RSA>>
             b == <<COSE_ALG, ALG_RS256>>
             c == <<COSE_RSA_N, ByteString(n)>>
             d == <<COSE_RSA_E, ByteString(e)>>
  <2>1. E = {a, b, c, d, d}
    BY DEF RsaEntries
  <2> HIDE DEF a, b, c, d, E
  <2>2. IsFiniteSet({a, b, c, d, d}) /\ Cardinality({a, b, c, d, d}) < TooLong
    BY FewEntries
  <2> QED
    BY <2>1, <2>2
<1>2. ByteString(n) \in ValuesOver(S) /\ ByteString(e) \in ValuesOver(S)
  BY BytesAreValues
<1>3. E \subseteq ValuesOver(S) \X ValuesOver(S)
  BY <1>2, KeyNumbers DEF RsaEntries
<1>4. \A f \in E : Hashable(f[1]) /\ Hashed(f[1]) = f[1]
  BY KeyNumbers DEF RsaEntries
<1>5. \A f, g \in E : f[1] = g[1] => f = g
  BY LabelsDiffer DEF RsaEntries
<1> HIDE DEF E
<1> QED
  BY <1>1, <1>3, <1>4, <1>5 DEF Dicts, E

\* A dict that is written within the limit on calls is read as a key.
LEMMA KeyRead ==
    ASSUME NEW S, NEW j \in Nat, RecursionLimit = j + 1, S = Values(j), NEW E \in Dicts(S)
    PROVE  /\ dumps(Map(E)) \in Seq(Byte)
           /\ parse_cose_key(dumps(Map(E))) = KeyOfType(Get(Map(E), COSE_KTY), Map(E))
<1> DEFINE v == Map(E)
<1>1. v \in Values(RecursionLimit)
  <2>1. v \in ValuesOver(S)
    BY DEF ValuesOver
  <2> HIDE DEF v
  <2> QED
    BY <2>1, WrittenTurn
<1>2. v.type = "map"
  BY DEF Map
<1> HIDE DEF v
<1>3. dumps(v) \in Seq(Byte) /\ loads(dumps(v)) = Value(v)
  BY <1>1, RoundTrip
<1>4. Value(v).ok /\ Value(v).value = v
  BY DEF Value
<1>5. parse_cose_key(dumps(v)) = KeyOfType(Get(v, COSE_KTY), v)
  BY <1>2, <1>3, <1>4 DEF parse_cose_key, AndThen
<1> QED
  BY <1>3, <1>5 DEF v

\* What is found in the entries of an EC key.
LEMMA Ec2Found ==
    ASSUME NEW x \in Short(Byte), NEW y \in Short(Byte)
    PROVE  LET cose == Map(Ec2Entries(x, y))
           IN  /\ Get(cose, COSE_KTY) = KTY_EC2 /\ Get(cose, COSE_ALG) = ALG_ES256
               /\ Get(cose, COSE_CRV) = CRV_P256
               /\ Get(cose, COSE_EC_X) = ByteString(x) /\ Get(cose, COSE_EC_Y) = ByteString(y)
<1> DEFINE E == Ec2Entries(x, y)
           cose == Map(E)
<1>1. E \in Dicts(ValuesOver({}))
  BY Ec2Dict
<1>2. ASSUME NEW l \in {COSE_KTY, COSE_ALG, COSE_CRV, COSE_EC_X, COSE_EC_Y},
             NEW v, <<l, v>> \in E
      PROVE  Get(cose, l) = v
  <2> DEFINE e == <<l, v>>
  <2>1. e \in E /\ e[1] = l /\ e[2] = v
    BY <1>2
  <2>2. Hashed(l) = l
    BY KeyNumbers
  <2> HIDE DEF e, E
  <2>3. Get(Map(E), l) = e[2]
    BY <1>1, <2>1, <2>2, EntryFound
  <2> QED
    BY <2>1, <2>3
<1>3. /\ <<COSE_KTY, KTY_EC2>> \in E /\ <<COSE_ALG, ALG_ES256>> \in E
      /\ <<COSE_CRV, CRV_P256>> \in E /\ <<COSE_EC_X, ByteString(x)>> \in E
      /\ <<COSE_EC_Y, ByteString(y)>> \in E
  BY DEF Ec2Entries
<1> HIDE DEF E
<1>4. Get(cose, COSE_KTY) = KTY_EC2 /\ Get(cose, COSE_ALG) = ALG_ES256
  BY <1>2, <1>3
<1>5. Get(cose, COSE_CRV) = CRV_P256 /\ Get(cose, COSE_EC_X) = ByteString(x)
  BY <1>2, <1>3
<1>6. Get(cose, COSE_EC_Y) = ByteString(y)
  BY <1>2, <1>3
<1> QED
  BY <1>4, <1>5, <1>6 DEF E

\* What is found in those of an RSA key.
LEMMA RsaFound ==
    ASSUME NEW n \in Short(Byte), NEW e \in Short(Byte)
    PROVE  LET cose == Map(RsaEntries(n, e))
           IN  /\ Get(cose, COSE_KTY) = KTY_RSA /\ Get(cose, COSE_ALG) = ALG_RS256
               /\ Get(cose, COSE_RSA_N) = ByteString(n) /\ Get(cose, COSE_RSA_E) = ByteString(e)
<1> DEFINE E == RsaEntries(n, e)
           cose == Map(E)
<1>1. E \in Dicts(ValuesOver({}))
  BY RsaDict
<1>2. ASSUME NEW l \in {COSE_KTY, COSE_ALG, COSE_RSA_N, COSE_RSA_E}, NEW v, <<l, v>> \in E
      PROVE  Get(cose, l) = v
  <2> DEFINE f == <<l, v>>
  <2>1. f \in E /\ f[1] = l /\ f[2] = v
    BY <1>2
  <2>2. Hashed(l) = l
    BY KeyNumbers
  <2> HIDE DEF f, E
  <2>3. Get(Map(E), l) = f[2]
    BY <1>1, <2>1, <2>2, EntryFound
  <2> QED
    BY <2>1, <2>3
<1>3. /\ <<COSE_KTY, KTY_RSA>> \in E /\ <<COSE_ALG, ALG_RS256>> \in E
      /\ <<COSE_RSA_N, ByteString(n)>> \in E /\ <<COSE_RSA_E, ByteString(e)>> \in E
  BY DEF RsaEntries
<1> HIDE DEF E
<1>4. Get(cose, COSE_KTY) = KTY_RSA /\ Get(cose, COSE_ALG) = ALG_RS256
  BY <1>2, <1>3
<1>5. Get(cose, COSE_RSA_N) = ByteString(n) /\ Get(cose, COSE_RSA_E) = ByteString(e)
  BY <1>2, <1>3
<1> QED
  BY <1>4, <1>5 DEF E

\* A stack that allows a map with values in it.
DeepEnough == \E i \in Nat : RecursionLimit = (i + 1) + 1

\* What the values of an EC key are, and that they are its point's.
Ec2Values(x, y) ==
    /\ x \in Short(Byte) /\ y \in Short(Byte) /\ Len(x) = 32 /\ Len(y) = 32
    /\ <<Digits(x), Digits(y)>> \in Points
RsaValues(n, e) ==
    /\ n \in Short(Byte) /\ e \in Short(Byte) /\ n \in Number /\ e \in Number
    /\ BitLength(n) >= 2048 /\ RsaNumbersValid(n, e)

\* An EC key is read as it was written, from coordinates of 32 bytes.
LEMMA Ec2Portable ==
    ASSUME DeepEnough, NEW x, NEW y, Ec2Values(x, y)
    PROVE  LET key == PublicKey("ES256", Digits(x), Digits(y))
           IN  /\ public_key_to_cose(key) \in Seq(Byte)
               /\ parse_cose_key(public_key_to_cose(key)) = Value(key)
<1> DEFINE key == PublicKey("ES256", Digits(x), Digits(y))
           E == Ec2Entries(x, y)
           cose == Map(E)
<1>1. x \in Short(Byte) /\ y \in Short(Byte) /\ x \in Seq(Byte) /\ y \in Seq(Byte)
  BY DEF Ec2Values, Short
<1>2. Coordinate(Digits(x)) = x /\ Coordinate(Digits(y)) = y
  BY <1>1, DigitsRestored DEF Coordinate, Ec2Values
<1>3. public_key_to_cose(key) = dumps(cose)
  <2> DEFINE a == Digits(x)
             b == Digits(y)
  <2>1. key.alg = "ES256" /\ key.numbers[1] = a /\ key.numbers[2] = b
    BY DEF PublicKey
  <2> HIDE DEF a, b, key
  <2>2. public_key_to_cose(key)
          = dumps(Map({<<COSE_KTY, KTY_EC2>>, <<COSE_ALG, ALG_ES256>>, <<COSE_CRV, CRV_P256>>,
                       <<COSE_EC_X, ByteString(Coordinate(a))>>,
                       <<COSE_EC_Y, ByteString(Coordinate(b))>>}))
    BY <2>1 DEF public_key_to_cose
  <2> QED
    BY <1>2, <2>2 DEF a, b, Ec2Entries
<1>4. PICK i \in Nat : RecursionLimit = (i + 1) + 1
  BY DEF DeepEnough
<1> DEFINE j == i + 1
           S == Values(j)
<1>5. j \in Nat /\ RecursionLimit = j + 1 /\ S = ValuesOver(Values(i))
  <2>1. \A k \in Nat : Values(k + 1) = ValuesOver(Values(k))
    BY WrittenTurn
  <2> QED
    BY <1>4, <2>1
<1>6. E \in Dicts(S)
  BY <1>1, <1>5, Ec2Dict
<1> HIDE DEF S, j, E
<1>7. /\ dumps(cose) \in Seq(Byte)
      /\ parse_cose_key(dumps(cose)) = KeyOfType(Get(cose, COSE_KTY), cose)
  BY <1>5, <1>6, KeyRead DEF S
<1>8. /\ Get(cose, COSE_KTY) = KTY_EC2 /\ Get(cose, COSE_ALG) = ALG_ES256
      /\ Get(cose, COSE_CRV) = CRV_P256
      /\ Get(cose, COSE_EC_X) = ByteString(x) /\ Get(cose, COSE_EC_Y) = ByteString(y)
  BY <1>1, Ec2Found DEF E
<1> HIDE DEF cose
<1>9. /\ Hashed(KTY_EC2) = KTY_EC2 /\ Hashed(ALG_ES256) = ALG_ES256
      /\ Hashed(CRV_P256) = CRV_P256 /\ KTY_EC2 # KTY_RSA
  BY KeyNumbers, LabelsDiffer
<1>10. KeyOfType(Get(cose, COSE_KTY), cose) = Ec2Key(cose)
  BY <1>8, <1>9 DEF KeyOfType, Equals
<1>11. Ec2Key(cose) = Value(key)
  <2>1. /\ ByteString(x).type = "bytes" /\ ByteString(x).bytes = x
        /\ ByteString(y).type = "bytes" /\ ByteString(y).bytes = y
    BY DEF ByteString
  <2>2. Len(x) = 32 /\ Len(y) = 32 /\ <<Digits(x), Digits(y)>> \in Points
    BY DEF Ec2Values
  <2> QED
    BY <1>8, <1>9, <2>1, <2>2 DEF Ec2Key, Equals
<1> HIDE DEF key
<1> QED
  BY <1>3, <1>7, <1>10, <1>11 DEF key

\* An RSA key is read as it was written.
LEMMA RsaPortable ==
    ASSUME DeepEnough, NEW n, NEW e, RsaValues(n, e)
    PROVE  LET key == PublicKey("RS256", n, e)
           IN  /\ public_key_to_cose(key) \in Seq(Byte)
               /\ parse_cose_key(public_key_to_cose(key)) = Value(key)
<1> DEFINE key == PublicKey("RS256", n, e)
           E == RsaEntries(n, e)
           cose == Map(E)
<1>1. n \in Short(Byte) /\ e \in Short(Byte)
  BY DEF RsaValues
<1>2. Digits(n) = n /\ Digits(e) = e
  BY DigitsKept DEF RsaValues
<1>3. public_key_to_cose(key) = dumps(cose)
  <2>1. key.alg = "RS256" /\ key.numbers[1] = n /\ key.numbers[2] = e
    BY DEF PublicKey
  <2> HIDE DEF key
  <2> QED
    BY <2>1 DEF public_key_to_cose, RsaEntries
<1>4. PICK i \in Nat : RecursionLimit = (i + 1) + 1
  BY DEF DeepEnough
<1> DEFINE j == i + 1
           S == Values(j)
<1>5. j \in Nat /\ RecursionLimit = j + 1 /\ S = ValuesOver(Values(i))
  <2>1. \A k \in Nat : Values(k + 1) = ValuesOver(Values(k))
    BY WrittenTurn
  <2> QED
    BY <1>4, <2>1
<1>6. E \in Dicts(S)
  BY <1>1, <1>5, RsaDict
<1> HIDE DEF S, j, E
<1>7. /\ dumps(cose) \in Seq(Byte)
      /\ parse_cose_key(dumps(cose)) = KeyOfType(Get(cose, COSE_KTY), cose)
  BY <1>5, <1>6, KeyRead DEF S
<1>8. /\ Get(cose, COSE_KTY) = KTY_RSA /\ Get(cose, COSE_ALG) = ALG_RS256
      /\ Get(cose, COSE_RSA_N) = ByteString(n) /\ Get(cose, COSE_RSA_E) = ByteString(e)
  BY <1>1, RsaFound DEF E
<1> HIDE DEF cose
<1>9. Hashed(KTY_RSA) = KTY_RSA /\ Hashed(ALG_RS256) = ALG_RS256 /\ KTY_RSA # KTY_EC2
  BY KeyNumbers, LabelsDiffer
<1>10. KeyOfType(Get(cose, COSE_KTY), cose) = RsaKey(cose)
  BY <1>8, <1>9 DEF KeyOfType, Equals
<1>11. RsaKey(cose) = Value(key)
  <2>1. /\ ByteString(n).type = "bytes" /\ ByteString(n).bytes = n
        /\ ByteString(e).type = "bytes" /\ ByteString(e).bytes = e
    BY DEF ByteString
  <2>2. BitLength(n) >= 2048 /\ RsaNumbersValid(n, e)
    BY DEF RsaValues
  <2> QED
    BY <1>2, <1>8, <1>9, <2>1, <2>2 DEF RsaKey, Equals
<1> HIDE DEF key
<1> QED
  BY <1>3, <1>7, <1>10, <1>11 DEF key

\* A key that was read has the values that it is written with.
LEMMA KeyDecoded ==
    ASSUME NEW bytes \in Seq(Byte), Len(bytes) < TooLong, parse_cose_key(bytes).ok
    PROVE  /\ DeepEnough
           /\ \/ \E x, y : /\ Ec2Values(x, y)
                           /\ parse_cose_key(bytes)
                                = Value(PublicKey("ES256", Digits(x), Digits(y)))
              \/ \E n, e : /\ RsaValues(n, e)
                           /\ parse_cose_key(bytes) = Value(PublicKey("RS256", n, e))
<1> DEFINE item == loads(bytes)
           cose == item.value
           r == parse_cose_key(bytes)
<1>1. r = IF item.ok
          THEN IF cose.type = "map" THEN KeyOfType(Get(cose, COSE_KTY), cose)
               ELSE Error("COSEError")
          ELSE item
  BY DEF parse_cose_key, AndThen
<1>2. /\ item.ok /\ cose.type = "map"
      /\ r = KeyOfType(Get(cose, COSE_KTY), cose)
  BY <1>1 DEF Error
<1>3. cose \in Values(RecursionLimit)
  BY <1>2, LoadsCanonical
<1> HIDE DEF item, r
<1> DEFINE E == cose.entries
<1>4. PICK j \in Nat : RecursionLimit = j + 1 /\ E \in Dicts(Values(j)) /\ cose = Map(E)
  BY <1>2, <1>3, RecursionLimitAssumption, MapShape
<1> HIDE DEF E
<1>5. ASSUME NEW label, Get(cose, label).type = "bytes"
      PROVE  DeepEnough /\ Get(cose, label).bytes \in Short(Byte)
  <2>1. j # 0 /\ Get(cose, label).bytes \in Short(Byte)
    BY <1>4, <1>5, BytesFound
  <2> DEFINE i == j - 1
  <2>2. i \in Nat /\ j = i + 1
    BY <2>1
  <2> HIDE DEF i
  <2>3. RecursionLimit = (i + 1) + 1
    BY <1>4, <2>2
  <2> QED
    BY <2>1, <2>2, <2>3 DEF DeepEnough
<1>6. r = Ec2Key(cose) \/ r = RsaKey(cose)
  BY <1>2 DEF KeyOfType, Error, r
<1>7. r.ok
  BY DEF r
<1>8. CASE r = Ec2Key(cose)
  <2> DEFINE xs == Get(cose, COSE_EC_X)
             ys == Get(cose, COSE_EC_Y)
             x == xs.bytes
             y == ys.bytes
  <2>1. /\ xs.type = "bytes" /\ ys.type = "bytes" /\ Len(x) = 32 /\ Len(y) = 32
        /\ <<Digits(x), Digits(y)>> \in Points
        /\ r = Value(PublicKey("ES256", Digits(x), Digits(y)))
    BY <1>7, <1>8 DEF Ec2Key, Error
  <2>2. DeepEnough /\ x \in Short(Byte) /\ y \in Short(Byte)
    BY <1>5, <2>1
  <2> HIDE DEF x, y
  <2> QED
    BY <2>1, <2>2 DEF Ec2Values, r
<1>9. CASE r = RsaKey(cose)
  <2> DEFINE ns == Get(cose, COSE_RSA_N)
             es == Get(cose, COSE_RSA_E)
             n == Digits(ns.bytes)
             e == Digits(es.bytes)
  <2>1. /\ ns.type = "bytes" /\ es.type = "bytes"
        /\ BitLength(n) >= 2048 /\ RsaNumbersValid(n, e)
        /\ r = Value(PublicKey("RS256", n, e))
    BY <1>7, <1>9 DEF RsaKey, Error
  <2>2. DeepEnough /\ ns.bytes \in Short(Byte) /\ es.bytes \in Short(Byte)
    BY <1>5, <2>1
  <2>3. ASSUME NEW s \in Short(Byte) PROVE Digits(s) \in Number /\ Digits(s) \in Short(Byte)
    <3> DEFINE k == Len(Digits(s))
               m == Len(s)
    <3>1. s \in Seq(Byte) /\ m < TooLong
      BY DEF Short
    <3>2. Digits(s) \in Seq(Byte) /\ k <= m /\ Digits(s) \in Number
      BY <3>1, DigitsTyped, DigitsAreArg
    <3>3. k \in Nat /\ m \in Nat
      BY <3>1, <3>2, LenProperties
    <3> HIDE DEF k, m
    <3>4. k < TooLong
      BY <3>1, <3>2, <3>3 DEF TooLong
    <3> QED
      BY <3>2, <3>4 DEF Short, k
  <2>4. n \in Number /\ n \in Short(Byte) /\ e \in Number /\ e \in Short(Byte)
    BY <2>2, <2>3
  <2> HIDE DEF n, e
  <2> QED
    BY <2>1, <2>2, <2>4 DEF RsaValues, r
<1> QED
  BY <1>6, <1>8, <1>9

\* A key that is accepted in any encoding is accepted, as the same key, in the
\* one that public_key_to_cose writes, whatever the curve and the modulus.
THEOREM KeyWritten ==
    ASSUME NEW bytes \in Seq(Byte), Len(bytes) < TooLong, parse_cose_key(bytes).ok
    PROVE  parse_cose_key(public_key_to_cose(parse_cose_key(bytes).value)) = parse_cose_key(bytes)
<1> DEFINE r == parse_cose_key(bytes)
<1>1. \A key : Value(key).value = key
  BY DEF Value
<1>2. DeepEnough
  BY KeyDecoded
<1>3. CASE \E x, y : Ec2Values(x, y) /\ r = Value(PublicKey("ES256", Digits(x), Digits(y)))
  <2>1. PICK x, y : Ec2Values(x, y) /\ r = Value(PublicKey("ES256", Digits(x), Digits(y)))
    BY <1>3
  <2> DEFINE key == PublicKey("ES256", Digits(x), Digits(y))
  <2>2. parse_cose_key(public_key_to_cose(key)) = Value(key)
    BY <1>2, <2>1, Ec2Portable
  <2> HIDE DEF r, key
  <2>3. r = Value(key)
    BY <2>1 DEF key
  <2> QED
    BY <1>1, <2>2, <2>3 DEF r
<1>4. CASE \E n, e : RsaValues(n, e) /\ r = Value(PublicKey("RS256", n, e))
  <2>1. PICK n, e : RsaValues(n, e) /\ r = Value(PublicKey("RS256", n, e))
    BY <1>4
  <2> DEFINE key == PublicKey("RS256", n, e)
  <2>2. parse_cose_key(public_key_to_cose(key)) = Value(key)
    BY <1>2, <2>1, RsaPortable
  <2> HIDE DEF r, key
  <2>3. r = Value(key)
    BY <2>1 DEF key
  <2> QED
    BY <1>1, <2>2, <2>3 DEF r
<1> QED
  BY <1>3, <1>4, KeyDecoded

-----------------------------------------------------------------------------
(* What is sent: its bytes, and what they are read as.                       *)
\* An item whose parts are values is a value.
LEMMA ItemIsValue ==
    ASSUME NEW x, IsItem(x), NEW S, Children(x) \subseteq S
    PROVE  x \in ValuesOver(S)
<1>1. \A d : IsNumber(d) => d \in Number
  BY DEF IsNumber, Number, Byte
<1>2. \A s : IsString(s) => s \in Short(Byte)
  BY DEF IsString, Short, Byte
<1>3. CASE x.type = "int" /\ x = Int_(x.neg, x.arg) /\ x.neg \in BOOLEAN
           /\ IsNumber(x.arg) /\ Len(x.arg) <= 8
  BY <1>1, <1>3 DEF ValuesOver, Arg
<1>4. CASE x.type = "bytes" /\ x = ByteString(x.bytes) /\ IsString(x.bytes)
  BY <1>2, <1>4 DEF ValuesOver
<1>5. CASE x.type = "text" /\ x = Text(x.text) /\ IsString(x.text) /\ IsUtf8(x.text)
  BY <1>2, <1>5 DEF ValuesOver
<1>6. CASE x.type = "array" /\ x = Array(x.items)
           /\ x.items \in Seq(Children(x)) /\ Len(x.items) < TooLong
  <2> DEFINE s == x.items
             n == Len(s)
  <2>1. s \in [1 .. n -> S] /\ n \in Nat
    BY <1>6, LenProperties
  <2>2. s \in Seq(S)
    BY <2>1
  <2>3. s \in Short(S) /\ x = Array(s)
    BY <1>6, <2>2 DEF Short
  <2> HIDE DEF s
  <2> QED
    BY <2>3 DEF ValuesOver
<1>7. CASE /\ x.type = "map" /\ x = Map(x.entries)
           /\ x.entries \subseteq Children(x) \X Children(x)
           /\ IsFiniteSet(x.entries) /\ Cardinality(x.entries) < TooLong
           /\ \A e \in x.entries : Hashable(e[1])
           /\ \A e, f \in x.entries : Hashed(e[1]) = Hashed(f[1]) => e = f
  <2> DEFINE E == x.entries
  <2>1. E \in Dicts(S) /\ x = Map(E)
    BY <1>7 DEF Dicts
  <2> HIDE DEF E
  <2> QED
    BY <2>1 DEF ValuesOver
<1>8. CASE x.type = "simple" /\ x = Simple(x.simple) /\ x.simple \in {"false", "true", "null"}
  BY <1>8 DEF ValuesOver
<1> QED
  BY <1>3, <1>4, <1>5, <1>6, <1>7, <1>8 DEF IsItem

\* What k calls of dumps can write of such parts are values of k calls.
LEMMA DumpedAreValues ==
    ASSUME NEW parts, \A x \in parts : IsItem(x)
    PROVE  \A k \in Nat : DOMAIN Dumps!Iterate(parts)[k] \subseteq Values(k)
<1> DEFINE d(k) == Dumps!Iterate(parts)[k]
           T == {k \in Nat : DOMAIN d(k) \subseteq Values(k)}
<1>1. 0 \in T
  <2>1. d(0) = << >>
    BY DumpDepths!IterateDef DEF Dumps!Iterate, DumpDepths!Iterate, NoBytes
  <2>2. DOMAIN << >> = {}
    OBVIOUS
  <2> HIDE DEF d
  <2> QED
    BY <2>1, <2>2
<1>2. \A k \in Nat : k \in T => k + 1 \in T
  <2> HIDE DEF d
  <2> SUFFICES ASSUME NEW k \in Nat, DOMAIN d(k) \subseteq Values(k)
               PROVE  DOMAIN d(k + 1) \subseteq Values(k + 1)
    OBVIOUS
  <2>1. d(k + 1) = [x \in {y \in parts : Children(y) \subseteq DOMAIN d(k)} |->
                       EncodeItem(x, d(k))]
    BY DumpsTurn DEF d
  <2>2. Values(k + 1) = ValuesOver(Values(k))
    BY WrittenTurn
  <2>3. \A x \in parts : Children(x) \subseteq Values(k) => x \in ValuesOver(Values(k))
    BY ItemIsValue
  <2> QED
    BY <2>1, <2>2, <2>3
<1>3. \A k \in Nat : k \in T
  <2> HIDE DEF T
  <2> QED
    BY <1>1, <1>2, ElementTurns!Induction
<1> QED
  BY <1>3

\* What is sent as a value is one that dumps can write.
LEMMA SentIsValue == ASSUME NEW v, IsValue(v) PROVE v \in Values(RecursionLimit)
BY DumpedAreValues, RecursionLimitAssumption DEF IsValue

\* What is sent as a key is read as it was written.
LEMMA SentIsKey ==
    ASSUME RecursionLimit >= 2, NEW key, IsKey(key)
    PROVE  /\ public_key_to_cose(key) \in Seq(Byte)
           /\ parse_cose_key(public_key_to_cose(key)) = Value(key)
<1> DEFINE a == key.numbers[1]
           b == key.numbers[2]
<1>1. DeepEnough
  <2> DEFINE i == RecursionLimit - 2
  <2>1. i \in Nat /\ RecursionLimit = (i + 1) + 1
    BY RecursionLimitAssumption
  <2> HIDE DEF i
  <2> QED
    BY <2>1 DEF DeepEnough
<1>2. key = PublicKey(key.alg, a, b) /\ a \in Number /\ b \in Number
  BY DEF IsKey, IsNumber, Number, Byte
<1>3. CASE key.alg = "ES256" /\ Len(a) <= 32 /\ Len(b) <= 32 /\ <<a, b>> \in Points
  <2> DEFINE x == ToBytes(a, 32)
             y == ToBytes(b, 32)
  <2>1. ASSUME NEW d \in Number, NEW w \in Nat, Len(d) <= w, w < TooLong
        PROVE  /\ ToBytes(d, w) \in Short(Byte) /\ Len(ToBytes(d, w)) = w
               /\ Digits(ToBytes(d, w)) = d
    <3>1. d \in Seq(Byte)
      BY DEF Number
    <3>2. ToBytes(d, w) \in Seq(Byte) /\ Len(ToBytes(d, w)) = w
      BY <2>1, <3>1, ToBytesTyped
    <3>3. Digits(ToBytes(d, w)) = d
      BY <2>1, NumberRestored
    <3> QED
      BY <2>1, <3>2, <3>3 DEF Short
  <2> DEFINE w == 32
  <2>2. w \in Nat /\ w < TooLong /\ Len(a) <= w /\ Len(b) <= w
    BY <1>3 DEF TooLong
  <2> HIDE DEF a, b
  <2>3. x \in Short(Byte) /\ Len(x) = 32 /\ Digits(x) = a
    <3> HIDE DEF w
    <3>1. ToBytes(a, w) \in Short(Byte) /\ Len(ToBytes(a, w)) = w /\ Digits(ToBytes(a, w)) = a
      BY <1>2, <2>1, <2>2
    <3> QED
      BY <3>1 DEF w
  <2>4. y \in Short(Byte) /\ Len(y) = 32 /\ Digits(y) = b
    <3> HIDE DEF w
    <3>1. ToBytes(b, w) \in Short(Byte) /\ Len(ToBytes(b, w)) = w /\ Digits(ToBytes(b, w)) = b
      BY <1>2, <2>1, <2>2
    <3> QED
      BY <3>1 DEF w
  <2> HIDE DEF x, y
  <2>5. Ec2Values(x, y) /\ key = PublicKey("ES256", Digits(x), Digits(y))
    BY <1>2, <1>3, <2>3, <2>4 DEF Ec2Values
  <2> QED
    BY <1>1, <2>5, Ec2Portable
<1>4. CASE key.alg = "RS256" /\ IsString(a) /\ IsString(b)
           /\ BitLength(a) >= 2048 /\ RsaNumbersValid(a, b)
  <2> HIDE DEF a, b
  <2>1. a \in Short(Byte) /\ b \in Short(Byte)
    BY <1>4 DEF IsString, Short, Byte
  <2>2. RsaValues(a, b) /\ key = PublicKey("RS256", a, b)
    BY <1>2, <1>4, <2>1 DEF RsaValues
  <2> QED
    BY <1>1, <2>2, RsaPortable
<1> QED
  BY <1>3, <1>4 DEF IsKey

\* Flags are those of their byte.
LEMMA ByteRestored ==
    ASSUME NEW flags \in SUBSET Bits
    PROVE  ByteOf(flags) \in Byte /\ FlagSet(ByteOf(flags)) = flags
<1> DEFINE value(bit) == IF bit \in flags THEN bit ELSE 0
           x == ByteOf(flags)
<1>1. x = value(1) + value(2) + value(4) + value(8)
          + value(16) + value(32) + value(64) + value(128)
  BY DEF ByteOf
<1>2. \A bit \in Bits : value(bit) \in {0, bit} /\ (bit \in flags <=> value(bit) = bit)
  BY DEF Bits
<1> HIDE DEF value, x
<1>3. /\ value(1) \in {0, 1} /\ value(2) \in {0, 2} /\ value(4) \in {0, 4}
      /\ value(8) \in {0, 8} /\ value(16) \in {0, 16} /\ value(32) \in {0, 32}
      /\ value(64) \in {0, 64} /\ value(128) \in {0, 128}
  BY <1>2 DEF Bits
<1>4. x \in Byte
  BY <1>1, <1>3 DEF Byte
<1>5. \A bit \in Bits : (x \div bit) % 2 = 1 <=> value(bit) = bit
  <2>1. (x \div 1) % 2 = 1 <=> value(1) = 1
    BY <1>1, <1>3
  <2>2. (x \div 2) % 2 = 1 <=> value(2) = 2
    BY <1>1, <1>3
  <2>3. (x \div 4) % 2 = 1 <=> value(4) = 4
    BY <1>1, <1>3
  <2>4. (x \div 8) % 2 = 1 <=> value(8) = 8
    BY <1>1, <1>3
  <2>5. (x \div 16) % 2 = 1 <=> value(16) = 16
    BY <1>1, <1>3
  <2>6. (x \div 32) % 2 = 1 <=> value(32) = 32
    BY <1>1, <1>3
  <2>7. (x \div 64) % 2 = 1 <=> value(64) = 64
    BY <1>1, <1>3
  <2>8. (x \div 128) % 2 = 1 <=> value(128) = 128
    BY <1>1, <1>3
  <2> QED
    BY <2>1, <2>2, <2>3, <2>4, <2>5, <2>6, <2>7, <2>8 DEF Bits
<1>6. FlagSet(x) = flags
  BY <1>2, <1>5 DEF FlagSet
<1> QED
  BY <1>4, <1>6 DEF x

\* An item that bytes hold somewhere is read there, and ends with its bytes.
LEMMA HeldItem ==
    ASSUME NEW bytes \in Seq(Byte), NEW o \in Nat, NEW s \in Seq(Byte),
           Holds(bytes, o, s), loads(s).ok
    PROVE  DecodeAt(bytes, o) = Decoded(loads(s).value, o + Len(s))
<1> DEFINE rest == From(bytes, o)
           n == Len(s)
           item == _decode(s, 0)
           found == _decode(rest, 0)
<1>1. /\ n \in Nat /\ Len(bytes) \in Nat /\ o + n <= Len(bytes)
      /\ \A i \in 1 .. n : bytes[o + i] = s[i]
  BY LenProperties DEF Holds
<1>2. loads(s) = IF item.ok THEN IF item.offset = n THEN Value(item.value) ELSE CBORError ELSE item
  BY DEF loads, AndThen, AllRead
<1> HIDE DEF item, found
<1>3. item.ok /\ item.offset = n /\ loads(s).value = item.value
  BY <1>2 DEF CBORError, Error, Value
<1>4. Agree(s, rest, n) /\ rest \in Seq(Byte)
  <2> HIDE DEF n
  <2>1. o <= Len(bytes) /\ n <= Len(bytes) - o
    BY <1>1
  <2>2. /\ rest \in Seq(Byte) /\ Len(rest) = Len(bytes) - o
        /\ \A i \in 1 .. Len(bytes) - o : rest[i] = bytes[o + i]
    BY <2>1, FromTyped
  <2>3. \A i \in 1 .. n : i \in 1 .. Len(bytes) - o
    BY <1>1, <2>1
  <2>4. \A i \in 1 .. n : s[i] = rest[i]
    BY <1>1, <2>2, <2>3
  <2>5. n <= Len(s)
    BY <1>1 DEF n
  <2> HIDE DEF rest
  <2> QED
    BY <2>1, <2>2, <2>4, <2>5 DEF Agree
<1>5. found = item
  <2> DEFINE zero == 0
  <2>1. zero \in Nat /\ item = _decode(s, zero) /\ found = _decode(rest, zero)
    BY DEF item, found
  <2> HIDE DEF zero, rest
  <2>2. _decode(s, zero).ok /\ _decode(s, zero).offset <= n
    BY <1>1, <1>3, <2>1
  <2> HIDE DEF n
  <2>3. _decode(rest, zero) = _decode(s, zero)
    BY <1>1, <1>4, <2>1, <2>2, DecodeAgrees
  <2> QED
    BY <2>1, <2>3
<1>6. DecodeAt(bytes, o) = At(o, found)
  BY DEF DecodeAt, decode_first, From, found
<1> QED
  BY <1>3, <1>5, <1>6 DEF At

\* Bytes joined are bytes.
LEMMA BytesJoined ==
    ASSUME NEW s \in Seq(Byte), NEW t \in Seq(Byte)
    PROVE  s \o t \in Seq(Byte) /\ Len(s \o t) = Len(s) + Len(t)
BY ConcatProperties

\* Attested credential data is written in bytes.
LEMMA AttestedWritten ==
    ASSUME NEW att, IsAttested(att)
    PROVE  AttestedBytes(att) \in Seq(Byte)
<1> DEFINE g == att.aaguid
           id == att.credential_id
           k == att.credential_public_key
           d == LengthDigits(id)
           w == 2
           l == ToBytes(d, w)
<1>1. g \in Seq(Byte) /\ id \in Seq(Byte) /\ k \in Seq(Byte) /\ Len(id) < TooLong
  BY DEF IsAttested, IsString, Byte
<1>2. Len(id) \in Nat
  BY <1>1, LenProperties
<1>3. d \in Seq(Byte) /\ w \in Nat /\ Len(d) <= w
  BY <1>1, <1>2, LengthWritten DEF Arg, Number
<1> HIDE DEF d, w
<1>4. l \in Seq(Byte)
  BY <1>3, ToBytesTyped
<1>5. AttestedBytes(att) = ((g \o l) \o id) \o k
  BY DEF AttestedBytes, d, w
<1> HIDE DEF g, id, k, l
<1>6. g \o l \in Seq(Byte)
  BY <1>1, <1>4, BytesJoined
<1>7. (g \o l) \o id \in Seq(Byte)
  BY <1>1, <1>6, BytesJoined
<1>8. ((g \o l) \o id) \o k \in Seq(Byte)
  BY <1>1, <1>7, BytesJoined
<1> QED
  BY <1>5, <1>8

\* The attested credential data that bytes hold is read back from there.
LEMMA HeldAttested ==
    ASSUME NEW bytes \in Seq(Byte), NEW o \in Nat, NEW att, IsAttested(att),
           Holds(bytes, o, AttestedBytes(att))
    PROVE  Attested(bytes, o) = Decoded(att, o + Len(AttestedBytes(att)))
<1> DEFINE g == att.aaguid
           id == att.credential_id
           k == att.credential_public_key
           l == ToBytes(LengthDigits(id), 2)
           n == Len(id)
           m == Len(k)
<1>1. /\ att = [aaguid |-> g, credential_id |-> id, credential_public_key |-> k]
      /\ g \in Seq(Byte) /\ Len(g) = 16 /\ id \in Seq(Byte) /\ n < TooLong
      /\ k \in Seq(Byte) /\ loads(k).ok
  BY DEF IsAttested, IsString, Byte
<1>2. n \in Nat /\ m \in Nat
  BY <1>1, LenProperties
<1>3. LengthDigits(id) \in Arg /\ Len(LengthDigits(id)) <= 2 /\ Size(LengthDigits(id)) = n
  BY <1>1, <1>2, LengthWritten
<1>4. l \in Seq(Byte) /\ Len(l) = 2 /\ Size(Digits(l)) = n
  <2> DEFINE d == LengthDigits(id)
             w == 2
  <2>1. d \in Seq(Byte) /\ d \in Number /\ w \in Nat /\ Len(d) <= w
    BY <1>3 DEF Arg, Number
  <2> HIDE DEF d, w
  <2>2. ToBytes(d, w) \in Seq(Byte) /\ Len(ToBytes(d, w)) = w /\ Digits(ToBytes(d, w)) = d
    BY <2>1, ToBytesTyped, NumberRestored
  <2> QED
    BY <1>3, <2>2 DEF d, w
<1> HIDE DEF l
<1>5. AttestedBytes(att) = ((g \o l) \o id) \o k
  BY DEF AttestedBytes, l
<1> HIDE DEF g, id, k
<1> DEFINE gl == g \o l
           gli == gl \o id
           all == gli \o k
<1>6. gl \in Seq(Byte) /\ Len(gl) = 18
  <2>1. g \in Seq(Byte) /\ l \in Seq(Byte)
    BY <1>1, <1>4
  <2>2. Len(gl) = Len(g) + Len(l) /\ gl \in Seq(Byte)
    BY <2>1, BytesJoined
  <2> QED
    BY <1>1, <1>4, <2>2
<1> HIDE DEF gl
<1>7. gli \in Seq(Byte) /\ Len(gli) = 18 + n
  <2>1. gl \in Seq(Byte) /\ id \in Seq(Byte)
    BY <1>1, <1>6
  <2>2. Len(gli) = Len(gl) + Len(id) /\ gli \in Seq(Byte)
    BY <2>1, BytesJoined
  <2> QED
    BY <1>6, <2>2
<1> HIDE DEF gli
<1>8. all \in Seq(Byte) /\ Len(all) = 18 + n + m
  <2>1. gli \in Seq(Byte) /\ k \in Seq(Byte)
    BY <1>1, <1>7
  <2>2. Len(all) = Len(gli) + Len(k) /\ all \in Seq(Byte)
    BY <2>1, BytesJoined
  <2> QED
    BY <1>7, <2>2
<1>9. AttestedBytes(att) = all
  BY <1>5 DEF gl, gli
<1>10. Holds(bytes, o, gli) /\ Holds(bytes, o + Len(gli), k)
  <2>1. Holds(bytes, o, gli \o k)
    BY <1>9
  <2> QED
    BY <1>1, <1>7, <2>1, HeldParts
<1> HIDE DEF all
<1>11. Holds(bytes, o, gl) /\ Holds(bytes, o + Len(gl), id)
  <2>1. Holds(bytes, o, gl \o id)
    BY <1>10 DEF gli
  <2> QED
    BY <1>1, <1>6, <2>1, HeldParts
<1>12. Holds(bytes, o, g) /\ Holds(bytes, o + Len(g), l)
  <2>1. Holds(bytes, o, g \o l)
    BY <1>11 DEF gl
  <2> QED
    BY <1>1, <1>4, <2>1, HeldParts
<1>13. Bytes(bytes, o, 16) = g
  <2>1. Bytes(bytes, o, Len(g)) = g
    BY <1>1, <1>12, HeldBytes
  <2> QED
    BY <1>1, <2>1
<1>14. Bytes(bytes, o + 16, 2) = l
  <2> DEFINE at == o + Len(g)
  <2>1. at \in Nat /\ at = o + 16
    BY <1>1
  <2>2. Holds(bytes, at, l)
    BY <1>12
  <2> HIDE DEF at
  <2>3. Bytes(bytes, at, Len(l)) = l
    BY <1>4, <2>1, <2>2, HeldBytes
  <2> QED
    BY <1>4, <2>1, <2>3
<1>15. Bytes(bytes, o + 18, n) = id
  <2> DEFINE at == o + Len(gl)
  <2>1. at \in Nat /\ at = o + 18
    BY <1>6
  <2>2. Holds(bytes, at, id)
    BY <1>11
  <2> HIDE DEF at
  <2>3. Bytes(bytes, at, Len(id)) = id
    BY <1>1, <2>1, <2>2, HeldBytes
  <2> QED
    BY <2>1, <2>3
<1> DEFINE key == o + 18 + n
<1>16. /\ key \in Nat /\ key + m <= Len(bytes) /\ Len(bytes) \in Nat
       /\ Holds(bytes, key, k)
  <2>1. o + Len(gli) = key /\ key \in Nat
    BY <1>2, <1>7
  <2>2. Holds(bytes, key, k)
    BY <1>10, <2>1
  <2> QED
    BY <2>1, <2>2, LenProperties DEF Holds
<1>17. /\ DecodeAt(bytes, key) = Decoded(loads(k).value, key + m)
       /\ Bytes(bytes, key, m) = k
  <2> HIDE DEF key
  <2> QED
    BY <1>1, <1>16, HeldItem, HeldBytes
<1>18. _need(bytes, o, 18) /\ _need(bytes, o + 18, n)
  <2> HIDE DEF n, m
  <2> QED
    BY <1>2, <1>16 DEF _need
<1> HIDE DEF n, m
<1> DEFINE d == DecodeAt(bytes, key)
<1>19. Attested(bytes, o)
         = IF d.ok
           THEN Decoded([aaguid |-> Bytes(bytes, o, 16),
                         credential_id |-> Bytes(bytes, o + 18, n),
                         credential_public_key |-> Bytes(bytes, key, d.offset - key)], d.offset)
           ELSE d
  <2> HIDE DEF d, key
  <2>1. IdLen(bytes, o) = n /\ KeyAt(bytes, o) = key
    BY <1>4, <1>14 DEF IdLen, KeyAt, key
  <2> DEFINE e == DecodeAt(bytes, KeyAt(bytes, o))
  <2>2. Attested(bytes, o)
          = IF ~_need(bytes, o, 18) THEN BadAuthData
            ELSE IF ~_need(bytes, o + 18, IdLen(bytes, o)) THEN BadAuthData
            ELSE IF e.ok
            THEN Decoded([aaguid |-> Bytes(bytes, o, 16),
                          credential_id |-> Bytes(bytes, o + 18, IdLen(bytes, o)),
                          credential_public_key |->
                             Bytes(bytes, KeyAt(bytes, o), e.offset - KeyAt(bytes, o))],
                         e.offset)
            ELSE e
    BY DEF Attested, AndThen, IdLen, KeyAt
  <2>3. e = d
    BY <2>1 DEF d
  <2> HIDE DEF e
  <2> QED
    BY <1>18, <2>1, <2>2, <2>3
<1>20. d.ok /\ d.offset = key + m /\ d.offset - key = m
  <2> HIDE DEF key, d
  <2>1. d.ok /\ d.offset = key + m
    BY <1>17 DEF Decoded, d
  <2> QED
    BY <1>2, <1>16, <2>1
<1>22. key + m = o + (18 + n + m)
  BY <1>2
<1> HIDE DEF d, key
<1> QED
  BY <1>1, <1>8, <1>9, <1>13, <1>15, <1>17, <1>19, <1>20, <1>22

\* The flags that are sent: AT is set if its part is there.
SentFlags(v) ==
    v.flags \cup (IF v.attested_credential_data = None THEN {} ELSE {FLAG_AT})

\* The fields of authenticatorData as they are sent, one after another.
SentAttested(v) ==
    IF v.attested_credential_data = None THEN << >>
    ELSE AttestedBytes(v.attested_credential_data)
SentExtensions(v) == IF v.extensions = None THEN << >> ELSE dumps(v.extensions)

\* Flags, counter and parts are found where they are looked for.
SentAs(bytes, v) ==
    LET end == 37 + Len(SentAttested(v))
    IN  /\ bytes \in Seq(Byte) /\ SentAttested(v) \in Seq(Byte)
        /\ Len(SentAttested(v)) \in Nat
        /\ Len(bytes) = end + Len(SentExtensions(v)) /\ 37 <= Len(bytes)
        /\ Bytes(bytes, 0, 32) = v.rp_id_hash
        /\ FlagSet(bytes[33]) = SentFlags(v)
        /\ Digits(Bytes(bytes, 33, 4)) = v.sign_count
        /\ Holds(bytes, 37, SentAttested(v))
        /\ Holds(bytes, end, SentExtensions(v))

\* So it is with what is sent.
LEMMA SentFields == ASSUME NEW v, IsAuthData(v) PROVE SentAs(EncodeAuthData(v), v)
<1> DEFINE h == v.rp_id_hash
           byte == ByteOf(SentFlags(v))
           f == <<byte>>
           c == ToBytes(v.sign_count, 4)
           a == SentAttested(v)
           x == SentExtensions(v)
           hf == h \o f
           hfc == hf \o c
           hfca == hfc \o a
           all == hfca \o x
<1>1. h \in Seq(Byte) /\ Len(h) = 32
  BY DEF IsAuthData, IsString, Byte
<1>2. byte \in Byte /\ FlagSet(byte) = SentFlags(v)
  <2>1. SentFlags(v) \in SUBSET Bits
    BY DEF SentFlags, IsAuthData, Bits, FLAG_AT
  <2> QED
    BY <2>1, ByteRestored
<1> HIDE DEF byte
<1>3. f \in Seq(Byte) /\ Len(f) = 1 /\ f[1] = byte
  BY <1>2
<1>4. c \in Seq(Byte) /\ Len(c) = 4 /\ Digits(c) = v.sign_count
  <2> DEFINE w == 4
             d == v.sign_count
  <2>1. d \in Seq(Byte) /\ d \in Number /\ Len(d) <= w /\ w \in Nat
    BY DEF IsAuthData, IsNumber, Number, Byte
  <2> HIDE DEF d, w
  <2>2. ToBytes(d, w) \in Seq(Byte) /\ Len(ToBytes(d, w)) = w /\ Digits(ToBytes(d, w)) = d
    BY <2>1, ToBytesTyped, NumberRestored
  <2> QED
    BY <2>2 DEF d, w
<1>5. a \in Seq(Byte)
  <2>1. CASE v.attested_credential_data = None
    BY <2>1 DEF SentAttested
  <2>2. CASE v.attested_credential_data # None
    <3>1. IsAttested(v.attested_credential_data)
      BY <2>2 DEF IsAuthData
    <3> QED
      BY <2>2, <3>1, AttestedWritten DEF SentAttested
  <2> QED
    BY <2>1, <2>2
<1>6. x \in Seq(Byte)
  <2>1. CASE v.extensions = None
    BY <2>1 DEF SentExtensions
  <2>2. CASE v.extensions # None
    <3>1. v.extensions \in Values(RecursionLimit)
      BY <2>2, SentIsValue DEF IsAuthData
    <3> QED
      BY <2>2, <3>1, RoundTrip DEF SentExtensions
  <2> QED
    BY <2>1, <2>2
<1>7. EncodeAuthData(v) = all
  <2>1. FlagByte(v.flags, v.attested_credential_data) = byte
    BY DEF FlagByte, byte, SentFlags
  <2> QED
    BY <2>1 DEF EncodeAuthData, make_authenticator_data, SentAttested, SentExtensions
<1> HIDE DEF h, f, c, a, x
<1>8. hf \in Seq(Byte) /\ Len(hf) = 33
  <2>1. hf \in Seq(Byte) /\ Len(hf) = Len(h) + Len(f)
    BY <1>1, <1>3, BytesJoined
  <2> QED
    BY <1>1, <1>3, <2>1
<1> HIDE DEF hf
<1>9. hfc \in Seq(Byte) /\ Len(hfc) = 37
  <2>1. hfc \in Seq(Byte) /\ Len(hfc) = Len(hf) + Len(c)
    BY <1>4, <1>8, BytesJoined
  <2> QED
    BY <1>4, <1>8, <2>1
<1> HIDE DEF hfc
<1>10. hfca \in Seq(Byte) /\ Len(hfca) = 37 + Len(a)
  <2>1. hfca \in Seq(Byte) /\ Len(hfca) = Len(hfc) + Len(a)
    BY <1>5, <1>9, BytesJoined
  <2> QED
    BY <1>9, <2>1
<1> HIDE DEF hfca
<1>11. all \in Seq(Byte) /\ Len(all) = 37 + Len(a) + Len(x)
  <2>1. all \in Seq(Byte) /\ Len(all) = Len(hfca) + Len(x)
    BY <1>6, <1>10, BytesJoined
  <2> QED
    BY <1>10, <2>1
<1> DEFINE o == 0
<1>12. o \in Nat /\ Holds(all, o, all)
  BY <1>11, LenProperties DEF Holds
<1>13. Holds(all, o, hfca) /\ Holds(all, o + Len(hfca), x)
  <2> DEFINE bytes == all
  <2>1. bytes \in Seq(Byte) /\ Holds(bytes, o, hfca \o x) /\ o \in Nat
    BY <1>11, <1>12
  <2> HIDE DEF bytes, o
  <2>2. Holds(bytes, o, hfca) /\ Holds(bytes, o + Len(hfca), x)
    BY <1>6, <1>10, <2>1, HeldParts
  <2> QED
    BY <2>2 DEF bytes
<1> HIDE DEF all, o
<1>14. Holds(all, o, hfc) /\ Holds(all, o + Len(hfc), a)
  <2>1. Holds(all, o, hfc \o a)
    BY <1>13 DEF hfca
  <2> QED
    BY <1>5, <1>9, <1>11, <1>12, <2>1, HeldParts
<1>15. Holds(all, o, hf) /\ Holds(all, o + Len(hf), c)
  <2>1. Holds(all, o, hf \o c)
    BY <1>14 DEF hfc
  <2> QED
    BY <1>4, <1>8, <1>11, <1>12, <2>1, HeldParts
<1>16. Holds(all, o, h) /\ Holds(all, o + Len(h), f)
  <2>1. Holds(all, o, h \o f)
    BY <1>15 DEF hf
  <2> QED
    BY <1>1, <1>3, <1>11, <1>12, <2>1, HeldParts
<1>17. Bytes(all, 0, 32) = h
  <2>1. Bytes(all, o, Len(h)) = h
    BY <1>1, <1>11, <1>12, <1>16, HeldBytes
  <2> QED
    BY <1>1, <2>1 DEF o
<1>18. all[33] = byte
  <2>1. all[(o + Len(h)) + 1] = f[1]
    BY <1>3, <1>16 DEF Holds
  <2>2. (o + Len(h)) + 1 = 33
    BY <1>1 DEF o
  <2> QED
    BY <1>3, <2>1, <2>2
<1>19. Bytes(all, 33, 4) = c
  <2> DEFINE at == o + Len(hf)
  <2>1. at \in Nat /\ at = 33 /\ Holds(all, at, c)
    BY <1>8, <1>15 DEF o
  <2> HIDE DEF at
  <2>2. Bytes(all, at, Len(c)) = c
    BY <1>4, <1>11, <2>1, HeldBytes
  <2> QED
    BY <1>4, <2>1, <2>2
<1>20. Holds(all, 37, a)
  <2>1. o + Len(hfc) = 37
    BY <1>9 DEF o
  <2> QED
    BY <1>14, <2>1
<1> DEFINE la == Len(a)
           lx == Len(x)
<1>21. la \in Nat /\ lx \in Nat
  BY <1>5, <1>6, LenProperties
<1>22. Holds(all, 37 + la, x)
  <2>1. o + Len(hfca) = 37 + la
    BY <1>10, <1>21 DEF o
  <2> QED
    BY <1>13, <2>1
<1>23. Len(all) = (37 + la) + lx /\ 37 <= Len(all)
  <2>1. Len(all) = 37 + la + lx
    BY <1>11
  <2> HIDE DEF la, lx
  <2> QED
    BY <1>21, <2>1
<1> QED
  BY <1>2, <1>4, <1>5, <1>7, <1>11, <1>17, <1>18, <1>19, <1>20, <1>21, <1>22, <1>23
  DEF SentAs, h, c, a, x

\* The credential data of what is sent is read back.
LEMMA AttestedSent ==
    ASSUME NEW v, IsAuthData(v), NEW bytes, SentAs(bytes, v)
    PROVE  AttPart(bytes)
             = Decoded(v.attested_credential_data, 37 + Len(SentAttested(v)))
<1> DEFINE att == v.attested_credential_data
           a == SentAttested(v)
<1>1. /\ bytes \in Seq(Byte) /\ Holds(bytes, 37, a)
      /\ FlagSet(bytes[33]) = SentFlags(v)
  BY DEF SentAs
<1>2. CASE att = None
  <2>1. FLAG_AT \notin SentFlags(v)
    BY <1>2 DEF IsAuthData, SentFlags
  <2>2. 37 + Len(a) = 37
    BY <1>2 DEF SentAttested
  <2> HIDE DEF a
  <2> QED
    BY <1>1, <1>2, <2>1, <2>2 DEF AttPart, Present, a
<1>3. CASE att # None
  <2>1. FLAG_AT \in SentFlags(v) /\ IsAttested(att) /\ a = AttestedBytes(att)
    BY <1>3 DEF IsAuthData, SentFlags, SentAttested
  <2> DEFINE o == 37
  <2>2. o \in Nat /\ Holds(bytes, o, AttestedBytes(att))
    BY <1>1, <2>1
  <2> HIDE DEF o, att
  <2>3. Attested(bytes, o) = Decoded(att, o + Len(AttestedBytes(att)))
    BY <1>1, <2>1, <2>2, HeldAttested
  <2> HIDE DEF a
  <2> QED
    BY <1>1, <2>1, <2>3 DEF AttPart, Present, o, att, a
<1> QED
  BY <1>2, <1>3

\* The extensions of what is sent are read back.
LEMMA ExtensionsSent ==
    ASSUME NEW v, IsAuthData(v), NEW bytes, SentAs(bytes, v)
    PROVE  ExtPart(bytes) = Decoded(v.extensions, Len(bytes))
<1> DEFINE ext == v.extensions
           x == SentExtensions(v)
           la == Len(SentAttested(v))
           end == 37 + la
           att == AttPart(bytes)
<1>1. /\ bytes \in Seq(Byte) /\ Holds(bytes, end, x) /\ la \in Nat
      /\ Len(bytes) = end + Len(x) /\ FlagSet(bytes[33]) = SentFlags(v)
  BY DEF SentAs
<1>2. att.offset = end
  BY AttestedSent DEF Decoded
<1> HIDE DEF la, att
<1>3. ExtPart(bytes) = Present(FLAG_ED, bytes[33], Extensions(bytes, end), end)
  BY <1>2 DEF ExtPart, att
<1>4. FLAG_ED \in SentFlags(v) <=> FLAG_ED \in v.flags
  BY DEF SentFlags, FLAG_ED, FLAG_AT
<1>5. end \in Nat
  BY <1>1
<1> HIDE DEF end
<1>6. CASE ext = None
  <2>1. FLAG_ED \notin SentFlags(v) /\ x = << >>
    BY <1>4, <1>6 DEF IsAuthData, SentExtensions
  <2>2. Len(bytes) = end
    BY <1>1, <1>5, <2>1
  <2> QED
    BY <1>1, <1>3, <1>6, <2>1, <2>2 DEF Present
<1>7. CASE ext # None
  <2>1. /\ FLAG_ED \in SentFlags(v) /\ x = dumps(ext) /\ IsValue(ext) /\ ext.type = "map"
    BY <1>4, <1>7 DEF IsAuthData, SentExtensions
  <2>2. x \in Seq(Byte) /\ loads(x) = Value(ext)
    <3>1. ext \in Values(RecursionLimit)
      BY <2>1, SentIsValue
    <3> HIDE DEF ext, x
    <3>2. dumps(ext) \in Seq(Byte) /\ loads(dumps(ext)) = Value(ext)
      BY <3>1, RoundTrip
    <3> QED
      BY <2>1, <3>2
  <2> HIDE DEF x, ext
  <2>3. loads(x).ok /\ loads(x).value = ext
    BY <2>2 DEF Value
  <2>4. DecodeAt(bytes, end) = Decoded(ext, Len(bytes))
    BY <1>1, <1>5, <2>2, <2>3, HeldItem
  <2> DEFINE d == DecodeAt(bytes, end)
  <2>5. d.ok /\ d.value = ext
    BY <2>4 DEF Decoded
  <2>6. Extensions(bytes, end)
          = IF d.ok THEN IF d.value.type = "map" THEN d ELSE BadAuthData ELSE d
    BY DEF Extensions, AndThen
  <2> HIDE DEF d
  <2>7. Extensions(bytes, end) = d
    BY <2>1, <2>5, <2>6
  <2> QED
    BY <1>1, <1>3, <2>1, <2>4, <2>7 DEF Present, d, ext
<1> QED
  BY <1>6, <1>7

\* authenticatorData is read back as it was sent, with AT set if its part is there.
THEOREM AuthDataRestored ==
    ASSUME NEW v, IsAuthData(v)
    PROVE  /\ EncodeAuthData(v) \in Seq(Byte)
           /\ parse_authenticator_data(EncodeAuthData(v))
                = Value([v EXCEPT !.flags = SentFlags(v)])
<1> DEFINE bytes == EncodeAuthData(v)
           att == AttPart(bytes)
           ext == ExtPart(bytes)
           back == [rp_id_hash |-> Bytes(bytes, 0, 32),
                    flags |-> FlagSet(bytes[33]),
                    sign_count |-> Digits(Bytes(bytes, 33, 4)),
                    attested_credential_data |-> att.value,
                    extensions |-> ext.value]
<1>1. SentAs(bytes, v)
  BY SentFields
<1>2. parse_authenticator_data(bytes)
        = IF Len(bytes) < 37 THEN BadAuthData
          ELSE IF att.ok
          THEN IF ext.ok
               THEN IF ~NothingLeft(bytes, ext.offset) THEN BadAuthData ELSE Value(back)
               ELSE ext
          ELSE att
  BY DEF parse_authenticator_data, AndThen, AttPart, ExtPart
<1> HIDE DEF bytes, att, ext
<1>3. att.ok /\ att.value = v.attested_credential_data
  BY <1>1, AttestedSent DEF att, Decoded
<1>4. ext.ok /\ ext.value = v.extensions /\ ext.offset = Len(bytes)
  BY <1>1, ExtensionsSent DEF ext, Decoded
<1>5. /\ bytes \in Seq(Byte) /\ 37 <= Len(bytes)
      /\ Bytes(bytes, 0, 32) = v.rp_id_hash /\ FlagSet(bytes[33]) = SentFlags(v)
      /\ Digits(Bytes(bytes, 33, 4)) = v.sign_count
  BY <1>1 DEF SentAs
<1>6. ~ (Len(bytes) < 37)
  BY <1>5, LenProperties
<1>7. parse_authenticator_data(bytes) = Value(back)
  BY <1>2, <1>3, <1>4, <1>6 DEF NothingLeft
<1>8. v = [rp_id_hash |-> v.rp_id_hash, flags |-> v.flags, sign_count |-> v.sign_count,
           attested_credential_data |-> v.attested_credential_data, extensions |-> v.extensions]
  BY DEF IsAuthData
<1>9. [v EXCEPT !.flags = SentFlags(v)]
        = [rp_id_hash |-> v.rp_id_hash, flags |-> SentFlags(v), sign_count |-> v.sign_count,
           attested_credential_data |-> v.attested_credential_data, extensions |-> v.extensions]
  BY <1>8
<1>10. back = [v EXCEPT !.flags = SentFlags(v)]
  BY <1>3, <1>4, <1>5, <1>9
<1> HIDE DEF back
<1> QED
  BY <1>5, <1>7, <1>10 DEF bytes

\* What is sent in bytes consists of bytes.
LEMMA EncodeTyped ==
    ASSUME NEW m \in Messages, m.kind # "payload"
    PROVE  Encode(m) \in Seq(Byte)
<1>1. CASE m.kind = "item"
  <2>1. m.value \in Values(RecursionLimit)
    BY <1>1, MessagesAssumption, SentIsValue
  <2> QED
    BY <1>1, <2>1, RoundTrip DEF Encode
<1>2. CASE m.kind = "key"
  BY <1>2, MessagesAssumption, SentIsKey DEF Encode
<1>3. CASE m.kind = "authdata"
  BY <1>3, MessagesAssumption, AuthDataRestored DEF Encode
<1> QED
  BY <1>1, <1>2, <1>3, MessagesAssumption DEF Kinds

-----------------------------------------------------------------------------
\* The inductive invariant.  The result is that of the data as it is; data sent
\* in bytes consists of bytes; a payload is a body and a tag, and a tag is one
\* of those that were built, because a client cannot make one.  Each change adds
\* one byte at most, so that no data reaches the lengths that the model does not
\* tell apart.
Read_ == result = Read(message.kind, data)
Bytes_ == InBytes => data \in Seq(Byte)
Payload_ ==
    ~InBytes =>
        /\ data = [body |-> data.body, tag |-> data.tag]
        /\ data.tag = NoTag \/ \E p \in Payloads : data.tag = p.tag
Sent_ == changes = 0 => data = Encode(message)
Length_ ==
    InBytes => changes <= message.limit /\ Len(data) <= Len(Encode(message)) + changes
IInv ==
    /\ message \in Messages
    /\ changes \in Nat
    /\ Read_ /\ Bytes_ /\ Length_ /\ Payload_ /\ Sent_

\* The initial states satisfy it.
LEMMA InitIInv == Init => IInv
<1> SUFFICES ASSUME Init PROVE IInv
  OBVIOUS
<1>1. message \in Messages /\ changes = 0 /\ data = Encode(message) /\ Read_ /\ Sent_
  BY DEF Init, Read_, Sent_
<1>2. Bytes_
  BY <1>1, EncodeTyped DEF Bytes_, InBytes
<1>3. Payload_
  <2> SUFFICES ASSUME ~InBytes
               PROVE  /\ data = [body |-> data.body, tag |-> data.tag]
                      /\ \E p \in Payloads : data.tag = p.tag
    BY DEF Payload_
  <2>1. message.kind = "payload"
    BY DEF InBytes
  <2>2. data = build_challenge(message.value)
    BY <1>1, <2>1 DEF Encode
  <2>3. data \in Payloads
    BY <1>1, <2>1, <2>2 DEF Payloads
  <2>4. data = [body |-> data.body, tag |-> data.tag]
    BY <2>2 DEF build_challenge
  <2> QED
    BY <2>3, <2>4
<1>4. Length_
  <2> SUFFICES ASSUME InBytes
               PROVE  0 <= message.limit /\ Len(Encode(message)) <= Len(Encode(message)) + 0
    BY <1>1 DEF Length_
  <2>1. Encode(message) \in Seq(Byte) /\ message.limit \in Nat
    BY <1>1, EncodeTyped, LengthAssumption DEF InBytes
  <2>2. Len(Encode(message)) \in Nat
    BY <2>1, LenProperties
  <2> QED
    BY <2>1, <2>2
<1> QED
  BY <1>1, <1>2, <1>3, <1>4 DEF IInv

\* What a change does to the parts that do not depend on the data.
LEMMA ChangeKeeps ==
    ASSUME IInv, NEW bytes, Change(bytes)
    PROVE  /\ message' = message /\ message' \in Messages /\ data' = bytes
           /\ changes' \in Nat /\ changes' # 0
           /\ Read_' /\ Sent_' /\ InBytes' = InBytes
BY DEF IInv, Change, Read_, Sent_, InBytes

\* A change that adds a byte at most keeps to the length of what was sent and of
\* the changes.
LEMMA ChangeBounded ==
    ASSUME IInv, InBytes, NEW bytes \in Seq(Byte), Len(bytes) <= Len(data) + 1, Change(bytes)
    PROVE  Length_'
<1> DEFINE m == Len(Encode(message))
           n == Len(bytes)
           l == Len(data)
<1>1. /\ message' = message /\ data' = bytes /\ changes' = changes + 1
      /\ changes < message.limit /\ changes \in Nat /\ message \in Messages
      /\ data \in Seq(Byte) /\ l <= m + changes
  BY DEF IInv, Change, Bytes_, Length_
<1>2. message.limit \in Nat /\ Encode(message) \in Seq(Byte)
  BY <1>1, EncodeTyped, LengthAssumption DEF InBytes
<1>3. m \in Nat /\ n \in Nat /\ l \in Nat /\ n <= l + 1
  BY <1>1, <1>2, LenProperties
<1>4. Len(Encode(message))' = m /\ Len(data') = n /\ (message.limit)' = message.limit
  BY <1>1 DEF Encode
<1> HIDE DEF m, n, l
<1>5. n <= m + (changes + 1) /\ changes + 1 <= message.limit
  BY <1>1, <1>2, <1>3
<1> QED
  BY <1>1, <1>4, <1>5 DEF Length_

\* One more byte, or one less, makes data that extends the other.
LEMMA LongerExtends ==
    ASSUME NEW s \in Seq(Byte), NEW b \in Byte
    PROVE  Extends(Append(s, b), s)
BY AppendProperties, LenProperties DEF Extends, Agree

\* What is cut off by a byte is extended by what it was.
LEMMA ShorterExtends ==
    ASSUME NEW s \in Seq(Byte), s # << >>
    PROVE  /\ Front(s) \in Seq(Byte) /\ Len(Front(s)) <= Len(s) + 1
           /\ Extends(s, Front(s))
<1>1. Len(s) \in Nat \ {0}
  BY EmptySeq
<1> DEFINE n == Len(s) - 1
<1>2. n \in Nat /\ n <= Len(s) /\ \A i \in 1 .. n : s[i] \in Byte
  BY <1>1, LenProperties
<1>3. Front(s) = SubSeq(s, 1, n)
  BY DEF Front
<1> HIDE DEF n
<1>4. /\ Front(s) \in Seq(Byte) /\ Len(Front(s)) = n
      /\ \A i \in 1 .. n : Front(s)[i] = s[i]
  BY <1>2, <1>3
<1> QED
  BY <1>1, <1>2, <1>4 DEF Extends, Agree, n

\* Every step preserves it.
LEMMA NextIInv == IInv /\ [Next]_vars => IInv'
<1> SUFFICES ASSUME IInv, [Next]_vars PROVE IInv'
  OBVIOUS
<1>1. ASSUME InBytes, NEW bytes \in Seq(Byte), Len(bytes) <= Len(data) + 1, Change(bytes)
      PROVE  IInv'
  <2>1. /\ message' \in Messages /\ data' = bytes /\ changes' \in Nat
        /\ Read_' /\ Sent_' /\ Length_' /\ InBytes'
    BY <1>1, ChangeKeeps, ChangeBounded
  <2> QED
    BY <1>1, <2>1 DEF IInv, Bytes_, Payload_
<1>2. ASSUME ~InBytes, NEW body, NEW tag,
             tag = NoTag \/ \E p \in Payloads : tag = p.tag,
             Change([body |-> body, tag |-> tag])
      PROVE  IInv'
  <2> DEFINE payload == [body |-> body, tag |-> tag]
  <2>1. /\ message' = message /\ message' \in Messages /\ data' = payload
        /\ changes' \in Nat /\ Read_' /\ Sent_' /\ InBytes' = InBytes
    BY <1>2, ChangeKeeps
  <2>2. Payloads' = Payloads
    BY DEF Payloads
  <2>3. Payload_'
    BY <1>2, <2>1, <2>2 DEF Payload_
  <2> QED
    BY <1>2, <2>1, <2>3 DEF IInv, Bytes_, Length_
<1>3. InBytes => data \in Seq(Byte)
  BY DEF IInv, Bytes_
<1>4. ~InBytes => /\ data = [body |-> data.body, tag |-> data.tag]
                  /\ data.tag = NoTag \/ \E p \in Payloads : data.tag = p.tag
  BY DEF IInv, Payload_
<1>5. CASE Cut
  <2>1. Front(data) \in Seq(Byte) /\ Len(Front(data)) <= Len(data) + 1
    BY <1>3, <1>5, ShorterExtends DEF Cut
  <2> QED
    BY <1>1, <1>5, <2>1 DEF Cut
<1>6. ASSUME NEW b \in Octets, Extend(b) PROVE IInv'
  <2>1. b \in Byte
    BY MessagesAssumption DEF Byte
  <2>2. Append(data, b) \in Seq(Byte) /\ Len(Append(data, b)) <= Len(data) + 1
    BY <1>3, <1>6, <2>1, AppendProperties DEF Extend
  <2> QED
    BY <1>1, <1>6, <2>2 DEF Extend
<1>7. ASSUME NEW i \in message.positions \cap DOMAIN data, NEW b \in Octets, Replace(i, b)
      PROVE  IInv'
  <2>1. b \in Byte
    BY MessagesAssumption DEF Byte
  <2>2. data \in Seq(Byte) /\ i \in 1 .. Len(data)
    BY <1>3, <1>7, LenProperties DEF Replace
  <2>3. ReplaceAt(data, i, b) \in Seq(Byte) /\ Len(ReplaceAt(data, i, b)) = Len(data)
    BY <2>1, <2>2, ExceptSeq DEF ReplaceAt
  <2>4. Len(ReplaceAt(data, i, b)) <= Len(data) + 1
    BY <2>2, <2>3, LenProperties
  <2> QED
    BY <1>1, <1>7, <2>3, <2>4 DEF Replace
<1>8. ASSUME NEW p \in Payloads, NEW field \in DOMAIN p.body, Alter(field, p) PROVE IInv'
  <2> DEFINE body == [data.body EXCEPT ![field] = p.body[field]]
  <2>1. ~InBytes /\ Change([data EXCEPT !.body[field] = p.body[field]])
    BY <1>8 DEF Alter
  <2>2. [data EXCEPT !.body[field] = p.body[field]] = [body |-> body, tag |-> data.tag]
    BY <1>4, <2>1
  <2> HIDE DEF body
  <2> QED
    BY <1>2, <1>4, <2>1, <2>2
<1>9. ASSUME NEW tag, tag = NoTag \/ \E p \in Payloads : tag = p.tag, Retag(tag)
      PROVE  IInv'
  <2>1. ~InBytes /\ Change([data EXCEPT !.tag = tag])
    BY <1>9 DEF Retag
  <2>2. [data EXCEPT !.tag = tag] = [body |-> data.body, tag |-> tag]
    BY <1>4, <2>1
  <2> QED
    BY <1>2, <1>9, <2>1, <2>2
<1>10. CASE DropBody
  <2>1. ~InBytes /\ Change([data EXCEPT !.body = NoBody])
    BY <1>10 DEF DropBody
  <2>2. [data EXCEPT !.body = NoBody] = [body |-> NoBody, tag |-> data.tag]
    BY <1>4, <2>1
  <2> QED
    BY <1>2, <1>4, <2>1, <2>2
<1>11. CASE UNCHANGED vars
  BY <1>11 DEF IInv, vars, Read_, Bytes_, Length_, Payload_, Sent_, InBytes, Payloads
<1>12. ASSUME NEW p \in Payloads, Retag(p.tag) PROVE IInv'
  BY <1>9, <1>12
<1>13. CASE Retag(NoTag)
  BY <1>9, <1>13
<1> QED
  BY <1>5, <1>6, <1>7, <1>8, <1>10, <1>11, <1>12, <1>13 DEF Next

\* IInv holds in every reachable state.
THEOREM Invariant == Spec => []IInv
BY InitIInv, NextIInv, PTL DEF Spec

-----------------------------------------------------------------------------
\* What the changes make of a message keeps below the lengths that the model does
\* not tell apart.
LEMMA DataShort == IInv /\ InBytes => data \in Seq(Byte) /\ Len(data) < TooLong
<1> SUFFICES ASSUME IInv, InBytes PROVE data \in Seq(Byte) /\ Len(data) < TooLong
  OBVIOUS
<1> DEFINE m == Len(Encode(message))
           l == Len(data)
<1>1. message \in Messages /\ changes \in Nat /\ data \in Seq(Byte)
  BY DEF IInv, Bytes_
<1>2. /\ message.limit \in Nat /\ m + message.limit < TooLong
      /\ Encode(message) \in Seq(Byte)
  BY <1>1, EncodeTyped, LengthAssumption DEF InBytes
<1>3. changes <= message.limit /\ l <= m + changes
  BY DEF IInv, Length_
<1>4. m \in Nat /\ l \in Nat
  BY <1>1, <1>2, LenProperties
<1> HIDE DEF m, l
<1>5. l < TooLong
  BY <1>1, <1>2, <1>3, <1>4 DEF TooLong
<1> QED
  BY <1>1, <1>5 DEF l

\* No parser accepts data and a part of it.
LEMMA ReadPrefixFree ==
    ASSUME NEW kind \in Kinds \ {"payload"},
           NEW a \in Seq(Byte), NEW b \in Seq(Byte), Extends(b, a)
    PROVE  ~ (Read(kind, a).ok /\ Read(kind, b).ok)
<1>1. CASE kind = "item"
  BY <1>1, LoadsPrefixFree DEF Read
<1>2. CASE kind = "key"
  BY <1>2, KeyPrefixFree DEF Read
<1>3. CASE kind = "authdata"
  BY <1>3, AuthDataPrefixFree DEF Read
<1> QED
  BY <1>1, <1>2, <1>3 DEF Kinds

\* No accepted message is the beginning of another, for messages of any length
\* and items of any depth: cutting or extending one makes its parser refuse it.
THEOREM PrefixFreeHolds == Spec => PrefixFree
<1> DEFINE Step == InBytes /\ result.ok /\ Len(data') # Len(data) => ~result'.ok
<1>1. IInv /\ IInv' /\ [Next]_vars => [Step]_vars
  <2> SUFFICES ASSUME IInv, IInv', Next, InBytes, result.ok, Len(data') # Len(data)
               PROVE  ~result'.ok
    OBVIOUS
  <2>1. /\ data \in Seq(Byte) /\ result = Read(message.kind, data)
        /\ message.kind \in Kinds \ {"payload"}
    BY MessagesAssumption DEF IInv, Bytes_, Read_, InBytes
  <2>2. ASSUME NEW bytes, Change(bytes)
        PROVE  data' = bytes /\ result' = Read(message.kind, bytes)
    BY <2>2 DEF Change
  <2>3. CASE Cut
    <3>1. data # << >> /\ Change(Front(data))
      BY <2>3 DEF Cut
    <3>2. Front(data) \in Seq(Byte) /\ Extends(data, Front(data))
      BY <2>1, <3>1, ShorterExtends
    <3>3. result' = Read(message.kind, Front(data))
      BY <2>2, <3>1
    <3> QED
      BY <2>1, <3>2, <3>3, ReadPrefixFree
  <2>4. ASSUME NEW b \in Octets, Extend(b) PROVE ~result'.ok
    <3>1. b \in Byte /\ Change(Append(data, b))
      BY <2>4, MessagesAssumption DEF Extend, Byte
    <3>2. Append(data, b) \in Seq(Byte) /\ Extends(Append(data, b), data)
      BY <2>1, <3>1, LongerExtends, AppendProperties
    <3>3. result' = Read(message.kind, Append(data, b))
      BY <2>2, <3>1
    <3> QED
      BY <2>1, <3>2, <3>3, ReadPrefixFree
  <2>5. ASSUME NEW i \in message.positions \cap DOMAIN data, NEW b \in Octets, Replace(i, b)
        PROVE  FALSE
    <3>1. data' = ReplaceAt(data, i, b)
      BY <2>2, <2>5 DEF Replace
    <3>2. b \in Byte /\ i \in 1 .. Len(data)
      BY <2>1, MessagesAssumption, LenProperties DEF Byte
    <3>3. Len(ReplaceAt(data, i, b)) = Len(data)
      BY <2>1, <3>2, ExceptSeq DEF ReplaceAt
    <3> QED
      BY <3>1, <3>3
  <2>6. ASSUME NEW p \in Payloads, NEW field \in DOMAIN p.body, Alter(field, p)
        PROVE  FALSE
    BY <2>6 DEF Alter
  <2>7. ASSUME NEW tag, Retag(tag) PROVE FALSE
    BY <2>7 DEF Retag
  <2>8. CASE DropBody
    BY <2>8 DEF DropBody
  <2>9. ASSUME NEW p \in Payloads, Retag(p.tag) PROVE FALSE
    BY <2>7, <2>9
  <2>10. CASE Retag(NoTag)
    BY <2>7, <2>10
  <2> QED
    BY <2>3, <2>4, <2>5, <2>6, <2>8, <2>9, <2>10 DEF Next
<1> QED
  BY <1>1, Invariant, PTL DEF PrefixFree, Spec

\* Whatever loads accepts, of any length that the model tells apart and of any
\* depth, dumps writes in a form that has the same value and is no longer.
THEOREM CanonicalHolds == Spec => []Canonical
<1>1. IInv => Canonical
  <2> SUFFICES ASSUME IInv, message.kind = "item", result.ok
               PROVE  LET bytes == dumps(result.value)
                      IN  loads(bytes) = Value(result.value) /\ Len(bytes) <= Len(data)
    BY DEF Canonical
  <2>1. data \in Seq(Byte) /\ result = loads(data)
    BY DEF IInv, Bytes_, Read_, Read, InBytes
  <2>2. Len(data) < TooLong
    BY DataShort DEF InBytes
  <2> QED
    BY <2>1, <2>2, LoadsCanonical
<1> QED
  BY <1>1, Invariant, PTL

\* A byte of accepted data cannot change without changing the value or being
\* refused, the two spellings of null excepted, in data of any length that the
\* model tells apart, of any depth, and without a byte in 192 .. 223: no entry of a
\* map hides another, and no byte is skipped.
THEOREM EveryByteCountsHolds == Spec => EveryByteCounts
<1> DEFINE Step == /\ message.kind = "item" /\ result.ok /\ result'.ok
                   /\ ~Tagged(data) /\ ~Tagged(data')
                   /\ Spelling(data) # Spelling(data')
                   => result' # result
<1>1. IInv /\ [Next]_vars => [Step]_vars
  <2> SUFFICES ASSUME IInv, Next, message.kind = "item", result.ok, result'.ok,
                      ~Tagged(data), ~Tagged(data'), Spelling(data) # Spelling(data'),
                      result' = result
               PROVE  FALSE
    OBVIOUS
  <2>1. /\ InBytes /\ message.kind \in Kinds \ {"payload"}
        /\ result = Read(message.kind, data)
    BY DEF InBytes, Kinds, IInv, Read_
  <2>2. data \in Seq(Byte) /\ Len(data) < TooLong
    BY <2>1, DataShort
  <2>3. ASSUME NEW bytes, Change(bytes)
        PROVE  data' = bytes /\ result' = Read(message.kind, bytes)
    BY <2>3 DEF Change
  <2>4. CASE Cut
    <3>1. data # << >> /\ Change(Front(data))
      BY <2>4 DEF Cut
    <3>2. Front(data) \in Seq(Byte) /\ Extends(data, Front(data))
      BY <2>2, <3>1, ShorterExtends
    <3>3. result' = Read(message.kind, Front(data))
      BY <2>3, <3>1
    <3> QED
      BY <2>1, <2>2, <3>2, <3>3, ReadPrefixFree
  <2>5. ASSUME NEW b \in Octets, Extend(b) PROVE FALSE
    <3>1. b \in Byte /\ Change(Append(data, b))
      BY <2>5, MessagesAssumption DEF Extend, Byte
    <3>2. Append(data, b) \in Seq(Byte) /\ Extends(Append(data, b), data)
      BY <2>2, <3>1, LongerExtends, AppendProperties
    <3>3. result' = Read(message.kind, Append(data, b))
      BY <2>3, <3>1
    <3> QED
      BY <2>1, <2>2, <3>2, <3>3, ReadPrefixFree
  <2>6. ASSUME NEW i \in message.positions \cap DOMAIN data, NEW b \in Octets, Replace(i, b)
        PROVE  FALSE
    <3>1. data' = ReplaceAt(data, i, b) /\ result' = Read(message.kind, ReplaceAt(data, i, b))
      BY <2>3, <2>6 DEF Replace
    <3>2. b \in Byte /\ i \in 1 .. Len(data)
      BY <2>2, MessagesAssumption, LenProperties DEF Byte
    <3>3. result = loads(data) /\ result' = loads(ReplaceAt(data, i, b))
      BY <2>1, <3>1 DEF Read
    <3> QED
      BY <2>2, <3>1, <3>2, <3>3, ReplacedTells
  <2>7. ASSUME NEW p \in Payloads, NEW field \in DOMAIN p.body, Alter(field, p)
        PROVE  FALSE
    BY <2>1, <2>7 DEF Alter
  <2>8. ASSUME NEW tag, Retag(tag) PROVE FALSE
    BY <2>1, <2>8 DEF Retag
  <2>9. CASE DropBody
    BY <2>1, <2>9 DEF DropBody
  <2>10. ASSUME NEW p \in Payloads, Retag(p.tag) PROVE FALSE
    BY <2>8, <2>10
  <2>11. CASE Retag(NoTag)
    BY <2>8, <2>11
  <2> QED
    BY <2>4, <2>5, <2>6, <2>7, <2>9, <2>10, <2>11 DEF Next
<1> QED
  BY <1>1, Invariant, PTL DEF EveryByteCounts, Spec

\* A key that is accepted in any encoding is accepted, as the same key, when
\* public_key_to_cose writes it, whatever the points of the curve.
THEOREM KeyIsPortableHolds == Spec => []KeyIsPortable
<1>1. IInv => KeyIsPortable
  <2> SUFFICES ASSUME IInv, message.kind = "key", result.ok
               PROVE  parse_cose_key(public_key_to_cose(result.value)) = result
    BY DEF KeyIsPortable
  <2>1. data \in Seq(Byte) /\ Len(data) < TooLong
    BY DataShort DEF InBytes
  <2>2. result = parse_cose_key(data)
    BY DEF IInv, Read_, Read
  <2> QED
    BY <2>1, <2>2, KeyWritten
<1> QED
  BY <1>1, Invariant, PTL

\* What the encoders write, the parsers read back unchanged, for all messages that
\* the types of the code allow.
THEOREM ReadBackHolds == Spec => []ReadBack
<1>1. IInv => ReadBack
  <2> DEFINE v == message.value
             wanted == IF message.kind = "authdata" THEN [v EXCEPT !.flags = SentFlags(v)] ELSE v
  <2> SUFFICES ASSUME IInv, changes = 0, InBytes
               PROVE  result.ok /\ result.value = wanted
    BY DEF ReadBack, SentFlags
  <2>1. /\ message \in Messages /\ message.kind \in Kinds \ {"payload"}
        /\ result = Read(message.kind, Encode(message))
    BY MessagesAssumption DEF IInv, Read_, Sent_, InBytes
  <2>2. \A x : Value(x).ok /\ Value(x).value = x
    BY DEF Value
  <2>3. CASE message.kind = "item"
    <3>1. v \in Values(RecursionLimit)
      BY <2>1, <2>3, MessagesAssumption, SentIsValue
    <3>2. loads(dumps(v)) = Value(v)
      BY <3>1, RoundTrip
    <3>3. result = Value(v)
      BY <2>1, <2>3, <3>2 DEF Read, Encode
    <3> QED
      BY <2>2, <2>3, <3>3
  <2>4. CASE message.kind = "key"
    <3>1. IsKey(v) /\ RecursionLimit >= 2
      BY <2>1, <2>4, MessagesAssumption
    <3>2. parse_cose_key(public_key_to_cose(v)) = Value(v)
      BY <3>1, SentIsKey
    <3>3. result = Value(v)
      BY <2>1, <2>4, <3>2 DEF Read, Encode
    <3> QED
      BY <2>2, <2>4, <3>3
  <2>5. CASE message.kind = "authdata"
    <3>1. IsAuthData(v)
      BY <2>1, <2>5, MessagesAssumption
    <3>2. parse_authenticator_data(EncodeAuthData(v)) = Value([v EXCEPT !.flags = SentFlags(v)])
      BY <3>1, AuthDataRestored
    <3>3. result = Value([v EXCEPT !.flags = SentFlags(v)])
      BY <2>1, <2>5, <3>2 DEF Read, Encode
    <3> QED
      BY <2>2, <2>5, <3>3
  <2> QED
    BY <2>1, <2>3, <2>4, <2>5 DEF Kinds
<1> QED
  BY <1>1, Invariant, PTL

\* A payload is accepted only with a body that was built with the verifier's
\* key, whatever parts of which payloads a client puts together, and unchanged
\* exactly if it was built with that key.
THEOREM PayloadIsOursHolds == Spec => []PayloadIsOurs
<1>1. IInv => PayloadIsOurs
  <2> SUFFICES ASSUME IInv, message.kind = "payload"
               PROVE  /\ result.ok =>
                           \E m \in Messages : /\ m.kind = "payload"
                                               /\ m.value.hmac_key = HmacKey
                                               /\ result.value = Body(m.value)
                      /\ changes = 0 => (result.ok <=> message.value.hmac_key = HmacKey)
    BY DEF PayloadIsOurs
  <2>1. result = verify_challenge_payload(data, HmacKey)
    BY DEF IInv, Read_, Read
  <2>2. result.ok <=> PayloadOk(data, HmacKey)
    BY <2>1 DEF verify_challenge_payload
  <2>3. ASSUME result.ok
        PROVE  \E m \in Messages : /\ m.kind = "payload"
                                   /\ m.value.hmac_key = HmacKey
                                   /\ result.value = Body(m.value)
    <3>1. data.tag # NoTag /\ data.tag = _tag(data.body, HmacKey)
      BY <2>2, <2>3 DEF PayloadOk
    <3>2. result.value = data.body
      BY <2>1, <2>2, <2>3 DEF verify_challenge_payload
    <3>3. PICK m \in Messages : m.kind = "payload" /\ data.tag = build_challenge(m.value).tag
      BY <3>1 DEF IInv, Payload_, InBytes, Payloads
    <3>4. data.tag = _tag(Body(m.value), m.value.hmac_key)
      BY <3>1, <3>3 DEF build_challenge
    <3>5. m.value.hmac_key = HmacKey /\ Body(m.value) = data.body
      BY <3>1, <3>4 DEF _tag
    <3> QED
      BY <3>2, <3>3, <3>5
  <2>4. ASSUME changes = 0 PROVE result.ok <=> message.value.hmac_key = HmacKey
    <3> DEFINE c == message.value
    <3>1. data = build_challenge(c)
      BY <2>4 DEF IInv, Sent_, Encode
    <3>2. data.body = Body(c)
          /\ data.tag = IF c.hmac_key = NoKey THEN NoTag ELSE _tag(Body(c), c.hmac_key)
      BY <3>1 DEF build_challenge
    <3>3. Body(c) # NoBody
      <4>1. Body(c).v = 1 /\ NoBody.v = 0
        BY DEF Body, NoBody
      <4> QED
        BY <4>1
    <3>4. \A key : _tag(Body(c), key).key = key
      BY DEF _tag
    <3>5. NoTag.key = NoKey
      BY DEF NoTag
    <3>6. CASE c.hmac_key = HmacKey
      BY <2>2, <3>2, <3>3, <3>4, <3>5, <3>6, KeyAssumption DEF PayloadOk
    <3>7. CASE c.hmac_key # HmacKey
      BY <2>2, <3>2, <3>4, <3>7 DEF PayloadOk
    <3> QED
      BY <3>6, <3>7
  <2> QED
    BY <2>3, <2>4
<1> QED
  BY <1>1, Invariant, PTL

-----------------------------------------------------------------------------
\* Accepted authenticatorData of any length is exactly its fields one after
\* another, the key one whole item and the extensions another.
THEOREM NothingUnreadHolds == Spec => []NothingUnread
<1>1. IInv => NothingUnread
  <2> DEFINE v == result.value
             rest == SubSeq(data, Len(FieldBytes(v)) + 1, Len(data))
             att == AttPart(data)
             ext == ExtPart(data)
  <2> SUFFICES ASSUME IInv, message.kind = "authdata", result.ok
               PROVE  /\ IsPrefix(FieldBytes(v), data)
                      /\ IF FLAG_ED \in v.flags THEN loads(rest) = Value(v.extensions)
                         ELSE rest = << >> /\ v.extensions = None
                      /\ IF FLAG_AT \in v.flags
                         THEN loads(v.attested_credential_data.credential_public_key).ok
                         ELSE v.attested_credential_data = None
    BY DEF NothingUnread
  <2>1. data \in Seq(Byte) /\ result = parse_authenticator_data(data)
    BY DEF IInv, Bytes_, Read_, Read, InBytes
  <2>2. Len(data) \in Nat
    BY <2>1, LenProperties
  <2>3. /\ att.ok /\ ext.ok /\ att.offset \in 37 .. Len(data) /\ ext.offset = Len(data)
        /\ v.flags = FlagSet(data[33]) /\ v.attested_credential_data = att.value
        /\ v.extensions = ext.value
    BY <2>1, ParsedParts DEF Value
  <2> DEFINE n == att.offset
  <2>4. FieldBytes(v) = Bytes(data, 0, n)
    BY <2>1, FieldsRestored
  <2>5. FieldBytes(v) \in Seq(Byte) /\ Len(FieldBytes(v)) = n
    <3>1. n \in Nat /\ 0 + n <= Len(data)
      BY <2>2, <2>3
    <3> QED
      BY <2>1, <2>4, <3>1, BytesTyped
  <2>6. IsPrefix(FieldBytes(v), data)
    <3>1. n <= Len(data) /\ 0 + 1 = 1 /\ 0 + n = n
      BY <2>2, <2>3
    <3>2. Bytes(data, 0, n) = SubSeq(data, 1, n)
      BY <3>1 DEF Bytes
    <3>3. SubSeq(FieldBytes(v), 1, n) = FieldBytes(v)
      BY <2>5, SubSeqFull
    <3> QED
      BY <2>4, <2>5, <3>1, <3>2, <3>3 DEF IsPrefix
  <2>7. rest = From(data, n)
    BY <2>5 DEF From
  <2>8. IF FLAG_ED \in v.flags THEN loads(rest) = Value(v.extensions)
        ELSE rest = << >> /\ v.extensions = None
    <3>1. CASE FLAG_ED \in v.flags
      <4>1. ext = Extensions(data, n)
        BY <2>3, <3>1 DEF ExtPart, Present
      <4>2. n \in Nat /\ n <= Len(data)
        BY <2>2, <2>3
      <4>3. loads(From(data, n)) = Value(ext.value)
        BY <2>1, <2>3, <4>1, <4>2, ExtensionsAreWhole
      <4> QED
        BY <2>3, <2>7, <3>1, <4>3
    <3>2. CASE FLAG_ED \notin v.flags
      <4>1. ext = Decoded(None, n)
        BY <2>3, <3>2 DEF ExtPart, Present
      <4>2. n = Len(data) /\ ext.value = None
        BY <2>3, <4>1 DEF Decoded
      <4>3. From(data, n) = << >>
        BY <2>2, <4>2, SubSeqEmpty DEF From
      <4> QED
        BY <2>3, <2>7, <3>2, <4>2, <4>3
    <3> QED
      BY <3>1, <3>2
  <2>9. IF FLAG_AT \in v.flags
        THEN loads(v.attested_credential_data.credential_public_key).ok
        ELSE v.attested_credential_data = None
    <3>1. CASE FLAG_AT \in v.flags
      <4>1. att = Attested(data, 37)
        BY <2>3, <3>1 DEF AttPart, Present
      <4> QED
        BY <2>1, <2>3, <3>1, <4>1, KeyIsWhole
    <3>2. CASE FLAG_AT \notin v.flags
      BY <2>3, <3>2 DEF AttPart, Present, Decoded
    <3> QED
      BY <3>1, <3>2
  <2> QED
    BY <2>6, <2>8, <2>9
<1> QED
  BY <1>1, Invariant, PTL
=============================================================================
