------------------------------ MODULE QrEncoder ------------------------------
(***************************************************************************)
(* The functions of src/passkit/challenge/builder.py that make a QR code:  *)
(* arithmetic in GF(256), error correction, capacity, bit stream, blocks   *)
(* and the fixed patterns.  QrCode puts them together.                     *)
(***************************************************************************)
EXTENDS Integers, SequencesExt, Bitwise

CONSTANT None       \* Python's None: a module without a value

\* The function itself, which TLC evaluates as a whole instead of value by value.
LOCAL Table(f) == CHOOSE g \in {f} : g = f

-----------------------------------------------------------------------------
\* GF(256) with the polynomial 0x11D, addition being ^^.
\* _init_gf's loop, in 16 rows of 16 powers of 2.
Shifted == Table([x \in 0 .. 255 |-> IF x < 128 THEN 2 * x ELSE (2 * x) ^^ 285])
ShiftedBy(x, n) == LET y[i \in 0 .. n] == IF i = 0 THEN x ELSE Shifted[y[i - 1]] IN y[n]
NextRow == Table([x \in 0 .. 255 |-> ShiftedBy(x, 16)])
_GF_EXP ==
    LET row[i \in 0 .. 15] == IF i = 0 THEN 1 ELSE NextRow[row[i - 1]]
    IN  Table([i \in 0 .. 254 |-> ShiftedBy(row[i \div 16], i % 16)])
_GF_LOG == Table([x \in 1 .. 255 |-> CHOOSE i \in 0 .. 254 : _GF_EXP[i] = x])

_gf_mul(a, b) ==
    IF a = 0 \/ b = 0 THEN 0 ELSE _GF_EXP[(_GF_LOG[a] + _GF_LOG[b]) % 255]

\* The product of x - 2^i for i < n, highest power first.
_rs_generator ==
    LET gen[n \in 0 .. 26] ==
            IF n = 0 THEN <<1>>
            ELSE LET g == gen[n - 1] \o <<0>>
                 IN  [j \in 1 .. n + 1 |->
                        IF j = 1 THEN g[1] ELSE g[j] ^^ _gf_mul(g[j - 1], _GF_EXP[n - 1])]
    IN  Table([n \in 1 .. 26 |-> << >> \o gen[n]])

\* The remainder of the division by the generator: one data byte enters at the
\* top, the highest coefficient leaves and is cancelled.
Divided(rem, byte, gen) ==
    LET coef == byte ^^ rem[1]
        next == Append(Tail(rem), 0)
    IN  << >> \o [j \in 1 .. Len(rem) |-> next[j] ^^ _gf_mul(gen[j + 1], coef)]
_rs_encode(block, ec_len) ==
    LET Step(rem, byte) == Divided(rem, byte, _rs_generator[ec_len])
    IN  FoldLeft(Step, [j \in 1 .. ec_len |-> 0], block)

-----------------------------------------------------------------------------
Capacity(total, ec, blocks) == [total |-> total, ec |-> ec, blocks |-> blocks]
_VERSION_M ==
    <<Capacity(26, 10, 1), Capacity(44, 16, 1), Capacity(70, 26, 1), Capacity(100, 18, 2),
      Capacity(134, 24, 2), Capacity(172, 16, 4), Capacity(196, 18, 4), Capacity(242, 22, 4),
      Capacity(292, 22, 5), Capacity(346, 26, 5)>>

data_codewords(v) == _VERSION_M[v].total - _VERSION_M[v].ec * _VERSION_M[v].blocks
count_bits_byte(v) == 8
count_bits(v) == IF v >= 10 THEN 16 ELSE 8

_capacity_bytes(v) == (data_codewords(v) * 8 - (4 + count_bits(v))) \div 8

Fitting(length) == {v \in 1 .. 10 : length <= _capacity_bytes(v)}
_choose_version(length) ==
    CHOOSE v \in Fitting(length) : \A w \in Fitting(length) : v <= w

\* put(value, n) of the bitstream, and bytes as bits and back.
Bits(value, n) == [i \in 1 .. n |-> (value \div 2 ^ (n - i)) % 2]
BitsOf(bytes) ==
    [i \in 1 .. 8 * Len(bytes) |->
        (bytes[1 + (i - 1) \div 8] \div 2 ^ (7 - ((i - 1) % 8))) % 2]
ByteAt(bits, i) ==
    LET value[k \in 0 .. 8] ==
            IF k = 0 THEN 0 ELSE 2 * value[k - 1] + bits[8 * (i - 1) + k]
    IN  value[8]
BytesOf(bits) == [i \in 1 .. Len(bits) \div 8 |-> ByteAt(bits, i)]
Zeros(n) == [i \in 1 .. n |-> 0]
Smaller(a, b) == IF a < b THEN a ELSE b

\* Mode, count, data, terminator, zeros up to a byte, then the pad bytes.
Codewords(v, text) ==
    LET stream == Bits(4, 4) \o Bits(Len(text), count_bits(v)) \o BitsOf(text)
        ended == stream \o Zeros(Smaller(4, data_codewords(v) * 8 - Len(stream)))
        bytes == BytesOf(ended \o Zeros((8 - (Len(ended) % 8)) % 8))
    IN  bytes \o [i \in 1 .. data_codewords(v) - Len(bytes) |->
                     IF i % 2 = 1 THEN 236 ELSE 17]

\* The blocks, of which the last are one longer if they cannot all be equal.
Longer(v) == data_codewords(v) % _VERSION_M[v].blocks
FirstAreLonger(v, b) ==
    data_codewords(v) \div _VERSION_M[v].blocks + (IF b <= Longer(v) THEN 1 ELSE 0)
BlockSize(v, b) ==
    data_codewords(v) \div _VERSION_M[v].blocks
        + (IF b > _VERSION_M[v].blocks - Longer(v) THEN 1 ELSE 0)
Blocks(v, words) ==
    LET start[b \in 1 .. _VERSION_M[v].blocks] ==
            IF b = 1 THEN 0 ELSE start[b - 1] + BlockSize(v, b - 1)
    IN  [b \in 1 .. _VERSION_M[v].blocks |->
            SubSeq(words, start[b] + 1, start[b] + BlockSize(v, b))]

\* The i-th word of every block that has one, then the next.
InSequence(blocks) == FlattenSeq(blocks)
Interleaved(blocks) ==
    LET longest == Max({Len(blocks[b]) : b \in DOMAIN blocks})
        turns == [k \in 1 .. longest * Len(blocks) |->
                     <<1 + (k - 1) \div Len(blocks), 1 + ((k - 1) % Len(blocks))>>]
        taken == SelectSeq(turns, LAMBDA t : t[1] <= Len(blocks[t[2]]))
    IN  [k \in DOMAIN taken |-> blocks[taken[k][2]][taken[k][1]]]

FinalBits(v, words) ==
    LET blocks == Blocks(v, words)
        ec == [b \in DOMAIN blocks |-> _rs_encode(blocks[b], _VERSION_M[v].ec)]
    IN  BitsOf(Interleaved(blocks) \o Interleaved(ec))

-----------------------------------------------------------------------------
\* The geometry of _place_and_mask, before the data.
Size(v) == 4 * v + 17
Cells(size) == (0 .. size - 1) \X (0 .. size - 1)
Distance(a, b) == IF a > b THEN a - b ELSE b - a
Ring(r, c, dr, dc) ==
    IF Distance(r, dr) > Distance(c, dc) THEN Distance(r, dr) ELSE Distance(c, dc)

\* place_finder at its three corners: a pattern of 7 modules and its border.
\* Rings 0, 1 and 3 around the centre are dark; cells outside are skipped.
FinderCentres(size) == {<<3, 3>>, <<3, size - 4>>, <<size - 4, 3>>}
Finder(p, size) == {k \in FinderCentres(size) : Ring(p[1], p[2], k[1], k[2]) <= 4}
FinderModule(p, k) == IF Ring(p[1], p[2], k[1], k[2]) \in {0, 1, 3} THEN 1 ELSE 0

\* _place_alignment: the tables, without the centres that lie in a corner.
AlignmentTable(v) ==
    <<{}, {6, 18}, {6, 22}, {6, 26}, {6, 30}, {6, 34},
      {6, 22, 38}, {6, 24, 42}, {6, 26, 46}, {6, 28, 50}>>[v]
InCorner(p, size) ==
    \/ p[1] <= 8 /\ (p[2] <= 8 \/ p[2] >= size - 8)
    \/ p[1] >= size - 8 /\ p[2] <= 8
AlignmentCentres ==
    Table([v \in 1 .. 10 |->
        {k \in AlignmentTable(v) \X AlignmentTable(v) : ~InCorner(k, Size(v))}])
Alignment(p, v) == {k \in AlignmentCentres[v] : Ring(p[1], p[2], k[1], k[2]) <= 2}
AlignmentModule(p, k) == IF Ring(p[1], p[2], k[1], k[2]) # 1 THEN 1 ELSE 0

\* Later patterns overwrite earlier ones, except that timing spares finders.
FunctionModule(p, v) ==
    LET size == Size(v) IN
    CASE p = <<size - 8, 8>> -> 1
      [] Alignment(p, v) # {} -> AlignmentModule(p, CHOOSE k \in Alignment(p, v) : TRUE)
      [] Finder(p, size) # {} -> FinderModule(p, CHOOSE k \in Finder(p, size) : TRUE)
      [] p[1] = 6 -> (p[2] + 1) % 2
      [] p[2] = 6 -> (p[1] + 1) % 2
      [] OTHER -> None

FormatArea_short(size) ==
    {<<8, i>> : i \in 0 .. 8} \cup {<<i, 8>> : i \in 0 .. 8}
    \cup {<<8, i>> : i \in size - 7 .. size - 1}
    \cup {<<i, 8>> : i \in size - 7 .. size - 1}
FormatArea(size) ==
    {<<8, i>> : i \in 0 .. 8} \cup {<<i, 8>> : i \in 0 .. 8}
    \cup {<<8, i>> : i \in size - 8 .. size - 1}
    \cup {<<i, 8>> : i \in size - 8 .. size - 1}

\* _place_format: the 15 bits of level M and mask 0, highest first, twice.
_FORMAT_M == 21522
FormatCells(size) ==
    LET first == <<<<8, 0>>, <<8, 1>>, <<8, 2>>, <<8, 3>>, <<8, 4>>, <<8, 5>>, <<8, 7>>,
                   <<8, 8>>, <<7, 8>>, <<5, 8>>, <<4, 8>>, <<3, 8>>, <<2, 8>>, <<1, 8>>,
                   <<0, 8>>>>
        second == [i \in 1 .. 15 |-> IF i <= 7 THEN <<size - i, 8>> ELSE <<8, size - 16 + i>>]
    IN  <<first, second>>
FormatModules(size) ==
    LET cells == FormatCells(size)[1] \o FormatCells(size)[2]
        bits == Bits(_FORMAT_M, 15) \o Bits(_FORMAT_M, 15)
    IN  [p \in {cells[i] : i \in 1 .. 30} |-> bits[CHOOSE i \in 1 .. 30 : cells[i] = p]]

=============================================================================
