------------------------------ MODULE QrReader ------------------------------
(***************************************************************************)
(* How a scanner that follows the QR standard (ISO/IEC 18004) reads a code *)
(* of level M and mask 0, for versions 1 to 10: what QrCode is compared    *)
(* with.  Written from the structure of the standard, not from the code:   *)
(* counts are derived from the geometry, multiplication in GF(256) is by   *)
(* repeated doubling, and error correction is checked by its syndromes.    *)
(***************************************************************************)
EXTENDS Integers, SequencesExt, Bitwise

\* The function itself, which TLC evaluates as a whole instead of value by value.
LOCAL Table(f) == CHOOSE g \in {f} : g = f

-----------------------------------------------------------------------------
Width(v) == 4 * v + 17
Grid(v) == (0 .. Width(v) - 1) \X (0 .. Width(v) - 1)

\* Function patterns: the corners with their separators, the timing row and
\* column, the alignment patterns between them, the dark module.
Corners(v) ==
    {p \in Grid(v) : \/ p[1] < 8 /\ (p[2] < 8 \/ p[2] >= Width(v) - 8)
                     \/ p[1] >= Width(v) - 8 /\ p[2] < 8}
Centres(v) ==
    LET last == 4 * v + 10
        line == CASE v = 1 -> {} [] v \in 2 .. 6 -> {6, last}
                  [] OTHER -> {6, last, (6 + last) \div 2}
    IN  (line \X line) \ Corners(v)
Alignments(v) ==
    UNION {{<<k[1] + dr, k[2] + dc>> : dr \in -2 .. 2, dc \in -2 .. 2} : k \in Centres(v)}
Timing(v) == {p \in Grid(v) \ Corners(v) : p[1] = 6 \/ p[2] = 6}
PatternModules(v) ==
    Corners(v) \cup Timing(v) \cup Alignments(v) \cup {<<Width(v) - 8, 8>>}

FormatModulesOf(v) ==
    {p \in Grid(v) \ PatternModules(v) :
        \/ p[1] = 8 /\ (p[2] <= 8 \/ p[2] >= Width(v) - 8)
        \/ p[2] = 8 /\ (p[1] <= 8 \/ p[1] >= Width(v) - 8)}

\* From version 7 on two blocks of 18 modules hold the version.
VersionModules(v) ==
    IF v < 7 THEN {}
    ELSE {p \in Grid(v) : \/ p[1] < 6 /\ p[2] \in Width(v) - 11 .. Width(v) - 9
                          \/ p[2] < 6 /\ p[1] \in Width(v) - 11 .. Width(v) - 9}

DataModules ==
    Table([v \in 1 .. 10 |->
        Grid(v) \ (PatternModules(v) \cup FormatModulesOf(v) \cup VersionModules(v))])

\* Level M: error correction words in a block, and the number of blocks.
ErrorCorrection == <<10, 16, 26, 18, 24, 16, 18, 22, 22, 26>>
BlockCount == <<1, 1, 1, 2, 2, 4, 4, 4, 5, 5>>
StandardCodewords == <<26, 44, 70, 100, 134, 172, 196, 242, 292, 346>>
StandardDataCodewords ==
    [v \in 1 .. 10 |-> StandardCodewords[v] - ErrorCorrection[v] * BlockCount[v]]

CountBits(v) == IF v < 10 THEN 8 ELSE 16
StreamLength(v, length) == 4 + CountBits(v) + 8 * length

-----------------------------------------------------------------------------
\* The order of the data modules: pairs of columns from the right, upwards and
\* downwards in turn, the timing column left out.
RightColumn(v, k) == LET c == Width(v) - 1 - 2 * k IN IF c <= 6 THEN c - 1 ELSE c
PairOrder(v, k) ==
    LET w == Width(v)
        cells == [n \in 0 .. 2 * w - 1 |->
                    <<IF k % 2 = 0 THEN w - 1 - (n \div 2) ELSE n \div 2,
                      RightColumn(v, k) - (n % 2)>>]
    IN  SelectSeq([n \in 1 .. 2 * w |-> cells[n - 1]], LAMBDA p : p \in DataModules[v])
ReadingOrder ==
    Table([v \in 1 .. 10 |->
        FlattenSeq([k \in 1 .. (Width(v) - 1) \div 2 |-> PairOrder(v, k - 1)])])

\* The codewords of a grid, its mask taken off.
Unmasked(grid, p) == IF (p[1] + p[2]) % 2 = 0 THEN 1 - grid[p] ELSE grid[p]
Packed(bits) ==
    LET value[k \in 0 .. 8] == IF k = 0 THEN 0 ELSE 2 * value[k - 1] + bits[k]
    IN  value[8]
WordAt(grid, order, i) ==
    Packed([k \in 1 .. 8 |-> Unmasked(grid, order[8 * (i - 1) + k])])
Words(grid, v) ==
    [i \in 1 .. StandardCodewords[v] |-> WordAt(grid, ReadingOrder[v], i)]

\* Where the i-th data word of block b, then its error correction words, are.
\* The last blocks have one data word more than the first.
Short(v) == StandardDataCodewords[v] \div BlockCount[v]
ShortBlocks(v) == BlockCount[v] - (StandardDataCodewords[v] % BlockCount[v])
DataLength(v, b) == Short(v) + (IF b > ShortBlocks(v) THEN 1 ELSE 0)
DataPlace(v, b, i) ==
    IF i <= Short(v) THEN (i - 1) * BlockCount[v] + b
    ELSE Short(v) * BlockCount[v] + b - ShortBlocks(v)
Block(words, v, b) ==
    [i \in 1 .. DataLength(v, b) + ErrorCorrection[v] |->
        IF i <= DataLength(v, b) THEN words[DataPlace(v, b, i)]
        ELSE words[StandardDataCodewords[v]
                      + (i - DataLength(v, b) - 1) * BlockCount[v] + b]]

\* A block is intact if its polynomial is 0 at the powers of 2.
Doubled == Table([x \in 0 .. 255 |-> IF x < 128 THEN 2 * x ELSE (2 * x - 256) ^^ 29])
TimesPower ==
    Table([i \in 0 .. 25 |->
        Table([x \in 0 .. 255 |->
            LET y[k \in 0 .. i] == IF k = 0 THEN x ELSE Doubled[y[k - 1]] IN y[i]])])
Syndrome(block, i) ==
    LET sum[k \in 0 .. Len(block)] ==
            IF k = 0 THEN 0 ELSE TimesPower[i][sum[k - 1]] ^^ block[k]
    IN  sum[Len(block)]
Intact(block, v) == \A i \in 0 .. ErrorCorrection[v] - 1 : Syndrome(block, i) = 0

\* The texts read, one or none: mode 4 and the count, then the bytes, which are
\* shifted by half a byte.
Payload(words, v) ==
    LET half(i) == IF i % 2 = 1 THEN words[(i + 1) \div 2] \div 16 ELSE words[i \div 2] % 16
        head == CountBits(v) \div 4 + 1
        count == IF head = 3 THEN 16 * half(2) + half(3)
                 ELSE 256 * (16 * half(2) + half(3)) + 16 * half(4) + half(5)
        byte(i) == 16 * half(head + 2 * i - 1) + half(head + 2 * i)
    IN  IF half(1) = 4 /\ head + 2 * count <= 2 * Len(words)
        THEN {[i \in 1 .. count |-> byte(i)]} ELSE {}

-----------------------------------------------------------------------------
\* The two copies of the format bits, high bit first; level M and mask 0 are
\* five zeros with their check bits, under the mask 21522 of the standard.
Along(v) == [i \in 1 .. 8 |-> <<8, IF i = 7 THEN 7 ELSE IF i = 8 THEN 8 ELSE i - 1>>]
FormatCopies(v) ==
    LET up == [i \in 1 .. 7 |-> <<IF i = 1 THEN 7 ELSE 7 - i, 8>>]
        low == [i \in 1 .. 7 |-> <<Width(v) - i, 8>>]
        right == [i \in 1 .. 8 |-> <<8, Width(v) - 9 + i>>]
    IN  {Along(v) \o up, low \o right}
FormatWord(grid, cells) ==
    LET word[i \in 0 .. 15] == IF i = 0 THEN 0 ELSE 2 * word[i - 1] + grid[cells[i]]
    IN  word[15]

\* Patterns a scanner looks for.
RingOf(p, k) ==
    LET dr == IF p[1] > k[1] THEN p[1] - k[1] ELSE k[1] - p[1]
        dc == IF p[2] > k[2] THEN p[2] - k[2] ELSE k[2] - p[2]
    IN  IF dr > dc THEN dr ELSE dc
FinderAt(v) == {<<3, 3>>, <<3, Width(v) - 4>>, <<Width(v) - 4, 3>>}
Located(grid, v) ==
    /\ \A k \in FinderAt(v) : \A p \in Corners(v) :
          RingOf(p, k) <= 4 => grid[p] = (IF RingOf(p, k) \in {2, 4} THEN 0 ELSE 1)
    /\ \A k \in Centres(v) : \A p \in Alignments(v) :
          RingOf(p, k) <= 2 => grid[p] = (IF RingOf(p, k) = 1 THEN 0 ELSE 1)
    /\ \A p \in Timing(v) \ Alignments(v) : grid[p] = (p[1] + p[2] + 1) % 2

\* What the codewords of a code say, if every block is intact.
TextOf(words, v) ==
    LET blocks == [b \in 1 .. BlockCount[v] |-> Block(words, v, b)]
    IN  IF \A b \in DOMAIN blocks : Intact(blocks[b], v)
        THEN Payload(FlattenSeq([b \in DOMAIN blocks |->
                                   SubSeq(blocks[b], 1, DataLength(v, b))]), v)
        ELSE {}
StreamWords(bits) ==
    [i \in 1 .. Len(bits) \div 8 |-> Packed(SubSeq(bits, 8 * i - 7, 8 * i))]

Decoded(grid, v) ==
    IF Located(grid, v) /\ \A cells \in FormatCopies(v) : FormatWord(grid, cells) = 21522
    THEN TextOf(Words(grid, v), v) ELSE {}

\* From the image: dark squares of px pixels, x to the right and y downwards,
\* inside a light border of at least four modules.
Scanned(image, px, border) ==
    LET v == (image.size \div px - 2 * border - 17) \div 4
        grid == [p \in Grid(v) |->
                      IF <<(p[2] + border) * px, (p[1] + border) * px>> \in image.dark
                      THEN 1 ELSE 0]
    IN  IF border < 4 THEN {} ELSE Decoded(grid, v)
=============================================================================
