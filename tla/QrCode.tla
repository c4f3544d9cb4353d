------------------------------- MODULE QrCode -------------------------------
(***************************************************************************)
(* src/passkit/challenge/builder.py: build_qr_payload, from the bytes of a *)
(* text to the squares of the SVG.  One step is one phase of _qr_matrix or *)
(* _place_and_mask; the zig-zag takes one step per pair of columns.        *)
(* Rows, columns and versions are numbered as in the code.                 *)
(***************************************************************************)
EXTENDS QrEncoder, QrReader

CONSTANT Texts      \* byte sequences to draw

VARIABLES
    data,       \* the bytes of the text
    version,
    codewords,  \* the data codewords
    data_bits,  \* what is placed: data and error correction, interleaved
    matrix,     \* matrix[<<r, c>>] is 0, 1 or None
    reserved,   \* the modules that data does not use
    di, col, upward,    \* the loop that places the data
    svg,        \* the size of the image and where its dark squares are
    stage

matrixVars == <<matrix, reserved, di, col, upward>>
vars == <<data, version, codewords, data_bits, matrixVars, svg, stage>>

ModulePx == 6
Quiet == 4

-----------------------------------------------------------------------------
Init ==
    /\ data \in Texts
    /\ version = None
    /\ codewords = << >>
    /\ data_bits = << >>
    /\ matrix = << >>
    /\ reserved = {}
    /\ di = 0 /\ col = 0 /\ upward = TRUE
    /\ svg = None
    /\ stage = "text"

\* ValueError: no version is large enough.
TooLong ==
    /\ stage = "text"
    /\ Fitting(Len(data)) = {}
    /\ stage' = "refused"
    /\ UNCHANGED <<data, version, codewords, data_bits, matrixVars, svg>>

BuildCodewords ==
    /\ stage = "text"
    /\ Fitting(Len(data)) # {}
    /\ version' = _choose_version(Len(data))
    /\ codewords' = Codewords(version', data)
    /\ stage' = "codewords"
    /\ UNCHANGED <<data, data_bits, matrixVars, svg>>

AddErrorCorrection ==
    /\ stage = "codewords"
    /\ data_bits' = FinalBits(version, codewords)
    /\ stage' = "patterns"
    /\ UNCHANGED <<data, version, codewords, matrixVars, svg>>

PlacePatterns ==
    LET size == Size(version)
    IN  /\ stage = "patterns"
        /\ matrix' = [p \in Cells(size) |-> FunctionModule(p, version)]
        /\ reserved' = {p \in Cells(size) : matrix'[p] # None} \cup FormatArea(size)
        /\ di' = 0
        /\ col' = size - 1
        /\ upward' = TRUE
        /\ stage' = "placing"
        /\ UNCHANGED <<data, version, codewords, data_bits, svg>>

\* One turn of the loop `while col > 0`: two columns, right to left, take the
\* next bits; past the last bit the modules are 0.
Pair(size, right, up) ==
    [k \in 1 .. 2 * size |->
        <<IF up THEN size - 1 - (k - 1) \div 2 ELSE (k - 1) \div 2, right - ((k - 1) % 2)>>]
Open(cells) == SelectSeq(cells, LAMBDA p : p \notin reserved /\ matrix[p] = None)
Bit(i) == IF i <= Len(data_bits) THEN data_bits[i] ELSE 0
Taken(free, first) ==
    [p \in Range(free) |-> Bit(first + (CHOOSE k \in DOMAIN free : free[k] = p))]

PlaceColumns ==
    LET right == IF col = 6 THEN col - 1 ELSE col IN
    /\ stage = "placing"
    /\ col > 0
    /\ \E free \in {Open(Pair(Size(version), right, upward))} :
          /\ matrix' = Taken(free, di) @@ matrix
          /\ di' = di + Len(free)
    /\ col' = right - 2
    /\ upward' = ~upward
    /\ UNCHANGED <<data, version, codewords, data_bits, reserved, svg, stage>>

Masked(p) == (p[1] + p[2]) % 2 = 0
ApplyMask ==
    /\ stage = "placing"
    /\ col <= 0
    /\ matrix' = [p \in DOMAIN matrix |->
                     IF p \notin reserved /\ matrix[p] # None /\ Masked(p)
                     THEN 1 - matrix[p] ELSE matrix[p]]
    /\ stage' = "masked"
    /\ UNCHANGED <<data, version, codewords, data_bits, reserved, di, col, upward, svg>>

\* What is still None after that becomes 0.
PlaceFormat ==
    /\ stage = "masked"
    /\ matrix' = FormatModules(Size(version))
                     @@ [p \in DOMAIN matrix |-> IF matrix[p] = None THEN 0 ELSE matrix[p]]
    /\ stage' = "drawn"
    /\ UNCHANGED <<data, version, codewords, data_bits, reserved, di, col, upward, svg>>

\* build_qr_payload: a square of ModulePx pixels for each dark module.
Squares(grid) ==
    {<<(p[2] + Quiet) * ModulePx, (p[1] + Quiet) * ModulePx>> :
        p \in {q \in DOMAIN grid : grid[q] = 1}}

Render ==
    /\ stage = "drawn"
    /\ svg' = [size |-> (Size(version) + 2 * Quiet) * ModulePx, dark |-> Squares(matrix)]
    /\ stage' = "rendered"
    /\ UNCHANGED <<data, version, codewords, data_bits, matrixVars>>

Next ==
    \/ TooLong \/ BuildCodewords \/ AddErrorCorrection \/ PlacePatterns
    \/ PlaceColumns \/ ApplyMask \/ PlaceFormat \/ Render

Spec == Init /\ [][Next]_vars

-----------------------------------------------------------------------------
\* A scanner that follows the QR standard reads exactly the text from the
\* image, for the versions up to 6: tables, error correction, interleaving,
\* patterns, zig-zag, mask, format bits and the direction of x and y all agree.
ReadableUpTo(limit) ==
    stage = "rendered" /\ version <= limit => Scanned(svg, ModulePx, Quiet) = {data}
ReadBack == ReadableUpTo(6)

\* The docstring of build_qr_payload (builder.py 81) claims versions 1 to 10.
ReadBackAll == ReadableUpTo(10)

\* The codewords in the order in which they are placed, for every version up to
\* 10, are blocks that a scanner finds intact and whose data it reads as the
\* text, though from version 8 on the last blocks are longer than the first and
\* interleaving passes over the short ones (builder.py 215-236).
BlocksReadBack ==
    stage = "patterns" => TextOf(StreamWords(data_bits), version) = {data}

\* The data and the mask change no module of a function pattern of the standard
\* and no module that holds the format, whatever the order of drawing.
FunctionModulesKept ==
    [][/\ stage \in {"placing", "masked"} =>
             \A p \in PatternModules(version) : matrix'[p] = matrix[p] /\ matrix[p] # None
       /\ stage = "placing" =>
             \A p \in FormatModulesOf(version) : matrix[p] = matrix'[p] /\ matrix[p] = None]_vars

\* The smallest version is taken that holds mode, count and data, its data
\* codewords are filled exactly, and what is placed is as many bits as the
\* version has codewords; a text is refused only if no version holds it.
StreamFits ==
    /\ version # None =>
        /\ StreamLength(version, Len(data)) <= 8 * Len(codewords)
        /\ Len(codewords) = StandardDataCodewords[version]
        /\ version > 1 => StreamLength(version - 1, Len(data))
                             > 8 * StandardDataCodewords[version - 1]
    /\ data_bits # << >> => Len(data_bits) = 8 * StandardCodewords[version]
    /\ stage = "refused" => StreamLength(10, Len(data)) > 8 * StandardDataCodewords[10]
=============================================================================
