------------------------------ MODULE MCQrCode ------------------------------
(***************************************************************************)
(* Texts at the capacity limits of the versions and of two contents: bytes *)
(* that all differ, and bytes that are all ones.  The deeplink that        *)
(* demo_08 draws has 118 bytes.                                            *)
(***************************************************************************)
EXTENDS QrCode

CONSTANT Lengths

Ramp(n) == [i \in 1 .. n |-> (37 * i) % 256]
Flat(n) == [i \in 1 .. n |-> 255]

MCTexts == {Ramp(n) : n \in Lengths} \cup {Flat(n) : n \in Lengths}
=============================================================================
