------------------------------- MODULE Bytes -------------------------------
(* An unsigned char, at a width of choice. *)
EXTENDS Bits

CONSTANT BYTE_BITS  \* bits of a byte (8)

ASSUME BytesAssumption == BYTE_BITS \in Nat \ {0}

BYTE_SIZE == pow2[BYTE_BITS]
Byte == 0..(BYTE_SIZE - 1)
=============================================================================
