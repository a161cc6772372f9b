------------------------------- MODULE Bytes -------------------------------
(***************************************************************************)
(* Strings of bytes and the little-endian integers of the byteorder        *)
(* library.  The number of values of a byte is a parameter, so that all    *)
(* strings of the lengths that matter can be enumerated.                   *)
(***************************************************************************)
EXTENDS Integers, Sequences

CONSTANTS
    Byte,    \* the number of values of a byte
    HashLen, \* the bytes of a hash and of a transaction identifier: 32
    None     \* an absent Option

ASSUME ByteAssumption == Byte \in Nat \ {0, 1} /\ HashLen \in Nat

ByteStrings(len) == [1..len -> 0..(Byte - 1)]

\* The numbers of byte strings, by their length.
Powers(len) ==
    LET power[i \in 0..len] == IF i = 0 THEN 1 ELSE Byte * power[i - 1]
    IN power

\* The numbers that fit into a number of bytes.
Numbers(len) == 0..(Powers(len)[len] - 1)

\* What is left of a number after each of its lower bytes.
Quotients(n, len) ==
    LET rest[i \in 0..len] == IF i = 0 THEN n ELSE rest[i - 1] \div Byte
    IN rest

WriteLittleEndian(n, len) == [i \in 1..len |-> Quotients(n, len)[i - 1] % Byte]

\* The values of the last bytes, by their number.
SuffixValues(bytes) ==
    LET value[i \in 0..Len(bytes)] ==
          IF i = 0 THEN 0 ELSE bytes[Len(bytes) - i + 1] + Byte * value[i - 1]
    IN value

ReadLittleEndian(bytes) == SuffixValues(bytes)[Len(bytes)]
=============================================================================
