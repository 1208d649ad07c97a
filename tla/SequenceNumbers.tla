---------------------------- MODULE SequenceNumbers ----------------------------
(***************************************************************************)
(* RTP sequence numbers: unsigned integers that wrap around, compared by   *)
(* the half circle rule (jitter.py, _sequence_before; RFC 1982).  The code *)
(* has Modulus = 2^16.                                                     *)
(***************************************************************************)
EXTENDS Integers

CONSTANT Modulus

ASSUME ModulusAssumption == Modulus \in Nat /\ Modulus > 1

SequenceNumber == 0 .. Modulus - 1

\* The sequence number that packet i of a stream carries.
Wire(i) == i % Modulus

\* (b - a) & 0xFFFF: how far ahead of a the number b is.
Distance(a, b) == (b - a) % Modulus

\* Wrong: plain comparison.
PlainlyBefore(a, b) == a < b

\* a comes before b: the distance is in the first half, 1 .. 2^15 - 1.
SequenceBefore(a, b) ==
  /\ 0 < Distance(a, b)
  /\ 2 * Distance(a, b) < Modulus

\* Wrong: the number does not wrap around.
NextNumber(a) == a + 1

\* (a + 1) & 0xFFFF
Successor(a) == (a + 1) % Modulus

===============================================================================
