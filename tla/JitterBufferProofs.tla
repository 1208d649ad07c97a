-------------------------- MODULE JitterBufferProofs --------------------------
(***************************************************************************)
(* Proofs about JitterBuffer, for any modulus, stream, buffer size and     *)
(* target delay.                                                           *)
(*                                                                         *)
(* The inductive invariant IInv adds to the type invariant the window      *)
(* (what is held lies less than half a circle ahead of the position, the   *)
(* only range in which the half circle rule decides), what is known before *)
(* and after playout has started, the bound, and the counting itself.      *)
(***************************************************************************)
EXTENDS JitterBuffer, FiniteSetTheorems, WellFoundedInduction, TLAPS

-----------------------------------------------------------------------------
(***************************************************************************)
(* What the half circle rule decides: it orders two packets as the stream  *)
(* does as long as they are less than half a circle apart.                 *)
(***************************************************************************)

\* A remainder taken off, or put on, one circle.
LEMMA ModuloOnce ==
  ASSUME NEW x \in Int
  PROVE  /\ x \in 0 .. Modulus - 1 => x % Modulus = x
         /\ x \in Modulus .. 2 * Modulus - 1 => x % Modulus = x - Modulus
         /\ x \in -Modulus .. -1 => x % Modulus = x + Modulus
BY ModulusAssumption, Z3

\* A remainder is what is left of a number after its whole circles.
LEMMA Remainder ==
  ASSUME NEW i \in Int
  PROVE  /\ i \div Modulus \in Int
         /\ Wire(i) \in SequenceNumber
         /\ i = Modulus * (i \div Modulus) + Wire(i)
BY ModulusAssumption, Z3 DEF Wire, SequenceNumber

\* Two packets less than a circle apart are in the same circle or in
\* neighbouring ones.
LEMMA CirclesApart ==
  ASSUME NEW p \in Int, NEW q \in Int,
         NEW r \in SequenceNumber, NEW s \in SequenceNumber,
         Modulus * p + r <= Modulus * q + s,
         (Modulus * q + s) - (Modulus * p + r) < Modulus
  PROVE  q = p \/ q = p + 1
<1> USE ModulusAssumption DEF SequenceNumber
<1> DEFINE d == q - p
<1>1. d \in Int /\ Modulus * d = Modulus * q - Modulus * p
  BY Z3
<1> HIDE DEF d
<1>2. -Modulus < Modulus * d /\ Modulus * d < 2 * Modulus
  BY <1>1, Z3
<1>3. d > -1
  BY <1>1, <1>2, Z3
<1>4. d < 2
  BY <1>1, <1>2, Z3
<1>5. d = 0 \/ d = 1
  BY <1>1, <1>3, <1>4
<1> QED
  BY <1>5 DEF d

\* The distance of two numbers is that of their packets, if the packets are
\* less than a circle apart.
LEMMA WireDistance ==
  ASSUME NEW i \in Int, NEW j \in Int, i <= j, j - i < Modulus
  PROVE  Distance(Wire(i), Wire(j)) = j - i
<1> DEFINE p == i \div Modulus
           q == j \div Modulus
<1>1. /\ p \in Int /\ Wire(i) \in SequenceNumber /\ i = Modulus * p + Wire(i)
      /\ q \in Int /\ Wire(j) \in SequenceNumber /\ j = Modulus * q + Wire(j)
  BY Remainder
<1> HIDE DEF p, q
<1>2. q = p \/ q = p + 1
  BY <1>1, CirclesApart
<1>3. CASE q = p
  <2>1. Wire(j) - Wire(i) = j - i
    BY <1>1, <1>3, ModulusAssumption, Z3 DEF SequenceNumber
  <2>2. j - i \in 0 .. Modulus - 1
    BY ModulusAssumption
  <2> QED
    BY <2>1, <2>2, ModuloOnce DEF Distance
<1>4. CASE q = p + 1
  <2>1. Modulus * q = Modulus * p + Modulus
    BY <1>1, <1>4, ModulusAssumption, Z3
  <2>2. Wire(j) - Wire(i) = (j - i) - Modulus
    BY <1>1, <2>1, ModulusAssumption, Z3 DEF SequenceNumber
  <2>3. (j - i) - Modulus \in -Modulus .. -1
    BY ModulusAssumption
  <2>4. ((j - i) - Modulus) + Modulus = j - i
    BY ModulusAssumption
  <2> QED
    BY <2>2, <2>3, <2>4, ModuloOnce DEF Distance
<1> QED
  BY <1>2, <1>3, <1>4

\* A whole circle later the number is the same.
LEMMA WirePeriod ==
  ASSUME NEW i \in Int
  PROVE  Wire(i + Modulus) = Wire(i)
<1> USE ModulusAssumption
<1> DEFINE p == i \div Modulus + 1
           q == (i + Modulus) \div Modulus
<1>1. /\ p \in Int /\ Wire(i) \in SequenceNumber
      /\ i = Modulus * (p - 1) + Wire(i)
      /\ q \in Int /\ Wire(i + Modulus) \in SequenceNumber
      /\ i + Modulus = Modulus * q + Wire(i + Modulus)
  <2>1. p - 1 = i \div Modulus
    BY Remainder
  <2> QED
    BY <2>1, Remainder
<1> HIDE DEF p, q
<1>2. Modulus * (p - 1) = Modulus * p - Modulus
  BY <1>1, Z3
<1>3. i + Modulus = Modulus * p + Wire(i)
  BY <1>1, <1>2, Z3 DEF SequenceNumber
<1>4. q = p \/ q = p + 1
  <2>1. Modulus * p + Wire(i) = Modulus * q + Wire(i + Modulus)
    BY <1>1, <1>3
  <2>2. Modulus * p + Wire(i) \in Int
    BY <1>3
  <2>3. /\ Modulus * p + Wire(i) <= Modulus * q + Wire(i + Modulus)
        /\ (Modulus * q + Wire(i + Modulus)) - (Modulus * p + Wire(i)) < Modulus
    BY <2>1, <2>2
  <2> QED
    BY <1>1, <2>3, CirclesApart
<1>5. q # p + 1
  <2> SUFFICES ASSUME q = p + 1 PROVE FALSE
    OBVIOUS
  <2>1. Modulus * q = Modulus * p + Modulus
    BY <1>1, Z3
  <2> QED
    BY <1>1, <1>3, <2>1, Z3 DEF SequenceNumber
<1>6. Modulus * q = Modulus * p
  BY <1>4, <1>5
<1> QED
  BY <1>1, <1>3, <1>6, Z3 DEF SequenceNumber

\* ... and going the other way round it is the rest of the circle.
LEMMA WireDistanceBack ==
  ASSUME NEW i \in Int, NEW j \in Int, i < j, j - i < Modulus
  PROVE  Distance(Wire(j), Wire(i)) = Modulus - (j - i)
<1>1. i + Modulus \in Int /\ j <= i + Modulus /\ (i + Modulus) - j < Modulus
  BY ModulusAssumption
<1>2. Wire(i + Modulus) = Wire(i)
  BY WirePeriod
<1>3. Distance(Wire(j), Wire(i + Modulus)) = (i + Modulus) - j
  BY <1>1, WireDistance
<1> QED
  BY <1>2, <1>3, ModulusAssumption

\* The half circle rule orders two packets as the stream does, if they are
\* less than half a circle apart (jitter.py:33).
THEOREM HalfCircleOrder ==
  ASSUME NEW i \in Int, NEW j \in Int,
         2 * (i - j) < Modulus, 2 * (j - i) < Modulus
  PROVE  SequenceBefore(Wire(i), Wire(j)) <=> i < j
<1> USE ModulusAssumption
<1>1. CASE i <= j
  <2>1. Distance(Wire(i), Wire(j)) = j - i
    BY <1>1, WireDistance
  <2> QED
    BY <1>1, <2>1 DEF SequenceBefore
<1>2. CASE j < i
  <2>1. Distance(Wire(i), Wire(j)) = Modulus - (i - j)
    BY <1>2, WireDistanceBack
  <2> QED
    BY <1>2, <2>1 DEF SequenceBefore
<1> QED
  BY <1>1, <1>2

\* Two packets less than a circle apart with the same number are the same.
LEMMA WireInjective ==
  ASSUME NEW i \in Int, NEW j \in Int, i - j < Modulus, j - i < Modulus,
         Wire(i) = Wire(j)
  PROVE  i = j
<1>1. Distance(Wire(i), Wire(j)) = 0
  BY ModulusAssumption, Z3 DEF Distance, Wire
<1>2. CASE i <= j
  BY <1>1, <1>2, WireDistance
<1>3. CASE j < i
  <2>1. Distance(Wire(j), Wire(i)) = i - j
    BY <1>3, WireDistance
  <2>2. Distance(Wire(j), Wire(i)) = Distance(Wire(i), Wire(j))
    OBVIOUS
  <2> QED
    BY <1>1, <2>1, <2>2
<1> QED
  BY <1>2, <1>3

\* The successor of a packet's number is the next packet's.
LEMMA WireSuccessor ==
  ASSUME NEW i \in Int
  PROVE  Successor(Wire(i)) = Wire(i + 1)
<1> USE ModulusAssumption
<1> DEFINE p == i \div Modulus
<1>1. p \in Int /\ Wire(i) \in SequenceNumber /\ i = Modulus * p + Wire(i)
  BY Remainder
<1>2. Wire(i + 1) \in SequenceNumber
  BY Remainder
<1>3. Distance(Wire(i), Wire(i + 1)) = 1
  BY WireDistance
<1>4. CASE Wire(i) + 1 < Modulus
  <2>1. Wire(i) + 1 \in 0 .. Modulus - 1
    BY <1>1, <1>4 DEF SequenceNumber
  <2>2. Successor(Wire(i)) = Wire(i) + 1
    BY <2>1, ModuloOnce, <1>1 DEF Successor, SequenceNumber
  <2>3. CASE Wire(i + 1) >= Wire(i)
    <3>1. Wire(i + 1) - Wire(i) \in 0 .. Modulus - 1
      BY <1>1, <1>2, <2>3 DEF SequenceNumber
    <3>2. Wire(i + 1) - Wire(i) = 1
      BY <1>3, <3>1, ModuloOnce DEF Distance
    <3> QED
      BY <1>1, <1>2, <2>2, <3>2 DEF SequenceNumber
  <2>4. CASE Wire(i + 1) < Wire(i)
    <3>1. Wire(i + 1) - Wire(i) \in -Modulus .. -1
      BY <1>1, <1>2, <2>4 DEF SequenceNumber
    <3>2. Wire(i + 1) - Wire(i) + Modulus = 1
      BY <1>3, <3>1, ModuloOnce DEF Distance
    <3> QED
      BY <1>1, <1>2, <1>4, <2>4, <3>2 DEF SequenceNumber
  <2> QED
    BY <1>1, <1>2, <2>3, <2>4 DEF SequenceNumber
<1>5. CASE Wire(i) + 1 = Modulus
  <2>1. Successor(Wire(i)) = 0
    BY <1>5, ModuloOnce DEF Successor
  <2>2. Wire(i + 1) <= Wire(i)
    BY <1>1, <1>2, <1>5 DEF SequenceNumber
  <2>3. CASE Wire(i + 1) = Wire(i)
    BY <1>3, <2>3, ModuloOnce, <1>1 DEF Distance, SequenceNumber
  <2>4. CASE Wire(i + 1) < Wire(i)
    <3>1. Wire(i + 1) - Wire(i) \in -Modulus .. -1
      BY <1>1, <1>2, <2>4 DEF SequenceNumber
    <3>2. Wire(i + 1) - Wire(i) + Modulus = 1
      BY <1>3, <3>1, ModuloOnce DEF Distance
    <3> QED
      BY <1>1, <1>2, <1>5, <2>1, <3>2 DEF SequenceNumber
  <2> QED
    BY <1>1, <1>2, <2>2, <2>3, <2>4 DEF SequenceNumber
<1> QED
  BY <1>1, <1>4, <1>5 DEF SequenceNumber

-----------------------------------------------------------------------------
\* Any set of natural numbers with an element has a smallest.
LEMMA Smallest ==
  ASSUME NEW S \in SUBSET Nat, S # {}
  PROVE  \E x \in S : \A y \in S : x <= y
<1> DEFINE R == {ss \in Nat \X Nat : ss[1] < ss[2]}
<1>1. IsWellFoundedOn(R, Nat)
  BY NatLessThanWellFounded DEF OpToRel
<1> HIDE DEF R
<1>2. PICK x \in S : \A y \in S : ~(<<y, x>> \in R)
  BY <1>1, WFMin
<1>3. \A y \in S : ~(y < x)
  BY <1>2 DEF R
<1> QED
  BY <1>3

-----------------------------------------------------------------------------
(***************************************************************************)
(* The invariant.                                                          *)
(***************************************************************************)

\* Until playout starts nothing has been released or counted; from then on the
\* packet released last lies behind the position.
Started ==
  IF playoutStarted
  THEN position \in Nat /\ first \in Nat /\ last \in Nat /\ last < position
  ELSE first = None /\ last = None /\ packetsReceived = 0 /\ packetsLost = 0

IInv == TypeOK /\ Window /\ Started /\ Bounded /\ SlotsCountedOnce

-----------------------------------------------------------------------------
\* What is stored under a number is a packet that carries it, in the window.
LEMMA HeldPacket ==
  ASSUME TypeOK, Window, NEW s \in Held
  PROVE  /\ s \in SequenceNumber
         /\ buffer[s] \in Packets /\ buffer[s] \in Nat /\ buffer[s] # None
         /\ Wire(buffer[s]) = s
         /\ position \in Nat /\ position <= buffer[s]
         /\ 2 * (buffer[s] - position) < Modulus
         /\ nextExpectedSequence = Wire(position)
BY JitterBufferAssumption DEF TypeOK, Window, Held

\* Two numbers in the buffer are ordered as their packets are.
LEMMA HeldOrder ==
  ASSUME TypeOK, Window, NEW s \in Held, NEW t \in Held
  PROVE  SequenceBefore(s, t) <=> buffer[s] < buffer[t]
<1>1. /\ buffer[s] \in Int /\ buffer[t] \in Int /\ position \in Int
      /\ position <= buffer[s] /\ 2 * (buffer[s] - position) < Modulus
      /\ position <= buffer[t] /\ 2 * (buffer[t] - position) < Modulus
      /\ Wire(buffer[s]) = s /\ Wire(buffer[t]) = t
  BY HeldPacket
<1>2. /\ 2 * (buffer[s] - buffer[t]) < Modulus
      /\ 2 * (buffer[t] - buffer[s]) < Modulus
  BY <1>1, ModulusAssumption
<1> QED
  BY <1>1, <1>2, HalfCircleOrder

\* _find_oldest_sequence_number finds the earliest packet of the stream that is
\* in the buffer, and nothing else is as early (jitter.py:222).
LEMMA OldestIsEarliest ==
  ASSUME TypeOK, Window, Held # {}
  PROVE  /\ Oldest \in Held
         /\ \A t \in Held : buffer[Oldest] <= buffer[t]
<1>1. HeldPackets \in SUBSET Nat /\ HeldPackets # {}
  BY HeldPacket DEF HeldPackets
<1>2. PICK s \in Held : \A t \in Held : buffer[s] <= buffer[t]
  <2>1. PICK x \in HeldPackets : \A y \in HeldPackets : x <= y
    BY <1>1, Smallest
  <2>2. PICK s \in Held : x = buffer[s]
    BY DEF HeldPackets
  <2>3. \A t \in Held : buffer[t] \in HeldPackets
    BY DEF HeldPackets
  <2> QED
    BY <2>1, <2>2, <2>3
<1>3. \A t \in Held : ~SequenceBefore(t, s)
  BY <1>2, HeldOrder, HeldPacket
<1>4. Oldest \in Held /\ \A t \in Held : ~SequenceBefore(t, Oldest)
  BY <1>3 DEF Oldest
<1> QED
  BY <1>4, HeldOrder, HeldPacket

\* The buffer is finite.
LEMMA HeldFinite == IsFiniteSet(Held) /\ Cardinality(Held) \in Nat
<1>1. IsFiniteSet(SequenceNumber)
  BY FS_Interval, ModulusAssumption DEF SequenceNumber
<1>2. Held \in SUBSET SequenceNumber
  BY DEF Held
<1> QED
  BY <1>1, <1>2, FS_Subset, FS_CardinalityType

\* Once playout has started, late means behind the position (jitter.py:118).
LEMMA LateIsBehind ==
  ASSUME IInv, NEW i \in Packets, Near(i), position # None
  PROVE  /\ i \in Nat /\ position \in Nat
         /\ SequenceBefore(Wire(i), nextExpectedSequence) <=> i < position
<1>1. i \in Nat /\ position \in Nat /\ nextExpectedSequence = Wire(position)
  BY JitterBufferAssumption DEF IInv, TypeOK, Window
<1>2. 2 * (i - position) < Modulus /\ 2 * (position - i) < Modulus
  BY <1>1, JitterBufferAssumption DEF Near
<1> QED
  BY <1>1, <1>2, HalfCircleOrder

\* The position after an arrival: that of the packet, if it is the first or
\* earlier than all that came before playout; otherwise the old one.
LEMMA AnchorMoves ==
  ASSUME IInv, NEW i \in Packets, Near(i), Anchor(i)
  PROVE  /\ i \in Nat /\ position' \in Nat
         /\ nextExpectedSequence' = Wire(position')
         /\ position' = IF position = None \/ (~playoutStarted /\ i < position)
                        THEN i ELSE position
<1>1. i \in Nat
  BY JitterBufferAssumption
<1>2. CASE position = None
  BY <1>1, <1>2 DEF Anchor, IInv, Window
<1>3. CASE position # None
  <2>1. nextExpectedSequence # None /\ nextExpectedSequence = Wire(position)
    <3>1. position \in Nat /\ nextExpectedSequence = Wire(position)
      BY <1>3 DEF IInv, TypeOK, Window
    <3>2. Wire(position) \in Nat
      BY <3>1, Remainder, ModulusAssumption DEF SequenceNumber
    <3> QED
      BY <3>1, <3>2, JitterBufferAssumption
  <2>2. /\ position \in Nat
        /\ SequenceBefore(Wire(i), nextExpectedSequence) <=> i < position
    BY <1>3, LateIsBehind
  <2> QED
    BY <1>1, <1>3, <2>1, <2>2 DEF Anchor
<1> QED
  BY <1>2, <1>3

-----------------------------------------------------------------------------
(***************************************************************************)
(* put().                                                                  *)
(***************************************************************************)

\* What an arriving packet that is not late finds: it lies in the window of the
\* position it leaves behind, with everything that is held.
LEMMA ArrivalInWindow ==
  ASSUME IInv, NEW i \in Packets, Near(i), Anchor(i), ~IsLate(i)
  PROVE  /\ position' <= i /\ 2 * (i - position') < Modulus
         /\ \A s \in Held : /\ position' <= buffer[s]
                            /\ 2 * (buffer[s] - position') < Modulus
<1>1. /\ i \in Nat /\ position' \in Nat
      /\ position' = IF position = None \/ (~playoutStarted /\ i < position)
                     THEN i ELSE position
  BY AnchorMoves
<1>2. \A s \in Held : /\ buffer[s] \in Nat /\ position \in Nat
                      /\ position <= buffer[s]
                      /\ 2 * (buffer[s] - position) < Modulus
  BY HeldPacket DEF IInv
<1>3. CASE position = None \/ (~playoutStarted /\ i < position)
  <2>1. position' = i
    BY <1>1, <1>3
  <2>2. ASSUME NEW s \in Held
        PROVE  i <= buffer[s] /\ 2 * (buffer[s] - i) < Modulus
    <3>1. position \in Nat /\ position # None /\ i < position
      BY <1>2, <1>3, JitterBufferAssumption
    <3>2. buffer[s] \in HeldPackets
      BY DEF HeldPackets
    <3> QED
      BY <1>1, <1>2, <3>1, <3>2 DEF Near
  <2> QED
    BY <1>1, <2>1, <2>2, ModulusAssumption
<1>4. CASE ~(position = None \/ (~playoutStarted /\ i < position))
  <2>1. position' = position /\ position # None
    BY <1>1, <1>4
  <2>2. ~(i < position)
    BY <1>4, <2>1, LateIsBehind DEF IsLate
  <2>3. 2 * (i - position) < Modulus
    BY <2>1 DEF Near
  <2> QED
    BY <1>1, <1>2, <2>1, <2>2, <2>3
<1> QED
  BY <1>3, <1>4

\* A packet that is put under its number: what is in the buffer afterwards.
LEMMA PutHeldBuffer ==
  ASSUME IInv, NEW i \in Packets, PutHeld(i)
  PROVE  /\ Held' \subseteq Held \cup {Wire(i)}
         /\ buffer' \in [SequenceNumber -> Packets \cup {None}]
         /\ buffer'[Wire(i)] = i
         /\ \A s \in Held' : s # Wire(i) => buffer'[s] = buffer[s]
         /\ Cardinality(Held') <= MaxBufferSize
<1>1. i \in Nat /\ Wire(i) \in SequenceNumber /\ i # None
  BY JitterBufferAssumption, Remainder
<1>2. Wire(i) \notin Held /\ buffer \in [SequenceNumber -> Packets \cup {None}]
  BY DEF PutHeld, IInv, TypeOK
<1>3. IsFiniteSet(Held) /\ Cardinality(Held) \in Nat
  BY HeldFinite
<1>4. CASE Full
  <2>1. Held # {}
    BY <1>4, FS_EmptySet, JitterBufferAssumption DEF Full
  <2>2. Oldest \in Held /\ Oldest \in SequenceNumber
    BY <2>1, OldestIsEarliest, HeldPacket DEF IInv
  <2>3. buffer' = [Without(Oldest) EXCEPT ![Wire(i)] = i]
    BY <1>4 DEF PutHeld
  <2>4. Held' = (Held \ {Oldest}) \cup {Wire(i)}
    BY <1>1, <1>2, <2>2, <2>3 DEF Held, Without
  <2>5. Cardinality(Held') = Cardinality(Held)
    <3>1. /\ IsFiniteSet(Held \ {Oldest})
          /\ Cardinality(Held \ {Oldest}) = Cardinality(Held) - 1
      BY <1>3, <2>2, FS_RemoveElement
    <3>2. Cardinality((Held \ {Oldest}) \cup {Wire(i)})
            = Cardinality(Held \ {Oldest}) + 1
      BY <1>2, <3>1, FS_AddElement
    <3> QED
      BY <1>3, <2>4, <3>1, <3>2
  <2>6. Cardinality(Held') <= MaxBufferSize
    BY <2>5 DEF IInv, Bounded
  <2>7. \A t \in SequenceNumber : buffer'[t] = IF t = Wire(i) THEN i
                                               ELSE IF t = Oldest THEN None
                                               ELSE buffer[t]
    BY <1>1, <1>2, <2>2, <2>3 DEF Without
  <2>8. buffer' \in [SequenceNumber -> Packets \cup {None}]
    BY <1>1, <1>2, <2>2, <2>3 DEF Without
  <2>9. \A t \in Held' : t \in SequenceNumber /\ buffer'[t] # None
    BY DEF Held
  <2>10. \A t \in Held' : t # Wire(i) => buffer'[t] = buffer[t]
    BY <2>7, <2>9
  <2> QED
    BY <1>1, <2>4, <2>6, <2>7, <2>8, <2>10
<1>5. CASE ~Full
  <2>1. buffer' = [buffer EXCEPT ![Wire(i)] = i]
    BY <1>5 DEF PutHeld
  <2>2. Held' = Held \cup {Wire(i)}
    BY <1>1, <1>2, <2>1 DEF Held
  <2>3. Cardinality(Held') = Cardinality(Held) + 1
    BY <1>2, <1>3, <2>2, FS_AddElement
  <2>4. Cardinality(Held') <= MaxBufferSize
    BY <1>3, <1>5, <2>3, JitterBufferAssumption DEF Full
  <2> QED
    BY <1>1, <1>2, <2>1, <2>2, <2>4
<1> QED
  BY <1>4, <1>5

LEMMA PutInvariance ==
  ASSUME IInv, NEW i \in Packets, Put(i)
  PROVE  IInv'
<1> USE DEF IInv
<1>1. /\ i \in Nat /\ position' \in Nat /\ nextExpectedSequence' = Wire(position')
      /\ position' = IF position = None \/ (~playoutStarted /\ i < position)
                     THEN i ELSE position
  BY AnchorMoves DEF Put
<1>2. /\ Wire(i) \in SequenceNumber /\ Wire(position') \in SequenceNumber
      /\ position' # None
  BY <1>1, Remainder, JitterBufferAssumption
<1>3. /\ arrived' \subseteq Packets /\ copies' \in 0 .. MaxCopies
      /\ UNCHANGED <<playoutStarted, packetsReceived, packetsLost, first, last>>
  BY JitterBufferAssumption DEF Put, Arrives, TypeOK
<1>4. Started' /\ SlotsCountedOnce'
  BY <1>1, <1>3, JitterBufferAssumption DEF Started, SlotsCountedOnce
<1>5. CASE PutLate(i)
  <2>1. UNCHANGED <<buffer, age>> /\ packetsLate' \in Nat
    BY <1>5 DEF PutLate, store, TypeOK
  <2>2. position' = position
    BY <1>1, <1>5, JitterBufferAssumption DEF PutLate, IsLate, Started
  <2>3. TypeOK'
    BY <1>1, <1>2, <1>3, <2>1 DEF TypeOK
  <2>4. Window' /\ Bounded'
    BY <1>1, <1>2, <2>1, <2>2 DEF Window, Bounded, Held
  <2> QED
    BY <1>4, <2>3, <2>4
<1>6. CASE PutDuplicate(i)
  <2>1. UNCHANGED <<buffer, age>> /\ packetsLate' = packetsLate
    BY <1>6 DEF PutDuplicate, store
  <2>2. TypeOK'
    BY <1>1, <1>2, <1>3, <2>1 DEF TypeOK
  <2>3. \A s \in Held : /\ position' <= buffer[s]
                        /\ 2 * (buffer[s] - position') < Modulus
    BY <1>6, ArrivalInWindow DEF PutDuplicate, Put
  <2>4. Window' /\ Bounded'
    BY <1>1, <1>2, <2>1, <2>3 DEF Window, Bounded, Held
  <2> QED
    BY <1>4, <2>2, <2>4
<1>7. CASE PutHeld(i)
  <2>1. /\ Held' \subseteq Held \cup {Wire(i)}
        /\ buffer' \in [SequenceNumber -> Packets \cup {None}]
        /\ buffer'[Wire(i)] = i
        /\ \A s \in Held' : s # Wire(i) => buffer'[s] = buffer[s]
        /\ Cardinality(Held') <= MaxBufferSize
    BY <1>7, PutHeldBuffer
  <2>2. age' \in [SequenceNumber -> 0 .. TargetDelay] /\ packetsLate' = packetsLate
    <3>1. age \in [SequenceNumber -> 0 .. TargetDelay] /\ 0 \in 0 .. TargetDelay
      BY JitterBufferAssumption DEF TypeOK
    <3> QED
      BY <1>7, <3>1 DEF PutHeld
  <2>3. TypeOK'
    BY <1>1, <1>2, <1>3, <2>1, <2>2 DEF TypeOK
  <2>4. /\ position' <= i /\ 2 * (i - position') < Modulus
        /\ \A s \in Held : /\ position' <= buffer[s]
                           /\ 2 * (buffer[s] - position') < Modulus
    BY <1>7, ArrivalInWindow DEF PutHeld, Put
  <2>5. \A s \in Held : Wire(buffer[s]) = s
    BY DEF Window
  <2>6. Window'
    BY <1>1, <1>2, <2>1, <2>4, <2>5 DEF Window
  <2> QED
    BY <1>4, <2>1, <2>3, <2>6 DEF Bounded
<1> QED
  BY <1>5, <1>6, <1>7 DEF Put

-----------------------------------------------------------------------------
(***************************************************************************)
(* get().                                                                  *)
(***************************************************************************)

\* The position and the next number after a release are those of the packet
\* after the one released, and nothing behind them is held.
LEMMA ReleaseInWindow ==
  ASSUME IInv, NEW s \in Held, \A t \in Held : buffer[s] <= buffer[t], Release(s)
  PROVE  /\ position' = buffer[s] + 1 /\ position' \in Nat
         /\ last' = buffer[s] /\ last' \in Nat
         /\ buffer' \in [SequenceNumber -> Packets \cup {None}]
         /\ Held' = Held \ {s}
         /\ \A t \in Held' : buffer'[t] = buffer[t] /\ buffer[s] < buffer[t]
         /\ Window'
<1>1. /\ s \in SequenceNumber /\ buffer[s] \in Nat /\ Wire(buffer[s]) = s
      /\ position \in Nat /\ position <= buffer[s]
      /\ nextExpectedSequence = Wire(position)
  BY HeldPacket DEF IInv
<1>2. /\ position' = buffer[s] + 1 /\ position' \in Nat
      /\ last' = buffer[s] /\ last' \in Nat
      /\ buffer' = [buffer EXCEPT ![s] = None]
  BY <1>1 DEF Release, Without
<1>3. buffer \in [SequenceNumber -> Packets \cup {None}]
  BY DEF IInv, TypeOK
<1>4. /\ buffer' \in [SequenceNumber -> Packets \cup {None}]
      /\ Held' = Held \ {s}
      /\ \A t \in Held' : buffer'[t] = buffer[t]
  BY <1>1, <1>2, <1>3 DEF Held
<1>5. \A t \in Held' : /\ t \in SequenceNumber /\ buffer[t] \in Nat
                       /\ Wire(buffer[t]) = t /\ t # s
                       /\ 2 * (buffer[t] - position) < Modulus
                       /\ buffer[s] <= buffer[t]
  BY <1>4, HeldPacket DEF IInv
<1>6. \A t \in Held' : buffer[s] < buffer[t]
  BY <1>1, <1>5
<1>7. nextExpectedSequence' = Wire(position')
  BY <1>1, <1>2, WireSuccessor DEF Release
<1>8. Window'
  BY <1>1, <1>2, <1>4, <1>5, <1>6, <1>7, ModulusAssumption, JitterBufferAssumption
     DEF Window
<1> QED
  BY <1>2, <1>4, <1>6, <1>8

\* A call of get() that returns a packet releases the earliest one that is held,
\* and counts the positions between the expected one and it as lost.
LEMMA GetReleases ==
  ASSUME IInv, Get
  PROVE  \E s \in Held : /\ \A t \in Held : buffer[s] <= buffer[t]
                         /\ Release(s)
                         /\ age[s] >= TargetDelay
                         /\ packetsLost' = packetsLost + (buffer[s] - position)
<1> USE DEF IInv
<1>1. CASE GetExpected
  <2> DEFINE s == nextExpectedSequence
  <2>1. s \in Held
    BY <1>1 DEF GetExpected
  <2>2. /\ buffer[s] \in Nat /\ position \in Nat /\ s = Wire(position)
        /\ Wire(buffer[s]) = s
        /\ position <= buffer[s] /\ 2 * (buffer[s] - position) < Modulus
    BY <2>1, HeldPacket
  <2>3. position - buffer[s] < Modulus /\ buffer[s] - position < Modulus
    BY <2>2, ModulusAssumption
  <2>4. buffer[s] = position
    BY <2>2, <2>3, WireInjective
  <2>5. \A t \in Held : buffer[s] <= buffer[t]
    BY <2>4, HeldPacket
  <2>6. packetsLost' = packetsLost + (buffer[s] - position)
    BY <1>1, <2>2, <2>4 DEF GetExpected, TypeOK
  <2>7. Release(s) /\ age[s] >= TargetDelay
    BY <1>1 DEF GetExpected
  <2> QED
    BY <2>1, <2>5, <2>6, <2>7
<1>2. CASE GetSkipping
  <2>1. Oldest \in Held /\ \A t \in Held : buffer[Oldest] <= buffer[t]
    BY <1>2, OldestIsEarliest DEF GetSkipping
  <2>2. /\ buffer[Oldest] \in Nat /\ Wire(buffer[Oldest]) = Oldest
        /\ position \in Nat /\ position <= buffer[Oldest]
        /\ 2 * (buffer[Oldest] - position) < Modulus
        /\ nextExpectedSequence = Wire(position)
    BY <2>1, HeldPacket
  <2>3. buffer[Oldest] - position < Modulus
    BY <2>2, ModulusAssumption
  <2>4. Distance(nextExpectedSequence, Oldest) = buffer[Oldest] - position
    BY <2>2, <2>3, WireDistance
  <2> QED
    BY <1>2, <2>1, <2>4 DEF GetSkipping
<1> QED
  BY <1>1, <1>2 DEF Get

LEMMA GetInvariance ==
  ASSUME IInv, Get
  PROVE  IInv'
<1> USE DEF IInv
<1>1. PICK s \in Held : /\ \A t \in Held : buffer[s] <= buffer[t]
                        /\ Release(s)
                        /\ packetsLost' = packetsLost + (buffer[s] - position)
  BY GetReleases
<1>2. /\ position' = buffer[s] + 1 /\ position' \in Nat
      /\ last' = buffer[s] /\ last' \in Nat
      /\ buffer' \in [SequenceNumber -> Packets \cup {None}]
      /\ Held' = Held \ {s}
      /\ Window'
  BY <1>1, ReleaseInWindow
<1>3. /\ s \in SequenceNumber /\ buffer[s] \in Nat
      /\ position \in Nat /\ position <= buffer[s]
  BY HeldPacket
<1>4. /\ playoutStarted' = TRUE
      /\ packetsReceived' = packetsReceived + 1
      /\ packetsReceived \in Nat /\ packetsLost \in Nat
      /\ packetsReceived' \in Nat /\ packetsLost' \in Nat
      /\ first' = IF playoutStarted THEN first ELSE position
  BY <1>1, <1>3 DEF Release, TypeOK
<1>5. TypeOK'
  <2>1. nextExpectedSequence' \in SequenceNumber
    BY <1>1, <1>3, ModulusAssumption DEF Release, Successor, SequenceNumber
  <2>2. age' \in [SequenceNumber -> 0 .. TargetDelay]
    <3>1. age \in [SequenceNumber -> 0 .. TargetDelay] /\ 0 \in 0 .. TargetDelay
      BY JitterBufferAssumption DEF TypeOK
    <3>2. age' = [age EXCEPT ![s] = 0]
      BY <1>1 DEF Release
    <3> QED
      BY <3>1, <3>2
  <2>3. first' \in Nat \cup {None}
    BY <1>3, <1>4 DEF TypeOK
  <2>4. UNCHANGED <<packetsLate, arrived, copies>>
    BY <1>1 DEF Release
  <2> QED
    BY <1>2, <1>4, <2>1, <2>2, <2>3, <2>4 DEF TypeOK
<1>6. Started'
  BY <1>2, <1>3, <1>4 DEF Started
<1>7. SlotsCountedOnce'
  BY <1>1, <1>2, <1>3, <1>4 DEF SlotsCountedOnce, Started
<1>8. Bounded'
  <2>1. Cardinality(Held') = Cardinality(Held) - 1 /\ Cardinality(Held) \in Nat
    BY <1>2, HeldFinite, FS_RemoveElement
  <2> QED
    BY <2>1, JitterBufferAssumption DEF Bounded
<1> QED
  BY <1>2, <1>5, <1>6, <1>7, <1>8

LEMMA TickInvariance ==
  ASSUME IInv, Tick
  PROVE  IInv'
<1>1. UNCHANGED <<buffer, nextExpectedSequence, playoutStarted, counters, history>>
  BY DEF Tick
<1>2. age' \in [SequenceNumber -> 0 .. TargetDelay]
  BY JitterBufferAssumption DEF Tick, IInv, TypeOK
<1> QED
  BY <1>1, <1>2
     DEF IInv, TypeOK, Window, Started, Bounded, SlotsCountedOnce, Held,
         counters, history

-----------------------------------------------------------------------------
(***************************************************************************)
(* The theorems.                                                           *)
(***************************************************************************)

LEMMA InitInvariance == Init => IInv
<1> SUFFICES ASSUME Init PROVE IInv
  OBVIOUS
<1>1. Held = {}
  BY DEF Init, Held
<1>2. TypeOK
  <2>1. 0 \in 0 .. TargetDelay /\ 0 \in 0 .. MaxCopies
    BY JitterBufferAssumption
  <2>2. /\ buffer \in [SequenceNumber -> Packets \cup {None}]
        /\ age \in [SequenceNumber -> 0 .. TargetDelay]
    BY <2>1 DEF Init
  <2> QED
    BY <2>1, <2>2 DEF Init, TypeOK
<1>3. Bounded
  BY <1>1, FS_EmptySet, JitterBufferAssumption DEF Bounded
<1>4. Window /\ Started /\ SlotsCountedOnce
  BY <1>1 DEF Init, Window, Started, SlotsCountedOnce
<1> QED
  BY <1>2, <1>3, <1>4 DEF IInv

LEMMA NextInvariance == IInv /\ [Next]_vars => IInv'
<1> SUFFICES ASSUME IInv, [Next]_vars PROVE IInv'
  OBVIOUS
<1>1. CASE Get
  BY <1>1, GetInvariance
<1>2. CASE Tick
  BY <1>2, TickInvariance
<1>3. CASE \E i \in Packets : Put(i)
  BY <1>3, PutInvariance
<1>4. CASE UNCHANGED vars
  BY <1>4 DEF vars, store, counters, history, IInv, TypeOK, Window, Started,
              Bounded, SlotsCountedOnce, Held
<1> QED
  BY <1>1, <1>2, <1>3, <1>4 DEF Next

\* The strengthened invariant holds in every reachable state.
THEOREM Invariance == Spec => []IInv
  BY InitInvariance, NextInvariance, PTL DEF Spec

\* The buffer's variables keep their types: no number leaves the 16 bits, no
\* counter goes negative (jitter.py:59-81).
THEOREM TypeCorrectness == Spec => []TypeOK
<1>1. IInv => TypeOK
  BY DEF IInv
<1> QED
  BY <1>1, Invariance, PTL

\* A number in the buffer is never taken for another packet's, and nothing that
\* playout has passed is still held, for any wrap-around (jitter.py:22-34, 118).
THEOREM NumbersStandForPackets == Spec => []Window
<1>1. IInv => Window
  BY DEF IInv
<1> QED
  BY <1>1, Invariance, PTL

\* The buffer never outgrows max_buffer_size (jitter.py:130).
THEOREM NeverOverFull == Spec => []Bounded
<1>1. IInv => Bounded
  BY DEF IInv
<1> QED
  BY <1>1, Invariance, PTL

\* Received and lost add up to the positions passed, whatever is evicted, late,
\* duplicated or skipped (jitter.py:86-90, 180-181).
THEOREM Accounting == Spec => []SlotsCountedOnce
<1>1. IInv => SlotsCountedOnce
  BY DEF IInv
<1> QED
  BY <1>1, Invariance, PTL

\* Packets leave the buffer in stream order, each at most once, across the wrap
\* of the numbers (jitter.py:41, 200).
THEOREM StreamOrder == Spec => InOrder
<1> DEFINE Later == last' # last => last = None \/ last < last'
<1>1. IInv /\ [Next]_vars => [Later]_last
  <2> SUFFICES ASSUME IInv, Next PROVE Later
    BY DEF vars, history
  <2>1. CASE Get
    <3>1. PICK s \in Held : /\ \A t \in Held : buffer[s] <= buffer[t]
                            /\ Release(s)
      BY <2>1, GetReleases
    <3>2. last' = buffer[s]
      BY <3>1 DEF Release
    <3>3. buffer[s] \in Nat /\ position \in Nat /\ position <= buffer[s]
      BY HeldPacket DEF IInv
    <3> QED
      BY <3>2, <3>3 DEF IInv, Started
  <2>2. CASE Tick
    BY <2>2 DEF Tick, history
  <2>3. CASE \E i \in Packets : Put(i)
    BY <2>3 DEF Put
  <2> QED
    BY <2>1, <2>2, <2>3 DEF Next
<1> QED
  BY <1>1, Invariance, PTL DEF Spec, InOrder

-----------------------------------------------------------------------------
(***************************************************************************)
(* JitterBuffer, which sees sequence numbers, implements PlayoutBuffer,    *)
(* which sees the positions of the stream: what the buffer holds is what   *)
(* the abstract buffer holds, as many and the same one first.              *)
(***************************************************************************)

\* The refinement mapping of JitterBuffer.
Pending == [p \in Packets |->
              IF buffer[Wire(p)] = p THEN age[Wire(p)] ELSE None]

-----------------------------------------------------------------------------
\* A packet is pending exactly when it is stored under its number.
LEMMA PendingHeld ==
  ASSUME IInv
  PROVE  /\ Playout!Held = HeldPackets
         /\ \A p \in Packets : /\ Wire(p) \in SequenceNumber
                               /\ p \in Playout!Held <=> buffer[Wire(p)] = p
<1>1. \A p \in Packets : /\ Wire(p) \in SequenceNumber
                         /\ p \in Playout!Held <=> buffer[Wire(p)] = p
  <2> SUFFICES ASSUME NEW p \in Packets
               PROVE  /\ Wire(p) \in SequenceNumber
                      /\ p \in Playout!Held <=> buffer[Wire(p)] = p
    OBVIOUS
  <2>1. Wire(p) \in SequenceNumber
    BY Remainder, JitterBufferAssumption
  <2>2. age[Wire(p)] # None
    BY <2>1, JitterBufferAssumption DEF IInv, TypeOK
  <2> QED
    BY <2>1, <2>2 DEF Playout!Held
<1>2. HeldPackets \subseteq Playout!Held
  BY <1>1, HeldPacket DEF HeldPackets, IInv
<1>3. ASSUME NEW p \in Playout!Held PROVE p \in HeldPackets
  <2>1. p \in Packets /\ p # None
    BY JitterBufferAssumption DEF Playout!Held
  <2>2. Wire(p) \in Held /\ buffer[Wire(p)] = p
    BY <1>1, <2>1 DEF Held
  <2> QED
    BY <2>2 DEF HeldPackets
<1> QED
  BY <1>1, <1>2, <1>3

\* The two modules count alike.
LEMMA SameCardinality ==
  ASSUME NEW S PROVE Playout!Cardinality(S) = Cardinality(S)
BY DEF Playout!Cardinality, Cardinality

\* As many packets are pending as there are numbers in the buffer.
LEMMA PendingCount ==
  ASSUME IInv
  PROVE  Cardinality(Playout!Held) = Cardinality(Held)
<1> DEFINE f == [s \in Held |-> buffer[s]]
<1>1. f \in Injection(Held, HeldPackets)
  <2>1. \A s \in Held : Wire(buffer[s]) = s
    BY HeldPacket DEF IInv
  <2> QED
    BY <2>1 DEF Injection, IsInjective, HeldPackets
<1>2. f \in Surjection(Held, HeldPackets)
  BY DEF Surjection, HeldPackets
<1>3. Cardinality(HeldPackets) = Cardinality(Held)
  BY <1>1, <1>2, HeldFinite, FS_Bijection DEF Bijection, ExistsBijection
<1> QED
  BY <1>3, PendingHeld

\* The earliest pending packet is the one the code finds.
LEMMA EarliestIsSmallest ==
  ASSUME IInv, NEW s \in Held, \A t \in Held : buffer[s] <= buffer[t]
  PROVE  Playout!Earliest = buffer[s]
<1>1. Playout!Held = HeldPackets /\ HeldPackets \subseteq Nat
  BY PendingHeld, HeldPacket DEF HeldPackets, IInv
<1>2. buffer[s] \in HeldPackets /\ \A q \in HeldPackets : buffer[s] <= q
  BY DEF HeldPackets
<1> DEFINE p == Playout!Earliest
<1>3. p \in HeldPackets /\ \A q \in HeldPackets : p <= q
  BY <1>1, <1>2 DEF Playout!Earliest
<1> HIDE DEF p
<1>4. p <= buffer[s] /\ buffer[s] <= p
  BY <1>2, <1>3
<1>5. p \in Nat /\ buffer[s] \in Nat
  BY <1>1, <1>2, <1>3
<1> QED
  BY <1>4, <1>5 DEF p

-----------------------------------------------------------------------------
\* An arriving packet's number is in the buffer only if the packet is.
LEMMA DuplicateIsHeld ==
  ASSUME IInv, NEW i \in Packets, Near(i)
  PROVE  Wire(i) \in Held <=> i \in Playout!Held
<1>1. i \in Nat /\ i # None
  BY JitterBufferAssumption
<1>2. ASSUME Wire(i) \in Held PROVE buffer[Wire(i)] = i
  <2> DEFINE j == buffer[Wire(i)]
  <2>1. j \in Nat /\ Wire(j) = Wire(i)
    BY <1>2, HeldPacket DEF IInv
  <2>2. j \in HeldPackets
    BY <1>2 DEF HeldPackets
  <2>3. 2 * (i - j) < Modulus /\ 2 * (j - i) < Modulus
    BY <2>2 DEF Near
  <2> HIDE DEF j
  <2>4. i - j < Modulus /\ j - i < Modulus
    BY <1>1, <2>1, <2>3, ModulusAssumption
  <2>5. i = j
    BY <1>1, <2>1, <2>4, WireInjective
  <2> QED
    BY <2>5 DEF j
<1>3. ASSUME buffer[Wire(i)] = i PROVE Wire(i) \in Held
  BY <1>1, <1>3, PendingHeld DEF Held
<1> QED
  BY <1>2, <1>3, PendingHeld

\* Storing a packet under its number makes it pending, and only it; evicting the
\* oldest ends the wait of the earliest, and only of it.
LEMMA PutHeldPending ==
  ASSUME IInv, NEW i \in Packets, Near(i), PutHeld(i)
  PROVE  Pending' = IF Full
                    THEN [Pending EXCEPT ![Playout!Earliest] = None, ![i] = 0]
                    ELSE [Pending EXCEPT ![i] = 0]
<1>1. \A p \in Packets : Wire(p) \in SequenceNumber /\ p \in Nat /\ p # None
  BY PendingHeld, JitterBufferAssumption
<1>2. Wire(i) \notin Held /\ buffer[Wire(i)] = None
  BY <1>1 DEF PutHeld, Held
<1>3. /\ buffer \in [SequenceNumber -> Packets \cup {None}]
      /\ age \in [SequenceNumber -> 0 .. TargetDelay]
  BY DEF IInv, TypeOK
<1>4. CASE Full
  <2>1. Held # {}
    BY <1>4, FS_EmptySet, JitterBufferAssumption DEF Full
  <2>2. Oldest \in Held /\ \A t \in Held : buffer[Oldest] <= buffer[t]
    BY <2>1, OldestIsEarliest DEF IInv
  <2> DEFINE o == Oldest
             e == Playout!Earliest
  <2>3. e = buffer[o] /\ Wire(e) = o /\ o \in SequenceNumber /\ e # None
    BY <2>2, EarliestIsSmallest, HeldPacket DEF IInv
  <2>4. o # Wire(i) /\ e # i
    BY <1>2, <2>2, <2>3
  <2>5. \A t \in SequenceNumber :
          /\ buffer'[t] = IF t = Wire(i) THEN i ELSE IF t = o THEN None ELSE buffer[t]
          /\ age'[t] = IF t = Wire(i) \/ t = o THEN 0 ELSE age[t]
    BY <1>1, <1>3, <1>4, <2>3 DEF PutHeld, Without
  <2> HIDE DEF o, e
  <2>6. ASSUME NEW p \in Packets
        PROVE  Pending'[p] = IF p = i THEN 0 ELSE IF p = e THEN None ELSE Pending[p]
    <3>1. Pending[p] = IF buffer[Wire(p)] = p THEN age[Wire(p)] ELSE None
      BY DEF Pending
    <3>2. Pending'[p] = IF buffer'[Wire(p)] = p THEN age'[Wire(p)] ELSE None
      BY DEF Pending
    <3>3. CASE Wire(p) = Wire(i)
      BY <1>1, <1>2, <2>5, <3>1, <3>2, <3>3
    <3>4. CASE Wire(p) # Wire(i) /\ Wire(p) = o
      BY <1>1, <2>3, <2>5, <3>1, <3>2, <3>4
    <3>5. CASE Wire(p) # Wire(i) /\ Wire(p) # o
      BY <1>1, <2>3, <2>5, <3>1, <3>2, <3>5
    <3> QED
      BY <3>3, <3>4, <3>5
  <2>7. Pending' = [Pending EXCEPT ![e] = None, ![i] = 0]
    BY <2>4, <2>6 DEF Pending
  <2> QED
    BY <1>4, <2>7 DEF e
<1>5. CASE ~Full
  <2>1. \A t \in SequenceNumber :
          /\ buffer'[t] = IF t = Wire(i) THEN i ELSE buffer[t]
          /\ age'[t] = IF t = Wire(i) THEN 0 ELSE age[t]
    BY <1>1, <1>3, <1>5 DEF PutHeld
  <2>2. ASSUME NEW p \in Packets
        PROVE  Pending'[p] = IF p = i THEN 0 ELSE Pending[p]
    <3>1. Pending[p] = IF buffer[Wire(p)] = p THEN age[Wire(p)] ELSE None
      BY DEF Pending
    <3>2. Pending'[p] = IF buffer'[Wire(p)] = p THEN age'[Wire(p)] ELSE None
      BY DEF Pending
    <3> QED
      BY <1>1, <1>2, <2>1, <3>1, <3>2
  <2>3. Pending' = [Pending EXCEPT ![i] = 0]
    BY <2>2 DEF Pending
  <2> QED
    BY <1>5, <2>3
<1> QED
  BY <1>4, <1>5

\* An arrival is an arrival.
LEMMA PutImplements ==
  ASSUME IInv, NEW i \in Packets, Put(i)
  PROVE  Playout!Put(i)
<1>1. /\ Near(i) /\ Anchor(i)
      /\ UNCHANGED <<playoutStarted, packetsReceived, packetsLost, first, last>>
  BY DEF Put
<1>2. Playout!Anchor(i)
  BY <1>1, AnchorMoves DEF Playout!Anchor
<1>3. IsLate(i) <=> playoutStarted /\ i < position
  BY <1>1, LateIsBehind, JitterBufferAssumption DEF IsLate, IInv, Started
<1>4. Wire(i) \in Held <=> i \in Playout!Held
  BY <1>1, DuplicateIsHeld
<1>5. CASE PutLate(i)
  <2>1. Playout!PutLate(i)
    BY <1>3, <1>5 DEF PutLate, Playout!PutLate, store
  <2> QED
    BY <1>1, <1>2, <2>1 DEF Playout!Put
<1>6. CASE PutDuplicate(i)
  <2>1. Playout!PutDuplicate(i)
    BY <1>3, <1>4, <1>6 DEF PutDuplicate, Playout!PutDuplicate, store
  <2> QED
    BY <1>1, <1>2, <2>1 DEF Playout!Put
<1>7. CASE PutHeld(i)
  <2>1. Pending' = IF Full
                   THEN [Pending EXCEPT ![Playout!Earliest] = None, ![i] = 0]
                   ELSE [Pending EXCEPT ![i] = 0]
    BY <1>1, <1>7, PutHeldPending
  <2>2. Full <=> Cardinality(Playout!Held) >= MaxBufferSize
    BY PendingCount DEF Full
  <2>3. /\ ~(playoutStarted /\ i < position)
        /\ i \notin Playout!Held
        /\ packetsLate' = packetsLate
    BY <1>3, <1>4, <1>7 DEF PutHeld
  <2>4. Playout!PutHeld(i)
    BY <2>1, <2>2, <2>3, SameCardinality DEF Playout!PutHeld, Pending
  <2> QED
    BY <1>1, <1>2, <2>4 DEF Playout!Put
<1> QED
  BY <1>5, <1>6, <1>7 DEF Put

\* A call that releases a packet releases the candidate.
LEMMA GetImplements ==
  ASSUME IInv, Get
  PROVE  Playout!Get
<1>1. PICK s \in Held : /\ \A t \in Held : buffer[s] <= buffer[t]
                        /\ Release(s)
                        /\ age[s] >= TargetDelay
                        /\ packetsLost' = packetsLost + (buffer[s] - position)
  BY GetReleases
<1>2. /\ s \in SequenceNumber /\ buffer[s] \in Packets /\ buffer[s] \in Nat
      /\ Wire(buffer[s]) = s /\ position \in Nat /\ position <= buffer[s]
      /\ buffer[s] # None
  BY HeldPacket DEF IInv
<1>3. buffer[s] \in Playout!Held
  BY <1>2, PendingHeld
<1>4. Playout!Candidate = buffer[s]
  <2>1. CASE position \in Playout!Held
    <3>1. position \in HeldPackets
      BY <2>1, PendingHeld
    <3>2. buffer[s] <= position
      BY <1>1, <3>1 DEF HeldPackets
    <3> QED
      BY <1>2, <2>1, <3>2 DEF Playout!Candidate
  <2>2. CASE position \notin Playout!Held
    BY <1>1, <2>2, EarliestIsSmallest DEF Playout!Candidate
  <2> QED
    BY <2>1, <2>2
<1>5. Pending' = [Pending EXCEPT ![buffer[s]] = None]
  <2>1. \A t \in SequenceNumber :
          /\ buffer'[t] = IF t = s THEN None ELSE buffer[t]
          /\ age'[t] = IF t = s THEN 0 ELSE age[t]
    BY <1>1, <1>2 DEF Release, Without, IInv, TypeOK
  <2>2. ASSUME NEW p \in Packets
        PROVE  Pending'[p] = IF p = buffer[s] THEN None ELSE Pending[p]
    <3>1. Wire(p) \in SequenceNumber /\ p # None
      BY PendingHeld, JitterBufferAssumption
    <3>2. Pending[p] = IF buffer[Wire(p)] = p THEN age[Wire(p)] ELSE None
      BY DEF Pending
    <3>3. Pending'[p] = IF buffer'[Wire(p)] = p THEN age'[Wire(p)] ELSE None
      BY DEF Pending
    <3> QED
      BY <1>2, <2>1, <3>1, <3>2, <3>3
  <2> QED
    BY <2>2 DEF Pending
<1>6. Pending[buffer[s]] >= TargetDelay
  BY <1>1, <1>2 DEF Pending
<1>7. /\ position' = buffer[s] + 1
      /\ packetsReceived' = packetsReceived + 1
      /\ playoutStarted' = TRUE
      /\ first' = IF playoutStarted THEN first ELSE position
      /\ last' = buffer[s]
      /\ UNCHANGED packetsLate
  BY <1>1 DEF Release
<1> QED
  BY <1>1, <1>3, <1>4, <1>5, <1>6, <1>7 DEF Playout!Get, Pending

\* A tick is a tick.
LEMMA TickImplements ==
  ASSUME IInv, Tick
  PROVE  Playout!Tick
<1>1. /\ buffer' = buffer
      /\ UNCHANGED <<position, playoutStarted, counters, first, last>>
  BY DEF Tick, history
<1>2. ASSUME NEW p \in Packets
      PROVE  Pending'[p] = IF p \in Playout!Held /\ Pending[p] < TargetDelay
                           THEN Pending[p] + 1 ELSE Pending[p]
  <2>1. Wire(p) \in SequenceNumber /\ p # None
    BY PendingHeld, JitterBufferAssumption
  <2>2. p \in Playout!Held <=> buffer[Wire(p)] = p
    BY PendingHeld
  <2>3. Pending[p] = IF buffer[Wire(p)] = p THEN age[Wire(p)] ELSE None
    BY DEF Pending
  <2>4. Pending'[p] = IF buffer'[Wire(p)] = p THEN age'[Wire(p)] ELSE None
    BY DEF Pending
  <2>5. age'[Wire(p)] = IF Wire(p) \in Held /\ age[Wire(p)] < TargetDelay
                        THEN age[Wire(p)] + 1 ELSE age[Wire(p)]
    BY <2>1 DEF Tick
  <2>6. buffer[Wire(p)] = p => Wire(p) \in Held
    BY <2>1 DEF Held
  <2> QED
    BY <1>1, <2>2, <2>3, <2>4, <2>5, <2>6
<1>3. Pending' = [p \in Packets |->
        IF p \in Playout!Held /\ Pending[p] < TargetDelay
        THEN Pending[p] + 1 ELSE Pending[p]]
  BY <1>2 DEF Pending
<1> QED
  BY <1>1, <1>3 DEF Playout!Tick, Pending, counters, Playout!counters

-----------------------------------------------------------------------------
\* The buffer of sequence numbers implements the buffer of stream positions: for
\* every modulus, size and delay, wrap-around never shows (jitter.py:36-56).
THEOREM Refinement == Spec => ImplementsPlayout
<1>1. Init => Playout!Init
  <2> SUFFICES ASSUME Init PROVE Playout!Init
    OBVIOUS
  <2>1. \A p \in Packets : buffer[Wire(p)] # p
    <3>1. \A p \in Packets : Wire(p) \in SequenceNumber /\ p # None
      BY Remainder, JitterBufferAssumption
    <3> QED
      BY <3>1 DEF Init
  <2> QED
    BY <2>1 DEF Init, Playout!Init
<1>2. IInv /\ [Next]_vars => [Playout!Next]_(Playout!vars)
  <2> SUFFICES ASSUME IInv, [Next]_vars PROVE [Playout!Next]_(Playout!vars)
    OBVIOUS
  <2>1. CASE Get
    BY <2>1, GetImplements DEF Playout!Next
  <2>2. CASE Tick
    BY <2>2, TickImplements DEF Playout!Next
  <2>3. CASE \E i \in Packets : Put(i)
    BY <2>3, PutImplements DEF Playout!Next
  <2>4. CASE UNCHANGED vars
    BY <2>4 DEF vars, store, counters, history, Playout!vars, Playout!counters
  <2> QED
    BY <2>1, <2>2, <2>3, <2>4 DEF Next
<1> QED
  BY <1>1, <1>2, Invariance, PTL DEF Spec, ImplementsPlayout, Playout!Spec

===============================================================================
