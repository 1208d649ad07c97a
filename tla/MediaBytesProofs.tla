--------------------------- MODULE MediaBytesProofs ---------------------------
(***************************************************************************)
(* Theorems about the RTP parsers, for datagrams of any bytes and length,  *)
(* and about mixing, for any number of streams of any length.              *)
(*                                                                         *)
(* The arithmetic of the two flag bytes is in lemmas about one byte, that  *)
(* of samples in lemmas about one sample; what remains is about lengths,   *)
(* positions and running totals.                                           *)
(***************************************************************************)
EXTENDS MediaBytes, SequenceTheorems, WellFoundedInduction, TLAPS

-------------------------------------------------------------------------------
(***************************************************************************)
(* One byte.                                                               *)
(***************************************************************************)

\* A bit is tested alike by shifting the byte and by masking it.
LEMMA SameBit ==
  ASSUME NEW b \in Rtp!Byte
  PROVE  /\ Rtp!Masked(b, 32) = Rtp!Bit(b, 32)
         /\ Rtp!Masked(b, 16) = Rtp!Bit(b, 16)
         /\ (b >= 128) = Rtp!Bit(b, 128)
BY DEF Rtp!Byte, Rtp!Masked, Rtp!Bit

\* A flag byte with none of the unsupported structures says version 2 and nothing
\* else.
LEMMA PlainFlags ==
  ASSUME NEW b \in Rtp!Byte,
         b \div 64 = 2, ~Rtp!Bit(b, 32), ~Rtp!Bit(b, 16), b % 16 = 0
  PROVE  b = 128
BY DEF Rtp!Byte, Rtp!Bit

\* The count of contributing sources has four bits.
LEMMA LowNibble ==
  ASSUME NEW b \in Rtp!Byte
  PROVE  b % 16 \in 0 .. 15
BY DEF Rtp!Byte

\* Marker and payload type make up the second byte.
LEMMA MarkerByte ==
  ASSUME NEW b \in Rtp!Byte
  PROVE  Rtp!Flag(Rtp!Bit(b, 128), 128) + (b % 128) = b
BY DEF Rtp!Byte, Rtp!Bit, Rtp!Flag

\* Two bytes are the big-endian halves of the number they make up.
LEMMA Halves ==
  ASSUME NEW high \in Rtp!Byte, NEW low \in Rtp!Byte
  PROVE  /\ (high * 256 + low) \div 256 = high
         /\ (high * 256 + low) % 256 = low
<1>1. high \in 0 .. 255 /\ low \in 0 .. 255
  BY DEF Rtp!Byte
<1>2. (high * 256 + low) \div 256 = high
  BY <1>1
<1>3. (high * 256 + low) % 256 = low
  BY <1>1
<1> QED
  BY <1>2, <1>3

-------------------------------------------------------------------------------
(***************************************************************************)
(* A datagram.                                                             *)
(***************************************************************************)

\* The header of a datagram is at least as long as the fixed one, and is all there
\* when the datagram is accepted.
LEMMA HeaderFits ==
  ASSUME NEW data \in Seq(Rtp!Byte), Rtp!Parsable(data)
  PROVE  /\ Rtp!HeaderLength(data) \in 12 .. Len(data)
         /\ \A i \in 1 .. 12 : data[i] \in Rtp!Byte
         /\ Rtp!CsrcCount(data) \in 0 .. 15
         /\ data[1] \div 64 = 2 /\ ~Rtp!Bit(data[1], 32) /\ ~Rtp!Bit(data[1], 16)
<1>1. Len(data) >= 12
  BY DEF Rtp!Parsable, Rtp!ParseError, Rtp!MinimumHeaderBytes
<1>2. \A i \in 1 .. 12 : data[i] \in Rtp!Byte
  BY <1>1
<1>3. Rtp!CsrcCount(data) \in 0 .. 15
  <2>1. data[1] \in Rtp!Byte
    BY <1>2
  <2> QED
    BY <2>1, LowNibble DEF Rtp!CsrcCount
<1>4. /\ ~(Len(data) < Rtp!HeaderLength(data))
      /\ data[1] \div 64 = 2 /\ ~Rtp!Bit(data[1], 32) /\ ~Rtp!Bit(data[1], 16)
  BY Zenon DEF Rtp!Parsable, Rtp!ParseError
<1>5. Rtp!HeaderLength(data) \in 12 .. Len(data)
  <2>1. Rtp!HeaderLength(data) = 12 + Rtp!CsrcCount(data) * 4
    BY DEF Rtp!HeaderLength, Rtp!MinimumHeaderBytes
  <2>2. Len(data) \in Nat
    OBVIOUS
  <2>3. \A count \in 0 .. 15 : \A n \in Nat :
          ~(n < 12 + count * 4) => 12 + count * 4 \in 12 .. n
    OBVIOUS
  <2> QED
    BY <1>3, <1>4, <2>1, <2>2, <2>3, Zenon
<1> QED
  BY <1>2, <1>3, <1>4, <1>5

\* The parsers give the same error, and the same packet.
LEMMA SameParser ==
  ASSUME NEW data \in Seq(Rtp!Byte), data # <<>>
  PROVE  /\ Rtp!NativeError(data) = Rtp!ParseError(data)
         /\ Rtp!Parsable(data) => Rtp!NativeParse(data) = Rtp!ParseRtp(data)
<1>1. data[1] \in Rtp!Byte
  OBVIOUS
<1>2. Rtp!NativeError(data) = Rtp!ParseError(data)
  BY <1>1, SameBit
     DEF Rtp!NativeError, Rtp!ParseError, Rtp!HeaderLength, Rtp!CsrcCount, Rtp!MinimumHeaderBytes
<1>3. ASSUME Rtp!Parsable(data)
      PROVE  Rtp!NativeParse(data) = Rtp!ParseRtp(data)
  <2>1. data[2] \in Rtp!Byte
    BY <1>3, HeaderFits
  <2>2. /\ Rtp!Masked(data[1], 32) = Rtp!Bit(data[1], 32)
        /\ Rtp!Masked(data[1], 16) = Rtp!Bit(data[1], 16)
        /\ (data[2] >= 128) = Rtp!Bit(data[2], 128)
    BY <1>1, <2>1, SameBit
  <2> QED
    BY <2>2, Zenon
       DEF Rtp!NativeParse, Rtp!ParseRtp, Rtp!Header, Rtp!HeaderLength, Rtp!CsrcCount,
           Rtp!MinimumHeaderBytes
<1> QED
  BY <1>2, <1>3

\* A sequence is put together again from its first n elements and the rest.
LEMMA Rejoined ==
  ASSUME NEW S, NEW data \in Seq(S), NEW n \in 0 .. Len(data),
         NEW front \in Seq(S), Len(front) = n, \A i \in 1 .. n : front[i] = data[i]
  PROVE  front \o SubSeq(data, n + 1, Len(data)) = data
<1> DEFINE rest == SubSeq(data, n + 1, Len(data))
<1>1. /\ rest \in Seq(S)
      /\ Len(rest) = Len(data) - n
      /\ \A i \in 1 .. Len(data) - n : rest[i] = data[i + n]
  OBVIOUS
<1> HIDE DEF rest
<1>2. /\ front \o rest \in Seq(S)
      /\ Len(front \o rest) = Len(data)
      /\ \A i \in 1 .. Len(data) :
           (front \o rest)[i] = IF i <= n THEN front[i] ELSE rest[i - n]
  <2>1. /\ front \o rest \in Seq(S)
        /\ Len(front \o rest) = Len(front) + Len(rest)
        /\ \A i \in 1 .. Len(front) + Len(rest) :
             (front \o rest)[i] = IF i <= Len(front) THEN front[i] ELSE rest[i - Len(front)]
    <3>1. rest \in Seq(S)
      BY <1>1
    <3> QED
      BY <3>1, ConcatProperties
  <2>2. Len(front) + Len(rest) = Len(data)
    BY <1>1
  <2> QED
    BY <2>1, <2>2
<1>3. \A i \in 1 .. Len(data) : (front \o rest)[i] = data[i]
  BY <1>1, <1>2
<1>4. front \o rest = data
  BY <1>2, <1>3, SeqEqual
<1> QED
  BY <1>4 DEF rest

\* The fixed header is written as it was read, when byte 0 says version 2 and
\* nothing else.
LEMMA SameFixedHeader ==
  ASSUME NEW data \in Seq(Rtp!Byte), Rtp!Parsable(data), Rtp!CsrcCount(data) = 0
  PROVE  Rtp!FixedHeader(Rtp!Header(data))
           = << data[1], data[2], data[3], data[4], data[5], data[6],
                data[7], data[8], data[9], data[10], data[11], data[12] >>
<1> DEFINE h == Rtp!Header(data)
<1>1. h.version * 64 + Rtp!Flag(h.padding, 32) + Rtp!Flag(h.extension, 16) + h.csrc_count
        = data[1]
  <2>1. data[1] = 128
    BY HeaderFits, PlainFlags DEF Rtp!CsrcCount
  <2>2. h.version = 2 /\ h.padding = FALSE /\ h.extension = FALSE /\ h.csrc_count = 0
    BY HeaderFits DEF Rtp!Header
  <2> QED
    BY <2>1, <2>2 DEF Rtp!Flag
<1>2. Rtp!MarkerAndType(h) = data[2]
  BY HeaderFits, MarkerByte DEF Rtp!MarkerAndType, Rtp!Header
<1>3. /\ h.sequence_number \div 256 = data[3] /\ h.sequence_number % 256 = data[4]
      /\ h.timestamp[1] \div 256 = data[5] /\ h.timestamp[1] % 256 = data[6]
      /\ h.timestamp[2] \div 256 = data[7] /\ h.timestamp[2] % 256 = data[8]
      /\ h.ssrc[1] \div 256 = data[9] /\ h.ssrc[1] % 256 = data[10]
      /\ h.ssrc[2] \div 256 = data[11] /\ h.ssrc[2] % 256 = data[12]
  <2>1. \A i \in {3, 5, 7, 9, 11} :
          /\ Rtp!BigEndian(data, i) \div 256 = data[i]
          /\ Rtp!BigEndian(data, i) % 256 = data[i + 1]
    <3> SUFFICES ASSUME NEW i \in {3, 5, 7, 9, 11}
                 PROVE  /\ Rtp!BigEndian(data, i) \div 256 = data[i]
                        /\ Rtp!BigEndian(data, i) % 256 = data[i + 1]
      OBVIOUS
    <3>1. i \in 1 .. 12 /\ i + 1 \in 1 .. 12
      OBVIOUS
    <3>2. data[i] \in Rtp!Byte /\ data[i + 1] \in Rtp!Byte
      BY <3>1, HeaderFits, Zenon
    <3> QED
      BY <3>2, Halves DEF Rtp!BigEndian
  <2>2. /\ h.sequence_number = Rtp!BigEndian(data, 3)
        /\ h.timestamp[1] = Rtp!BigEndian(data, 5) /\ h.timestamp[2] = Rtp!BigEndian(data, 7)
        /\ h.ssrc[1] = Rtp!BigEndian(data, 9) /\ h.ssrc[2] = Rtp!BigEndian(data, 11)
    BY DEF Rtp!Header
  <2> QED
    BY <2>1, <2>2
<1> HIDE DEF h
<1>4. Rtp!FixedHeader(h)
           = << data[1], data[2], data[3], data[4], data[5], data[6],
                data[7], data[8], data[9], data[10], data[11], data[12] >>
  BY <1>1, <1>2, <1>3 DEF Rtp!FixedHeader
<1> QED
  BY <1>4 DEF h

\* Writing what was read gives the same bytes, unless there is a CSRC list.
LEMMA SameBytes ==
  ASSUME NEW data \in Seq(Rtp!Byte), Rtp!Parsable(data)
  PROVE  IF Rtp!Buildable(Rtp!ParseRtp(data)) THEN Rtp!BuildRtp(Rtp!ParseRtp(data)) = data
         ELSE Rtp!ParseRtp(data).header.csrc_count > 0
<1>1. /\ Rtp!HeaderLength(data) \in 12 .. Len(data)
      /\ \A i \in 1 .. 12 : data[i] \in Rtp!Byte
      /\ Rtp!CsrcCount(data) \in 0 .. 15
      /\ ~Rtp!Bit(data[1], 32) /\ ~Rtp!Bit(data[1], 16)
  BY HeaderFits
<1>2. /\ Rtp!ParseRtp(data).header = Rtp!Header(data)
      /\ Rtp!ParseRtp(data).payload = SubSeq(data, Rtp!HeaderLength(data) + 1, Len(data))
  BY DEF Rtp!ParseRtp
<1>3. /\ Rtp!Header(data).csrc_count = Rtp!CsrcCount(data)
      /\ Rtp!Buildable(Rtp!ParseRtp(data)) <=> Rtp!CsrcCount(data) = 0
  BY <1>1, <1>2 DEF Rtp!Buildable, Rtp!Header
<1>4. CASE Rtp!CsrcCount(data) # 0
  <2>1. \A n \in 0 .. 15 : n # 0 => n > 0
    OBVIOUS
  <2>2. Rtp!CsrcCount(data) > 0
    BY <1>1, <1>4, <2>1, Zenon
  <2> QED
    BY <1>2, <1>3, <1>4, <2>2, Zenon
<1>5. CASE Rtp!CsrcCount(data) = 0
  <2> DEFINE fixed == << data[1], data[2], data[3], data[4], data[5], data[6],
                         data[7], data[8], data[9], data[10], data[11], data[12] >>
  <2>1. Rtp!HeaderLength(data) = 12 /\ 12 \in 0 .. Len(data)
    BY <1>1, <1>5 DEF Rtp!HeaderLength, Rtp!MinimumHeaderBytes
  <2>2. /\ fixed \in Seq(Rtp!Byte) /\ Len(fixed) = 12
        /\ \A i \in 1 .. 12 : fixed[i] = data[i]
    BY <1>1
  <2>3. Rtp!FixedHeader(Rtp!Header(data)) = fixed
    BY <1>5, SameFixedHeader
  <2> HIDE DEF fixed
  <2>4. fixed \o SubSeq(data, 12 + 1, Len(data)) = data
    BY <2>1, <2>2, Rejoined
  <2>5. Rtp!BuildRtp(Rtp!ParseRtp(data)) = data
    BY <1>2, <2>1, <2>3, <2>4 DEF Rtp!BuildRtp
  <2> QED
    BY <1>3, <1>5, <2>5
<1> QED
  BY <1>4, <1>5

\* What follows the first n elements loses its own last one.
LEMMA RestOfCut ==
  ASSUME NEW S, NEW data \in Seq(S), NEW cut \in Seq(S), Len(cut) = Len(data) - 1,
         \A i \in 1 .. Len(data) - 1 : cut[i] = data[i],
         NEW n \in 0 .. Len(data) - 1
  PROVE  LET rest == SubSeq(data, n + 1, Len(data))
         IN  rest # <<>> /\ Front(rest) = SubSeq(cut, n + 1, Len(cut))
<1> DEFINE rest    == SubSeq(data, n + 1, Len(data))
           cutRest == SubSeq(cut, n + 1, Len(cut))
<1>1. /\ rest \in Seq(S)
      /\ Len(rest) = Len(data) - n
      /\ \A i \in 1 .. Len(data) - n : rest[i] = data[i + n]
  OBVIOUS
<1>2. /\ cutRest \in Seq(S)
      /\ Len(cutRest) = Len(data) - 1 - n
      /\ \A i \in 1 .. Len(data) - 1 - n : cutRest[i] = cut[i + n]
  OBVIOUS
<1>3. Len(data) \in Nat
  OBVIOUS
<1> HIDE DEF rest, cutRest
<1>4. rest # <<>>
  BY <1>1, <1>3
<1>5. /\ Front(rest) \in Seq(S)
      /\ Len(Front(rest)) = Len(data) - 1 - n
      /\ \A i \in 1 .. Len(data) - 1 - n : Front(rest)[i] = rest[i]
  <2>1. /\ SubSeq(rest, 1, Len(rest) - 1) \in Seq(S)
        /\ Len(SubSeq(rest, 1, Len(rest) - 1)) = Len(rest) - 1
        /\ \A i \in 1 .. Len(rest) - 1 : SubSeq(rest, 1, Len(rest) - 1)[i] = rest[i]
    BY <1>1, <1>4
  <2> QED
    BY <1>1, <1>3, <2>1 DEF Front
<1>6. ASSUME NEW i \in 1 .. Len(data) - 1 - n
      PROVE  Front(rest)[i] = cutRest[i]
  <2>1. i \in 1 .. Len(data) - n /\ i + n \in 1 .. Len(data) - 1
    BY <1>3
  <2>2. Front(rest)[i] = data[i + n]
    BY <1>1, <1>5, <2>1
  <2>3. cutRest[i] = data[i + n]
    BY <1>2, <2>1
  <2> QED
    BY <2>2, <2>3
<1>7. Front(rest) = cutRest
  BY <1>2, <1>5, <1>6, SeqEqual
<1> QED
  BY <1>4, <1>7 DEF rest, cutRest

\* Without its last byte, an accepted datagram loses the last byte of its
\* payload, or is refused for its length; a refused one is refused again.
LEMMA Cut ==
  ASSUME NEW data \in Seq(Rtp!Byte), Len(data) > 1
  PROVE  IF ~Rtp!Parsable(data) THEN ~Rtp!Parsable(Front(data))
         ELSE IF Rtp!ParseRtp(data).payload = <<>>
              THEN Rtp!ParseError(Front(data)) \in {"too short", "truncated"}
              ELSE /\ Rtp!Parsable(Front(data))
                   /\ Rtp!ParseRtp(Front(data))
                        = [Rtp!ParseRtp(data) EXCEPT !.payload = Front(@)]
<1> DEFINE cut == Front(data)
<1>1. /\ cut \in Seq(Rtp!Byte)
      /\ Len(cut) = Len(data) - 1
      /\ \A i \in 1 .. Len(data) - 1 : cut[i] = data[i]
  BY DEF Front
<1> HIDE DEF cut
<1>2. CASE Len(cut) < 12
  <2>1. Rtp!ParseError(cut) = "too short"
    BY <1>2 DEF Rtp!ParseError, Rtp!MinimumHeaderBytes
  <2>2. ASSUME Rtp!Parsable(data)
        PROVE  Rtp!ParseRtp(data).payload = <<>>
    <3>1. Rtp!HeaderLength(data) = Len(data)
      <4>1. Rtp!HeaderLength(data) \in 12 .. Len(data)
        BY <2>2, HeaderFits
      <4> QED
        BY <1>1, <1>2, <4>1
    <3> QED
      BY <3>1 DEF Rtp!ParseRtp
  <2> QED
    BY <2>1, <2>2 DEF Rtp!Parsable, cut
<1>3. CASE ~(Len(cut) < 12)
  <2>1. /\ cut[1] = data[1] /\ Rtp!CsrcCount(cut) = Rtp!CsrcCount(data)
        /\ Rtp!HeaderLength(cut) = Rtp!HeaderLength(data)
        /\ Rtp!Header(cut) = Rtp!Header(data)
    <3>1. Len(cut) \in Nat /\ Len(data) \in Nat
      BY <1>1
    <3>2. \A i \in 1 .. 12 : cut[i] = data[i]
      BY <1>1, <1>3, <3>1
    <3>3. \A i \in {3, 5, 7, 9, 11} : Rtp!BigEndian(cut, i) = Rtp!BigEndian(data, i)
      <4> SUFFICES ASSUME NEW i \in {3, 5, 7, 9, 11}
                   PROVE  Rtp!BigEndian(cut, i) = Rtp!BigEndian(data, i)
        OBVIOUS
      <4>1. i \in 1 .. 12 /\ i + 1 \in 1 .. 12
        OBVIOUS
      <4>2. cut[i] = data[i] /\ cut[i + 1] = data[i + 1]
        BY <3>2, <4>1, Zenon
      <4> QED
        BY <4>2, Zenon DEF Rtp!BigEndian
    <3>4. cut[1] = data[1] /\ cut[2] = data[2]
      BY <3>2
    <3>5. Rtp!CsrcCount(cut) = Rtp!CsrcCount(data)
      BY <3>4, Zenon DEF Rtp!CsrcCount
    <3>6. Rtp!HeaderLength(cut) = Rtp!HeaderLength(data)
      BY <3>5, Zenon DEF Rtp!HeaderLength
    <3>7. /\ Rtp!BigEndian(cut, 3) = Rtp!BigEndian(data, 3)
          /\ Rtp!BigEndian(cut, 5) = Rtp!BigEndian(data, 5)
          /\ Rtp!BigEndian(cut, 7) = Rtp!BigEndian(data, 7)
          /\ Rtp!BigEndian(cut, 9) = Rtp!BigEndian(data, 9)
          /\ Rtp!BigEndian(cut, 11) = Rtp!BigEndian(data, 11)
      BY <3>3
    <3>8. Rtp!Header(cut) = Rtp!Header(data)
      BY <3>4, <3>5, <3>7, Zenon DEF Rtp!Header
    <3> QED
      BY <3>4, <3>5, <3>6, <3>8
  <2>2. CASE ~Rtp!Parsable(data)
    <3>1. ~(Len(data) < 12)
      BY <1>1, <1>3
    <3>2. Len(data) < Rtp!HeaderLength(data) => Len(cut) < Rtp!HeaderLength(cut)
      <4>1. data[1] \in Rtp!Byte
        BY <3>1
      <4>2. Rtp!HeaderLength(data) \in Nat
        <5>1. Rtp!CsrcCount(data) \in 0 .. 15
          BY <4>1, LowNibble, Zenon DEF Rtp!CsrcCount
        <5> QED
          BY <5>1 DEF Rtp!HeaderLength, Rtp!MinimumHeaderBytes
      <4> QED
        BY <1>1, <2>1, <4>2
    <3>3. ~Rtp!Parsable(cut)
      BY <1>3, <2>1, <2>2, <3>1, <3>2 DEF Rtp!Parsable, Rtp!ParseError, Rtp!MinimumHeaderBytes
    <3> QED
      BY <2>2, <3>3 DEF cut
  <2>3. CASE Rtp!Parsable(data)
    <3>1. Rtp!HeaderLength(data) \in 12 .. Len(data)
      BY <2>3, HeaderFits
    <3>2. Rtp!ParseError(cut)
            = IF Len(cut) < Rtp!HeaderLength(data) THEN "truncated" ELSE "none"
      BY <1>3, <2>1, <2>3, HeaderFits DEF Rtp!ParseError, Rtp!MinimumHeaderBytes
    <3>3. /\ Rtp!ParseRtp(data).header = Rtp!Header(data)
          /\ Rtp!ParseRtp(data).payload = SubSeq(data, Rtp!HeaderLength(data) + 1, Len(data))
      BY DEF Rtp!ParseRtp
    <3>4. CASE Rtp!HeaderLength(data) = Len(data)
      <4>1. Len(cut) < Rtp!HeaderLength(data)
        BY <1>1, <3>4
      <4>2. Rtp!ParseRtp(data).payload = <<>>
        BY <3>3, <3>4
      <4> QED
        BY <2>3, <3>2, <4>1, <4>2 DEF cut
    <3>5. CASE Rtp!HeaderLength(data) < Len(data)
      <4>1. Rtp!Parsable(cut)
        BY <1>1, <3>1, <3>2, <3>5 DEF Rtp!Parsable
      <4>2. /\ Rtp!ParseRtp(data).payload # <<>>
            /\ Front(Rtp!ParseRtp(data).payload)
                 = SubSeq(cut, Rtp!HeaderLength(data) + 1, Len(cut))
        <5>1. Rtp!HeaderLength(data) \in 0 .. Len(data) - 1
          BY <3>1, <3>5
        <5>2. LET rest == SubSeq(data, Rtp!HeaderLength(data) + 1, Len(data))
              IN  /\ rest # <<>>
                  /\ Front(rest) = SubSeq(cut, Rtp!HeaderLength(data) + 1, Len(cut))
          BY <1>1, <5>1, RestOfCut, Zenon
        <5> QED
          BY <3>3, <5>2, Zenon
      <4>3. Rtp!ParseRtp(cut).payload = Front(Rtp!ParseRtp(data).payload)
        BY <2>1, <4>2, Zenon DEF Rtp!ParseRtp
      <4>4. Rtp!ParseRtp(cut).header = Rtp!ParseRtp(data).header
        BY <2>1, Zenon DEF Rtp!ParseRtp
      <4>5. Rtp!ParseRtp(cut) = [Rtp!ParseRtp(data) EXCEPT !.payload = Front(@)]
        BY <4>3, <4>4 DEF Rtp!ParseRtp
      <4> QED
        BY <2>3, <4>1, <4>2, <4>5 DEF cut
    <3>6. Rtp!HeaderLength(data) = Len(data) \/ Rtp!HeaderLength(data) < Len(data)
      <4>1. Len(data) \in Nat
        OBVIOUS
      <4> QED
        BY <3>1, <4>1
    <3> QED
      BY <3>4, <3>5, <3>6, Zenon
  <2> QED
    BY <2>2, <2>3
<1> QED
  BY <1>2, <1>3

---------------------------
(***************************************************************************)
(* Samples and their bytes.                                                *)
(***************************************************************************)
Sample == Mixer!Lowest .. Mixer!Highest

\* A sample has 16 bits, with a sign.
LEMMA SampleRange ==
  (\A n \in Sample : n \in Int) /\ \A n \in Int : n \in Sample <=> -32768 <= n /\ n <= 32767
<1>1. \A n \in Sample : n \in Int
  BY DEF Sample, Mixer!Lowest, Mixer!Highest
<1>2. \A n \in Int : n \in Sample <=> -32768 <= n /\ n <= 32767
  BY DEF Sample, Mixer!Lowest, Mixer!Highest
<1> QED
  BY <1>1, <1>2

\* What is unpacked is packed into the same bytes.
LEMMA PackUnpacked ==
  ASSUME NEW stream, NEW offset, stream[offset + 1] \in Rtp!Byte, stream[offset + 2] \in Rtp!Byte
  PROVE  /\ Mixer!Unpack(stream, offset) \in Sample
         /\ Mixer!Pack(Mixer!Unpack(stream, offset)) = <<stream[offset + 1], stream[offset + 2]>>
<1> DEFINE low  == stream[offset + 1]
           high == stream[offset + 2]
<1>1. low \in 0 .. 255 /\ high \in 0 .. 255
  BY DEF Rtp!Byte
<1>2. Mixer!Unpack(stream, offset)
        = IF low + 256 * high > 32767 THEN (low + 256 * high) - 65536 ELSE low + 256 * high
  BY DEF Mixer!Unpack, Mixer!Highest
<1> HIDE DEF low, high
<1>3. Mixer!Unpack(stream, offset) % 65536 = low + 256 * high
  BY <1>1, <1>2
<1>4. (low + 256 * high) % 256 = low /\ (low + 256 * high) \div 256 = high
  BY <1>1
<1>5. Mixer!Pack(Mixer!Unpack(stream, offset)) = <<low, high>>
  BY <1>3, <1>4 DEF Mixer!Pack
<1>6. Mixer!Unpack(stream, offset) \in Sample
  BY <1>1, <1>2, SampleRange
<1> QED
  BY <1>5, <1>6 DEF low, high

\* The two bytes of a sample are bytes, and make it up.
LEMMA UnpackPacked ==
  ASSUME NEW s \in Sample
  PROVE  /\ Mixer!Pack(s)[1] \in Rtp!Byte /\ Mixer!Pack(s)[2] \in Rtp!Byte
         /\ LET unsigned == Mixer!Pack(s)[1] + 256 * Mixer!Pack(s)[2]
            IN  s = IF unsigned > 32767 THEN unsigned - 65536 ELSE unsigned
<1>1. s \in Int /\ -32768 <= s /\ s <= 32767
  BY SampleRange
<1> DEFINE u == s % 65536
<1>2. u \in 0 .. 65535 /\ s = IF u > 32767 THEN u - 65536 ELSE u
  BY <1>1
<1>3. Mixer!Pack(s)[1] = u % 256 /\ Mixer!Pack(s)[2] = u \div 256
  BY DEF Mixer!Pack
<1> HIDE DEF u
<1>4. u % 256 \in 0 .. 255 /\ u \div 256 \in 0 .. 255 /\ (u % 256) + 256 * (u \div 256) = u
  <2>1. u \in Int /\ 0 <= u /\ u <= 65535
    BY <1>2
  <2>2. u % 256 \in 0 .. 255
    BY <2>1
  <2>3. u \div 256 \in 0 .. 255
    BY <2>1
  <2>4. (u % 256) + 256 * (u \div 256) = u
    BY <2>1
  <2> QED
    BY <2>2, <2>3, <2>4
<1>5. Mixer!Pack(s)[1] + 256 * Mixer!Pack(s)[2] = u
  BY <1>3, <1>4
<1>6. Mixer!Pack(s)[1] \in Rtp!Byte /\ Mixer!Pack(s)[2] \in Rtp!Byte
  BY <1>3, <1>4 DEF Rtp!Byte
<1> QED
  BY <1>2, <1>5, <1>6

\* The clamp leaves samples alone, and makes everything a sample.
LEMMA ClampIsSample ==
  ASSUME NEW n \in Int
  PROVE  Mixer!Clamp(n) \in Sample /\ (n \in Sample => Mixer!Clamp(n) = n)
BY SampleRange DEF Mixer!Clamp, Mixer!Lowest, Mixer!Highest

\* The k-th byte belongs to sample (k + 1) \div 2.
LEMMA BytePlace ==
  ASSUME NEW n \in Nat
  PROVE  /\ \A k \in 1 .. 2 * n : (k + 1) \div 2 \in 1 .. n /\ 2 - (k % 2) \in {1, 2}
         /\ \A i \in 1 .. n :
              /\ 2 * (i - 1) + 1 \in 1 .. 2 * n /\ 2 * (i - 1) + 2 \in 1 .. 2 * n
              /\ ((2 * (i - 1) + 1) + 1) \div 2 = i /\ 2 - ((2 * (i - 1) + 1) % 2) = 1
              /\ ((2 * (i - 1) + 2) + 1) \div 2 = i /\ 2 - ((2 * (i - 1) + 2) % 2) = 2
OBVIOUS

\* Samples packed one after another are the samples of the stream they make.
LEMMA SamplesPacked ==
  ASSUME NEW n \in Nat, NEW s \in [1 .. n -> Sample]
  PROVE  /\ Mixer!PackAll(s) \in Seq(Rtp!Byte)
         /\ Len(Mixer!PackAll(s)) = 2 * n
         /\ Mixer!Samples(Mixer!PackAll(s)) = s
<1> DEFINE packed == Mixer!PackAll(s)
<1>1. Len(s) = n /\ s \in Seq(Sample)
  OBVIOUS
<1>2. packed = [k \in 1 .. 2 * n |-> Mixer!Pack(s[(k + 1) \div 2])[2 - (k % 2)]]
  BY <1>1 DEF Mixer!PackAll
<1>3. \A k \in 1 .. 2 * n : packed[k] \in Rtp!Byte
  <2> TAKE k \in 1 .. 2 * n
  <2>1. s[(k + 1) \div 2] \in Sample /\ 2 - (k % 2) \in {1, 2}
    BY BytePlace
  <2> QED
    BY <1>2, <2>1, UnpackPacked
<1> HIDE DEF packed
<1>4. packed \in [1 .. 2 * n -> Rtp!Byte]
  BY <1>2, <1>3
<1>5. packed \in Seq(Rtp!Byte) /\ Len(packed) = 2 * n
  BY <1>4
<1>6. (2 * n) \div 2 = n
  OBVIOUS
<1>7. ASSUME NEW i \in 1 .. n
      PROVE  Mixer!Unpack(packed, 2 * (i - 1)) = s[i]
  <2>1. /\ packed[2 * (i - 1) + 1] = Mixer!Pack(s[i])[1]
        /\ packed[2 * (i - 1) + 2] = Mixer!Pack(s[i])[2]
    BY <1>2, BytePlace
  <2> QED
    BY <2>1, UnpackPacked DEF Mixer!Unpack, Mixer!Highest
<1>8. Mixer!Samples(packed) = [i \in 1 .. n |-> Mixer!Unpack(packed, 2 * (i - 1))]
  BY <1>5, <1>6 DEF Mixer!Samples
<1>9. Mixer!Samples(packed) = s
  BY <1>7, <1>8
<1> QED
  BY <1>5, <1>9 DEF packed

\* The samples of a stream of whole samples, and the stream they are packed into.
LEMMA PackedSamples ==
  ASSUME NEW stream \in Seq(Rtp!Byte), Len(stream) % 2 = 0
  PROVE  /\ Mixer!Samples(stream) \in [1 .. Len(stream) \div 2 -> Sample]
         /\ \A i \in 1 .. Len(stream) \div 2 :
              Mixer!Samples(stream)[i] = Mixer!Unpack(stream, 2 * (i - 1))
         /\ Mixer!PackAll(Mixer!Samples(stream)) = stream
<1> DEFINE n == Len(stream) \div 2
           s == Mixer!Samples(stream)
<1>1. n \in Nat /\ Len(stream) = 2 * n
  OBVIOUS
<1>2. s = [i \in 1 .. n |-> Mixer!Unpack(stream, 2 * (i - 1))]
  BY DEF Mixer!Samples
<1> HIDE DEF n, s
<1>3. ASSUME NEW i \in 1 .. n
      PROVE  /\ s[i] \in Sample
             /\ Mixer!Pack(s[i]) = <<stream[2 * (i - 1) + 1], stream[2 * (i - 1) + 2]>>
  <2>1. 2 * (i - 1) + 1 \in 1 .. Len(stream) /\ 2 * (i - 1) + 2 \in 1 .. Len(stream)
    BY <1>1, BytePlace
  <2>2. stream[2 * (i - 1) + 1] \in Rtp!Byte /\ stream[2 * (i - 1) + 2] \in Rtp!Byte
    BY <2>1
  <2> QED
    BY <1>2, <2>2, PackUnpacked
<1>4. s \in [1 .. n -> Sample]
  BY <1>2, <1>3
<1>5. Mixer!PackAll(s) \in Seq(Rtp!Byte) /\ Len(Mixer!PackAll(s)) = 2 * n
  BY <1>1, <1>4, SamplesPacked
<1>6. ASSUME NEW k \in 1 .. 2 * n
      PROVE  Mixer!PackAll(s)[k] = stream[k]
  <2>1. Len(s) = n
    BY <1>1, <1>4
  <2>2. Mixer!PackAll(s)[k] = Mixer!Pack(s[(k + 1) \div 2])[2 - (k % 2)]
    BY <2>1 DEF Mixer!PackAll
  <2>3. (k + 1) \div 2 \in 1 .. n
    BY <1>1, BytePlace
  <2>4. \/ k = 2 * (((k + 1) \div 2) - 1) + 1 /\ 2 - (k % 2) = 1
        \/ k = 2 * (((k + 1) \div 2) - 1) + 2 /\ 2 - (k % 2) = 2
    BY <1>1
  <2> DEFINE i == (k + 1) \div 2
  <2>5. Mixer!Pack(s[i])[1] = stream[2 * (i - 1) + 1] /\ Mixer!Pack(s[i])[2] = stream[2 * (i - 1) + 2]
    BY <1>3, <2>3
  <2> HIDE DEF i
  <2>6. CASE k = 2 * (i - 1) + 1 /\ 2 - (k % 2) = 1
    BY <2>2, <2>5, <2>6 DEF i
  <2>7. CASE k = 2 * (i - 1) + 2 /\ 2 - (k % 2) = 2
    BY <2>2, <2>5, <2>7 DEF i
  <2> QED
    BY <2>4, <2>6, <2>7 DEF i
<1>7. Mixer!PackAll(s) = stream
  BY <1>1, <1>5, <1>6, SeqEqual
<1> QED
  BY <1>2, <1>4, <1>7 DEF n, s

-------------------------------------------------------------------------------
(***************************************************************************)
(* Totals.                                                                 *)
(***************************************************************************)

\* A set of natural numbers with a member has a smallest one.
LEMMA Smallest ==
  ASSUME NEW S \in SUBSET Nat, S # {}
  PROVE  \E x \in S : \A y \in S : x <= y
<1> DEFINE R == {ss \in Nat \X Nat : ss[1] < ss[2]}
<1>1. IsWellFoundedOn(R, Nat)
  BY NatLessThanWellFounded DEF OpToRel
<1> HIDE DEF R
<1>2. PICK x \in S : \A y \in S : ~(<<y, x>> \in R)
  BY <1>1, WFMin
<1>3. \A y \in S : ~(y < x)
  BY <1>2 DEF R
<1> QED
  BY <1>3

\* f is the running total of the numbers a.
Totals(f, a, n) ==
  /\ f \in [0 .. n -> Int] /\ f[0] = 0
  /\ \A i \in 1 .. n : f[i] = f[i - 1] + a[i]

\* Numbers have a running total.
LEMMA TotalsExist ==
  ASSUME NEW n \in Nat, NEW a, \A i \in 1 .. n : a[i] \in Int
  PROVE  \E f : Totals(f, a, n)
<1> DEFINE Bad == {m \in 0 .. n : ~\E f : Totals(f, a, m)}
<1>1. SUFFICES ASSUME n \in Bad
               PROVE  FALSE
  OBVIOUS
<1>2. PICK m \in Bad : \A k \in Bad : m <= k
  <2>1. Bad \in SUBSET Nat /\ Bad # {}
    BY <1>1
  <2> QED
    BY <2>1, Smallest, Zenon
<1>3. m # 0
  <2> DEFINE f == [i \in 0 .. 0 |-> 0]
  <2>1. Totals(f, a, 0)
    BY DEF Totals
  <2> QED
    BY <2>1
<1>4. PICK f : Totals(f, a, m - 1)
  BY <1>2, <1>3
<1> DEFINE g == [i \in 0 .. m |-> IF i = m THEN f[m - 1] + a[m] ELSE f[i]]
<1>5. m \in 1 .. n
  BY <1>3
<1>6. f \in [0 .. m - 1 -> Int] /\ f[0] = 0 /\ \A i \in 1 .. m - 1 : f[i] = f[i - 1] + a[i]
  BY <1>4 DEF Totals
<1>7. g \in [0 .. m -> Int] /\ g[0] = 0
  BY <1>5, <1>6
<1>8. ASSUME NEW i \in 1 .. m PROVE g[i] = g[i - 1] + a[i]
  BY <1>5, <1>6
<1>9. Totals(g, a, m)
  BY <1>7, <1>8 DEF Totals
<1> QED
  BY <1>9

\* Running totals whose steps differ by those of d differ by d.
LEMMA TotalsDiffer ==
  ASSUME NEW n \in Nat, NEW f \in [0 .. n -> Int], NEW g \in [0 .. n -> Int],
         NEW d \in [0 .. n -> Int], f[0] = g[0] + d[0],
         \A i \in 1 .. n : f[i] - f[i - 1] = (g[i] - g[i - 1]) + (d[i] - d[i - 1])
  PROVE  \A i \in 0 .. n : f[i] = g[i] + d[i]
<1> DEFINE Bad == {i \in 0 .. n : f[i] # g[i] + d[i]}
<1>1. SUFFICES ASSUME Bad # {}
               PROVE  FALSE
  OBVIOUS
<1>2. PICK m \in Bad : \A k \in Bad : m <= k
  <2>1. Bad \in SUBSET Nat /\ Bad # {}
    BY <1>1
  <2> QED
    BY <2>1, Smallest, Zenon
<1>3. m \in 1 .. n /\ m - 1 \in 0 .. n
  OBVIOUS
<1> DEFINE p == f[m]  q == f[m - 1]  r == g[m]  t == g[m - 1]  v == d[m]  w == d[m - 1]
<1>4. q = t + w /\ p # r + v
  BY <1>2, <1>3
<1>5. p - q = (r - t) + (v - w)
  BY <1>3
<1>6. p \in Int /\ q \in Int /\ r \in Int /\ t \in Int /\ v \in Int /\ w \in Int
  BY <1>3
<1> HIDE DEF p, q, r, t, v, w
<1> QED
  BY <1>4, <1>5, <1>6

\* Total is the running total of the samples at the offset.
LEMMA TotalIs ==
  ASSUME NEW s, Len(s) \in Nat, NEW offset,
         \A i \in 1 .. Len(s) : Mixer!Unpack(s[i], offset) \in Int
  PROVE  \E f : /\ Totals(f, [i \in 1 .. Len(s) |-> Mixer!Unpack(s[i], offset)], Len(s))
                /\ Mixer!Total(s, offset) = f[Len(s)]
<1> DEFINE n == Len(s)
           a == [i \in 1 .. n |-> Mixer!Unpack(s[i], offset)]
           step(f) == [i \in 0 .. n |-> IF i = 0 THEN 0 ELSE f[i - 1] + Mixer!Unpack(s[i], offset)]
           total == CHOOSE f : f = step(f)
<1>1. PICK g : Totals(g, a, n)
  BY TotalsExist
<1>2. g = step(g)
  BY <1>1 DEF Totals
<1>3. total = step(total)
  BY <1>2
<1>4. Mixer!Total(s, offset) = total[n]
  BY DEF Mixer!Total
<1> HIDE DEF total
<1> DEFINE Bad == {i \in 0 .. n : total[i] # g[i]}
<1>5. Bad = {}
  <2>1. SUFFICES ASSUME Bad # {}
                 PROVE  FALSE
    OBVIOUS
  <2>2. PICK m \in Bad : \A k \in Bad : m <= k
    <3>1. Bad \in SUBSET Nat /\ Bad # {}
      BY <2>1
    <3> QED
      BY <3>1, Smallest, Zenon
  <2>3. m # 0
    BY <1>1, <1>3 DEF Totals
  <2>4. total[m - 1] = g[m - 1]
    BY <2>2, <2>3
  <2>5. total[m] = g[m]
    BY <1>1, <1>3, <2>3, <2>4 DEF Totals
  <2> QED
    BY <2>5
<1>6. total[n] = g[n]
  BY <1>5
<1> QED
  BY <1>1, <1>4, <1>6

\* The streams s can be read at the offset.
Readable(s, offset) ==
  Len(s) \in Nat /\ \A i \in 1 .. Len(s) : Mixer!Unpack(s[i], offset) \in Int

\* The total of one stream.
LEMMA TotalOfOne ==
  ASSUME NEW s, NEW offset, Readable(s, offset), Len(s) = 1
  PROVE  Mixer!Total(s, offset) = Mixer!Unpack(s[1], offset)
<1>1. PICK f : /\ Totals(f, [i \in 1 .. Len(s) |-> Mixer!Unpack(s[i], offset)], Len(s))
               /\ Mixer!Total(s, offset) = f[Len(s)]
  BY TotalIs DEF Readable
<1>2. f[0] = 0 /\ f[1] = f[0] + Mixer!Unpack(s[1], offset)
  BY <1>1 DEF Totals
<1> QED
  BY <1>1, <1>2 DEF Readable

\* A total is a number.
LEMMA TotalType ==
  ASSUME NEW s, NEW offset, Readable(s, offset)
  PROVE  Mixer!Total(s, offset) \in Int
<1>1. PICK f : /\ Totals(f, [i \in 1 .. Len(s) |-> Mixer!Unpack(s[i], offset)], Len(s))
               /\ Mixer!Total(s, offset) = f[Len(s)]
  BY TotalIs DEF Readable
<1> QED
  BY <1>1 DEF Totals, Readable

\* A stream that joins adds its sample.
LEMMA TotalOfMore ==
  ASSUME NEW S, NEW s \in Seq(S), NEW x \in S, NEW offset,
         Readable(s, offset), Mixer!Unpack(x, offset) \in Int
  PROVE  Mixer!Total(Append(s, x), offset) = Mixer!Total(s, offset) + Mixer!Unpack(x, offset)
<1> DEFINE n == Len(s)
           e == Append(s, x)
<1>1. /\ n \in Nat /\ Len(e) = n + 1 /\ e[n + 1] = x
      /\ \A k \in 1 .. n : e[k] = s[k]
  OBVIOUS
<1> HIDE DEF e
<1>2. Readable(e, offset)
  BY <1>1 DEF Readable
<1>3. PICK f : /\ Totals(f, [i \in 1 .. n |-> Mixer!Unpack(s[i], offset)], n)
               /\ Mixer!Total(s, offset) = f[n]
  BY TotalIs DEF Readable
<1>4. PICK g : /\ Totals(g, [i \in 1 .. n + 1 |-> Mixer!Unpack(e[i], offset)], n + 1)
               /\ Mixer!Total(e, offset) = g[n + 1]
  BY <1>1, <1>2, TotalIs DEF Readable
<1> DEFINE h == [i \in 0 .. n |-> g[i]]
           d == [i \in 0 .. n |-> 0]
<1>5. f \in [0 .. n -> Int] /\ f[0] = 0
      /\ \A i \in 1 .. n : f[i] = f[i - 1] + Mixer!Unpack(s[i], offset)
  BY <1>3 DEF Totals
<1>6. g \in [0 .. n + 1 -> Int] /\ g[0] = 0
      /\ \A i \in 1 .. n + 1 : g[i] = g[i - 1] + Mixer!Unpack(e[i], offset)
  BY <1>4 DEF Totals
<1>7. h \in [0 .. n -> Int] /\ d \in [0 .. n -> Int] /\ h[0] = f[0] + d[0]
  BY <1>1, <1>5, <1>6
<1>8. ASSUME NEW i \in 1 .. n
      PROVE  h[i] - h[i - 1] = (f[i] - f[i - 1]) + (d[i] - d[i - 1])
  <2> DEFINE v == Mixer!Unpack(s[i], offset)
  <2>1. v \in Int
    BY DEF Readable
  <2>2. i \in 1 .. n + 1 /\ i \in 0 .. n /\ i - 1 \in 0 .. n /\ e[i] = s[i]
    BY <1>1
  <2>3. f[i] = f[i - 1] + v /\ g[i] = g[i - 1] + v
    BY <1>5, <1>6, <2>2
  <2>4. h[i] = g[i] /\ h[i - 1] = g[i - 1] /\ d[i] = 0 /\ d[i - 1] = 0
    BY <2>2
  <2>5. f[i - 1] \in Int /\ g[i - 1] \in Int
    <3>1. i - 1 \in 0 .. n /\ i - 1 \in 0 .. n + 1
      BY <1>1
    <3> HIDE DEF n, h, d
    <3> QED
      BY <1>5, <1>6, <3>1
  <2> HIDE DEF v, h, d
  <2> QED
    BY <2>1, <2>3, <2>4, <2>5
<1>9. h[n] = f[n] + d[n]
  <2> HIDE DEF h, d
  <2>1. \A i \in 0 .. n : h[i] = f[i] + d[i]
    BY <1>1, <1>5, <1>7, <1>8, TotalsDiffer
  <2> QED
    BY <1>1, <2>1
<1>10. g[n] = f[n]
  BY <1>1, <1>5, <1>9
<1>11. g[n + 1] = g[n] + Mixer!Unpack(x, offset)
  BY <1>1, <1>6
<1> QED
  BY <1>3, <1>4, <1>10, <1>11 DEF e

\* Two places of a sequence are exchanged, and exchanged back.
LEMMA ExchangedIs ==
  ASSUME NEW S, NEW s \in Seq(S), NEW i \in DOMAIN s, NEW j \in DOMAIN s
  PROVE  LET e == Exchanged(s, i, j)
         IN  /\ e \in Seq(S) /\ Len(e) = Len(s) /\ DOMAIN e = DOMAIN s
             /\ \A k \in 1 .. Len(s) :
                  e[k] = IF k = j THEN s[i] ELSE IF k = i THEN s[j] ELSE s[k]
             /\ Exchanged(e, i, j) = s
<1>1. ASSUME NEW t \in Seq(S), DOMAIN t = DOMAIN s, Len(t) = Len(s)
      PROVE  LET e == Exchanged(t, i, j)
             IN  /\ e \in Seq(S) /\ Len(e) = Len(s) /\ DOMAIN e = DOMAIN s
                 /\ \A k \in 1 .. Len(s) :
                      e[k] = IF k = j THEN t[i] ELSE IF k = i THEN t[j] ELSE t[k]
  BY <1>1 DEF Exchanged
<1> DEFINE e    == Exchanged(s, i, j)
           back == Exchanged(e, i, j)
<1>2. /\ e \in Seq(S) /\ Len(e) = Len(s) /\ DOMAIN e = DOMAIN s
      /\ \A k \in 1 .. Len(s) : e[k] = IF k = j THEN s[i] ELSE IF k = i THEN s[j] ELSE s[k]
  BY <1>1
<1> HIDE DEF e
<1>3. /\ back \in Seq(S) /\ Len(back) = Len(s)
      /\ \A k \in 1 .. Len(s) : back[k] = IF k = j THEN e[i] ELSE IF k = i THEN e[j] ELSE e[k]
  BY <1>1, <1>2
<1> HIDE DEF back
<1>4. i \in 1 .. Len(s) /\ j \in 1 .. Len(s)
  OBVIOUS
<1>5. \A k \in 1 .. Len(s) : back[k] = s[k]
  BY <1>2, <1>3, <1>4
<1>6. back = s
  BY <1>3, <1>5, SeqEqual
<1> QED
  BY <1>2, <1>6 DEF e, back

\* The total does not depend on the order of two streams.
LEMMA TotalOfExchanged ==
  ASSUME NEW S, NEW s \in Seq(S), NEW offset, Readable(s, offset),
         NEW i \in DOMAIN s, NEW j \in DOMAIN s
  PROVE  Mixer!Total(Exchanged(s, i, j), offset) = Mixer!Total(s, offset)
<1> DEFINE n == Len(s)
           e == Exchanged(s, i, j)
           a == Mixer!Unpack(s[i], offset)
           b == Mixer!Unpack(s[j], offset)
           d == [k \in 0 .. n |-> (IF i <= k THEN b - a ELSE 0) + (IF j <= k THEN a - b ELSE 0)]
<1>1. n \in Nat /\ i \in 1 .. n /\ j \in 1 .. n
  OBVIOUS
<1>2. /\ Len(e) = n
      /\ \A k \in 1 .. n : e[k] = IF k = j THEN s[i] ELSE IF k = i THEN s[j] ELSE s[k]
  BY ExchangedIs
<1> HIDE DEF e
<1>3. a \in Int /\ b \in Int
  BY <1>1 DEF Readable
<1>4. Readable(e, offset)
  BY <1>1, <1>2 DEF Readable
<1>5. PICK f : /\ Totals(f, [k \in 1 .. n |-> Mixer!Unpack(s[k], offset)], n)
               /\ Mixer!Total(s, offset) = f[n]
  BY TotalIs DEF Readable
<1>6. PICK g : /\ Totals(g, [k \in 1 .. n |-> Mixer!Unpack(e[k], offset)], n)
               /\ Mixer!Total(e, offset) = g[n]
  BY <1>2, <1>4, TotalIs DEF Readable
<1>7. f \in [0 .. n -> Int] /\ f[0] = 0
      /\ \A k \in 1 .. n : f[k] = f[k - 1] + Mixer!Unpack(s[k], offset)
  BY <1>5 DEF Totals
<1>8. g \in [0 .. n -> Int] /\ g[0] = 0
      /\ \A k \in 1 .. n : g[k] = g[k - 1] + Mixer!Unpack(e[k], offset)
  BY <1>6 DEF Totals
<1>9. d \in [0 .. n -> Int] /\ d[0] = 0 /\ d[n] = 0
  <2> HIDE DEF a, b
  <2> QED
    BY <1>1, <1>3
<1>10. ASSUME NEW k \in 1 .. n
       PROVE  g[k] - g[k - 1] = (f[k] - f[k - 1]) + (d[k] - d[k - 1])
  <2> DEFINE x == Mixer!Unpack(s[k], offset)
             y == Mixer!Unpack(e[k], offset)
  <2>1. x \in Int /\ y \in Int
    BY <1>1, <1>2, <1>4 DEF Readable
  <2>2. /\ k = i => x = a /\ (k # j => y = b)
        /\ k = j => x = b /\ y = a
        /\ k # i /\ k # j => y = x
    BY <1>2
  <2> HIDE DEF x, y, a, b
  <2>3. y - x = d[k] - d[k - 1]
    <3>1. i \in Int /\ j \in Int /\ k \in Int /\ k \in 0 .. n /\ k - 1 \in 0 .. n
      BY <1>1
    <3>2. /\ d[k] = (IF i <= k THEN b - a ELSE 0) + (IF j <= k THEN a - b ELSE 0)
          /\ d[k - 1] = (IF i <= k - 1 THEN b - a ELSE 0) + (IF j <= k - 1 THEN a - b ELSE 0)
      BY <3>1
    <3> HIDE DEF d
    <3>3. CASE k = i /\ k # j
      BY <1>3, <2>2, <3>1, <3>2, <3>3
    <3>4. CASE k = j /\ k # i
      BY <1>3, <2>2, <3>1, <3>2, <3>4
    <3>5. CASE k = i /\ k = j
      <4>1. x = a /\ x = b /\ y = a
        BY <2>2, <3>5
      <4>2. d[k] = (b - a) + (a - b) /\ d[k - 1] = 0 + 0
        BY <3>1, <3>2, <3>5
      <4>3. a = b /\ y = x
        BY <4>1
      <4>4. y - x = 0
        <5>1. a - a = 0
          BY <1>3
        <5> QED
          BY <4>1, <5>1, Zenon
      <4>5. d[k] = 0 /\ d[k - 1] = 0
        BY <1>3, <4>2, <4>3
      <4> QED
        BY <4>4, <4>5
    <3>6. CASE k # i /\ k # j
      BY <1>3, <2>1, <2>2, <3>1, <3>2, <3>6
    <3> QED
      BY <3>3, <3>4, <3>5, <3>6
  <2>4. f[k] = f[k - 1] + x /\ g[k] = g[k - 1] + y
    BY <1>7, <1>8 DEF x, y
  <2>5. /\ f[k - 1] \in Int /\ g[k - 1] \in Int /\ d[k] \in Int /\ d[k - 1] \in Int
    <3>1. k \in 0 .. n /\ k - 1 \in 0 .. n
      BY <1>1
    <3> HIDE DEF d
    <3> QED
      BY <1>7, <1>8, <1>9, <3>1
  <2> HIDE DEF d
  <2> QED
    BY <2>1, <2>3, <2>4, <2>5
<1>11. g[n] = f[n] + d[n]
  <2> HIDE DEF d
  <2>1. g[0] = f[0] + d[0]
    BY <1>7, <1>8, <1>9
  <2>2. /\ n \in Nat /\ f \in [0 .. n -> Int] /\ g \in [0 .. n -> Int] /\ d \in [0 .. n -> Int]
        /\ \A k \in 1 .. n : g[k] - g[k - 1] = (f[k] - f[k - 1]) + (d[k] - d[k - 1])
    BY <1>1, <1>7, <1>8, <1>9, <1>10
  <2> HIDE DEF n
  <2>3. \A k \in 0 .. n : g[k] = f[k] + d[k]
    BY <2>1, <2>2, TotalsDiffer
  <2> QED
    BY <2>2, <2>3
<1> HIDE DEF d
<1>12. f[n] \in Int
  BY <1>1, <1>7
<1>13. g[n] = f[n]
  BY <1>9, <1>11, <1>12
<1> QED
  BY <1>5, <1>6, <1>13 DEF e

-------------------------------------------------------------------------------
(***************************************************************************)
(* Mixes.                                                                  *)
(***************************************************************************)

\* The total of two streams.
LEMMA TotalOfTwo ==
  ASSUME NEW a, NEW b, NEW offset, Mixer!Unpack(a, offset) \in Int, Mixer!Unpack(b, offset) \in Int
  PROVE  Mixer!Total(<<a, b>>, offset) = Mixer!Unpack(a, offset) + Mixer!Unpack(b, offset)
<1> DEFINE s == <<a, b>>
<1>1. Len(s) = 2 /\ s[1] = a /\ s[2] = b
  OBVIOUS
<1> HIDE DEF s
<1>2. PICK f : /\ Totals(f, [i \in 1 .. Len(s) |-> Mixer!Unpack(s[i], offset)], Len(s))
               /\ Mixer!Total(s, offset) = f[Len(s)]
  <2>1. \A i \in 1 .. Len(s) : Mixer!Unpack(s[i], offset) \in Int
    BY <1>1
  <2>2. Len(s) \in Nat
    BY <1>1
  <2> QED
    BY <2>1, <2>2, TotalIs, Zenon
<1>3. /\ f[0] = 0
      /\ f[1] = f[0] + Mixer!Unpack(s[1], offset)
      /\ f[2] = f[1] + Mixer!Unpack(s[2], offset)
  BY <1>1, <1>2 DEF Totals
<1> QED
  BY <1>1, <1>2, <1>3 DEF s

\* The buffers of n samples.
Buffers(n) == {s \in Seq(Rtp!Byte) : Len(s) = 2 * n}

\* The samples of a buffer, and the buffer they are packed into.
LEMMA BufferSamples ==
  ASSUME NEW n \in Nat, NEW b \in Buffers(n)
  PROVE  /\ Mixer!Samples(b) \in [1 .. n -> Sample]
         /\ \A i \in 1 .. n : /\ Mixer!Samples(b)[i] = Mixer!Unpack(b, 2 * (i - 1))
                              /\ Mixer!Unpack(b, 2 * (i - 1)) \in Sample
                              /\ Mixer!Unpack(b, 2 * (i - 1)) \in Int
         /\ Mixer!PackAll(Mixer!Samples(b)) = b
<1>1. b \in Seq(Rtp!Byte) /\ Len(b) = 2 * n
  BY DEF Buffers
<1>2. Len(b) % 2 = 0 /\ Len(b) \div 2 = n
  BY <1>1
<1>3. /\ Mixer!Samples(b) \in [1 .. n -> Sample]
      /\ \A i \in 1 .. n : Mixer!Samples(b)[i] = Mixer!Unpack(b, 2 * (i - 1))
      /\ Mixer!PackAll(Mixer!Samples(b)) = b
  BY <1>1, <1>2, PackedSamples
<1>4. ASSUME NEW i \in 1 .. n
      PROVE  /\ Mixer!Samples(b)[i] = Mixer!Unpack(b, 2 * (i - 1))
             /\ Mixer!Unpack(b, 2 * (i - 1)) \in Sample
             /\ Mixer!Unpack(b, 2 * (i - 1)) \in Int
  <2>1. Mixer!Samples(b)[i] \in Sample /\ Mixer!Samples(b)[i] = Mixer!Unpack(b, 2 * (i - 1))
    BY <1>3
  <2> QED
    <3> DEFINE sample == Mixer!Samples(b)[i]
    <3>1. sample \in Sample
      BY <2>1
    <3> HIDE DEF sample
    <3>2. sample \in Int
      BY <3>1, SampleRange
    <3> QED
      BY <2>1, <3>2 DEF sample
<1> QED
  BY <1>3, <1>4

\* Buffers of n samples can be read at each of them.
LEMMA BuffersReadable ==
  ASSUME NEW n \in Nat, NEW s \in Seq(Buffers(n)), NEW i \in 1 .. n
  PROVE  Readable(s, 2 * (i - 1))
<1>1. Len(s) \in Nat /\ \A k \in 1 .. Len(s) : s[k] \in Buffers(n)
  OBVIOUS
<1>2. ASSUME NEW k \in 1 .. Len(s)
      PROVE  Mixer!Unpack(s[k], 2 * (i - 1)) \in Int
  BY <1>1, BufferSamples, Zenon
<1> QED
  BY <1>1, <1>2 DEF Readable

\* Streams of n samples each can be mixed, and their mix are the clamped totals.
LEMMA MixIs ==
  ASSUME NEW n \in Nat, NEW s \in Seq(Buffers(n)), s # <<>>
  PROVE  /\ Mixable(s)
         /\ Mix(s) = [i \in 1 .. n |-> Mixer!Clamp(Mixer!Total(s, 2 * (i - 1)))]
         /\ Mix(s) \in [1 .. n -> Sample]
         /\ Mixer!MixStreams(s, Width) = Mixer!PackAll(Mix(s))
<1> DEFINE mix == [i \in 1 .. n |-> Mixer!Clamp(Mixer!Total(s, 2 * (i - 1)))]
<1>1. /\ Len(s) \in Nat /\ Len(s) >= 1
      /\ \A k \in 1 .. Len(s) : s[k] \in Buffers(n) /\ Len(s[k]) = 2 * n
  <2>1. Len(s) \in Nat /\ Len(s) # 0 /\ \A k \in 1 .. Len(s) : s[k] \in Buffers(n)
    OBVIOUS
  <2>2. \A b \in Buffers(n) : Len(b) = 2 * n
    BY DEF Buffers
  <2> QED
    BY <2>1, <2>2
<1>2. (2 * n) % 2 = 0 /\ (2 * n) \div 2 = n
  OBVIOUS
<1>3. Mixable(s)
  <2>1. DOMAIN s = 1 .. Len(s) /\ 1 \in 1 .. Len(s)
    BY <1>1
  <2> QED
    BY <1>1, <1>2, <2>1 DEF Mixable, Mixer!MixError, Width
<1>4. mix \in [1 .. n -> Sample]
  <2>1. ASSUME NEW i \in 1 .. n
        PROVE  Mixer!Clamp(Mixer!Total(s, 2 * (i - 1))) \in Sample
    BY BuffersReadable, TotalType, ClampIsSample
  <2> QED
    BY <2>1
<1>5. CASE Len(s) = 1
  <2>1. Mix(s) = Mixer!Samples(s[1]) /\ s[1] \in Buffers(n)
    BY <1>1, <1>5 DEF Mix, Mixer!MixStreams
  <2>2. ASSUME NEW i \in 1 .. n
        PROVE  mix[i] = Mixer!Samples(s[1])[i]
    BY <1>5, <2>1, BuffersReadable, BufferSamples, TotalOfOne, ClampIsSample
  <2>3. Mixer!Samples(s[1]) \in [1 .. n -> Sample]
    BY <2>1, BufferSamples
  <2>4. Mixer!MixStreams(s, Width) = Mixer!PackAll(Mix(s))
    BY <1>5, <2>1, BufferSamples DEF Mixer!MixStreams
  <2> QED
    BY <1>3, <1>4, <2>1, <2>2, <2>3, <2>4
<1>6. CASE Len(s) > 1
  <2>1. ASSUME NEW i \in 1 .. n
        PROVE  Mixer!MixedSample(s, (i - 1) * 2) = mix[i]
    <3>1. (i - 1) * 2 = 2 * (i - 1)
      OBVIOUS
    <3> QED
      BY <3>1 DEF Mixer!MixedSample
  <2>2. [i \in 1 .. Len(s[1]) \div 2 |-> Mixer!MixedSample(s, (i - 1) * 2)] = mix
    <3>1. Len(s[1]) = 2 * n
      BY <1>1
    <3>2. Len(s[1]) \div 2 = n
      BY <1>2, <3>1
    <3> QED
      BY <2>1, <3>2
  <2>3. Mixer!MixStreams(s, Width) = Mixer!PackAll(mix)
    <3>1. Len(s) # 0 /\ Len(s) # 1
      BY <1>1, <1>6
    <3> QED
      BY <1>6, <2>2, <3>1 DEF Mixer!MixStreams, Width
  <2> HIDE DEF mix
  <2>4. Mix(s) = mix
    BY <1>4, <2>3, SamplesPacked DEF Mix
  <2> QED
    BY <1>3, <1>4, <2>3, <2>4 DEF mix
<1>7. Len(s) = 1 \/ Len(s) > 1
  BY <1>1
<1> QED
  BY <1>5, <1>6, <1>7, Zenon

\* Several streams that can be mixed have the same number of samples.
LEMMA MixableBuffers ==
  ASSUME NEW s \in Seq(Seq(Rtp!Byte)), Mixable(s), Len(s) > 1
  PROVE  \E n \in Nat : s \in Seq(Buffers(n))
<1>1. /\ DOMAIN s = 1 .. Len(s) /\ 1 \in 1 .. Len(s)
      /\ \A k \in 1 .. Len(s) : s[k] \in Seq(Rtp!Byte)
  OBVIOUS
<1>2. (\A k \in 1 .. Len(s) : Len(s[k]) = Len(s[1])) /\ Len(s[1]) % 2 = 0
  <2>1. Mixer!MixError(s, 2) = "none" /\ ~(Len(s) < 2)
    BY DEF Mixable, Width
  <2>2. ~\E k \in DOMAIN s : Len(s[k]) # Len(s[1])
    BY <2>1 DEF Mixer!MixError
  <2>3. ~(Len(s[1]) % 2 # 0)
    BY <2>1, <2>2 DEF Mixer!MixError
  <2> QED
    BY <1>1, <2>2, <2>3
<1>3. Len(s[1]) \in Nat
  BY <1>1
<1> DEFINE n == Len(s[1]) \div 2
<1>4. n \in Nat /\ Len(s[1]) = 2 * n
  <2> DEFINE m == Len(s[1])
  <2>1. m \in Nat /\ m % 2 = 0
    BY <1>2, <1>3
  <2> HIDE DEF m
  <2>2. m \div 2 \in Nat /\ m = 2 * (m \div 2)
    BY <2>1
  <2> QED
    BY <2>2 DEF m
<1> HIDE DEF n
<1>5. \A k \in 1 .. Len(s) : s[k] \in Buffers(n)
  BY <1>1, <1>2, <1>4 DEF Buffers
<1>6. s \in Seq(Buffers(n))
  <2>1. s = [k \in 1 .. Len(s) |-> s[k]] /\ Len(s) \in Nat
    OBVIOUS
  <2> QED
    BY <1>5, <2>1
<1> QED
  BY <1>4, <1>6

\* The mix of two streams.
LEMMA MixOfTwo ==
  ASSUME NEW n \in Nat, NEW a \in Buffers(n), NEW b \in Buffers(n)
  PROVE  /\ Mixable(<<a, b>>)
         /\ Mix(<<a, b>>) \in [1 .. n -> Sample]
         /\ Mixer!MixStreams(<<a, b>>, Width) = Mixer!PackAll(Mix(<<a, b>>))
         /\ \A i \in 1 .. n :
              Mix(<<a, b>>)[i] = Mixer!Clamp(Mixer!Samples(a)[i] + Mixer!Samples(b)[i])
<1>1. <<a, b>> \in Seq(Buffers(n)) /\ <<a, b>> # <<>>
  OBVIOUS
<1>2. /\ Mixable(<<a, b>>) /\ Mix(<<a, b>>) \in [1 .. n -> Sample]
      /\ Mixer!MixStreams(<<a, b>>, Width) = Mixer!PackAll(Mix(<<a, b>>))
      /\ Mix(<<a, b>>) = [i \in 1 .. n |-> Mixer!Clamp(Mixer!Total(<<a, b>>, 2 * (i - 1)))]
  BY <1>1, MixIs
<1>3. ASSUME NEW i \in 1 .. n
      PROVE  Mixer!Total(<<a, b>>, 2 * (i - 1)) = Mixer!Samples(a)[i] + Mixer!Samples(b)[i]
  BY BufferSamples, TotalOfTwo
<1> QED
  BY <1>2, <1>3

\* The speakers change places.
LEMMA MixOfExchanged ==
  ASSUME NEW s \in Seq(Seq(Rtp!Byte)), NEW i \in DOMAIN s, NEW j \in DOMAIN s, Mixable(s)
  PROVE  Mixable(Exchanged(s, i, j)) /\ Mix(Exchanged(s, i, j)) = Mix(s)
<1>1. Len(s) \in Nat /\ i \in 1 .. Len(s) /\ j \in 1 .. Len(s)
  OBVIOUS
<1>2. CASE i = j
  BY <1>2 DEF Exchanged
<1>3. CASE i # j
  <2>1. Len(s) > 1
    BY <1>1, <1>3
  <2>2. PICK n \in Nat : s \in Seq(Buffers(n))
    BY <2>1, MixableBuffers
  <2> DEFINE e == Exchanged(s, i, j)
  <2>3. e \in Seq(Buffers(n)) /\ Len(e) = Len(s)
    BY <2>2, ExchangedIs
  <2> HIDE DEF e
  <2>4. e # <<>> /\ s # <<>>
    BY <2>1, <2>3
  <2>5. ASSUME NEW k \in 1 .. n
        PROVE  Mixer!Total(e, 2 * (k - 1)) = Mixer!Total(s, 2 * (k - 1))
    BY <2>2, BuffersReadable, TotalOfExchanged DEF e
  <2>6. /\ Mixable(e)
        /\ Mix(e) = [k \in 1 .. n |-> Mixer!Clamp(Mixer!Total(e, 2 * (k - 1)))]
        /\ Mix(s) = [k \in 1 .. n |-> Mixer!Clamp(Mixer!Total(s, 2 * (k - 1)))]
    BY <2>2, <2>3, <2>4, MixIs
  <2> QED
    BY <2>5, <2>6 DEF e
<1> QED
  BY <1>2, <1>3

\* A speaker joins.
LEMMA MixOfMore ==
  ASSUME NEW s \in Seq(Seq(Rtp!Byte)), s # <<>>, NEW x \in Seq(Rtp!Byte), Mixable(Append(s, x))
  PROVE  PushedBy(x, Mix(s), Mix(Append(s, x)))
<1> DEFINE e == Append(s, x)
<1>1. e \in Seq(Seq(Rtp!Byte)) /\ Len(e) = Len(s) + 1 /\ Len(s) \in Nat /\ Len(s) # 0
  OBVIOUS
<1>2. PICK n \in Nat : e \in Seq(Buffers(n))
  <2>1. Len(e) > 1 /\ Mixable(e)
    BY <1>1
  <2> HIDE DEF e
  <2> QED
    BY <1>1, <2>1, MixableBuffers
<1>3. (\A k \in 1 .. Len(s) : e[k] = s[k]) /\ e[Len(s) + 1] = x
  OBVIOUS
<1> HIDE DEF e
<1>4. s \in Seq(Buffers(n)) /\ x \in Buffers(n)
  <2>1. \A k \in 1 .. Len(s) + 1 : e[k] \in Buffers(n)
    BY <1>1, <1>2
  <2>2. \A k \in 1 .. Len(s) : s[k] \in Buffers(n)
    BY <1>1, <1>3, <2>1
  <2>3. s = [k \in 1 .. Len(s) |-> s[k]]
    OBVIOUS
  <2>4. s \in Seq(Buffers(n))
    <3>1. Len(s) \in Nat
      BY <1>1
    <3> QED
      BY <2>2, <2>3, <3>1
  <2>5. Len(s) + 1 \in 1 .. Len(s) + 1
    BY <1>1
  <2> QED
    BY <1>3, <2>1, <2>4, <2>5
<1>5. e # <<>>
  BY <1>1
<1>6. /\ Mix(e) = [k \in 1 .. n |-> Mixer!Clamp(Mixer!Total(e, 2 * (k - 1)))]
      /\ Mix(s) = [k \in 1 .. n |-> Mixer!Clamp(Mixer!Total(s, 2 * (k - 1)))]
  BY <1>2, <1>4, <1>5, MixIs
<1>7. ASSUME NEW k \in 1 .. n
      PROVE  /\ Mixer!Samples(x)[k] >= 0 => Mix(e)[k] >= Mix(s)[k]
             /\ Mixer!Samples(x)[k] <= 0 => Mix(e)[k] <= Mix(s)[k]
  <2> DEFINE t == Mixer!Total(s, 2 * (k - 1))
             v == Mixer!Samples(x)[k]
  <2>1. Readable(s, 2 * (k - 1)) /\ t \in Int
    BY <1>4, BuffersReadable, TotalType
  <2>2. v = Mixer!Unpack(x, 2 * (k - 1)) /\ v \in Int
    BY <1>4, BufferSamples
  <2>3. Mixer!Total(e, 2 * (k - 1)) = t + v
    BY <1>4, <2>1, <2>2, TotalOfMore DEF e
  <2> HIDE DEF t, v
  <2>4. Mix(e)[k] = Mixer!Clamp(t + v) /\ Mix(s)[k] = Mixer!Clamp(t)
    BY <1>6, <2>3 DEF t
  <2>5. /\ v >= 0 => Mixer!Clamp(t + v) >= Mixer!Clamp(t)
        /\ v <= 0 => Mixer!Clamp(t + v) <= Mixer!Clamp(t)
    BY <2>1, <2>2 DEF Mixer!Clamp, Mixer!Lowest, Mixer!Highest
  <2> QED
    BY <2>4, <2>5 DEF v
<1>8. DOMAIN Mix(e) = 1 .. n
  BY <1>6
<1> QED
  BY <1>7, <1>8 DEF PushedBy, e

\* int() rounds a number and its opposite alike.
LEMMA OppositeTruncated ==
  ASSUME NEW a \in Int, NEW num \in Int, NEW den \in Nat \ {0}
  PROVE  /\ Mixer!Truncated(a * num, den) \in Int
         /\ Mixer!Truncated(a * (-num), den) = -Mixer!Truncated(a * num, den)
<1> DEFINE y == a * num
<1>1. y \in Int /\ a * (-num) = -y
  OBVIOUS
<1> HIDE DEF y
<1>2. \A m \in Nat : m \div den \in Nat
  OBVIOUS
<1>3. 0 \div den = 0
  OBVIOUS
<1>4. CASE y > 0
  <2>1. y \in Nat /\ y \div den \in Int /\ -(-y) = y /\ ~(-y >= 0) /\ y >= 0
    BY <1>1, <1>2, <1>4
  <2> QED
    BY <1>1, <2>1 DEF Mixer!Truncated, y
<1>5. CASE y < 0
  <2>1. -y \in Nat /\ (-y) \div den \in Int /\ -y >= 0 /\ ~(y >= 0)
    BY <1>1, <1>2, <1>5
  <2>2. -(-((-y) \div den)) = (-y) \div den /\ -((-y) \div den) \in Int
    BY <2>1
  <2> QED
    BY <1>1, <2>1, <2>2 DEF Mixer!Truncated, y
<1>6. CASE y = 0
  <2>1. a * (-num) = 0 /\ a * num = 0
    BY <1>1, <1>6 DEF y
  <2> QED
    BY <1>3, <2>1 DEF Mixer!Truncated
<1> QED
  BY <1>1, <1>4, <1>5, <1>6

\* What a stream becomes at a volume.
LEMMA AdjustedIs ==
  ASSUME NEW data \in Seq(Rtp!Byte), NEW num \in Int, NEW den \in Nat \ {0}, NEW n,
         n = Len(data) \div 2
  PROVE  /\ n \in Nat
         /\ \A k \in 1 .. n : Mixer!Unpack(data, 2 * (k - 1)) \in Int
         /\ Mixer!AdjustVolume(data, num, den) \in Buffers(n)
         /\ Mixer!Samples(Mixer!AdjustVolume(data, num, den))
              = [k \in 1 .. n |-> Mixer!Scale(Mixer!Unpack(data, 2 * (k - 1)), num, den)]
<1> DEFINE s == [k \in 1 .. n |-> Mixer!Scale(Mixer!Unpack(data, 2 * (k - 1)), num, den)]
<1>1. n \in Nat /\ 2 * n <= Len(data) /\ Len(data) \in Nat
  OBVIOUS
<1>2. ASSUME NEW k \in 1 .. n
      PROVE  Mixer!Unpack(data, 2 * (k - 1)) \in Int
  <2>1. 2 * (k - 1) + 1 \in 1 .. Len(data) /\ 2 * (k - 1) + 2 \in 1 .. Len(data)
    BY <1>1
  <2>2. data[2 * (k - 1) + 1] \in Rtp!Byte /\ data[2 * (k - 1) + 2] \in Rtp!Byte
    BY <2>1
  <2>3. Mixer!Unpack(data, 2 * (k - 1)) \in Sample
    BY <2>2, PackUnpacked
  <2> DEFINE sample == Mixer!Unpack(data, 2 * (k - 1))
  <2>4. sample \in Sample
    BY <2>3
  <2> HIDE DEF sample
  <2>5. sample \in Int
    BY <2>4, SampleRange
  <2> QED
    BY <2>5 DEF sample
<1>3. ASSUME NEW k \in 1 .. n
      PROVE  Mixer!Scale(Mixer!Unpack(data, 2 * (k - 1)), num, den) \in Sample
  BY <1>2, OppositeTruncated, ClampIsSample DEF Mixer!Scale
<1>4. s \in [1 .. n -> Sample]
  BY <1>3
<1>5. Mixer!AdjustVolume(data, num, den) = Mixer!PackAll(s)
  BY DEF Mixer!AdjustVolume
<1> HIDE DEF s
<1>6. /\ Mixer!PackAll(s) \in Seq(Rtp!Byte) /\ Len(Mixer!PackAll(s)) = 2 * n
      /\ Mixer!Samples(Mixer!PackAll(s)) = s
  BY <1>1, <1>4, SamplesPacked
<1> QED
  BY <1>1, <1>2, <1>5, <1>6 DEF Buffers, s

-------------------------------------------------------------------------------
(***************************************************************************)
(* The theorems.                                                           *)
(***************************************************************************)

\* What is left of a datagram is bytes.
LEMMA DatagramType == Spec => [](datagram \in Seq(Rtp!Byte))
<1>1. Init => datagram \in Seq(Rtp!Byte)
  <2>1. Datagrams \subseteq Seq(Rtp!Byte)
    BY BytesAssumption
  <2>2. <<>> \in Seq(Rtp!Byte)
    OBVIOUS
  <2> QED
    BY <2>1, <2>2 DEF Init
<1>2. datagram \in Seq(Rtp!Byte) /\ [Next]_vars => (datagram \in Seq(Rtp!Byte))'
  <2> SUFFICES ASSUME datagram \in Seq(Rtp!Byte), [Next]_vars
               PROVE  datagram' \in Seq(Rtp!Byte)
    OBVIOUS
  <2>1. CASE LoseByte
    BY <2>1 DEF LoseByte, Front
  <2>2. CASE Join
    BY <2>2 DEF Join
  <2>3. CASE UNCHANGED vars
    BY <2>3 DEF vars
  <2> QED
    BY <2>1, <2>2, <2>3 DEF Next
<1> QED
  BY <1>1, <1>2, PTL DEF Spec

\* Whatever build_rtp can write is written back byte for byte, for datagrams of
\* every length.
THEOREM RoundTrip == Spec => []RtpRoundTrip
<1>1. datagram \in Seq(Rtp!Byte) => RtpRoundTrip
  BY SameBytes DEF RtpRoundTrip
<1> QED
  BY <1>1, DatagramType, PTL

\* The native parser cannot be told from the Python parser.
THEOREM NativeAgreement == Spec => []NativeAgrees
<1>1. datagram \in Seq(Rtp!Byte) => NativeAgrees
  BY SameParser DEF NativeAgrees
<1> QED
  BY <1>1, DatagramType, PTL

\* The offsets of the header are never beyond the datagram, and what is cut off
\* the end is payload.
THEOREM PayloadIsTheRest == Spec => OnlyPayloadIsCut
<1>1. datagram \in Seq(Rtp!Byte) /\ LoseByte =>
        IF ~Rtp!Parsable(datagram) THEN ~Rtp!Parsable(datagram')
        ELSE LET before == Rtp!ParseRtp(datagram)
                 after  == Rtp!ParseRtp(datagram')
             IN  IF before.payload = <<>>
                 THEN Rtp!ParseError(datagram') \in {"too short", "truncated"}
                 ELSE /\ Rtp!Parsable(datagram')
                      /\ after = [before EXCEPT !.payload = Front(@)]
  <2> SUFFICES ASSUME datagram \in Seq(Rtp!Byte), LoseByte
               PROVE  IF ~Rtp!Parsable(datagram) THEN ~Rtp!Parsable(datagram')
                      ELSE LET before == Rtp!ParseRtp(datagram)
                               after  == Rtp!ParseRtp(datagram')
                           IN  IF before.payload = <<>>
                               THEN Rtp!ParseError(datagram') \in {"too short", "truncated"}
                               ELSE /\ Rtp!Parsable(datagram')
                                    /\ after = [before EXCEPT !.payload = Front(@)]
    OBVIOUS
  <2>1. Len(datagram) > 1 /\ datagram' = Front(datagram)
    BY DEF LoseByte
  <2> QED
    BY <2>1, Cut
<1> QED
  BY <1>1, DatagramType, PTL DEF OnlyPayloadIsCut

\* The streams of the conference consist of bytes.
LEMMA StreamsType == Spec => [](streams \in Seq(Seq(Rtp!Byte)))
<1>1. Init => streams \in Seq(Seq(Rtp!Byte))
  BY DEF Init
<1>2. streams \in Seq(Seq(Rtp!Byte)) /\ [Next]_vars => (streams \in Seq(Seq(Rtp!Byte)))'
  <2> SUFFICES ASSUME streams \in Seq(Seq(Rtp!Byte)), [Next]_vars
               PROVE  streams' \in Seq(Seq(Rtp!Byte))
    OBVIOUS
  <2>1. CASE LoseByte
    BY <2>1 DEF LoseByte
  <2>2. CASE Join
    BY <2>2, BytesAssumption DEF Join
  <2>3. CASE UNCHANGED vars
    BY <2>3 DEF vars
  <2> QED
    BY <2>1, <2>2, <2>3 DEF Next
<1> QED
  BY <1>1, <1>2, PTL DEF Spec

\* Saturating addition of any number of speakers does not depend on their order.
THEOREM OrderDoesNotMatter == Spec => []SpeakersInAnyOrder
<1>1. ASSUME streams \in Seq(Seq(Rtp!Byte))
      PROVE  SpeakersInAnyOrder
  <2> SUFFICES ASSUME NEW i \in DOMAIN streams, NEW j \in DOMAIN streams
               PROVE  /\ Mixable(Exchanged(streams, i, j)) <=> Mixable(streams)
                      /\ Mixable(streams) => Mix(Exchanged(streams, i, j)) = Mix(streams)
    BY DEF SpeakersInAnyOrder
  <2> DEFINE e == Exchanged(streams, i, j)
  <2>1. /\ e \in Seq(Seq(Rtp!Byte)) /\ i \in DOMAIN e /\ j \in DOMAIN e
        /\ Exchanged(e, i, j) = streams
    BY <1>1, ExchangedIs
  <2> HIDE DEF e
  <2>2. Mixable(e) => Mixable(streams)
    BY <2>1, MixOfExchanged
  <2>3. Mixable(streams) => Mixable(e) /\ Mix(e) = Mix(streams)
    BY <1>1, MixOfExchanged DEF e
  <2> QED
    BY <2>2, <2>3 DEF e
<1> QED
  BY <1>1, StreamsType, PTL

\* Whoever joins a conference of any size pushes each sample his own way.
THEOREM NoWrapAround == Spec => JoiningNeverWraps
<1>1. streams \in Seq(Seq(Rtp!Byte)) /\ Join /\ streams # <<>> /\ Mixable(streams') =>
        PushedBy(Last(streams'), Mix(streams), Mix(streams'))
  <2> SUFFICES ASSUME streams \in Seq(Seq(Rtp!Byte)), Join, streams # <<>>, Mixable(streams')
               PROVE  PushedBy(Last(streams'), Mix(streams), Mix(streams'))
    OBVIOUS
  <2>1. PICK x \in Streams : streams' = Append(streams, x)
    BY DEF Join
  <2>2. x \in Seq(Rtp!Byte)
    BY BytesAssumption
  <2>3. Last(streams') = x
    BY <2>1, <2>2 DEF Last
  <2> QED
    BY <2>1, <2>2, <2>3, MixOfMore
<1> QED
  BY <1>1, StreamsType, PTL DEF JoiningNeverWraps

\* Opposite volumes cancel out at every gain, up to the sample that has no opposite.
THEOREM OppositesLeaveNothing == Spec => []OppositesCancel
<1>1. ASSUME streams \in Seq(Seq(Rtp!Byte))
      PROVE  OppositesCancel
  <2> SUFFICES ASSUME NEW i \in DOMAIN streams, NEW gain \in Gains
               PROVE  LET loud     == Mixer!AdjustVolume(streams[i], gain[1], gain[2])
                          opposite == Mixer!AdjustVolume(streams[i], -gain[1], gain[2])
                          rest     == Mix(<<loud, opposite>>)
                      IN  /\ Mixable(<<loud, opposite>>)
                          /\ \A j \in DOMAIN rest :
                               rest[j] =
                                 IF Mixer!Lowest \in {Mixer!Samples(loud)[j], Mixer!Samples(opposite)[j]}
                                 THEN -1 ELSE 0
    BY DEF OppositesCancel
  <2> DEFINE data     == streams[i]
             num      == gain[1]
             den      == gain[2]
             n        == Len(data) \div 2
             loud     == Mixer!AdjustVolume(data, num, den)
             opposite == Mixer!AdjustVolume(data, -num, den)
             rest     == Mix(<<loud, opposite>>)
  <2>1. data \in Seq(Rtp!Byte)
    BY <1>1
  <2>2. num \in Int /\ -num \in Int /\ den \in Nat \ {0}
    BY GainsAssumption
  <2> HIDE DEF data, num, den
  <2>3. /\ n \in Nat
        /\ \A k \in 1 .. n : Mixer!Unpack(data, 2 * (k - 1)) \in Int
        /\ loud \in Buffers(n) /\ opposite \in Buffers(n)
        /\ Mixer!Samples(loud)
             = [k \in 1 .. n |-> Mixer!Scale(Mixer!Unpack(data, 2 * (k - 1)), num, den)]
        /\ Mixer!Samples(opposite)
             = [k \in 1 .. n |-> Mixer!Scale(Mixer!Unpack(data, 2 * (k - 1)), -num, den)]
    <3> DEFINE m == n
    <3>1. m = Len(data) \div 2
      OBVIOUS
    <3> HIDE DEF m
    <3>2. /\ m \in Nat
          /\ \A k \in 1 .. m : Mixer!Unpack(data, 2 * (k - 1)) \in Int
          /\ loud \in Buffers(m)
          /\ Mixer!Samples(loud)
               = [k \in 1 .. m |-> Mixer!Scale(Mixer!Unpack(data, 2 * (k - 1)), num, den)]
      BY <2>1, <2>2, <3>1, AdjustedIs
    <3> DEFINE anti == -num
    <3>3. anti \in Int
      BY <2>2
    <3> HIDE DEF anti
    <3>4. /\ Mixer!AdjustVolume(data, anti, den) \in Buffers(m)
          /\ Mixer!Samples(Mixer!AdjustVolume(data, anti, den))
               = [k \in 1 .. m |-> Mixer!Scale(Mixer!Unpack(data, 2 * (k - 1)), anti, den)]
      BY <2>1, <2>2, <3>1, <3>3, AdjustedIs
    <3> QED
      BY <3>2, <3>4 DEF m, anti
  <2> HIDE DEF n, loud, opposite
  <2>4. /\ Mixable(<<loud, opposite>>) /\ DOMAIN rest = 1 .. n
        /\ \A k \in 1 .. n :
             rest[k] = Mixer!Clamp(Mixer!Samples(loud)[k] + Mixer!Samples(opposite)[k])
    BY <2>3, MixOfTwo
  <2>5. ASSUME NEW k \in 1 .. n
        PROVE  rest[k] = IF Mixer!Lowest \in {Mixer!Samples(loud)[k], Mixer!Samples(opposite)[k]}
                         THEN -1 ELSE 0
    <3> DEFINE t == Mixer!Truncated(Mixer!Unpack(data, 2 * (k - 1)) * num, den)
               l == Mixer!Samples(loud)[k]
               o == Mixer!Samples(opposite)[k]
    <3>1. t \in Int /\ l = Mixer!Clamp(t) /\ o = Mixer!Clamp(-t)
      BY <2>2, <2>3, OppositeTruncated DEF Mixer!Scale
    <3>2. rest[k] = Mixer!Clamp(l + o)
      BY <2>4
    <3> HIDE DEF t, l, o, rest
    <3>3. rest[k] = IF Mixer!Lowest \in {l, o} THEN -1 ELSE 0
      BY <3>1, <3>2 DEF Mixer!Clamp, Mixer!Lowest, Mixer!Highest
    <3> QED
      BY <3>3 DEF l, o
  <2> HIDE DEF rest
  <2>6. /\ Mixable(<<loud, opposite>>)
        /\ \A j \in DOMAIN rest :
             rest[j] = IF Mixer!Lowest \in {Mixer!Samples(loud)[j], Mixer!Samples(opposite)[j]}
                       THEN -1 ELSE 0
    BY <2>4, <2>5
  <2> QED
    BY <2>6 DEF data, num, den, loud, opposite, rest
<1> QED
  BY <1>1, StreamsType, PTL

\* Silence of the right length and format changes nothing.
THEOREM SilenceChangesNothing == Spec => []SilenceIsNeutral
<1>1. ASSUME streams \in Seq(Seq(Rtp!Byte))
      PROVE  SilenceIsNeutral
  <2> SUFFICES ASSUME NEW i \in DOMAIN streams, NEW format \in Formats, NEW duration \in Durations,
                      Len(streams[i]) = Mixer!NumSamples(format, duration)
                                          * format.sample_width * format.channels
               PROVE  LET both == <<streams[i], Mixer!GenerateSilence(duration, format)>> IN
                      /\ Mixer!MixError(both, format.sample_width) = "none"
                      /\ Mixer!MixStreams(both, format.sample_width) = streams[i]
    BY DEF SilenceIsNeutral
  <2> DEFINE a       == streams[i]
             silence == Mixer!GenerateSilence(duration, format)
             frames  == Mixer!NumSamples(format, duration)
             n       == frames * format.channels
  <2>1. format.sample_rate \in Nat /\ format.channels \in Nat /\ duration \in Nat
        /\ format.sample_width = Width
    BY FormatsAssumption DEF Width
  <2>2. frames \in Nat
    <3>1. format.sample_rate * duration \in Nat
      BY <2>1
    <3> QED
      BY <3>1 DEF Mixer!NumSamples
  <2> HIDE DEF frames
  <2>3. n \in Nat /\ frames * format.sample_width * format.channels = 2 * n
    BY <2>1, <2>2 DEF Width
  <2>4. a \in Buffers(n)
    BY <1>1, <2>3 DEF Buffers, frames
  <2>5. silence = [k \in 1 .. 2 * n |-> 0]
    BY <2>3 DEF Mixer!GenerateSilence, frames
  <2> HIDE DEF n, a, silence
  <2>6. silence \in Seq(Rtp!Byte) /\ Len(silence) = 2 * n
    BY <2>3, <2>5 DEF Rtp!Byte
  <2>7. silence \in Buffers(n)
    BY <2>6 DEF Buffers
  <2>8. ASSUME NEW k \in 1 .. n
        PROVE  Mixer!Samples(silence)[k] = 0
    <3>1. 2 * (k - 1) + 1 \in 1 .. 2 * n /\ 2 * (k - 1) + 2 \in 1 .. 2 * n
      BY <2>3, BytePlace
    <3>2. silence[2 * (k - 1) + 1] = 0 /\ silence[2 * (k - 1) + 2] = 0
      BY <2>5, <3>1
    <3>3. Mixer!Unpack(silence, 2 * (k - 1)) = 0
      BY <3>2 DEF Mixer!Unpack, Mixer!Highest
    <3> QED
      BY <2>3, <2>7, <3>3, BufferSamples
  <2> DEFINE both == <<a, silence>>
  <2>9. /\ Mixable(both) /\ Mix(both) \in [1 .. n -> Sample]
        /\ Mixer!MixStreams(both, Width) = Mixer!PackAll(Mix(both))
        /\ \A k \in 1 .. n :
             Mix(both)[k] = Mixer!Clamp(Mixer!Samples(a)[k] + Mixer!Samples(silence)[k])
    BY <2>3, <2>4, <2>7, MixOfTwo
  <2> HIDE DEF both
  <2>10. Mixer!Samples(a) \in [1 .. n -> Sample] /\ Mixer!PackAll(Mixer!Samples(a)) = a
    BY <2>3, <2>4, BufferSamples
  <2>11. ASSUME NEW k \in 1 .. n
         PROVE  Mix(both)[k] = Mixer!Samples(a)[k]
    <3> DEFINE v == Mixer!Samples(a)[k]
    <3>1. v \in Sample /\ Mix(both)[k] = Mixer!Clamp(v + 0)
      BY <2>8, <2>9, <2>10
    <3> HIDE DEF v
    <3>2. v \in Int /\ v + 0 = v
      BY <3>1, SampleRange
    <3>3. Mix(both)[k] = v
      BY <3>1, <3>2, ClampIsSample
    <3> QED
      BY <3>3 DEF v
  <2>12. Mix(both) = Mixer!Samples(a)
    <3> DEFINE f == Mix(both)
               g == Mixer!Samples(a)
    <3>1. f \in [1 .. n -> Sample] /\ g \in [1 .. n -> Sample] /\ \A k \in 1 .. n : f[k] = g[k]
      BY <2>9, <2>10, <2>11
    <3> HIDE DEF f, g
    <3>2. f = [k \in 1 .. n |-> f[k]] /\ g = [k \in 1 .. n |-> g[k]]
      BY <3>1
    <3>3. [k \in 1 .. n |-> f[k]] = [k \in 1 .. n |-> g[k]]
      BY <3>1
    <3> QED
      BY <3>2, <3>3 DEF f, g
  <2>13. Mixer!MixError(both, Width) = "none" /\ Mixer!MixStreams(both, Width) = a
    BY <2>9, <2>10, <2>12 DEF Mixable
  <2> QED
    BY <2>1, <2>13 DEF both, a, silence
<1> QED
  BY <1>1, StreamsType, PTL

\* Half of full scale is low enough for two tones, whatever their samples.
THEOREM HeadroomForTwo == Spec => []TonesDoNotClip
<1>1. ASSUME streams \in Seq(Seq(Rtp!Byte))
      PROVE  TonesDoNotClip
  <2> SUFFICES ASSUME NEW i \in DOMAIN streams, NEW j \in DOMAIN streams,
                      Mixer!IsTone(streams[i]), Mixer!IsTone(streams[j]),
                      Mixable(<<streams[i], streams[j]>>),
                      NEW k \in DOMAIN Mixer!Samples(streams[i])
               PROVE  Mix(<<streams[i], streams[j]>>)[k]
                        = Mixer!Samples(streams[i])[k] + Mixer!Samples(streams[j])[k]
    BY DEF TonesDoNotClip
  <2> DEFINE a == streams[i]
             b == streams[j]
             s == <<a, b>>
  <2>1. a \in Seq(Rtp!Byte) /\ b \in Seq(Rtp!Byte)
    BY <1>1
  <2>2. /\ s \in Seq(Seq(Rtp!Byte)) /\ Len(s) = 2 /\ s[1] = a /\ s[2] = b
    BY <2>1
  <2>3. PICK n \in Nat : s \in Seq(Buffers(n))
    <3>1. Len(s) > 1 /\ Mixable(s)
      BY <2>2
    <3> HIDE DEF s
    <3> QED
      BY <2>2, <3>1, MixableBuffers
  <2>4. a \in Buffers(n) /\ b \in Buffers(n)
    <3> HIDE DEF s, a, b
    <3>1. \A m \in 1 .. Len(s) : s[m] \in Buffers(n)
      BY <2>3
    <3>2. 1 \in 1 .. Len(s) /\ 2 \in 1 .. Len(s)
      BY <2>2
    <3> QED
      BY <2>2, <3>1, <3>2
  <2>5. /\ Mixer!Samples(a) \in [1 .. n -> Sample] /\ Mixer!Samples(b) \in [1 .. n -> Sample]
        /\ \A m \in 1 .. n :
             Mix(<<a, b>>)[m] = Mixer!Clamp(Mixer!Samples(a)[m] + Mixer!Samples(b)[m])
    BY <2>4, BufferSamples, MixOfTwo
  <2> DEFINE v == Mixer!Samples(a)[k]
             w == Mixer!Samples(b)[k]
  <2>6. k \in 1 .. n /\ k \in DOMAIN Mixer!Samples(b)
    BY <2>5
  <2>7. /\ v \in -Mixer!ToneAmplitude .. Mixer!ToneAmplitude
        /\ w \in -Mixer!ToneAmplitude .. Mixer!ToneAmplitude
    BY <2>6 DEF Mixer!IsTone
  <2> HIDE DEF v, w
  <2>8. v \in Int /\ w \in Int /\ v + w \in Int /\ -32768 <= v + w /\ v + w <= 32767
    <3>1. Mixer!ToneAmplitude = 16383
      BY DEF Mixer!ToneAmplitude, Mixer!Highest
    <3>2. v \in Int /\ -16383 <= v /\ v <= 16383
      BY <2>7, <3>1
    <3>3. w \in Int /\ -16383 <= w /\ w <= 16383
      BY <2>7, <3>1
    <3> QED
      BY <3>2, <3>3
  <2>9. Mixer!Clamp(v + w) = v + w
    BY <2>8 DEF Mixer!Clamp, Mixer!Lowest, Mixer!Highest
  <2> QED
    BY <2>5, <2>6, <2>9 DEF v, w
<1> QED
  BY <1>1, StreamsType, PTL

===============================================================================
