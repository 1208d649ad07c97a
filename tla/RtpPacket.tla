------------------------------- MODULE RtpPacket -------------------------------
(***************************************************************************)
(* The RTP parser and builder of voip/rtp.py, and the native parser of     *)
(* native/rtp_parser/src/lib.rs, on sequences of bytes.                    *)
(*                                                                         *)
(* Shifts and masks are written as division and remainder.  A 32-bit field *)
(* is kept as its two 16-bit halves.                                       *)
(***************************************************************************)
EXTENDS Naturals, Sequences

Byte   == 0 .. 255
UInt16 == 0 .. 65535

MinimumHeaderBytes == 12

RtpHeader ==
  [version : 0 .. 3, padding : BOOLEAN, extension : BOOLEAN,
   csrc_count : 0 .. 15, marker : BOOLEAN, payload_type : 0 .. 127,
   sequence_number : UInt16, timestamp : UInt16 \X UInt16,
   ssrc : UInt16 \X UInt16]

RtpPackets == [header : RtpHeader, payload : Seq(Byte)]

\* struct.unpack("!H")
BigEndian(data, i) == data[i] * 256 + data[i + 1]

\* The bit of a byte that has the value power: (byte >> n) & 0x01.
Bit(byte, power) == (byte \div power) % 2 = 1

-------------------------------------------------------------------------------
(***************************************************************************)
(* parse_rtp_header and parse_rtp.  A datagram is accepted, or rejected    *)
(* with the first of these errors that applies.                            *)
(***************************************************************************)
CsrcCount(data) == data[1] % 16

HeaderLength(data) == MinimumHeaderBytes + CsrcCount(data) * 4

ParseError(data) ==
  IF Len(data) < MinimumHeaderBytes THEN "too short"
  ELSE IF data[1] \div 64 # 2 THEN "version"
  ELSE IF Len(data) < HeaderLength(data) THEN "truncated"
  ELSE IF Bit(data[1], 32) THEN "padding"
  ELSE IF Bit(data[1], 16) THEN "extension"
  ELSE "none"

Parsable(data) == ParseError(data) = "none"

Header(data) ==
  [version         |-> data[1] \div 64,
   padding         |-> Bit(data[1], 32),
   extension       |-> Bit(data[1], 16),
   csrc_count      |-> CsrcCount(data),
   marker          |-> Bit(data[2], 128),
   payload_type    |-> data[2] % 128,
   sequence_number |-> BigEndian(data, 3),
   timestamp       |-> <<BigEndian(data, 5), BigEndian(data, 7)>>,
   ssrc            |-> <<BigEndian(data, 9), BigEndian(data, 11)>>]

\* Wrong: the payload starts after the fixed header, CSRC list or not.
ParseRtpFixed(data) ==
  [header  |-> Header(data),
   payload |-> SubSeq(data, MinimumHeaderBytes + 1, Len(data))]

ParseRtp(data) ==
  [header  |-> Header(data),
   payload |-> SubSeq(data, HeaderLength(data) + 1, Len(data))]

-------------------------------------------------------------------------------
(***************************************************************************)
(* build_rtp                                                               *)
(***************************************************************************)
Buildable(packet) ==
  /\ ~packet.header.padding
  /\ ~packet.header.extension
  /\ packet.header.csrc_count = 0

Flag(bool, power) == IF bool THEN power ELSE 0

\* Wrong: the payload type is written over the marker bit.
MarkerLost(header) == header.payload_type

\* byte 1: M PT
MarkerAndType(header) == Flag(header.marker, 128) + header.payload_type

FixedHeader(header) ==
  << header.version * 64 + Flag(header.padding, 32) + Flag(header.extension, 16)
       + header.csrc_count,
     MarkerAndType(header),
     header.sequence_number \div 256, header.sequence_number % 256,
     header.timestamp[1] \div 256, header.timestamp[1] % 256,
     header.timestamp[2] \div 256, header.timestamp[2] % 256,
     header.ssrc[1] \div 256, header.ssrc[1] % 256,
     header.ssrc[2] \div 256, header.ssrc[2] % 256 >>

BuildRtp(packet) == FixedHeader(packet.header) \o packet.payload

-------------------------------------------------------------------------------
(***************************************************************************)
(* parse_fields and parse_rtp of the native parser: the flags are tested   *)
(* with masks, which keep the lower bits of the byte.                      *)
(***************************************************************************)
Masked(byte, power) == byte % (2 * power) >= power

\* Wrong: 0x10 and 0x20 exchanged.
NativeErrorExchanged(data) ==
  IF Len(data) < 12 THEN "too short"
  ELSE IF data[1] \div 64 # 2 THEN "version"
  ELSE IF Len(data) < 12 + (data[1] % 16) * 4 THEN "truncated"
  ELSE IF Masked(data[1], 16) THEN "padding"
  ELSE IF Masked(data[1], 32) THEN "extension"
  ELSE "none"

NativeError(data) ==
  IF Len(data) < 12 THEN "too short"
  ELSE IF data[1] \div 64 # 2 THEN "version"
  ELSE IF Len(data) < 12 + (data[1] % 16) * 4 THEN "truncated"
  ELSE IF Masked(data[1], 32) THEN "padding"
  ELSE IF Masked(data[1], 16) THEN "extension"
  ELSE "none"

NativeParse(data) ==
  [header  |->
     [version         |-> data[1] \div 64,
      padding         |-> Masked(data[1], 32),
      extension       |-> Masked(data[1], 16),
      csrc_count      |-> data[1] % 16,
      marker          |-> data[2] >= 128,
      payload_type    |-> data[2] % 128,
      sequence_number |-> BigEndian(data, 3),
      timestamp       |-> <<BigEndian(data, 5), BigEndian(data, 7)>>,
      ssrc            |-> <<BigEndian(data, 9), BigEndian(data, 11)>>],
   payload |-> SubSeq(data, 12 + (data[1] % 16) * 4 + 1, Len(data))]

===============================================================================
