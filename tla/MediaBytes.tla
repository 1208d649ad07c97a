------------------------------ MODULE MediaBytes ------------------------------
(***************************************************************************)
(* What voip/rtp.py, the native parser and voip/audio.py make of media     *)
(* bytes: a datagram that loses bytes at its end, and a conference that    *)
(* one stream after another joins.  The code keeps no state; the states of *)
(* this module are the inputs its functions are applied to.                *)
(***************************************************************************)
EXTENDS Integers, Sequences, SequencesExt

CONSTANTS
  Datagrams,   \* the datagrams as sent
  Streams,     \* the PCM buffers that may join the mix
  MaxStreams,  \* how many of them do
  Gains,       \* volume factors, as fractions <<num, den>>
  Formats,     \* audio formats
  Durations    \* in milliseconds

Rtp   == INSTANCE RtpPacket
Mixer == INSTANCE AudioMixer

ASSUME BytesAssumption == Datagrams \cup Streams \subseteq Seq(Rtp!Byte)

ASSUME GainsAssumption == Gains \subseteq Int \X (Nat \ {0})

\* "After G.711 decoding we always work with 16-bit linear PCM" (types/audio.py:31).
ASSUME FormatsAssumption ==
  /\ Formats \subseteq [sample_rate : Nat, sample_width : {2}, channels : Nat]
  /\ Durations \subseteq Nat

VARIABLES
  datagram,  \* what is left of the datagram; <<>> in a conference
  streams    \* the streams of the conference so far

vars == <<datagram, streams>>

Init ==
  /\ datagram \in Datagrams \cup {<<>>}
  /\ streams = <<>>

LoseByte ==
  /\ Len(datagram) > 1
  /\ datagram' = Front(datagram)
  /\ UNCHANGED streams

Join ==
  /\ datagram = <<>>
  /\ Len(streams) < MaxStreams
  /\ \E stream \in Streams : streams' = Append(streams, stream)
  /\ UNCHANGED datagram

Next == LoseByte \/ Join

Spec == Init /\ [][Next]_vars

-------------------------------------------------------------------------------
(***************************************************************************)
(* RTP                                                                     *)
(***************************************************************************)

\* Whatever is accepted and can be written is written back byte for byte; only a
\* packet with contributing sources is accepted and cannot be written (parse_rtp,
\* build_rtp).
RtpRoundTrip ==
  Rtp!Parsable(datagram) =>
    LET packet == Rtp!ParseRtp(datagram) IN
    IF Rtp!Buildable(packet) THEN Rtp!BuildRtp(packet) = datagram
    ELSE packet.header.csrc_count > 0

\* The end of a datagram is payload until there is none left: without its last
\* byte it has the same header and one byte of payload less, and it is refused
\* only when the header itself would be cut.  What was refused stays refused
\* (parse_rtp_header's offsets).
OnlyPayloadIsCut ==
  [][LoseByte =>
       IF ~Rtp!Parsable(datagram) THEN ~Rtp!Parsable(datagram')
       ELSE LET before == Rtp!ParseRtp(datagram)
                after  == Rtp!ParseRtp(datagram')
            IN  IF before.payload = <<>>
                THEN Rtp!ParseError(datagram') \in {"too short", "truncated"}
                ELSE /\ Rtp!Parsable(datagram')
                     /\ after = [before EXCEPT !.payload = Front(@)]]_vars

\* The native parser accepts "the same subset" as the Python parser, with the
\* same values, and refuses the rest with the same errors (lib.rs:123).
NativeAgrees ==
  datagram # <<>> =>
    /\ Rtp!NativeError(datagram) = Rtp!ParseError(datagram)
    /\ Rtp!Parsable(datagram) => Rtp!NativeParse(datagram) = Rtp!ParseRtp(datagram)

-------------------------------------------------------------------------------
(***************************************************************************)
(* Mixing                                                                  *)
(***************************************************************************)
Width == 2  \* bytes of a decoded sample

Mixable(s) == Mixer!MixError(s, Width) = "none"
Mix(s) == Mixer!Samples(Mixer!MixStreams(s, Width))

Exchanged(s, i, j) == [s EXCEPT ![i] = s[j], ![j] = s[i]]

\* The mix does not depend on the order of the speakers, although it saturates,
\* and neither does the refusal to mix (mix_streams).
SpeakersInAnyOrder ==
  \A i, j \in DOMAIN streams :
    /\ Mixable(Exchanged(streams, i, j)) <=> Mixable(streams)
    /\ Mixable(streams) => Mix(Exchanged(streams, i, j)) = Mix(streams)

\* The stream s joins streams whose mix was "before" and becomes "after".
PushedBy(s, before, after) ==
  \A i \in DOMAIN after :
    /\ Mixer!Samples(s)[i] >= 0 => after[i] >= before[i]
    /\ Mixer!Samples(s)[i] <= 0 => after[i] <= before[i]

\* A speaker who joins pushes each sample in the direction of his own, or leaves
\* it at the limit: the mix never wraps around (mix_streams).
JoiningNeverWraps ==
  [][Join /\ streams # <<>> /\ Mixable(streams') =>
       PushedBy(Last(streams'), Mix(streams), Mix(streams'))]_vars

\* A stream at some volume and the same stream at the opposite volume cancel
\* out; only the lowest sample, which has no opposite, leaves a rest of -1
\* (adjust_volume, mix_streams).
OppositesCancel ==
  \A i \in DOMAIN streams : \A gain \in Gains :
    LET loud     == Mixer!AdjustVolume(streams[i], gain[1], gain[2])
        opposite == Mixer!AdjustVolume(streams[i], -gain[1], gain[2])
        rest     == Mix(<<loud, opposite>>)
    IN  /\ Mixable(<<loud, opposite>>)
        /\ \A j \in DOMAIN rest :
             rest[j] =
               IF Mixer!Lowest \in {Mixer!Samples(loud)[j], Mixer!Samples(opposite)[j]}
               THEN -1 ELSE 0

\* Silence of a stream's duration and format can be mixed into it, and changes
\* nothing (generate_silence, mix_streams).
SilenceIsNeutral ==
  \A i \in DOMAIN streams, format \in Formats, duration \in Durations :
    Len(streams[i]) = Mixer!NumSamples(format, duration)
                        * format.sample_width * format.channels =>
      LET both == <<streams[i], Mixer!GenerateSilence(duration, format)>> IN
      /\ Mixer!MixError(both, format.sample_width) = "none"
      /\ Mixer!MixStreams(both, format.sample_width) = streams[i]

\* Two tones leave enough headroom not to clip (generate_tone, mix_streams).
TonesDoNotClip ==
  \A i, j \in DOMAIN streams :
    LET a == streams[i]
        b == streams[j]
    IN  Mixer!IsTone(a) /\ Mixer!IsTone(b) /\ Mixable(<<a, b>>) =>
          \A k \in DOMAIN Mixer!Samples(a) :
            Mix(<<a, b>>)[k] = Mixer!Samples(a)[k] + Mixer!Samples(b)[k]

===============================================================================
