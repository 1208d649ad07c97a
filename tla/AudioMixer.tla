------------------------------ MODULE AudioMixer ------------------------------
(***************************************************************************)
(* voip/audio.py: mixing, volume, silence and tones on PCM buffers.  A     *)
(* buffer is a sequence of bytes; a sample is two of them, little-endian   *)
(* and signed.  A gain, a float in the code, is a fraction num / den.      *)
(***************************************************************************)
EXTENDS Integers, Sequences, SequencesExt

Lowest  == -32768
Highest == 32767

\* struct.unpack_from('<h', stream, offset) and struct.pack('<h', sample)
Unpack(stream, offset) ==
  LET unsigned == stream[offset + 1] + 256 * stream[offset + 2] IN
  IF unsigned > Highest THEN unsigned - 65536 ELSE unsigned

Pack(sample) == <<(sample % 65536) % 256, (sample % 65536) \div 256>>

\* Wrong: the sum keeps its lower 16 bits.
Wrapped(total) == ((total + 32768) % 65536) - 32768

\* max(-32768, min(32767, total))
Clamp(total) ==
  IF total < Lowest THEN Lowest ELSE IF total > Highest THEN Highest ELSE total

Samples(stream) == [i \in 1 .. Len(stream) \div 2 |-> Unpack(stream, 2 * (i - 1))]

\* b''.join of the packed samples
PackAll(samples) ==
  [k \in 1 .. 2 * Len(samples) |-> Pack(samples[(k + 1) \div 2])[2 - (k % 2)]]

-------------------------------------------------------------------------------
(***************************************************************************)
(* mix_streams, for a format of sampleWidth bytes per sample.              *)
(***************************************************************************)
MixError(streams, sampleWidth) ==
  IF Len(streams) < 2 THEN "none"
  ELSE IF \E i \in DOMAIN streams : Len(streams[i]) # Len(streams[1])
       THEN "different lengths"
  ELSE IF Len(streams[1]) % sampleWidth # 0 THEN "partial sample"
  ELSE IF sampleWidth = 1 /\ Len(streams[1]) > 0 THEN "struct.error"
  ELSE "none"

\* Wrong: clamped after each stream.
MixedSampleStepwise(streams, offset) ==
  FoldLeft(LAMBDA total, stream : Clamp(total + Unpack(stream, offset)), 0, streams)

\* The total of all streams, that is after the last of them.
Total(streams, offset) ==
  LET total[i \in 0 .. Len(streams)] ==
        IF i = 0 THEN 0 ELSE total[i - 1] + Unpack(streams[i], offset)
  IN  total[Len(streams)]

MixedSample(streams, offset) == Clamp(Total(streams, offset))

MixStreams(streams, sampleWidth) ==
  CASE Len(streams) = 0 -> <<>>
    [] Len(streams) = 1 -> streams[1]
    [] Len(streams) > 1 ->
         PackAll([i \in 1 .. Len(streams[1]) \div sampleWidth |->
                    MixedSample(streams, (i - 1) * sampleWidth)])

-------------------------------------------------------------------------------
(***************************************************************************)
(* adjust_volume, generate_silence and generate_tone.                      *)
(***************************************************************************)
\* int(x / y) for y > 0: truncation towards zero.
Truncated(x, y) == IF x >= 0 THEN x \div y ELSE -((-x) \div y)

\* Wrong: the scaled sample is not clamped.
ScaleUnclamped(sample, num, den) == Truncated(sample * num, den)

Scale(sample, num, den) == Clamp(Truncated(sample * num, den))

AdjustVolume(data, num, den) ==
  PackAll([i \in 1 .. Len(data) \div 2 |-> Scale(Unpack(data, 2 * (i - 1)), num, den)])

NumSamples(format, duration) == (format.sample_rate * duration) \div 1000

\* Wrong: one channel, whatever the format.
MonoSilence(duration, format) ==
  [i \in 1 .. NumSamples(format, duration) * format.sample_width |-> 0]

GenerateSilence(duration, format) ==
  [i \in 1 .. NumSamples(format, duration) * format.sample_width * format.channels |-> 0]

\* Wrong: full scale.
FullAmplitude == Highest

\* 50% of full scale
ToneAmplitude == Highest \div 2

\* The samples of generate_tone: each is the amplitude times some sine.
IsTone(data) ==
  \A i \in DOMAIN Samples(data) : Samples(data)[i] \in -ToneAmplitude .. ToneAmplitude

===============================================================================
