SPECIFICATION Spec
CONSTANTS
  Datagrams <- MCDatagrams
  Streams <- MCStreams
  MaxStreams = 3
  Gains <- MCGains
  Formats <- MCFormats
  Durations = {0, 1, 2, 3}
INVARIANTS RtpRoundTrip NativeAgrees SpeakersInAnyOrder OppositesCancel
           SilenceIsNeutral TonesDoNotClip
PROPERTIES OnlyPayloadIsCut JoiningNeverWraps
\* A datagram and a conference end somewhere.
CHECK_DEADLOCK FALSE
