SPECIFICATION Spec
CONSTANTS
  SdpStarts <- MCSdpStarts
  SdpLines <- MCSdpLines
  MaxSdpLines = 3
  Peers <- MCPeers
  SipStarts <- MCSipStarts
  SipLines <- MCSipLines
  MaxSipLines = 6
  Methods <- MCMethods
  Versions <- MCVersions
  Malformed = Malformed
  None = None
INVARIANTS SdpRoundTrip NegotiationAgrees SipRoundTrip HeadersAsWritten
PROPERTIES SectionsClosed HeadersSettled
\* A text ends somewhere.
CHECK_DEADLOCK FALSE
