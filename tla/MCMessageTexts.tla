---------------------------- MODULE MCMessageTexts ----------------------------
(***************************************************************************)
(* An instance of MessageTexts for TLC.                                    *)
(***************************************************************************)
EXTENDS MessageTexts

SdpLine(type, value) == [type |-> type, value |-> value]
Media(media_type, formats) ==
  SdpLine("m", [media_type |-> media_type, port |-> 9,
                protocol |-> "RTP/AVP", formats |-> formats])
Rtpmap(codec) == SdpLine("a", [key |-> "rtpmap", codec |-> codec])
Flag(key, setting) == SdpLine("a", [key |-> key, text |-> setting])

Opus(payload_type) ==
  [payload_type |-> payload_type, name |-> [word |-> "opus", upper |-> FALSE],
   clock_rate |-> 48000, channels |-> 2]
\* A dynamic payload type for PCMU, in lower case; and G722 in the place of PCMU.
Pcmu(payload_type) ==
  [payload_type |-> payload_type, name |-> [word |-> "pcmu", upper |-> FALSE],
   clock_rate |-> 8000, channels |-> 1]
G722 ==
  [payload_type |-> 0, name |-> [word |-> "g722", upper |-> TRUE],
   clock_rate |-> 8000, channels |-> 1]

V == SdpLine("v", 0)
O == SdpLine("o", "origin")
S == SdpLine("s", "session")
C == SdpLine("c", "192.0.2.1")

\* Complete, one field short, and with one or two sections open.
MCSdpStarts == {<<V, O, S>>, <<V, O, C, S>>, <<O, S>>,
                <<V, O, S, Media("audio", <<0, 96, 8>>)>>,
                <<V, O, C, S, Media("video", <<96>>), Rtpmap(Opus(96)),
                  Media("audio", <<96, 97>>), Flag("sendrecv", "")>>}
MCSdpLines ==
  { V, SdpLine("s", "other"), SdpLine("c", "192.0.2.2"), SdpLine("t", <<0, 1>>),
    SdpLine("c", Malformed), SdpLine(Malformed, ""),
    Media("audio", <<96, 0>>), Media("audio", <<97>>), Media("video", <<0, 97>>),
    Rtpmap(Opus(96)), Rtpmap(Pcmu(96)), Rtpmap(G722), Rtpmap(Pcmu(97)),
    Rtpmap(Malformed), Flag("sendrecv", ""), Flag("ptime", "20"),
    Flag("ptime", "40") }
MCPeers == {<<V, O, S, Media("audio", <<8, 0, 111>>), Rtpmap(Opus(111))>>,
            <<V, O, S, Media("video", <<0>>), Media("audio", <<96, 0>>), Rtpmap(Pcmu(96))>>}

Via(spelling, word) ==
  [type |-> "header", name |-> [word |-> "via", spelling |-> spelling],
   value |-> <<word>>]
To(words) ==
  [type |-> "header", name |-> [word |-> "to", spelling |-> "lower"],
   value |-> words]
Fold(words) == [type |-> "fold", value |-> words]

MCSipStarts ==
  { [type |-> "request", method |-> "INVITE", uri |-> "bob", version |-> "SIP/2.0"],
    [type |-> "request", method |-> "FROBBLE", uri |-> "bob", version |-> "SIP/2.0"],
    [type |-> "status", version |-> "SIP/3.0", code |-> 200, reason |-> "OK"] }
MCSipLines ==
  { Via("canonical", "a"), Via("upper", "b"), To(<<>>),
    Fold(<<"d">>), Fold(<<"e", "f">>), [type |-> "other"], [type |-> "empty"] }
MCMethods == {"REGISTER", "INVITE", "ACK", "BYE", "CANCEL"}
MCVersions == {"SIP/2.0", "SIP/3.0"}

===============================================================================
