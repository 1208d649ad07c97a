------------------------------ MODULE SdpSession ------------------------------
(***************************************************************************)
(* The SDP parser, builder and codec negotiation of voip/sdp.py.           *)
(*                                                                         *)
(* An SDP text is the sequence of its non-empty lines.  A line is a record *)
(* of its type letter and its value, already split into tokens:            *)
(*                                                                         *)
(*   v, o, s, c, t   any value; c: the connection address                  *)
(*   m               [media_type, port, protocol, formats]                 *)
(*   a               [key, text], or [key |-> "rtpmap", codec]             *)
(*                                                                         *)
(* Malformed stands for a value with the wrong number of tokens or with    *)
(* something else than digits where an integer belongs, and for the type   *)
(* of a line that has no "=" after one letter.  A codec name is a word and *)
(* its spelling in upper and lower case.                                   *)
(***************************************************************************)
EXTENDS Naturals, Sequences, SequencesExt, OrderedDict

CONSTANTS
  Malformed,  \* what int() or the unpacking of tokens rejects
  None        \* Python's None

Codec(payload_type, name, clock_rate, channels) ==
  [payload_type |-> payload_type, name |-> name,
   clock_rate |-> clock_rate, channels |-> channels]

Upper(word) == [word |-> word, upper |-> TRUE]

\* The payload types of RFC 3551 that need no rtpmap.
StaticCodecs ==
  << <<0, Codec(0, Upper("pcmu"), 8000, 1)>>,
     <<3, Codec(3, Upper("gsm"), 8000, 1)>>,
     <<8, Codec(8, Upper("pcma"), 8000, 1)>> >>

-------------------------------------------------------------------------------
(***************************************************************************)
(* A media section: an m= line and the attributes after it.                *)
(***************************************************************************)
MediaBuilder(m) == [m |-> m, rtpmap |-> <<>>, attributes |-> <<>>]

AddAttribute(builder, a) ==
  IF a.key = "rtpmap"
  THEN [builder EXCEPT !.rtpmap = Put(@, a.codec.payload_type, a.codec)]
  ELSE [builder EXCEPT !.attributes = Put(@, a.key, a.text)]

\* The codec of one format of the m= line; an unknown one is dropped.
Resolve(builder, payload_type) ==
  CASE payload_type \in Keys(builder.rtpmap) ->
         <<Lookup(builder.rtpmap, payload_type)>>
    [] payload_type \in Keys(StaticCodecs) \ Keys(builder.rtpmap) ->
         <<Lookup(StaticCodecs, payload_type)>>
    [] OTHER -> <<>>

BuildMedia(builder) ==
  [media_type |-> builder.m.media_type,
   port       |-> builder.m.port,
   protocol   |-> builder.m.protocol,
   codecs     |-> FlattenSeq([i \in DOMAIN builder.m.formats |->
                                Resolve(builder, builder.m.formats[i])]),
   attributes |-> builder.attributes]

-------------------------------------------------------------------------------
(***************************************************************************)
(* parse_sdp: one pass over the session lines, up to the first m= line,    *)
(* and one over the rest.                                                  *)
(***************************************************************************)
FirstMedia(lines) == SelectInSeq(lines, LAMBDA line : line.type = "m")

SessionLines(lines) ==
  IF FirstMedia(lines) = 0 THEN lines ELSE SubSeq(lines, 1, FirstMedia(lines) - 1)

MediaLines(lines) == SubSeq(lines, FirstMedia(lines), Len(lines))

\* The value of a session field: that of its last line before the first m=.
Field(lines, type, default) ==
  LET session == SessionLines(lines)
      i == SelectLastInSeq(session, LAMBDA line : line.type = type)
  IN  IF i = 0 THEN default ELSE session[i].value

\* The text is one parse_sdp accepts; otherwise it raises ValueError.
WellFormed(lines) ==
  /\ \A line \in Range(lines) : line.type # Malformed
  /\ {"v", "o", "s"} \subseteq {line.type : line \in Range(SessionLines(lines))}
  /\ FirstMedia(lines) # 0
  /\ \A line \in Range(SessionLines(lines)) :
       line.type \in {"v", "o", "c", "t"} => line.value # Malformed
  /\ \A line \in Range(MediaLines(lines)) :
       /\ line.type = "m" => line.value # Malformed /\ line.value.formats # <<>>
       /\ line.type = "a" /\ line.value.key = "rtpmap" => line.value.codec # Malformed

\* Wrong: the attributes of the previous section stay in the builder.
ReadMediaLineUnreset(st, line) ==
  CASE line.type = "m" /\ st.current # None ->
         [closed  |-> Append(st.closed, BuildMedia(st.current)),
          current |-> [st.current EXCEPT !.m = line.value]]
    [] line.type = "m" /\ st.current = None ->
         [st EXCEPT !.current = MediaBuilder(line.value)]
    [] line.type = "a" -> [st EXCEPT !.current = AddAttribute(@, line.value)]
    [] OTHER -> st

\* The second pass: an m= line closes the section before it.
ReadMediaLine(st, line) ==
  CASE line.type = "m" ->
         [closed  |-> IF st.current = None THEN st.closed
                      ELSE Append(st.closed, BuildMedia(st.current)),
          current |-> MediaBuilder(line.value)]
    [] line.type = "a" -> [st EXCEPT !.current = AddAttribute(@, line.value)]
    [] OTHER -> st

SecondPass(lines) ==
  LET st[i \in 0 .. Len(lines)] ==
        IF i = 0 THEN [closed |-> <<>>, current |-> None]
        ELSE ReadMediaLine(st[i - 1], lines[i])
  IN  st[Len(lines)]

ParseMedia(lines) ==
  LET st == SecondPass(lines) IN Append(st.closed, BuildMedia(st.current))

ParseSdp(lines) ==
  [version            |-> Field(lines, "v", None),
   origin             |-> Field(lines, "o", None),
   session_name       |-> Field(lines, "s", None),
   connection_address |-> Field(lines, "c", None),
   time               |-> Field(lines, "t", <<0, 0>>),
   media              |-> ParseMedia(MediaLines(lines))]

-------------------------------------------------------------------------------
(***************************************************************************)
(* build_sdp                                                               *)
(***************************************************************************)
Line(type, value) == [type |-> type, value |-> value]
Rtpmap(codec) == Line("a", [key |-> "rtpmap", codec |-> codec])
Attribute(key, text) == Line("a", [key |-> key, text |-> text])

\* Wrong: no rtpmap for a payload type that has a static assignment.
RtpmapOfDynamic(codec) ==
  IF codec.payload_type \in Keys(StaticCodecs) THEN <<>> ELSE <<Rtpmap(codec)>>

RtpmapOf(codec) == <<Rtpmap(codec)>>

MediaText(media) ==
  <<Line("m", [media_type |-> media.media_type, port |-> media.port,
               protocol |-> media.protocol,
               formats |-> [i \in DOMAIN media.codecs |->
                              media.codecs[i].payload_type]])>>
  \o FlattenSeq([i \in DOMAIN media.codecs |-> RtpmapOf(media.codecs[i])])
  \o [i \in DOMAIN media.attributes |->
        Attribute(media.attributes[i][1], media.attributes[i][2])]

BuildSdp(session) ==
  << Line("v", session.version), Line("o", session.origin),
     Line("s", session.session_name) >>
  \o (IF session.connection_address = None THEN <<>>
      ELSE <<Line("c", session.connection_address)>>)
  \o <<Line("t", session.time)>>
  \o FlattenSeq([i \in DOMAIN session.media |-> MediaText(session.media[i])])

-------------------------------------------------------------------------------
(***************************************************************************)
(* negotiate_codecs                                                        *)
(***************************************************************************)
FirstAudio(session) ==
  SelectInSeq(session.media, LAMBDA media : media.media_type = "audio")

AudioCodecs(session) ==
  IF FirstAudio(session) = 0 THEN <<>> ELSE session.media[FirstAudio(session)].codecs

\* (codec.name.lower(), codec.clock_rate)
CodecKey(codec) == <<codec.name.word, codec.clock_rate>>

CodecKeys(codecs) == {CodecKey(codec) : codec \in Range(codecs)}

\* Wrong: the answerer's codecs, in the answerer's order.
NegotiateAsAnswered(offer, answer) ==
  SelectSeq(AudioCodecs(answer),
            LAMBDA codec : CodecKey(codec) \in CodecKeys(AudioCodecs(offer)))

\* The codecs of the offer that are in the answer, in the order of the offer.
NegotiateCodecs(offer, answer) ==
  LET codecs == AudioCodecs(offer)
      result[i \in 0 .. Len(codecs)] ==
        IF i = 0 THEN <<>>
        ELSE IF CodecKey(codecs[i]) \in CodecKeys(AudioCodecs(answer))
             THEN Append(result[i - 1], codecs[i])
             ELSE result[i - 1]
  IN  result[Len(codecs)]

===============================================================================
