----------------------------- MODULE MessageTexts -----------------------------
(***************************************************************************)
(* What voip/sdp.py and voip/sip.py make of a text as its lines come in,   *)
(* in any order: the parsers are functions, and the states of this module  *)
(* are the texts they are applied to.                                      *)
(***************************************************************************)
EXTENDS Naturals, Sequences, FiniteSets, SequencesExt

CONSTANTS
  SdpStarts,    \* the session lines an SDP text begins with
  SdpLines,     \* the lines that follow in any order
  MaxSdpLines,  \* how many of them follow
  Peers,        \* the SDP texts of the other side
  SipStarts,    \* the start lines of SIP texts
  SipLines,     \* the lines that follow in any order
  MaxSipLines,  \* the length of a SIP text
  Methods, Versions, Malformed, None

Sdp == INSTANCE SdpSession
Sip == INSTANCE SipMessage

\* Every line there may be.
LinesOf(texts) == UNION {Range(t) : t \in texts}
Lines == LinesOf(SdpStarts \cup Peers) \cup SdpLines \cup SipStarts \cup SipLines

\* A text is a sequence of lines, and an m= line has a list of formats.
ASSUME TextsAssumption ==
  /\ SdpStarts \cup Peers \subseteq Seq(Lines)
  /\ \A line \in Lines : line.type = "m" /\ line.value # Malformed =>
       line.value.formats \in Seq(Range(line.value.formats))

\* What is malformed is told from the letters, the default time and the codecs that
\* the parser has of its own.
ASSUME MalformedAssumption ==
  /\ Malformed \notin {"v", "o", "s", "c", "t", "m", "a"}
  /\ Malformed # <<0, 0>>
  /\ \A i \in DOMAIN Sdp!StaticCodecs : Malformed # Sdp!StaticCodecs[i][2]

\* What the lines of a SIP text consist of.
ASSUME SipAssumption ==
  /\ "SIP/2.0" \in Versions
  /\ \A line \in Lines :
       /\ line.type = "request" =>
            line = [type |-> "request", method |-> line.method, uri |-> line.uri,
                    version |-> line.version]
       /\ line.type = "status" =>
            line = [type |-> "status", version |-> line.version, code |-> line.code,
                    reason |-> line.reason]
       /\ line.type = "header" =>
            line = [type |-> "header", value |-> line.value,
                    name |-> [word |-> line.name.word, spelling |-> line.name.spelling]]
       /\ line.type \in {"header", "fold"} => line.value \in Seq(Range(line.value))

ASSUME PeersAssumption == \A peer \in Peers : Sdp!WellFormed(peer)

VARIABLES
  protocol,  \* what the text is parsed as
  base,      \* the number of lines the text began with
  text       \* its lines so far

vars == <<protocol, base, text>>

Init ==
  \/ protocol = "sdp" /\ text \in SdpStarts /\ base = Len(text)
  \/ protocol = "sip" /\ text \in {<<line>> : line \in SipStarts} /\ base = 1

ReadSdpLine ==
  /\ protocol = "sdp"
  /\ Len(text) < base + MaxSdpLines
  /\ \E line \in SdpLines : text' = Append(text, line)
  /\ UNCHANGED <<protocol, base>>

\* After a blank line another message may begin.
ReadSipLine ==
  /\ protocol = "sip"
  /\ Len(text) < MaxSipLines
  /\ \/ \E line \in SipLines : text' = Append(text, line)
     \/ /\ Sip!IsEmpty(Last(text))
        /\ \E line \in SipStarts : text' = Append(text, line)
  /\ UNCHANGED <<protocol, base>>

Next == ReadSdpLine \/ ReadSipLine

Spec == Init /\ [][Next]_vars

-------------------------------------------------------------------------------
(***************************************************************************)
(* SDP                                                                     *)
(***************************************************************************)
IsSdp == protocol = "sdp" /\ Sdp!WellFormed(text)
Session == Sdp!ParseSdp(text)

\* Some section has no codec the parser knows: its m= line cannot be rebuilt.
HasEmptySection == \E media \in Range(Session.media) : media.codecs = <<>>

\* Writing a session that was read and reading it again gives the same session:
\* rtpmaps, static assignments, repeated attributes and the order of all of
\* them survive (build_sdp, parse_sdp), unless a section has lost its codecs.
SdpRoundTrip ==
  IsSdp =>
    LET rebuilt == Sdp!BuildSdp(Session) IN
    IF HasEmptySection THEN ~Sdp!WellFormed(rebuilt)
    ELSE Sdp!WellFormed(rebuilt) /\ Sdp!ParseSdp(rebuilt) = Session

\* All sections of the session in text t but the last are there in that of text u,
\* which has at most one more, opened by the last line alone, and the session
\* fields are the same.
LastSectionGrew(t, u) ==
  LET before == Sdp!ParseSdp(t)
      after  == Sdp!ParseSdp(u)
      n      == Len(before.media)
  IN  /\ [after EXCEPT !.media = before.media] = before
      /\ Len(after.media) \in {n, n + 1}
      /\ SubSeq(after.media, 1, n - 1) = SubSeq(before.media, 1, n - 1)
      /\ Len(after.media) = n + 1 =>
           /\ after.media[n] = before.media[n]
           /\ after.media[n + 1] = Sdp!BuildMedia(Sdp!MediaBuilder(Last(u).value))

\* A line that comes after the first m= line changes the section opened last, or
\* opens one that owes nothing to it; it never reaches the session or an earlier
\* section (parse_sdp).
SectionsClosed ==
  [][protocol = "sdp" /\ Sdp!WellFormed(text) /\ Sdp!WellFormed(text')
       => LastSectionGrew(text, text')]_vars

\* The session with the codecs of its first audio section replaced.
WithCodecs(session, codecs) ==
  [session EXCEPT !.media[Sdp!FirstAudio(session)].codecs = codecs]

\* Both sides arrive at the same codecs, whoever offers, although each keeps its
\* own order and payload types; and offering the outcome again changes nothing
\* (negotiate_codecs).
NegotiationAgrees ==
  IsSdp =>
    \A peer \in Peers :
      LET other   == Sdp!ParseSdp(peer)
          offered == Sdp!NegotiateCodecs(Session, other)
      IN  /\ Sdp!CodecKeys(offered)
               = Sdp!CodecKeys(Sdp!NegotiateCodecs(other, Session))
          /\ Sdp!CodecKeys(offered)
               = {<<c.name.word, c.clock_rate>> : c \in Range(Sdp!AudioCodecs(Session))}
                 \cap {<<c.name.word, c.clock_rate>> : c \in Range(Sdp!AudioCodecs(other))}
          /\ Range(offered) \subseteq Range(Sdp!AudioCodecs(Session))
          /\ offered # <<>> =>
               /\ Sdp!NegotiateCodecs(WithCodecs(Session, offered), other) = offered
               /\ Sdp!NegotiateCodecs(Session, WithCodecs(other, offered)) = offered

-------------------------------------------------------------------------------
(***************************************************************************)
(* SIP                                                                     *)
(***************************************************************************)
IsSip == protocol = "sip" /\ Sip!WellFormed(text)
Message == Sip!ParseSip(text)

\* Writing a message that was read and reading it again gives the same message,
\* in version 2.0: folded, repeated and differently spelled headers, a body with
\* empty lines of its own, and no body at all (build_sip_*, parse_sip).
SipRoundTrip ==
  IsSip =>
    LET rebuilt == Sip!BuildSip(Message) IN
    /\ Sip!WellFormed(rebuilt)
    /\ Sip!ParseSip(rebuilt) = [Message EXCEPT !.start.version = "SIP/2.0"]

\* Header line i is the last one with its name.
LastOfItsName(lines, i) ==
  /\ lines[i].type = "header"
  /\ \A j \in i + 1 .. Len(lines) :
       lines[j].type = "header" => lines[j].name.word # lines[i].name.word

\* Line j is the last of the lines that continue line i, or line i itself if none does.
LastContinuation(lines, i, j) ==
  /\ \A k \in i + 1 .. j : lines[k].type = "fold"
  /\ j # Len(lines) => lines[j + 1].type # "fold"

\* The words of lines i to j.
WordsFrom(lines, i, j) == FlattenSeq([k \in 1 .. (j - i) + 1 |-> lines[(i + k) - 1].value])

\* A header has the value of the last line with its name, in any spelling, and
\* of the continuation lines right after it, in their order; a repeated name
\* leaves nothing else behind (parse_sip, _parse_headers).
HeadersAsWritten ==
  IsSip =>
    LET lines == Sip!HeaderLines(text)
        last  == {i \in DOMAIN lines : LastOfItsName(lines, i)}
    IN  /\ Len(Message.headers) = Cardinality(last)
        /\ \A i \in last : \E j \in i .. Len(lines) :
             /\ LastContinuation(lines, i, j)
             /\ \E h \in Range(Message.headers) :
                  h[1].word = lines[i].name.word /\ h[2] = WordsFrom(lines, i, j)

\* Once the blank line is there, no line that follows changes the headers, and
\* the body grows by that line alone (parse_sip).
HeadersSettled ==
  [][IsSip /\ Sip!BlankLine(text) # 0 =>
       /\ IsSip'
       /\ Message'.headers = Message.headers
       /\ Message'.body = SubSeq(text', Sip!BlankLine(text) + 1, Len(text'))]_vars

===============================================================================
