------------------------------ MODULE SipMessage ------------------------------
(***************************************************************************)
(* The SIP parser and builder of voip/sip.py.                              *)
(*                                                                         *)
(* A text is the sequence raw.split("\r\n") of its lines.  A line is       *)
(*                                                                         *)
(*   request  a start line of three parts: method, uri, version            *)
(*   status   a start line that begins with "SIP/": version, code, reason  *)
(*   header   a line with a colon: name and value, the sequence of words   *)
(*   fold     a line that begins with a space or a tab: more words         *)
(*   other    any other line that is not empty: not three parts, and no    *)
(*            colon, neither in it nor in the lines that continue it       *)
(*   empty    the empty line, also after the last CRLF                     *)
(*                                                                         *)
(* A header name is a word and its spelling in upper and lower case.       *)
(* Left out are the texts with a header whose colon is in a continuation   *)
(* line only: the parser, which unfolds first, takes the words before it   *)
(* for the name.                                                           *)
(***************************************************************************)
EXTENDS Naturals, Sequences, SequencesExt, OrderedDict

CONSTANTS
  Methods,    \* the members of SipMethod
  Versions,   \* the versions that begin with "SIP/"
  Malformed,  \* a status code that int() rejects
  None        \* Python's None

Empty == [type |-> "empty"]
IsEmpty(line) == line.type = "empty"

-------------------------------------------------------------------------------
(***************************************************************************)
(* The blank line: "\r\n\r\n" is an empty line that is neither the first   *)
(* nor the last of the text.                                               *)
(***************************************************************************)
\* Wrong: the last one (rsplit).
LastBlankLine(raw) == SelectLastInSubSeq(raw, 2, Len(raw) - 1, IsEmpty)

BlankLine(raw) == SelectInSubSeq(raw, 2, Len(raw) - 1, IsEmpty)

HeaderSection(raw) ==
  IF BlankLine(raw) = 0 THEN raw ELSE SubSeq(raw, 1, BlankLine(raw) - 1)

\* An empty body is no body.
BodyOf(raw) ==
  LET body == SubSeq(raw, BlankLine(raw) + 1, Len(raw)) IN
  IF BlankLine(raw) = 0 \/ body = <<Empty>> THEN None ELSE body

-------------------------------------------------------------------------------
(***************************************************************************)
(* Headers: continuation lines are joined to the line before them, empty   *)
(* lines are skipped, and a name that occurs again is assigned again.      *)
(***************************************************************************)
HeaderLines(raw) == Tail(HeaderSection(raw))

\* Neither line "other" nor what continues it has a colon: it stays no header.
Continued(line, words) ==
  IF line.type = "header" THEN [line EXCEPT !.value = @ \o words] ELSE line

Unfold(unfolded, line) ==
  IF line.type = "fold"
  THEN [unfolded EXCEPT ![Len(unfolded)] = Continued(@, line.value)]
  ELSE Append(unfolded, line)

\* The one spelling of a name, from the table or by title-casing.
Canonicalize(name) == [name EXCEPT !.spelling = "canonical"]

AddHeader(headers, line) ==
  IF IsEmpty(line) THEN headers
  ELSE Put(headers, Canonicalize(line.name), line.value)

Unfolded(lines) ==
  LET unfolded[i \in 0 .. Len(lines)] ==
        IF i = 0 THEN <<>> ELSE Unfold(unfolded[i - 1], lines[i])
  IN  unfolded[Len(lines)]

HeadersOf(lines) ==
  LET headers[i \in 0 .. Len(lines)] ==
        IF i = 0 THEN <<>> ELSE AddHeader(headers[i - 1], lines[i])
  IN  headers[Len(lines)]

ParseHeaders(lines) == HeadersOf(Unfolded(lines))

\* The text is one parse_sip accepts; otherwise it raises ValueError.
WellFormed(raw) ==
  /\ raw # <<>>
  /\ \/ /\ raw[1].type = "request"
        /\ raw[1].method \in Methods
        /\ raw[1].version \in Versions
     \/ /\ raw[1].type = "status"
        /\ raw[1].code # Malformed
  /\ HeaderLines(raw) # <<>> => Head(HeaderLines(raw)).type # "fold"
  /\ \A line \in Range(HeaderLines(raw)) : line.type \in {"header", "fold", "empty"}

ParseSip(raw) ==
  [start   |-> raw[1],
   headers |-> ParseHeaders(HeaderLines(raw)),
   body    |-> BodyOf(raw)]

-------------------------------------------------------------------------------
(***************************************************************************)
(* build_sip_request and build_sip_response: both write version SIP/2.0.   *)
(***************************************************************************)
Header(name, value) == [type |-> "header", name |-> name, value |-> value]

StartLine(start) == [start EXCEPT !.version = "SIP/2.0"]

\* Wrong: the body follows the headers without a blank line.
MessageWithoutBlank(start, headers, body) ==
  <<start>>
  \o [i \in DOMAIN headers |-> Header(headers[i][1], headers[i][2])]
  \o (IF body = None THEN <<Empty>> ELSE body)

\* parts.append("") and "\r\n".join: the empty part is the blank line only if
\* a body follows it.
BuildMessage(start, headers, body) ==
  <<start>>
  \o [i \in DOMAIN headers |-> Header(headers[i][1], headers[i][2])]
  \o <<Empty>>
  \o (IF body = None THEN <<>> ELSE body)

BuildSip(message) ==
  BuildMessage(StartLine(message.start), message.headers, message.body)

===============================================================================
