------------------------- MODULE MessageTextsProofs -------------------------
(***************************************************************************)
(* Proofs about MessageTexts, for any lines: what comes later leaves the   *)
(* headers and the earlier sections alone, two sides negotiate the same    *)
(* codecs, headers are read as they are written, and a session or message  *)
(* that was read can be written and read again.                            *)
(* What the parsers do line by line is proved by looking at the first line *)
(* that would break it.                                                    *)
(***************************************************************************)
EXTENDS MessageTexts, SequenceTheorems, FiniteSetTheorems, WellFoundedInduction, TLAPS

\* A set of natural numbers with a member has a smallest one.
LEMMA Smallest ==
  ASSUME NEW S \in SUBSET Nat, S # {}
  PROVE  \E x \in S : \A y \in S : x <= y
<1> DEFINE R == {ss \in Nat \X Nat : ss[1] < ss[2]}
<1>1. IsWellFoundedOn(R, Nat)
  BY NatLessThanWellFounded DEF OpToRel
<1> HIDE DEF R
<1>2. PICK x \in S : \A y \in S : ~(<<y, x>> \in R)
  BY <1>1, WFMin
<1>3. \A y \in S : ~(y < x)
  BY <1>2 DEF R
<1> QED
  BY <1>3

\* What is appended to a text is a line.
LEMMA LinesAre == \A line : line \in SdpLines \/ line \in SipLines \/ line \in SipStarts => line \in Lines
BY DEF Lines

\* The texts are sequences of lines.
LEMMA TextType == Spec => [](text \in Seq(Lines))
<1>1. Init => text \in Seq(Lines)
  <2> SUFFICES ASSUME Init
               PROVE  text \in Seq(Lines)
    OBVIOUS
  <2>1. CASE text \in SdpStarts
    BY <2>1, TextsAssumption
  <2>2. CASE text \in {<<line>> : line \in SipStarts}
    <3>1. PICK line \in SipStarts : text = <<line>>
      BY <2>2
    <3>2. line \in Lines
      BY LinesAre
    <3> QED
      BY <3>1, <3>2
  <2> QED
    BY <2>1, <2>2 DEF Init
<1>2. text \in Seq(Lines) /\ [Next]_vars => (text \in Seq(Lines))'
  <2> SUFFICES ASSUME text \in Seq(Lines), [Next]_vars
               PROVE  text' \in Seq(Lines)
    OBVIOUS
  <2>2. CASE ReadSdpLine
    BY <2>2, LinesAre DEF ReadSdpLine
  <2>3. CASE ReadSipLine
    BY <2>3, LinesAre DEF ReadSipLine
  <2>4. CASE UNCHANGED vars
    BY <2>4 DEF vars
  <2> QED
    BY <2>2, <2>3, <2>4 DEF Next
<1> QED
  BY <1>1, <1>2, PTL DEF Spec

\* The blank line of a text, if there is one, is the first that is empty and neither
\* the first nor the last of all.
LEMMA BlankLineIs ==
  ASSUME NEW t, Len(t) \in Nat
  PROVE  LET Blank == {i \in 2 .. Len(t) - 1 : t[i].type = "empty"}
         IN  /\ Sip!BlankLine(t) # 0 =>
                  Sip!BlankLine(t) \in Blank /\ \A i \in Blank : Sip!BlankLine(t) <= i
             /\ \A b \in Blank : (\A i \in Blank : b <= i) => Sip!BlankLine(t) = b
<1> DEFINE Blank == {i \in 2 .. Len(t) - 1 : t[i].type = "empty"}
<1>1. Sip!BlankLine(t) = IF Blank # {} THEN Sip!Min(Blank) ELSE 0
  BY DEF Sip!BlankLine, Sip!SelectInSubSeq, Sip!IsEmpty
<1>2. Blank \in SUBSET Nat /\ 0 \notin Blank
  OBVIOUS
<1> HIDE DEF Blank
<1>3. Blank # {} => Sip!Min(Blank) \in Blank /\ \A i \in Blank : Sip!Min(Blank) <= i
  BY <1>2, Smallest DEF Sip!Min
<1>4. ASSUME NEW b \in Blank, \A i \in Blank : b <= i
      PROVE  Sip!BlankLine(t) = b
  <2> DEFINE m == Sip!Min(Blank)
  <2>1. Sip!BlankLine(t) = m
    BY <1>1
  <2>2. m \in Nat /\ b \in Nat /\ m <= b /\ b <= m
    BY <1>2, <1>3, <1>4
  <2> HIDE DEF m
  <2> QED
    BY <2>1, <2>2
<1> QED
  BY <1>1, <1>3, <1>4 DEF Blank

\* A line more leaves the blank line and what is before it alone.
LEMMA BlankLineStays ==
  ASSUME NEW t \in Seq(Lines), NEW line \in Lines, Sip!BlankLine(t) # 0
  PROVE  LET u == Append(t, line)
             b == Sip!BlankLine(t)
         IN  /\ b \in 2 .. Len(t) - 1 /\ Sip!BlankLine(u) = b
             /\ u[1] = t[1] /\ u # <<>>
             /\ Sip!HeaderLines(u) = Sip!HeaderLines(t)
             /\ Sip!BodyOf(u) = SubSeq(u, b + 1, Len(u))
<1> DEFINE u == Append(t, line)
           b == Sip!BlankLine(t)
           BlankT == {i \in 2 .. Len(t) - 1 : t[i].type = "empty"}
           BlankU == {i \in 2 .. Len(u) - 1 : u[i].type = "empty"}
<1>1. Len(t) \in Nat /\ Len(u) = Len(t) + 1 /\ u \in Seq(Lines) /\ \A i \in 1 .. Len(t) : u[i] = t[i]
  OBVIOUS
<1>2. b \in BlankT /\ \A i \in BlankT : b <= i
  BY <1>1, BlankLineIs
<1> HIDE DEF u, b
<1>3. b \in BlankU /\ \A i \in BlankU : b <= i
  <2>1. b \in BlankU
    BY <1>1, <1>2
  <2>2. ASSUME NEW i \in BlankU
        PROVE  b <= i
    <3>1. CASE i \in 2 .. Len(t) - 1
      <4>1. i \in BlankT
        BY <1>1, <3>1
      <4> QED
        BY <1>2, <4>1
    <3>2. CASE ~(i \in 2 .. Len(t) - 1)
      BY <1>1, <1>2, <3>2
    <3> QED
      BY <3>1, <3>2
  <2> QED
    BY <2>1, <2>2
<1>4. Sip!BlankLine(u) = b
  <2>1. Len(u) \in Nat
    BY <1>1
  <2> QED
    BY <1>3, <2>1, BlankLineIs
<1>5. b \in 2 .. Len(t) - 1 /\ b # 0
  BY <1>2
<1>6. SubSeq(u, 1, b - 1) = SubSeq(t, 1, b - 1)
  <2> DEFINE v == SubSeq(u, 1, b - 1)
             w == SubSeq(t, 1, b - 1)
  <2>1. /\ v \in Seq(Lines) /\ Len(v) = b - 1 /\ \A i \in 1 .. b - 1 : v[i] = u[i]
        /\ w \in Seq(Lines) /\ Len(w) = b - 1 /\ \A i \in 1 .. b - 1 : w[i] = t[i]
    BY <1>1, <1>5
  <2> HIDE DEF v, w
  <2>2. \A i \in 1 .. Len(v) : v[i] = w[i]
    BY <1>1, <1>5, <2>1
  <2>3. v = w
    BY <2>1, <2>2, SeqEqual
  <2> QED
    BY <2>3 DEF v, w
<1>7. Sip!HeaderLines(u) = Sip!HeaderLines(t)
  <2>1. Sip!BlankLine(t) = b
    BY DEF b
  <2> QED
    BY <1>4, <1>5, <1>6, <2>1 DEF Sip!HeaderLines, Sip!HeaderSection
<1>8. Sip!BodyOf(u) = SubSeq(u, b + 1, Len(u))
  <2>1. Len(SubSeq(u, b + 1, Len(u))) = Len(u) - b /\ Len(u) - b >= 2
    BY <1>1, <1>5
  <2>2. SubSeq(u, b + 1, Len(u)) # <<Sip!Empty>>
    <3>1. Len(<<Sip!Empty>>) = 1
      OBVIOUS
    <3>2. Len(SubSeq(u, b + 1, Len(u))) # 1
      BY <1>1, <1>5, <2>1
    <3> QED
      BY <3>1, <3>2, Zenon
  <2> QED
    BY <1>4, <1>5, <2>2 DEF Sip!BodyOf
<1>9. u[1] = t[1] /\ u # <<>>
  BY <1>1, <1>5
<1> QED
  BY <1>4, <1>5, <1>7, <1>8, <1>9 DEF u, b

\* Once the blank line is there the headers are settled.
THEOREM BodyAlone == Spec => HeadersSettled
<1>1. text \in Seq(Lines) /\ [Next]_vars =>
        [IsSip /\ Sip!BlankLine(text) # 0 =>
           /\ IsSip'
           /\ Message'.headers = Message.headers
           /\ Message'.body = SubSeq(text', Sip!BlankLine(text) + 1, Len(text'))]_vars
  <2> SUFFICES ASSUME text \in Seq(Lines), Next, IsSip, Sip!BlankLine(text) # 0
               PROVE  /\ IsSip'
                      /\ Message'.headers = Message.headers
                      /\ Message'.body = SubSeq(text', Sip!BlankLine(text) + 1, Len(text'))
    OBVIOUS
  <2>1. PICK line \in Lines : text' = Append(text, line) /\ protocol' = "sip"
    <3>1. ReadSipLine
      BY DEF Next, ReadSdpLine, IsSip
    <3> QED
      BY <3>1, LinesAre DEF ReadSipLine
  <2>2. /\ text'[1] = text[1] /\ text' # <<>>
        /\ Sip!HeaderLines(text') = Sip!HeaderLines(text)
        /\ Sip!BodyOf(text') = SubSeq(text', Sip!BlankLine(text) + 1, Len(text'))
    BY <2>1, BlankLineStays
  <2>3. IsSip'
    BY <2>1, <2>2 DEF IsSip, Sip!WellFormed
  <2> QED
    BY <2>2, <2>3 DEF Message, Sip!ParseSip
<1> QED
  BY <1>1, TextType, PTL DEF HeadersSettled, Spec

-------------------------------------------------------------------------------
\* The first m= line of a text, if there is one, is the first of its type.
LEMMA FirstMediaIs ==
  ASSUME NEW t, Len(t) \in Nat
  PROVE  LET Media == {i \in 1 .. Len(t) : t[i].type = "m"}
         IN  /\ Sdp!FirstMedia(t) # 0 =>
                  Sdp!FirstMedia(t) \in Media /\ \A i \in Media : Sdp!FirstMedia(t) <= i
             /\ \A m \in Media : (\A i \in Media : m <= i) => Sdp!FirstMedia(t) = m
<1> DEFINE Media == {i \in 1 .. Len(t) : t[i].type = "m"}
<1>1. Sdp!FirstMedia(t) = IF Media # {} THEN Sdp!Min(Media) ELSE 0
  BY DEF Sdp!FirstMedia, Sdp!SelectInSeq
<1>2. Media \in SUBSET Nat /\ 0 \notin Media
  OBVIOUS
<1> HIDE DEF Media
<1>3. Media # {} => Sdp!Min(Media) \in Media /\ \A i \in Media : Sdp!Min(Media) <= i
  BY <1>2, Smallest DEF Sdp!Min
<1>4. ASSUME NEW m \in Media, \A i \in Media : m <= i
      PROVE  Sdp!FirstMedia(t) = m
  <2> DEFINE k == Sdp!Min(Media)
  <2>1. Sdp!FirstMedia(t) = k
    BY <1>1
  <2>2. k \in Nat /\ m \in Nat /\ k <= m /\ m <= k
    BY <1>2, <1>3, <1>4
  <2> HIDE DEF k
  <2> QED
    BY <2>1, <2>2
<1> QED
  BY <1>1, <1>3, <1>4 DEF Media

\* The lines from the first m= line on are a text that begins with an m= line.
LEMMA MediaLinesAre ==
  ASSUME NEW t \in Seq(Lines), Sdp!FirstMedia(t) # 0
  PROVE  /\ Sdp!FirstMedia(t) \in 1 .. Len(t)
         /\ Sdp!MediaLines(t) \in Seq(Lines)
         /\ Len(Sdp!MediaLines(t)) = Len(t) - Sdp!FirstMedia(t) + 1
         /\ \A i \in 1 .. Len(t) - Sdp!FirstMedia(t) + 1 :
              Sdp!MediaLines(t)[i] = t[i + Sdp!FirstMedia(t) - 1]
         /\ Sdp!MediaLines(t)[1].type = "m"
<1> DEFINE m == Sdp!FirstMedia(t)
<1>1. m \in 1 .. Len(t) /\ t[m].type = "m"
  BY FirstMediaIs
<1> HIDE DEF m
<1>2. /\ SubSeq(t, m, Len(t)) \in Seq(Lines) /\ Len(SubSeq(t, m, Len(t))) = Len(t) - m + 1
      /\ \A i \in 1 .. Len(t) - m + 1 : SubSeq(t, m, Len(t))[i] = t[i + m - 1]
  BY <1>1
<1>3. 1 \in 1 .. Len(t) - m + 1 /\ 1 + m - 1 = m
  BY <1>1
<1>4. SubSeq(t, m, Len(t))[1].type = "m"
  BY <1>1, <1>2, <1>3
<1> QED
  BY <1>1, <1>2, <1>4 DEF m, Sdp!MediaLines

\* A line more leaves the session lines alone, and comes last in the media lines.
LEMMA MediaLinesGrow ==
  ASSUME NEW t \in Seq(Lines), NEW line \in Lines, Sdp!FirstMedia(t) # 0
  PROVE  LET u == Append(t, line)
         IN  /\ Sdp!FirstMedia(u) = Sdp!FirstMedia(t)
             /\ Sdp!SessionLines(u) = Sdp!SessionLines(t)
             /\ Sdp!MediaLines(u) = Append(Sdp!MediaLines(t), line)
<1> DEFINE u == Append(t, line)
           m == Sdp!FirstMedia(t)
           MediaT == {i \in 1 .. Len(t) : t[i].type = "m"}
           MediaU == {i \in 1 .. Len(u) : u[i].type = "m"}
<1>1. /\ Len(t) \in Nat /\ Len(u) = Len(t) + 1 /\ u \in Seq(Lines)
      /\ u[Len(t) + 1] = line /\ \A i \in 1 .. Len(t) : u[i] = t[i]
  OBVIOUS
<1>2. m \in MediaT /\ \A i \in MediaT : m <= i
  BY FirstMediaIs
<1> HIDE DEF u, m
<1>3. m \in MediaU /\ \A i \in MediaU : m <= i
  <2>1. m \in MediaU
    BY <1>1, <1>2
  <2>2. ASSUME NEW i \in MediaU
        PROVE  m <= i
    <3>1. CASE i \in 1 .. Len(t)
      <4>1. i \in MediaT
        BY <1>1, <3>1
      <4> QED
        BY <1>2, <4>1
    <3>2. CASE ~(i \in 1 .. Len(t))
      BY <1>1, <1>2, <3>2
    <3> QED
      BY <3>1, <3>2
  <2> QED
    BY <2>1, <2>2
<1>4. Sdp!FirstMedia(u) = m
  BY <1>1, <1>3, FirstMediaIs
<1>5. m \in 1 .. Len(t) /\ m # 0
  BY <1>2
<1>6. SubSeq(u, 1, m - 1) = SubSeq(t, 1, m - 1)
  <2> DEFINE v == SubSeq(u, 1, m - 1)
             w == SubSeq(t, 1, m - 1)
  <2>1. /\ v \in Seq(Lines) /\ Len(v) = m - 1 /\ \A i \in 1 .. m - 1 : v[i] = u[i]
        /\ w \in Seq(Lines) /\ Len(w) = m - 1 /\ \A i \in 1 .. m - 1 : w[i] = t[i]
    BY <1>1, <1>5
  <2> HIDE DEF v, w
  <2>2. \A i \in 1 .. Len(v) : v[i] = w[i]
    BY <1>1, <1>5, <2>1
  <2>3. v = w
    BY <2>1, <2>2, SeqEqual
  <2> QED
    BY <2>3 DEF v, w
<1>7. Sdp!SessionLines(u) = Sdp!SessionLines(t)
  <2>1. Sdp!FirstMedia(t) = m
    BY DEF m
  <2> QED
    BY <1>4, <1>5, <1>6, <2>1 DEF Sdp!SessionLines
<1>8. Sdp!MediaLines(u) = Append(Sdp!MediaLines(t), line)
  <2> DEFINE v == Sdp!MediaLines(u)
             w == Sdp!MediaLines(t)
             x == Append(w, line)
             n == Len(t) - m + 1
  <2>1. /\ w \in Seq(Lines) /\ Len(w) = n /\ \A i \in 1 .. n : w[i] = t[i + m - 1]
    BY MediaLinesAre DEF m
  <2>2. /\ v \in Seq(Lines) /\ Len(v) = n + 1 /\ \A i \in 1 .. n + 1 : v[i] = u[i + m - 1]
    <3>1. Sdp!FirstMedia(u) # 0
      BY <1>4, <1>5
    <3>2. Len(u) - m + 1 = n + 1
      BY <1>1, <1>5
    <3> QED
      BY <1>1, <1>4, <3>1, <3>2, MediaLinesAre
  <2> HIDE DEF v, w
  <2>3. n \in Nat
    BY <1>1, <1>5
  <2>4. /\ x \in Seq(Lines) /\ Len(x) = n + 1 /\ x[n + 1] = line
        /\ \A i \in 1 .. n : x[i] = w[i]
    BY <2>1
  <2> HIDE DEF x
  <2>5. ASSUME NEW i \in 1 .. n + 1
        PROVE  v[i] = x[i]
    <3>1. CASE i = n + 1
      <4>1. i + m - 1 = Len(t) + 1
        BY <1>1, <1>5, <3>1
      <4> QED
        BY <1>1, <2>2, <2>4, <3>1, <4>1
    <3>2. CASE i # n + 1
      <4>1. i \in 1 .. n /\ i + m - 1 \in 1 .. Len(t)
        BY <1>1, <1>5, <3>2
      <4> QED
        BY <1>1, <2>1, <2>2, <2>4, <4>1
    <3> QED
      BY <3>1, <3>2
  <2>6. v = x
    BY <2>2, <2>3, <2>4, <2>5, SeqEqual
  <2> QED
    BY <2>6 DEF v, w, x
<1> QED
  BY <1>4, <1>7, <1>8 DEF u, m

-------------------------------------------------------------------------------
(***************************************************************************)
(* The recursive functions the parser and the negotiation are written      *)
(* with, as sequences of states: the second pass of parse_sdp, the filter  *)
(* of negotiate_codecs, and the concatenation of the codecs of a section.  *)
(***************************************************************************)

\* The state after x once e has been dealt with.
TakeStep(way, keys, x, e) ==
  CASE way = "read" -> Sdp!ReadMediaLine(x, e)
    [] way = "keep" -> IF Sdp!CodecKey(e) \in keys THEN Append(x, e) ELSE x
    [] way = "join" -> x \o e
    [] way = "unfold" -> Sip!Unfold(x, e)
    [] way = "assign" -> Sip!AddHeader(x, e)

\* f are the states over the first n elements of s.
Steps(f, way, keys, start, s, n) ==
  f[0] = start /\ \A i \in 1 .. n : f[i] = TakeStep(way, keys, f[i - 1], s[i])

\* There are such states, as a function on 0 .. n.
LEMMA StepsExist ==
  ASSUME NEW way, NEW keys, NEW start, NEW s, NEW n \in Nat
  PROVE  \E f : f = [i \in 0 .. n |-> f[i]] /\ Steps(f, way, keys, start, s, n)
<1> DEFINE Good(m) == \E f : f = [i \in 0 .. m |-> f[i]] /\ Steps(f, way, keys, start, s, m)
           Bad == {m \in Nat : ~Good(m)}
<1>1. SUFFICES ASSUME n \in Bad
               PROVE  FALSE
  OBVIOUS
<1>2. PICK m \in Bad : \A k \in Bad : m <= k
  <2>1. Bad \in SUBSET Nat /\ Bad # {}
    BY <1>1
  <2> QED
    BY <2>1, Smallest, Zenon
<1>3. m # 0
  <2> DEFINE f == [i \in 0 .. 0 |-> start]
  <2>1. f = [i \in 0 .. 0 |-> f[i]] /\ Steps(f, way, keys, start, s, 0)
    BY DEF Steps
  <2> QED
    BY <2>1
<1>4. m \in Nat /\ m - 1 \in Nat
  BY <1>3
<1>5. Good(m - 1)
  BY <1>2, <1>4
<1>6. PICK f : f = [i \in 0 .. m - 1 |-> f[i]] /\ Steps(f, way, keys, start, s, m - 1)
  BY <1>5
<1> DEFINE g == [i \in 0 .. m |-> IF i = m THEN TakeStep(way, keys, f[m - 1], s[m]) ELSE f[i]]
<1>7. /\ g[0] = f[0] /\ g[m] = TakeStep(way, keys, f[m - 1], s[m])
      /\ \A i \in 0 .. m - 1 : g[i] = f[i]
  BY <1>3, <1>4
<1>8. g = [i \in 0 .. m |-> g[i]]
  OBVIOUS
<1> HIDE DEF g
<1>9. ASSUME NEW i \in 1 .. m
      PROVE  g[i] = TakeStep(way, keys, g[i - 1], s[i])
  <2>1. CASE i = m
    <3>1. g[i - 1] = f[m - 1]
      BY <1>4, <1>7, <2>1
    <3> QED
      BY <1>7, <2>1, <3>1
  <2>2. CASE i # m
    <3>1. i \in 1 .. m - 1 /\ i \in 0 .. m - 1 /\ i - 1 \in 0 .. m - 1
      BY <1>4, <2>2
    <3>2. f[i] = TakeStep(way, keys, f[i - 1], s[i])
      BY <1>6, <3>1 DEF Steps
    <3> QED
      BY <1>7, <3>1, <3>2
  <2> QED
    BY <2>1, <2>2
<1>10. Good(m)
  <2>1. Steps(g, way, keys, start, s, m)
    BY <1>6, <1>7, <1>9 DEF Steps
  <2> QED
    BY <1>8, <2>1
<1> QED
  BY <1>10

\* Where the steps are the same, so are the states.
LEMMA StepsAgree ==
  ASSUME NEW n \in Nat, NEW way, NEW keys, NEW other, NEW start, NEW f, NEW g, NEW s, NEW t,
         Steps(f, way, keys, start, s, n), Steps(g, way, other, start, t, n),
         \A i \in 1 .. n : \A x : TakeStep(way, keys, x, s[i]) = TakeStep(way, other, x, t[i])
  PROVE  f[n] = g[n]
<1> DEFINE Bad == {i \in 0 .. n : f[i] # g[i]}
<1>1. SUFFICES ASSUME Bad # {}
               PROVE  FALSE
  OBVIOUS
<1>2. PICK m \in Bad : \A k \in Bad : m <= k
  <2>1. Bad \in SUBSET Nat /\ Bad # {}
    BY <1>1
  <2> QED
    BY <2>1, Smallest, Zenon
<1>3. m # 0
  BY DEF Steps
<1>4. m \in 1 .. n /\ m - 1 \in 0 .. n
  BY <1>3
<1>5. f[m - 1] = g[m - 1]
  BY <1>2, <1>4
<1>6. /\ f[m] = TakeStep(way, keys, f[m - 1], s[m])
      /\ g[m] = TakeStep(way, other, g[m - 1], t[m])
  BY <1>4 DEF Steps
<1>7. f[m] = g[m]
  BY <1>4, <1>5, <1>6
<1> QED
  BY <1>7

-------------------------------------------------------------------------------
(***************************************************************************)
(* The second pass of parse_sdp.                                           *)
(***************************************************************************)

\* f are the states of the pass over the first n lines.
Passes(f, lines, n) == Steps(f, "read", {}, [closed |-> <<>>, current |-> None], lines, n)

\* Each state is what ReadMediaLine makes of the one before.
LEMMA PassesAre ==
  \A f, lines, n : Passes(f, lines, n) <=>
    /\ f[0] = [closed |-> <<>>, current |-> None]
    /\ \A i \in 1 .. n : f[i] = Sdp!ReadMediaLine(f[i - 1], lines[i])
BY DEF Passes, Steps, TakeStep

\* The result is the last of the states.
LEMMA SecondPassIs ==
  ASSUME NEW lines, Len(lines) \in Nat
  PROVE  \E f : Passes(f, lines, Len(lines)) /\ Sdp!SecondPass(lines) = f[Len(lines)]
<1> DEFINE n == Len(lines)
           step(f) == [i \in 0 .. n |-> IF i = 0 THEN [closed |-> <<>>, current |-> None]
                                        ELSE Sdp!ReadMediaLine(f[i - 1], lines[i])]
           st == CHOOSE f : f = step(f)
<1>1. PICK g : g = [i \in 0 .. n |-> g[i]] /\ Passes(g, lines, n)
  BY StepsExist DEF Passes
<1>2. g = step(g)
  BY <1>1, PassesAre
<1>3. st = step(st)
  BY <1>2
<1>4. Sdp!SecondPass(lines) = st[n]
  BY DEF Sdp!SecondPass
<1> HIDE DEF st
<1>5. Passes(st, lines, n)
  BY <1>3, PassesAre
<1> QED
  BY <1>4, <1>5

\* One line more is one step more.
LEMMA SecondPassGoesOn ==
  ASSUME NEW S, NEW lines \in Seq(S), NEW line \in S
  PROVE  Sdp!SecondPass(Append(lines, line)) = Sdp!ReadMediaLine(Sdp!SecondPass(lines), line)
<1> DEFINE n == Len(lines)
           u == Append(lines, line)
<1>1. n \in Nat /\ Len(u) = n + 1 /\ u[n + 1] = line /\ \A i \in 1 .. n : u[i] = lines[i]
  OBVIOUS
<1> HIDE DEF u
<1>2. PICK f : Passes(f, lines, n) /\ Sdp!SecondPass(lines) = f[n]
  BY <1>1, SecondPassIs
<1>3. PICK g : Passes(g, u, n + 1) /\ Sdp!SecondPass(u) = g[n + 1]
  BY <1>1, SecondPassIs
<1>4. Passes(g, u, n)
  BY <1>1, <1>3, PassesAre
<1>5. g[n] = f[n]
  <2>1. \A i \in 1 .. n : \A x : TakeStep("read", {}, x, u[i]) = TakeStep("read", {}, x, lines[i])
    BY <1>1
  <2> QED
    BY <1>1, <1>2, <1>4, <2>1, StepsAgree DEF Passes
<1>6. g[n + 1] = Sdp!ReadMediaLine(g[n], u[n + 1])
  BY <1>1, <1>3, PassesAre
<1> QED
  BY <1>1, <1>2, <1>3, <1>5, <1>6 DEF u

-------------------------------------------------------------------------------
\* s is a sequence.
IsSeq(s) == \E S : s \in Seq(S)

\* What Append makes of a sequence, and what is left of it without the last element.
LEMMA AppendIs ==
  ASSUME NEW s, IsSeq(s), NEW e
  PROVE  /\ IsSeq(Append(s, e))
         /\ Len(s) \in Nat /\ Len(Append(s, e)) = Len(s) + 1
         /\ Append(s, e)[Len(s) + 1] = e
         /\ \A i \in 1 .. Len(s) : Append(s, e)[i] = s[i]
         /\ SubSeq(Append(s, e), 1, Len(s)) = s
<1>1. PICK S : s \in Seq(S)
  BY Zenon DEF IsSeq
<1> DEFINE T == S \cup {e}
           u == Append(s, e)
<1>2. s \in Seq(T) /\ e \in T
  BY <1>1, SeqDef
<1> HIDE DEF T
<1>3. /\ u \in Seq(T) /\ Len(s) \in Nat /\ Len(u) = Len(s) + 1 /\ u[Len(s) + 1] = e
      /\ \A i \in 1 .. Len(s) : u[i] = s[i]
  BY <1>2
<1>4. SubSeq(u, 1, Len(s)) = s
  <2> HIDE DEF u
  <2> DEFINE v == SubSeq(u, 1, Len(s))
  <2>1. v \in Seq(T) /\ Len(v) = Len(s) /\ \A i \in 1 .. Len(s) : v[i] = u[i]
    BY <1>3
  <2> HIDE DEF v
  <2>2. v = s
    BY <1>2, <1>3, <2>1, SeqEqual
  <2> QED
    BY <2>2 DEF v
<1>5. IsSeq(u)
  <2> HIDE DEF u
  <2> QED
    BY <1>3, Zenon DEF IsSeq
<1> QED
  BY <1>3, <1>4, <1>5

\* A state of the pass: the sections closed so far, and the one that is open.
IsPassState(st) == st = [closed |-> st.closed, current |-> st.current] /\ IsSeq(st.closed)

\* A line leads from one to another.
LEMMA PassStateStep ==
  ASSUME NEW st, IsPassState(st), NEW line
  PROVE  IsPassState(Sdp!ReadMediaLine(st, line))
<1> DEFINE c == st.closed
           b == Sdp!BuildMedia(st.current)
           a == Sdp!AddAttribute(st.current, line.value)
           k == Sdp!MediaBuilder(line.value)
<1>1. st = [closed |-> c, current |-> st.current] /\ IsSeq(c) /\ IsSeq(Append(c, b))
  BY AppendIs DEF IsPassState
<1> HIDE DEF c, b, a, k
<1>2. CASE line.type = "m"
  <2>1. Sdp!ReadMediaLine(st, line)
          = [closed |-> IF st.current = None THEN c ELSE Append(c, b), current |-> k]
    BY <1>2 DEF Sdp!ReadMediaLine, c, b, k
  <2> QED
    BY <1>1, <2>1 DEF IsPassState
<1>3. CASE line.type = "a"
  <2>1. Sdp!ReadMediaLine(st, line) = [st EXCEPT !.current = a]
    BY <1>3 DEF Sdp!ReadMediaLine, a
  <2>2. Sdp!ReadMediaLine(st, line) = [closed |-> c, current |-> a]
    BY <1>1, <2>1
  <2> QED
    BY <1>1, <2>2 DEF IsPassState
<1>4. CASE line.type # "m" /\ line.type # "a"
  <2>1. Sdp!ReadMediaLine(st, line) = st
    BY <1>4 DEF Sdp!ReadMediaLine
  <2> QED
    BY <2>1
<1> QED
  BY <1>2, <1>3, <1>4

\* The result of the pass is such a state.
LEMMA SecondPassState ==
  ASSUME NEW lines, Len(lines) \in Nat
  PROVE  IsPassState(Sdp!SecondPass(lines))
<1> DEFINE n == Len(lines)
<1>1. PICK f : Passes(f, lines, n) /\ Sdp!SecondPass(lines) = f[n]
  BY SecondPassIs
<1> DEFINE Bad == {i \in 0 .. n : ~IsPassState(f[i])}
<1>2. ASSUME Bad # {}
      PROVE  FALSE
  <2>1. PICK m \in Bad : \A k \in Bad : m <= k
    <3>1. Bad \in SUBSET Nat /\ Bad # {}
      BY <1>2
    <3> QED
      BY <3>1, Smallest, Zenon
  <2>2. m # 0
    <3>1. <<>> \in Seq({})
      OBVIOUS
    <3>2. IsSeq(<<>>)
      BY <3>1, Zenon DEF IsSeq
    <3>3. IsPassState([closed |-> <<>>, current |-> None])
      BY <3>2 DEF IsPassState
    <3> QED
      BY <1>1, <3>3, PassesAre
  <2>3. m \in 1 .. n /\ m - 1 \in 0 .. n
    BY <2>2
  <2>4. IsPassState(f[m - 1])
    BY <2>1, <2>3
  <2>5. f[m] = Sdp!ReadMediaLine(f[m - 1], lines[m])
    BY <1>1, <2>3, PassesAre
  <2>6. IsPassState(f[m])
    BY <2>4, <2>5, PassStateStep
  <2> QED
    BY <2>6
<1> QED
  BY <1>1, <1>2

\* A line more after the first m= line changes the last section, or adds one.
LEMMA LastSectionGrows ==
  ASSUME NEW t \in Seq(Lines), NEW line \in Lines, Sdp!FirstMedia(t) # 0
  PROVE  LastSectionGrew(t, Append(t, line))
<1> DEFINE u == Append(t, line)
           M == Sdp!MediaLines(t)
           st == Sdp!SecondPass(M)
           c == st.closed
           b == Sdp!BuildMedia(st.current)
           k == Sdp!BuildMedia(Sdp!MediaBuilder(line.value))
           before == Sdp!ParseSdp(t)
           after == Sdp!ParseSdp(u)
           n == Len(c) + 1
<1>1. M \in Seq(Lines) /\ Sdp!MediaLines(u) = Append(M, line)
      /\ Sdp!SessionLines(u) = Sdp!SessionLines(t)
  BY MediaLinesAre, MediaLinesGrow
<1>2. Last(u) = line
  BY DEF Last
<1>3. [after EXCEPT !.media = before.media] = before
  <2>1. \A type, default : Sdp!Field(u, type, default) = Sdp!Field(t, type, default)
    BY <1>1 DEF Sdp!Field
  <2> HIDE DEF u
  <2> QED
    BY <2>1 DEF Sdp!ParseSdp
<1>4. IsPassState(st)
  <2>1. Len(M) \in Nat
    BY <1>1
  <2> QED
    BY <2>1, SecondPassState
<1>5. Sdp!SecondPass(Append(M, line)) = Sdp!ReadMediaLine(st, line)
  BY <1>1, SecondPassGoesOn
<1>6. before.media = Append(c, b)
  BY DEF Sdp!ParseSdp, Sdp!ParseMedia
<1> DEFINE after_st == Sdp!ReadMediaLine(st, line)
<1>7. after.media = Append(after_st.closed, Sdp!BuildMedia(after_st.current))
  BY <1>1, <1>5 DEF Sdp!ParseSdp, Sdp!ParseMedia
<1>8. /\ IsSeq(before.media) /\ Len(c) \in Nat /\ Len(before.media) = n
      /\ SubSeq(before.media, 1, n - 1) = c /\ before.media[n] = b
  <2>1. IsSeq(c)
    BY <1>4 DEF IsPassState
  <2> HIDE DEF c, b, before
  <2>2. Len(c) \in Nat /\ n - 1 = Len(c)
    BY <2>1, AppendIs
  <2> QED
    BY <1>6, <2>1, <2>2, AppendIs
<1>9. IsSeq(c)
  BY <1>4 DEF IsPassState
<1>10. ASSUME after_st.closed = c
       PROVE  Len(after.media) = n /\ SubSeq(after.media, 1, n - 1) = c
  <2> DEFINE d == Sdp!BuildMedia(after_st.current)
  <2>1. after.media = Append(c, d)
    BY <1>7, <1>10
  <2> HIDE DEF c, d, after
  <2>2. n - 1 = Len(c)
    BY <1>8
  <2> QED
    BY <1>9, <2>1, <2>2, AppendIs
<1>11. ASSUME after_st.closed = Append(c, b), after_st.current = Sdp!MediaBuilder(line.value)
       PROVE  /\ Len(after.media) = n + 1 /\ SubSeq(after.media, 1, n - 1) = c
              /\ after.media[n] = b /\ after.media[n + 1] = k
  <2>1. after.media = Append(before.media, k)
    BY <1>6, <1>7, <1>11
  <2> HIDE DEF c, b, k, before, after
  <2>2. /\ Len(after.media) = n + 1 /\ after.media[n + 1] = k
        /\ SubSeq(after.media, 1, n) = before.media
        /\ \A i \in 1 .. n : after.media[i] = before.media[i]
        /\ IsSeq(after.media)
    BY <1>8, <2>1, AppendIs
  <2>3. n \in 1 .. n /\ n \in Nat
    BY <1>8
  <2>4. after.media[n] = b
    BY <1>8, <2>2, <2>3
  <2>5. SubSeq(after.media, 1, n - 1) = SubSeq(before.media, 1, n - 1)
    <3> DEFINE v == after.media
               w == before.media
    <3>1. /\ SubSeq(v, 1, n - 1) = [i \in 1 .. n - 1 |-> v[i]]
          /\ SubSeq(w, 1, n - 1) = [i \in 1 .. n - 1 |-> w[i]]
      <4>1. PICK S : v \in Seq(S)
        BY <2>2, Zenon DEF IsSeq
      <4>2. PICK T : w \in Seq(T)
        BY <1>8, Zenon DEF IsSeq
      <4> HIDE DEF v, w
      <4> QED
        BY <2>3, <4>1, <4>2
    <3>2. \A i \in 1 .. n - 1 : v[i] = w[i]
      BY <2>2, <2>3
    <3> HIDE DEF v, w
    <3>3. SubSeq(v, 1, n - 1) = SubSeq(w, 1, n - 1)
      BY <3>1, <3>2
    <3> QED
      BY <3>3 DEF v, w
  <2> QED
    BY <1>8, <2>2, <2>4, <2>5
<1>12. after_st.closed = c \/ (after_st.closed = Append(c, b)
                                /\ after_st.current = Sdp!MediaBuilder(line.value))
  <2>1. CASE line.type = "m"
    BY <2>1 DEF Sdp!ReadMediaLine
  <2>2. CASE line.type = "a"
    <3> DEFINE a == Sdp!AddAttribute(st.current, line.value)
    <3>1. after_st = [st EXCEPT !.current = a]
      BY <2>2 DEF Sdp!ReadMediaLine
    <3>2. st = [closed |-> c, current |-> st.current]
      BY <1>4 DEF IsPassState
    <3> HIDE DEF a, st, after_st
    <3> QED
      BY <3>1, <3>2
  <2>3. CASE line.type # "m" /\ line.type # "a"
    BY <2>3 DEF Sdp!ReadMediaLine
  <2> QED
    BY <2>1, <2>2, <2>3
<1>13. /\ Len(after.media) \in {Len(before.media), Len(before.media) + 1}
       /\ SubSeq(after.media, 1, Len(before.media) - 1)
            = SubSeq(before.media, 1, Len(before.media) - 1)
       /\ Len(after.media) = Len(before.media) + 1 =>
            /\ after.media[Len(before.media)] = before.media[Len(before.media)]
            /\ after.media[Len(before.media) + 1] = k
  <2> HIDE DEF after, before, after_st, c, b, k
  <2>1. CASE after_st.closed = c
    <3>1. n # n + 1
      BY <1>8
    <3> QED
      BY <1>8, <1>10, <2>1, <3>1
  <2>2. CASE after_st.closed = Append(c, b) /\ after_st.current = Sdp!MediaBuilder(line.value)
    BY <1>8, <1>11, <2>2
  <2> QED
    BY <1>12, <2>1, <2>2
<1> HIDE DEF u
<1> QED
  BY <1>2, <1>3, <1>13 DEF LastSectionGrew, u

\* A line after the first m= line reaches the section opened last alone.
THEOREM OnlyLastSectionGrows == Spec => SectionsClosed
<1>1. text \in Seq(Lines) /\ [Next]_vars =>
        [protocol = "sdp" /\ Sdp!WellFormed(text) /\ Sdp!WellFormed(text')
           => LastSectionGrew(text, text')]_vars
  <2> SUFFICES ASSUME text \in Seq(Lines), Next, protocol = "sdp", Sdp!WellFormed(text)
               PROVE  LastSectionGrew(text, text')
    OBVIOUS
  <2>1. PICK line \in Lines : text' = Append(text, line)
    <3>1. ReadSdpLine
      BY DEF Next, ReadSipLine
    <3> QED
      BY <3>1, LinesAre DEF ReadSdpLine
  <2>2. Sdp!FirstMedia(text) # 0
    BY DEF Sdp!WellFormed
  <2> QED
    BY <2>1, <2>2, LastSectionGrows
<1> QED
  BY <1>1, TextType, PTL DEF SectionsClosed, Spec

-------------------------------------------------------------------------------
(***************************************************************************)
(* The codecs of a section are a sequence.                                 *)
(***************************************************************************)

\* Two sequences are one if they are equally long and have the same elements.
LEMMA SameSeq ==
  ASSUME NEW s, NEW t, IsSeq(s), IsSeq(t), Len(s) = Len(t), \A i \in 1 .. Len(s) : s[i] = t[i]
  PROVE  s = t
<1>1. PICK S : s \in Seq(S)
  BY Zenon DEF IsSeq
<1>2. PICK T : t \in Seq(T)
  BY Zenon DEF IsSeq
<1>3. s = [i \in 1 .. Len(s) |-> s[i]] /\ t = [i \in 1 .. Len(t) |-> t[i]]
  BY <1>1, <1>2
<1> QED
  BY <1>3

\* A function on 1 .. n is a sequence of length n.
LEMMA FunctionIsSeq ==
  ASSUME NEW n \in Nat, NEW s, s = [i \in 1 .. n |-> s[i]]
  PROVE  IsSeq(s) /\ Len(s) = n
<1> DEFINE S == {s[i] : i \in 1 .. n}
<1>1. s \in [1 .. n -> S]
  OBVIOUS
<1>2. s \in Seq(S) /\ Len(s) = n
  <2> HIDE DEF S
  <2> QED
    BY <1>1, SeqDef
<1> HIDE DEF S
<1> QED
  BY <1>2, Zenon DEF IsSeq

\* The length and the domain of a sequence.
LEMMA SeqHas ==
  ASSUME NEW s, IsSeq(s)
  PROVE  Len(s) \in Nat /\ DOMAIN s = 1 .. Len(s) /\ s = [i \in 1 .. Len(s) |-> s[i]]
<1>1. PICK S : s \in Seq(S)
  BY Zenon DEF IsSeq
<1> QED
  BY <1>1

\* Two sequences one after the other are a sequence.
LEMMA JoinedIsSeq ==
  ASSUME NEW s, NEW t, IsSeq(s), IsSeq(t)
  PROVE  IsSeq(s \o t)
<1>1. PICK S : s \in Seq(S)
  BY Zenon DEF IsSeq
<1>2. PICK T : t \in Seq(T)
  BY Zenon DEF IsSeq
<1> DEFINE U == S \cup T
<1>3. s \in Seq(U) /\ t \in Seq(U)
  BY <1>1, <1>2, SeqDef
<1> HIDE DEF U
<1>4. s \o t \in Seq(U)
  BY <1>3
<1> QED
  BY <1>4, Zenon DEF IsSeq

\* The empty sequence, put first, changes no sequence.
LEMMA NothingBefore ==
  ASSUME NEW s, IsSeq(s)
  PROVE  <<>> \o s = s
<1>1. PICK S : s \in Seq(S)
  BY Zenon DEF IsSeq
<1>2. <<>> \in Seq(S) /\ Len(<<>>) = 0
  OBVIOUS
<1> DEFINE u == <<>> \o s
<1>3. u \in Seq(S) /\ Len(u) = Len(s) /\ \A i \in 1 .. Len(s) : u[i] = s[i]
  BY <1>1
<1> HIDE DEF u
<1>4. u = s
  BY <1>1, <1>3, SeqEqual
<1> QED
  BY <1>4 DEF u

\* The steps of FlattenSeq, from nothing.
LEMMA FlatSteps ==
  ASSUME NEW n \in Nat, NEW s, s = [i \in 1 .. n |-> s[i]], \A i \in 1 .. n : IsSeq(s[i])
  PROVE  \E f : /\ f[0] = <<>> /\ \A i \in 1 .. n : f[i] = f[i - 1] \o s[i]
                /\ \A i \in 0 .. n : IsSeq(f[i])
                /\ Sdp!FlattenSeq(s) = f[n]
<1>1. IsSeq(s) /\ Len(s) = n
  BY FunctionIsSeq
<1>2. IsSeq(<<>>)
  <2>1. <<>> \in Seq({})
    OBVIOUS
  <2> QED
    BY <2>1, Zenon DEF IsSeq
<1>3. \E f : /\ f[0] = <<>> /\ \A i \in 1 .. n : f[i] = f[i - 1] \o s[i]
             /\ Sdp!FlattenSeq(s) = f[n]
  <2>1. CASE n = 0
    <3>1. <<>> = s
      <4>1. Len(<<>>) = 0 /\ \A i \in 1 .. Len(<<>>) : <<>>[i] = s[i]
        OBVIOUS
      <4> QED
        BY <1>1, <1>2, <2>1, <4>1, SameSeq
    <3> DEFINE f == [i \in {0} |-> s]
    <3>2. f[0] = <<>> /\ f[n] = s /\ \A i \in 1 .. n : f[i] = f[i - 1] \o s[i]
      BY <2>1, <3>1
    <3>3. Sdp!FlattenSeq(s) = s
      BY <1>1, <2>1 DEF Sdp!FlattenSeq
    <3> HIDE DEF f
    <3> QED
      BY <3>2, <3>3
  <2>2. CASE n # 0
    <3> DEFINE step(f) == [i \in 1 .. n |-> IF i = 1 THEN s[i] ELSE f[i - 1] \o s[i]]
               flat == CHOOSE f : f = step(f)
    <3>1. PICK g : Steps(g, "join", {}, <<>>, s, n)
      BY StepsExist
    <3>2. g[0] = <<>> /\ \A i \in 1 .. n : g[i] = g[i - 1] \o s[i]
      BY <3>1 DEF Steps, TakeStep
    <3> DEFINE h == [i \in 1 .. n |-> g[i]]
    <3>3. 1 \in 1 .. n /\ 1 - 1 = 0 /\ <<>> \o s[1] = s[1]
      <4>1. 1 \in 1 .. n
        BY <2>2
      <4> QED
        BY <4>1, NothingBefore
    <3>4. h = step(h)
      <4>1. ASSUME NEW i \in 1 .. n
            PROVE  g[i] = IF i = 1 THEN s[i] ELSE h[i - 1] \o s[i]
        <5>1. CASE i = 1
          BY <3>2, <3>3, <5>1
        <5>2. CASE i # 1
          <6>1. i - 1 \in 1 .. n
            BY <5>2
          <6> QED
            BY <3>2, <5>2, <6>1
        <5> QED
          BY <5>1, <5>2
      <4> QED
        BY <4>1
    <3> HIDE DEF h
    <3>5. flat = step(flat)
      BY <3>4
    <3>6. Sdp!FlattenSeq(s) = flat[n]
      BY <1>1, <2>2 DEF Sdp!FlattenSeq
    <3> HIDE DEF flat
    <3>7. \A i \in 1 .. n : flat[i] = IF i = 1 THEN s[i] ELSE flat[i - 1] \o s[i]
      BY <3>5
    <3> DEFINE f == [i \in 0 .. n |-> IF i = 0 THEN <<>> ELSE flat[i]]
    <3>8. f[0] = <<>> /\ \A i \in 1 .. n : f[i] = flat[i]
      OBVIOUS
    <3> HIDE DEF f
    <3>9. ASSUME NEW i \in 1 .. n
          PROVE  f[i] = f[i - 1] \o s[i]
      <4>1. CASE i = 1
        <5>1. flat[1] = s[1]
          BY <3>3, <3>7
        <5> QED
          BY <3>3, <3>8, <4>1, <5>1
      <4>2. CASE i # 1
        <5>1. i - 1 \in 1 .. n
          BY <4>2
        <5> QED
          BY <3>7, <3>8, <4>2, <5>1
      <4> QED
        BY <4>1, <4>2
    <3>10. f[n] = flat[n]
      BY <2>2, <3>8
    <3> QED
      BY <3>6, <3>8, <3>9, <3>10
  <2> QED
    BY <2>1, <2>2
<1>4. PICK f : /\ f[0] = <<>> /\ \A i \in 1 .. n : f[i] = f[i - 1] \o s[i]
               /\ Sdp!FlattenSeq(s) = f[n]
  BY <1>3
<1> DEFINE Bad == {i \in 0 .. n : ~IsSeq(f[i])}
<1>5. ASSUME Bad # {}
      PROVE  FALSE
  <2>1. PICK m \in Bad : \A k \in Bad : m <= k
    <3>1. Bad \in SUBSET Nat /\ Bad # {}
      BY <1>5
    <3> QED
      BY <3>1, Smallest, Zenon
  <2>2. m # 0
    BY <1>2, <1>4
  <2>3. m \in 1 .. n /\ m - 1 \in 0 .. n
    BY <2>2
  <2>4. IsSeq(f[m - 1]) /\ IsSeq(s[m])
    BY <2>1, <2>3
  <2>5. f[m] = f[m - 1] \o s[m]
    BY <1>4, <2>3
  <2>6. IsSeq(f[m])
    BY <2>4, <2>5, JoinedIsSeq
  <2> QED
    BY <2>6
<1> QED
  BY <1>4, <1>5

\* What two sequences one after the other have.
LEMMA JoinedHas ==
  ASSUME NEW s, NEW t, IsSeq(s), IsSeq(t)
  PROVE  /\ IsSeq(s \o t) /\ Len(s) \in Nat /\ Len(t) \in Nat
         /\ Len(s \o t) = Len(s) + Len(t)
         /\ \A i \in 1 .. Len(s) : (s \o t)[i] = s[i]
         /\ \A i \in 1 .. Len(t) : (s \o t)[Len(s) + i] = t[i]
         /\ Range(s \o t) = Range(s) \cup Range(t)
<1>1. PICK S : s \in Seq(S)
  BY Zenon DEF IsSeq
<1>2. PICK T : t \in Seq(T)
  BY Zenon DEF IsSeq
<1> DEFINE U == S \cup T
           u == s \o t
<1>3. s \in Seq(U) /\ t \in Seq(U)
  BY <1>1, <1>2, SeqDef
<1> HIDE DEF U
<1>4. /\ u \in Seq(U) /\ Len(s) \in Nat /\ Len(t) \in Nat /\ Len(u) = Len(s) + Len(t)
      /\ \A i \in 1 .. Len(s) + Len(t) : u[i] = IF i <= Len(s) THEN s[i] ELSE t[i - Len(s)]
  BY <1>3, ConcatProperties
<1>5. DOMAIN u = 1 .. Len(s) + Len(t) /\ DOMAIN s = 1 .. Len(s) /\ DOMAIN t = 1 .. Len(t)
  <2> HIDE DEF u
  <2> QED
    BY <1>3, <1>4
<1> HIDE DEF u
<1>6. \A i \in 1 .. Len(s) : u[i] = s[i]
  BY <1>4
<1>7. ASSUME NEW i \in 1 .. Len(t)
      PROVE  u[Len(s) + i] = t[i]
  <2>1. Len(s) + i \in 1 .. Len(s) + Len(t) /\ ~(Len(s) + i <= Len(s)) /\ (Len(s) + i) - Len(s) = i
    BY <1>4
  <2> QED
    BY <1>4, <2>1
<1>8. Range(u) = Range(s) \cup Range(t)
  <2>1. Range(u) \subseteq Range(s) \cup Range(t)
    <3> SUFFICES ASSUME NEW i \in 1 .. Len(s) + Len(t)
                 PROVE  u[i] \in Range(s) \cup Range(t)
      BY <1>5 DEF Range
    <3>1. CASE i <= Len(s)
      <4>1. i \in 1 .. Len(s)
        BY <3>1
      <4> QED
        BY <1>5, <1>6, <4>1 DEF Range
    <3>2. CASE ~(i <= Len(s))
      <4>1. i - Len(s) \in 1 .. Len(t)
        BY <1>4, <3>2
      <4>2. u[i] = t[i - Len(s)]
        BY <1>4, <3>2
      <4> QED
        BY <1>5, <4>1, <4>2 DEF Range
    <3> QED
      BY <3>1, <3>2
  <2>2. Range(s) \subseteq Range(u)
    <3> SUFFICES ASSUME NEW i \in 1 .. Len(s)
                 PROVE  s[i] \in Range(u)
      BY <1>5 DEF Range
    <3>1. i \in 1 .. Len(s) + Len(t)
      BY <1>4
    <3> QED
      BY <1>5, <1>6, <3>1 DEF Range
  <2>3. Range(t) \subseteq Range(u)
    <3> SUFFICES ASSUME NEW i \in 1 .. Len(t)
                 PROVE  t[i] \in Range(u)
      BY <1>5 DEF Range
    <3>1. Len(s) + i \in 1 .. Len(s) + Len(t)
      BY <1>4
    <3> QED
      BY <1>5, <1>7, <3>1 DEF Range
  <2> QED
    BY <2>1, <2>2, <2>3
<1>9. IsSeq(u)
  BY <1>4, Zenon DEF IsSeq
<1> QED
  BY <1>4, <1>6, <1>7, <1>8, <1>9 DEF u

\* The steps of FlattenSeq have the elements of what they have joined.
LEMMA FlatRange ==
  ASSUME NEW n \in Nat, NEW s, s = [i \in 1 .. n |-> s[i]], \A i \in 1 .. n : IsSeq(s[i])
  PROVE  IsSeq(Sdp!FlattenSeq(s)) /\ Range(Sdp!FlattenSeq(s)) = UNION {Range(s[i]) : i \in 1 .. n}
<1>1. PICK f : /\ f[0] = <<>> /\ \A i \in 1 .. n : f[i] = f[i - 1] \o s[i]
               /\ \A i \in 0 .. n : IsSeq(f[i])
               /\ Sdp!FlattenSeq(s) = f[n]
  BY FlatSteps
<1> DEFINE U(m) == UNION {Range(s[i]) : i \in 1 .. m}
           Bad == {m \in 0 .. n : Range(f[m]) # U(m)}
<1>2. ASSUME Bad # {}
      PROVE  FALSE
  <2>1. PICK m \in Bad : \A k \in Bad : m <= k
    <3>1. Bad \in SUBSET Nat /\ Bad # {}
      BY <1>2
    <3> QED
      BY <3>1, Smallest, Zenon
  <2>2. m # 0
    <3>1. Range(<<>>) = {}
      BY DEF Range
    <3>2. U(0) = {}
      OBVIOUS
    <3> HIDE DEF U
    <3>3. Range(f[0]) = U(0)
      BY <1>1, <3>1, <3>2
    <3> QED
      BY <3>3
  <2>3. m \in 1 .. n /\ m - 1 \in 0 .. n
    BY <2>2
  <2>4. Range(f[m - 1]) = U(m - 1)
    <3> HIDE DEF U
    <3> QED
      BY <2>1, <2>3
  <2>5. Range(f[m]) = Range(f[m - 1]) \cup Range(s[m])
    <3>1. f[m] = f[m - 1] \o s[m] /\ IsSeq(f[m - 1]) /\ IsSeq(s[m])
      BY <1>1, <2>3
    <3> DEFINE x == f[m - 1]
               y == s[m]
    <3>2. f[m] = x \o y /\ IsSeq(x) /\ IsSeq(y)
      BY <3>1
    <3> HIDE DEF x, y
    <3>3. Range(f[m]) = Range(x) \cup Range(y)
      BY <3>2, JoinedHas
    <3> QED
      BY <3>3 DEF x, y
  <2>6. U(m) = U(m - 1) \cup Range(s[m])
    <3>1. 1 .. m = (1 .. m - 1) \cup {m}
      BY <2>3
    <3> QED
      BY <3>1
  <2> HIDE DEF U
  <2>7. Range(f[m]) = U(m)
    BY <2>4, <2>5, <2>6
  <2> QED
    BY <2>7
<1>3. n \in 0 .. n
  OBVIOUS
<1> HIDE DEF U
<1>4. Range(f[n]) = U(n)
  BY <1>2, <1>3
<1> QED
  BY <1>1, <1>3, <1>4 DEF U

\* The rtpmaps of a section: each codec is under its own payload type.
AreRtpmaps(d) ==
  IsSeq(d) /\ \A i \in 1 .. Len(d) : d[i][2].payload_type = d[i][1] /\ d[i][2] # Malformed

\* The attributes of a section: pairs, each with a key of its own that is not "rtpmap".
AreAttributes(d) ==
  /\ IsSeq(d)
  /\ \A i \in 1 .. Len(d) : d[i] = <<d[i][1], d[i][2]>> /\ d[i][1] # "rtpmap"
  /\ \A i, j \in 1 .. Len(d) : d[i][1] = d[j][1] => i = j

\* A builder: an m= line with a list of formats, and what was added to it.
IsBuilder(k) ==
  /\ k = [m |-> k.m, rtpmap |-> k.rtpmap, attributes |-> k.attributes]
  /\ IsSeq(k.m.formats) /\ AreRtpmaps(k.rtpmap) /\ AreAttributes(k.attributes)

\* The codecs of a section: a payload type stands for one of them only.
AreCodecs(codecs) ==
  /\ IsSeq(codecs)
  /\ \A i \in 1 .. Len(codecs) : codecs[i] # Malformed
  /\ \A i, j \in 1 .. Len(codecs) :
       codecs[i].payload_type = codecs[j].payload_type => codecs[i] = codecs[j]

\* A section.
IsMedia(x) ==
  /\ x = [media_type |-> x.media_type, port |-> x.port, protocol |-> x.protocol,
          codecs |-> x.codecs, attributes |-> x.attributes]
  /\ AreCodecs(x.codecs) /\ AreAttributes(x.attributes)

\* A sequence of one element, or of none.
LEMMA ShortSeqs ==
  /\ IsSeq(<<>>) /\ Len(<<>>) = 0 /\ Range(<<>>) = {}
  /\ \A x : IsSeq(<<x>>) /\ Len(<<x>>) = 1 /\ <<x>>[1] = x /\ Range(<<x>>) = {x}
<1>1. IsSeq(<<>>) /\ Len(<<>>) = 0 /\ Range(<<>>) = {}
  <2>1. <<>> \in Seq({})
    OBVIOUS
  <2>2. IsSeq(<<>>)
    BY <2>1, Zenon DEF IsSeq
  <2> QED
    BY <2>2 DEF Range
<1>2. ASSUME NEW x
      PROVE  IsSeq(<<x>>) /\ Len(<<x>>) = 1 /\ <<x>>[1] = x /\ Range(<<x>>) = {x}
  <2>1. <<x>> \in Seq({x})
    OBVIOUS
  <2>2. IsSeq(<<x>>)
    BY <2>1, Zenon DEF IsSeq
  <2> QED
    BY <2>2 DEF Range
<1> QED
  BY <1>1, <1>2

\* The codec an m= line means by payload type p.
CodecFor(k, p) ==
  IF p \in Sdp!Keys(k.rtpmap) THEN Sdp!Lookup(k.rtpmap, p) ELSE Sdp!Lookup(Sdp!StaticCodecs, p)

\* It has that payload type.
LEMMA ResolveIs ==
  ASSUME NEW k, AreRtpmaps(k.rtpmap), NEW p
  PROVE  \/ Sdp!Resolve(k, p) = <<>>
         \/ /\ Sdp!Resolve(k, p) = <<CodecFor(k, p)>>
            /\ CodecFor(k, p).payload_type = p /\ CodecFor(k, p) # Malformed
<1> DEFINE d == k.rtpmap
           a == p \in Sdp!Keys(d)
           b == p \in Sdp!Keys(Sdp!StaticCodecs) \ Sdp!Keys(d)
<1>1. CASE a
  <2>1. DOMAIN d = 1 .. Len(d)
    BY SeqHas DEF AreRtpmaps
  <2>2. \E i \in DOMAIN d : d[i][1] = p
    BY <1>1 DEF Sdp!Keys
  <2> DEFINE i == CHOOSE j \in DOMAIN d : d[j][1] = p
  <2>3. i \in DOMAIN d /\ d[i][1] = p
    BY <2>2
  <2>4. CodecFor(k, p) = d[i][2]
    BY <1>1 DEF CodecFor, Sdp!Lookup
  <2>5. Sdp!Resolve(k, p) = <<CodecFor(k, p)>>
    BY <1>1 DEF Sdp!Resolve, CodecFor
  <2> HIDE DEF i, d
  <2>6. d[i][2].payload_type = p /\ d[i][2] # Malformed
    BY <2>1, <2>3 DEF AreRtpmaps, d
  <2> QED
    BY <2>4, <2>5, <2>6
<1>2. CASE ~a /\ b
  <2> DEFINE e == Sdp!StaticCodecs
  <2>1. DOMAIN e = 1 .. 3
    BY DEF Sdp!StaticCodecs
  <2>2. /\ e[1][1] = 0 /\ e[1][2].payload_type = 0
        /\ e[2][1] = 3 /\ e[2][2].payload_type = 3
        /\ e[3][1] = 8 /\ e[3][2].payload_type = 8
    BY DEF Sdp!StaticCodecs, Sdp!Codec
  <2>3. \A i \in DOMAIN e : Malformed # e[i][2]
    BY MalformedAssumption
  <2>4. \E i \in DOMAIN e : e[i][1] = p
    BY <1>2 DEF Sdp!Keys
  <2> DEFINE i == CHOOSE j \in DOMAIN e : e[j][1] = p
  <2>5. i \in DOMAIN e /\ e[i][1] = p
    BY <2>4
  <2>6. CodecFor(k, p) = e[i][2]
    BY <1>2 DEF CodecFor, Sdp!Lookup
  <2>7. Sdp!Resolve(k, p) = <<CodecFor(k, p)>>
    BY <1>2 DEF Sdp!Resolve, CodecFor
  <2> HIDE DEF i, e
  <2>8. e[i][2].payload_type = p /\ e[i][2] # Malformed
    <3>1. i = 1 \/ i = 2 \/ i = 3
      BY <2>1, <2>5
    <3> QED
      BY <2>2, <2>3, <2>5, <3>1
  <2> QED
    BY <2>6, <2>7, <2>8
<1>3. CASE ~a /\ ~b
  BY <1>3 DEF Sdp!Resolve
<1> QED
  BY <1>1, <1>2, <1>3

\* A builder makes a section.
LEMMA BuilderMakesMedia ==
  ASSUME NEW k, IsBuilder(k)
  PROVE  IsMedia(Sdp!BuildMedia(k))
<1> DEFINE formats == k.m.formats
           s == [i \in DOMAIN formats |-> Sdp!Resolve(k, formats[i])]
           codecs == Sdp!FlattenSeq(s)
<1>1. Len(formats) \in Nat /\ DOMAIN formats = 1 .. Len(formats)
  BY SeqHas DEF IsBuilder
<1>2. ASSUME NEW i \in 1 .. Len(formats)
      PROVE  /\ IsSeq(s[i])
             /\ \A e \in Range(s[i]) : e = CodecFor(k, e.payload_type) /\ e # Malformed
  <2> DEFINE p == formats[i]
  <2>1. s[i] = Sdp!Resolve(k, p)
    BY <1>1
  <2> HIDE DEF s, p
  <2>2. \/ s[i] = <<>>
        \/ s[i] = <<CodecFor(k, p)>> /\ CodecFor(k, p).payload_type = p /\ CodecFor(k, p) # Malformed
    BY <2>1, ResolveIs DEF IsBuilder
  <2> QED
    BY <2>2, ShortSeqs
<1>3. s = [i \in 1 .. Len(formats) |-> s[i]]
  BY <1>1
<1> HIDE DEF s, formats
<1>4. IsSeq(codecs) /\ Range(codecs) = UNION {Range(s[i]) : i \in 1 .. Len(formats)}
  BY <1>1, <1>2, <1>3, FlatRange
<1>5. Sdp!BuildMedia(k)
        = [media_type |-> k.m.media_type, port |-> k.m.port, protocol |-> k.m.protocol,
           codecs |-> codecs, attributes |-> k.attributes]
  BY DEF Sdp!BuildMedia, s, formats
<1> HIDE DEF codecs
<1>6. \A e \in Range(codecs) : e = CodecFor(k, e.payload_type) /\ e # Malformed
  BY <1>2, <1>4
<1>7. \A i \in 1 .. Len(codecs) : codecs[i] \in Range(codecs)
  BY <1>4, SeqHas DEF Range
<1>8. AreCodecs(codecs)
  BY <1>4, <1>6, <1>7 DEF AreCodecs
<1> QED
  BY <1>5, <1>8 DEF IsMedia, IsBuilder

\* What Put makes of a dictionary.
LEMMA PutIs ==
  ASSUME NEW d, IsSeq(d), NEW key, NEW value
  PROVE  LET e == Sdp!Put(d, key, value)
         IN  /\ IsSeq(e)
             /\ \A i \in 1 .. Len(e) :
                  e[i] = <<key, value>> \/ (i \in 1 .. Len(d) /\ e[i] = d[i] /\ d[i][1] # key)
             /\ Sdp!Keys(e) = Sdp!Keys(d) \cup {key}
             /\ key \notin Sdp!Keys(d) => e = Append(d, <<key, value>>)
             /\ key \in Sdp!Keys(d) =>
                  Len(e) = Len(d) /\ \A i \in 1 .. Len(d) : e[i][1] = d[i][1]
<1> DEFINE e == Sdp!Put(d, key, value)
           p == <<key, value>>
<1>1. Len(d) \in Nat /\ DOMAIN d = 1 .. Len(d)
  BY SeqHas
<1>2. p[1] = key
  OBVIOUS
<1>3. CASE key \in Sdp!Keys(d)
  <2>1. e = [i \in 1 .. Len(d) |-> IF d[i][1] = key THEN p ELSE d[i]]
    BY <1>1, <1>3 DEF Sdp!Put
  <2>2. \A i \in 1 .. Len(d) : e[i] = IF d[i][1] = key THEN p ELSE d[i]
    BY <2>1
  <2>3. e = [i \in 1 .. Len(d) |-> e[i]]
    BY <2>1
  <2> HIDE DEF e, p
  <2>4. IsSeq(e) /\ Len(e) = Len(d)
    BY <1>1, <2>3, FunctionIsSeq
  <2>5. DOMAIN e = 1 .. Len(d)
    BY <2>3
  <2>6. \A i \in 1 .. Len(d) : e[i][1] = d[i][1]
    BY <1>2, <2>2
  <2>7. Sdp!Keys(e) = Sdp!Keys(d)
    BY <1>1, <2>5, <2>6 DEF Sdp!Keys
  <2>8. \A i \in 1 .. Len(e) : e[i] = p \/ (i \in 1 .. Len(d) /\ e[i] = d[i] /\ d[i][1] # key)
    BY <2>2, <2>4
  <2> QED
    BY <1>3, <2>4, <2>6, <2>7, <2>8 DEF e, p
<1>4. CASE key \notin Sdp!Keys(d)
  <2>1. e = Append(d, p)
    BY <1>4 DEF Sdp!Put
  <2> HIDE DEF e, p
  <2>2. /\ IsSeq(e) /\ Len(e) = Len(d) + 1 /\ e[Len(d) + 1] = p
        /\ \A i \in 1 .. Len(d) : e[i] = d[i]
    BY <2>1, AppendIs
  <2>3. DOMAIN e = 1 .. Len(d) + 1
    BY <2>2, SeqHas
  <2>4. 1 .. Len(d) + 1 = (1 .. Len(d)) \cup {Len(d) + 1}
    BY <1>1
  <2>5. Sdp!Keys(e) = Sdp!Keys(d) \cup {key}
    BY <1>1, <1>2, <2>2, <2>3, <2>4 DEF Sdp!Keys
  <2>6. ASSUME NEW i \in 1 .. Len(e)
        PROVE  e[i] = p \/ (i \in 1 .. Len(d) /\ e[i] = d[i] /\ d[i][1] # key)
    <3>1. CASE i = Len(d) + 1
      BY <2>2, <3>1
    <3>2. CASE i # Len(d) + 1
      <4>1. i \in 1 .. Len(d)
        BY <1>1, <2>2, <3>2
      <4>2. d[i][1] # key
        BY <1>1, <1>4, <4>1 DEF Sdp!Keys
      <4> QED
        BY <2>2, <4>1, <4>2
    <3> QED
      BY <3>1, <3>2
  <2> QED
    BY <1>4, <2>1, <2>2, <2>5, <2>6 DEF e, p
<1> QED
  BY <1>3, <1>4

\* An attribute of a builder leaves a builder.
LEMMA BuilderStep ==
  ASSUME NEW o, IsBuilder(o), NEW value, value.key = "rtpmap" => value.codec # Malformed
  PROVE  IsBuilder(Sdp!AddAttribute(o, value))
<1> DEFINE p == value.codec.payload_type
           r == Sdp!Put(o.rtpmap, p, value.codec)
           t == Sdp!Put(o.attributes, value.key, value.text)
           a == Sdp!AddAttribute(o, value)
<1>1. o = [m |-> o.m, rtpmap |-> o.rtpmap, attributes |-> o.attributes]
  BY DEF IsBuilder
<1>2. CASE value.key = "rtpmap"
  <2>1. a = [o EXCEPT !.rtpmap = r]
    BY <1>2 DEF Sdp!AddAttribute
  <2>2. AreRtpmaps(r)
    <3> DEFINE d == o.rtpmap
               c == value.codec
    <3>1. AreRtpmaps(d) /\ c # Malformed
      BY <1>2 DEF IsBuilder
    <3>2. /\ IsSeq(r)
          /\ \A i \in 1 .. Len(r) : r[i] = <<p, c>> \/ (i \in 1 .. Len(d) /\ r[i] = d[i])
      BY <3>1, PutIs DEF AreRtpmaps
    <3>3. p = c.payload_type
      OBVIOUS
    <3> HIDE DEF r, p, c, d
    <3>4. ASSUME NEW i \in 1 .. Len(r)
          PROVE  r[i][2].payload_type = r[i][1] /\ r[i][2] # Malformed
      <4>1. CASE r[i] = <<p, c>>
        <5>1. r[i][1] = p /\ r[i][2] = c
          BY <4>1
        <5> QED
          BY <3>1, <3>3, <5>1
      <4>2. CASE i \in 1 .. Len(d) /\ r[i] = d[i]
        BY <3>1, <4>2 DEF AreRtpmaps
      <4> QED
        BY <3>2, <4>1, <4>2
    <3> QED
      BY <3>2, <3>4 DEF AreRtpmaps
  <2> HIDE DEF r, a
  <2>3. a = [m |-> o.m, rtpmap |-> r, attributes |-> o.attributes]
    BY <1>1, <2>1
  <2>4. /\ a = [m |-> a.m, rtpmap |-> a.rtpmap, attributes |-> a.attributes]
        /\ a.m = o.m /\ a.rtpmap = r /\ a.attributes = o.attributes
    BY <2>3
  <2> QED
    BY <2>2, <2>4 DEF IsBuilder, a
<1>3. CASE value.key # "rtpmap"
  <2>1. a = [o EXCEPT !.attributes = t]
    BY <1>3 DEF Sdp!AddAttribute
  <2>2. AreAttributes(t)
    <3> DEFINE d == o.attributes
               key == value.key
               text_ == value.text
    <3>1. AreAttributes(d)
      BY DEF IsBuilder
    <3>2. Len(d) \in Nat /\ DOMAIN d = 1 .. Len(d)
      BY <3>1, SeqHas DEF AreAttributes
    <3>3. /\ IsSeq(t)
          /\ \A i \in 1 .. Len(t) :
               t[i] = <<key, text_>> \/ (i \in 1 .. Len(d) /\ t[i] = d[i] /\ d[i][1] # key)
          /\ key \notin Sdp!Keys(d) => t = Append(d, <<key, text_>>)
          /\ key \in Sdp!Keys(d) =>
               Len(t) = Len(d) /\ \A i \in 1 .. Len(d) : t[i][1] = d[i][1]
      BY <3>1, PutIs DEF AreAttributes
    <3>4. key # "rtpmap"
      BY <1>3
    <3> HIDE DEF t, d, key, text_
    <3>5. ASSUME NEW i \in 1 .. Len(t)
          PROVE  t[i] = <<t[i][1], t[i][2]>> /\ t[i][1] # "rtpmap"
      <4>1. CASE t[i] = <<key, text_>>
        BY <3>4, <4>1
      <4>2. CASE i \in 1 .. Len(d) /\ t[i] = d[i]
        BY <3>1, <4>2 DEF AreAttributes
      <4> QED
        BY <3>3, <4>1, <4>2
    <3>6. ASSUME NEW i \in 1 .. Len(t), NEW j \in 1 .. Len(t), t[i][1] = t[j][1]
          PROVE  i = j
      <4>1. CASE key \in Sdp!Keys(d)
        BY <3>1, <3>3, <3>6, <4>1 DEF AreAttributes
      <4>2. CASE key \notin Sdp!Keys(d)
        <5> DEFINE n == Len(d)
        <5>1. /\ Len(t) = n + 1 /\ t[n + 1] = <<key, text_>>
              /\ \A l \in 1 .. n : t[l] = d[l]
          BY <3>1, <3>3, <4>2, AppendIs DEF AreAttributes
        <5>2. t[n + 1][1] = key
          BY <5>1
        <5>3. \A l \in 1 .. n : t[l][1] = d[l][1] /\ d[l][1] # key
          BY <3>2, <4>2, <5>1 DEF Sdp!Keys
        <5>4. (i \in 1 .. n \/ i = n + 1) /\ (j \in 1 .. n \/ j = n + 1)
          BY <3>2, <5>1
        <5> QED
          BY <3>1, <3>6, <5>2, <5>3, <5>4 DEF AreAttributes
      <4> QED
        BY <4>1, <4>2
    <3> QED
      BY <3>3, <3>5, <3>6 DEF AreAttributes
  <2> HIDE DEF t, a
  <2>3. a = [m |-> o.m, rtpmap |-> o.rtpmap, attributes |-> t]
    BY <1>1, <2>1
  <2>4. /\ a = [m |-> a.m, rtpmap |-> a.rtpmap, attributes |-> a.attributes]
        /\ a.m = o.m /\ a.rtpmap = o.rtpmap /\ a.attributes = t
    BY <2>3
  <2> QED
    BY <2>2, <2>4 DEF IsBuilder, a
<1> QED
  BY <1>2, <1>3

\* The lines of the second pass: the first is an m= line, and every m= line was read.
AreMediaLines(lines) ==
  /\ IsSeq(lines) /\ Len(lines) # 0 /\ lines[1].type = "m"
  /\ \A i \in 1 .. Len(lines) :
       /\ lines[i].type = "m" => IsSeq(lines[i].value.formats)
       /\ lines[i].type = "a" /\ lines[i].value.key = "rtpmap" => lines[i].value.codec # Malformed

\* The pass has a builder from its first line on, and leaves only sections.
LEMMA MediaAreSections ==
  ASSUME NEW lines, AreMediaLines(lines)
  PROVE  /\ IsSeq(Sdp!ParseMedia(lines))
         /\ \A i \in 1 .. Len(Sdp!ParseMedia(lines)) : IsMedia(Sdp!ParseMedia(lines)[i])
<1> DEFINE n == Len(lines)
           Sections(c) == IsSeq(c) /\ \A i \in 1 .. Len(c) : IsMedia(c[i])
<1>1. n \in Nat /\ n # 0
  BY SeqHas DEF AreMediaLines
<1>2. PICK f : Passes(f, lines, n) /\ Sdp!SecondPass(lines) = f[n]
  BY <1>1, SecondPassIs
<1>3. /\ f[0] = [closed |-> <<>>, current |-> None]
      /\ \A i \in 1 .. n : f[i] = Sdp!ReadMediaLine(f[i - 1], lines[i])
  BY <1>2, PassesAre
<1>4. \A c, k : Sections(c) /\ IsBuilder(k) => Sections(Append(c, Sdp!BuildMedia(k)))
  <2> SUFFICES ASSUME NEW c, NEW k, Sections(c), IsBuilder(k)
               PROVE  Sections(Append(c, Sdp!BuildMedia(k)))
    OBVIOUS
  <2> DEFINE b == Sdp!BuildMedia(k)
             d == Append(c, b)
  <2>1. IsMedia(b)
    BY BuilderMakesMedia
  <2> HIDE DEF b
  <2>2. /\ IsSeq(d) /\ Len(c) \in Nat /\ Len(d) = Len(c) + 1 /\ d[Len(c) + 1] = b
        /\ \A i \in 1 .. Len(c) : d[i] = c[i]
    BY AppendIs
  <2> HIDE DEF d
  <2>3. ASSUME NEW i \in 1 .. Len(d)
        PROVE  IsMedia(d[i])
    <3>1. CASE i = Len(c) + 1
      BY <2>1, <2>2, <3>1
    <3>2. CASE i # Len(c) + 1
      <4>1. i \in 1 .. Len(c)
        BY <2>2, <3>2
      <4> QED
        BY <2>2, <4>1
    <3> QED
      BY <3>1, <3>2
  <2> QED
    BY <2>2, <2>3 DEF d, b
<1> DEFINE Good(st) == /\ st = [closed |-> st.closed, current |-> st.current]
                       /\ Sections(st.closed) /\ IsBuilder(st.current)
           Bad == {i \in 1 .. n : ~Good(f[i])}
<1>5. \A m : IsSeq(m.formats) => IsBuilder(Sdp!MediaBuilder(m))
  <2>1. AreRtpmaps(<<>>) /\ AreAttributes(<<>>)
    BY ShortSeqs DEF AreRtpmaps, AreAttributes
  <2> QED
    BY <2>1 DEF IsBuilder, Sdp!MediaBuilder
<1>6. Good(f[1])
  <2>1. lines[1].type = "m" /\ IsSeq(lines[1].value.formats) /\ 1 \in 1 .. n
    BY <1>1 DEF AreMediaLines
  <2>2. f[1] = Sdp!ReadMediaLine(f[0], lines[1])
    BY <1>3, <2>1
  <2> DEFINE k == Sdp!MediaBuilder(lines[1].value)
  <2>3. f[1] = [closed |-> <<>>, current |-> k]
    BY <1>3, <2>1, <2>2 DEF Sdp!ReadMediaLine
  <2>4. IsBuilder(k)
    BY <1>5, <2>1
  <2> HIDE DEF k
  <2>5. Sections(<<>>)
    <3>1. <<>> \in Seq({})
      OBVIOUS
    <3>2. IsSeq(<<>>)
      BY <3>1, Zenon DEF IsSeq
    <3>3. \A i \in 1 .. Len(<<>>) : IsMedia(<<>>[i])
      OBVIOUS
    <3> QED
      BY <3>2, <3>3
  <2> HIDE DEF Sections
  <2> QED
    BY <2>3, <2>4, <2>5
<1>7. ASSUME NEW st, Good(st), NEW i \in 1 .. n
      PROVE  Good(Sdp!ReadMediaLine(st, lines[i]))
  <2> DEFINE line == lines[i]
             c == st.closed
             b == Sdp!BuildMedia(st.current)
             k == Sdp!MediaBuilder(line.value)
  <2>1. CASE line.type = "m"
    <3>1. Sdp!ReadMediaLine(st, line)
            = [closed |-> IF st.current = None THEN c ELSE Append(c, b), current |-> k]
      BY <2>1 DEF Sdp!ReadMediaLine
    <3>2. IsBuilder(k)
      BY <1>5, <2>1 DEF AreMediaLines
    <3>3. Sections(c) /\ Sections(Append(c, b))
      BY <1>4, <1>7
    <3> HIDE DEF c, b, k, Sections, line
    <3> QED
      BY <3>1, <3>2, <3>3 DEF line
  <2>2. CASE line.type = "a"
    <3> DEFINE a == Sdp!AddAttribute(st.current, line.value)
    <3>1. Sdp!ReadMediaLine(st, line) = [st EXCEPT !.current = a]
      BY <2>2 DEF Sdp!ReadMediaLine
    <3>2. Sdp!ReadMediaLine(st, line) = [closed |-> c, current |-> a]
      BY <1>7, <3>1
    <3>3. IsBuilder(a)
      <4>1. line.value.key = "rtpmap" => line.value.codec # Malformed
        BY <2>2 DEF AreMediaLines
      <4> QED
        BY <1>7, <4>1, BuilderStep
    <3>4. Sections(c)
      BY <1>7
    <3> HIDE DEF a, c, Sections, line
    <3> QED
      BY <3>2, <3>3, <3>4 DEF line
  <2>3. CASE line.type # "m" /\ line.type # "a"
    <3>1. Sdp!ReadMediaLine(st, line) = st
      BY <2>3 DEF Sdp!ReadMediaLine
    <3> QED
      BY <1>7, <3>1
  <2> QED
    BY <2>1, <2>2, <2>3
<1> HIDE DEF Good
<1>8. ASSUME Bad # {}
      PROVE  FALSE
  <2>1. PICK m \in Bad : \A k \in Bad : m <= k
    <3>1. Bad \in SUBSET Nat /\ Bad # {}
      BY <1>8
    <3> QED
      BY <3>1, Smallest, Zenon
  <2>2. m # 1
    BY <1>6
  <2>3. m \in 1 .. n /\ m - 1 \in 1 .. n
    BY <2>2
  <2>4. Good(f[m - 1])
    BY <2>1, <2>3
  <2>5. f[m] = Sdp!ReadMediaLine(f[m - 1], lines[m])
    BY <1>3, <2>3
  <2>6. Good(f[m])
    BY <1>7, <2>3, <2>4, <2>5
  <2> QED
    BY <2>6
<1>9. Good(f[n])
  BY <1>1, <1>8
<1>10. Sections(Append(f[n].closed, Sdp!BuildMedia(f[n].current)))
  <2> HIDE DEF Sections
  <2> QED
    BY <1>4, <1>9 DEF Good
<1> QED
  BY <1>2, <1>10 DEF Sdp!ParseMedia

\* A session: a record whose media are sections.
IsSession(x) ==
  /\ x = [version |-> x.version, origin |-> x.origin, session_name |-> x.session_name,
          connection_address |-> x.connection_address, time |-> x.time, media |-> x.media]
  /\ IsSeq(x.media) /\ \A i \in 1 .. Len(x.media) : IsMedia(x.media[i])

\* What parse_sdp makes of a text it accepts is a session.
LEMMA SessionType ==
  ASSUME NEW t \in Seq(Lines), Sdp!WellFormed(t)
  PROVE  IsSession(Sdp!ParseSdp(t))
<1> DEFINE M == Sdp!MediaLines(t)
<1>1. M \in Seq(Lines) /\ Len(M) \in Nat /\ Len(M) # 0 /\ M[1].type = "m"
  BY MediaLinesAre DEF Sdp!WellFormed
<1>2. ASSUME NEW i \in 1 .. Len(M), M[i].type = "m"
      PROVE  IsSeq(M[i].value.formats)
  <2>1. M[i] \in Lines /\ M[i] \in Range(M)
    BY <1>1 DEF Range
  <2>2. M[i].value # Malformed
    BY <1>2, <2>1 DEF Sdp!WellFormed, Sdp!Range, Range
  <2>3. M[i].value.formats \in Seq(Range(M[i].value.formats))
    BY <1>2, <2>1, <2>2, TextsAssumption
  <2> QED
    BY <2>3, Zenon DEF IsSeq
<1>3. IsSeq(M)
  <2> HIDE DEF M
  <2> QED
    BY <1>1, Zenon DEF IsSeq
<1>6. ASSUME NEW i \in 1 .. Len(M), M[i].type = "a", M[i].value.key = "rtpmap"
      PROVE  M[i].value.codec # Malformed
  <2>1. M[i] \in Range(M)
    BY <1>1 DEF Range
  <2> QED
    BY <1>6, <2>1 DEF Sdp!WellFormed, Sdp!Range, Range
<1> HIDE DEF M
<1>4. AreMediaLines(M)
  BY <1>1, <1>2, <1>3, <1>6 DEF AreMediaLines
<1> DEFINE p == Sdp!ParseMedia(M)
<1>5. IsSeq(p) /\ \A i \in 1 .. Len(p) : IsMedia(p[i])
  BY <1>4, MediaAreSections
<1> HIDE DEF p
<1> QED
  BY <1>5 DEF IsSession, Sdp!ParseSdp, p, M

-------------------------------------------------------------------------------
(***************************************************************************)
(* negotiate_codecs                                                        *)
(***************************************************************************)

\* r is what is left of the sequence s when only what has a key in K is kept.
Filtered(r, s, K) ==
  \E f : Steps(f, "keep", K, <<>>, s, Len(s)) /\ r = f[Len(s)]

\* The outcome is the offered codecs whose keys are those of answered codecs.
LEMMA NegotiateIsFilter ==
  ASSUME NEW offer, NEW answer, IsSeq(Sdp!AudioCodecs(offer))
  PROVE  Filtered(Sdp!NegotiateCodecs(offer, answer), Sdp!AudioCodecs(offer),
                  Sdp!CodecKeys(Sdp!AudioCodecs(answer)))
<1> DEFINE codecs == Sdp!AudioCodecs(offer)
           K == Sdp!CodecKeys(Sdp!AudioCodecs(answer))
           n == Len(codecs)
           step(f) == [i \in 0 .. n |->
                         IF i = 0 THEN <<>>
                         ELSE IF Sdp!CodecKey(codecs[i]) \in K
                              THEN Append(f[i - 1], codecs[i])
                              ELSE f[i - 1]]
           result == CHOOSE f : f = step(f)
<1>1. Sdp!NegotiateCodecs(offer, answer) = result[n]
  BY DEF Sdp!NegotiateCodecs
<1>2. n \in Nat
  BY SeqHas
<1> HIDE DEF codecs, K
<1>3. PICK g : g = [i \in 0 .. n |-> g[i]] /\ Steps(g, "keep", K, <<>>, codecs, n)
  BY <1>2, StepsExist
<1> DEFINE kept(f, i) == IF Sdp!CodecKey(codecs[i]) \in K THEN Append(f[i - 1], codecs[i])
                         ELSE f[i - 1]
<1>4. \A f : Steps(f, "keep", K, <<>>, codecs, n)
               <=> f[0] = <<>> /\ \A i \in 1 .. n : f[i] = kept(f, i)
  BY DEF Steps, TakeStep
<1>5. \A f : step(f) = [i \in 0 .. n |-> IF i = 0 THEN <<>> ELSE kept(f, i)]
  OBVIOUS
<1> HIDE DEF kept, step
<1>6. g = step(g)
  BY <1>2, <1>3, <1>4, <1>5
<1>7. result = step(result)
  BY <1>6
<1> HIDE DEF result
<1>8. result[0] = <<>> /\ \A i \in 1 .. n : result[i] = kept(result, i)
  BY <1>2, <1>5, <1>7
<1> QED
  BY <1>1, <1>4, <1>8 DEF Filtered, codecs, K

\* The elements kept are those of the sequence with a key in K.
LEMMA FilteredRange ==
  ASSUME NEW r, NEW s, NEW K, IsSeq(s), Filtered(r, s, K)
  PROVE  IsSeq(r) /\ Range(r) = {e \in Range(s) : Sdp!CodecKey(e) \in K}
<1> DEFINE n == Len(s)
           Kept(m) == {s[i] : i \in {j \in 1 .. m : Sdp!CodecKey(s[j]) \in K}}
<1>1. PICK f : Steps(f, "keep", K, <<>>, s, n) /\ r = f[n]
  BY DEF Filtered
<1>2. /\ f[0] = <<>>
      /\ \A i \in 1 .. n :
           f[i] = IF Sdp!CodecKey(s[i]) \in K THEN Append(f[i - 1], s[i]) ELSE f[i - 1]
  BY <1>1 DEF Steps, TakeStep
<1>3. n \in Nat /\ DOMAIN s = 1 .. n
  BY SeqHas
<1> DEFINE Good(m) == IsSeq(f[m]) /\ Range(f[m]) = Kept(m)
           Bad == {m \in 0 .. n : ~Good(m)}
<1>4. Good(0)
  <2>1. <<>> \in Seq({})
    OBVIOUS
  <2>2. IsSeq(<<>>)
    BY <2>1, Zenon DEF IsSeq
  <2>3. Range(<<>>) = {}
    BY DEF Range
  <2>4. Kept(0) = {}
    OBVIOUS
  <2> QED
    BY <1>2, <2>2, <2>3, <2>4
<1>5. ASSUME NEW m \in 1 .. n, Good(m - 1)
      PROVE  Good(m)
  <2> DEFINE x == f[m - 1]
             e == s[m]
  <2>1. CASE Sdp!CodecKey(e) \in K
    <3>1. f[m] = Append(x, e)
      BY <1>2, <2>1
    <3>2. IsSeq(x) /\ Range(x) = Kept(m - 1)
      BY <1>5
    <3>3. Kept(m) = Kept(m - 1) \cup {e}
      <4>1. 1 .. m = (1 .. m - 1) \cup {m}
        BY <1>3
      <4> QED
        BY <2>1, <4>1
    <3> HIDE DEF x, e, Kept
    <3> DEFINE y == Append(x, e)
    <3>4. /\ IsSeq(y) /\ Len(x) \in Nat /\ Len(y) = Len(x) + 1 /\ y[Len(x) + 1] = e
          /\ \A i \in 1 .. Len(x) : y[i] = x[i]
      BY <3>2, AppendIs
    <3>5. DOMAIN y = 1 .. Len(x) + 1 /\ DOMAIN x = 1 .. Len(x)
      BY <3>2, <3>4, SeqHas
    <3> HIDE DEF y
    <3>6. Range(y) = Range(x) \cup {e}
      <4>1. 1 .. Len(x) + 1 = (1 .. Len(x)) \cup {Len(x) + 1}
        BY <3>4
      <4> QED
        BY <3>4, <3>5, <4>1 DEF Range
    <3> QED
      BY <3>1, <3>2, <3>3, <3>4, <3>6 DEF y
  <2>2. CASE ~(Sdp!CodecKey(e) \in K)
    <3>1. f[m] = x
      BY <1>2, <2>2
    <3>2. Kept(m) = Kept(m - 1)
      <4>1. 1 .. m = (1 .. m - 1) \cup {m}
        BY <1>3
      <4> QED
        BY <2>2, <4>1
    <3> HIDE DEF Kept
    <3> QED
      BY <1>5, <3>1, <3>2
  <2> QED
    BY <2>1, <2>2
<1> HIDE DEF Good
<1>6. ASSUME Bad # {}
      PROVE  FALSE
  <2>1. PICK m \in Bad : \A k \in Bad : m <= k
    <3>1. Bad \in SUBSET Nat /\ Bad # {}
      BY <1>6
    <3> QED
      BY <3>1, Smallest, Zenon
  <2>2. m # 0
    BY <1>4
  <2>3. m \in 1 .. n /\ m - 1 \in 0 .. n
    BY <2>2
  <2>4. Good(m - 1)
    BY <2>1, <2>3
  <2> QED
    BY <1>5, <2>3, <2>4
<1>7. Good(n)
  BY <1>3, <1>6
<1>8. Kept(n) = {e \in Range(s) : Sdp!CodecKey(e) \in K}
  BY <1>3 DEF Range
<1> QED
  BY <1>1, <1>7, <1>8 DEF Good

\* Nothing is lost when every element has a key in K.
LEMMA FilteredAll ==
  ASSUME NEW r, NEW s, NEW K, IsSeq(s), Filtered(r, s, K),
         \A e \in Range(s) : Sdp!CodecKey(e) \in K
  PROVE  r = s
<1> DEFINE n == Len(s)
<1>1. PICK f : Steps(f, "keep", K, <<>>, s, n) /\ r = f[n]
  BY DEF Filtered
<1>2. n \in Nat /\ DOMAIN s = 1 .. n
  BY SeqHas
<1>3. /\ f[0] = <<>>
      /\ \A i \in 1 .. n : f[i] = Append(f[i - 1], s[i])
  BY <1>1, <1>2 DEF Steps, TakeStep, Range
<1> DEFINE Good(m) == IsSeq(f[m]) /\ Len(f[m]) = m /\ \A i \in 1 .. m : f[m][i] = s[i]
           Bad == {m \in 0 .. n : ~Good(m)}
<1>4. Good(0)
  <2>1. <<>> \in Seq({}) /\ Len(<<>>) = 0
    OBVIOUS
  <2>2. IsSeq(<<>>)
    BY <2>1, Zenon DEF IsSeq
  <2>3. \A i \in 1 .. 0 : f[0][i] = s[i]
    OBVIOUS
  <2> QED
    BY <1>3, <2>1, <2>2, <2>3
<1>5. ASSUME NEW m \in 1 .. n, Good(m - 1)
      PROVE  Good(m)
  <2> DEFINE x == f[m - 1]
             y == Append(x, s[m])
  <2>1. f[m] = y
    BY <1>3
  <2>2. IsSeq(x) /\ Len(x) = m - 1 /\ \A i \in 1 .. m - 1 : x[i] = s[i]
    BY <1>5
  <2>3. (m - 1) + 1 = m
    BY <1>2
  <2> HIDE DEF x
  <2>4. /\ IsSeq(y) /\ Len(y) = m /\ y[m] = s[m] /\ \A i \in 1 .. m - 1 : y[i] = x[i]
    BY <2>2, <2>3, AppendIs
  <2> HIDE DEF y
  <2>5. ASSUME NEW i \in 1 .. m
        PROVE  y[i] = s[i]
    <3>1. CASE i = m
      BY <2>4, <3>1
    <3>2. CASE i # m
      <4>1. i \in 1 .. m - 1
        BY <3>2
      <4> QED
        BY <2>2, <2>4, <4>1
    <3> QED
      BY <3>1, <3>2
  <2> QED
    BY <2>1, <2>4, <2>5
<1> HIDE DEF Good
<1>6. ASSUME Bad # {}
      PROVE  FALSE
  <2>1. PICK m \in Bad : \A k \in Bad : m <= k
    <3>1. Bad \in SUBSET Nat /\ Bad # {}
      BY <1>6
    <3> QED
      BY <3>1, Smallest, Zenon
  <2>2. m # 0
    BY <1>4
  <2>3. m \in 1 .. n /\ m - 1 \in 0 .. n
    BY <2>2
  <2>4. Good(m - 1)
    BY <2>1, <2>3
  <2> QED
    BY <1>5, <2>3, <2>4
<1>7. Good(n)
  BY <1>2, <1>6
<1> QED
  BY <1>1, <1>7, SameSeq DEF Good

\* Two filters that agree on the elements of a sequence leave the same of it.
LEMMA FilteredSame ==
  ASSUME NEW r, NEW q, NEW s, NEW K, NEW L, IsSeq(s), Filtered(r, s, K), Filtered(q, s, L),
         \A e \in Range(s) : Sdp!CodecKey(e) \in K <=> Sdp!CodecKey(e) \in L
  PROVE  r = q
<1> DEFINE n == Len(s)
<1>1. PICK f : Steps(f, "keep", K, <<>>, s, n) /\ r = f[n]
  BY DEF Filtered
<1>2. PICK g : Steps(g, "keep", L, <<>>, s, n) /\ q = g[n]
  BY DEF Filtered
<1>3. n \in Nat /\ DOMAIN s = 1 .. n
  BY SeqHas
<1>4. \A i \in 1 .. n : \A x : TakeStep("keep", K, x, s[i]) = TakeStep("keep", L, x, s[i])
  <2> SUFFICES ASSUME NEW i \in 1 .. n, NEW x
               PROVE  TakeStep("keep", K, x, s[i]) = TakeStep("keep", L, x, s[i])
    OBVIOUS
  <2>1. s[i] \in Range(s)
    BY <1>3 DEF Range
  <2>2. Sdp!CodecKey(s[i]) \in K <=> Sdp!CodecKey(s[i]) \in L
    BY <2>1
  <2> QED
    BY <2>2 DEF TakeStep
<1>5. f[n] = g[n]
  BY <1>1, <1>2, <1>3, <1>4, StepsAgree
<1> QED
  BY <1>1, <1>2, <1>5

\* The first audio section, if there is one, is a section; otherwise there are no codecs.
LEMMA AudioIs ==
  ASSUME NEW x, IsSession(x)
  PROVE  /\ IsSeq(Sdp!AudioCodecs(x))
         /\ Sdp!FirstAudio(x) # 0 =>
              Sdp!FirstAudio(x) \in 1 .. Len(x.media)
         /\ Sdp!FirstAudio(x) = 0 => Range(Sdp!AudioCodecs(x)) = {}
<1> DEFINE Audio == {i \in 1 .. Len(x.media) : x.media[i].media_type = "audio"}
           k == Sdp!FirstAudio(x)
<1>1. k = IF Audio # {} THEN Sdp!Min(Audio) ELSE 0
  BY DEF Sdp!FirstAudio, Sdp!SelectInSeq
<1>2. Len(x.media) \in Nat
  BY SeqHas DEF IsSession
<1>3. Audio \in SUBSET Nat /\ 0 \notin Audio /\ Audio \subseteq 1 .. Len(x.media)
  BY <1>2
<1> HIDE DEF Audio
<1>4. Audio # {} => Sdp!Min(Audio) \in Audio
  BY <1>3, Smallest DEF Sdp!Min
<1> HIDE DEF k
<1>5. k # 0 => k \in 1 .. Len(x.media)
  BY <1>1, <1>3, <1>4
<1>6. CASE k = 0
  <2>1. Sdp!AudioCodecs(x) = <<>>
    BY <1>6 DEF Sdp!AudioCodecs, k
  <2>2. <<>> \in Seq({})
    OBVIOUS
  <2>3. IsSeq(<<>>)
    BY <2>2, Zenon DEF IsSeq
  <2>4. Range(<<>>) = {}
    BY DEF Range
  <2> QED
    BY <1>6, <2>1, <2>3, <2>4 DEF k
<1>7. CASE k # 0
  <2>1. IsMedia(x.media[k])
    BY <1>5, <1>7 DEF IsSession
  <2>2. Sdp!AudioCodecs(x) = x.media[k].codecs
    BY <1>7 DEF Sdp!AudioCodecs, k
  <2> QED
    BY <1>5, <1>7, <2>1, <2>2 DEF IsMedia, AreCodecs, k
<1> QED
  BY <1>6, <1>7

\* With other codecs in its first audio section a session has those.
LEMMA WithCodecsHas ==
  ASSUME NEW x, IsSession(x), Sdp!FirstAudio(x) # 0, NEW codecs
  PROVE  Sdp!AudioCodecs(WithCodecs(x, codecs)) = codecs
<1> DEFINE k == Sdp!FirstAudio(x)
           y == WithCodecs(x, codecs)
           n == Len(x.media)
<1>1. k \in 1 .. n
  BY AudioIs
<1>2. n \in Nat /\ DOMAIN x.media = 1 .. n /\ x.media = [i \in 1 .. n |-> x.media[i]]
  BY SeqHas DEF IsSession
<1>3. y = [x EXCEPT !.media[k].codecs = codecs]
  BY DEF WithCodecs
<1>4. x = [version |-> x.version, origin |-> x.origin, session_name |-> x.session_name,
           connection_address |-> x.connection_address, time |-> x.time, media |-> x.media]
  BY DEF IsSession
<1> HIDE DEF k, y, n
<1> DEFINE a == [x.media[k] EXCEPT !.codecs = codecs]
<1>5. y.media = [x.media EXCEPT ![k] = a]
  BY <1>3, <1>4
<1>6. a.codecs = codecs /\ a.media_type = x.media[k].media_type
  <2>1. x.media[k] = [media_type |-> x.media[k].media_type, port |-> x.media[k].port,
                      protocol |-> x.media[k].protocol, codecs |-> x.media[k].codecs,
                      attributes |-> x.media[k].attributes]
    BY <1>1 DEF IsSession, IsMedia, n
  <2> DEFINE z == x.media[k]
  <2> HIDE DEF z
  <2>2. z = [media_type |-> z.media_type, port |-> z.port, protocol |-> z.protocol,
             codecs |-> z.codecs, attributes |-> z.attributes]
    BY <2>1 DEF z
  <2>3. a = [z EXCEPT !.codecs = codecs]
    BY DEF z
  <2> HIDE DEF a
  <2>4. a.codecs = codecs /\ a.media_type = z.media_type
    BY <2>2, <2>3
  <2> QED
    BY <2>4 DEF z
<1> HIDE DEF a
<1>7. /\ y.media = [i \in 1 .. n |-> y.media[i]] /\ y.media[k] = a
      /\ \A i \in 1 .. n : i # k => y.media[i] = x.media[i]
  BY <1>1, <1>2, <1>5
<1>8. Len(y.media) = n
  <2> DEFINE z == y.media
  <2> HIDE DEF z
  <2>1. z = [i \in 1 .. n |-> z[i]]
    BY <1>7 DEF z
  <2>2. Len(z) = n
    BY <1>2, <2>1, FunctionIsSeq
  <2> QED
    BY <2>2 DEF z
<1>9. \A i \in 1 .. n : y.media[i].media_type = x.media[i].media_type
  BY <1>6, <1>7
<1>10. Sdp!FirstAudio(y) = k
  <2>1. {i \in 1 .. Len(y.media) : y.media[i].media_type = "audio"}
          = {i \in 1 .. Len(x.media) : x.media[i].media_type = "audio"}
    BY <1>8, <1>9 DEF n
  <2> QED
    BY <2>1 DEF Sdp!FirstAudio, Sdp!SelectInSeq, k
<1>11. k # 0
  BY DEF k
<1> QED
  BY <1>6, <1>7, <1>10, <1>11 DEF Sdp!AudioCodecs, y

\* The outcome of a negotiation between two sessions, whoever offers.
LEMMA Negotiated ==
  ASSUME NEW x, NEW y, IsSession(x), IsSession(y)
  PROVE  LET A == Sdp!AudioCodecs(x)
             B == Sdp!AudioCodecs(y)
             r == Sdp!NegotiateCodecs(x, y)
         IN  /\ IsSeq(r) /\ Range(r) = {e \in Range(A) : Sdp!CodecKey(e) \in Sdp!CodecKeys(B)}
             /\ Sdp!CodecKeys(r) = Sdp!CodecKeys(A) \cap Sdp!CodecKeys(B)
<1> DEFINE A == Sdp!AudioCodecs(x)
           B == Sdp!AudioCodecs(y)
           K == Sdp!CodecKeys(B)
           r == Sdp!NegotiateCodecs(x, y)
<1>1. Filtered(r, A, K) /\ IsSeq(A)
  BY AudioIs, NegotiateIsFilter
<1> HIDE DEF A, K, r
<1>2. IsSeq(r) /\ Range(r) = {e \in Range(A) : Sdp!CodecKey(e) \in K}
  BY <1>1, FilteredRange
<1>3. Sdp!CodecKeys(r) = Sdp!CodecKeys(A) \cap K
  <2>1. \A s : Sdp!Range(s) = Range(s)
    BY DEF Sdp!Range, Range
  <2>2. \A s : Sdp!CodecKeys(s) = {Sdp!CodecKey(e) : e \in Range(s)}
    BY <2>1 DEF Sdp!CodecKeys
  <2> QED
    BY <1>2, <2>2
<1> QED
  BY <1>2, <1>3 DEF A, K, r

\* Offering the outcome again, or answering with it, changes nothing.
LEMMA NegotiatedAgain ==
  ASSUME NEW x, NEW y, IsSession(x), IsSession(y), Sdp!NegotiateCodecs(x, y) # <<>>
  PROVE  LET r == Sdp!NegotiateCodecs(x, y)
         IN  /\ Sdp!NegotiateCodecs(WithCodecs(x, r), y) = r
             /\ Sdp!NegotiateCodecs(x, WithCodecs(y, r)) = r
<1> DEFINE A == Sdp!AudioCodecs(x)
           B == Sdp!AudioCodecs(y)
           K == Sdp!CodecKeys(B)
           r == Sdp!NegotiateCodecs(x, y)
           q == Sdp!NegotiateCodecs(x, WithCodecs(y, r))
           p == Sdp!NegotiateCodecs(WithCodecs(x, r), y)
<1>1. Filtered(r, A, K) /\ IsSeq(A)
  BY AudioIs, NegotiateIsFilter
<1>2. /\ IsSeq(r) /\ Range(r) = {e \in Range(A) : Sdp!CodecKey(e) \in K}
      /\ Sdp!CodecKeys(r) = Sdp!CodecKeys(A) \cap K
  BY Negotiated
<1>3. \A s : Sdp!CodecKeys(s) = {Sdp!CodecKey(e) : e \in Range(s)}
  <2>1. \A s : Sdp!Range(s) = Range(s)
    BY DEF Sdp!Range, Range
  <2> QED
    BY <2>1 DEF Sdp!CodecKeys
<1>4. \E e : e \in Range(r)
  <2> HIDE DEF r
  <2>1. r # <<>>
    BY DEF r
  <2>2. Len(r) \in Nat /\ DOMAIN r = 1 .. Len(r) /\ r = [i \in 1 .. Len(r) |-> r[i]]
    BY <1>2, SeqHas
  <2>3. Len(r) # 0
    <3> SUFFICES ASSUME Len(r) = 0
                 PROVE  FALSE
      OBVIOUS
    <3>1. <<>> \in Seq({})
      OBVIOUS
    <3>2. IsSeq(<<>>) /\ Len(<<>>) = 0
      BY <3>1, Zenon DEF IsSeq
    <3>3. \A i \in 1 .. Len(r) : r[i] = <<>>[i]
      BY <2>2
    <3>4. r = <<>>
      BY <1>2, <3>2, <3>3, SameSeq
    <3> QED
      BY <2>1, <3>4
  <2>4. 1 \in DOMAIN r
    BY <2>2, <2>3
  <2> QED
    BY <2>4 DEF Range
<1>5. Sdp!FirstAudio(x) # 0
  <2>1. Range(A) # {}
    BY <1>2, <1>4
  <2> QED
    BY <2>1, AudioIs
<1>6. Sdp!FirstAudio(y) # 0
  <2>1. K # {}
    BY <1>2, <1>4
  <2>2. Range(B) # {}
    <3> HIDE DEF B
    <3> QED
      BY <1>3, <2>1
  <2> QED
    BY <2>2, AudioIs
<1>7. p = r
  <2>1. Sdp!AudioCodecs(WithCodecs(x, r)) = r
    BY <1>5, WithCodecsHas
  <2>2. Filtered(p, r, K)
    <3>1. IsSeq(Sdp!AudioCodecs(WithCodecs(x, r)))
      BY <1>2, <2>1
    <3>2. Filtered(p, Sdp!AudioCodecs(WithCodecs(x, r)), K)
      BY <3>1, NegotiateIsFilter
    <3> QED
      BY <2>1, <3>2
  <2> HIDE DEF p, r, K, A
  <2> QED
    BY <1>2, <2>2, FilteredAll
<1>8. q = r
  <2>1. Sdp!AudioCodecs(WithCodecs(y, r)) = r
    BY <1>6, WithCodecsHas
  <2> DEFINE L == Sdp!CodecKeys(r)
  <2>2. Filtered(q, A, L)
    <3>1. Filtered(q, A, Sdp!CodecKeys(Sdp!AudioCodecs(WithCodecs(y, r))))
      BY <1>1, NegotiateIsFilter
    <3> QED
      BY <2>1, <3>1
  <2>3. \A e \in Range(A) : Sdp!CodecKey(e) \in L <=> Sdp!CodecKey(e) \in K
    <3> HIDE DEF r, K, A
    <3> QED
      BY <1>2, <1>3
  <2> HIDE DEF q, r, K, A, L
  <2> QED
    BY <1>1, <2>2, <2>3, FilteredSame
<1> QED
  BY <1>7, <1>8

\* Two sides agree on the codecs, whoever offers, and again.
THEOREM SidesAgree == Spec => []NegotiationAgrees
<1>1. text \in Seq(Lines) => NegotiationAgrees
  <2> SUFFICES ASSUME text \in Seq(Lines), IsSdp, NEW peer \in Peers
               PROVE  LET other   == Sdp!ParseSdp(peer)
                          offered == Sdp!NegotiateCodecs(Session, other)
                      IN  /\ Sdp!CodecKeys(offered)
                               = Sdp!CodecKeys(Sdp!NegotiateCodecs(other, Session))
                          /\ Sdp!CodecKeys(offered)
                               = {<<c.name.word, c.clock_rate>> :
                                    c \in Range(Sdp!AudioCodecs(Session))}
                                 \cap {<<c.name.word, c.clock_rate>> :
                                         c \in Range(Sdp!AudioCodecs(other))}
                          /\ Range(offered) \subseteq Range(Sdp!AudioCodecs(Session))
                          /\ offered # <<>> =>
                               /\ Sdp!NegotiateCodecs(WithCodecs(Session, offered), other)
                                    = offered
                               /\ Sdp!NegotiateCodecs(Session, WithCodecs(other, offered))
                                    = offered
    BY DEF NegotiationAgrees
  <2> DEFINE x == Session
             y == Sdp!ParseSdp(peer)
             r == Sdp!NegotiateCodecs(x, y)
  <2>1. IsSession(x)
    BY SessionType DEF IsSdp, Session
  <2>2. IsSession(y)
    <3>1. peer \in Seq(Lines) /\ Sdp!WellFormed(peer)
      BY TextsAssumption, PeersAssumption
    <3> QED
      BY <3>1, SessionType
  <2>3. \A s : {<<c.name.word, c.clock_rate>> : c \in Range(s)} = Sdp!CodecKeys(s)
    BY DEF Sdp!CodecKeys, Sdp!CodecKey, Sdp!Range, Range
  <2> HIDE DEF x, y
  <2>4. /\ Range(r) \subseteq Range(Sdp!AudioCodecs(x))
        /\ Sdp!CodecKeys(r)
             = Sdp!CodecKeys(Sdp!AudioCodecs(x)) \cap Sdp!CodecKeys(Sdp!AudioCodecs(y))
    BY <2>1, <2>2, Negotiated
  <2>5. Sdp!CodecKeys(Sdp!NegotiateCodecs(y, x))
          = Sdp!CodecKeys(Sdp!AudioCodecs(y)) \cap Sdp!CodecKeys(Sdp!AudioCodecs(x))
    BY <2>1, <2>2, Negotiated
  <2>6. r # <<>> => /\ Sdp!NegotiateCodecs(WithCodecs(x, r), y) = r
                    /\ Sdp!NegotiateCodecs(x, WithCodecs(y, r)) = r
    BY <2>1, <2>2, NegotiatedAgain
  <2>7. Sdp!CodecKeys(r) = Sdp!CodecKeys(Sdp!NegotiateCodecs(y, x))
    BY <2>4, <2>5
  <2> QED
    BY <2>3, <2>4, <2>6, <2>7 DEF x, y
<1> QED
  BY <1>1, TextType, PTL

-------------------------------------------------------------------------------
(***************************************************************************)
(* What is written is read again.                                          *)
(***************************************************************************)

\* The second pass, in state st, reads the lines and ends in state end.
Reads(st, lines, end) ==
  \E g : Steps(g, "read", {}, st, lines, Len(lines)) /\ end = g[Len(lines)]

\* No line, and one line.
LEMMA ReadsShort ==
  ASSUME NEW st
  PROVE  /\ Reads(st, <<>>, st)
         /\ \A line : Reads(st, <<line>>, Sdp!ReadMediaLine(st, line))
<1>1. Reads(st, <<>>, st)
  <2>1. PICK g : Steps(g, "read", {}, st, <<>>, 0)
    BY StepsExist
  <2>2. Len(<<>>) = 0 /\ g[0] = st
    BY <2>1, ShortSeqs DEF Steps
  <2> QED
    BY <2>1, <2>2 DEF Reads
<1>2. ASSUME NEW line
      PROVE  Reads(st, <<line>>, Sdp!ReadMediaLine(st, line))
  <2> DEFINE s == <<line>>
  <2>1. Len(s) = 1 /\ s[1] = line
    BY ShortSeqs
  <2> HIDE DEF s
  <2>2. PICK g : Steps(g, "read", {}, st, s, 1)
    BY StepsExist
  <2>3. g[0] = st /\ g[1] = TakeStep("read", {}, g[0], line)
    BY <2>1, <2>2 DEF Steps
  <2>4. g[1] = Sdp!ReadMediaLine(st, line)
    BY <2>3 DEF TakeStep
  <2> QED
    BY <2>1, <2>2, <2>4 DEF Reads, s
<1> QED
  BY <1>1, <1>2

\* First some lines, then others.
LEMMA ReadsJoined ==
  ASSUME NEW s, NEW t, IsSeq(s), IsSeq(t), NEW x, NEW y, NEW z, Reads(x, s, y), Reads(y, t, z)
  PROVE  Reads(x, s \o t, z)
<1> DEFINE n == Len(s)
           m == Len(t)
           u == s \o t
<1>1. /\ n \in Nat /\ m \in Nat /\ Len(u) = n + m
      /\ \A i \in 1 .. n : u[i] = s[i]
      /\ \A i \in 1 .. m : u[n + i] = t[i]
  BY JoinedHas
<1>2. PICK f : Steps(f, "read", {}, x, s, n) /\ y = f[n]
  BY DEF Reads
<1>3. PICK g : Steps(g, "read", {}, y, t, m) /\ z = g[m]
  BY DEF Reads
<1> HIDE DEF n, m, u
<1> DEFINE h == [i \in 0 .. n + m |-> IF i <= n THEN f[i] ELSE g[i - n]]
<1>4. \A i \in 0 .. n : h[i] = f[i]
  BY <1>1
<1>5. \A i \in 0 .. m : h[n + i] = g[i]
  <2> SUFFICES ASSUME NEW i \in 0 .. m
               PROVE  h[n + i] = g[i]
    OBVIOUS
  <2>1. n + i \in 0 .. n + m /\ (n + i) - n = i
    BY <1>1
  <2>2. CASE i = 0
    <3>1. g[0] = f[n] /\ n + i = n /\ n \in 0 .. n + m
      BY <1>1, <1>2, <1>3, <2>2 DEF Steps
    <3>2. h[n] = f[n]
      BY <1>1, <3>1
    <3> HIDE DEF h
    <3> QED
      BY <2>2, <3>1, <3>2
  <2>3. CASE i # 0
    <3>1. ~(n + i <= n)
      BY <1>1, <2>3
    <3> QED
      BY <2>1, <3>1
  <2> QED
    BY <2>2, <2>3
<1> HIDE DEF h
<1>6. ASSUME NEW i \in 1 .. n + m
      PROVE  h[i] = TakeStep("read", {}, h[i - 1], u[i])
  <2>1. CASE i <= n
    <3>1. i \in 1 .. n /\ i \in 0 .. n /\ i - 1 \in 0 .. n
      BY <1>1, <2>1
    <3>2. f[i] = TakeStep("read", {}, f[i - 1], s[i])
      BY <1>2, <3>1 DEF Steps
    <3> QED
      BY <1>1, <1>4, <3>1, <3>2
  <2>2. CASE ~(i <= n)
    <3> DEFINE j == i - n
    <3>1. j \in 1 .. m /\ j \in 0 .. m /\ j - 1 \in 0 .. m /\ n + j = i /\ n + (j - 1) = i - 1
      BY <1>1, <2>2
    <3> HIDE DEF j
    <3>2. g[j] = TakeStep("read", {}, g[j - 1], t[j])
      BY <1>3, <3>1 DEF Steps
    <3>3. u[i] = t[j] /\ h[i] = g[j] /\ h[i - 1] = g[j - 1]
      BY <1>1, <1>5, <3>1
    <3> QED
      BY <3>2, <3>3
  <2> QED
    BY <2>1, <2>2
<1>7. h[0] = x
  <2>1. 0 \in 0 .. n
    BY <1>1
  <2> QED
    BY <1>2, <1>4, <2>1 DEF Steps
<1>8. h[n + m] = z
  <2>1. m \in 0 .. m
    BY <1>1
  <2> QED
    BY <1>3, <1>5, <2>1
<1>9. Steps(h, "read", {}, x, u, Len(u))
  BY <1>1, <1>6, <1>7 DEF Steps
<1> QED
  BY <1>1, <1>8, <1>9 DEF Reads, u

\* What is read from the start is the result.
LEMMA SecondPassReads ==
  ASSUME NEW lines, IsSeq(lines), NEW end,
         Reads([closed |-> <<>>, current |-> None], lines, end)
  PROVE  Sdp!SecondPass(lines) = end
<1> DEFINE n == Len(lines)
<1>1. n \in Nat
  BY SeqHas
<1>2. PICK f : Passes(f, lines, n) /\ Sdp!SecondPass(lines) = f[n]
  BY <1>1, SecondPassIs
<1>3. PICK g : /\ Steps(g, "read", {}, [closed |-> <<>>, current |-> None], lines, n)
               /\ end = g[n]
  BY DEF Reads
<1>4. f[n] = g[n]
  BY <1>1, <1>2, <1>3, StepsAgree DEF Passes
<1> QED
  BY <1>2, <1>3, <1>4

\* In the dictionary d the payload types of the first j codecs stand for them.
Stands(d, codecs, j) ==
  /\ IsSeq(d)
  /\ \A i \in 1 .. Len(d) : \E l \in 1 .. j : d[i] = <<codecs[l].payload_type, codecs[l]>>
  /\ \A l \in 1 .. j : codecs[l].payload_type \in Sdp!Keys(d)

\* A section that is being read again.
Open(closed, m, d, attributes) ==
  [closed |-> closed, current |-> [m |-> m, rtpmap |-> d, attributes |-> attributes]]

\* The rtpmap lines of codecs bring them all back.
LEMMA RtpmapsRead ==
  ASSUME NEW codecs, IsSeq(codecs), NEW R, IsSeq(R), Len(R) = Len(codecs),
         \A i \in 1 .. Len(codecs) : R[i] = Sdp!Rtpmap(codecs[i]), NEW closed, NEW m
  PROVE  \E d : /\ Stands(d, codecs, Len(codecs))
                /\ Reads(Open(closed, m, <<>>, <<>>), R, Open(closed, m, d, <<>>))
<1> DEFINE n == Len(codecs)
           start == Open(closed, m, <<>>, <<>>)
<1>1. n \in Nat
  BY SeqHas
<1>2. PICK g : Steps(g, "read", {}, start, R, n)
  BY <1>1, StepsExist
<1>3. g[0] = start /\ \A i \in 1 .. n : g[i] = Sdp!ReadMediaLine(g[i - 1], R[i])
  BY <1>2 DEF Steps, TakeStep
<1> DEFINE Good(j) == \E d : Stands(d, codecs, j) /\ g[j] = Open(closed, m, d, <<>>)
           Bad == {j \in 0 .. n : ~Good(j)}
<1>4. Good(0)
  <2>1. Stands(<<>>, codecs, 0)
    BY ShortSeqs DEF Stands
  <2> QED
    BY <1>3, <2>1
<1>5. ASSUME NEW j \in 1 .. n, Good(j - 1)
      PROVE  Good(j)
  <2>1. PICK d : Stands(d, codecs, j - 1) /\ g[j - 1] = Open(closed, m, d, <<>>)
    BY <1>5
  <2> DEFINE c == codecs[j]
             p == c.payload_type
             e == Sdp!Put(d, p, c)
             line == Sdp!Rtpmap(c)
  <2>2. line.type = "a" /\ line.value.key = "rtpmap" /\ line.value.codec = c
    BY DEF Sdp!Rtpmap, Sdp!Line
  <2>3. g[j] = Sdp!ReadMediaLine(g[j - 1], line)
    BY <1>3
  <2>4. g[j] = Open(closed, m, e, <<>>)
    <3> DEFINE st == g[j - 1]
               a == Sdp!AddAttribute(st.current, line.value)
    <3>1. g[j] = [st EXCEPT !.current = a]
      BY <2>2, <2>3 DEF Sdp!ReadMediaLine
    <3>2. a = [st.current EXCEPT !.rtpmap = Sdp!Put(st.current.rtpmap, p, c)]
      BY <2>2 DEF Sdp!AddAttribute
    <3> DEFINE o == [m |-> m, rtpmap |-> d, attributes |-> <<>>]
    <3>3. st.current = o /\ st.closed = closed /\ st = [closed |-> closed, current |-> o]
          /\ o.rtpmap = d
      BY <2>1 DEF Open
    <3>4. a = [o EXCEPT !.rtpmap = e]
      BY <3>2, <3>3
    <3> HIDE DEF e, a, st
    <3>5. a = [m |-> m, rtpmap |-> e, attributes |-> <<>>]
      BY <3>4
    <3>6. g[j] = [closed |-> closed, current |-> a]
      BY <3>1, <3>3
    <3> QED
      BY <3>5, <3>6 DEF Open
  <2>5. Stands(e, codecs, j)
    <3>1. IsSeq(d)
      BY <2>1 DEF Stands
    <3>2. /\ IsSeq(e)
          /\ \A i \in 1 .. Len(e) : e[i] = <<p, c>> \/ (i \in 1 .. Len(d) /\ e[i] = d[i])
          /\ Sdp!Keys(e) = Sdp!Keys(d) \cup {p}
      BY <3>1, PutIs
    <3> HIDE DEF e
    <3>3. ASSUME NEW i \in 1 .. Len(e)
          PROVE  \E l \in 1 .. j : e[i] = <<codecs[l].payload_type, codecs[l]>>
      <4>1. CASE e[i] = <<p, c>>
        <5>1. j \in 1 .. j
          BY <1>1
        <5> QED
          BY <4>1, <5>1
      <4>2. CASE i \in 1 .. Len(d) /\ e[i] = d[i]
        <5>1. PICK l \in 1 .. j - 1 : d[i] = <<codecs[l].payload_type, codecs[l]>>
          BY <2>1, <4>2 DEF Stands
        <5>2. l \in 1 .. j
          BY <1>1
        <5> QED
          BY <4>2, <5>1, <5>2
      <4> QED
        BY <3>2, <4>1, <4>2
    <3>4. ASSUME NEW l \in 1 .. j
          PROVE  codecs[l].payload_type \in Sdp!Keys(e)
      <4>1. CASE l = j
        BY <3>2, <4>1
      <4>2. CASE l # j
        <5>1. l \in 1 .. j - 1
          BY <1>1, <4>2
        <5> QED
          BY <2>1, <3>2, <5>1 DEF Stands
      <4> QED
        BY <4>1, <4>2
    <3> QED
      BY <3>2, <3>3, <3>4 DEF Stands
  <2> QED
    BY <2>4, <2>5
<1> HIDE DEF Good
<1>6. ASSUME Bad # {}
      PROVE  FALSE
  <2>1. PICK j \in Bad : \A k \in Bad : j <= k
    <3>1. Bad \in SUBSET Nat /\ Bad # {}
      BY <1>6
    <3> QED
      BY <3>1, Smallest, Zenon
  <2>2. j # 0
    BY <1>4
  <2>3. j \in 1 .. n /\ j - 1 \in 0 .. n
    BY <2>2
  <2>4. Good(j - 1)
    BY <2>1, <2>3
  <2> QED
    BY <1>5, <2>3, <2>4
<1>7. Good(n)
  BY <1>1, <1>6
<1>8. PICK d : Stands(d, codecs, n) /\ g[n] = Open(closed, m, d, <<>>)
  BY <1>7 DEF Good
<1>9. Reads(start, R, g[n])
  BY <1>2 DEF Reads
<1> QED
  BY <1>8, <1>9

\* The attribute lines of a section bring them back in their order.
LEMMA AttributesRead ==
  ASSUME NEW attributes, AreAttributes(attributes), NEW A, IsSeq(A), Len(A) = Len(attributes),
         \A i \in 1 .. Len(attributes) :
           A[i] = Sdp!Attribute(attributes[i][1], attributes[i][2]),
         NEW closed, NEW m, NEW d
  PROVE  Reads(Open(closed, m, d, <<>>), A, Open(closed, m, d, attributes))
<1> DEFINE n == Len(attributes)
           start == Open(closed, m, d, <<>>)
<1>1. n \in Nat /\ IsSeq(attributes)
  BY SeqHas DEF AreAttributes
<1>2. PICK g : Steps(g, "read", {}, start, A, n)
  BY <1>1, StepsExist
<1>3. g[0] = start /\ \A i \in 1 .. n : g[i] = Sdp!ReadMediaLine(g[i - 1], A[i])
  BY <1>2 DEF Steps, TakeStep
<1> DEFINE First(s, j) == IsSeq(s) /\ Len(s) = j /\ \A i \in 1 .. j : s[i] = attributes[i]
           Good(j) == \E s : First(s, j) /\ g[j] = Open(closed, m, d, s)
           Bad == {j \in 0 .. n : ~Good(j)}
<1>4. Good(0)
  <2>1. First(<<>>, 0)
    BY ShortSeqs
  <2> HIDE DEF First
  <2> QED
    BY <1>3, <2>1
<1>5. ASSUME NEW j \in 1 .. n, Good(j - 1)
      PROVE  Good(j)
  <2>1. PICK s : First(s, j - 1) /\ g[j - 1] = Open(closed, m, d, s)
    BY <1>5
  <2> DEFINE key == attributes[j][1]
             value == attributes[j][2]
             e == Append(s, <<key, value>>)
             line == Sdp!Attribute(key, value)
  <2>2. line.type = "a" /\ line.value.key = key /\ line.value.text = value
    BY DEF Sdp!Attribute, Sdp!Line
  <2>3. attributes[j] = <<key, value>> /\ key # "rtpmap"
    BY DEF AreAttributes
  <2>4. key \notin Sdp!Keys(s)
    <3>1. DOMAIN s = 1 .. j - 1
      BY <2>1, SeqHas
    <3>2. \A i \in 1 .. j - 1 : s[i] = attributes[i]
      BY <2>1
    <3> SUFFICES ASSUME NEW i \in 1 .. j - 1, s[i][1] = key
                 PROVE  FALSE
      BY <3>1 DEF Sdp!Keys
    <3>3. i \in 1 .. n /\ i # j
      BY <1>1
    <3>4. attributes[i][1] = attributes[j][1]
      BY <3>2
    <3> QED
      BY <3>3, <3>4 DEF AreAttributes
  <2>5. g[j] = Sdp!ReadMediaLine(g[j - 1], line)
    BY <1>3
  <2>6. Sdp!Put(s, key, value) = e
    BY <2>4 DEF Sdp!Put
  <2>7. g[j] = Open(closed, m, d, e)
    <3> DEFINE st == g[j - 1]
               a == Sdp!AddAttribute(st.current, line.value)
    <3>1. g[j] = [st EXCEPT !.current = a]
      BY <2>2, <2>5 DEF Sdp!ReadMediaLine
    <3>2. a = [st.current EXCEPT !.attributes = Sdp!Put(st.current.attributes, key, value)]
      BY <2>2, <2>3 DEF Sdp!AddAttribute
    <3> DEFINE o == [m |-> m, rtpmap |-> d, attributes |-> s]
    <3>3. st.current = o /\ st.closed = closed /\ st = [closed |-> closed, current |-> o]
          /\ o.attributes = s
      BY <2>1 DEF Open
    <3>4. a = [o EXCEPT !.attributes = e]
      BY <2>6, <3>2, <3>3
    <3> HIDE DEF e, a, st
    <3>5. a = [m |-> m, rtpmap |-> d, attributes |-> e]
      BY <3>4
    <3>6. g[j] = [closed |-> closed, current |-> a]
      BY <3>1, <3>3
    <3> QED
      BY <3>5, <3>6 DEF Open
  <2>8. First(e, j)
    <3>1. IsSeq(s) /\ Len(s) = j - 1 /\ \A i \in 1 .. j - 1 : s[i] = attributes[i]
      BY <2>1
    <3>2. (j - 1) + 1 = j
      BY <1>1
    <3>3. /\ IsSeq(e) /\ Len(e) = j /\ e[j] = <<key, value>>
          /\ \A i \in 1 .. j - 1 : e[i] = s[i]
      BY <3>1, <3>2, AppendIs
    <3> HIDE DEF e
    <3>4. ASSUME NEW i \in 1 .. j
          PROVE  e[i] = attributes[i]
      <4>1. CASE i = j
        BY <2>3, <3>3, <4>1
      <4>2. CASE i # j
        <5>1. i \in 1 .. j - 1
          BY <4>2
        <5> QED
          BY <3>1, <3>3, <5>1
      <4> QED
        BY <4>1, <4>2
    <3> QED
      BY <3>3, <3>4
  <2> HIDE DEF First, e
  <2> QED
    BY <2>7, <2>8
<1> HIDE DEF Good
<1>6. ASSUME Bad # {}
      PROVE  FALSE
  <2>1. PICK j \in Bad : \A k \in Bad : j <= k
    <3>1. Bad \in SUBSET Nat /\ Bad # {}
      BY <1>6
    <3> QED
      BY <3>1, Smallest, Zenon
  <2>2. j # 0
    BY <1>4
  <2>3. j \in 1 .. n /\ j - 1 \in 0 .. n
    BY <2>2
  <2>4. Good(j - 1)
    BY <2>1, <2>3
  <2> QED
    BY <1>5, <2>3, <2>4
<1>7. Good(n)
  BY <1>1, <1>6
<1>8. PICK s : First(s, n) /\ g[n] = Open(closed, m, d, s)
  BY <1>7 DEF Good
<1>9. s = attributes
  BY <1>1, <1>8, SameSeq
<1>10. Reads(start, A, g[n])
  BY <1>2 DEF Reads
<1> QED
  BY <1>8, <1>9, <1>10

\* s has n sequences of one element each, those of e.
Singles(s, e, n) == s = [i \in 1 .. n |-> s[i]] /\ \A i \in 1 .. n : s[i] = <<e[i]>>

\* Sequences of one element each, one after the other.
LEMMA FlatSingles ==
  ASSUME NEW n \in Nat, NEW s, NEW e, Singles(s, e, n)
  PROVE  /\ IsSeq(Sdp!FlattenSeq(s)) /\ Len(Sdp!FlattenSeq(s)) = n
         /\ \A i \in 1 .. n : Sdp!FlattenSeq(s)[i] = e[i]
<1>7. s = [i \in 1 .. n |-> s[i]] /\ \A i \in 1 .. n : s[i] = <<e[i]>>
  BY DEF Singles
<1>1. \A i \in 1 .. n : IsSeq(s[i])
  BY <1>7, ShortSeqs
<1>2. PICK f : /\ f[0] = <<>> /\ \A i \in 1 .. n : f[i] = f[i - 1] \o s[i]
               /\ \A i \in 0 .. n : IsSeq(f[i])
               /\ Sdp!FlattenSeq(s) = f[n]
  BY <1>1, <1>7, FlatSteps
<1> DEFINE Good(j) == Len(f[j]) = j /\ \A i \in 1 .. j : f[j][i] = e[i]
           Bad == {j \in 0 .. n : ~Good(j)}
<1>3. Good(0)
  BY <1>2, ShortSeqs
<1>4. ASSUME NEW j \in 1 .. n, Good(j - 1)
      PROVE  Good(j)
  <2> DEFINE x == f[j - 1]
             y == <<e[j]>>
             z == x \o y
  <2>1. f[j] = z /\ IsSeq(x) /\ Len(x) = j - 1 /\ \A i \in 1 .. j - 1 : x[i] = e[i]
    <3>1. j - 1 \in 0 .. n
      OBVIOUS
    <3> QED
      BY <1>2, <1>4, <1>7, <3>1
  <2>2. IsSeq(y) /\ Len(y) = 1 /\ y[1] = e[j]
    BY ShortSeqs
  <2> HIDE DEF x, y
  <2>3. /\ Len(z) = (j - 1) + 1 /\ \A i \in 1 .. j - 1 : z[i] = x[i]
        /\ \A i \in 1 .. 1 : z[(j - 1) + i] = y[i]
    <3>1. /\ Len(z) = Len(x) + Len(y) /\ \A i \in 1 .. Len(x) : z[i] = x[i]
          /\ \A i \in 1 .. Len(y) : z[Len(x) + i] = y[i]
      <4>1. IsSeq(x) /\ IsSeq(y)
        BY <2>1, <2>2
      <4> QED
        BY <4>1, JoinedHas
    <3> HIDE DEF z
    <3> QED
      BY <2>1, <2>2, <3>1
  <2>4. (j - 1) + 1 = j /\ 1 \in 1 .. 1
    OBVIOUS
  <2> HIDE DEF z
  <2>5. Len(z) = j /\ z[j] = e[j] /\ \A i \in 1 .. j - 1 : z[i] = e[i]
    BY <2>1, <2>2, <2>3, <2>4
  <2>6. ASSUME NEW i \in 1 .. j
        PROVE  z[i] = e[i]
    <3>1. i = j \/ i \in 1 .. j - 1
      OBVIOUS
    <3> QED
      BY <2>5, <3>1
  <2> QED
    BY <2>1, <2>5, <2>6
<1> HIDE DEF Good
<1>5. ASSUME Bad # {}
      PROVE  FALSE
  <2>1. PICK j \in Bad : \A k \in Bad : j <= k
    <3>1. Bad \in SUBSET Nat /\ Bad # {}
      BY <1>5
    <3> QED
      BY <3>1, Smallest, Zenon
  <2>2. j # 0
    BY <1>3
  <2>3. j \in 1 .. n /\ j - 1 \in 0 .. n
    BY <2>2
  <2>4. Good(j - 1)
    BY <2>1, <2>3
  <2> QED
    BY <1>4, <2>3, <2>4
<1>6. Good(n) /\ n \in 0 .. n
  BY <1>5
<1> QED
  BY <1>2, <1>6 DEF Good

\* The m= line of a section, as it is written.
WrittenMedia(x) ==
  Sdp!Line("m", [media_type |-> x.media_type, port |-> x.port, protocol |-> x.protocol,
                 formats |-> [i \in DOMAIN x.codecs |-> x.codecs[i].payload_type]])

\* The lines of a section: the m= line, an rtpmap for each codec, the attributes.
LEMMA MediaTextIs ==
  ASSUME NEW x, IsMedia(x)
  PROVE  \E R, A :
           /\ Sdp!MediaText(x) = (<<WrittenMedia(x)>> \o R) \o A
           /\ IsSeq(R) /\ Len(R) = Len(x.codecs)
           /\ \A i \in 1 .. Len(x.codecs) : R[i] = Sdp!Rtpmap(x.codecs[i])
           /\ IsSeq(A) /\ Len(A) = Len(x.attributes)
           /\ \A i \in 1 .. Len(x.attributes) :
                A[i] = Sdp!Attribute(x.attributes[i][1], x.attributes[i][2])
<1> DEFINE n == Len(x.codecs)
           m == Len(x.attributes)
           s == [i \in DOMAIN x.codecs |-> Sdp!RtpmapOf(x.codecs[i])]
           e == [i \in 1 .. n |-> Sdp!Rtpmap(x.codecs[i])]
           R == Sdp!FlattenSeq(s)
           A == [i \in DOMAIN x.attributes |->
                   Sdp!Attribute(x.attributes[i][1], x.attributes[i][2])]
<1>1. n \in Nat /\ DOMAIN x.codecs = 1 .. n /\ m \in Nat /\ DOMAIN x.attributes = 1 .. m
  BY SeqHas DEF IsMedia, AreCodecs, AreAttributes
<1>2. Sdp!MediaText(x) = (<<WrittenMedia(x)>> \o R) \o A
  BY DEF Sdp!MediaText, WrittenMedia
<1>3. s = [i \in 1 .. n |-> s[i]] /\ \A i \in 1 .. n : s[i] = <<e[i]>>
  BY <1>1 DEF Sdp!RtpmapOf
<1>4. \A i \in 1 .. n : e[i] = Sdp!Rtpmap(x.codecs[i])
  OBVIOUS
<1>5. A = [i \in 1 .. m |-> A[i]]
      /\ \A i \in 1 .. m : A[i] = Sdp!Attribute(x.attributes[i][1], x.attributes[i][2])
  BY <1>1
<1> HIDE DEF s, e, A, n, m
<1>6. IsSeq(R) /\ Len(R) = n /\ \A i \in 1 .. n : R[i] = e[i]
  <2>1. Singles(s, e, n)
    BY <1>3 DEF Singles
  <2> QED
    BY <1>1, <2>1, FlatSingles
<1>7. IsSeq(A) /\ Len(A) = m
  BY <1>1, <1>5, FunctionIsSeq
<1> HIDE DEF R
<1>8. /\ IsSeq(R) /\ Len(R) = Len(x.codecs)
      /\ \A i \in 1 .. Len(x.codecs) : R[i] = Sdp!Rtpmap(x.codecs[i])
  BY <1>4, <1>6 DEF n
<1>9. /\ IsSeq(A) /\ Len(A) = Len(x.attributes)
      /\ \A i \in 1 .. Len(x.attributes) :
           A[i] = Sdp!Attribute(x.attributes[i][1], x.attributes[i][2])
  BY <1>5, <1>7 DEF m
<1> QED
  BY <1>2, <1>8, <1>9

\* No value of an m= line is malformed, whatever its tokens are.
MalformedApart ==
  \A a, b, c, d : Malformed # [media_type |-> a, port |-> b, protocol |-> c, formats |-> d]

\* No section that is open is None.
NoneApart == \A a, b, c : None # [m |-> a, rtpmap |-> b, attributes |-> c]

\* The lines of a section are lines that can be read.
LEMMA MediaTextLines ==
  ASSUME NEW x, IsMedia(x)
  PROVE  /\ IsSeq(Sdp!MediaText(x)) /\ Len(Sdp!MediaText(x)) \in Nat \ {0}
         /\ Sdp!MediaText(x)[1] = WrittenMedia(x)
         /\ WrittenMedia(x) \in Range(Sdp!MediaText(x))
         /\ \A line \in Range(Sdp!MediaText(x)) :
              /\ line.type \in {"m", "a"}
              /\ line.type = "m" => line = WrittenMedia(x)
              /\ line.type = "a" /\ line.value.key = "rtpmap" => line.value.codec # Malformed
<1>1. PICK R, A :
           /\ Sdp!MediaText(x) = (<<WrittenMedia(x)>> \o R) \o A
           /\ IsSeq(R) /\ Len(R) = Len(x.codecs)
           /\ \A i \in 1 .. Len(x.codecs) : R[i] = Sdp!Rtpmap(x.codecs[i])
           /\ IsSeq(A) /\ Len(A) = Len(x.attributes)
           /\ \A i \in 1 .. Len(x.attributes) :
                A[i] = Sdp!Attribute(x.attributes[i][1], x.attributes[i][2])
  BY MediaTextIs
<1> DEFINE w == WrittenMedia(x)
           o == <<w>>
           b == o \o R
           t == b \o A
<1>2. IsSeq(o) /\ Len(o) = 1 /\ o[1] = w /\ Range(o) = {w}
  BY ShortSeqs
<1> HIDE DEF w, o
<1>3. /\ IsSeq(b) /\ Len(R) \in Nat /\ Len(b) = 1 + Len(R) /\ b[1] = w
      /\ Range(b) = {w} \cup Range(R)
  <2>1. /\ IsSeq(b) /\ Len(R) \in Nat /\ Len(b) = Len(o) + Len(R)
        /\ \A i \in 1 .. Len(o) : b[i] = o[i]
        /\ Range(b) = Range(o) \cup Range(R)
    BY <1>1, <1>2, JoinedHas, Zenon
  <2> HIDE DEF b
  <2> QED
    BY <1>2, <2>1
<1> HIDE DEF b
<1>4. /\ IsSeq(t) /\ Len(A) \in Nat /\ Len(t) = Len(b) + Len(A) /\ t[1] = w
      /\ Range(t) = {w} \cup Range(R) \cup Range(A)
  <2>1. /\ IsSeq(t) /\ Len(A) \in Nat /\ Len(t) = Len(b) + Len(A)
        /\ \A i \in 1 .. Len(b) : t[i] = b[i]
        /\ Range(t) = Range(b) \cup Range(A)
    BY <1>1, <1>3, JoinedHas, Zenon
  <2> HIDE DEF t
  <2> QED
    BY <1>3, <2>1
<1>5. ASSUME NEW line \in Range(R)
      PROVE  line.type = "a" /\ line.value.codec # Malformed
  <2>1. PICK i \in 1 .. Len(x.codecs) : line = R[i]
    <3>1. DOMAIN R = 1 .. Len(x.codecs)
      BY <1>1, SeqHas
    <3> QED
      BY <3>1 DEF Range
  <2>2. line = Sdp!Rtpmap(x.codecs[i])
    BY <1>1, <2>1
  <2>3. x.codecs[i] # Malformed
    BY DEF IsMedia, AreCodecs
  <2> QED
    BY <2>2, <2>3 DEF Sdp!Rtpmap, Sdp!Line
<1>6. ASSUME NEW line \in Range(A)
      PROVE  line.type = "a" /\ line.value.key # "rtpmap"
  <2>1. PICK i \in 1 .. Len(x.attributes) : line = A[i]
    <3>1. DOMAIN A = 1 .. Len(x.attributes)
      BY <1>1, SeqHas
    <3> QED
      BY <3>1 DEF Range
  <2>2. line = Sdp!Attribute(x.attributes[i][1], x.attributes[i][2])
    BY <1>1, <2>1
  <2>3. x.attributes[i][1] # "rtpmap"
    BY DEF IsMedia, AreAttributes
  <2> QED
    BY <2>2, <2>3 DEF Sdp!Attribute, Sdp!Line
<1>7. w.type = "m"
  BY DEF w, WrittenMedia, Sdp!Line
<1>8. Len(t) \in Nat \ {0}
  BY <1>3, <1>4
<1>9. \A line \in Range(t) :
        /\ line.type \in {"m", "a"}
        /\ line.type = "m" => line = w
        /\ line.type = "a" /\ line.value.key = "rtpmap" => line.value.codec # Malformed
  <2> HIDE DEF t
  <2> SUFFICES ASSUME NEW line \in Range(t)
               PROVE  /\ line.type \in {"m", "a"}
                      /\ line.type = "m" => line = w
                      /\ line.type = "a" /\ line.value.key = "rtpmap"
                           => line.value.codec # Malformed
    OBVIOUS
  <2>1. line = w \/ line \in Range(R) \/ line \in Range(A)
    BY <1>4
  <2> QED
    BY <1>5, <1>6, <1>7, <2>1
<1>10. Sdp!MediaText(x) = t
  BY <1>1 DEF b, o, w
<1>11. IsSeq(t) /\ t[1] = w /\ w \in Range(t)
  BY <1>4
<1> HIDE DEF t
<1> QED
  BY <1>8, <1>9, <1>10, <1>11 DEF w

\* The lines of section x close the section that was open and leave k open, which is x.
ReadsAs(x, closed, current, k) ==
  /\ Reads([closed |-> closed, current |-> current], Sdp!MediaText(x),
           [closed |-> IF current = None THEN closed
                       ELSE Append(closed, Sdp!BuildMedia(current)),
            current |-> k])
  /\ Sdp!BuildMedia(k) = x
  /\ \E a, b, c : k = [m |-> a, rtpmap |-> b, attributes |-> c]

\* The lines of a section are read as that section.
LEMMA MediaRead ==
  ASSUME NEW x, IsMedia(x), NEW closed, NEW current
  PROVE  \E k : ReadsAs(x, closed, current, k)
<1>1. PICK R, A :
           /\ Sdp!MediaText(x) = (<<WrittenMedia(x)>> \o R) \o A
           /\ IsSeq(R) /\ Len(R) = Len(x.codecs)
           /\ \A i \in 1 .. Len(x.codecs) : R[i] = Sdp!Rtpmap(x.codecs[i])
           /\ IsSeq(A) /\ Len(A) = Len(x.attributes)
           /\ \A i \in 1 .. Len(x.attributes) :
                A[i] = Sdp!Attribute(x.attributes[i][1], x.attributes[i][2])
  BY MediaTextIs
<1> DEFINE w == WrittenMedia(x)
           v == w.value
           c == IF current = None THEN closed ELSE Append(closed, Sdp!BuildMedia(current))
           st == [closed |-> closed, current |-> current]
<1>2. w.type = "m" /\ v = [media_type |-> x.media_type, port |-> x.port,
                           protocol |-> x.protocol,
                           formats |-> [i \in DOMAIN x.codecs |-> x.codecs[i].payload_type]]
  BY DEF WrittenMedia, Sdp!Line
<1>3. Reads(st, <<w>>, Open(c, v, <<>>, <<>>))
  <2>1. Sdp!ReadMediaLine(st, w) = Open(c, v, <<>>, <<>>)
    BY <1>2 DEF Sdp!ReadMediaLine, Open, Sdp!MediaBuilder
  <2>2. Reads(st, <<w>>, Sdp!ReadMediaLine(st, w))
    BY ReadsShort
  <2> QED
    BY <2>1, <2>2
<1>4. IsSeq(<<w>>)
  BY ShortSeqs
<1> HIDE DEF w, v, c, st
<1>5. IsSeq(x.codecs) /\ AreAttributes(x.attributes)
  BY DEF IsMedia, AreCodecs
<1>6. PICK d : /\ Stands(d, x.codecs, Len(x.codecs))
               /\ Reads(Open(c, v, <<>>, <<>>), R, Open(c, v, d, <<>>))
  <2> DEFINE codecs == x.codecs
  <2>1. /\ IsSeq(codecs) /\ Len(R) = Len(codecs)
        /\ \A i \in 1 .. Len(codecs) : R[i] = Sdp!Rtpmap(codecs[i])
    BY <1>1, <1>5
  <2> HIDE DEF codecs
  <2>2. \E d : /\ Stands(d, codecs, Len(codecs))
               /\ Reads(Open(c, v, <<>>, <<>>), R, Open(c, v, d, <<>>))
    BY <1>1, <2>1, RtpmapsRead
  <2> QED
    BY <2>2 DEF codecs
<1>7. Reads(Open(c, v, d, <<>>), A, Open(c, v, d, x.attributes))
  <2> DEFINE attributes == x.attributes
  <2>1. /\ AreAttributes(attributes) /\ Len(A) = Len(attributes)
        /\ \A i \in 1 .. Len(attributes) :
             A[i] = Sdp!Attribute(attributes[i][1], attributes[i][2])
    BY <1>1, <1>5
  <2> HIDE DEF attributes
  <2>2. Reads(Open(c, v, d, <<>>), A, Open(c, v, d, attributes))
    BY <1>1, <2>1, AttributesRead
  <2> QED
    BY <2>2 DEF attributes
<1>8. Reads(st, Sdp!MediaText(x), Open(c, v, d, x.attributes))
  <2> DEFINE b == <<w>> \o R
  <2>1. Reads(st, b, Open(c, v, d, <<>>)) /\ IsSeq(b)
    BY <1>1, <1>3, <1>4, <1>6, ReadsJoined, JoinedIsSeq
  <2> HIDE DEF b
  <2>2. Reads(st, b \o A, Open(c, v, d, x.attributes))
    BY <1>1, <1>7, <2>1, ReadsJoined
  <2> QED
    BY <1>1, <2>2 DEF b, w
<1> DEFINE k == [m |-> v, rtpmap |-> d, attributes |-> x.attributes]
<1>9. Sdp!BuildMedia(k) = x
  <2> DEFINE n == Len(x.codecs)
             formats == v.formats
             s == [i \in DOMAIN formats |-> Sdp!Resolve(k, formats[i])]
             flat == Sdp!FlattenSeq(s)
  <2>1. n \in Nat /\ DOMAIN x.codecs = 1 .. n
    BY <1>5, SeqHas
  <2>2. DOMAIN formats = 1 .. n /\ \A i \in 1 .. n : formats[i] = x.codecs[i].payload_type
    BY <1>2, <2>1
  <2> HIDE DEF formats
  <2>3. ASSUME NEW i \in 1 .. n
        PROVE  s[i] = <<x.codecs[i]>>
    <3> DEFINE p == x.codecs[i].payload_type
               j == CHOOSE l \in DOMAIN d : d[l][1] = p
    <3>1. s[i] = Sdp!Resolve(k, p)
      BY <2>2
    <3>2. p \in Sdp!Keys(d) /\ IsSeq(d)
      BY <1>6 DEF Stands
    <3>3. \E l \in DOMAIN d : d[l][1] = p
      BY <3>2 DEF Sdp!Keys
    <3>4. j \in DOMAIN d /\ d[j][1] = p
      BY <3>3
    <3>5. j \in 1 .. Len(d)
      BY <3>2, <3>4, SeqHas
    <3>6. Sdp!Lookup(d, p) = d[j][2]
      BY DEF Sdp!Lookup
    <3> HIDE DEF j
    <3>7. PICK l \in 1 .. n : d[j] = <<x.codecs[l].payload_type, x.codecs[l]>>
      BY <1>6, <3>5 DEF Stands
    <3>8. x.codecs[l].payload_type = p /\ d[j][2] = x.codecs[l]
      BY <3>4, <3>7
    <3>9. x.codecs[l] = x.codecs[i]
      BY <3>8 DEF IsMedia, AreCodecs
    <3>10. k.rtpmap = d
      OBVIOUS
    <3> HIDE DEF k, p
    <3>11. Sdp!Resolve(k, p) = <<Sdp!Lookup(d, p)>>
      BY <3>2, <3>10 DEF Sdp!Resolve
    <3> QED
      BY <3>1, <3>6, <3>8, <3>9, <3>11
  <2>4. s = [i \in 1 .. n |-> s[i]]
    BY <2>2
  <2>5. Sdp!BuildMedia(k) = [media_type |-> x.media_type, port |-> x.port,
                             protocol |-> x.protocol, codecs |-> flat,
                             attributes |-> x.attributes]
    BY <1>2 DEF Sdp!BuildMedia, formats
  <2> HIDE DEF s, k
  <2>6. flat = x.codecs
    <3> DEFINE codecs == x.codecs
    <3>1. \A i \in 1 .. n : s[i] = <<codecs[i]>>
      BY <2>3
    <3>2. IsSeq(codecs) /\ Len(codecs) = n
      BY <1>5
    <3> HIDE DEF codecs, n
    <3>3. IsSeq(flat) /\ Len(flat) = n /\ \A i \in 1 .. n : flat[i] = codecs[i]
      <4>1. Singles(s, codecs, n)
        BY <2>4, <3>1 DEF Singles
      <4> QED
        BY <2>1, <4>1, FlatSingles
    <3> HIDE DEF flat
    <3>4. flat = codecs
      BY <3>2, <3>3, SameSeq
    <3> QED
      BY <3>4 DEF codecs
  <2> HIDE DEF flat
  <2> QED
    BY <2>5, <2>6 DEF IsMedia
<1>10. Open(c, v, d, x.attributes) = [closed |-> c, current |-> k]
  BY DEF Open
<1>11. Reads(st, Sdp!MediaText(x), [closed |-> c, current |-> k])
  BY <1>8, <1>10
<1>12. \E e, b, a : k = [m |-> e, rtpmap |-> b, attributes |-> a]
  OBVIOUS
<1> HIDE DEF k
<1>13. ReadsAs(x, closed, current, k)
  BY <1>9, <1>11, <1>12 DEF ReadsAs, st, c
<1> QED
  BY <1>13

\* All sections, one after the other, are read as they were.
LEMMA AllMediaRead ==
  ASSUME NEW media, IsSeq(media), Len(media) # 0, \A i \in 1 .. Len(media) : IsMedia(media[i]),
         NoneApart, NEW F, F = Sdp!FlattenSeq([i \in DOMAIN media |-> Sdp!MediaText(media[i])])
  PROVE  /\ IsSeq(F) /\ Len(F) \in Nat \ {0} /\ F[1] = WrittenMedia(media[1])
         /\ Range(F) = UNION {Range(Sdp!MediaText(media[i])) : i \in 1 .. Len(media)}
         /\ Sdp!ParseMedia(F) = media
<1> DEFINE n == Len(media)
           s == [i \in DOMAIN media |-> Sdp!MediaText(media[i])]
           start == [closed |-> <<>>, current |-> None]
<1>1. n \in Nat /\ n # 0 /\ 1 \in 1 .. n /\ n \in 1 .. n /\ DOMAIN media = 1 .. n
  BY SeqHas
<1>2. /\ s = [i \in 1 .. n |-> s[i]] /\ \A i \in 1 .. n : s[i] = Sdp!MediaText(media[i])
  BY <1>1
<1>3. F = Sdp!FlattenSeq(s)
  OBVIOUS
<1> HIDE DEF n, s
<1>4. \A i \in 1 .. n : IsMedia(media[i])
  BY DEF n
<1>5. \A i \in 1 .. n : /\ IsSeq(s[i]) /\ Len(s[i]) \in Nat \ {0}
                        /\ s[i][1] = WrittenMedia(media[i])
  BY <1>2, <1>4, MediaTextLines
<1>6. PICK f : /\ f[0] = <<>> /\ \A i \in 1 .. n : f[i] = f[i - 1] \o s[i]
               /\ \A i \in 0 .. n : IsSeq(f[i])
               /\ Sdp!FlattenSeq(s) = f[n]
  BY <1>1, <1>2, <1>5, FlatSteps
<1>7. IsSeq(F) /\ Range(F) = UNION {Range(Sdp!MediaText(media[i])) : i \in 1 .. n}
  <2>1. IsSeq(F) /\ Range(F) = UNION {Range(s[i]) : i \in 1 .. n}
    BY <1>1, <1>2, <1>3, <1>5, FlatRange
  <2> QED
    BY <1>2, <2>1
<1> DEFINE State(c, k, j) ==
             /\ IsSeq(c) /\ Len(c) = j - 1 /\ \A i \in 1 .. j - 1 : c[i] = media[i]
             /\ Sdp!BuildMedia(k) = media[j]
             /\ \E a, b, e : k = [m |-> a, rtpmap |-> b, attributes |-> e]
           Begins(j) == Len(f[j]) \in Nat \ {0} /\ f[j][1] = WrittenMedia(media[1])
           Good(j) == /\ \E c, k : /\ Reads(start, f[j], [closed |-> c, current |-> k])
                                   /\ State(c, k, j)
                      /\ Begins(j)
           Bad == {j \in 1 .. n : ~Good(j)}
<1>8. Good(1)
  <2>1. f[1] = s[1]
    <3>1. 1 - 1 = 0
      OBVIOUS
    <3>2. f[1] = <<>> \o s[1]
      BY <1>1, <1>6, <3>1
    <3> QED
      BY <1>1, <1>5, <3>2, NothingBefore
  <2>2. Begins(1)
    BY <1>1, <1>5, <2>1
  <2>3. PICK k :
           /\ Reads(start, Sdp!MediaText(media[1]), [closed |-> <<>>, current |-> k])
           /\ Sdp!BuildMedia(k) = media[1]
           /\ \E a, b, c : k = [m |-> a, rtpmap |-> b, attributes |-> c]
    <3> DEFINE x == media[1]
    <3>1. IsMedia(x)
      BY <1>1, <1>4
    <3> HIDE DEF x
    <3>2. PICK k : ReadsAs(x, <<>>, None, k)
      BY <3>1, MediaRead
    <3> QED
      BY <3>2 DEF ReadsAs, x
  <2>4. State(<<>>, k, 1)
    <3>1. Len(<<>>) = 1 - 1 /\ \A i \in 1 .. 1 - 1 : <<>>[i] = media[i]
      BY ShortSeqs
    <3> QED
      BY <2>3, <3>1, ShortSeqs
  <2>5. Reads(start, f[1], [closed |-> <<>>, current |-> k])
    BY <1>1, <1>2, <2>1, <2>3
  <2> HIDE DEF State, Begins, start
  <2> QED
    BY <2>2, <2>4, <2>5
<1>9. ASSUME NEW j \in 1 .. n, j # 1, Good(j - 1)
      PROVE  Good(j)
  <2>1. j - 1 \in 1 .. n /\ j - 1 \in 0 .. n
    BY <1>1, <1>9
  <2>2. PICK c, k : /\ Reads(start, f[j - 1], [closed |-> c, current |-> k])
                    /\ State(c, k, j - 1)
    BY <1>9
  <2>3. k # None
    BY <2>2 DEF NoneApart
  <2> DEFINE x == media[j]
             d == Append(c, Sdp!BuildMedia(k))
  <2>4. PICK l :
           /\ Reads([closed |-> c, current |-> k], Sdp!MediaText(x),
                    [closed |-> IF k = None THEN c ELSE Append(c, Sdp!BuildMedia(k)),
                     current |-> l])
           /\ Sdp!BuildMedia(l) = x
           /\ \E a, b, e : l = [m |-> a, rtpmap |-> b, attributes |-> e]
    <3>1. IsMedia(x)
      BY <1>4
    <3> HIDE DEF x
    <3>2. PICK l : ReadsAs(x, c, k, l)
      BY <3>1, MediaRead
    <3> QED
      BY <3>2 DEF ReadsAs
  <2>5. Reads([closed |-> c, current |-> k], s[j], [closed |-> d, current |-> l])
    BY <1>2, <2>3, <2>4
  <2>6. f[j] = f[j - 1] \o s[j] /\ IsSeq(f[j - 1]) /\ IsSeq(s[j])
    BY <1>5, <1>6, <2>1
  <2>7. Reads(start, f[j], [closed |-> d, current |-> l])
    <3> HIDE DEF start, d
    <3> QED
      BY <2>2, <2>5, <2>6, ReadsJoined
  <2>8. State(d, l, j)
    <3> DEFINE b == Sdp!BuildMedia(k)
    <3>1. /\ IsSeq(c) /\ Len(c) = (j - 1) - 1 /\ \A i \in 1 .. (j - 1) - 1 : c[i] = media[i]
          /\ b = media[j - 1]
      BY <2>2
    <3> HIDE DEF b
    <3>2. (j - 1) - 1 = j - 2 /\ (j - 2) + 1 = j - 1
      BY <2>1
    <3>3. /\ IsSeq(Append(c, b)) /\ Len(Append(c, b)) = j - 1 /\ Append(c, b)[j - 1] = b
          /\ \A i \in 1 .. j - 2 : Append(c, b)[i] = c[i]
      BY <3>1, <3>2, AppendIs
    <3>4. d = Append(c, b)
      BY DEF b
    <3> HIDE DEF d
    <3>5. ASSUME NEW i \in 1 .. j - 1
          PROVE  d[i] = media[i]
      <4>1. CASE i = j - 1
        BY <3>1, <3>3, <3>4, <4>1
      <4>2. CASE i # j - 1
        <5>1. i \in 1 .. j - 2
          BY <2>1, <4>2
        <5> QED
          BY <3>1, <3>2, <3>3, <3>4, <5>1
      <4> QED
        BY <4>1, <4>2
    <3>6. IsSeq(d) /\ Len(d) = j - 1
      BY <3>3, <3>4
    <3> QED
      BY <2>4, <3>5, <3>6
  <2>9. Begins(j)
    <3> DEFINE y == f[j - 1]
               z == s[j]
    <3>1. f[j] = y \o z /\ IsSeq(y) /\ IsSeq(z)
      BY <2>6
    <3>2. Len(y) \in Nat \ {0} /\ y[1] = WrittenMedia(media[1])
      BY <1>9
    <3> HIDE DEF y, z
    <3>3. /\ Len(f[j]) = Len(y) + Len(z) /\ Len(z) \in Nat
          /\ \A i \in 1 .. Len(y) : f[j][i] = y[i]
      BY <3>1, JoinedHas
    <3> QED
      BY <3>2, <3>3
  <2> HIDE DEF State, Begins, start, d
  <2> QED
    BY <2>7, <2>8, <2>9
<1> HIDE DEF Good
<1>10. ASSUME Bad # {}
       PROVE  FALSE
  <2>1. PICK j \in Bad : \A k \in Bad : j <= k
    <3>1. Bad \in SUBSET Nat /\ Bad # {}
      BY <1>10
    <3> QED
      BY <3>1, Smallest, Zenon
  <2>2. j # 1
    BY <1>8
  <2>3. j \in 1 .. n /\ j - 1 \in 1 .. n
    BY <1>1, <2>2
  <2>4. Good(j - 1)
    BY <2>1, <2>3
  <2> QED
    BY <1>9, <2>2, <2>3, <2>4
<1>11. Good(n)
  BY <1>1, <1>10
<1>12. PICK c, k : Reads(start, F, [closed |-> c, current |-> k]) /\ State(c, k, n)
  <2>1. F = f[n]
    BY <1>3, <1>6
  <2>2. \E c, k : Reads(start, f[n], [closed |-> c, current |-> k]) /\ State(c, k, n)
    <3> HIDE DEF State, Begins, start
    <3> QED
      BY <1>11 DEF Good
  <2> HIDE DEF State, start
  <2> QED
    BY <2>1, <2>2
<1>13. Begins(n)
  BY <1>11 DEF Good
<1>14. Sdp!ParseMedia(F) = media
  <2> DEFINE st == [closed |-> c, current |-> k]
             b == Sdp!BuildMedia(k)
             d == Append(c, b)
  <2>1. Sdp!SecondPass(F) = st
    BY <1>7, <1>12, SecondPassReads
  <2>2. Sdp!ParseMedia(F) = d
    BY <2>1 DEF Sdp!ParseMedia
  <2>3. /\ IsSeq(c) /\ Len(c) = n - 1 /\ \A i \in 1 .. n - 1 : c[i] = media[i]
        /\ b = media[n]
    BY <1>12
  <2> HIDE DEF b
  <2>4. (n - 1) + 1 = n
    BY <1>1
  <2>5. IsSeq(d) /\ Len(d) = n /\ d[n] = b /\ \A i \in 1 .. n - 1 : d[i] = c[i]
    BY <2>3, <2>4, AppendIs
  <2> HIDE DEF d
  <2>6. ASSUME NEW i \in 1 .. n
        PROVE  d[i] = media[i]
    <3>1. i = n \/ i \in 1 .. n - 1
      BY <1>1
    <3> QED
      BY <2>3, <2>5, <3>1
  <2>7. d = media
    <3>1. Len(media) = n
      BY DEF n
    <3> QED
      BY <2>5, <2>6, <3>1, SameSeq
  <2> QED
    BY <2>2, <2>7
<1> QED
  BY <1>3, <1>6, <1>7, <1>13, <1>14 DEF n

\* The session lines of a session, as they are written.
LEMMA HeaderIs ==
  ASSUME NEW x
  PROVE  \E H :
           /\ Sdp!BuildSdp(x)
                = H \o Sdp!FlattenSeq([i \in DOMAIN x.media |-> Sdp!MediaText(x.media[i])])
           /\ IsSeq(H)
           /\ H[1] = Sdp!Line("v", x.version) /\ H[2] = Sdp!Line("o", x.origin)
           /\ H[3] = Sdp!Line("s", x.session_name)
           /\ \/ /\ x.connection_address = None /\ Len(H) = 4
                 /\ H[4] = Sdp!Line("t", x.time)
              \/ /\ x.connection_address # None /\ Len(H) = 5
                 /\ H[4] = Sdp!Line("c", x.connection_address) /\ H[5] = Sdp!Line("t", x.time)
<1> DEFINE v == Sdp!Line("v", x.version)
           o == Sdp!Line("o", x.origin)
           s == Sdp!Line("s", x.session_name)
           c == Sdp!Line("c", x.connection_address)
           t == Sdp!Line("t", x.time)
           A == <<v, o, s>>
           B == IF x.connection_address = None THEN <<>> ELSE <<c>>
           T == <<t>>
           AB == A \o B
           H == AB \o T
           F == Sdp!FlattenSeq([i \in DOMAIN x.media |-> Sdp!MediaText(x.media[i])])
<1>1. Sdp!BuildSdp(x) = H \o F
  BY DEF Sdp!BuildSdp
<1> HIDE DEF v, o, s, c, t, F
<1>2. IsSeq(A) /\ Len(A) = 3 /\ A[1] = v /\ A[2] = o /\ A[3] = s
  <2>1. A \in Seq({v, o, s})
    OBVIOUS
  <2>2. IsSeq(A)
    BY <2>1, Zenon DEF IsSeq
  <2> QED
    BY <2>2
<1>3. IsSeq(T) /\ Len(T) = 1 /\ T[1] = t
  BY ShortSeqs
<1>4. /\ IsSeq(B)
      /\ \/ x.connection_address = None /\ Len(B) = 0
         \/ x.connection_address # None /\ Len(B) = 1 /\ B[1] = c
  BY ShortSeqs
<1> HIDE DEF A, B, T
<1>5. /\ IsSeq(AB) /\ Len(AB) = Len(A) + Len(B)
      /\ \A i \in 1 .. Len(A) : AB[i] = A[i]
      /\ \A i \in 1 .. Len(B) : AB[Len(A) + i] = B[i]
  <2>1. IsSeq(A) /\ IsSeq(B)
    BY <1>2, <1>4
  <2> QED
    BY <2>1, JoinedHas
<1> HIDE DEF AB
<1>6. /\ IsSeq(H) /\ Len(H) = Len(AB) + Len(T)
      /\ \A i \in 1 .. Len(AB) : H[i] = AB[i]
      /\ \A i \in 1 .. Len(T) : H[Len(AB) + i] = T[i]
  <2>1. IsSeq(AB) /\ IsSeq(T)
    BY <1>3, <1>5
  <2> QED
    BY <2>1, JoinedHas
<1> HIDE DEF H
<1>7. H[1] = v /\ H[2] = o /\ H[3] = s
  BY <1>2, <1>4, <1>5, <1>6
<1>8. CASE x.connection_address = None
  <2>1. Len(AB) = 3 /\ Len(H) = 4 /\ H[3 + 1] = t
    BY <1>2, <1>3, <1>4, <1>5, <1>6, <1>8
  <2>2. H[4] = t
    BY <2>1
  <2> QED
    BY <1>1, <1>6, <1>7, <1>8, <2>1, <2>2 DEF v, o, s, t, F
<1>9. CASE x.connection_address # None
  <2>1. Len(AB) = 4 /\ Len(H) = 5 /\ H[4 + 1] = t /\ AB[3 + 1] = c
    BY <1>2, <1>3, <1>4, <1>5, <1>6, <1>9
  <2>2. H[5] = t /\ H[4] = c
    BY <1>6, <2>1
  <2> QED
    BY <1>1, <1>6, <1>7, <1>9, <2>1, <2>2 DEF v, o, s, c, t, F
<1> QED
  BY <1>8, <1>9

\* A set of numbers up to n with a member has a largest one.
LEMMA Largest ==
  ASSUME NEW n \in Nat, NEW S \in SUBSET (1 .. n), S # {}
  PROVE  \E x \in S : \A y \in S : x >= y
<1> DEFINE T == {n - i : i \in S}
<1>1. T \in SUBSET Nat /\ T # {}
  OBVIOUS
<1>2. PICK m \in T : \A k \in T : m <= k
  BY <1>1, Smallest, Zenon
<1>3. PICK x \in S : m = n - x
  OBVIOUS
<1>4. \A y \in S : n - y \in T
  OBVIOUS
<1>5. \A y \in S : n - x <= n - y
  BY <1>2, <1>3, <1>4
<1>6. \A y \in S : x >= y
  BY <1>5
<1> QED
  BY <1>6

\* A field of a text: the value of a session line of its type, or the default.
LEMMA FieldIs ==
  ASSUME NEW t, NEW s, s = Sdp!SessionLines(t), Len(s) \in Nat, NEW type, NEW default
  PROVE  /\ \/ Sdp!Field(t, type, default) = default /\ \A i \in 1 .. Len(s) : s[i].type # type
            \/ \E i \in 1 .. Len(s) : s[i].type = type /\ Sdp!Field(t, type, default) = s[i].value
         /\ (\A i \in 1 .. Len(s) : s[i].type # type) => Sdp!Field(t, type, default) = default
<1> DEFINE S == {i \in 1 .. Len(s) : s[i].type = type}
           m == IF S # {} THEN Sdp!Max(S) ELSE 0
<1>1. Sdp!Field(t, type, default) = IF m = 0 THEN default ELSE s[m].value
  BY DEF Sdp!Field, Sdp!SelectLastInSeq
<1>2. S \in SUBSET (1 .. Len(s))
  OBVIOUS
<1>3. ASSUME S # {}
      PROVE  m \in S
  <2> HIDE DEF S
  <2>1. \E x \in S : \A y \in S : x >= y
    BY <1>2, <1>3, Largest
  <2>2. Sdp!Max(S) \in S
    BY <2>1 DEF Sdp!Max
  <2> QED
    BY <1>3, <2>2
<1>4. CASE S = {}
  BY <1>1, <1>4
<1>5. CASE S # {}
  <2>1. m \in 1 .. Len(s) /\ s[m].type = type
    BY <1>3, <1>5
  <2> HIDE DEF m
  <2>2. m # 0
    BY <2>1
  <2> QED
    BY <1>1, <2>1, <2>2
<1> QED
  BY <1>4, <1>5

\* The two parts of a sequence that was joined.
LEMMA JoinedParts ==
  ASSUME NEW s, NEW t, IsSeq(s), IsSeq(t)
  PROVE  /\ SubSeq(s \o t, 1, Len(s)) = s
         /\ SubSeq(s \o t, Len(s) + 1, Len(s) + Len(t)) = t
<1> DEFINE u == s \o t
           n == Len(s)
           m == Len(t)
<1>1. /\ IsSeq(u) /\ n \in Nat /\ m \in Nat /\ Len(u) = n + m
      /\ \A i \in 1 .. n : u[i] = s[i]
      /\ \A i \in 1 .. m : u[n + i] = t[i]
  BY JoinedHas
<1>2. s = [i \in 1 .. n |-> s[i]] /\ t = [i \in 1 .. m |-> t[i]]
  BY SeqHas
<1> HIDE DEF u, n, m
<1>3. PICK U : u \in Seq(U)
  BY <1>1, Zenon DEF IsSeq
<1>4. SubSeq(u, 1, n) = [i \in 1 .. n |-> u[i]]
  BY <1>1, <1>3
<1>5. SubSeq(u, n + 1, n + m) = [i \in 1 .. m |-> u[n + i]]
  <2> DEFINE w == SubSeq(u, n + 1, n + m)
  <2>1. w \in Seq(U) /\ Len(w) = m /\ \A i \in 1 .. m : w[i] = u[i + n]
    BY <1>1, <1>3
  <2> HIDE DEF w
  <2>2. w = [i \in 1 .. m |-> w[i]]
    BY <2>1
  <2>3. \A i \in 1 .. m : w[i] = u[n + i]
    <3>1. \A i \in 1 .. m : i + n = n + i
      BY <1>1
    <3> QED
      BY <2>1, <3>1
  <2> QED
    BY <2>2, <2>3 DEF w
<1>6. [i \in 1 .. n |-> u[i]] = s
  BY <1>1, <1>2
<1>7. [i \in 1 .. m |-> u[n + i]] = t
  BY <1>1, <1>2
<1> QED
  BY <1>4, <1>5, <1>6, <1>7 DEF u, n, m

\* What is rebuilt is told from None and Malformed where the parser looks for them.
LEMMA SessionFields ==
  ASSUME NEW t \in Seq(Lines), Sdp!WellFormed(t)
  PROVE  LET x == Sdp!ParseSdp(t)
         IN  /\ x.version # Malformed /\ x.origin # Malformed /\ x.time # Malformed
             /\ x.connection_address # None => x.connection_address # Malformed
             /\ Len(x.media) # 0
<1> DEFINE x == Sdp!ParseSdp(t)
           s == Sdp!SessionLines(t)
           M == Sdp!MediaLines(t)
<1>1. Sdp!FirstMedia(t) \in 1 .. Len(t) /\ Len(M) \in Nat
  BY MediaLinesAre DEF Sdp!WellFormed
<1>2. Len(s) \in Nat /\ DOMAIN s = 1 .. Len(s)
  <2> DEFINE m == Sdp!FirstMedia(t)
  <2>1. s = SubSeq(t, 1, m - 1)
    BY <1>1 DEF Sdp!SessionLines
  <2>2. m \in 1 .. Len(t)
    BY <1>1
  <2> HIDE DEF m
  <2>3. SubSeq(t, 1, m - 1) \in Seq(Lines)
    BY <2>2
  <2> HIDE DEF s
  <2> QED
    BY <2>1, <2>3
<1>3. \A i \in 1 .. Len(s) :
        s[i].type \in {"v", "o", "c", "t"} => s[i].value # Malformed
  <2>1. \A i \in 1 .. Len(s) : s[i] \in Sdp!Range(s)
    BY <1>2 DEF Sdp!Range
  <2>2. \A line \in Sdp!Range(s) :
          line.type \in {"v", "o", "c", "t"} => line.value # Malformed
    BY DEF Sdp!WellFormed
  <2> HIDE DEF s
  <2> QED
    BY <2>1, <2>2
<1>4. \A type \in {"v", "o", "s"} : \E i \in 1 .. Len(s) : s[i].type = type
  <2>1. {"v", "o", "s"} \subseteq {line.type : line \in Sdp!Range(s)}
    BY DEF Sdp!WellFormed
  <2> HIDE DEF s
  <2> QED
    BY <1>2, <2>1 DEF Sdp!Range
<1>5. \A type, default :
        \/ /\ Sdp!Field(t, type, default) = default
           /\ \A i \in 1 .. Len(s) : s[i].type # type
        \/ \E i \in 1 .. Len(s) : s[i].type = type /\ Sdp!Field(t, type, default) = s[i].value
  BY <1>2, FieldIs
<1> HIDE DEF s
<1>6. Sdp!Field(t, "v", None) # Malformed /\ Sdp!Field(t, "o", None) # Malformed
  <2>1. \A type \in {"v", "o"} : Sdp!Field(t, type, None) # Malformed
    BY <1>3, <1>4, <1>5
  <2> QED
    BY <2>1
<1>7. Sdp!Field(t, "c", None) # None => Sdp!Field(t, "c", None) # Malformed
  BY <1>3, <1>5
<1>8. Sdp!Field(t, "t", <<0, 0>>) # Malformed
  <2> DEFINE z == <<0, 0>>
  <2>1. z # Malformed
    BY MalformedAssumption
  <2> HIDE DEF z
  <2>2. Sdp!Field(t, "t", z) # Malformed
    BY <1>3, <1>5, <2>1
  <2> QED
    BY <2>2 DEF z
<1>9. Len(Sdp!ParseMedia(M)) # 0
  <2> DEFINE st == Sdp!SecondPass(M)
             c == st.closed
             b == Sdp!BuildMedia(st.current)
  <2>1. IsSeq(c)
    BY <1>1, SecondPassState DEF IsPassState
  <2>2. Sdp!ParseMedia(M) = Append(c, b)
    BY DEF Sdp!ParseMedia
  <2> HIDE DEF b, c, M
  <2>3. Len(c) \in Nat /\ Len(Append(c, b)) = Len(c) + 1
    BY <2>1, AppendIs
  <2> QED
    BY <2>2, <2>3
<1> QED
  BY <1>6, <1>7, <1>8, <1>9 DEF Sdp!ParseSdp

\* What was built from a session is read as that session; it is accepted exactly if
\* every section has a codec.
LEMMA RebuiltIs ==
  ASSUME NEW x, IsSession(x), Len(x.media) # 0,
         x.version # Malformed, x.origin # Malformed, x.time # Malformed,
         x.connection_address # None => x.connection_address # Malformed,
         NoneApart, MalformedApart
  PROVE  /\ Sdp!ParseSdp(Sdp!BuildSdp(x)) = x
         /\ Sdp!WellFormed(Sdp!BuildSdp(x))
              <=> \A i \in 1 .. Len(x.media) : x.media[i].codecs # <<>>
<1> DEFINE u == Sdp!BuildSdp(x)
           media == x.media
           F == Sdp!FlattenSeq([i \in DOMAIN media |-> Sdp!MediaText(media[i])])
           lv == Sdp!Line("v", x.version)
           lo == Sdp!Line("o", x.origin)
           ls == Sdp!Line("s", x.session_name)
           lc == Sdp!Line("c", x.connection_address)
           lt == Sdp!Line("t", x.time)
<1>1. /\ lv.type = "v" /\ lv.value = x.version /\ lo.type = "o" /\ lo.value = x.origin
      /\ ls.type = "s" /\ ls.value = x.session_name
      /\ lc.type = "c" /\ lc.value = x.connection_address
      /\ lt.type = "t" /\ lt.value = x.time
  BY DEF Sdp!Line
<1>2. PICK H : /\ u = H \o F /\ IsSeq(H) /\ H[1] = lv /\ H[2] = lo /\ H[3] = ls
               /\ \/ x.connection_address = None /\ Len(H) = 4 /\ H[4] = lt
                  \/ x.connection_address # None /\ Len(H) = 5 /\ H[4] = lc /\ H[5] = lt
  BY HeaderIs
<1>3. IsSeq(media) /\ Len(media) # 0 /\ \A i \in 1 .. Len(media) : IsMedia(media[i])
  BY DEF IsSession
<1> HIDE DEF u, lv, lo, ls, lc, lt, media
<1>4. /\ IsSeq(F) /\ Len(F) \in Nat \ {0} /\ F[1] = WrittenMedia(media[1])
      /\ Range(F) = UNION {Range(Sdp!MediaText(media[i])) : i \in 1 .. Len(media)}
      /\ Sdp!ParseMedia(F) = media
  BY <1>3, AllMediaRead
<1> HIDE DEF F
<1> DEFINE n == Len(H)
<1>5. n \in {4, 5}
  BY <1>2
<1>6. ASSUME NEW i \in 1 .. n
      PROVE  \/ H[i] \in {lv, lo, ls, lt}
             \/ H[i] = lc /\ x.connection_address # None
  <2>1. CASE n = 4
    <3>1. i \in {1, 2, 3, 4}
      BY <2>1
    <3> QED
      BY <1>2, <2>1, <3>1
  <2>2. CASE n = 5
    <3>1. i \in {1, 2, 3, 4, 5}
      BY <2>2
    <3> QED
      BY <1>2, <2>2, <3>1
  <2> QED
    BY <1>5, <2>1, <2>2
<1>7. /\ \E i \in 1 .. n : H[i] = lv
      /\ \E i \in 1 .. n : H[i] = lo
      /\ \E i \in 1 .. n : H[i] = ls
      /\ \E i \in 1 .. n : H[i] = lt
      /\ x.connection_address # None => \E i \in 1 .. n : H[i] = lc
  <2>1. CASE n = 4
    <3>1. 1 \in 1 .. n /\ 2 \in 1 .. n /\ 3 \in 1 .. n /\ 4 \in 1 .. n
      BY <2>1
    <3> QED
      BY <1>2, <2>1, <3>1
  <2>2. CASE n = 5
    <3>1. 1 \in 1 .. n /\ 2 \in 1 .. n /\ 3 \in 1 .. n /\ 4 \in 1 .. n /\ 5 \in 1 .. n
      BY <2>2
    <3> QED
      BY <1>2, <2>2, <3>1
  <2> QED
    BY <1>5, <2>1, <2>2
<1>8. /\ IsSeq(u) /\ Len(u) = n + Len(F) /\ Range(u) = Range(H) \cup Range(F)
      /\ \A i \in 1 .. n : u[i] = H[i]
      /\ \A i \in 1 .. Len(F) : u[n + i] = F[i]
      /\ SubSeq(u, 1, n) = H /\ SubSeq(u, n + 1, n + Len(F)) = F
  <2>1. u = H \o F /\ n = Len(H)
    BY <1>2
  <2>2. IsSeq(H) /\ IsSeq(F)
    BY <1>2, <1>4
  <2>3. /\ IsSeq(H \o F) /\ Len(H \o F) = Len(H) + Len(F)
        /\ Range(H \o F) = Range(H) \cup Range(F)
        /\ \A i \in 1 .. Len(H) : (H \o F)[i] = H[i]
        /\ \A i \in 1 .. Len(F) : (H \o F)[Len(H) + i] = F[i]
    BY <2>2, JoinedHas
  <2>4. /\ SubSeq(H \o F, 1, Len(H)) = H
        /\ SubSeq(H \o F, Len(H) + 1, Len(H) + Len(F)) = F
    BY <2>2, JoinedParts
  <2> HIDE DEF n
  <2> QED
    BY <2>1, <2>3, <2>4, Zenon
<1>9. Sdp!FirstMedia(u) = n + 1
  <2> DEFINE Media == {i \in 1 .. Len(u) : u[i].type = "m"}
  <2>1. n + 1 \in Media
    <3>1. 1 \in 1 .. Len(F) /\ n + 1 \in 1 .. Len(u)
      BY <1>4, <1>5, <1>8
    <3>2. u[n + 1] = WrittenMedia(media[1])
      BY <1>4, <1>8, <3>1
    <3> QED
      BY <3>1, <3>2 DEF WrittenMedia, Sdp!Line
  <2>2. ASSUME NEW i \in Media
        PROVE  n + 1 <= i
    <3>1. CASE i \in 1 .. n
      BY <1>1, <1>6, <1>8, <3>1
    <3>2. CASE ~(i \in 1 .. n)
      BY <1>4, <1>5, <1>8, <3>2
    <3> QED
      BY <3>1, <3>2
  <2>3. Len(u) \in Nat
    BY <1>4, <1>5, <1>8
  <2> HIDE DEF n
  <2> QED
    BY <2>1, <2>2, <2>3, FirstMediaIs
<1>10. Sdp!SessionLines(u) = H /\ Sdp!MediaLines(u) = F
  <2>1. n + 1 # 0 /\ (n + 1) - 1 = n
    BY <1>5
  <2> HIDE DEF n
  <2> QED
    BY <1>8, <1>9, <2>1 DEF Sdp!SessionLines, Sdp!MediaLines
<1>11. \A type, default :
         /\ \/ Sdp!Field(u, type, default) = default /\ \A i \in 1 .. n : H[i].type # type
            \/ \E i \in 1 .. n : H[i].type = type /\ Sdp!Field(u, type, default) = H[i].value
         /\ (\A i \in 1 .. n : H[i].type # type) => Sdp!Field(u, type, default) = default
  <2>1. Len(H) \in Nat
    BY <1>5
  <2> QED
    BY <1>10, <2>1, FieldIs
<1> HIDE DEF n
<1>12. Sdp!Field(u, "v", None) = x.version /\ Sdp!Field(u, "o", None) = x.origin
  BY <1>1, <1>6, <1>7, <1>11
<1>13. Sdp!Field(u, "s", None) = x.session_name
  BY <1>1, <1>6, <1>7, <1>11
<1>14. Sdp!Field(u, "t", <<0, 0>>) = x.time
  <2> DEFINE z == <<0, 0>>
  <2> HIDE DEF z
  <2>1. Sdp!Field(u, "t", z) = x.time
    BY <1>1, <1>6, <1>7, <1>11
  <2> QED
    BY <2>1 DEF z
<1>15. Sdp!Field(u, "c", None) = x.connection_address
  BY <1>1, <1>6, <1>7, <1>11
<1>16. Sdp!ParseSdp(u) = x
  BY <1>4, <1>10, <1>12, <1>13, <1>14, <1>15 DEF Sdp!ParseSdp, IsSession, media
<1>17. \A s : Sdp!Range(s) = Range(s)
  BY DEF Sdp!Range, Range
<1>18. ASSUME NEW line \in Range(H)
       PROVE  /\ line.type # Malformed /\ line.type # "m"
              /\ line.type \in {"v", "o", "c", "t"} => line.value # Malformed
  <2>1. PICK i \in 1 .. n : line = H[i]
    BY <1>2, SeqHas DEF Range, n
  <2> QED
    BY <1>1, <1>6, <2>1, MalformedAssumption
<1>19. {"v", "o", "s"} \subseteq {line.type : line \in Range(H)}
  <2>1. \A i \in 1 .. n : H[i] \in Range(H)
    BY <1>2, SeqHas DEF Range, n
  <2> QED
    BY <1>1, <1>7, <2>1
<1>20. ASSUME NEW line \in Range(F)
       PROVE  /\ line.type \in {"m", "a"} /\ line.type # Malformed
              /\ line.type = "m" => line.value # Malformed
              /\ line.type = "a" /\ line.value.key = "rtpmap" => line.value.codec # Malformed
  <2>1. PICK i \in 1 .. Len(media) : line \in Range(Sdp!MediaText(media[i]))
    BY <1>4
  <2>2. /\ line.type \in {"m", "a"}
        /\ line.type = "m" => line = WrittenMedia(media[i])
        /\ line.type = "a" /\ line.value.key = "rtpmap" => line.value.codec # Malformed
    BY <1>3, <2>1, MediaTextLines
  <2>3. WrittenMedia(media[i]).value # Malformed
    BY DEF WrittenMedia, Sdp!Line, MalformedApart
  <2>4. line.type # Malformed
    BY <2>2, MalformedAssumption
  <2>5. line.type = "m" => line.value # Malformed
    BY <2>2, <2>3, Zenon
  <2> QED
    BY <2>2, <2>4, <2>5, Zenon
<1>21. ASSUME NEW i \in 1 .. Len(media)
       PROVE  /\ WrittenMedia(media[i]) \in Range(F) /\ WrittenMedia(media[i]).type = "m"
              /\ WrittenMedia(media[i]).value.formats = <<>> <=> media[i].codecs = <<>>
  <2>1. WrittenMedia(media[i]) \in Range(F)
    BY <1>3, <1>4, MediaTextLines
  <2> DEFINE codecs == media[i].codecs
             formats == [j \in DOMAIN codecs |-> codecs[j].payload_type]
  <2>2. WrittenMedia(media[i]).type = "m" /\ WrittenMedia(media[i]).value.formats = formats
    BY DEF WrittenMedia, Sdp!Line
  <2>3. IsSeq(codecs)
    BY <1>3 DEF IsMedia, AreCodecs
  <2> HIDE DEF codecs
  <2>4. Len(codecs) \in Nat /\ DOMAIN codecs = 1 .. Len(codecs)
    BY <2>3, SeqHas
  <2>5. formats = [j \in 1 .. Len(codecs) |-> formats[j]]
    BY <2>4
  <2> HIDE DEF formats
  <2>6. IsSeq(formats) /\ Len(formats) = Len(codecs)
    BY <2>4, <2>5, FunctionIsSeq
  <2>7. \A s : IsSeq(s) => (s = <<>> <=> Len(s) = 0)
    <3> SUFFICES ASSUME NEW s, IsSeq(s), Len(s) = 0
                 PROVE  s = <<>>
      BY ShortSeqs
    <3>1. \A j \in 1 .. Len(s) : s[j] = <<>>[j]
      OBVIOUS
    <3> QED
      BY <3>1, ShortSeqs, SameSeq
  <2>8. formats = <<>> <=> codecs = <<>>
    BY <2>3, <2>6, <2>7
  <2> QED
    BY <2>1, <2>2, <2>8 DEF codecs
<1>22. Sdp!WellFormed(u)
         <=> \A line \in Range(F) : line.type = "m" => line.value.formats # <<>>
  <2>1. n + 1 # 0
    BY <1>5 DEF n
  <2>2. \A line \in Range(u) : line.type # Malformed
    BY <1>8, <1>18, <1>20
  <2> QED
    BY <1>9, <1>10, <1>17, <1>18, <1>19, <1>20, <2>1, <2>2 DEF Sdp!WellFormed
<1>23. (\A line \in Range(F) : line.type = "m" => line.value.formats # <<>>)
         <=> \A i \in 1 .. Len(media) : media[i].codecs # <<>>
  <2>1. ASSUME NEW line \in Range(F), line.type = "m"
        PROVE  \E i \in 1 .. Len(media) : line = WrittenMedia(media[i])
    <3>1. PICK i \in 1 .. Len(media) : line \in Range(Sdp!MediaText(media[i]))
      BY <1>4
    <3> QED
      BY <1>3, <2>1, <3>1, MediaTextLines
  <2> QED
    BY <1>21, <2>1
<1> QED
  BY <1>16, <1>22, <1>23 DEF u, media

\* A session that was read can be written and read again, unless a section has lost
\* its codecs; None and Malformed only have to be told from what they stand beside.
THEOREM SessionsSurvive ==
  ASSUME NoneApart, MalformedApart
  PROVE  Spec => []SdpRoundTrip
<1>1. text \in Seq(Lines) => SdpRoundTrip
  <2> SUFFICES ASSUME text \in Seq(Lines), IsSdp
               PROVE  LET rebuilt == Sdp!BuildSdp(Session) IN
                      IF HasEmptySection THEN ~Sdp!WellFormed(rebuilt)
                      ELSE Sdp!WellFormed(rebuilt) /\ Sdp!ParseSdp(rebuilt) = Session
    BY DEF SdpRoundTrip
  <2> DEFINE x == Session
  <2>1. Sdp!WellFormed(text)
    BY DEF IsSdp
  <2>2. IsSession(x)
    BY <2>1, SessionType DEF Session
  <2>3. /\ x.version # Malformed /\ x.origin # Malformed /\ x.time # Malformed
        /\ x.connection_address # None => x.connection_address # Malformed
        /\ Len(x.media) # 0
    BY <2>1, SessionFields DEF Session
  <2>4. HasEmptySection <=> \E i \in 1 .. Len(x.media) : x.media[i].codecs = <<>>
    <3>1. DOMAIN x.media = 1 .. Len(x.media)
      BY <2>2, SeqHas DEF IsSession
    <3> QED
      BY <3>1 DEF HasEmptySection, Range
  <2> HIDE DEF x
  <2>5. /\ Sdp!ParseSdp(Sdp!BuildSdp(x)) = x
        /\ Sdp!WellFormed(Sdp!BuildSdp(x))
             <=> \A i \in 1 .. Len(x.media) : x.media[i].codecs # <<>>
    BY <2>2, <2>3, RebuiltIs
  <2> QED
    BY <2>4, <2>5 DEF x
<1> QED
  BY <1>1, TextType, PTL

-------------------------------------------------------------------------------
(***************************************************************************)
(* The two recursive functions of the header section of a SIP text.        *)
(***************************************************************************)

\* Each state is what Unfold makes of the one before.
LEMMA UnfoldStepsAre ==
  \A f, lines, n : Steps(f, "unfold", {}, <<>>, lines, n) <=>
    f[0] = <<>> /\ \A i \in 1 .. n : f[i] = Sip!Unfold(f[i - 1], lines[i])
BY DEF Steps, TakeStep

\* Each state is what AddHeader makes of the one before.
LEMMA AssignStepsAre ==
  \A f, lines, n : Steps(f, "assign", {}, <<>>, lines, n) <=>
    f[0] = <<>> /\ \A i \in 1 .. n : f[i] = Sip!AddHeader(f[i - 1], lines[i])
BY DEF Steps, TakeStep

\* What is unfolded is the last of the states.
LEMMA UnfoldedIs ==
  ASSUME NEW lines, Len(lines) \in Nat
  PROVE  \E f : /\ Steps(f, "unfold", {}, <<>>, lines, Len(lines))
                /\ Sip!Unfolded(lines) = f[Len(lines)]
<1> DEFINE n == Len(lines)
           step(f) == [i \in 0 .. n |-> IF i = 0 THEN <<>> ELSE Sip!Unfold(f[i - 1], lines[i])]
           st == CHOOSE f : f = step(f)
<1>1. PICK g : g = [i \in 0 .. n |-> g[i]] /\ Steps(g, "unfold", {}, <<>>, lines, n)
  BY StepsExist
<1>2. g = step(g)
  BY <1>1, UnfoldStepsAre
<1>3. st = step(st)
  BY <1>2
<1>4. Sip!Unfolded(lines) = st[n]
  BY DEF Sip!Unfolded
<1> HIDE DEF st
<1>5. Steps(st, "unfold", {}, <<>>, lines, n)
  BY <1>3, UnfoldStepsAre
<1> QED
  BY <1>4, <1>5

\* The headers are the last of the states.
LEMMA HeadersOfIs ==
  ASSUME NEW lines, Len(lines) \in Nat
  PROVE  \E f : /\ Steps(f, "assign", {}, <<>>, lines, Len(lines))
                /\ Sip!HeadersOf(lines) = f[Len(lines)]
<1> DEFINE n == Len(lines)
           step(f) == [i \in 0 .. n |-> IF i = 0 THEN <<>> ELSE Sip!AddHeader(f[i - 1], lines[i])]
           st == CHOOSE f : f = step(f)
<1>1. PICK g : g = [i \in 0 .. n |-> g[i]] /\ Steps(g, "assign", {}, <<>>, lines, n)
  BY StepsExist
<1>2. g = step(g)
  BY <1>1, AssignStepsAre
<1>3. st = step(st)
  BY <1>2
<1>4. Sip!HeadersOf(lines) = st[n]
  BY DEF Sip!HeadersOf
<1> HIDE DEF st
<1>5. Steps(st, "assign", {}, <<>>, lines, n)
  BY <1>3, AssignStepsAre
<1> QED
  BY <1>4, <1>5

\* Without lines there is nothing; one line more is one step more.
LEMMA UnfoldedOfMore ==
  /\ Sip!Unfolded(<<>>) = <<>>
  /\ \A s, e : IsSeq(s) => Sip!Unfolded(Append(s, e)) = Sip!Unfold(Sip!Unfolded(s), e)
<1>1. Sip!Unfolded(<<>>) = <<>>
  <2>1. Len(<<>>) = 0 /\ Len(<<>>) \in Nat
    OBVIOUS
  <2>2. PICK f : /\ Steps(f, "unfold", {}, <<>>, <<>>, Len(<<>>))
                 /\ Sip!Unfolded(<<>>) = f[Len(<<>>)]
    BY <2>1, UnfoldedIs
  <2> QED
    BY <2>1, <2>2, UnfoldStepsAre
<1>2. ASSUME NEW s, NEW e, IsSeq(s)
      PROVE  Sip!Unfolded(Append(s, e)) = Sip!Unfold(Sip!Unfolded(s), e)
  <2> DEFINE n == Len(s)
             u == Append(s, e)
  <2>1. n \in Nat /\ Len(u) = n + 1 /\ u[n + 1] = e /\ \A i \in 1 .. n : u[i] = s[i]
    BY <1>2, AppendIs
  <2> HIDE DEF u
  <2>2. PICK f : Steps(f, "unfold", {}, <<>>, s, n) /\ Sip!Unfolded(s) = f[n]
    BY <2>1, UnfoldedIs
  <2>3. PICK g : Steps(g, "unfold", {}, <<>>, u, n + 1) /\ Sip!Unfolded(u) = g[n + 1]
    BY <2>1, UnfoldedIs
  <2>4. Steps(g, "unfold", {}, <<>>, u, n)
    BY <2>1, <2>3, UnfoldStepsAre
  <2>5. g[n] = f[n]
    <3>1. \A i \in 1 .. n : \A x :
            TakeStep("unfold", {}, x, u[i]) = TakeStep("unfold", {}, x, s[i])
      BY <2>1
    <3> QED
      BY <2>1, <2>2, <2>4, <3>1, StepsAgree
  <2>6. g[n + 1] = Sip!Unfold(g[n], u[n + 1])
    BY <2>1, <2>3, UnfoldStepsAre
  <2> QED
    BY <2>1, <2>2, <2>3, <2>5, <2>6 DEF u
<1> QED
  BY <1>1, <1>2

\* The same for the headers.
LEMMA HeadersOfMore ==
  /\ Sip!HeadersOf(<<>>) = <<>>
  /\ \A s, e : IsSeq(s) => Sip!HeadersOf(Append(s, e)) = Sip!AddHeader(Sip!HeadersOf(s), e)
<1>1. Sip!HeadersOf(<<>>) = <<>>
  <2>1. Len(<<>>) = 0 /\ Len(<<>>) \in Nat
    OBVIOUS
  <2>2. PICK f : /\ Steps(f, "assign", {}, <<>>, <<>>, Len(<<>>))
                 /\ Sip!HeadersOf(<<>>) = f[Len(<<>>)]
    BY <2>1, HeadersOfIs
  <2> QED
    BY <2>1, <2>2, AssignStepsAre
<1>2. ASSUME NEW s, NEW e, IsSeq(s)
      PROVE  Sip!HeadersOf(Append(s, e)) = Sip!AddHeader(Sip!HeadersOf(s), e)
  <2> DEFINE n == Len(s)
             u == Append(s, e)
  <2>1. n \in Nat /\ Len(u) = n + 1 /\ u[n + 1] = e /\ \A i \in 1 .. n : u[i] = s[i]
    BY <1>2, AppendIs
  <2> HIDE DEF u
  <2>2. PICK f : Steps(f, "assign", {}, <<>>, s, n) /\ Sip!HeadersOf(s) = f[n]
    BY <2>1, HeadersOfIs
  <2>3. PICK g : Steps(g, "assign", {}, <<>>, u, n + 1) /\ Sip!HeadersOf(u) = g[n + 1]
    BY <2>1, HeadersOfIs
  <2>4. Steps(g, "assign", {}, <<>>, u, n)
    BY <2>1, <2>3, AssignStepsAre
  <2>5. g[n] = f[n]
    <3>1. \A i \in 1 .. n : \A x :
            TakeStep("assign", {}, x, u[i]) = TakeStep("assign", {}, x, s[i])
      BY <2>1
    <3> QED
      BY <2>1, <2>2, <2>4, <3>1, StepsAgree
  <2>6. g[n + 1] = Sip!AddHeader(g[n], u[n + 1])
    BY <2>1, <2>3, AssignStepsAre
  <2> QED
    BY <2>1, <2>2, <2>3, <2>5, <2>6 DEF u
<1> QED
  BY <1>1, <1>2

\* The beginnings of a sequence.
LEMMA Beginnings ==
  ASSUME NEW s, IsSeq(s)
  PROVE  /\ SubSeq(s, 1, 0) = <<>> /\ SubSeq(s, 1, Len(s)) = s
         /\ \A j \in 0 .. Len(s) :
              /\ IsSeq(SubSeq(s, 1, j)) /\ Len(SubSeq(s, 1, j)) = j
              /\ \A i \in 1 .. j : SubSeq(s, 1, j)[i] = s[i]
         /\ \A j \in 1 .. Len(s) : SubSeq(s, 1, j) = Append(SubSeq(s, 1, j - 1), s[j])
<1> DEFINE n == Len(s)
<1>1. n \in Nat
  BY SeqHas
<1>2. PICK S : s \in Seq(S)
  BY Zenon DEF IsSeq
<1>3. ASSUME NEW j \in 0 .. n
      PROVE  /\ IsSeq(SubSeq(s, 1, j)) /\ Len(SubSeq(s, 1, j)) = j
             /\ \A i \in 1 .. j : SubSeq(s, 1, j)[i] = s[i]
  <2> DEFINE u == SubSeq(s, 1, j)
  <2>1. u \in Seq(S) /\ Len(u) = j /\ \A i \in 1 .. j : u[i] = s[i]
    BY <1>1, <1>2
  <2> HIDE DEF u
  <2>2. IsSeq(u)
    BY <2>1, Zenon DEF IsSeq
  <2> QED
    BY <2>1, <2>2 DEF u
<1>4. SubSeq(s, 1, 0) = <<>>
  <2>1. 0 \in 0 .. n
    BY <1>1
  <2> DEFINE u == SubSeq(s, 1, 0)
  <2>2. IsSeq(u) /\ Len(u) = 0
    BY <1>3, <2>1
  <2> HIDE DEF u
  <2>3. IsSeq(<<>>) /\ Len(<<>>) = 0
    BY ShortSeqs
  <2>4. \A i \in 1 .. Len(u) : u[i] = <<>>[i]
    BY <2>2
  <2>5. u = <<>>
    BY <2>2, <2>3, <2>4, SameSeq
  <2> QED
    BY <2>5 DEF u
<1>5. SubSeq(s, 1, n) = s
  <2>1. n \in 0 .. n
    BY <1>1
  <2> DEFINE u == SubSeq(s, 1, n)
  <2>2. IsSeq(u) /\ Len(u) = n /\ \A i \in 1 .. n : u[i] = s[i]
    BY <1>3, <2>1
  <2> HIDE DEF u
  <2>3. u = s
    BY <2>2, SameSeq
  <2> QED
    BY <2>3 DEF u
<1>6. ASSUME NEW j \in 1 .. n
      PROVE  SubSeq(s, 1, j) = Append(SubSeq(s, 1, j - 1), s[j])
  <2> DEFINE u == SubSeq(s, 1, j)
             v == SubSeq(s, 1, j - 1)
             w == Append(v, s[j])
  <2>1. j \in 0 .. n /\ j - 1 \in 0 .. n
    BY <1>1
  <2>2. IsSeq(u) /\ Len(u) = j /\ \A i \in 1 .. j : u[i] = s[i]
    BY <1>3, <2>1
  <2>3. IsSeq(v) /\ Len(v) = j - 1 /\ \A i \in 1 .. j - 1 : v[i] = s[i]
    BY <1>3, <2>1
  <2> HIDE DEF u, v
  <2>4. /\ IsSeq(w) /\ Len(w) = Len(v) + 1 /\ w[Len(v) + 1] = s[j]
        /\ \A i \in 1 .. Len(v) : w[i] = v[i]
    BY <2>3, AppendIs
  <2> HIDE DEF w
  <2>5. Len(w) = j /\ w[j] = s[j] /\ \A i \in 1 .. j - 1 : w[i] = s[i]
    BY <2>3, <2>4
  <2>6. \A i \in 1 .. j : u[i] = w[i]
    BY <2>2, <2>5
  <2>7. u = w
    BY <2>2, <2>4, <2>5, <2>6, SameSeq
  <2> QED
    BY <2>7 DEF u, v, w
<1> QED
  BY <1>3, <1>4, <1>5, <1>6

\* Where nothing is folded nothing is unfolded.
LEMMA NothingToUnfold ==
  ASSUME NEW s, IsSeq(s), \A i \in 1 .. Len(s) : s[i].type # "fold"
  PROVE  Sip!Unfolded(s) = s
<1> DEFINE n == Len(s)
           P(j) == SubSeq(s, 1, j)
           Bad == {j \in 0 .. n : Sip!Unfolded(P(j)) # P(j)}
<1>1. n \in Nat
  BY SeqHas
<1>2. P(0) = <<>> /\ P(n) = s
  BY Beginnings
<1>3. \A j \in 0 .. n : IsSeq(P(j))
  BY Beginnings
<1>4. \A j \in 1 .. n : P(j) = Append(P(j - 1), s[j])
  BY Beginnings
<1> HIDE DEF P
<1>5. ASSUME Bad # {}
      PROVE  FALSE
  <2>1. PICK m \in Bad : \A k \in Bad : m <= k
    <3>1. Bad \in SUBSET Nat /\ Bad # {}
      BY <1>1, <1>5
    <3> QED
      BY <3>1, Smallest, Zenon
  <2>2. m # 0
    BY <1>2, UnfoldedOfMore
  <2>3. m \in 1 .. n /\ m - 1 \in 0 .. n
    BY <1>1, <2>2
  <2>4. Sip!Unfolded(P(m - 1)) = P(m - 1)
    BY <2>1, <2>3
  <2>5. Sip!Unfolded(P(m)) = Sip!Unfold(P(m - 1), s[m])
    BY <1>3, <1>4, <2>3, <2>4, UnfoldedOfMore
  <2>6. Sip!Unfold(P(m - 1), s[m]) = Append(P(m - 1), s[m])
    BY <2>3 DEF Sip!Unfold
  <2> QED
    BY <1>4, <2>3, <2>5, <2>6
<1>6. n \in 0 .. n
  BY <1>1
<1> QED
  BY <1>2, <1>5, <1>6

\* The key of a header.
Canonical(w) == [word |-> w, spelling |-> "canonical"]

\* Headers: pairs, each with a name of its own in its one spelling.
IsHeaders(d) ==
  /\ IsSeq(d)
  /\ \A i \in 1 .. Len(d) : d[i] = <<d[i][1], d[i][2]>> /\ d[i][1] = Canonical(d[i][1].word)
  /\ \A i, j \in 1 .. Len(d) : d[i][1] = d[j][1] => i = j

\* A name is canonical in one way.
LEMMA CanonicalIs ==
  /\ \A v, w : Canonical(v) = Canonical(w) => v = w
  /\ \A w : Canonical(w).word = w
  /\ \A w, s : Sip!Canonicalize([word |-> w, spelling |-> s]) = Canonical(w)
BY DEF Canonical, Sip!Canonicalize

\* Headers that are written line by line are read as they were.
LEMMA SameHeaders ==
  ASSUME NEW d, IsHeaders(d), NEW s, IsSeq(s), Len(s) = Len(d),
         \A i \in 1 .. Len(d) : s[i] = Sip!Header(d[i][1], d[i][2])
  PROVE  Sip!HeadersOf(s) = d
<1> DEFINE n == Len(d)
           P(j) == SubSeq(s, 1, j)
           D(j) == SubSeq(d, 1, j)
           Bad == {j \in 0 .. n : Sip!HeadersOf(P(j)) # D(j)}
<1>1. n \in Nat /\ IsSeq(d)
  BY SeqHas DEF IsHeaders
<1>2. P(0) = <<>> /\ P(n) = s /\ D(0) = <<>> /\ D(n) = d
  BY <1>1, Beginnings
<1>3. \A j \in 0 .. n : IsSeq(P(j))
  BY <1>1, Beginnings
<1>4. \A j \in 0 .. n : IsSeq(D(j)) /\ Len(D(j)) = j /\ \A i \in 1 .. j : D(j)[i] = d[i]
  BY <1>1, Beginnings
<1>5. \A j \in 1 .. n : P(j) = Append(P(j - 1), s[j])
  BY <1>1, Beginnings
<1>6. \A j \in 1 .. n : D(j) = Append(D(j - 1), d[j])
  BY <1>1, Beginnings
<1> HIDE DEF P, D
<1>7. ASSUME Bad # {}
      PROVE  FALSE
  <2>1. PICK m \in Bad : \A k \in Bad : m <= k
    <3>1. Bad \in SUBSET Nat /\ Bad # {}
      BY <1>1, <1>7
    <3> QED
      BY <3>1, Smallest, Zenon
  <2>2. m # 0
    BY <1>2, HeadersOfMore
  <2>3. m \in 1 .. n /\ m - 1 \in 0 .. n
    BY <1>1, <2>2
  <2>4. Sip!HeadersOf(P(m - 1)) = D(m - 1)
    BY <2>1, <2>3
  <2>5. Sip!HeadersOf(P(m)) = Sip!AddHeader(D(m - 1), s[m])
    BY <1>3, <1>5, <2>3, <2>4, HeadersOfMore
  <2> DEFINE name == d[m][1]
             value == d[m][2]
             w == name.word
             before == D(m - 1)
  <2>6. s[m] = Sip!Header(name, value)
    BY <2>3
  <2>7. d[m] = <<name, value>> /\ name = Canonical(w)
    BY <2>3 DEF IsHeaders
  <2>8. name \notin Sip!Keys(before)
    <3>1. IsSeq(before) /\ Len(before) = m - 1 /\ \A i \in 1 .. m - 1 : before[i] = d[i]
      BY <1>4, <2>3
    <3> HIDE DEF before
    <3>2. DOMAIN before = 1 .. m - 1
      BY <3>1, SeqHas
    <3>3. \A i \in 1 .. m - 1 : before[i][1] # d[m][1]
      <4>1. \A i \in 1 .. m - 1 : i \in 1 .. n /\ i # m
        BY <2>3
      <4> QED
        BY <2>3, <3>1, <4>1 DEF IsHeaders
    <3> QED
      BY <3>2, <3>3 DEF Sip!Keys
  <2> HIDE DEF before, w, name, value
  <2>9. Sip!Canonicalize(name) = name
    BY <2>7, CanonicalIs DEF Canonical
  <2>10. /\ ~Sip!IsEmpty(Sip!Header(name, value))
         /\ Sip!Header(name, value).name = name /\ Sip!Header(name, value).value = value
    BY DEF Sip!IsEmpty, Sip!Header
  <2>11. Sip!AddHeader(before, s[m]) = Append(before, <<name, value>>)
    BY <2>6, <2>8, <2>9, <2>10 DEF Sip!AddHeader, Sip!Put
  <2>12. Sip!HeadersOf(P(m)) = D(m)
    <3>1. D(m) = Append(before, d[m])
      BY <1>6, <2>3 DEF before
    <3>2. Sip!HeadersOf(P(m)) = Sip!AddHeader(before, s[m])
      BY <2>5 DEF before
    <3> QED
      BY <2>7, <2>11, <3>1, <3>2
  <2> QED
    BY <2>12
<1>8. n \in 0 .. n
  BY <1>1
<1> QED
  BY <1>2, <1>7, <1>8

\* The words of the names of headers.
Words(d) == {h[1].word : h \in Range(d)}

\* What one header more makes of headers.
LEMMA HeadersPut ==
  ASSUME NEW d, IsHeaders(d), NEW w, NEW v
  PROVE  LET e == Sip!Put(d, Canonical(w), v)
         IN  /\ IsHeaders(e) /\ Words(e) = Words(d) \cup {w}
             /\ \E h \in Range(e) : h[1].word = w /\ h[2] = v
             /\ \A h \in Range(d) : h[1].word # w => h \in Range(e)
<1> DEFINE key == Canonical(w)
           p == <<key, v>>
           e == Sip!Put(d, key, v)
<1>1. e = Sdp!Put(d, key, v)
  BY DEF Sip!Put, Sdp!Put, Sip!Keys, Sdp!Keys
<1>2. key.word = w /\ p[1] = key /\ p[2] = v
  BY CanonicalIs
<1>3. /\ IsSeq(d) /\ Len(d) \in Nat
      /\ \A i \in 1 .. Len(d) : d[i] = <<d[i][1], d[i][2]>> /\ d[i][1] = Canonical(d[i][1].word)
      /\ \A i, j \in 1 .. Len(d) : d[i][1] = d[j][1] => i = j
  BY SeqHas DEF IsHeaders
<1> HIDE DEF key
<1>4. /\ IsSeq(e)
      /\ \A i \in 1 .. Len(e) : e[i] = p \/ (i \in 1 .. Len(d) /\ e[i] = d[i] /\ d[i][1] # key)
      /\ Sdp!Keys(e) = Sdp!Keys(d) \cup {key}
      /\ key \notin Sdp!Keys(d) => e = Append(d, p)
      /\ key \in Sdp!Keys(d) => Len(e) = Len(d) /\ \A i \in 1 .. Len(d) : e[i][1] = d[i][1]
  BY <1>1, <1>3, PutIs
<1> HIDE DEF e, p
<1>5. Len(e) \in Nat /\ DOMAIN e = 1 .. Len(e) /\ DOMAIN d = 1 .. Len(d)
  BY <1>3, <1>4, SeqHas
<1>6. \A i \in 1 .. Len(d) : d[i][1] # key => i \in 1 .. Len(e) /\ e[i] = d[i]
  <2>1. CASE key \in Sdp!Keys(d)
    BY <1>2, <1>4, <2>1
  <2>2. CASE key \notin Sdp!Keys(d)
    <3>1. e = Append(d, p)
      BY <1>4, <2>2
    <3>2. Len(e) = Len(d) + 1 /\ \A i \in 1 .. Len(d) : e[i] = d[i]
      BY <1>3, <3>1, AppendIs
    <3> QED
      BY <1>3, <3>2
  <2> QED
    BY <2>1, <2>2
<1>7. \A i \in 1 .. Len(e) : e[i] = <<e[i][1], e[i][2]>> /\ e[i][1] = Canonical(e[i][1].word)
  <2>1. p = <<p[1], p[2]>> /\ p[1] = Canonical(p[1].word)
    BY <1>2 DEF p, key
  <2> QED
    BY <1>3, <1>4, <2>1
<1>8. \A i, j \in 1 .. Len(e) : e[i][1] = e[j][1] => i = j
  <2>1. CASE key \in Sdp!Keys(d)
    BY <1>3, <1>4, <2>1
  <2>2. CASE key \notin Sdp!Keys(d)
    <3>1. /\ Len(e) = Len(d) + 1 /\ e[Len(d) + 1] = p
          /\ \A i \in 1 .. Len(d) : e[i] = d[i]
      BY <1>3, <1>4, <2>2, AppendIs
    <3>2. \A i \in 1 .. Len(d) : d[i][1] # key
      BY <1>5, <2>2 DEF Sdp!Keys
    <3>3. \A i \in 1 .. Len(e) : i \in 1 .. Len(d) \/ i = Len(d) + 1
      BY <1>3, <3>1
    <3> QED
      BY <1>2, <1>3, <3>1, <3>2, <3>3
  <2> QED
    BY <2>1, <2>2
<1>9. PICK i \in 1 .. Len(e) : e[i][1] = key
  <2>1. key \in Sdp!Keys(e)
    BY <1>4
  <2>2. \E i \in DOMAIN e : key = e[i][1]
    BY <2>1 DEF Sdp!Keys
  <2> QED
    BY <1>5, <2>2
<1>10. e[i] = p
  BY <1>4, <1>9
<1>11. p \in Range(e)
  BY <1>5, <1>10 DEF Range
<1>12. ASSUME NEW h \in Range(d), h[1].word # w
       PROVE  h \in Range(e)
  <2>1. PICK l \in 1 .. Len(d) : h = d[l]
    BY <1>5 DEF Range
  <2>2. d[l][1] # key
    BY <1>2, <1>12, <2>1
  <2> QED
    BY <1>5, <1>6, <2>1, <2>2 DEF Range
<1>13. Words(e) = Words(d) \cup {w}
  <2>1. ASSUME NEW h \in Range(e)
        PROVE  h[1].word \in Words(d) \cup {w}
    <3>1. PICK l \in 1 .. Len(e) : h = e[l]
      BY <1>5 DEF Range
    <3>2. h = p \/ h \in Range(d)
      BY <1>4, <1>5, <3>1 DEF Range
    <3> QED
      BY <1>2, <3>2 DEF Words
  <2>2. ASSUME NEW h \in Range(d)
        PROVE  h[1].word \in Words(e)
    <3>1. CASE h[1].word # w
      BY <1>12, <3>1 DEF Words
    <3>2. CASE h[1].word = w
      BY <1>2, <1>11, <3>2 DEF Words
    <3> QED
      BY <3>1, <3>2
  <2>3. w \in Words(e)
    BY <1>2, <1>11 DEF Words
  <2>4. Words(e) \subseteq Words(d) \cup {w}
    BY <2>1 DEF Words
  <2>5. Words(d) \subseteq Words(e)
    BY <2>2 DEF Words
  <2> QED
    BY <2>3, <2>4, <2>5
<1>14. IsHeaders(e)
  BY <1>4, <1>7, <1>8 DEF IsHeaders
<1> QED
  BY <1>2, <1>11, <1>12, <1>13, <1>14 DEF e, key

\* A header, a continuation or an empty line, as parse_sip splits it.
IsHeaderLine(line) ==
  /\ line.type \in {"header", "fold", "empty"}
  /\ line.type = "header" =>
       line = [type |-> "header", value |-> line.value,
               name |-> [word |-> line.name.word, spelling |-> line.name.spelling]]
  /\ line.type \in {"header", "fold"} => IsSeq(line.value)

\* The lines of a header section.
AreHeaderLines(lines) ==
  /\ IsSeq(lines)
  /\ Len(lines) # 0 => lines[1].type # "fold"
  /\ \A i \in 1 .. Len(lines) : IsHeaderLine(lines[i])

\* What the parser accepts has them.
LEMMA HeaderLinesAre ==
  ASSUME NEW t \in Seq(Lines), Sip!WellFormed(t)
  PROVE  AreHeaderLines(Sip!HeaderLines(t))
<1> DEFINE h == Sip!HeaderSection(t)
           lines == Sip!HeaderLines(t)
           b == Sip!BlankLine(t)
<1>1. Len(t) \in Nat /\ Len(t) # 0
  BY DEF Sip!WellFormed
<1>2. b # 0 => b \in 2 .. Len(t) - 1
  BY <1>1, BlankLineIs
<1>3. h \in Seq(Lines) /\ h # <<>>
  <2>1. h = IF b = 0 THEN t ELSE SubSeq(t, 1, b - 1)
    BY DEF Sip!HeaderSection
  <2> HIDE DEF b, h
  <2>2. CASE b = 0
    BY <1>1, <2>1, <2>2
  <2>3. CASE b # 0
    <3>1. SubSeq(t, 1, b - 1) \in Seq(Lines) /\ Len(SubSeq(t, 1, b - 1)) = b - 1 /\ b - 1 # 0
      BY <1>1, <1>2, <2>3
    <3> QED
      BY <2>1, <2>3, <3>1
  <2> QED
    BY <2>2, <2>3
<1>4. lines \in Seq(Lines)
  <2>1. lines = Tail(h)
    BY DEF Sip!HeaderLines
  <2> HIDE DEF h, lines
  <2> QED
    BY <1>3, <2>1
<1>5. /\ lines # <<>> => Head(lines).type # "fold"
      /\ \A line \in Sip!Range(lines) : line.type \in {"header", "fold", "empty"}
  BY DEF Sip!WellFormed
<1> HIDE DEF lines
<1>6. Len(lines) \in Nat /\ \A i \in 1 .. Len(lines) : lines[i] \in Lines
  BY <1>4
<1>7. ASSUME NEW i \in 1 .. Len(lines)
      PROVE  IsHeaderLine(lines[i])
  <2> DEFINE line == lines[i]
  <2>1. line \in Lines /\ line \in Sip!Range(lines)
    BY <1>4, <1>6 DEF Sip!Range
  <2>2. line.type \in {"header", "fold", "empty"}
    BY <1>5, <2>1
  <2>3. /\ line.type = "header" =>
             line = [type |-> "header", value |-> line.value,
                     name |-> [word |-> line.name.word, spelling |-> line.name.spelling]]
        /\ line.type \in {"header", "fold"} => line.value \in Seq(Range(line.value))
    BY <2>1, SipAssumption
  <2>4. line.type \in {"header", "fold"} => IsSeq(line.value)
    BY <2>3, Zenon DEF IsSeq
  <2> HIDE DEF line
  <2>5. IsHeaderLine(line)
    BY <2>2, <2>3, <2>4 DEF IsHeaderLine
  <2> QED
    BY <2>5 DEF line
<1>8. Len(lines) # 0 => lines[1].type # "fold"
  BY <1>4, <1>5
<1>9. IsSeq(lines)
  BY <1>4, Zenon DEF IsSeq
<1> QED
  BY <1>7, <1>8, <1>9 DEF AreHeaderLines, lines

\* What is unfolded is a sequence.
LEMMA UnfoldedIsSeq ==
  ASSUME NEW s, IsSeq(s)
  PROVE  \A j \in 0 .. Len(s) : IsSeq(Sip!Unfolded(SubSeq(s, 1, j)))
<1> DEFINE n == Len(s)
           P(j) == SubSeq(s, 1, j)
           Bad == {j \in 0 .. n : ~IsSeq(Sip!Unfolded(P(j)))}
<1>1. n \in Nat
  BY SeqHas
<1>2. P(0) = <<>>
  BY Beginnings
<1>3. \A j \in 0 .. n : IsSeq(P(j))
  BY Beginnings
<1>4. \A j \in 1 .. n : P(j) = Append(P(j - 1), s[j])
  BY Beginnings
<1> HIDE DEF P
<1>5. ASSUME Bad # {}
      PROVE  FALSE
  <2>1. PICK m \in Bad : \A k \in Bad : m <= k
    <3>1. Bad \in SUBSET Nat /\ Bad # {}
      BY <1>1, <1>5
    <3> QED
      BY <3>1, Smallest, Zenon
  <2>2. m # 0
    BY <1>2, UnfoldedOfMore, ShortSeqs
  <2>3. m \in 1 .. n /\ m - 1 \in 0 .. n
    BY <1>1, <2>2
  <2> DEFINE u == Sip!Unfolded(P(m - 1))
             e == s[m]
  <2>4. IsSeq(u)
    BY <2>1, <2>3
  <2>5. Sip!Unfolded(P(m)) = Sip!Unfold(u, e)
    BY <1>3, <1>4, <2>3, UnfoldedOfMore
  <2> HIDE DEF u, e
  <2>6. ASSUME e.type = "fold"
        PROVE  IsSeq(Sip!Unfold(u, e))
    <3> DEFINE v == Sip!Unfold(u, e)
    <3>1. v = [u EXCEPT ![Len(u)] = Sip!Continued(@, e.value)]
      BY <2>6 DEF Sip!Unfold
    <3>2. u = [i \in 1 .. Len(u) |-> u[i]] /\ Len(u) \in Nat
      BY <2>4, SeqHas
    <3>3. v = [i \in 1 .. Len(u) |-> v[i]]
      BY <3>1, <3>2
    <3> HIDE DEF v
    <3>4. IsSeq(v)
      BY <3>2, <3>3, FunctionIsSeq
    <3> QED
      BY <3>4 DEF v
  <2>7. ASSUME e.type # "fold"
        PROVE  IsSeq(Sip!Unfold(u, e))
    <3>1. Sip!Unfold(u, e) = Append(u, e)
      BY <2>7 DEF Sip!Unfold
    <3> QED
      BY <2>4, <3>1, AppendIs
  <2>8. IsSeq(Sip!Unfolded(P(m)))
    BY <2>5, <2>6, <2>7
  <2> QED
    BY <2>1, <2>8
<1> QED
  BY <1>5 DEF P

\* The words of a header: those of its line, and of every line that continues it.
LEMMA WordsAre ==
  ASSUME NEW lines, NEW i \in Nat, NEW j \in Nat, i <= j,
         \A k \in i .. j : IsSeq(lines[k].value)
  PROVE  /\ IsSeq(WordsFrom(lines, i, j))
         /\ i = j => WordsFrom(lines, i, j) = lines[i].value
         /\ i < j => WordsFrom(lines, i, j) = WordsFrom(lines, i, j - 1) \o lines[j].value
<1> DEFINE n == (j - i) + 1
           W(m) == [k \in 1 .. m |-> lines[(i + k) - 1].value]
<1>1. \A s : FlattenSeq(s) = Sdp!FlattenSeq(s)
  BY DEF FlattenSeq, Sdp!FlattenSeq
<1>2. n \in Nat /\ n >= 1 /\ (i + n) - 1 = j /\ (i + 1) - 1 = i
  OBVIOUS
<1>3. WordsFrom(lines, i, j) = Sdp!FlattenSeq(W(n))
  BY <1>1 DEF WordsFrom
<1>4. ASSUME NEW m \in 0 .. n
      PROVE  \E f : /\ f[0] = <<>> /\ \A k \in 1 .. m : f[k] = f[k - 1] \o lines[(i + k) - 1].value
                    /\ \A k \in 0 .. m : IsSeq(f[k])
                    /\ Sdp!FlattenSeq(W(m)) = f[m]
  <2>1. m \in Nat
    BY <1>2
  <2>2. \A k \in 1 .. m : (i + k) - 1 \in i .. j
    BY <1>2
  <2> DEFINE s == W(m)
  <2>3. s = [k \in 1 .. m |-> s[k]] /\ \A k \in 1 .. m : s[k] = lines[(i + k) - 1].value
    OBVIOUS
  <2>4. \A k \in 1 .. m : IsSeq(s[k])
    BY <2>2, <2>3
  <2> HIDE DEF s, n
  <2>5. PICK f : /\ f[0] = <<>> /\ \A k \in 1 .. m : f[k] = f[k - 1] \o s[k]
                 /\ \A k \in 0 .. m : IsSeq(f[k])
                 /\ Sdp!FlattenSeq(s) = f[m]
    BY <2>1, <2>3, <2>4, FlatSteps
  <2>6. \A k \in 1 .. m : f[k] = f[k - 1] \o lines[(i + k) - 1].value
    BY <2>3, <2>5
  <2> QED
    BY <2>5, <2>6 DEF s
<1>5. n \in 0 .. n /\ n - 1 \in 0 .. n
  BY <1>2
<1>6. PICK f : /\ f[0] = <<>> /\ \A k \in 1 .. n : f[k] = f[k - 1] \o lines[(i + k) - 1].value
               /\ \A k \in 0 .. n : IsSeq(f[k])
               /\ Sdp!FlattenSeq(W(n)) = f[n]
  BY <1>4, <1>5
<1>7. IsSeq(WordsFrom(lines, i, j))
  BY <1>3, <1>5, <1>6
<1>8. ASSUME i = j
      PROVE  WordsFrom(lines, i, j) = lines[i].value
  <2>1. n = 1
    BY <1>8
  <2>2. f[1] = f[0] \o lines[i].value /\ i \in i .. j
    <3>1. 1 \in 1 .. n /\ 1 - 1 = 0 /\ i \in i .. j
      BY <2>1
    <3> HIDE DEF n
    <3>2. f[1] = f[1 - 1] \o lines[(i + 1) - 1].value
      BY <1>6, <3>1
    <3> QED
      BY <1>2, <3>1, <3>2
  <2>3. f[1] = lines[i].value
    BY <1>6, <2>2, NothingBefore
  <2> QED
    BY <1>3, <1>6, <2>1, <2>3
<1>9. ASSUME i < j
      PROVE  WordsFrom(lines, i, j) = WordsFrom(lines, i, j - 1) \o lines[j].value
  <2>1. PICK g : /\ g[0] = <<>>
                 /\ \A k \in 1 .. n - 1 : g[k] = g[k - 1] \o lines[(i + k) - 1].value
                 /\ \A k \in 0 .. n - 1 : IsSeq(g[k])
                 /\ Sdp!FlattenSeq(W(n - 1)) = g[n - 1]
    BY <1>4, <1>5
  <2>2. ((j - 1) - i) + 1 = n - 1
    OBVIOUS
  <2>3. WordsFrom(lines, i, j - 1) = Sdp!FlattenSeq(W(n - 1))
    BY <1>1, <2>2 DEF WordsFrom
  <2> HIDE DEF n, W
  <2>4. n - 1 \in Nat /\ n \in 1 .. n /\ \A k \in 1 .. n - 1 : k \in 1 .. n
    BY <1>2
  <2> DEFINE s == [k \in 1 .. n |-> lines[(i + k) - 1].value]
  <2>5. \A k \in 1 .. n : s[k] = lines[(i + k) - 1].value
    OBVIOUS
  <2> HIDE DEF s
  <2>6. Steps(f, "join", {}, <<>>, s, n - 1) /\ Steps(g, "join", {}, <<>>, s, n - 1)
    BY <1>6, <2>1, <2>4, <2>5 DEF Steps, TakeStep
  <2>7. f[n - 1] = g[n - 1]
    BY <2>4, <2>6, StepsAgree
  <2>8. f[n] = f[n - 1] \o lines[j].value
    BY <1>2, <1>6, <2>4
  <2> QED
    BY <1>3, <1>6, <2>1, <2>3, <2>7, <2>8
<1> QED
  BY <1>7, <1>8, <1>9

\* Line k and the lines up to j, which continue it.
Headed(lines, k, j) ==
  /\ k \in 1 .. j /\ lines[k].type # "fold"
  /\ \A i \in k + 1 .. j : lines[i].type = "fold"

\* What they are unfolded to.
Joint(lines, k, j) ==
  IF lines[k].type = "header"
  THEN [type |-> "header", value |-> WordsFrom(lines, k, j), name |-> lines[k].name]
  ELSE lines[k]

\* A continuation line more.
LEMMA JointGrows ==
  ASSUME NEW lines, AreHeaderLines(lines), NEW j \in 1 .. Len(lines), NEW k, k < j,
         Headed(lines, k, j - 1), lines[j].type = "fold"
  PROVE  /\ Headed(lines, k, j)
         /\ Sip!Continued(Joint(lines, k, j - 1), lines[j].value) = Joint(lines, k, j)
<1>1. Len(lines) \in Nat /\ k \in 1 .. j - 1
  BY SeqHas DEF AreHeaderLines, Headed
<1>2. Headed(lines, k, j)
  <2>1. \A i \in k + 1 .. j : i \in k + 1 .. j - 1 \/ i = j
    BY <1>1
  <2> QED
    BY <1>1, <2>1 DEF Headed
<1>3. CASE lines[k].type = "header"
  <2>1. ASSUME NEW i \in k .. j
        PROVE  IsSeq(lines[i].value)
    <3>1. i = k \/ i \in k + 1 .. j
      BY <1>1
    <3>2. lines[i].type \in {"header", "fold"}
      BY <1>2, <1>3, <3>1 DEF Headed
    <3>3. i \in 1 .. Len(lines)
      BY <1>1
    <3> QED
      BY <3>2, <3>3 DEF AreHeaderLines, IsHeaderLine
  <2>2. k \in Nat /\ j \in Nat /\ k <= j
    BY <1>1
  <2>3. WordsFrom(lines, k, j) = WordsFrom(lines, k, j - 1) \o lines[j].value
    BY <2>1, <2>2, WordsAre
  <2> DEFINE v == WordsFrom(lines, k, j - 1)
             w == lines[j].value
             name == lines[k].name
             one == [type |-> "header", value |-> v, name |-> name]
  <2>4. Joint(lines, k, j - 1) = one
    BY <1>3 DEF Joint
  <2>5. Joint(lines, k, j) = [type |-> "header", value |-> v \o w, name |-> name]
    BY <1>3, <2>3 DEF Joint
  <2> HIDE DEF v, w, name
  <2>6. Sip!Continued(one, w) = [type |-> "header", value |-> v \o w, name |-> name]
    BY DEF Sip!Continued
  <2> QED
    BY <1>2, <2>4, <2>5, <2>6 DEF w
<1>4. CASE lines[k].type # "header"
  BY <1>2, <1>4 DEF Joint, Sip!Continued
<1> QED
  BY <1>3, <1>4

\* The beginning of the lines up to j unfolds to what stands before the last line that
\* continues no other, and to that line with all that continue it.
LEMMA UnfoldedBeginning ==
  ASSUME NEW lines, AreHeaderLines(lines), NEW j \in 1 .. Len(lines)
  PROVE  \E k \in 1 .. j :
           /\ Headed(lines, k, j)
           /\ Sip!Unfolded(SubSeq(lines, 1, j))
                = Append(Sip!Unfolded(SubSeq(lines, 1, k - 1)), Joint(lines, k, j))
<1> DEFINE n == Len(lines)
           P(i) == SubSeq(lines, 1, i)
           U(i) == Sip!Unfolded(P(i))
           Good(i) == \E k \in 1 .. i :
                        Headed(lines, k, i) /\ U(i) = Append(U(k - 1), Joint(lines, k, i))
           Bad == {i \in 1 .. n : ~Good(i)}
<1>1. IsSeq(lines) /\ n \in Nat
  BY SeqHas DEF AreHeaderLines
<1>2. \A i \in 0 .. n : IsSeq(P(i))
  BY <1>1, Beginnings
<1>3. \A i \in 1 .. n : P(i) = Append(P(i - 1), lines[i])
  BY <1>1, Beginnings
<1>4. \A i \in 0 .. n : IsSeq(U(i))
  BY <1>1, UnfoldedIsSeq
<1>5. ASSUME NEW i \in 1 .. n
      PROVE  U(i) = Sip!Unfold(U(i - 1), lines[i])
  <2> HIDE DEF P
  <2>1. i - 1 \in 0 .. n
    BY <1>1
  <2> QED
    BY <1>2, <1>3, <2>1, UnfoldedOfMore
<1> HIDE DEF P, U
<1>6. ASSUME NEW m \in 1 .. n, \A i \in 1 .. m - 1 : Good(i)
      PROVE  Good(m)
  <2>1. m \in Nat /\ m - 1 \in 0 .. n /\ m \in 1 .. m
    BY <1>1
  <2>2. U(m) = Sip!Unfold(U(m - 1), lines[m])
    BY <1>5
  <2>3. CASE lines[m].type # "fold"
    <3>1. Headed(lines, m, m)
      BY <2>1, <2>3 DEF Headed
    <3>2. Joint(lines, m, m) = lines[m]
      <4>1. CASE lines[m].type = "header"
        <5>1. IsHeaderLine(lines[m])
          BY DEF AreHeaderLines
        <5>2. IsSeq(lines[m].value)
          BY <4>1, <5>1 DEF IsHeaderLine
        <5>3. m <= m /\ \A k \in m .. m : IsSeq(lines[k].value)
          BY <2>1, <5>2
        <5>4. WordsFrom(lines, m, m) = lines[m].value
          BY <2>1, <5>3, WordsAre
        <5> DEFINE line == lines[m]
                   name == line.name
        <5>5. /\ line = [type |-> "header", value |-> line.value,
                         name |-> [word |-> name.word, spelling |-> name.spelling]]
              /\ Joint(lines, m, m) = [type |-> "header", value |-> line.value, name |-> name]
          BY <4>1, <5>1, <5>4 DEF IsHeaderLine, Joint
        <5> HIDE DEF line
        <5>6. line = [type |-> "header", value |-> line.value, name |-> name]
          BY <5>5
        <5> QED
          BY <5>5, <5>6 DEF line
      <4>2. CASE lines[m].type # "header"
        BY <4>2 DEF Joint
      <4> QED
        BY <4>1, <4>2
    <3>3. U(m) = Append(U(m - 1), lines[m])
      BY <2>2, <2>3 DEF Sip!Unfold
    <3> QED
      BY <2>1, <3>1, <3>2, <3>3
  <2>4. CASE lines[m].type = "fold"
    <3>1. m # 1
      <4>1. n # 0
        BY <1>1
      <4> QED
        BY <2>4, <4>1 DEF AreHeaderLines
    <3>2. m - 1 \in 1 .. m - 1
      BY <2>1, <3>1
    <3>3. PICK k \in 1 .. m - 1 :
                 Headed(lines, k, m - 1) /\ U(m - 1) = Append(U(k - 1), Joint(lines, k, m - 1))
      BY <1>6, <3>2
    <3>4. k < m /\ k \in 1 .. m /\ k - 1 \in 0 .. n
      BY <2>1
    <3>5. /\ Headed(lines, k, m)
          /\ Sip!Continued(Joint(lines, k, m - 1), lines[m].value) = Joint(lines, k, m)
      BY <2>4, <3>3, <3>4, JointGrows
    <3> DEFINE V == U(k - 1)
               e == Joint(lines, k, m - 1)
               g == Joint(lines, k, m)
               w == lines[m].value
    <3>6. IsSeq(V) /\ U(m - 1) = Append(V, e) /\ Sip!Continued(e, w) = g
      BY <1>4, <3>3, <3>4, <3>5
    <3>7. U(m) = [U(m - 1) EXCEPT ![Len(U(m - 1))] = Sip!Continued(@, w)]
      BY <2>2, <2>4 DEF Sip!Unfold
    <3> HIDE DEF V, e, g, w
    <3> DEFINE a == Append(V, e)
               c == Append(V, g)
               l == Len(V)
               z == [a EXCEPT ![l + 1] = Sip!Continued(@, w)]
    <3>8. IsSeq(a) /\ l \in Nat /\ Len(a) = l + 1 /\ a[l + 1] = e /\ \A i \in 1 .. l : a[i] = V[i]
      BY <3>6, AppendIs
    <3>9. IsSeq(c) /\ Len(c) = l + 1 /\ c[l + 1] = g /\ \A i \in 1 .. l : c[i] = V[i]
      BY <3>6, AppendIs
    <3>10. U(m) = z
      BY <3>6, <3>7, <3>8
    <3> HIDE DEF a, c, l
    <3>11. DOMAIN a = 1 .. l + 1
      BY <3>8, SeqHas
    <3>12. z = [i \in 1 .. l + 1 |-> IF i = l + 1 THEN g ELSE a[i]]
      <4>1. l + 1 \in 1 .. l + 1 /\ Sip!Continued(a[l + 1], w) = g
        BY <3>6, <3>8
      <4>2. a = [i \in 1 .. l + 1 |-> a[i]]
        BY <3>8, SeqHas
      <4> QED
        BY <4>1, <4>2
    <3> HIDE DEF z
    <3>13. z = [i \in 1 .. l + 1 |-> z[i]] /\ l + 1 \in Nat
      BY <3>8, <3>12
    <3>14. \A i \in 1 .. l + 1 : z[i] = IF i = l + 1 THEN g ELSE a[i]
      BY <3>12
    <3>15. IsSeq(z) /\ Len(z) = l + 1
      BY <3>13, FunctionIsSeq
    <3>16. \A i \in 1 .. l + 1 : z[i] = c[i]
      BY <3>8, <3>9, <3>14
    <3>17. z = c
      BY <3>9, <3>15, <3>16, SameSeq
    <3>18. U(m) = Append(U(k - 1), Joint(lines, k, m))
      BY <3>10, <3>17 DEF c, V, g
    <3> QED
      BY <3>4, <3>5, <3>18
  <2> QED
    BY <2>3, <2>4
<1> HIDE DEF Good
<1>7. ASSUME Bad # {}
      PROVE  FALSE
  <2>1. PICK m \in Bad : \A k \in Bad : m <= k
    <3>1. Bad \in SUBSET Nat /\ Bad # {}
      BY <1>1, <1>7
    <3> QED
      BY <3>1, Smallest, Zenon
  <2>2. \A i \in 1 .. m - 1 : Good(i)
    BY <1>1, <2>1
  <2>3. Good(m)
    BY <1>6, <2>2
  <2> QED
    BY <2>3
<1>8. Good(j)
  BY <1>7
<1> QED
  BY <1>8 DEF Good, U, P

\* Up to line j, header line i is the last one with its name.
LastUpTo(lines, i, j) ==
  /\ lines[i].type = "header"
  /\ \A k \in i + 1 .. j : lines[k].type = "header" => lines[k].name.word # lines[i].name.word

\* Up to line j, l is the last line that continues line i.
ContinuedUpTo(lines, i, l, j) ==
  /\ \A k \in i + 1 .. l : lines[k].type = "fold"
  /\ l # j => lines[l + 1].type # "fold"

\* The words of the names up to line j.
WordsUpTo(lines, j) == {lines[i].name.word : i \in {i \in 1 .. j : lines[i].type = "header"}}

\* Headers d have header line i as it was written up to line j.
Written(lines, i, j, d) ==
  \E l \in i .. j :
    /\ ContinuedUpTo(lines, i, l, j)
    /\ \E h \in Range(d) : h[1].word = lines[i].name.word /\ h[2] = WordsFrom(lines, i, l)

\* The headers of the lines up to j are the last ones of their names, as they were
\* written.
HeadersUpTo(lines, j, d) ==
  /\ IsHeaders(d)
  /\ Words(d) = WordsUpTo(lines, j)
  /\ \A i \in 1 .. j : LastUpTo(lines, i, j) => Written(lines, i, j, d)

\* An empty line, and what continues it, adds nothing.
LEMMA NothingAdded ==
  ASSUME NEW lines, NEW j \in Nat, NEW k, Headed(lines, k, j), lines[k].type = "empty",
         NEW d, HeadersUpTo(lines, k - 1, d)
  PROVE  HeadersUpTo(lines, j, d)
<1>1. k \in 1 .. j /\ \A i \in k .. j : lines[i].type # "header"
  <2>1. k \in 1 .. j
    BY DEF Headed
  <2>2. \A i \in k .. j : i = k \/ i \in k + 1 .. j
    BY <2>1
  <2> QED
    BY <2>1, <2>2 DEF Headed
<1>2. WordsUpTo(lines, j) = WordsUpTo(lines, k - 1)
  <2>1. \A i \in 1 .. j : lines[i].type = "header" => i \in 1 .. k - 1
    BY <1>1
  <2>2. \A i \in 1 .. k - 1 : i \in 1 .. j
    BY <1>1
  <2> QED
    BY <2>1, <2>2 DEF WordsUpTo
<1>3. ASSUME NEW i \in 1 .. j, LastUpTo(lines, i, j)
      PROVE  Written(lines, i, j, d)
  <2>1. i \in 1 .. k - 1
    BY <1>1, <1>3 DEF LastUpTo
  <2>2. LastUpTo(lines, i, k - 1)
    <3>1. \A l \in i + 1 .. k - 1 : l \in i + 1 .. j
      BY <1>1
    <3> QED
      BY <1>3, <3>1 DEF LastUpTo
  <2>3. PICK l \in i .. k - 1 :
          /\ ContinuedUpTo(lines, i, l, k - 1)
          /\ \E h \in Range(d) : h[1].word = lines[i].name.word /\ h[2] = WordsFrom(lines, i, l)
    BY <2>1, <2>2 DEF HeadersUpTo, Written
  <2>4. l \in i .. j
    BY <1>1, <2>1
  <2>5. ContinuedUpTo(lines, i, l, j)
    <3>1. l # k - 1 => lines[l + 1].type # "fold"
      BY <2>3 DEF ContinuedUpTo
    <3>2. l = k - 1 => l + 1 = k
      BY <1>1
    <3>3. lines[l + 1].type # "fold"
      BY <3>1, <3>2 DEF Headed
    <3> QED
      BY <2>3, <3>3 DEF ContinuedUpTo
  <2> QED
    BY <2>3, <2>4, <2>5 DEF Written
<1> QED
  BY <1>2, <1>3 DEF HeadersUpTo

\* A header line, and what continues it, adds itself and replaces its namesake.
LEMMA HeaderAdded ==
  ASSUME NEW lines, NEW j \in Nat, NEW k, Headed(lines, k, j), lines[k].type = "header",
         NEW d, HeadersUpTo(lines, k - 1, d), NEW w, w = lines[k].name.word
  PROVE  HeadersUpTo(lines, j, Sip!Put(d, Canonical(w), WordsFrom(lines, k, j)))
<1> DEFINE v == WordsFrom(lines, k, j)
           e == Sip!Put(d, Canonical(w), v)
<1>1. IsHeaders(d) /\ Words(d) = WordsUpTo(lines, k - 1)
  BY DEF HeadersUpTo
<1>2. /\ IsHeaders(e) /\ Words(e) = Words(d) \cup {w}
      /\ \E h \in Range(e) : h[1].word = w /\ h[2] = v
      /\ \A h \in Range(d) : h[1].word # w => h \in Range(e)
  BY <1>1, HeadersPut
<1> HIDE DEF e
<1>3. k \in 1 .. j /\ \A i \in k + 1 .. j : lines[i].type = "fold"
  BY DEF Headed
<1>4. Words(e) = WordsUpTo(lines, j)
  <2>1. \A i \in 1 .. j : lines[i].type = "header" => i \in 1 .. k - 1 \/ i = k
    <3>1. \A i \in 1 .. j : i \in 1 .. k - 1 \/ i = k \/ i \in k + 1 .. j
      BY <1>3
    <3> QED
      BY <1>3, <3>1
  <2>2. k \in 1 .. j /\ \A i \in 1 .. k - 1 : i \in 1 .. j
    BY <1>3
  <2>3. WordsUpTo(lines, j) = WordsUpTo(lines, k - 1) \cup {w}
    BY <2>1, <2>2 DEF WordsUpTo
  <2> QED
    BY <1>1, <1>2, <2>3
<1>5. ASSUME NEW i \in 1 .. j, LastUpTo(lines, i, j)
      PROVE  Written(lines, i, j, e)
  <2>1. CASE i = k
    <3>1. j \in i .. j
      BY <1>3, <2>1
    <3>2. ContinuedUpTo(lines, i, j, j)
      BY <1>3, <2>1 DEF ContinuedUpTo
    <3> QED
      BY <1>2, <2>1, <3>1, <3>2 DEF Written
  <2>2. CASE i # k
    <3>1. i \in 1 .. k - 1
      <4>1. i \in 1 .. k - 1 \/ i \in k + 1 .. j
        BY <1>3, <2>2
      <4>2. lines[i].type # "fold"
        BY <1>5 DEF LastUpTo
      <4> QED
        BY <1>3, <4>1, <4>2
    <3>2. k \in i + 1 .. j
      BY <1>3, <3>1
    <3>3. lines[i].name.word # w
      BY <1>5, <3>2 DEF LastUpTo
    <3>4. LastUpTo(lines, i, k - 1)
      <4>1. \A l \in i + 1 .. k - 1 : l \in i + 1 .. j
        BY <1>3
      <4> QED
        BY <1>5, <4>1 DEF LastUpTo
    <3>5. PICK l \in i .. k - 1 :
            /\ ContinuedUpTo(lines, i, l, k - 1)
            /\ \E h \in Range(d) :
                 h[1].word = lines[i].name.word /\ h[2] = WordsFrom(lines, i, l)
      BY <3>1, <3>4 DEF HeadersUpTo, Written
    <3>6. l \in i .. j
      BY <1>3, <3>1
    <3>7. ContinuedUpTo(lines, i, l, j)
      <4>1. l # k - 1 => lines[l + 1].type # "fold"
        BY <3>5 DEF ContinuedUpTo
      <4>2. l = k - 1 => l + 1 = k
        BY <1>3
      <4>3. lines[l + 1].type # "fold"
        BY <4>1, <4>2
      <4> QED
        BY <3>5, <4>3 DEF ContinuedUpTo
    <3>8. \E h \in Range(e) : h[1].word = lines[i].name.word /\ h[2] = WordsFrom(lines, i, l)
      BY <1>2, <3>3, <3>5
    <3> QED
      BY <3>6, <3>7, <3>8 DEF Written
  <2> QED
    BY <2>1, <2>2
<1>6. HeadersUpTo(lines, j, e)
  BY <1>2, <1>4, <1>5 DEF HeadersUpTo
<1> QED
  BY <1>6 DEF e

\* The headers of a section are as they were written.
LEMMA HeadersAre ==
  ASSUME NEW lines, AreHeaderLines(lines)
  PROVE  HeadersUpTo(lines, Len(lines), Sip!ParseHeaders(lines))
<1> DEFINE n == Len(lines)
           P(i) == SubSeq(lines, 1, i)
           U(i) == Sip!Unfolded(P(i))
           H(i) == Sip!HeadersOf(U(i))
           Bad == {i \in 0 .. n : ~HeadersUpTo(lines, i, H(i))}
<1>1. IsSeq(lines) /\ n \in Nat
  BY SeqHas DEF AreHeaderLines
<1>2. P(0) = <<>> /\ P(n) = lines
  BY <1>1, Beginnings
<1>3. \A i \in 0 .. n : IsSeq(U(i))
  BY <1>1, UnfoldedIsSeq
<1>4. \A j \in 1 .. n : \E k \in 1 .. j :
        Headed(lines, k, j) /\ U(j) = Append(U(k - 1), Joint(lines, k, j))
  BY UnfoldedBeginning
<1>5. H(0) = <<>>
  BY <1>2, UnfoldedOfMore, HeadersOfMore
<1> HIDE DEF P, U
<1>6. HeadersUpTo(lines, 0, H(0))
  <2> DEFINE z == <<>>
  <2>1. IsHeaders(z) /\ Words(z) = {}
    BY ShortSeqs DEF IsHeaders, Words
  <2>2. WordsUpTo(lines, 0) = {} /\ 1 .. 0 = {}
    BY DEF WordsUpTo
  <2> HIDE DEF z
  <2>3. HeadersUpTo(lines, 0, z)
    BY <2>1, <2>2 DEF HeadersUpTo
  <2> QED
    BY <1>5, <2>3 DEF z
<1>7. ASSUME Bad # {}
      PROVE  FALSE
  <2>1. PICK m \in Bad : \A k \in Bad : m <= k
    <3>1. Bad \in SUBSET Nat /\ Bad # {}
      BY <1>1, <1>7
    <3> QED
      BY <3>1, Smallest, Zenon
  <2>2. m # 0
    BY <1>6
  <2>3. m \in 1 .. n /\ m \in Nat
    BY <1>1, <2>2
  <2>4. PICK k \in 1 .. m :
               Headed(lines, k, m) /\ U(m) = Append(U(k - 1), Joint(lines, k, m))
    BY <1>4, <2>3
  <2>5. k - 1 \in 0 .. n /\ k - 1 < m /\ k \in 1 .. n
    BY <2>3
  <2>6. HeadersUpTo(lines, k - 1, H(k - 1))
    BY <2>1, <2>5
  <2>7. H(m) = Sip!AddHeader(H(k - 1), Joint(lines, k, m))
    BY <1>3, <2>4, <2>5, HeadersOfMore
  <2> DEFINE d == H(k - 1)
             v == WordsFrom(lines, k, m)
             line == lines[k]
             name == line.name
             w == name.word
  <2>8. IsHeaderLine(line) /\ line.type # "fold"
    BY <2>4, <2>5 DEF AreHeaderLines, Headed
  <2>9. ASSUME line.type = "empty"
        PROVE  HeadersUpTo(lines, m, H(m))
    <3>1. HeadersUpTo(lines, m, d)
      BY <2>3, <2>4, <2>6, <2>9, NothingAdded
    <3>2. Joint(lines, k, m) = line /\ Sip!IsEmpty(line)
      BY <2>9 DEF Joint, Sip!IsEmpty
    <3> HIDE DEF d, line
    <3>3. Sip!AddHeader(d, line) = d
      BY <3>2 DEF Sip!AddHeader
    <3> QED
      BY <2>7, <3>1, <3>2, <3>3 DEF d
  <2>10. ASSUME line.type = "header"
         PROVE  HeadersUpTo(lines, m, H(m))
    <3>1. HeadersUpTo(lines, m, Sip!Put(d, Canonical(w), v))
      BY <2>3, <2>4, <2>6, <2>10, HeaderAdded
    <3>2. Joint(lines, k, m) = [type |-> "header", value |-> v, name |-> name]
      BY <2>10 DEF Joint
    <3>3. Sip!Canonicalize(name) = Canonical(w)
      <4>1. name = [word |-> w, spelling |-> name.spelling]
        <5> DEFINE z == line.value
        <5>1. line = [type |-> "header", value |-> z,
                      name |-> [word |-> w, spelling |-> name.spelling]]
          BY <2>8, <2>10 DEF IsHeaderLine
        <5> HIDE DEF line, z
        <5>2. line.name = [word |-> line.name.word, spelling |-> line.name.spelling]
          BY <5>1
        <5> QED
          BY <5>2
      <4> HIDE DEF name, w
      <4> QED
        BY <4>1, CanonicalIs
    <3> HIDE DEF d, v, name, w
    <3>4. Sip!AddHeader(d, Joint(lines, k, m)) = Sip!Put(d, Canonical(w), v)
      BY <3>2, <3>3 DEF Sip!AddHeader, Sip!IsEmpty
    <3> QED
      BY <2>7, <3>1, <3>4 DEF d
  <2>11. HeadersUpTo(lines, m, H(m))
    BY <2>8, <2>9, <2>10 DEF IsHeaderLine
  <2> QED
    BY <2>1, <2>11
<1>8. n \in 0 .. n
  BY <1>1
<1>9. HeadersUpTo(lines, n, H(n))
  BY <1>7, <1>8
<1>10. H(n) = Sip!ParseHeaders(lines)
  BY <1>2 DEF U, Sip!ParseHeaders
<1> QED
  BY <1>9, <1>10

\* There is a header for each name that a header line has, and a last line of that name.
LEMMA LastLines ==
  ASSUME NEW lines, AreHeaderLines(lines), NEW d, IsHeaders(d),
         Words(d) = WordsUpTo(lines, Len(lines))
  PROVE  Len(d) = Cardinality({i \in DOMAIN lines : LastOfItsName(lines, i)})
<1> DEFINE n == Len(lines)
           last == {i \in DOMAIN lines : LastOfItsName(lines, i)}
           m == Len(d)
<1>1. n \in Nat /\ DOMAIN lines = 1 .. n /\ m \in Nat /\ DOMAIN d = 1 .. m
  BY SeqHas DEF AreHeaderLines, IsHeaders
<1>2. ASSUME NEW i \in last, NEW j \in last, lines[i].name.word = lines[j].name.word
      PROVE  i = j
  <2>1. i \in 1 .. n /\ j \in 1 .. n
    BY <1>1
  <2>2. ~(i \in j + 1 .. n) /\ ~(j \in i + 1 .. n)
    BY <1>2 DEF LastOfItsName
  <2> QED
    BY <1>1, <2>1, <2>2
<1>3. ASSUME NEW w \in WordsUpTo(lines, n)
      PROVE  \E i \in last : lines[i].name.word = w
  <2> DEFINE S == {i \in 1 .. n : lines[i].type = "header" /\ lines[i].name.word = w}
  <2>1. S \in SUBSET (1 .. n) /\ S # {}
    BY DEF WordsUpTo
  <2>2. PICK i \in S : \A j \in S : i >= j
    <3> HIDE DEF S, n
    <3> QED
      BY <1>1, <2>1, Largest
  <2>3. i \in last
    <3>1. ASSUME NEW j \in i + 1 .. n, lines[j].type = "header", lines[j].name.word = w
          PROVE  FALSE
      <4>1. j \in S
        BY <3>1
      <4> QED
        BY <2>2, <4>1
    <3> QED
      BY <1>1, <3>1 DEF LastOfItsName
  <2> QED
    BY <2>3
<1>4. \A x \in 1 .. m : d[x][1].word \in WordsUpTo(lines, n)
  BY <1>1 DEF Words, Range
<1>5. \A w \in WordsUpTo(lines, n) : \E x \in 1 .. m : d[x][1].word = w
  BY <1>1 DEF Words, Range
<1>6. \A x, y \in 1 .. m : d[x][1].word = d[y][1].word => x = y
  BY DEF IsHeaders
<1>7. \A i \in last : lines[i].name.word \in WordsUpTo(lines, n)
  BY <1>1 DEF LastOfItsName, WordsUpTo
<1> DEFINE b == [x \in 1 .. m |-> CHOOSE i \in last : lines[i].name.word = d[x][1].word]
<1> HIDE DEF last, n, m
<1>8. \A x \in 1 .. m : b[x] \in last /\ lines[b[x]].name.word = d[x][1].word
  BY <1>3, <1>4
<1>9. b \in [1 .. m -> last]
  BY <1>8
<1> HIDE DEF b
<1>10. \A x, y \in 1 .. m : b[x] = b[y] => x = y
  BY <1>6, <1>8
<1>11. \A i \in last : \E x \in 1 .. m : b[x] = i
  BY <1>2, <1>5, <1>7, <1>8
<1>12. b \in Bijection(1 .. m, last)
  BY <1>9, <1>10, <1>11 DEF Bijection, Injection, Surjection, IsInjective
<1>13. ExistsBijection(1 .. m, last)
  BY <1>12 DEF ExistsBijection
<1>14. Cardinality(last) = m
  BY <1>1, <1>13, FS_CountingElements
<1> QED
  BY <1>14 DEF last, m

\* Headers have the values of the last lines with their names, and nothing else is left.
THEOREM LastLineCounts == Spec => []HeadersAsWritten
<1>1. text \in Seq(Lines) => HeadersAsWritten
  <2> SUFFICES ASSUME text \in Seq(Lines), IsSip
               PROVE  LET lines == Sip!HeaderLines(text)
                          last  == {i \in DOMAIN lines : LastOfItsName(lines, i)}
                      IN  /\ Len(Message.headers) = Cardinality(last)
                          /\ \A i \in last : \E j \in i .. Len(lines) :
                               /\ LastContinuation(lines, i, j)
                               /\ \E h \in Range(Message.headers) :
                                    /\ h[1].word = lines[i].name.word
                                    /\ h[2] = WordsFrom(lines, i, j)
    BY DEF HeadersAsWritten
  <2> DEFINE lines == Sip!HeaderLines(text)
             d == Sip!ParseHeaders(lines)
  <2>1. Message.headers = d
    BY DEF Message, Sip!ParseSip
  <2>2. AreHeaderLines(lines)
    BY HeaderLinesAre DEF IsSip
  <2> HIDE DEF lines
  <2>3. HeadersUpTo(lines, Len(lines), d)
    BY <2>2, HeadersAre
  <2> HIDE DEF d
  <2>4. Len(d) = Cardinality({i \in DOMAIN lines : LastOfItsName(lines, i)})
    BY <2>2, <2>3, LastLines DEF HeadersUpTo
  <2>5. ASSUME NEW i \in DOMAIN lines, LastOfItsName(lines, i)
        PROVE  \E j \in i .. Len(lines) :
                 /\ LastContinuation(lines, i, j)
                 /\ \E h \in Range(d) :
                      h[1].word = lines[i].name.word /\ h[2] = WordsFrom(lines, i, j)
    <3>1. i \in 1 .. Len(lines)
      BY <2>2, SeqHas DEF AreHeaderLines
    <3>2. LastUpTo(lines, i, Len(lines))
      BY <2>5 DEF LastOfItsName, LastUpTo
    <3>3. Written(lines, i, Len(lines), d)
      BY <2>3, <3>1, <3>2 DEF HeadersUpTo
    <3> QED
      BY <3>3 DEF Written, ContinuedUpTo, LastContinuation
  <2> QED
    BY <2>1, <2>4, <2>5 DEF lines
<1> QED
  BY <1>1, TextType, PTL

\* The lines of a written message: start line, n headers, an empty line, m lines of body.
Parts(written, start, d, n, b, m) ==
  /\ IsSeq(written) /\ Len(written) = n + 2 + m
  /\ written[1] = start /\ written[n + 2] = Sip!Empty
  /\ \A i \in 1 .. n : written[i + 1] = Sip!Header(d[i][1], d[i][2])
  /\ SubSeq(written, n + 3, Len(written)) = b

\* A message as it is written: start line, headers, empty line and body.
LEMMA WrittenMessage ==
  ASSUME NEW start, NEW d, IsHeaders(d), NEW body, body # None => IsSeq(body),
         NEW written, written = Sip!BuildMessage(start, d, body),
         NEW n \in Nat, n = Len(d),
         NEW b, b = IF body = None THEN <<>> ELSE body,
         NEW m \in Nat, m = Len(b)
  PROVE  Parts(written, start, d, n, b, m)
<1> DEFINE A == <<start>>
           B == [i \in DOMAIN d |-> Sip!Header(d[i][1], d[i][2])]
           E == <<Sip!Empty>>
           AB == A \o B
           H == AB \o E
           r == H \o b
<1>1. written = r
  BY DEF Sip!BuildMessage
<1>2. IsSeq(b)
  BY ShortSeqs
<1>3. n \in Nat /\ DOMAIN d = 1 .. n
  BY SeqHas DEF IsHeaders
<1>4. IsSeq(A) /\ Len(A) = 1 /\ A[1] = start
  BY ShortSeqs
<1>5. IsSeq(E) /\ Len(E) = 1 /\ E[1] = Sip!Empty
  BY ShortSeqs
<1>6. IsSeq(B) /\ Len(B) = n /\ \A i \in 1 .. n : B[i] = Sip!Header(d[i][1], d[i][2])
  <2>1. B = [i \in 1 .. n |-> B[i]] /\ \A i \in 1 .. n : B[i] = Sip!Header(d[i][1], d[i][2])
    BY <1>3
  <2> HIDE DEF B
  <2> QED
    BY <1>3, <2>1, FunctionIsSeq
<1> HIDE DEF A, B, E
<1>7. /\ IsSeq(AB) /\ Len(AB) = Len(A) + Len(B)
      /\ \A i \in 1 .. Len(A) : AB[i] = A[i]
      /\ \A i \in 1 .. Len(B) : AB[Len(A) + i] = B[i]
  <2>1. IsSeq(A) /\ IsSeq(B)
    BY <1>4, <1>6
  <2> QED
    BY <2>1, JoinedHas
<1> HIDE DEF AB
<1>8. /\ IsSeq(H) /\ Len(H) = Len(AB) + Len(E)
      /\ \A i \in 1 .. Len(AB) : H[i] = AB[i]
      /\ \A i \in 1 .. Len(E) : H[Len(AB) + i] = E[i]
  <2>1. IsSeq(AB) /\ IsSeq(E)
    BY <1>5, <1>7
  <2> QED
    BY <2>1, JoinedHas
<1> HIDE DEF H
<1>9. IsSeq(H) /\ IsSeq(b)
  BY <1>2, <1>8
<1>10. /\ IsSeq(r) /\ Len(b) \in Nat /\ Len(r) = Len(H) + Len(b)
       /\ \A i \in 1 .. Len(H) : r[i] = H[i]
  BY <1>9, JoinedHas
<1>11. SubSeq(r, Len(H) + 1, Len(H) + Len(b)) = b
  BY <1>9, JoinedParts
<1> HIDE DEF r
<1>12. Len(AB) = n + 1 /\ Len(H) = n + 2
  BY <1>3, <1>4, <1>5, <1>6, <1>7, <1>8
<1>13. AB[1] = start /\ \A i \in 1 .. n : AB[i + 1] = B[i]
  <2>1. \A i \in 1 .. n : 1 + i = i + 1
    BY <1>3
  <2> QED
    BY <1>4, <1>6, <1>7, <2>1
<1>14. H[1] = start /\ \A i \in 1 .. n : H[i + 1] = B[i]
  BY <1>3, <1>8, <1>12, <1>13
<1>15. H[n + 2] = Sip!Empty
  <2>1. (n + 1) + 1 = n + 2
    BY <1>3
  <2> QED
    BY <1>5, <1>8, <1>12, <2>1
<1>16. r[1] = start /\ r[n + 2] = Sip!Empty /\ \A i \in 1 .. n : r[i + 1] = B[i]
  <2>1. n \in Nat /\ Len(H) = n + 2
    BY <1>3, <1>12
  <2>2. 1 \in 1 .. Len(H) /\ n + 2 \in 1 .. Len(H) /\ \A i \in 1 .. n : i + 1 \in 1 .. Len(H)
    BY <2>1
  <2>3. r[1] = H[1] /\ r[n + 2] = H[n + 2] /\ \A i \in 1 .. n : r[i + 1] = H[i + 1]
    BY <1>10, <2>2
  <2> QED
    BY <1>14, <1>15, <2>3
<1>17. SubSeq(r, n + 3, Len(r)) = b
  <2>1. Len(H) + 1 = n + 3
    BY <1>3, <1>12
  <2> QED
    BY <1>10, <1>11, <2>1
<1>18. Len(r) = n + 2 + m
  BY <1>10, <1>12
<1>19. \A i \in 1 .. n : r[i + 1] = Sip!Header(d[i][1], d[i][2])
  BY <1>6, <1>16
<1>20. IsSeq(r) /\ IsSeq(b) /\ n \in Nat /\ Len(b) \in Nat
  BY <1>2, <1>3, <1>10
<1>21. written = r /\ r[1] = start /\ r[n + 2] = Sip!Empty
  BY <1>1, <1>16
<1>22. Parts(r, start, d, n, b, m)
  BY <1>17, <1>18, <1>19, <1>20, <1>21 DEF Parts
<1> QED
  BY <1>21, <1>22

\* What is written is read as it was: the empty line is the blank line if there is a body.
LEMMA ReadBack ==
  ASSUME NEW start, NEW d, IsHeaders(d), NEW body,
         body # None => IsSeq(body) /\ Len(body) # 0 /\ body # <<Sip!Empty>>
  PROVE  LET r == Sip!BuildMessage(start, d, body)
         IN  /\ r # <<>> /\ r[1] = start
             /\ Sip!ParseHeaders(Sip!HeaderLines(r)) = d /\ Sip!BodyOf(r) = body
             /\ Sip!HeaderLines(r) # <<>> => Head(Sip!HeaderLines(r)).type # "fold"
             /\ \A line \in Sip!Range(Sip!HeaderLines(r)) : line.type \in {"header", "empty"}
<1> DEFINE r == Sip!BuildMessage(start, d, body)
           n == Len(d)
           b == IF body = None THEN <<>> ELSE body
           h == IF body = None THEN n + 1 ELSE n
           section == Sip!HeaderSection(r)
           lines == Sip!HeaderLines(r)
           blank == Sip!BlankLine(r)
<1> HIDE DEF h, section, lines, blank
<1>1. /\ IsSeq(r) /\ IsSeq(b) /\ n \in Nat /\ Len(b) \in Nat
      /\ Len(r) = n + 2 + Len(b)
      /\ r[1] = start /\ r[n + 2] = Sip!Empty
      /\ \A i \in 1 .. n : r[i + 1] = Sip!Header(d[i][1], d[i][2])
      /\ SubSeq(r, n + 3, Len(r)) = b
  <2>1. body # None => IsSeq(body)
    OBVIOUS
  <2>2. r = Sip!BuildMessage(start, d, body) /\ n = Len(d)
    OBVIOUS
  <2>3. b = IF body = None THEN <<>> ELSE body
    OBVIOUS
  <2>4. IsSeq(b)
    BY <2>1, ShortSeqs
  <2>5. n \in Nat
    BY SeqHas DEF IsHeaders
  <2> HIDE DEF r, n, b
  <2>6. Len(b) \in Nat
    BY <2>4, SeqHas
  <2> DEFINE m == Len(b)
  <2>7. m \in Nat /\ m = Len(b)
    BY <2>6
  <2> HIDE DEF m
  <2>8. Parts(r, start, d, n, b, m)
    BY <2>1, <2>2, <2>3, <2>5, <2>7, WrittenMessage
  <2> QED
    BY <2>4, <2>5, <2>7, <2>8 DEF Parts
<1>2. /\ body = None => Len(b) = 0
      /\ body # None => b = body /\ Len(b) # 0
  BY ShortSeqs
<1> HIDE DEF r, n, b
<1>3. r[n + 2].type = "empty" /\ \A i \in 1 .. n : r[i + 1].type = "header"
  <2>1. Sip!Empty.type = "empty"
    BY DEF Sip!Empty
  <2>2. \A name, value : Sip!Header(name, value).type = "header"
    BY DEF Sip!Header
  <2> QED
    BY <1>1, <2>1, <2>2
<1>4. \A i \in 2 .. n + 1 : r[i].type = "header"
  <2> SUFFICES ASSUME NEW i \in 2 .. n + 1
               PROVE  r[i].type = "header"
    OBVIOUS
  <2>1. n \in Nat
    BY <1>1
  <2>2. i - 1 \in 1 .. n /\ (i - 1) + 1 = i
    BY <2>1
  <2>3. r[(i - 1) + 1].type = "header"
    BY <1>3, <2>2
  <2> QED
    BY <2>2, <2>3
<1>5. Len(r) \in Nat /\ Len(r) >= n + 2
  BY <1>1
<1>6. blank = IF body = None THEN 0 ELSE n + 2
  <2> DEFINE Blank == {i \in 2 .. Len(r) - 1 : r[i].type = "empty"}
  <2>1. /\ blank # 0 => blank \in Blank /\ \A i \in Blank : blank <= i
        /\ \A c \in Blank : (\A i \in Blank : c <= i) => blank = c
    BY <1>5, BlankLineIs DEF blank
  <2>2. ASSUME body = None
        PROVE  blank = 0
    <3>1. Len(r) - 1 = n + 1
      BY <1>1, <1>2, <2>2
    <3>2. Blank = {}
      BY <1>4, <3>1
    <3> QED
      BY <2>1, <3>2
  <2>3. ASSUME body # None
        PROVE  blank = n + 2
    <3>1. n + 2 \in Blank
      BY <1>1, <1>2, <1>3, <2>3
    <3>2. \A i \in Blank : n + 2 <= i
      <4> SUFFICES ASSUME NEW i \in Blank, ~(n + 2 <= i)
                   PROVE  FALSE
        BY <1>1
      <4>1. i \in 2 .. n + 1
        BY <1>1
      <4> QED
        BY <1>4, <4>1
    <3> QED
      BY <2>1, <3>1, <3>2
  <2> QED
    BY <2>2, <2>3
<1>7. Sip!BodyOf(r) = body
  <2>1. CASE body = None
    BY <1>6, <2>1 DEF Sip!BodyOf, blank
  <2>2. CASE body # None
    <3>1. blank = n + 2 /\ (n + 2) + 1 = n + 3 /\ n + 2 # 0
      BY <1>1, <1>6, <2>2
    <3>2. SubSeq(r, blank + 1, Len(r)) = body
      BY <1>1, <1>2, <2>2, <3>1
    <3>3. blank # 0 /\ body # <<Sip!Empty>>
      BY <2>2, <3>1
    <3> QED
      BY <3>2, <3>3 DEF Sip!BodyOf, blank
  <2> QED
    BY <2>1, <2>2
<1>8. (body = None => h = n + 1) /\ (body # None => h = n)
  BY DEF h
<1>9. h \in Nat /\ section = SubSeq(r, 1, h + 1) /\ h + 1 \in 0 .. Len(r)
  <2>1. ASSUME body = None
        PROVE  section = SubSeq(r, 1, h + 1) /\ h = n + 1
    <3>1. blank = 0
      BY <1>6, <2>1
    <3>2. section = r
      BY <3>1 DEF Sip!HeaderSection, section, blank
    <3>3. h = n + 1 /\ h + 1 = Len(r)
      BY <1>1, <1>2, <1>8, <2>1
    <3>4. SubSeq(r, 1, Len(r)) = r
      BY <1>1, Beginnings
    <3> QED
      BY <3>2, <3>3, <3>4
  <2>2. ASSUME body # None
        PROVE  section = SubSeq(r, 1, h + 1) /\ h = n
    <3>1. h = n
      BY <1>8, <2>2
    <3>2. blank = n + 2
      BY <1>6, <2>2
    <3>3. blank # 0 /\ blank - 1 = h + 1
      <4>1. n \in Nat
        BY <1>1
      <4> QED
        BY <3>1, <3>2, <4>1
    <3>4. section = SubSeq(r, 1, blank - 1)
      BY <3>3, Zenon DEF Sip!HeaderSection, section, blank
    <3> QED
      BY <3>1, <3>3, <3>4
  <2>3. section = SubSeq(r, 1, h + 1) /\ (h = n \/ h = n + 1)
    BY <2>1, <2>2
  <2>4. h \in Nat /\ h + 1 \in 0 .. Len(r)
    BY <1>1, <1>5, <2>3
  <2> QED
    BY <2>3, <2>4
<1>10. /\ IsSeq(section) /\ Len(section) = h + 1
       /\ \A i \in 1 .. h + 1 : section[i] = r[i]
  BY <1>1, <1>9, Beginnings
<1>11. lines = Tail(section)
  BY DEF Sip!HeaderLines, lines, section
<1>12. IsSeq(lines) /\ Len(lines) = h /\ \A i \in 1 .. h : lines[i] = r[i + 1]
  <2>1. PICK S : section \in Seq(S)
    BY <1>10, Zenon DEF IsSeq
  <2>2. section # <<>>
    BY <1>9, <1>10, <2>1
  <2>3. lines \in Seq(S) /\ Len(lines) = h /\ \A i \in 1 .. h : lines[i] = section[i + 1]
    BY <1>9, <1>10, <1>11, <2>1, <2>2
  <2>4. \A i \in 1 .. h : i + 1 \in 1 .. h + 1
    BY <1>9
  <2>5. IsSeq(lines)
    BY <2>3, Zenon DEF IsSeq
  <2> QED
    BY <1>10, <2>3, <2>4, <2>5
<1>13. h = n + 1 \/ h = n
  BY <1>8
<1>14. \A i \in 1 .. n : lines[i] = Sip!Header(d[i][1], d[i][2])
  <2>1. \A i \in 1 .. n : i \in 1 .. h
    BY <1>1, <1>13
  <2> QED
    BY <1>1, <1>12, <2>1
<1>15. h = n + 1 => lines[h] = Sip!Empty
  <2> SUFFICES ASSUME h = n + 1
               PROVE  lines[h] = Sip!Empty
    OBVIOUS
  <2>1. h \in 1 .. h /\ h + 1 = n + 2
    BY <1>1
  <2> QED
    BY <1>1, <1>12, <2>1
<1>16. \A i \in 1 .. h : lines[i].type \in {"header", "empty"}
  <2>1. \A i \in 1 .. n : lines[i].type = "header"
    <3>1. \A name, value : Sip!Header(name, value).type = "header"
      BY DEF Sip!Header
    <3> QED
      BY <1>14, <3>1
  <2>2. h = n + 1 => lines[h].type = "empty"
    <3>1. Sip!Empty.type = "empty"
      BY DEF Sip!Empty
    <3> QED
      BY <1>15, <3>1
  <2>3. \A i \in 1 .. h : i \in 1 .. n \/ (h = n + 1 /\ i = h)
    <3>1. n \in Nat
      BY <1>1
    <3> QED
      BY <1>13, <3>1
  <2> QED
    BY <2>1, <2>2, <2>3
<1>17. Sip!ParseHeaders(lines) = d
  <2>1. Sip!Unfolded(lines) = lines
    <3>1. \A i \in 1 .. Len(lines) : lines[i].type # "fold"
      BY <1>12, <1>16
    <3> QED
      BY <1>12, <3>1, NothingToUnfold
  <2>2. Sip!HeadersOf(lines) = d
    <3>1. CASE h = n
      BY <1>12, <1>14, <3>1, SameHeaders DEF n
    <3>2. CASE h = n + 1
      <4> DEFINE s == SubSeq(lines, 1, n)
      <4>1. n \in 0 .. Len(lines) /\ h \in 1 .. Len(lines) /\ h - 1 = n
        <5>1. n \in Nat
          BY <1>1
        <5> QED
          BY <1>12, <3>2, <5>1
      <4>2. IsSeq(s) /\ Len(s) = n /\ \A i \in 1 .. n : s[i] = lines[i]
        BY <1>12, <4>1, Beginnings
      <4>3. lines = Append(s, lines[h])
        <5>1. SubSeq(lines, 1, h) = Append(SubSeq(lines, 1, h - 1), lines[h])
          BY <1>12, <4>1, Beginnings
        <5>2. SubSeq(lines, 1, Len(lines)) = lines
          BY <1>12, Beginnings
        <5> QED
          BY <1>12, <4>1, <5>1, <5>2
      <4> HIDE DEF s
      <4>4. Sip!HeadersOf(s) = d
        BY <1>14, <4>2, SameHeaders DEF n
      <4>5. Sip!HeadersOf(Append(s, lines[h])) = Sip!AddHeader(d, lines[h])
        BY <4>2, <4>4, HeadersOfMore
      <4>6. Sip!AddHeader(d, lines[h]) = d
        BY <1>15, <3>2 DEF Sip!AddHeader, Sip!IsEmpty, Sip!Empty
      <4> QED
        BY <4>3, <4>5, <4>6
    <3> QED
      BY <1>13, <3>1, <3>2
  <2> QED
    BY <2>1, <2>2 DEF Sip!ParseHeaders
<1>18. lines # <<>> => Head(lines).type # "fold"
  <2> SUFFICES ASSUME lines # <<>>
               PROVE  Head(lines).type # "fold"
    OBVIOUS
  <2>1. PICK S : lines \in Seq(S)
    BY <1>12, Zenon DEF IsSeq
  <2>2. Head(lines) = lines[1] /\ Len(lines) # 0
    BY <2>1
  <2>3. 1 \in 1 .. h
    BY <1>9, <1>12, <2>2
  <2> QED
    BY <1>16, <2>2, <2>3
<1>19. \A line \in Sip!Range(lines) : line.type \in {"header", "empty"}
  <2>1. DOMAIN lines = 1 .. h
    BY <1>12, SeqHas
  <2> QED
    BY <1>16, <2>1 DEF Sip!Range
<1>20. r # <<>>
  <2>1. Len(r) # 0
    BY <1>1
  <2> QED
    BY <2>1, ShortSeqs
<1> QED
  BY <1>1, <1>7, <1>17, <1>18, <1>19, <1>20 DEF r, lines

\* A message that was read can be written and read again, in version 2.0.
THEOREM MessagesSurvive == Spec => []SipRoundTrip
<1>1. text \in Seq(Lines) => SipRoundTrip
  <2> SUFFICES ASSUME text \in Seq(Lines), IsSip
               PROVE  LET rebuilt == Sip!BuildSip(Message) IN
                      /\ Sip!WellFormed(rebuilt)
                      /\ Sip!ParseSip(rebuilt) = [Message EXCEPT !.start.version = "SIP/2.0"]
    BY DEF SipRoundTrip
  <2> DEFINE lines == Sip!HeaderLines(text)
             first == text[1]
             d == Sip!ParseHeaders(lines)
             body == Sip!BodyOf(text)
             start == Sip!StartLine(first)
             r == Sip!BuildMessage(start, d, body)
  <2>1. Message = [start |-> first, headers |-> d, body |-> body]
    BY DEF Message, Sip!ParseSip
  <2>2. Sip!BuildSip(Message) = r
    BY <2>1 DEF Sip!BuildSip
  <2>3. IsHeaders(d)
    <3>1. AreHeaderLines(lines)
      BY HeaderLinesAre DEF IsSip
    <3> HIDE DEF lines
    <3> QED
      BY <3>1, HeadersAre DEF HeadersUpTo
  <2>4. body # None => IsSeq(body) /\ Len(body) # 0 /\ body # <<Sip!Empty>>
    <3> SUFFICES ASSUME body # None
                 PROVE  IsSeq(body) /\ Len(body) # 0 /\ body # <<Sip!Empty>>
      OBVIOUS
    <3> DEFINE b == Sip!BlankLine(text)
               rest == SubSeq(text, b + 1, Len(text))
    <3>1. b # 0 /\ body = rest /\ body # <<Sip!Empty>>
      BY DEF Sip!BodyOf
    <3>2. Len(text) \in Nat
      OBVIOUS
    <3>3. b \in 2 .. Len(text) - 1
      BY <3>1, <3>2, BlankLineIs
    <3> HIDE DEF b
    <3>4. rest \in Seq(Lines) /\ Len(rest) = Len(text) - b
      BY <3>2, <3>3
    <3>5. Len(text) - b # 0
      BY <3>2, <3>3
    <3> HIDE DEF rest, body
    <3>6. IsSeq(rest)
      BY <3>4, Zenon DEF IsSeq
    <3> QED
      BY <3>1, <3>4, <3>5, <3>6
  <2>5. /\ start = [first EXCEPT !.version = "SIP/2.0"]
        /\ \/ start.type = "request" /\ start.method \in Methods /\ start.version \in Versions
           \/ start.type = "status" /\ start.code # Malformed
    <3>1. first \in Lines
      BY DEF IsSip, Sip!WellFormed
    <3>2. start = [first EXCEPT !.version = "SIP/2.0"]
      BY DEF Sip!StartLine
    <3>3. \/ first.type = "request" /\ first.method \in Methods
          \/ first.type = "status" /\ first.code # Malformed
      BY DEF IsSip, Sip!WellFormed
    <3>4. /\ first.type = "request" =>
               first = [type |-> "request", method |-> first.method, uri |-> first.uri,
                        version |-> first.version]
          /\ first.type = "status" =>
               first = [type |-> "status", version |-> first.version, code |-> first.code,
                        reason |-> first.reason]
          /\ "SIP/2.0" \in Versions
      BY <3>1, SipAssumption
    <3> HIDE DEF first, start
    <3>5. CASE first.type = "request"
      <4>1. start = [type |-> "request", method |-> first.method, uri |-> first.uri,
                     version |-> "SIP/2.0"]
        BY <3>2, <3>4, <3>5
      <4>2. first.method \in Methods
        BY <3>3, <3>5
      <4> QED
        BY <3>2, <3>4, <4>1, <4>2
    <3>6. CASE first.type = "status"
      <4>1. start = [type |-> "status", version |-> "SIP/2.0", code |-> first.code,
                     reason |-> first.reason]
        BY <3>2, <3>4, <3>6
      <4>2. first.code # Malformed
        BY <3>3, <3>6
      <4> QED
        BY <3>2, <4>1, <4>2
    <3> QED
      BY <3>3, <3>5, <3>6
  <2> HIDE DEF d, body, start, first
  <2>6. /\ r # <<>> /\ r[1] = start
        /\ Sip!ParseHeaders(Sip!HeaderLines(r)) = d /\ Sip!BodyOf(r) = body
        /\ Sip!HeaderLines(r) # <<>> => Head(Sip!HeaderLines(r)).type # "fold"
        /\ \A line \in Sip!Range(Sip!HeaderLines(r)) : line.type \in {"header", "empty"}
    BY <2>3, <2>4, ReadBack
  <2> HIDE DEF r
  <2>7. Sip!WellFormed(r)
    BY <2>5, <2>6 DEF Sip!WellFormed
  <2>8. Sip!ParseSip(r) = [start |-> start, headers |-> d, body |-> body]
    BY <2>6 DEF Sip!ParseSip
  <2>9. [Message EXCEPT !.start.version = "SIP/2.0"]
          = [start |-> start, headers |-> d, body |-> body]
    <3> HIDE DEF Message
    <3>1. [Message EXCEPT !.start.version = "SIP/2.0"]
            = [Message EXCEPT !.start = [first EXCEPT !.version = "SIP/2.0"]]
      BY <2>1
    <3> QED
      BY <2>1, <2>5, <3>1
  <2> QED
    BY <2>2, <2>7, <2>8, <2>9
<1> QED
  BY <1>1, TextType, PTL

=============================================================================
