----------------------------- MODULE MCMediaBytes -----------------------------
(***************************************************************************)
(* An instance of MediaBytes for TLC.  The datagrams have every first byte *)
(* and end two bytes after the header that this byte announces.            *)
(***************************************************************************)
EXTENDS MediaBytes

Bytes(first, second) ==
  <<first, second>> \o [i \in 1 .. 12 + 4 * (first % 16) |-> (37 * i + second) % 256]

MCDatagrams == {Bytes(first, second) : first \in 0 .. 255, second \in {0, 127, 128}}

Pcm(samples) == Mixer!PackAll(samples)

MCStreams ==
  {Pcm(<<s>>) : s \in {-32768, -32767, -20000, -1, 0, 1, 3, 16383, 16384, 32767}}
    \cup {Pcm(<<20000, -20000>>), Pcm(<<32767, 3>>), Pcm(<<-16383, 16383>>), <<0, 1, 2>>}

\* The code takes a float; these are exact in binary.
MCGains == {<<1, 1>>, <<1, 2>>, <<3, 2>>, <<2, 1>>, <<0, 1>>}

MCFormats ==
  {[sample_rate |-> 1000, sample_width |-> 2, channels |-> 1],
   [sample_rate |-> 500, sample_width |-> 2, channels |-> 2]}

===============================================================================
