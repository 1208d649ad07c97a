----------------------------- MODULE PlayoutBuffer -----------------------------
(***************************************************************************)
(* What the jitter buffer promises, told without sequence numbers: packets *)
(* are the positions of a stream, 0, 1, 2, ...; each is held for the       *)
(* target delay and released in stream order, at most once; the playout    *)
(* position never moves back once playout has started; and every position  *)
(* it passes is counted exactly once, as received or as lost.              *)
(*                                                                         *)
(* JitterBuffer, which sees 16-bit numbers only, implements it.            *)
(***************************************************************************)
EXTENDS Integers, FiniteSets

CONSTANTS
  Packets,        \* the packets of the stream that may arrive
  MaxBufferSize,  \* config.max_buffer_size
  TargetDelay,    \* config.target_delay_ms, in ticks
  None            \* Python's None

VARIABLES
  pending,          \* how long each packet has been held, None if it is not
  position,         \* the packet expected next, None before the first arrival
  playoutStarted,
  packetsReceived,
  packetsLost,
  packetsLate,
  first,            \* the position at which playout started
  last              \* the packet released last

counters == <<packetsReceived, packetsLost, packetsLate>>
vars == <<pending, position, playoutStarted, counters, first, last>>

TypeOK ==
  /\ pending \in [Packets -> (0 .. TargetDelay) \cup {None}]
  /\ position \in Nat \cup {None}
  /\ playoutStarted \in BOOLEAN
  /\ packetsReceived \in Nat /\ packetsLost \in Nat /\ packetsLate \in Nat
  /\ first \in Nat \cup {None} /\ last \in Nat \cup {None}

Init ==
  /\ pending = [p \in Packets |-> None]
  /\ position = None
  /\ playoutStarted = FALSE
  /\ packetsReceived = 0 /\ packetsLost = 0 /\ packetsLate = 0
  /\ first = None /\ last = None

Held == {p \in Packets : pending[p] # None}

Earliest == CHOOSE p \in Held : \A q \in Held : p <= q

\* Until playout starts the position moves back to an earlier arrival.
Anchor(i) ==
  position' = IF position = None \/ (~playoutStarted /\ i < position)
              THEN i ELSE position

PutLate(i) ==
  /\ playoutStarted /\ i < position
  /\ packetsLate' = packetsLate + 1
  /\ UNCHANGED pending

\* A full buffer makes room by forgetting its earliest packet.
PutHeld(i) ==
  /\ ~(playoutStarted /\ i < position)
  /\ i \notin Held
  /\ pending' = IF Cardinality(Held) >= MaxBufferSize
                THEN [pending EXCEPT ![Earliest] = None, ![i] = 0]
                ELSE [pending EXCEPT ![i] = 0]
  /\ UNCHANGED packetsLate

\* A packet that is already held: a duplicate.
PutDuplicate(i) ==
  /\ ~(playoutStarted /\ i < position)
  /\ i \in Held
  /\ UNCHANGED <<pending, packetsLate>>

Put(i) ==
  /\ Anchor(i)
  /\ PutLate(i) \/ PutHeld(i) \/ PutDuplicate(i)
  /\ UNCHANGED <<playoutStarted, packetsReceived, packetsLost, first, last>>

\* The packet to release next: the expected one, or the earliest if it is
\* missing, which declares the positions in between lost.
Candidate == IF position \in Held THEN position ELSE Earliest

Get ==
  /\ Held # {}
  /\ pending[Candidate] >= TargetDelay
  /\ pending' = [pending EXCEPT ![Candidate] = None]
  /\ position' = Candidate + 1
  /\ packetsLost' = packetsLost + (Candidate - position)
  /\ packetsReceived' = packetsReceived + 1
  /\ playoutStarted' = TRUE
  /\ first' = IF playoutStarted THEN first ELSE position
  /\ last' = Candidate
  /\ UNCHANGED packetsLate

Tick ==
  /\ pending' = [p \in Packets |->
       IF p \in Held /\ pending[p] < TargetDelay THEN pending[p] + 1 ELSE pending[p]]
  /\ UNCHANGED <<position, playoutStarted, counters, first, last>>

Next == Get \/ Tick \/ \E i \in Packets : Put(i)

Spec == Init /\ [][Next]_vars

===============================================================================
