----------------------------- MODULE JitterBuffer -----------------------------
(***************************************************************************)
(* The playout buffer of voip/jitter.py.                                   *)
(*                                                                         *)
(* The buffer sees 16-bit sequence numbers; packet i of the stream carries *)
(* Wire(i).  Any packet may arrive at any time, again, or never: loss,     *)
(* reordering, duplication and delay of the network in one.                *)
(* The clock is a number of ticks that each held packet has been held for, *)
(* and stops counting at the target delay.                                 *)
(***************************************************************************)
EXTENDS SequenceNumbers, FiniteSets

CONSTANTS
  Packets,        \* the packets of the stream that may arrive
  MaxBufferSize,  \* config.max_buffer_size
  TargetDelay,    \* config.target_delay_ms, in ticks
  MaxCopies,      \* bound: how many packets the network delivers again
  None            \* Python's None, or an absent dictionary key

ASSUME JitterBufferAssumption ==
  /\ Packets \subseteq Nat
  /\ MaxBufferSize \in Nat \ {0}
  /\ TargetDelay \in Nat
  /\ MaxCopies \in Nat
  /\ None \notin Nat

VARIABLES
  buffer,                \* self._buffer : sequence number -> packet
  age,                   \* how long the packet under each number has been held
  nextExpectedSequence,
  playoutStarted,
  packetsReceived,
  packetsLost,
  packetsLate,
  position,              \* history: the packet that nextExpectedSequence stands for
  first,                 \* history: the position at which playout started
  last,                  \* history: the packet released last
  arrived,               \* history: the packets that have arrived
  copies                 \* history: how many have arrived again

store    == <<buffer, age>>
counters == <<packetsReceived, packetsLost, packetsLate>>
history  == <<position, first, last, arrived, copies>>
vars     == <<store, nextExpectedSequence, playoutStarted, counters, history>>

TypeOK ==
  /\ buffer \in [SequenceNumber -> Packets \cup {None}]
  /\ age \in [SequenceNumber -> 0 .. TargetDelay]
  /\ nextExpectedSequence \in SequenceNumber \cup {None}
  /\ playoutStarted \in BOOLEAN
  /\ packetsReceived \in Nat /\ packetsLost \in Nat /\ packetsLate \in Nat
  /\ position \in Nat \cup {None}
  /\ first \in Nat \cup {None}
  /\ last \in Nat \cup {None}
  /\ arrived \subseteq Packets
  /\ copies \in 0 .. MaxCopies

Init ==
  /\ buffer = [s \in SequenceNumber |-> None]
  /\ age = [s \in SequenceNumber |-> 0]
  /\ nextExpectedSequence = None
  /\ playoutStarted = FALSE
  /\ packetsReceived = 0 /\ packetsLost = 0 /\ packetsLate = 0
  /\ position = None /\ first = None /\ last = None
  /\ arrived = {} /\ copies = 0

\* The numbers in the buffer, and the packets.
Held        == {s \in SequenceNumber : buffer[s] # None}
HeldPackets == {buffer[s] : s \in Held}

-------------------------------------------------------------------------------
(***************************************************************************)
(* The assumption on the stream: an arriving packet is less than half a    *)
(* circle of sequence numbers (32768 packets, eleven minutes of audio)     *)
(* from the playout position and from every packet in the buffer.          *)
(***************************************************************************)
Near(i) ==
  \A j \in HeldPackets \cup ({position} \ {None}) :
    2 * (i - j) < Modulus /\ 2 * (j - i) < Modulus

\* Wrong: the numbers compared without regard to the wrap-around.
LowestNumber == CHOOSE s \in Held : \A t \in Held : s <= t

\* _find_oldest_sequence_number.  Numbers that are Near each other are totally
\* ordered, so the order in which the dictionary is scanned does not matter.
Oldest == CHOOSE s \in Held : \A t \in Held : ~SequenceBefore(t, s)

\* Wrong: one packet too many.
OverFull == Cardinality(Held) > MaxBufferSize

Full == Cardinality(Held) >= MaxBufferSize

Without(s) == [buffer EXCEPT ![s] = None]

\* The first packet anchors the playout position; until playout has started an
\* earlier one moves it back.
Anchor(i) ==
  IF \/ nextExpectedSequence = None
     \/ ~playoutStarted /\ SequenceBefore(Wire(i), nextExpectedSequence)
  THEN nextExpectedSequence' = Wire(i) /\ position' = i
  ELSE UNCHANGED <<nextExpectedSequence, position>>

\* Wrong: what playout has passed is not recognised.
NeverLate(i) == FALSE

IsLate(i) == playoutStarted /\ SequenceBefore(Wire(i), nextExpectedSequence)

PutLate(i) ==
  /\ IsLate(i)
  /\ packetsLate' = packetsLate + 1
  /\ UNCHANGED store

PutDuplicate(i) ==
  /\ ~IsLate(i)
  /\ Wire(i) \in Held
  /\ UNCHANGED <<store, packetsLate>>

PutHeld(i) ==
  /\ ~IsLate(i)
  /\ Wire(i) \notin Held
  /\ IF Full
     THEN /\ buffer' = [Without(Oldest) EXCEPT ![Wire(i)] = i]
          /\ age' = [age EXCEPT ![Oldest] = 0, ![Wire(i)] = 0]
     ELSE /\ buffer' = [buffer EXCEPT ![Wire(i)] = i]
          /\ age' = [age EXCEPT ![Wire(i)] = 0]
  /\ UNCHANGED packetsLate

Arrives(i) ==
  /\ arrived' = arrived \cup {i}
  /\ copies' = IF i \in arrived THEN copies + 1 ELSE copies
  /\ copies' <= MaxCopies

Put(i) ==
  /\ Near(i)
  /\ Arrives(i)
  /\ Anchor(i)
  /\ PutLate(i) \/ PutDuplicate(i) \/ PutHeld(i)
  /\ UNCHANGED <<playoutStarted, packetsReceived, packetsLost, first, last>>

-------------------------------------------------------------------------------
(***************************************************************************)
(* get().  A call that returns None changes nothing.                       *)
(***************************************************************************)
Release(s) ==
  /\ buffer' = Without(s)
  /\ age' = [age EXCEPT ![s] = 0]
  /\ packetsReceived' = packetsReceived + 1
  /\ playoutStarted' = TRUE
  /\ nextExpectedSequence' = Successor(s)
  /\ position' = buffer[s] + 1
  /\ first' = IF playoutStarted THEN first ELSE position
  /\ last' = buffer[s]
  /\ UNCHANGED <<packetsLate, arrived, copies>>

\* The expected packet is there and has been held for the target delay.
GetExpected ==
  /\ nextExpectedSequence \in Held
  /\ age[nextExpectedSequence] >= TargetDelay
  /\ Release(nextExpectedSequence)
  /\ UNCHANGED packetsLost

\* Wrong: a gap counts as one lost packet.
GetSkippingOne ==
  /\ nextExpectedSequence \notin Held
  /\ Held # {}
  /\ age[Oldest] >= TargetDelay
  /\ packetsLost' = packetsLost + 1
  /\ Release(Oldest)

\* Wrong: a gap is only given up for a full buffer.
GetSkippingWhenFull ==
  /\ nextExpectedSequence \notin Held
  /\ Full
  /\ age[Oldest] >= TargetDelay
  /\ packetsLost' = packetsLost + Distance(nextExpectedSequence, Oldest)
  /\ Release(Oldest)

\* It is missing, and the oldest that is there has been held for the delay.
GetSkipping ==
  /\ nextExpectedSequence \notin Held
  /\ Held # {}
  /\ age[Oldest] >= TargetDelay
  /\ packetsLost' = packetsLost + Distance(nextExpectedSequence, Oldest)
  /\ Release(Oldest)

Get == GetExpected \/ GetSkipping

Tick ==
  /\ age' = [s \in SequenceNumber |->
       IF s \in Held /\ age[s] < TargetDelay THEN age[s] + 1 ELSE age[s]]
  /\ UNCHANGED <<buffer, nextExpectedSequence, playoutStarted, counters, history>>

Next == Get \/ Tick \/ \E i \in Packets : Put(i)

Spec == Init /\ [][Next]_vars

(***************************************************************************)
(* Time passes, and the caller keeps calling get() "once per packet        *)
(* interval" (jitter.py:139).  The network owes nothing, but what it       *)
(* delivers is finite: were packets evicted and delivered again for ever,  *)
(* always just before the call, no call would find one ready.              *)
(***************************************************************************)
FairSpec == Spec /\ WF_vars(Get) /\ WF_vars(Tick)

-------------------------------------------------------------------------------
\* The numbers stand for the packets: what is stored under a number carries it,
\* and everything held lies from the playout position on, less than half a
\* circle ahead, so that a number is never taken for another packet's and
\* nothing that playout has passed is still in the buffer (jitter.py:118, 180).
Window ==
  /\ nextExpectedSequence = IF position = None THEN None ELSE Wire(position)
  /\ \A s \in Held :
       /\ Wire(buffer[s]) = s
       /\ position # None
       /\ position <= buffer[s]
       /\ 2 * (buffer[s] - position) < Modulus

\* The buffer never holds more than max_buffer_size packets.
Bounded == Cardinality(Held) <= MaxBufferSize

\* Every position that playout has passed is counted once, as received or as
\* lost, whatever was evicted, late or duplicated ("counting it in both places
\* would double count", jitter.py:90).
SlotsCountedOnce ==
  playoutStarted => packetsReceived + packetsLost = position - first

\* Packets are released in stream order and none is released twice, across the
\* wrap-around of the numbers (jitter.py:41).
InOrder == [][last' # last => last = None \/ last < last']_last

\* A packet that is held is released or evicted: it never waits for ever behind
\* a missing one ("what keeps a single lost packet from stalling the stream",
\* jitter.py:150).
NothingStuck ==
  \A i \in Packets : i \in HeldPackets ~> i \notin HeldPackets

\* The buffer implements the one that knows the positions.
Playout == INSTANCE PlayoutBuffer WITH
  pending <- [p \in Packets |->
                IF buffer[Wire(p)] = p THEN age[Wire(p)] ELSE None]

ImplementsPlayout == Playout!Spec

===============================================================================
