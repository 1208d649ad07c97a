------------------------------ MODULE MCCallSetup ------------------------------
(***************************************************************************)
(* Instances of CallSetup for TLC.                                         *)
(***************************************************************************)
EXTENDS CallSetup, TLC

CONSTANTS alice, bob

Symmetry == Permutations(Clients)

\* What disturbs a client once does so for good, and the properties speak of
\* clients that have one call at a time, or of two whose calls are not cut short.
OneIsOrderly == \E c \in Clients : OneCallAtATime(c)
TwoAreCalm   == \E c \in Clients, d \in Clients : c # d /\ Calm(c) /\ Calm(d)
Undisturbed  == disturbed = {}

\* Candidates matter to no property once a WebSocket has closed.
NobodyGathered == \A p \in Connections : ~conn[p].gathered

\* Where the run ends: two calls with every mishap that leaves one client orderly;
\* and, where no call overlaps or is cut short, two calls and two closed
\* WebSockets, or three calls and none.
Rounds ==
  \/ calls <= 2 /\ drops = 0 /\ OneIsOrderly
  \/ calls <= 2 /\ TwoAreCalm /\ NobodyGathered
  \/ drops = 0 /\ TwoAreCalm

===============================================================================
