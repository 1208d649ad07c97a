--------------------------- MODULE MCSignalingServer ---------------------------
(***************************************************************************)
(* Instances of SignalingServer for TLC.                                   *)
(***************************************************************************)
EXTENDS SignalingServer, Naturals, FiniteSets, TLC

CONSTANTS c1, c2, c3, alice, bob, carol, k1, k2

\* Nothing in the specification tells the elements of these sets apart.
Symmetry == Permutations(Users) \cup Permutations(Conns) \cup Permutations(CallIds)

\* The handlers suspended elsewhere than at their receive.
Busy == {c \in Conns : pc[c] \notin {"idle", "recv", "done"}}

\* The handlers inside their loops.
AtWork == {c \in Conns : pc[c] \in InLoop}

\* The call ids in use, the empty one among them.
Used(k)   == IF k = NoId THEN <<k, "unrecorded">> \in lost ELSE heard[k] # {}
CallsUsed == Cardinality({k \in Ids : Used(k)})

\* Nobody is in a call with himself, nor in one without an id.
CallsOfTwo ==
  /\ \A k \in CallIds : dialogs[k] # None => dialogs[k].caller # dialogs[k].callee
  /\ ~Used(NoId)

NobodyRenames   == renamed = {}
SomebodyRemains == \E c \in Conns : sock[c] # "closed"
TwoNames        == \E u \in Users : \A c \in Conns : username[c] # u

\* Where the run with calls ends: once nobody is left to be told; at three handlers
\* busy at once; and
\*  - after a change of names, at a second call id, a third name in use, or a second
\*    busy handler;
\*  - before one, at a third call id; with two ids, everybody is registered first,
\*    nothing is lost but by a loop cut short, and no two of the busy handlers are
\*    inside their loops.
CallsAndRenames ==
  /\ SomebodyRemains
  /\ Cardinality(Busy) <= 2
  /\ ~NobodyRenames => CallsUsed <= 1 /\ TwoNames /\ Cardinality(Busy) <= 1
  /\ NobodyRenames /\ CallsUsed > 1 =>
       /\ CallsUsed = 2
       /\ \A c \in Conns : username[c] # None \/ pc[c] = "done"
       /\ lost \subseteq CallIds \X {"aborted"}
       /\ Busy \cap AtWork # {} => Cardinality(Busy) = 1

===============================================================================
