------------------------------ MODULE NameRegistry ------------------------------
(***************************************************************************)
(* What the signaling server promises about names, without its handlers,   *)
(* awaits and broadcasts: a directory in which every name has at most one  *)
(* owner, every connection owns at most one name, a name changes hands     *)
(* only by becoming free first, and a connection that registers again      *)
(* gives up its previous name in the same step.                            *)
(*                                                                         *)
(* SignalingServer implements this specification with                      *)
(* owner <- connections (server.py, self._connections).                    *)
(***************************************************************************)
CONSTANTS
  Users,  \* the names people register under
  Conns,  \* the WebSocket connections
  None    \* "absent"

VARIABLE owner

TypeOK == owner \in [Users -> Conns \cup {None}]

Init == owner = [u \in Users |-> None]

\* Connection c becomes the owner of the free name u and of no other name.
Claim(c, u) ==
  /\ owner[u] = None
  /\ owner' = [v \in Users |->
                 IF v = u THEN c ELSE IF owner[v] = c THEN None ELSE owner[v]]

\* Connection c gives up the name it owns.
Release(c) ==
  \E u \in Users : owner[u] = c /\ owner' = [owner EXCEPT ![u] = None]

Next == \E c \in Conns : Release(c) \/ \E u \in Users : Claim(c, u)

Spec == Init /\ [][Next]_owner

===============================================================================
