---------------------------- MODULE SignalingServer ----------------------------
(***************************************************************************)
(* The WebSocket signaling server of voip/server.py, at the granularity of *)
(* its await points.                                                       *)
(*                                                                         *)
(* asyncio runs one task per connection (_handle_connection).  A task runs *)
(* without interruption from one await to the next, so each action below   *)
(* is the code between two awaits, and pc[c] names the await at which the  *)
(* handler of connection c is suspended:                                   *)
(*                                                                         *)
(*   idle     no connection yet           done     the handler returned    *)
(*   recv     the next message of "async for raw in websocket"             *)
(*   sent     a send to another client, or of an error to its own          *)
(*   mint     asyncio.to_thread(_mint_turn_credentials)                    *)
(*   replied  the send of the "registered" reply                           *)
(*   online   a send of _broadcast(user_online)                            *)
(*   offline  a send of _broadcast(user_offline), in "finally"             *)
(*   byes     the send of a synthetic BYE, in "finally"                    *)
(*                                                                         *)
(* Browsers are the environment: they open and close connections and send  *)
(* what client/index.html sends.  A call id is a fresh UUID when a page    *)
(* places its call, but an invite carries the id the page holds when it is *)
(* sent (index.html:674): the empty one if a BYE ended the call meanwhile, *)
(* or that of a call the page was invited to meanwhile.  So here a message *)
(* names any target, and no call or one that its page has heard of.        *)
(***************************************************************************)
CONSTANTS
  Users,    \* the names people register under
  Conns,    \* the connections ever opened; each has one handler task
  CallIds,  \* the call ids ever generated
  NoId,     \* the empty call id of a page that is in no call
  Watched,  \* the connections whose client's user list is observed
  None      \* Python's None, or an absent dictionary key

ASSUME ServerAssumption ==
  /\ None \notin Users \cup Conns
  /\ NoId \notin CallIds
  /\ Watched \subseteq Conns

VARIABLES
  connections,  \* self._connections : name -> connection
  dialogs,      \* self._dialogs : call id -> CallDialog
  sock,         \* state of each connection in the websockets library
  pc,           \* the await at which each handler is suspended
  username,     \* the handler's local "username"
  others,       \* _handle_register's local "others"
  targets,      \* the connection being sent to, or those a broadcast has left
  ended,        \* synthetic BYEs still to be sent: <<other_user, call_id>>
  roster,       \* the user list of each watched client, once it has read its mail
  heard,        \* history: the connections whose page learnt each call id
  live,         \* history: the clients that still believe in each call
  renamed,      \* history: connections that registered under a second name
  lost          \* history: calls the server lost track of, and why

server   == <<connections, dialogs>>
handlers == <<pc, username, others, targets, ended>>
history  == <<heard, live, renamed, lost>>
vars     == <<server, handlers, sock, roster, history>>

\* The handler is inside the "try" of _handle_connection.
InLoop == {"recv", "sent", "mint", "replied", "online"}
PCs    == InLoop \cup {"idle", "offline", "byes", "done"}

Dialogs == [caller : Users, callee : Users, state : {"ringing", "active"}]
Ids     == CallIds \cup {NoId}

ASSUME NoneIsNoDialog == None \notin Dialogs

\* How a party of a call can end up without a BYE: it registered under another
\* name; the loop of synthetic BYEs was cut short; its call was torn down by
\* the previous owner of its name; its entry in the books was overwritten or
\* removed by a message between other people; its call had no id.
Causes == {"renamed", "aborted", "reclaimed", "crossed", "unrecorded"}

TypeOK ==
  /\ connections \in [Users -> Conns \cup {None}]
  /\ dialogs \in [Ids -> Dialogs \cup {None}]
  /\ dialogs[NoId] = None
  /\ sock \in [Conns -> {"new", "open", "closed"}]
  /\ pc \in [Conns -> PCs]
  /\ username \in [Conns -> Users \cup {None}]
  /\ others \in [Conns -> SUBSET Users]
  /\ targets \in [Conns -> SUBSET Conns]
  /\ ended \in [Conns -> SUBSET (Users \X CallIds)]
  /\ roster \in [Conns -> SUBSET Users]
  /\ heard \in [CallIds -> SUBSET Conns]
  /\ live \in [Ids -> SUBSET Conns]
  /\ renamed \in SUBSET Conns
  /\ lost \in SUBSET (Ids \X Causes)

Init ==
  /\ connections = [u \in Users |-> None]
  /\ dialogs     = [k \in Ids |-> None]
  /\ sock        = [c \in Conns |-> "new"]
  /\ pc          = [c \in Conns |-> "idle"]
  /\ username    = [c \in Conns |-> None]
  /\ others      = [c \in Conns |-> {}]
  /\ targets     = [c \in Conns |-> {}]
  /\ ended       = [c \in Conns |-> {}]
  /\ roster      = [c \in Conns |-> {}]
  /\ heard       = [k \in CallIds |-> {}]
  /\ live        = [k \in Ids |-> {}]
  /\ renamed     = {}
  /\ lost        = {}

-------------------------------------------------------------------------------
(***************************************************************************)
(* Connections.  Opening one starts its handler.  A connection closes at   *)
(* any time, cleanly or not; its handler finds out at a later await.       *)
(***************************************************************************)
Connect(c) ==
  /\ pc[c] = "idle"
  /\ pc'   = [pc EXCEPT ![c] = "recv"]
  /\ sock' = [sock EXCEPT ![c] = "open"]
  /\ UNCHANGED <<server, username, others, targets, ended, roster, history>>

\* What the client listed and believed is forgotten with its connection.
Close(c) ==
  /\ sock'   = [sock EXCEPT ![c] = "closed"]
  /\ roster' = [roster EXCEPT ![c] = {}]
  /\ live'   = [k \in Ids |-> live[k] \ {c}]

Disconnect(c) ==
  /\ sock[c] = "open"
  /\ Close(c)
  /\ UNCHANGED <<server, handlers, heard, renamed, lost>>

(***************************************************************************)
(* await websocket.send(...): on an open connection the message is written *)
(* at once and the sender waits for the drain; on a closed one nothing is  *)
(* written.  The send raises ConnectionClosed in the SENDER's handler if   *)
(* the connection is closed, or closes before the drain; otherwise it      *)
(* returns.  (A drain that ends before the close returns before it.)       *)
(***************************************************************************)
Send(c, t) ==
  /\ pc' = [pc EXCEPT ![c] = "sent"]
  /\ targets' = [targets EXCEPT ![c] = {t}]

\* The send that handler c awaits finds its connection closed.
Broken(c) == \E t \in targets[c] : sock[t] = "closed"

\* The connections that receive a message written now to connection t.
Receiver(t) == IF sock[t] = "open" THEN {t} ELSE {}

\* Wrong: a broadcast without "if username != exclude".
AudienceWithSelf(registry, u) == {registry[v] : v \in {w \in Users : registry[w] # None}}

\* The names other than u that are registered.
OtherNames(registry, u) == {v \in Users \ {u} : registry[v] # None}

\* The connections a broadcast excluding name u is sent to.
Audience(registry, u) ==
  {registry[v] : v \in OtherNames(registry, u)}

SendReturns(c) ==
  /\ pc[c] = "sent"
  /\ ~Broken(c)
  /\ pc' = [pc EXCEPT ![c] = "recv"]
  /\ targets' = [targets EXCEPT ![c] = {}]
  /\ UNCHANGED <<server, username, others, ended, sock, roster, history>>

-------------------------------------------------------------------------------
(***************************************************************************)
(* Registration.  The name is checked and stored, and the list of other    *)
(* users is taken, before the await on the credential service; the reply   *)
(* and the announcement are sent after it.                                 *)
(***************************************************************************)

\* Wrong: a name whose connection has closed counts as free at once.
FreeIfClosed(c, u) ==
  connections[u] \in {None, c} \cup {d \in Conns : sock[d] = "closed"}

\* Name u is free for connection c, or c's already.
Free(c, u) == connections[u] \in {None, c}

RegisterRefused(c, u) ==
  /\ pc[c] = "recv"
  /\ ~Free(c, u)
  /\ Send(c, c)
  /\ UNCHANGED <<server, username, others, ended, sock, roster, history>>

\* Wrong: the mapping of the previous name stays.
RegisteredTwice(c, u) == [connections EXCEPT ![u] = c]

\* The registry after connection c, until now "username[c]", takes name u.
Registered(c, u) ==
  [v \in Users |->
     IF v = u THEN c
     ELSE IF v = username[c] /\ connections[v] = c THEN None
     ELSE connections[v]]

\* Call k is in the books under name u.
Involves(k, u) == dialogs[k] # None /\ u \in {dialogs[k].caller, dialogs[k].callee}

\* A synthetic BYE of call k to name u is still to be sent.
ByeDue(k, u) == \E d \in Conns : <<u, k>> \in ended[d]

\* The calls that lose a party if name u is given up for another one.
CallsOf(u) == {k \in Ids : Involves(k, u) \/ ByeDue(k, u)}

Register(c, u) ==
  /\ pc[c] = "recv"
  /\ Free(c, u)
  /\ connections' = Registered(c, u)
  /\ username' = [username EXCEPT ![c] = u]
  /\ others' = [others EXCEPT ![c] = OtherNames(connections', u)]
  /\ pc' = [pc EXCEPT ![c] = "mint"]
  /\ IF username[c] \in {None, u}
     THEN UNCHANGED <<renamed, lost>>
     ELSE /\ renamed' = renamed \cup {c}
          /\ lost' = lost \cup {<<k, "renamed">> : k \in CallsOf(username[c])}
  /\ UNCHANGED <<dialogs, targets, ended, sock, roster, heard, live>>

\* The credentials are in (or failed): send the reply with the earlier list.
RegisterReply(c) ==
  /\ pc[c] = "mint"
  /\ pc' = [pc EXCEPT ![c] = "replied"]
  /\ roster' = IF c \in Watched /\ sock[c] = "open"
               THEN [roster EXCEPT ![c] = others[c]] ELSE roster
  /\ targets' = [targets EXCEPT ![c] = {c}]
  /\ others' = [others EXCEPT ![c] = {}]
  /\ UNCHANGED <<server, username, ended, sock, history>>

\* Wrong: an announcement replaces the list.
AnnouncedAlone(t, u, phase) == IF phase = "online" THEN {u} ELSE roster[t] \ {u}

\* The list of client t after it reads that name u came online or went offline.
Announced(t, u, phase) ==
  IF phase = "online" THEN roster[t] \cup {u} ELSE roster[t] \ {u}

\* The next send of _broadcast, which still has the connections rest to serve
\* and swallows their ConnectionClosed.
BroadcastTo(c, rest, phase) ==
  \E t \in rest :
    /\ pc' = [pc EXCEPT ![c] = phase]
    /\ targets' = [targets EXCEPT ![c] = rest \ {t}]
    /\ roster' = IF t \in Watched /\ sock[t] = "open"
                 THEN [roster EXCEPT ![t] = Announced(t, username[c], phase)]
                 ELSE roster

\* From a send that returned to the next one, or back to the loop.
AnnounceTo(c, rest) ==
  /\ \/ BroadcastTo(c, rest, "online")
     \/ /\ rest = {}
        /\ pc' = [pc EXCEPT ![c] = "recv"]
        /\ targets' = [targets EXCEPT ![c] = {}]
        /\ UNCHANGED roster
  /\ UNCHANGED <<server, username, others, ended, sock, history>>

\* The reply is sent: _broadcast takes its snapshot of the registry.
AnnounceOnline(c) ==
  /\ pc[c] = "replied"
  /\ ~Broken(c)
  /\ AnnounceTo(c, Audience(connections, username[c]))

OnlineSent(c) == pc[c] = "online" /\ AnnounceTo(c, targets[c])

-------------------------------------------------------------------------------
(***************************************************************************)
(* Calls.  The server routes invite, answer, ice, bye and reject by the    *)
(* target's name and forwards them without protection: a target that has   *)
(* closed raises in the sender's handler.                                  *)
(***************************************************************************)

\* Every path that ends in _send_error to the sender itself: invalid JSON, not
\* an object, no name, not registered, unknown type.
ErrorReply(c) ==
  /\ pc[c] = "recv"
  /\ Send(c, c)
  /\ UNCHANGED <<server, username, others, ended, sock, roster, history>>

\* The page of connection c can put call k into a message: it is in no call, or
\* it learnt the id over this connection, or over one that has closed since.
Knows(c, k) ==
  k # NoId => \E d \in heard[k] : d = c \/ sock[d] = "closed"

\* The id has just been generated by the page that sends it.
Fresh(k) == k # NoId /\ heard[k] = {}

\* An invite is the first message that names a new call.
Learn(k, clients) ==
  heard' = IF k = NoId THEN heard ELSE [heard EXCEPT ![k] = @ \cup clients]

\* A message from user u to user v takes call k out of the books, or puts it down
\* anew, and a party of the recorded call is neither u nor v.
Crossed(k, u, v) ==
  IF dialogs[k] # None /\ ~({dialogs[k].caller, dialogs[k].callee} \subseteq {u, v})
  THEN {<<k, "crossed">>} ELSE {}

\* The books with a dialog, or None, under call id k, if it is one.
Filed(k, dialog) ==
  IF k = NoId THEN dialogs ELSE [dialogs EXCEPT ![k] = dialog]

InviteUnknown(c, tgt, k) ==
  /\ pc[c] = "recv"
  /\ username[c] # None
  /\ Knows(c, k) \/ Fresh(k)
  /\ connections[tgt] = None
  /\ Learn(k, {c})
  /\ Send(c, connections[username[c]])
  /\ UNCHANGED <<server, username, others, ended, sock, roster,
                 live, renamed, lost>>

Invite(c, tgt, k) ==
  LET t == connections[tgt] IN
  /\ pc[c] = "recv"
  /\ username[c] # None
  /\ Knows(c, k) \/ Fresh(k)
  /\ t # None
  /\ dialogs' = Filed(k, [caller |-> username[c], callee |-> tgt, state |-> "ringing"])
  /\ Learn(k, {c} \cup Receiver(t))
  /\ live' = [live EXCEPT ![k] = @ \cup Receiver(c) \cup Receiver(t)]
  /\ lost' = lost \cup Crossed(k, username[c], tgt)
                  \cup IF k = NoId THEN {<<k, "unrecorded">>} ELSE {}
  /\ Send(c, t)
  /\ UNCHANGED <<connections, username, others, ended, sock, roster, renamed>>

\* answer and ice to a name that is not registered are dropped: no change.
Answer(c, tgt, k) ==
  /\ pc[c] = "recv"
  /\ username[c] # None
  /\ Knows(c, k)
  /\ connections[tgt] # None
  /\ dialogs' = IF dialogs[k] = None THEN dialogs
                ELSE [dialogs EXCEPT ![k].state = "active"]
  /\ Send(c, connections[tgt])
  /\ UNCHANGED <<connections, username, others, ended, sock, roster, history>>

Ice(c, tgt) ==
  /\ pc[c] = "recv"
  /\ username[c] # None
  /\ connections[tgt] # None
  /\ Send(c, connections[tgt])
  /\ UNCHANGED <<server, username, others, ended, sock, roster, history>>

\* Wrong: the dialog is only marked, not removed.
MarkedOnly(k) ==
  IF dialogs[k] = None THEN dialogs ELSE [dialogs EXCEPT ![k].state = "ended"]

\* The books without call k.
Removed(k) == Filed(k, None)

\* bye and reject: the dialog goes in any case, the message only if the target
\* is registered.
EndCall(c, tgt, k) ==
  LET t == connections[tgt] IN
  /\ pc[c] = "recv"
  /\ username[c] # None
  /\ Knows(c, k)
  /\ dialogs' = Removed(k)
  /\ lost' = lost \cup Crossed(k, username[c], tgt)
  /\ IF t = None
     THEN /\ live' = [live EXCEPT ![k] = @ \ {c}]
          /\ UNCHANGED <<pc, targets>>
     ELSE /\ live' = [live EXCEPT ![k] = @ \ ({c} \cup Receiver(t))]
          /\ Send(c, t)
  /\ UNCHANGED <<connections, username, others, ended, sock, roster, heard, renamed>>

-------------------------------------------------------------------------------
(***************************************************************************)
(* Leaving the loop: ConnectionClosed, raised by the handler's own receive *)
(* or by any send it awaits, leads to "finally".  When a handler returns   *)
(* the library closes its connection.                                      *)
(***************************************************************************)
\* Wrong: only the normal path out of the loop frees the name.
HoldsInReceive(c) ==
  pc[c] = "recv" /\ username[c] # None /\ connections[username[c]] = c

Holds(c) == username[c] # None /\ connections[username[c]] = c

Released(c) == [connections EXCEPT ![username[c]] = None]

HandlerReturns(c) ==
  /\ pc' = [pc EXCEPT ![c] = "done"]
  /\ username' = [username EXCEPT ![c] = None]
  /\ Close(c)

OtherParty(k, u) ==
  IF dialogs[k].caller = u THEN dialogs[k].callee ELSE dialogs[k].caller

\* Wrong: the loop ends at a partner who is not registered.
EndsAtGone(rest, registry) ==
  IF \E e \in rest : registry[e[1]] = None THEN rest ELSE {}

\* The calls left in the loop whose partner is not registered at the moment.
PartnerGone(rest, registry) == {e \in rest : registry[e[1]] = None}

\* The loop of synthetic BYEs, with the calls rest to go: past those whose turn
\* comes while their partner is not registered, for good, up to its next send or
\* to its end.  The order is that of the books; here any.
NextBye(c, rest, registry) ==
  \E skipped \in SUBSET PartnerGone(rest, registry) :
    \/ /\ skipped = rest
       /\ ended' = [ended EXCEPT ![c] = {}]
       /\ targets' = [targets EXCEPT ![c] = {}]
       /\ HandlerReturns(c)
    \/ \E e \in rest \ skipped :
         LET t == registry[e[1]] IN
         /\ t # None
         /\ pc' = [pc EXCEPT ![c] = "byes"]
         /\ ended' = [ended EXCEPT ![c] = rest \ (skipped \cup {e})]
         /\ targets' = [targets EXCEPT ![c] = {t}]
         /\ live' = [live EXCEPT ![e[2]] = @ \ Receiver(t)]
         /\ UNCHANGED <<username, sock, roster>>

\* Wrong: a call that still rings is left alone.
ActiveCallsOf(u) == {k \in Ids : Involves(k, u) /\ dialogs[k].state = "active"}

DialogsOf(u) == {k \in Ids : Involves(k, u)}

\* _cleanup_dialogs forgets every call of the name, whoever holds it by now.
CleanUp(c, registry) ==
  LET u    == username[c]
      mine == DialogsOf(u) IN
  /\ dialogs' = [k \in Ids |-> IF k \in mine THEN None ELSE dialogs[k]]
  /\ lost' = lost \cup
       IF registry[u] = None THEN {} ELSE {<<k, "reclaimed">> : k \in mine}
  /\ NextBye(c, {<<OtherParty(k, u), k>> : k \in mine}, registry)

\* From the "finally" to its first await, which may be the first synthetic BYE
\* if there is nobody to send user_offline to.
Finally(c) ==
  LET audience == Audience(Released(c), username[c]) IN
  /\ IF Holds(c)
     THEN /\ connections' = Released(c)
          /\ IF audience = {}
             THEN CleanUp(c, Released(c))
             ELSE /\ BroadcastTo(c, audience, "offline")
                  /\ UNCHANGED <<dialogs, username, ended, sock, live, lost>>
     ELSE /\ targets' = [targets EXCEPT ![c] = {}]
          /\ HandlerReturns(c)
          /\ UNCHANGED <<connections, dialogs, ended, lost>>
  /\ UNCHANGED <<others, heard, renamed>>

\* The receive raises once the messages that came before the close are read.
RecvRaises(c) ==
  /\ pc[c] = "recv"
  /\ sock[c] = "closed"
  /\ Finally(c)

SendRaises(c) ==
  /\ pc[c] \in {"sent", "replied"}
  /\ Broken(c)
  /\ Finally(c)

OfflineSent(c) ==
  /\ pc[c] = "offline"
  /\ \/ /\ BroadcastTo(c, targets[c], "offline")
        /\ UNCHANGED <<dialogs, username, ended, sock, live, lost>>
     \/ targets[c] = {} /\ CleanUp(c, connections)
  /\ UNCHANGED <<connections, others, heard, renamed>>

ByeSent(c) ==
  /\ pc[c] = "byes"
  /\ ~Broken(c)
  /\ NextBye(c, ended[c], connections)
  /\ UNCHANGED <<server, others, heard, renamed, lost>>

\* The partner has closed: the send raises out of "finally" and the rest of
\* the loop is lost.
ByeRaises(c) ==
  /\ pc[c] = "byes"
  /\ Broken(c)
  /\ ended' = [ended EXCEPT ![c] = {}]
  /\ targets' = [targets EXCEPT ![c] = {}]
  /\ lost' = lost \cup {<<e[2], "aborted">> : e \in ended[c]}
  /\ HandlerReturns(c)
  /\ UNCHANGED <<server, others, heard, renamed>>

-------------------------------------------------------------------------------
\* Steps of c's handler that nothing but the scheduler and I/O decides.
HandlerStep(c) ==
  \/ SendReturns(c) \/ SendRaises(c)
  \/ RegisterReply(c) \/ AnnounceOnline(c) \/ OnlineSent(c)
  \/ OfflineSent(c) \/ ByeSent(c) \/ ByeRaises(c)

\* Messages that c's client chose to send, taken up by the handler.
ClientMessage(c) ==
  \/ ErrorReply(c)
  \/ \E u \in Users : RegisterRefused(c, u) \/ Register(c, u)
  \/ \E u \in Users : Ice(c, u)
  \/ \E u \in Users, k \in Ids :
       InviteUnknown(c, u, k) \/ Invite(c, u, k) \/ Answer(c, u, k) \/ EndCall(c, u, k)

Next ==
  \E c \in Conns :
    Connect(c) \/ Disconnect(c) \/ ClientMessage(c) \/ HandlerStep(c) \/ RecvRaises(c)

Spec == Init /\ [][Next]_vars

(***************************************************************************)
(* The event loop runs every ready task and every awaited I/O completes or *)
(* fails, so handler steps are weakly fair.  A closed connection has only  *)
(* finitely many buffered messages left, so its receive raises in the end: *)
(* strong fairness, since each buffered message briefly disables it.       *)
(* Clients owe nothing.                                                    *)
(***************************************************************************)
Fairness == \A c \in Conns : WF_vars(HandlerStep(c)) /\ SF_vars(RecvRaises(c))

FairSpec == Spec /\ Fairness

-------------------------------------------------------------------------------
(***************************************************************************)
(* Safety.                                                                 *)
(***************************************************************************)

\* The registry and the handlers agree: a name maps to a connection exactly
\* while that connection's handler serves it under that name.  In particular a
\* registered sender always finds its own connection (server.py:408).
RegistryOwned ==
  \A u \in Users, c \in Conns :
    connections[u] = c <=> pc[c] \in InLoop /\ username[c] = u

\* No call outlives its parties in the books: each party of a recorded call is
\* registered, or a handler that is about to clean up after it has not got
\* there yet, or it changed its name during the call (server.py:288, 330).
Accounted(k, u) ==
  \/ connections[u] # None
  \/ \E c \in Conns : pc[c] = "offline" /\ username[c] = u
  \/ <<k, "renamed">> \in lost

DialogsAccounted ==
  \A k \in Ids, u \in Users : Involves(k, u) => Accounted(k, u)

\* The client of c has been told that it is registered.
Confirmed(c) ==
  /\ sock[c] = "open"
  /\ pc[c] \in InLoop \ {"mint"}
  /\ username[c] # None

\* A client never lists itself, whatever announcements of its name are still
\* under way (server.py:355, 571).
SelfNotListed ==
  \A c \in Watched : Confirmed(c) => username[c] \notin roster[c]

Lists(c, d) == username[d] \in roster[c]

\* Two registered clients can always find each other one way: however their
\* registrations interleave, and whatever announcements are still under way, at
\* least one of them lists the other, unless one of them changed its name.
NoMutualBlindness ==
  \A c, d \in Watched \ renamed :
    c # d /\ Confirmed(c) /\ Confirmed(d) => Lists(c, d) \/ Lists(d, c)

\* The connected client of c, whose handler serves it, thinks it is in call k.
Believes(c, k) == c \in live[k] /\ sock[c] = "open" /\ pc[c] \in InLoop

\* The server lost track of call k in one of the ways given.
LostBy(k, causes) == \E w \in causes : <<k, w>> \in lost

\* When a call leaves the books every connected party has been or is being told:
\* a connected client that believes in a call is one of its parties in the books,
\* or a BYE to it is due, or the server lost track of the call in one of the ways
\* Causes names (server.py:329-339, 413, 512, 577).
PartnersTold ==
  \A c \in Conns, k \in Ids :
    Believes(c, k) =>
      Involves(k, username[c]) \/ ByeDue(k, username[c]) \/ LostBy(k, Causes)

(***************************************************************************)
(* Refinement and liveness.                                                *)
(***************************************************************************)
Directory == INSTANCE NameRegistry WITH owner <- connections

\* The handlers implement the directory: nobody takes over a name that another
\* connection holds, and a handler that ends late evicts nobody (278, 316).
ImplementsRegistry == Directory!Spec

\* A name is freed once its connection has closed, even if the handler was
\* waiting for credentials or for a slow reader when it closed.
NamesAreFreed ==
  \A c \in Conns : sock[c] = "closed" ~> \A u \in Users : connections[u] # c

\* A call of a name nobody holds leaves the books, or somebody takes the name.
CallsAreForgotten ==
  \A k \in Ids, u \in Users :
    (Involves(k, u) /\ connections[u] = None)
      ~> (~Involves(k, u) \/ connections[u] # None \/ <<k, "renamed">> \in lost)

(***************************************************************************)
(* What the code's comments say, and the code does not do.                 *)
(***************************************************************************)

\* Nothing is under way in the server and nobody is about to notice a close.
Quiet ==
  \A c \in Conns : \/ pc[c] \in {"idle", "done"}
                   \/ pc[c] = "recv" /\ sock[c] = "open"

\* "Confirm registration with list of other online users" (server.py:385):
\* once the server is quiet a client lists those who are registered, and nobody
\* who is not.
ListsOnlineUsers ==
  Quiet => \A c \in Watched : Confirmed(c) =>
             roster[c] = OtherNames(connections, username[c])

\* No connected client believes in a call that has left the books, with no BYE to it
\* due, unless the server lost track of the call in one of the ways given.
NotifiedUnless(causes) ==
  \A c \in Conns, k \in Ids :
    Believes(c, k) =>
      dialogs[k] # None \/ ByeDue(k, username[c]) \/ LostBy(k, causes)

\* "On disconnect ... cleans up the user's registration and notifies active
\* call partners with a synthetic BYE" (server.py:252), were every party to keep its
\* name and every call to have an id of its own: the loop of BYEs that is cut short
\* refutes it.
PartnersToldDespiteClosedPartner == NotifiedUnless(Causes \ {"aborted"})

\* The same claim, were the loop never cut short: a party that registers under
\* another name during its call refutes it.
PartnersToldDespiteRename == NotifiedUnless(Causes \ {"renamed"})

===============================================================================
