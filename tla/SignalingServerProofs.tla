------------------------ MODULE SignalingServerProofs ------------------------
(***************************************************************************)
(* Proofs about SignalingServer, for any sets of users, connections and    *)
(* call ids.                                                               *)
(*                                                                         *)
(* The inductive invariant IInv is the conjunction of the type invariant,  *)
(* the agreement of registry and handlers, the places where a handler has  *)
(* a name, and the accounting of calls.  The first three need each other:  *)
(* that the error reply of an unknown target has a connection to go to is  *)
(* RegistryOwned, which needs that a fresh handler has no name.            *)
(***************************************************************************)
EXTENDS SignalingServer, TLAPS

\* A handler has no name before its first message, and has one at each await
\* that follows a registration or a release.
Named ==
  \A c \in Conns :
    /\ pc[c] = "idle" => username[c] = None
    /\ pc[c] \in {"mint", "replied", "online", "offline"} => username[c] # None

IInv == TypeOK /\ RegistryOwned /\ Named /\ DialogsAccounted

-----------------------------------------------------------------------------
\* A broadcast goes to connections only, whatever registry it is computed from.
LEMMA AudienceType ==
  ASSUME NEW registry \in [Users -> Conns \cup {None}], NEW u
  PROVE  Audience(registry, u) \subseteq Conns
BY DEF Audience, OtherNames

\* Taking a name keeps the registry a registry.
LEMMA RegisteredType ==
  ASSUME TypeOK, NEW c \in Conns, NEW u \in Users
  PROVE  Registered(c, u) \in [Users -> Conns \cup {None}]
BY DEF TypeOK, Registered

\* So does giving up a name.
LEMMA ReleasedType ==
  ASSUME TypeOK, NEW c \in Conns
  PROVE  Released(c) \in [Users -> Conns \cup {None}]
BY DEF TypeOK, Released

\* A broadcast step only disturbs its own handler's place and the lists.
LEMMA BroadcastType ==
  ASSUME TypeOK, NEW c \in Conns, NEW rest \in SUBSET Conns,
         NEW phase \in {"online", "offline"}, username[c] \in Users,
         BroadcastTo(c, rest, phase)
  PROVE  /\ pc' \in [Conns -> PCs]
         /\ targets' \in [Conns -> SUBSET Conns]
         /\ roster' \in [Conns -> SUBSET Users]
BY DEF TypeOK, BroadcastTo, Announced, PCs, InLoop

\* What the end of a handler leaves behind has the right types.
LEMMA HandlerReturnsType ==
  ASSUME TypeOK, NEW c \in Conns, HandlerReturns(c)
  PROVE  /\ pc' \in [Conns -> PCs]
         /\ username' \in [Conns -> Users \cup {None}]
         /\ sock' \in [Conns -> {"new", "open", "closed"}]
         /\ roster' \in [Conns -> SUBSET Users]
         /\ live' \in [Ids -> SUBSET Conns]
BY DEF TypeOK, HandlerReturns, Close, PCs, InLoop

\* The same of one step of the loop of synthetic BYEs.
LEMMA NextByeType ==
  ASSUME TypeOK, NEW c \in Conns, NEW rest \in SUBSET (Users \X CallIds),
         NEW registry \in [Users -> Conns \cup {None}],
         NextBye(c, rest, registry)
  PROVE  /\ pc' \in [Conns -> PCs]
         /\ username' \in [Conns -> Users \cup {None}]
         /\ targets' \in [Conns -> SUBSET Conns]
         /\ ended' \in [Conns -> SUBSET (Users \X CallIds)]
         /\ sock' \in [Conns -> {"new", "open", "closed"}]
         /\ roster' \in [Conns -> SUBSET Users]
         /\ live' \in [Ids -> SUBSET Conns]
<1>1. CASE /\ ended' = [ended EXCEPT ![c] = {}]
           /\ targets' = [targets EXCEPT ![c] = {}]
           /\ HandlerReturns(c)
  BY <1>1, HandlerReturnsType DEF TypeOK
<1>2. ASSUME NEW skipped, NEW e \in rest \ skipped, registry[e[1]] # None,
             pc' = [pc EXCEPT ![c] = "byes"],
             ended' = [ended EXCEPT ![c] = rest \ (skipped \cup {e})],
             targets' = [targets EXCEPT ![c] = {registry[e[1]]}],
             live' = [live EXCEPT ![e[2]] = @ \ Receiver(registry[e[1]])],
             UNCHANGED <<username, sock, roster>>
      PROVE  /\ pc' \in [Conns -> PCs]
             /\ username' \in [Conns -> Users \cup {None}]
             /\ targets' \in [Conns -> SUBSET Conns]
             /\ ended' \in [Conns -> SUBSET (Users \X CallIds)]
             /\ sock' \in [Conns -> {"new", "open", "closed"}]
             /\ roster' \in [Conns -> SUBSET Users]
             /\ live' \in [Ids -> SUBSET Conns]
  <2>1. e[1] \in Users /\ e[2] \in Ids
    BY DEF Ids
  <2>2. registry[e[1]] \in Conns
    BY <1>2, <2>1
  <2> QED
    BY <1>2, <2>1, <2>2 DEF TypeOK, PCs, InLoop
<1> QED
  BY <1>1, <1>2 DEF NextBye

\* The same of the whole clean-up after a name.
LEMMA CleanUpType ==
  ASSUME TypeOK, NEW c \in Conns, username[c] \in Users,
         NEW registry \in [Users -> Conns \cup {None}],
         CleanUp(c, registry)
  PROVE  /\ dialogs' \in [Ids -> Dialogs \cup {None}] /\ dialogs'[NoId] = None
         /\ lost' \in SUBSET (Ids \X Causes)
         /\ pc' \in [Conns -> PCs]
         /\ username' \in [Conns -> Users \cup {None}]
         /\ targets' \in [Conns -> SUBSET Conns]
         /\ ended' \in [Conns -> SUBSET (Users \X CallIds)]
         /\ sock' \in [Conns -> {"new", "open", "closed"}]
         /\ roster' \in [Conns -> SUBSET Users]
         /\ live' \in [Ids -> SUBSET Conns]
<1> DEFINE due == {<<OtherParty(k, username[c]), k>> : k \in DialogsOf(username[c])}
<1>1. due \in SUBSET (Users \X CallIds)
  <2>1. ASSUME NEW k \in DialogsOf(username[c])
        PROVE  k \in CallIds /\ OtherParty(k, username[c]) \in Users
    BY <2>1 DEF TypeOK, DialogsOf, Involves, OtherParty, Dialogs, Ids
  <2> QED
    BY <2>1
<1>2. NextBye(c, due, registry)
  BY DEF CleanUp
<1>3. dialogs' \in [Ids -> Dialogs \cup {None}] /\ dialogs'[NoId] = None
  BY DEF CleanUp, TypeOK, Ids
<1>4. lost' \in SUBSET (Ids \X Causes)
  BY DEF CleanUp, TypeOK, DialogsOf, Causes
<1> HIDE DEF due
<1> QED
  BY <1>1, <1>2, <1>3, <1>4, NextByeType

\* What is put under a call id, or removed from under it, leaves the books books.
LEMMA FiledType ==
  ASSUME TypeOK, NEW k \in Ids, NEW dialog \in Dialogs \cup {None}
  PROVE  Filed(k, dialog) \in [Ids -> Dialogs \cup {None}] /\ Filed(k, dialog)[NoId] = None
BY DEF TypeOK, Filed, Ids

\* Connections learn call ids.
LEMMA LearnType ==
  ASSUME TypeOK, NEW k \in Ids, NEW clients \in SUBSET Conns, Learn(k, clients)
  PROVE  heard' \in [CallIds -> SUBSET Conns]
BY DEF TypeOK, Learn, Ids

\* The handler's own name and connection, where the registry has them.
LEMMA OwnName ==
  ASSUME TypeOK, RegistryOwned, NEW c \in Conns,
         pc[c] \in InLoop, username[c] # None
  PROVE  username[c] \in Users /\ connections[username[c]] = c
BY DEF TypeOK, RegistryOwned

-----------------------------------------------------------------------------
\* Types are preserved on the way out of the loop.
LEMMA FinallyType ==
  ASSUME TypeOK, NEW c \in Conns, Finally(c)
  PROVE  TypeOK'
<1> DEFINE audience == Audience(Released(c), username[c])
<1> USE DEF Finally
<1>1. CASE Holds(c)
  <2>1. username[c] \in Users
    BY <1>1 DEF Holds, TypeOK
  <2>2. Released(c) \in [Users -> Conns \cup {None}]
    BY ReleasedType
  <2>3. connections' \in [Users -> Conns \cup {None}]
    BY <1>1, <2>2
  <2>4. audience \subseteq Conns
    BY <2>2, AudienceType
  <2>5. CASE audience = {}
    <3>1. CleanUp(c, Released(c))
      BY <1>1, <2>5
    <3> QED
      BY <1>1, <2>1, <2>2, <2>3, <2>5, <3>1, CleanUpType DEF TypeOK
  <2>6. CASE audience # {}
    <3>1. BroadcastTo(c, audience, "offline")
      BY <1>1, <2>6
    <3>2. UNCHANGED <<dialogs, username, ended, sock, live, lost>>
      BY <1>1, <2>6
    <3> HIDE DEF audience
    <3>3. /\ pc' \in [Conns -> PCs]
          /\ targets' \in [Conns -> SUBSET Conns]
          /\ roster' \in [Conns -> SUBSET Users]
      BY <2>1, <2>4, <3>1, BroadcastType
    <3> QED
      BY <2>3, <3>2, <3>3 DEF TypeOK
  <2> QED
    BY <2>5, <2>6
<1>2. CASE ~Holds(c)
  <2>1. HandlerReturns(c) /\ UNCHANGED <<connections, dialogs, ended, lost>>
    BY <1>2
  <2>2. targets' = [targets EXCEPT ![c] = {}]
    BY <1>2
  <2> QED
    BY <2>1, <2>2, HandlerReturnsType DEF TypeOK
<1> QED
  BY <1>1, <1>2

\* A step of an announcement keeps the types, whoever is left to be told.
LEMMA AnnounceType ==
  ASSUME TypeOK, NEW c \in Conns, username[c] # None,
         NEW rest \in SUBSET Conns, AnnounceTo(c, rest)
  PROVE  TypeOK'
<1>1. CASE BroadcastTo(c, rest, "online")
  <2>1. username[c] \in Users
    BY DEF TypeOK
  <2>2. /\ pc' \in [Conns -> PCs]
        /\ targets' \in [Conns -> SUBSET Conns]
        /\ roster' \in [Conns -> SUBSET Users]
    BY <1>1, <2>1, BroadcastType
  <2> QED
    BY <2>2 DEF AnnounceTo, TypeOK, server, history
<1>2. CASE ~BroadcastTo(c, rest, "online")
  BY <1>2 DEF AnnounceTo, TypeOK, server, history, PCs, InLoop
<1> QED
  BY <1>1, <1>2

\* Every step keeps the types.
LEMMA TypeStep ==
  ASSUME IInv, [Next]_vars
  PROVE  TypeOK'
<1> USE DEF IInv
<1>1. ASSUME NEW c \in Conns, Connect(c)
      PROVE  TypeOK'
  BY <1>1 DEF Connect, TypeOK, PCs, InLoop, server, history
<1>2. ASSUME NEW c \in Conns, Disconnect(c)
      PROVE  TypeOK'
  BY <1>2 DEF Disconnect, Close, TypeOK, server, handlers
<1>3. ASSUME NEW c \in Conns, ErrorReply(c)
      PROVE  TypeOK'
  BY <1>3 DEF ErrorReply, Send, TypeOK, PCs, InLoop, server, history
<1>4. ASSUME NEW c \in Conns, NEW u \in Users, RegisterRefused(c, u)
      PROVE  TypeOK'
  BY <1>4 DEF RegisterRefused, Send, TypeOK, PCs, InLoop, server, history
<1>5. ASSUME NEW c \in Conns, NEW u \in Users, Register(c, u)
      PROVE  TypeOK'
  <2>1. connections' \in [Users -> Conns \cup {None}]
    BY <1>5, RegisteredType DEF Register
  <2>2. OtherNames(connections', u) \subseteq Users
    BY DEF OtherNames
  <2>3. renamed' \in SUBSET Conns /\ lost' \in SUBSET (Ids \X Causes)
    BY <1>5 DEF Register, TypeOK, CallsOf, Causes
  <2>4. username' \in [Conns -> Users \cup {None}] /\ pc' \in [Conns -> PCs]
    BY <1>5 DEF Register, TypeOK, PCs, InLoop
  <2>5. others' \in [Conns -> SUBSET Users]
    BY <1>5, <2>2 DEF Register, TypeOK
  <2> QED
    BY <1>5, <2>1, <2>3, <2>4, <2>5 DEF Register, TypeOK
<1>6. ASSUME NEW c \in Conns, NEW u \in Users, NEW k \in Ids,
             InviteUnknown(c, u, k)
      PROVE  TypeOK'
  <2>1. username[c] \in Users /\ connections[username[c]] = c
    BY <1>6, OwnName DEF InviteUnknown, InLoop
  <2>2. heard' \in [CallIds -> SUBSET Conns]
    BY <1>6, LearnType DEF InviteUnknown
  <2> QED
    BY <1>6, <2>1, <2>2 DEF InviteUnknown, Send, TypeOK, PCs, InLoop, server
<1>7. ASSUME NEW c \in Conns, NEW u \in Users, NEW k \in Ids, Invite(c, u, k)
      PROVE  TypeOK'
  <2>1. username[c] \in Users /\ connections[u] \in Conns
    BY <1>7 DEF Invite, TypeOK
  <2>2. heard' \in [CallIds -> SUBSET Conns]
    <3>1. {c} \cup Receiver(connections[u]) \in SUBSET Conns
      BY <2>1 DEF Receiver
    <3> QED
      BY <1>7, <3>1, LearnType DEF Invite
  <2>3. dialogs' \in [Ids -> Dialogs \cup {None}] /\ dialogs'[NoId] = None
    <3>1. [caller |-> username[c], callee |-> u, state |-> "ringing"] \in Dialogs
      BY <2>1 DEF Dialogs
    <3> QED
      BY <1>7, <3>1, FiledType DEF Invite
  <2>4. live' \in [Ids -> SUBSET Conns]
    BY <1>7, <2>1 DEF Invite, TypeOK, Receiver
  <2>5. lost' \in SUBSET (Ids \X Causes)
    BY <1>7 DEF Invite, TypeOK, Crossed, Causes
  <2> QED
    BY <1>7, <2>1, <2>2, <2>3, <2>4, <2>5 DEF Invite, Send, TypeOK, PCs, InLoop
<1>8. ASSUME NEW c \in Conns, NEW u \in Users, NEW k \in Ids, Answer(c, u, k)
      PROVE  TypeOK'
  <2>1. connections[u] \in Conns
    BY <1>8 DEF Answer, TypeOK
  <2>2. dialogs' \in [Ids -> Dialogs \cup {None}] /\ dialogs'[NoId] = None
    BY <1>8 DEF Answer, TypeOK, Dialogs, Ids
  <2> QED
    BY <1>8, <2>1, <2>2 DEF Answer, Send, TypeOK, PCs, InLoop, history
<1>9. ASSUME NEW c \in Conns, NEW u \in Users, Ice(c, u)
      PROVE  TypeOK'
  <2>1. connections[u] \in Conns
    BY <1>9 DEF Ice, TypeOK
  <2> QED
    BY <1>9, <2>1 DEF Ice, Send, TypeOK, PCs, InLoop, server, history
<1>10. ASSUME NEW c \in Conns, NEW u \in Users, NEW k \in Ids, EndCall(c, u, k)
       PROVE  TypeOK'
  <2>1. connections[u] \in Conns \cup {None}
    BY DEF TypeOK
  <2>2. dialogs' \in [Ids -> Dialogs \cup {None}] /\ dialogs'[NoId] = None
    BY <1>10, FiledType DEF EndCall, Removed
  <2>3. lost' \in SUBSET (Ids \X Causes)
    BY <1>10 DEF EndCall, TypeOK, Crossed, Causes
  <2>4. live' \in [Ids -> SUBSET Conns]
    BY <1>10, <2>1 DEF EndCall, TypeOK, Receiver
  <2>5. pc' \in [Conns -> PCs] /\ targets' \in [Conns -> SUBSET Conns]
    BY <1>10, <2>1 DEF EndCall, Send, TypeOK, PCs, InLoop
  <2>6. UNCHANGED <<connections, username, others, ended, sock, roster, heard, renamed>>
    BY <1>10 DEF EndCall
  <2> QED
    BY <2>2, <2>3, <2>4, <2>5, <2>6 DEF TypeOK
<1>11. ASSUME NEW c \in Conns, SendReturns(c)
       PROVE  TypeOK'
  BY <1>11 DEF SendReturns, TypeOK, PCs, InLoop, server, history
<1>12. ASSUME NEW c \in Conns, Finally(c)
       PROVE  TypeOK'
  BY <1>12, FinallyType
<1>13. ASSUME NEW c \in Conns, RegisterReply(c)
       PROVE  TypeOK'
  BY <1>13 DEF RegisterReply, TypeOK, PCs, InLoop, server, history
<1>14. ASSUME NEW c \in Conns, AnnounceOnline(c)
       PROVE  TypeOK'
  <2>1. Audience(connections, username[c]) \in SUBSET Conns
    BY AudienceType DEF TypeOK
  <2> QED
    BY <1>14, <2>1, AnnounceType DEF AnnounceOnline, Named
<1>15. ASSUME NEW c \in Conns, OnlineSent(c)
       PROVE  TypeOK'
  BY <1>15, AnnounceType DEF OnlineSent, Named, TypeOK
<1>16. ASSUME NEW c \in Conns, OfflineSent(c)
       PROVE  TypeOK'
  <2>1. username[c] \in Users /\ targets[c] \in SUBSET Conns
    BY <1>16 DEF OfflineSent, Named, TypeOK
  <2>2. CASE /\ BroadcastTo(c, targets[c], "offline")
             /\ UNCHANGED <<dialogs, username, ended, sock, live, lost>>
    <3>1. /\ pc' \in [Conns -> PCs]
          /\ targets' \in [Conns -> SUBSET Conns]
          /\ roster' \in [Conns -> SUBSET Users]
      BY <2>1, <2>2, BroadcastType
    <3> QED
      BY <1>16, <2>2, <3>1 DEF OfflineSent, TypeOK
  <2>3. CASE CleanUp(c, connections)
    BY <1>16, <2>1, <2>3, CleanUpType DEF OfflineSent, TypeOK
  <2> QED
    BY <1>16, <2>2, <2>3 DEF OfflineSent
<1>17. ASSUME NEW c \in Conns, ByeSent(c)
       PROVE  TypeOK'
  BY <1>17, NextByeType DEF ByeSent, TypeOK, server
<1>18. ASSUME NEW c \in Conns, ByeRaises(c)
       PROVE  TypeOK'
  <2>1. lost' \in SUBSET (Ids \X Causes)
    BY <1>18 DEF ByeRaises, TypeOK, Causes, Ids
  <2> QED
    BY <1>18, <2>1, HandlerReturnsType DEF ByeRaises, TypeOK, server
<1>19. CASE UNCHANGED vars
  BY <1>19 DEF vars, server, handlers, history, TypeOK
<1> QED
  BY <1>1, <1>2, <1>3, <1>4, <1>5, <1>6, <1>7, <1>8, <1>9, <1>10, <1>11, <1>12,
     <1>13, <1>14, <1>15, <1>16, <1>17, <1>18, <1>19
  DEF Next, ClientMessage, HandlerStep, RecvRaises, SendRaises

-----------------------------------------------------------------------------
\* Only the handler of c moves.
OthersStay(c) ==
  \A d \in Conns \ {c} : pc'[d] = pc[d] /\ username'[d] = username[d]

\* Registry and handlers still agree after a step of c within the loop, or
\* outside it, that leaves the registry and the names alone.
LEMMA StayOwned ==
  ASSUME RegistryOwned, Named, NEW c \in Conns, OthersStay(c),
         connections' = connections,
         \/ pc[c] \in InLoop /\ pc'[c] \in InLoop /\ username'[c] = username[c]
         \/ pc[c] \notin InLoop /\ pc'[c] \notin InLoop,
         pc'[c] = "idle" => username'[c] = None,
         pc'[c] \in {"mint", "replied", "online", "offline"} => username'[c] # None
  PROVE  RegistryOwned' /\ Named'
BY DEF RegistryOwned, Named, OthersStay

\* ... after c's handler leaves the loop and gives up the name it holds.
LEMMA LeaveOwned ==
  ASSUME TypeOK, RegistryOwned, Named, NEW c \in Conns, OthersStay(c),
         pc[c] \in InLoop, pc'[c] \in {"offline", "byes", "done"},
         connections' = IF Holds(c) THEN Released(c) ELSE connections,
         pc'[c] = "offline" => username'[c] # None
  PROVE  RegistryOwned' /\ Named'
<1> USE ServerAssumption DEF TypeOK, RegistryOwned, OthersStay
<1>1. Named'
  BY DEF Named
<1>2. ASSUME NEW u \in Users, NEW d \in Conns
      PROVE  connections'[u] = d <=> pc'[d] \in InLoop /\ username'[d] = u
  <2>1. CASE d = c
    BY <2>1 DEF Holds, Released, InLoop
  <2>2. CASE d # c
    BY <2>2 DEF Holds, Released
  <2> QED
    BY <2>1, <2>2
<1> QED
  BY <1>1, <1>2

\* The ways a handler moves in the parts of finally.
LEMMA ReturnMoves ==
  ASSUME TypeOK, NEW c \in Conns, HandlerReturns(c)
  PROVE  OthersStay(c) /\ pc'[c] = "done"
BY DEF HandlerReturns, OthersStay, TypeOK

LEMMA NextByeMoves ==
  ASSUME TypeOK, NEW c \in Conns, NEW rest, NEW registry,
         NextBye(c, rest, registry)
  PROVE  OthersStay(c) /\ pc'[c] \in {"byes", "done"}
BY ReturnMoves DEF NextBye, OthersStay, TypeOK

LEMMA BroadcastMoves ==
  ASSUME TypeOK, NEW c \in Conns, NEW rest, NEW phase,
         BroadcastTo(c, rest, phase), username' = username
  PROVE  OthersStay(c) /\ pc'[c] = phase
BY DEF BroadcastTo, OthersStay, TypeOK

\* Where finally takes the handler, and what it does to the registry.
LEMMA FinallyMoves ==
  ASSUME TypeOK, NEW c \in Conns, Finally(c)
  PROVE  /\ OthersStay(c)
         /\ pc'[c] \in {"offline", "byes", "done"}
         /\ connections' = IF Holds(c) THEN Released(c) ELSE connections
         /\ pc'[c] = "offline" => username'[c] = username[c] /\ Holds(c)
<1>1. CASE ~Holds(c)
  BY <1>1, ReturnMoves DEF Finally
<1>2. CASE Holds(c) /\ Audience(Released(c), username[c]) = {}
  <2>1. CleanUp(c, Released(c)) /\ connections' = Released(c)
    BY <1>2 DEF Finally
  <2> QED
    BY <1>2, <2>1, NextByeMoves DEF CleanUp
<1>3. CASE Holds(c) /\ Audience(Released(c), username[c]) # {}
  BY <1>3, BroadcastMoves DEF Finally
<1> QED
  BY <1>1, <1>2, <1>3

\* Every step keeps the registry and the handlers in agreement.
LEMMA OwnedStep ==
  ASSUME IInv, [Next]_vars
  PROVE  RegistryOwned' /\ Named'
<1> USE DEF IInv
<1>1. ASSUME NEW c \in Conns, Connect(c)
      PROVE  RegistryOwned' /\ Named'
  BY <1>1, ServerAssumption
  DEF Connect, TypeOK, RegistryOwned, Named, InLoop, server
<1>2. ASSUME NEW c \in Conns, Disconnect(c)
      PROVE  RegistryOwned' /\ Named'
  BY <1>2 DEF Disconnect, RegistryOwned, Named, server, handlers
<1>3. ASSUME NEW c \in Conns, pc[c] \in InLoop, UNCHANGED <<connections, username>>,
             \/ Send(c, c)
             \/ \E t \in Conns : Send(c, t)
             \/ pc' = [pc EXCEPT ![c] = "recv"]
             \/ UNCHANGED pc
             \/ pc[c] = "mint" /\ pc' = [pc EXCEPT ![c] = "replied"]
      PROVE  RegistryOwned' /\ Named'
  <2>1. OthersStay(c) /\ pc'[c] \in {pc[c], "recv", "sent", "replied"}
    BY <1>3 DEF OthersStay, Send, TypeOK
  <2>2. pc'[c] = "replied" => username[c] # None
    BY <1>3, <2>1 DEF Named, Send, TypeOK
  <2> QED
    BY <1>3, <2>1, <2>2, StayOwned DEF InLoop, Named
<1>4. ASSUME NEW c \in Conns, NEW u \in Users, Register(c, u)
      PROVE  RegistryOwned' /\ Named'
  <2>1. Named'
    BY <1>4, ServerAssumption DEF Register, Named, TypeOK
  <2>2. ASSUME NEW v \in Users, NEW d \in Conns
        PROVE  connections'[v] = d <=> pc'[d] \in InLoop /\ username'[d] = v
    <3>1. CASE d = c
      BY <1>4, <3>1, ServerAssumption
      DEF Register, Registered, Free, RegistryOwned, TypeOK, InLoop
    <3>2. CASE d # c
      BY <1>4, <3>2, ServerAssumption
      DEF Register, Registered, Free, RegistryOwned, TypeOK, InLoop
    <3> QED
      BY <3>1, <3>2
  <2> QED
    BY <2>1, <2>2 DEF RegistryOwned
<1>5. ASSUME NEW c \in Conns, pc[c] \in InLoop, Finally(c)
      PROVE  RegistryOwned' /\ Named'
  BY <1>5, FinallyMoves, LeaveOwned DEF Holds
<1>6. ASSUME NEW c \in Conns, NEW rest \in SUBSET Conns,
             pc[c] \in {"replied", "online"}, AnnounceTo(c, rest)
      PROVE  RegistryOwned' /\ Named'
  <2>1. connections' = connections /\ username' = username
    BY <1>6 DEF AnnounceTo, server
  <2>2. OthersStay(c) /\ pc'[c] \in {"online", "recv"}
    BY <1>6, <2>1, BroadcastMoves DEF AnnounceTo, OthersStay, TypeOK
  <2> QED
    BY <1>6, <2>1, <2>2, StayOwned DEF InLoop, Named
<1>7. ASSUME NEW c \in Conns, OfflineSent(c)
      PROVE  RegistryOwned' /\ Named'
  <2>1. OthersStay(c) /\ connections' = connections
    BY <1>7, BroadcastMoves, NextByeMoves DEF OfflineSent, CleanUp
  <2>2. \/ pc'[c] = "offline" /\ username' = username
        \/ pc'[c] \in {"byes", "done"}
    BY <1>7, BroadcastMoves, NextByeMoves DEF OfflineSent, CleanUp
  <2> QED
    BY <1>7, <2>1, <2>2, StayOwned DEF OfflineSent, InLoop, Named
<1>8. ASSUME NEW c \in Conns, ByeSent(c) \/ ByeRaises(c)
      PROVE  RegistryOwned' /\ Named'
  <2>1. /\ OthersStay(c)
        /\ connections' = connections
        /\ pc[c] = "byes"
        /\ pc'[c] \in {"byes", "done"}
    BY <1>8, NextByeMoves, ReturnMoves DEF ByeSent, ByeRaises, server
  <2> QED
    BY <2>1, StayOwned DEF InLoop
<1>9. CASE UNCHANGED vars
  BY <1>9 DEF vars, server, handlers, RegistryOwned, Named
<1>10. ASSUME NEW c \in Conns, ClientMessage(c)
       PROVE  RegistryOwned' /\ Named'
  <2>1. ASSUME NEW u \in Users, NEW k \in Ids, InviteUnknown(c, u, k)
        PROVE  RegistryOwned' /\ Named'
    <3>1. connections[username[c]] = c
      BY <2>1, OwnName DEF InviteUnknown, InLoop
    <3> QED
      BY <1>3, <2>1, <3>1 DEF InviteUnknown, InLoop, server
  <2>2. ASSUME NEW u \in Users, NEW k \in Ids, Invite(c, u, k)
        PROVE  RegistryOwned' /\ Named'
    <3>1. connections[u] \in Conns
      BY <2>2 DEF Invite, TypeOK
    <3> QED
      BY <1>3, <2>2, <3>1 DEF Invite, InLoop
  <2>3. ASSUME NEW u \in Users, NEW k \in Ids,
               Answer(c, u, k) \/ EndCall(c, u, k)
        PROVE  RegistryOwned' /\ Named'
    <3>1. connections[u] \in Conns \cup {None}
      BY DEF TypeOK
    <3> QED
      BY <1>3, <2>3, <3>1 DEF Answer, EndCall, InLoop
  <2>4. CASE ErrorReply(c)
    BY <1>3, <2>4 DEF ErrorReply, InLoop, server
  <2>5. ASSUME NEW u \in Users, RegisterRefused(c, u)
        PROVE  RegistryOwned' /\ Named'
    BY <1>3, <2>5 DEF RegisterRefused, InLoop, server
  <2>6. ASSUME NEW u \in Users, Ice(c, u)
        PROVE  RegistryOwned' /\ Named'
    <3>1. connections[u] \in Conns \cup {None}
      BY DEF TypeOK
    <3> QED
      BY <1>3, <2>6, <3>1 DEF Ice, InLoop, server
  <2> QED
    BY <1>4, <1>10, <2>1, <2>2, <2>3, <2>4, <2>5, <2>6 DEF ClientMessage
<1>11. ASSUME NEW c \in Conns, HandlerStep(c)
       PROVE  RegistryOwned' /\ Named'
  <2>1. CASE SendReturns(c)
    BY <1>3, <2>1 DEF SendReturns, InLoop, server
  <2>2. CASE SendRaises(c)
    BY <1>5, <2>2 DEF SendRaises, InLoop
  <2>3. CASE RegisterReply(c)
    BY <1>3, <2>3 DEF RegisterReply, InLoop, server
  <2>4. CASE AnnounceOnline(c)
    <3>1. Audience(connections, username[c]) \in SUBSET Conns
      BY AudienceType DEF TypeOK
    <3> QED
      BY <1>6, <2>4, <3>1 DEF AnnounceOnline
  <2>5. CASE OnlineSent(c)
    BY <1>6, <2>5 DEF OnlineSent, TypeOK
  <2> QED
    BY <1>7, <1>8, <1>11, <2>1, <2>2, <2>3, <2>4, <2>5 DEF HandlerStep
<1>12. ASSUME NEW c \in Conns, RecvRaises(c)
       PROVE  RegistryOwned' /\ Named'
  BY <1>5, <1>12 DEF RecvRaises, InLoop
<1> QED
  BY <1>1, <1>2, <1>9, <1>10, <1>11, <1>12 DEF Next

-----------------------------------------------------------------------------
\* A step that adds no call under any name, frees no name and moves no handler
\* out of "offline" keeps every call accounted for.
LEMMA StillAccounted ==
  ASSUME DialogsAccounted,
         \A k \in Ids, u \in Users : Involves(k, u)' => Involves(k, u),
         \A u \in Users : connections[u] # None => connections'[u] # None,
         \A c \in Conns : pc[c] = "offline" =>
                            pc'[c] = "offline" /\ username'[c] = username[c],
         lost \subseteq lost'
  PROVE  DialogsAccounted'
BY DEF DialogsAccounted, Accounted

\* The clean-up leaves no call under the name it is for, and adds none.
LEMMA CleanUpForgets ==
  ASSUME NEW c \in Conns, NEW registry, CleanUp(c, registry)
  PROVE  /\ \A k \in Ids, u \in Users :
              Involves(k, u)' => Involves(k, u) /\ u # username[c]
         /\ lost \subseteq lost'
BY DEF CleanUp, DialogsOf, Involves

\* Leaving the loop frees at most the handler's own name, and accounts for its
\* calls by the announcement under way or by the clean-up.
LEMMA FinallyAccounted ==
  ASSUME TypeOK, DialogsAccounted, NEW c \in Conns, pc[c] \in InLoop, Finally(c)
  PROVE  DialogsAccounted'
<1>1. /\ OthersStay(c)
      /\ connections' = IF Holds(c) THEN Released(c) ELSE connections
  BY FinallyMoves
<1>2. \A u \in Users :
        connections[u] # None /\ u # username[c] => connections'[u] # None
  BY <1>1 DEF Released, TypeOK
<1>3. \A d \in Conns : pc[d] = "offline" =>
                         pc'[d] = "offline" /\ username'[d] = username[d]
  BY <1>1 DEF OthersStay, InLoop
<1>4. CASE ~Holds(c)
  BY <1>1, <1>3, <1>4, StillAccounted DEF Finally, Involves
<1>5. CASE Holds(c) /\ Audience(Released(c), username[c]) = {}
  <2>1. CleanUp(c, Released(c))
    BY <1>5 DEF Finally
  <2> QED
    BY <1>2, <1>3, <2>1, CleanUpForgets DEF DialogsAccounted, Accounted
<1>6. CASE Holds(c) /\ Audience(Released(c), username[c]) # {}
  <2>1. pc'[c] = "offline" /\ UNCHANGED <<dialogs, username, lost>>
    BY <1>6, BroadcastMoves DEF Finally
  <2> QED
    BY <1>2, <1>3, <2>1 DEF DialogsAccounted, Accounted, Involves
<1> QED
  BY <1>4, <1>5, <1>6

\* Every step keeps the calls accounted for.
LEMMA AccountedStep ==
  ASSUME IInv, [Next]_vars
  PROVE  DialogsAccounted'
<1> USE DEF IInv
<1>1. ASSUME NEW c \in Conns, pc[c] # "offline",
             UNCHANGED <<connections, username>>, lost \subseteq lost',
             \A d \in Conns \ {c} : pc'[d] = pc[d],
             \A k \in Ids, u \in Users : Involves(k, u)' => Involves(k, u)
      PROVE  DialogsAccounted'
  BY <1>1, StillAccounted
<1>2. ASSUME NEW c \in Conns, Connect(c) \/ Disconnect(c)
      PROVE  DialogsAccounted'
  BY <1>2, StillAccounted
  DEF Connect, Disconnect, server, handlers, history, Involves, TypeOK
<1>3. ASSUME NEW c \in Conns, NEW u \in Users, Register(c, u)
      PROVE  DialogsAccounted'
  <2>1. \A v \in Users :
          connections[v] # None /\ (v # username[c] \/ v = u) => connections'[v] # None
    BY <1>3, ServerAssumption DEF Register, Registered, TypeOK
  <2>2. username[c] \in Users /\ username[c] # u =>
          \A k \in Ids : Involves(k, username[c]) => <<k, "renamed">> \in lost'
    BY <1>3, ServerAssumption DEF Register, CallsOf
  <2>3. \A k \in Ids, v \in Users : Involves(k, v)' <=> Involves(k, v)
    BY <1>3 DEF Register, Involves
  <2>4. \A d \in Conns : pc[d] = "offline" =>
                           pc'[d] = "offline" /\ username'[d] = username[d]
    BY <1>3 DEF Register, TypeOK
  <2>5. lost \subseteq lost'
    BY <1>3 DEF Register
  <2> QED
    BY <2>1, <2>2, <2>3, <2>4, <2>5 DEF DialogsAccounted, Accounted
<1>4. ASSUME NEW c \in Conns, NEW v \in Users, NEW j \in Ids, Invite(c, v, j)
      PROVE  DialogsAccounted'
  <2>1. connections[username[c]] # None /\ connections[v] # None
    BY <1>4, OwnName, ServerAssumption DEF Invite, InLoop
  <2>2. ASSUME NEW k \in Ids, NEW u \in Users, Involves(k, u)'
        PROVE  Involves(k, u) \/ connections[u] # None
    <3>1. CASE k = j
      <4>1. CASE k = NoId
        BY <1>4, <2>2, <3>1, <4>1 DEF Invite, Filed, Involves
      <4>2. CASE k # NoId
        BY <1>4, <2>1, <2>2, <3>1, <4>2 DEF Invite, Filed, Involves, TypeOK
      <4> QED
        BY <4>1, <4>2
    <3>2. CASE k # j
      BY <1>4, <2>2, <3>2 DEF Invite, Filed, Involves, TypeOK
    <3> QED
      BY <3>1, <3>2
  <2>3. UNCHANGED <<connections, username>> /\ lost \subseteq lost'
    BY <1>4 DEF Invite
  <2>4. \A d \in Conns : pc[d] = "offline" => pc'[d] = "offline"
    BY <1>4 DEF Invite, Send, TypeOK
  <2> QED
    BY <2>2, <2>3, <2>4 DEF DialogsAccounted, Accounted
<1>5. ASSUME NEW c \in Conns, NEW v \in Users, NEW k \in Ids,
             Answer(c, v, k) \/ EndCall(c, v, k)
      PROVE  DialogsAccounted'
  <2>1. \A d \in Conns \ {c} : pc'[d] = pc[d]
    BY <1>5 DEF Answer, EndCall, Send, TypeOK
  <2>2. \A j \in Ids, u \in Users : Involves(j, u)' => Involves(j, u)
    <3>1. CASE Answer(c, v, k)
      BY <3>1 DEF Answer, Involves, TypeOK, Dialogs
    <3>2. CASE EndCall(c, v, k)
      BY <3>2 DEF EndCall, Removed, Filed, Involves, TypeOK
    <3> QED
      BY <1>5, <3>1, <3>2
  <2>3. pc[c] = "recv" /\ UNCHANGED <<connections, username>> /\ lost \subseteq lost'
    BY <1>5 DEF Answer, EndCall, history
  <2> QED
    BY <1>1, <2>1, <2>2, <2>3
<1>6. ASSUME NEW c \in Conns, ClientMessage(c)
      PROVE  DialogsAccounted'
  <2>1. CASE ErrorReply(c)
    BY <1>1, <2>1 DEF ErrorReply, Send, TypeOK, Involves, server, history
  <2>2. ASSUME NEW u \in Users, RegisterRefused(c, u)
        PROVE  DialogsAccounted'
    BY <1>1, <2>2 DEF RegisterRefused, Send, TypeOK, Involves, server, history
  <2>3. ASSUME NEW u \in Users, NEW k \in Ids, InviteUnknown(c, u, k)
        PROVE  DialogsAccounted'
    BY <1>1, <2>3 DEF InviteUnknown, Send, TypeOK, Involves, server
  <2>4. ASSUME NEW u \in Users, Ice(c, u)
        PROVE  DialogsAccounted'
    BY <1>1, <2>4 DEF Ice, Send, TypeOK, Involves, server, history
  <2> QED
    BY <1>3, <1>4, <1>5, <1>6, <2>1, <2>2, <2>3, <2>4 DEF ClientMessage
<1>7. ASSUME NEW c \in Conns, HandlerStep(c)
      PROVE  DialogsAccounted'
  <2>1. CASE SendReturns(c) \/ RegisterReply(c)
    BY <1>1, <2>1 DEF SendReturns, RegisterReply, TypeOK, Involves, server, history
  <2>2. CASE SendRaises(c)
    BY <2>2, FinallyAccounted DEF SendRaises, InLoop
  <2>3. CASE AnnounceOnline(c) \/ OnlineSent(c)
    <3>1. \E rest : AnnounceTo(c, rest) /\ pc[c] # "offline"
      BY <2>3 DEF AnnounceOnline, OnlineSent
    <3>2. UNCHANGED <<connections, dialogs, username, lost>>
      BY <3>1 DEF AnnounceTo, server, history
    <3>3. \A d \in Conns \ {c} : pc'[d] = pc[d]
      BY <3>1, <3>2, BroadcastMoves DEF AnnounceTo, OthersStay, TypeOK
    <3> QED
      BY <1>1, <3>1, <3>2, <3>3 DEF Involves
  <2>4. CASE OfflineSent(c) /\ BroadcastTo(c, targets[c], "offline")
                            /\ UNCHANGED <<dialogs, username, ended, sock, live, lost>>
    <3>1. OthersStay(c) /\ pc'[c] = "offline"
      BY <2>4, BroadcastMoves
    <3> QED
      BY <2>4, <3>1, StillAccounted DEF OfflineSent, OthersStay, Involves
  <2>5. CASE OfflineSent(c) /\ CleanUp(c, connections)
    <3>1. OthersStay(c) /\ connections' = connections
      BY <2>5, NextByeMoves DEF OfflineSent, CleanUp
    <3> QED
      BY <2>5, <3>1, CleanUpForgets DEF DialogsAccounted, Accounted, OthersStay
  <2>6. CASE ByeSent(c) \/ ByeRaises(c)
    <3>1. OthersStay(c) /\ pc[c] # "offline" /\ UNCHANGED <<connections, dialogs>>
      BY <2>6, NextByeMoves, ReturnMoves DEF ByeSent, ByeRaises, server
    <3>2. lost \subseteq lost'
      BY <2>6 DEF ByeSent, ByeRaises
    <3> QED
      BY <3>1, <3>2, StillAccounted DEF OthersStay, Involves
  <2> QED
    BY <1>7, <2>1, <2>2, <2>3, <2>4, <2>5, <2>6 DEF HandlerStep, OfflineSent
<1>8. ASSUME NEW c \in Conns, RecvRaises(c)
      PROVE  DialogsAccounted'
  BY <1>8, FinallyAccounted DEF RecvRaises, InLoop
<1>9. CASE UNCHANGED vars
  BY <1>9, StillAccounted DEF vars, server, handlers, history, Involves
<1> QED
  BY <1>2, <1>6, <1>7, <1>8, <1>9 DEF Next

-----------------------------------------------------------------------------
\* The invariant holds initially.
LEMMA InitIInv == Init => IInv
BY ServerAssumption
DEF Init, IInv, TypeOK, PCs, RegistryOwned, InLoop, Named, DialogsAccounted, Involves, Ids

\* The invariant is inductive.
THEOREM Invariance == Spec => []IInv
<1>1. IInv /\ [Next]_vars => IInv'
  BY TypeStep, OwnedStep, AccountedStep DEF IInv
<1> QED
  BY InitIInv, <1>1, PTL DEF Spec

\* The state has its types in every reachable state.
THEOREM TypeCorrectness == Spec => []TypeOK
BY Invariance, PTL DEF IInv

\* The registry maps a name to a connection exactly while that connection's
\* handler serves it under that name (server.py:280, 319).
THEOREM RegistryAgreement == Spec => []RegistryOwned
BY Invariance, PTL DEF IInv

\* A recorded call has two parties that are registered, are about to be cleaned
\* up after, or changed their name (server.py:288, 330, 577).
THEOREM CallAccounting == Spec => []DialogsAccounted
BY Invariance, PTL DEF IInv

-----------------------------------------------------------------------------
(***************************************************************************)
(* The server implements the directory of names.                           *)
(***************************************************************************)

\* Taking a name is claiming it, or changes nothing if it was held already.
LEMMA RegisterClaims ==
  ASSUME IInv, NEW c \in Conns, NEW u \in Users, Register(c, u)
  PROVE  Directory!Claim(c, u) \/ UNCHANGED connections
<1> USE DEF IInv, TypeOK, RegistryOwned
<1>1. connections' = Registered(c, u)
  BY DEF Register
<1>2. \A v \in Users : connections[v] = c => username[c] = v
  OBVIOUS
<1>3. CASE connections[u] = None
  <2>1. Registered(c, u) = [v \in Users |->
          IF v = u THEN c ELSE IF connections[v] = c THEN None ELSE connections[v]]
    BY <1>2 DEF Registered
  <2> QED
    BY <1>1, <1>3, <2>1 DEF Directory!Claim
<1>4. CASE connections[u] = c
  BY <1>1, <1>2, <1>4 DEF Registered
<1> QED
  BY <1>3, <1>4 DEF Register, Free

\* Leaving the loop releases the handler's name, if it has one.
LEMMA FinallyReleases ==
  ASSUME IInv, NEW c \in Conns, Finally(c)
  PROVE  Directory!Release(c) \/ UNCHANGED connections
<1>1. CASE Holds(c)
  BY <1>1, FinallyMoves DEF IInv, TypeOK, Holds, Released, Directory!Release
<1>2. CASE ~Holds(c)
  BY <1>2, FinallyMoves DEF IInv
<1> QED
  BY <1>1, <1>2

\* Every step of the server is a step of the directory, or leaves it alone.
LEMMA DirectoryStep ==
  ASSUME IInv, [Next]_vars
  PROVE  [Directory!Next]_connections
<1>1. ASSUME NEW c \in Conns, NEW u \in Users, Register(c, u)
      PROVE  [Directory!Next]_connections
  BY <1>1, RegisterClaims DEF Directory!Next
<1>2. ASSUME NEW c \in Conns, Finally(c)
      PROVE  [Directory!Next]_connections
  BY <1>2, FinallyReleases DEF Directory!Next
<1>3. ASSUME NEW c \in Conns, ClientMessage(c),
             ~\E u \in Users : Register(c, u)
      PROVE  UNCHANGED connections
  BY <1>3 DEF ClientMessage, ErrorReply, RegisterRefused, InviteUnknown, Invite,
              Answer, Ice, EndCall, server
<1>4. ASSUME NEW c \in Conns, HandlerStep(c), ~SendRaises(c)
      PROVE  UNCHANGED connections
  BY <1>4 DEF HandlerStep, SendReturns, RegisterReply, AnnounceOnline, OnlineSent,
              AnnounceTo, OfflineSent, ByeSent, ByeRaises, server
<1>5. ASSUME NEW c \in Conns, Connect(c) \/ Disconnect(c)
      PROVE  UNCHANGED connections
  BY <1>5 DEF Connect, Disconnect, server
<1>6. CASE UNCHANGED vars
  BY <1>6 DEF vars, server
<1> QED
  BY <1>1, <1>2, <1>3, <1>4, <1>5, <1>6 DEF Next, RecvRaises, SendRaises

\* A name changes hands only by becoming free first, and nobody loses one to
\* somebody else's late clean-up (server.py:278, 316).
THEOREM Refinement == Spec => ImplementsRegistry
<1>1. Init => Directory!Init
  BY DEF Init, Directory!Init
<1>2. IInv /\ [Next]_vars => [Directory!Next]_connections
  BY DirectoryStep
<1> QED
  BY <1>1, <1>2, Invariance, PTL DEF Spec, ImplementsRegistry, Directory!Spec

-----------------------------------------------------------------------------
(***************************************************************************)
(* What the clients come to believe: who is online, and that a call goes   *)
(* on.  The invariants.                                                    *)
(***************************************************************************)

\* A list of other users leaves out its client's own name, and an announcement
\* its own connection.
OwnLeftOut ==
  \A c \in Conns :
    /\ pc[c] = "mint" => username[c] \notin others[c]
    /\ pc[c] = "online" => c \notin targets[c]

ListInv == OwnLeftOut /\ SelfNotListed

\* Only a client that has registered is told that a name went offline.
ToldWhenNamed ==
  \A e \in Conns : pc[e] = "offline" =>
    \A t \in targets[e] : pc[t] = "done" \/ username[t] # None

\* The client of c is connected and keeps the name it registered under.
Present(c) ==
  c \in Watched \ renamed /\ sock[c] = "open" /\ pc[c] \in InLoop /\ username[c] # None

\* The name of d is in the list of c, or in the one c is about to be sent.
Listed(c, d) ==
  IF pc[c] = "mint" THEN username[d] \in others[c] ELSE username[d] \in roster[c]

\* An announcement of a previous holder of d's name is about to strike it out.
Doomed(c, d) ==
  \E e \in Conns : pc[e] = "offline" /\ username[e] = username[d] /\ c \in targets[e]

Sighted(c, d) == Listed(c, d) /\ ~Doomed(c, d)

\* Of two clients the one that registered last sees the other, for good.
OneSeesTheOther ==
  \A c, d \in Conns :
    c # d /\ Present(c) /\ Present(d) => Sighted(c, d) \/ Sighted(d, c)

SightInv == ToldWhenNamed /\ OneSeesTheOther

\* Synthetic BYEs are due only while their handler sends them.
ByesAreSent == \A c \in Conns : ended[c] # {} => pc[c] = "byes"

\* Nobody believes in a call before its connection is open.
Started == \A k \in Ids : \A c \in live[k] : pc[c] # "idle"

LostTrack(k) == LostBy(k, Causes)

\* What PartnersTold says of one client and one call.
Sound(c, k) ==
  Believes(c, k) =>
    Involves(k, username[c]) \/ ByeDue(k, username[c]) \/ LostTrack(k)

BeliefInv ==
  /\ ByesAreSent
  /\ Started
  /\ \A c \in Conns, k \in Ids : Sound(c, k)

-----------------------------------------------------------------------------
(***************************************************************************)
(* What a step does to the handlers and to the lists.                      *)
(***************************************************************************)

\* The handler of c took up a message, or has sent what that message asked for.
Talking(c) ==
  /\ pc[c] \in {"recv", "sent"} /\ pc'[c] \in {"recv", "sent"}
  /\ \A d \in Conns \ {c} : pc'[d] = pc[d] /\ targets'[d] = targets[d]
  /\ UNCHANGED <<connections, username, others, ended, sock, roster, renamed>>

\* The announcement of c's name, of the given phase, has rest to go.
Announcing(c, rest, phase) ==
  /\ targets'[c] \subseteq rest
  /\ \A d \in Conns :
       \/ roster'[d] = roster[d]
       \/ d \in rest /\ roster'[d] = Announced(d, username[c], phase)

\* The handler of c is in "finally".
Leaving(c) ==
  /\ pc[c] # "done" /\ pc'[c] \in {"offline", "byes", "done"}
  /\ OthersStay(c)
  /\ pc'[c] = "done" \/ username' = username
  /\ UNCHANGED <<others, renamed>>
  /\ \A d \in Conns \ {c} : targets'[d] = targets[d] /\ sock'[d] = sock[d]
  /\ pc'[c] = "offline" =>
       /\ sock' = sock
       /\ \/ pc[c] = "offline" /\ Announcing(c, targets[c], "offline")
          \/ /\ Holds(c)
             /\ Announcing(c, Audience(Released(c), username[c]), "offline")
  /\ pc'[c] # "offline" => \A d \in Conns \ {c} : roster'[d] = roster[d]

\* The handler of c announces its name.
Joining(c) ==
  /\ pc[c] \in {"replied", "online"} /\ pc'[c] \in {"online", "recv"}
  /\ OthersStay(c)
  /\ UNCHANGED <<connections, username, others, ended, sock, renamed>>
  /\ \A d \in Conns \ {c} : targets'[d] = targets[d]
  /\ Announcing(c, IF pc[c] = "online" THEN targets[c]
                   ELSE Audience(connections, username[c]), "online")

\* A broadcast sends to one of its receivers.
LEMMA BroadcastAnnounces ==
  ASSUME TypeOK, NEW c \in Conns, NEW rest \in SUBSET Conns, NEW phase,
         BroadcastTo(c, rest, phase)
  PROVE  /\ Announcing(c, rest, phase)
         /\ \A d \in Conns \ {c} : targets'[d] = targets[d]
<1>1. PICK t \in rest :
        /\ targets' = [targets EXCEPT ![c] = rest \ {t}]
        /\ roster' = IF t \in Watched /\ sock[t] = "open"
                     THEN [roster EXCEPT ![t] = Announced(t, username[c], phase)]
                     ELSE roster
  BY DEF BroadcastTo
<1>2. targets'[c] \subseteq rest /\ \A d \in Conns \ {c} : targets'[d] = targets[d]
  BY <1>1 DEF TypeOK
<1>3. \A d \in Conns :
        \/ roster'[d] = roster[d]
        \/ d \in rest /\ roster'[d] = Announced(d, username[c], phase)
  BY <1>1 DEF TypeOK
<1> QED
  BY <1>2, <1>3 DEF Announcing

\* A step of the loop of BYEs leaves the other handlers and the lists alone.
LEMMA NextByeLeaves ==
  ASSUME TypeOK, NEW c \in Conns, NEW rest, NEW registry,
         NextBye(c, rest, registry), pc[c] # "done", UNCHANGED <<others, renamed>>
  PROVE  Leaving(c)
<1>1. OthersStay(c) /\ pc'[c] \in {"byes", "done"}
  BY NextByeMoves
<1>2. \A d \in Conns \ {c} :
        targets'[d] = targets[d] /\ sock'[d] = sock[d] /\ roster'[d] = roster[d]
  BY DEF NextBye, HandlerReturns, Close, TypeOK
<1>3. pc'[c] = "done" \/ username' = username
  BY <1>1, ReturnMoves DEF NextBye
<1> QED
  BY <1>1, <1>2, <1>3 DEF Leaving

\* Whatever ends the loop of a handler leads into "finally".
LEMMA FinallyLeaves ==
  ASSUME TypeOK, NEW c \in Conns, pc[c] \in InLoop, Finally(c)
  PROVE  Leaving(c)
<1> USE DEF InLoop
<1>1. UNCHANGED <<others, renamed>>
  BY DEF Finally
<1>2. CASE ~Holds(c)
  <2>1. HandlerReturns(c) /\ targets' = [targets EXCEPT ![c] = {}]
    BY <1>2 DEF Finally
  <2>2. OthersStay(c) /\ pc'[c] = "done"
    BY <2>1, ReturnMoves
  <2>3. \A d \in Conns \ {c} :
          targets'[d] = targets[d] /\ sock'[d] = sock[d] /\ roster'[d] = roster[d]
    BY <2>1 DEF HandlerReturns, Close, TypeOK
  <2> QED
    BY <1>1, <2>2, <2>3 DEF Leaving
<1>3. CASE Holds(c) /\ Audience(Released(c), username[c]) = {}
  <2>1. CleanUp(c, Released(c))
    BY <1>3 DEF Finally
  <2> QED
    BY <1>1, <2>1, NextByeLeaves DEF CleanUp
<1>4. CASE Holds(c) /\ Audience(Released(c), username[c]) # {}
  <2> DEFINE audience == Audience(Released(c), username[c])
  <2>1. BroadcastTo(c, audience, "offline") /\ UNCHANGED <<username, sock>>
    BY <1>4 DEF Finally
  <2>2. audience \in SUBSET Conns
    BY ReleasedType, AudienceType
  <2>3. OthersStay(c) /\ pc'[c] = "offline"
    BY <2>1, BroadcastMoves
  <2>4. /\ Announcing(c, audience, "offline")
        /\ \A d \in Conns \ {c} : targets'[d] = targets[d]
    BY <2>1, <2>2, BroadcastAnnounces
  <2> QED
    BY <1>1, <1>4, <2>1, <2>3, <2>4 DEF Leaving
<1> QED
  BY <1>2, <1>3, <1>4

\* The steps of "finally" after the first.
LEMMA LaterLeaves ==
  ASSUME TypeOK, NEW c \in Conns, OfflineSent(c) \/ ByeSent(c) \/ ByeRaises(c)
  PROVE  Leaving(c)
<1>1. CASE OfflineSent(c) /\ CleanUp(c, connections)
  BY <1>1, NextByeLeaves DEF OfflineSent, CleanUp
<1>2. CASE /\ OfflineSent(c) /\ BroadcastTo(c, targets[c], "offline")
           /\ UNCHANGED <<username, sock>>
  <2>1. OthersStay(c) /\ pc'[c] = "offline" /\ pc[c] = "offline"
    BY <1>2, BroadcastMoves DEF OfflineSent
  <2>2. targets[c] \in SUBSET Conns /\ UNCHANGED <<others, renamed>>
    BY <1>2 DEF OfflineSent, TypeOK
  <2>3. /\ Announcing(c, targets[c], "offline")
        /\ \A d \in Conns \ {c} : targets'[d] = targets[d]
    BY <1>2, <2>2, BroadcastAnnounces
  <2> QED
    BY <1>2, <2>1, <2>2, <2>3 DEF Leaving
<1>3. CASE ByeSent(c)
  BY <1>3, NextByeLeaves DEF ByeSent
<1>4. CASE ByeRaises(c)
  <2>1. OthersStay(c) /\ pc'[c] = "done"
    BY <1>4, ReturnMoves DEF ByeRaises
  <2>2. \A d \in Conns \ {c} :
          targets'[d] = targets[d] /\ sock'[d] = sock[d] /\ roster'[d] = roster[d]
    BY <1>4 DEF ByeRaises, HandlerReturns, Close, TypeOK
  <2> QED
    BY <1>4, <2>1, <2>2 DEF ByeRaises, Leaving
<1> QED
  BY <1>1, <1>2, <1>3, <1>4 DEF OfflineSent

\* A message other than a registration that is taken leaves names and lists alone.
LEMMA MessageTalks ==
  ASSUME TypeOK, NEW c \in Conns, ClientMessage(c), ~\E u \in Users : Register(c, u)
  PROVE  Talking(c)
<1> USE DEF Talking, Send, TypeOK
<1>1. CASE ErrorReply(c)
  BY <1>1 DEF ErrorReply, server, history
<1>2. ASSUME NEW u \in Users, RegisterRefused(c, u)
      PROVE  Talking(c)
  BY <1>2 DEF RegisterRefused, server, history
<1>3. ASSUME NEW u \in Users, NEW k \in Ids, InviteUnknown(c, u, k) \/ Invite(c, u, k)
      PROVE  Talking(c)
  BY <1>3 DEF InviteUnknown, Invite, server
<1>4. ASSUME NEW u \in Users, NEW k \in Ids, Answer(c, u, k)
      PROVE  Talking(c)
  BY <1>4 DEF Answer, history
<1>5. ASSUME NEW u \in Users, NEW k \in Ids, EndCall(c, u, k)
      PROVE  Talking(c)
  BY <1>5 DEF EndCall
<1>6. ASSUME NEW u \in Users, Ice(c, u)
      PROVE  Talking(c)
  BY <1>6 DEF Ice, server, history
<1> QED
  BY <1>1, <1>2, <1>3, <1>4, <1>5, <1>6 DEF ClientMessage

\* An announcement that is under way goes to one client after the other.
LEMMA AnnouncementJoins ==
  ASSUME TypeOK, NEW c \in Conns, AnnounceOnline(c) \/ OnlineSent(c)
  PROVE  Joining(c)
<1> DEFINE rest == IF pc[c] = "online" THEN targets[c]
                   ELSE Audience(connections, username[c])
<1>1. pc[c] \in {"replied", "online"} /\ AnnounceTo(c, rest)
  BY DEF AnnounceOnline, OnlineSent
<1>2. rest \in SUBSET Conns
  BY AudienceType DEF TypeOK
<1> HIDE DEF rest
<1>3. UNCHANGED <<connections, username, others, ended, sock, renamed>>
  BY <1>1 DEF AnnounceTo, server, history
<1>4. CASE BroadcastTo(c, rest, "online")
  <2>1. OthersStay(c) /\ pc'[c] = "online"
    BY <1>3, <1>4, BroadcastMoves
  <2>2. Announcing(c, rest, "online") /\ \A d \in Conns \ {c} : targets'[d] = targets[d]
    BY <1>2, <1>4, BroadcastAnnounces
  <2> QED
    BY <1>1, <1>3, <2>1, <2>2 DEF Joining, rest
<1>5. CASE ~BroadcastTo(c, rest, "online")
  <2>1. /\ pc' = [pc EXCEPT ![c] = "recv"]
        /\ targets' = [targets EXCEPT ![c] = {}]
        /\ roster' = roster
    BY <1>1, <1>5 DEF AnnounceTo
  <2>2. /\ OthersStay(c) /\ pc'[c] = "recv"
        /\ \A d \in Conns \ {c} : targets'[d] = targets[d]
    BY <1>3, <2>1 DEF OthersStay, TypeOK
  <2>3. Announcing(c, rest, "online")
    BY <2>1 DEF Announcing, TypeOK
  <2> QED
    BY <1>1, <1>3, <2>2, <2>3 DEF Joining, rest
<1> QED
  BY <1>4, <1>5

\* The kinds of steps there are.
LEMMA StepKinds ==
  ASSUME TypeOK, Next
  PROVE  \E c \in Conns :
           \/ Connect(c) \/ Disconnect(c) \/ RegisterReply(c)
           \/ \E u \in Users : Register(c, u)
           \/ Talking(c) \/ Joining(c) \/ Leaving(c)
<1>1. PICK c \in Conns :
        Connect(c) \/ Disconnect(c) \/ ClientMessage(c) \/ HandlerStep(c) \/ RecvRaises(c)
  BY DEF Next
<1>2. CASE ClientMessage(c)
  BY <1>2, MessageTalks
<1>3. CASE RecvRaises(c)
  BY <1>3, FinallyLeaves DEF RecvRaises, InLoop
<1>4. CASE HandlerStep(c)
  <2>1. CASE SendReturns(c)
    BY <2>1 DEF SendReturns, Talking, TypeOK, server, history
  <2>2. CASE SendRaises(c)
    BY <2>2, FinallyLeaves DEF SendRaises, InLoop
  <2> QED
    BY <1>4, <2>1, <2>2, AnnouncementJoins, LaterLeaves DEF HandlerStep
<1> QED
  BY <1>1, <1>2, <1>3, <1>4

-----------------------------------------------------------------------------
(***************************************************************************)
(* No client lists itself.                                                 *)
(***************************************************************************)

\* The lists stay right where names stay and nothing is announced.
LEMMA ListsStay ==
  ASSUME ListInv,
         \A d \in Conns :
           /\ pc'[d] = "mint" => /\ pc[d] = "mint"
                                 /\ username'[d] = username[d]
                                 /\ others'[d] = others[d]
           /\ pc'[d] = "online" => pc[d] = "online" /\ targets'[d] \subseteq targets[d]
           /\ Confirmed(d)' => Confirmed(d) /\ username'[d] = username[d]
           /\ Confirmed(d)' => roster'[d] \subseteq roster[d]
  PROVE  ListInv'
<1>1. OwnLeftOut'
  BY DEF ListInv, OwnLeftOut
<1>2. SelfNotListed'
  BY ServerAssumption DEF ListInv, SelfNotListed
<1> QED
  BY <1>1, <1>2 DEF ListInv

\* A broadcast of c's name goes to the connections of other names.
LEMMA AudienceIsOthers ==
  ASSUME TypeOK, RegistryOwned, NEW c \in Conns
  PROVE  c \notin Audience(connections, username[c])
<1>1. SUFFICES ASSUME NEW v \in Users, v # username[c], connections[v] = c
               PROVE  FALSE
  BY DEF Audience, OtherNames
<1> QED
  BY <1>1 DEF RegistryOwned

\* Two handlers in the loop do not have the same name.
LEMMA OneHolder ==
  ASSUME TypeOK, RegistryOwned, NEW c \in Conns, NEW d \in Conns,
         pc[c] \in InLoop, pc[d] \in InLoop,
         username[c] = username[d], username[c] # None
  PROVE  c = d
BY OwnName

\* Every step keeps clients out of their own lists.
LEMMA ListStep ==
  ASSUME IInv, ListInv, [Next]_vars
  PROVE  ListInv'
<1> USE DEF IInv
<1>1. ASSUME NEW c \in Conns, Connect(c)
      PROVE  ListInv'
  <2>1. /\ pc' = [pc EXCEPT ![c] = "recv"]
        /\ UNCHANGED <<username, others, targets, roster>>
        /\ \A d \in Conns \ {c} : sock'[d] = sock[d]
        /\ username[c] = None
    BY <1>1 DEF Connect, Named, TypeOK
  <2> QED
    BY <2>1, ListsStay DEF Confirmed, InLoop, TypeOK
<1>2. ASSUME NEW c \in Conns, Disconnect(c)
      PROVE  ListInv'
  <2>1. /\ UNCHANGED <<pc, username, others, targets>>
        /\ \A d \in Conns : roster'[d] \subseteq roster[d]
        /\ \A d \in Conns : sock'[d] = "open" => sock[d] = "open"
    BY <1>2 DEF Disconnect, Close, handlers, TypeOK
  <2> QED
    BY <2>1, ListsStay DEF Confirmed, InLoop
<1>3. ASSUME NEW c \in Conns, RegisterReply(c)
      PROVE  ListInv'
  <2>1. /\ pc[c] = "mint" /\ pc' = [pc EXCEPT ![c] = "replied"]
        /\ UNCHANGED <<username, sock>>
        /\ \A d \in Conns \ {c} : /\ others'[d] = others[d]
                                  /\ targets'[d] = targets[d]
                                  /\ roster'[d] = roster[d]
        /\ c \in Watched /\ sock[c] = "open" => roster'[c] = others[c]
    BY <1>3 DEF RegisterReply, TypeOK
  <2>2. OwnLeftOut'
    BY <2>1 DEF ListInv, OwnLeftOut, TypeOK
  <2>3. ASSUME NEW d \in Watched, Confirmed(d)'
        PROVE  username'[d] \notin roster'[d]
    <3>1. CASE d = c
      BY <2>1, <2>3, <3>1 DEF ListInv, OwnLeftOut, Confirmed
    <3>2. CASE d # c
      BY <2>1, <2>3, <3>2, ServerAssumption DEF ListInv, SelfNotListed, Confirmed, TypeOK
    <3> QED
      BY <3>1, <3>2
  <2> QED
    BY <2>2, <2>3 DEF ListInv, SelfNotListed
<1>4. ASSUME NEW c \in Conns, NEW u \in Users, Register(c, u)
      PROVE  ListInv'
  <2>1. /\ pc' = [pc EXCEPT ![c] = "mint"]
        /\ username' = [username EXCEPT ![c] = u]
        /\ others' = [others EXCEPT ![c] = OtherNames(connections', u)]
        /\ UNCHANGED <<targets, sock, roster>>
    BY <1>4 DEF Register
  <2>2. u \notin OtherNames(connections', u)
    BY DEF OtherNames
  <2>3. OwnLeftOut'
    BY <2>1, <2>2 DEF ListInv, OwnLeftOut, TypeOK
  <2>4. SelfNotListed'
    BY <2>1, ServerAssumption DEF ListInv, SelfNotListed, Confirmed, TypeOK
  <2> QED
    BY <2>3, <2>4 DEF ListInv
<1>5. ASSUME NEW c \in Conns, Talking(c) \/ Leaving(c)
      PROVE  ListInv'
  <2>1. /\ OthersStay(c) /\ pc'[c] \in {"recv", "sent", "offline", "byes", "done"}
        /\ \A d \in Conns \ {c} : targets'[d] = targets[d] /\ sock'[d] = sock[d]
        /\ others' = others
        /\ pc'[c] \in {"recv", "sent"} =>
             pc[c] \in {"recv", "sent"} /\ UNCHANGED <<username, sock, roster>>
    BY <1>5 DEF Talking, Leaving, OthersStay
  <2>2. ASSUME NEW d \in Conns, Confirmed(d)'
        PROVE  roster'[d] \subseteq roster[d]
    <3>1. CASE Talking(c)
      BY <3>1 DEF Talking
    <3>2. CASE Leaving(c)
      <4>1. d # c
        BY <2>2, <3>2 DEF Leaving, Confirmed, InLoop
      <4> QED
        BY <3>2, <4>1 DEF Leaving, Announcing, Announced
    <3> QED
      BY <1>5, <3>1, <3>2
  <2> QED
    BY <2>1, <2>2, ListsStay DEF Confirmed, OthersStay, InLoop
<1>6. ASSUME NEW c \in Conns, Joining(c)
      PROVE  ListInv'
  <2> DEFINE rest == IF pc[c] = "online" THEN targets[c]
                     ELSE Audience(connections, username[c])
  <2>1. /\ pc[c] \in {"replied", "online"} /\ pc'[c] \in {"online", "recv"}
        /\ OthersStay(c)
        /\ UNCHANGED <<connections, username, others, ended, sock, renamed>>
        /\ \A d \in Conns \ {c} : targets'[d] = targets[d]
        /\ Announcing(c, rest, "online")
    BY <1>6 DEF Joining
  <2>2. c \notin rest
    BY <2>1, AudienceIsOthers DEF ListInv, OwnLeftOut
  <2> HIDE DEF rest
  <2>3. OwnLeftOut'
    BY <2>1, <2>2 DEF ListInv, OwnLeftOut, OthersStay, Announcing
  <2>4. ASSUME NEW d \in Watched, Confirmed(d)'
        PROVE  username'[d] \notin roster'[d]
    <3>1. d \in Conns /\ Confirmed(d) /\ username'[d] = username[d]
      BY <2>1, <2>4, ServerAssumption DEF Confirmed, OthersStay, InLoop
    <3>2. username[d] \notin roster[d]
      BY <2>4, <3>1 DEF ListInv, SelfNotListed
    <3>3. CASE roster'[d] = roster[d]
      BY <3>1, <3>2, <3>3
    <3>4. CASE d \in rest /\ roster'[d] = roster[d] \cup {username[c]}
      <4>1. d # c /\ pc[d] \in InLoop /\ username[d] # None /\ pc[c] \in InLoop
        BY <2>1, <2>2, <3>1, <3>4 DEF Confirmed, InLoop
      <4>2. username[d] # username[c]
        BY <3>1, <4>1, OneHolder
      <4> QED
        BY <3>1, <3>2, <3>4, <4>2
    <3> QED
      BY <2>1, <3>1, <3>3, <3>4 DEF Announcing, Announced
  <2> QED
    BY <2>3, <2>4 DEF ListInv, SelfNotListed
<1>7. CASE UNCHANGED vars
  BY <1>7, ListsStay DEF vars, handlers, Confirmed
<1> QED
  BY <1>1, <1>2, <1>3, <1>4, <1>5, <1>6, <1>7, StepKinds

\* A client never lists itself: the list it is sent leaves its own name out, and
\* so do the announcements of that name, whenever they arrive (server.py:355, 571).
THEOREM NobodyListsItself == Spec => []SelfNotListed
<1>1. Init => ListInv
  BY ServerAssumption DEF Init, ListInv, OwnLeftOut, SelfNotListed, Confirmed
<1>2. IInv /\ ListInv /\ [Next]_vars => ListInv'
  BY ListStep
<1>3. ListInv => SelfNotListed
  BY DEF ListInv
<1> QED
  BY <1>1, <1>2, <1>3, Invariance, PTL DEF Spec

-----------------------------------------------------------------------------
(***************************************************************************)
(* Of two clients at least one lists the other.                            *)
(***************************************************************************)

\* The receivers of an announcement are in the loop and have names.
LEMMA AudienceIsNamed ==
  ASSUME TypeOK, RegistryOwned, NEW c \in Conns, NEW registry,
         registry \in {connections, Released(c)},
         NEW t \in Audience(registry, username[c])
  PROVE  t \in Conns /\ pc[t] \in InLoop /\ username[t] # None /\ connections[username[t]] = t
<1>1. PICK v \in Users : v # username[c] /\ registry[v] # None /\ t = registry[v]
  BY DEF Audience, OtherNames
<1>2. connections[v] = t /\ t \in Conns
  BY <1>1 DEF Released, TypeOK
<1> QED
  BY <1>2, ServerAssumption DEF RegistryOwned

\* What one client has in sight stays so while both keep their names and neither
\* loses anything from its list.
LEMMA SightsStay ==
  ASSUME TypeOK, SightInv,
         \A d \in Conns : pc[d] = "done" => pc'[d] = "done",
         \A d \in Conns : username[d] # None => pc'[d] = "done" \/ username'[d] # None,
         \A e \in Conns : pc'[e] = "offline" =>
           /\ pc[e] = "offline" /\ username'[e] = username[e]
           /\ targets'[e] \subseteq targets[e],
         \A d \in Conns : Present(d)' =>
           /\ Present(d) /\ username'[d] = username[d]
           /\ IF pc'[d] = "mint" THEN pc[d] = "mint" /\ others[d] \subseteq others'[d]
              ELSE pc[d] # "mint" /\ roster[d] \subseteq roster'[d]
  PROVE  SightInv'
<1>1. ToldWhenNamed'
  BY DEF SightInv, ToldWhenNamed, TypeOK
<1>2. ASSUME NEW c \in Conns, NEW d \in Conns, Present(c)', Present(d)', Sighted(c, d)
      PROVE  Sighted(c, d)'
  <2>1. Listed(c, d)'
    BY <1>2 DEF Sighted, Listed
  <2>2. ~Doomed(c, d)'
    BY <1>2 DEF Sighted, Doomed
  <2> QED
    BY <2>1, <2>2 DEF Sighted
<1>3. OneSeesTheOther'
  BY <1>2 DEF SightInv, OneSeesTheOther
<1> QED
  BY <1>1, <1>3 DEF SightInv

\* A client that registers sees everybody who is registered.
LEMMA NewcomerSees ==
  ASSUME IInv, SightInv, NEW c \in Conns, NEW u \in Users, Register(c, u)
  PROVE  SightInv'
<1> USE DEF IInv
<1>1. /\ pc[c] = "recv" /\ pc' = [pc EXCEPT ![c] = "mint"]
      /\ username' = [username EXCEPT ![c] = u]
      /\ others' = [others EXCEPT ![c] = OtherNames(connections', u)]
      /\ UNCHANGED <<targets, sock, roster>>
      /\ username[c] \notin {None, u} => c \in renamed'
      /\ renamed \subseteq renamed'
  BY DEF Register
<1>2. ToldWhenNamed'
  BY <1>1, ServerAssumption DEF SightInv, ToldWhenNamed, TypeOK
<1>3. RegistryOwned'
  BY OwnedStep DEF Next, ClientMessage
<1>4. ASSUME NEW d \in Conns, d # c, Present(c)', Present(d)'
      PROVE  Sighted(c, d)' \/ Sighted(d, c)'
  <2>1. /\ Present(d) /\ pc'[d] = pc[d] /\ username'[d] = username[d]
        /\ username'[c] = u /\ username[c] \in {None, u}
    BY <1>1, <1>4 DEF Present, TypeOK
  <2>2. Listed(c, d)'
    <3>1. username[d] \in Users /\ connections'[username[d]] = d
      BY <1>3, <1>4, <2>1 DEF Present, RegistryOwned, TypeOK
    <3>2. connections'[u] = c
      BY <1>3, <1>4, <2>1 DEF Present, RegistryOwned
    <3>3. username[d] \in OtherNames(connections', u)
      BY <1>4, <3>1, <3>2, ServerAssumption DEF OtherNames
    <3> QED
      BY <1>1, <2>1, <3>3 DEF Listed, TypeOK
  <2>3. CASE username[c] = None
    <3>1. ~Doomed(c, d)'
      <4>1. SUFFICES ASSUME NEW e \in Conns, pc'[e] = "offline", c \in targets'[e]
                     PROVE  FALSE
        BY DEF Doomed
      <4>2. pc[e] = "offline" /\ c \in targets[e]
        BY <1>1, <4>1 DEF TypeOK
      <4> QED
        BY <1>1, <2>3, <4>2 DEF SightInv, ToldWhenNamed
    <3> QED
      BY <2>2, <3>1 DEF Sighted
  <2>4. CASE username[c] = u
    <3>1. Present(c)
      BY <1>1, <1>4, <2>4 DEF Present, InLoop, TypeOK
    <3>2. /\ \A e \in Conns : pc'[e] = "offline" => pc[e] = "offline"
          /\ UNCHANGED <<username, targets>>
      BY <1>1, <2>4 DEF TypeOK
    <3>3. CASE Sighted(c, d)
      <4>1. ~Doomed(c, d)'
        BY <3>2, <3>3 DEF Sighted, Doomed
      <4> QED
        BY <2>2, <4>1 DEF Sighted
    <3>4. CASE Sighted(d, c)
      <4>1. ~Doomed(d, c)'
        BY <3>2, <3>4 DEF Sighted, Doomed
      <4>2. Listed(d, c)'
        BY <1>1, <1>4, <2>1, <3>2, <3>4 DEF Sighted, Listed, TypeOK
      <4> QED
        BY <4>1, <4>2 DEF Sighted
    <3> QED
      BY <1>4, <2>1, <3>1, <3>3, <3>4 DEF SightInv, OneSeesTheOther
  <2> QED
    BY <2>1, <2>3, <2>4
<1>5. ASSUME NEW d \in Conns, NEW b \in Conns, d # c, b # c, d # b,
             Present(d)', Present(b)'
      PROVE  Sighted(d, b)' \/ Sighted(b, d)'
  <2>1. \A a \in {b, d} : /\ Present(a) /\ pc'[a] = pc[a] /\ username'[a] = username[a]
                          /\ others'[a] = others[a] /\ roster'[a] = roster[a]
    BY <1>1, <1>5 DEF Present, TypeOK
  <2>2. \A e \in Conns : pc'[e] = "offline" =>
          pc[e] = "offline" /\ username'[e] = username[e] /\ targets'[e] = targets[e]
    BY <1>1 DEF TypeOK
  <2>3. \A a1, a2 \in {b, d} : Sighted(a1, a2) => Sighted(a1, a2)'
    BY <2>1, <2>2 DEF Sighted, Listed, Doomed
  <2> QED
    BY <1>5, <2>1, <2>3 DEF SightInv, OneSeesTheOther
<1>6. OneSeesTheOther'
  BY <1>4, <1>5 DEF OneSeesTheOther
<1> QED
  BY <1>2, <1>6 DEF SightInv

\* A client that leaves strikes its own name out, and nobody has it any more.
LEMMA LeaverIsForgotten ==
  ASSUME IInv, SightInv, NEW c \in Conns, Leaving(c)
  PROVE  SightInv'
<1> USE DEF IInv
<1>1. /\ pc'[c] \in {"offline", "byes", "done"}
      /\ OthersStay(c)
      /\ UNCHANGED <<others, renamed>>
      /\ \A d \in Conns \ {c} : targets'[d] = targets[d] /\ sock'[d] = sock[d]
      /\ \A d \in Conns : username[d] # None => pc'[d] = "done" \/ username'[d] # None
  BY DEF Leaving, OthersStay
<1>2. \A d \in Conns : pc[d] = "done" => pc'[d] = "done"
  BY DEF Leaving, OthersStay
<1>3. \A d \in Conns : Present(d)' => /\ d # c /\ Present(d)
                                     /\ pc'[d] = pc[d] /\ username'[d] = username[d]
  BY <1>1 DEF Present, OthersStay, InLoop
<1>4. CASE pc'[c] # "offline"
  <2>1. \A d \in Conns \ {c} : roster'[d] = roster[d]
    BY <1>4 DEF Leaving
  <2> QED
    BY <1>1, <1>2, <1>3, <1>4, <2>1, SightsStay DEF OthersStay
<1>5. CASE pc'[c] = "offline"
  <2>1. username' = username
    BY <1>5 DEF Leaving
  <2>2. PICK rest \in SUBSET Conns :
          /\ Announcing(c, rest, "offline")
          /\ \/ pc[c] = "offline" /\ rest = targets[c]
             \/ Holds(c) /\ rest = Audience(Released(c), username[c])
    BY <1>5, ReleasedType, AudienceType DEF Leaving, TypeOK
  <2>3. ToldWhenNamed'
    <3>1. SUFFICES ASSUME NEW e \in Conns, pc'[e] = "offline", NEW t \in targets'[e]
                   PROVE  pc'[t] = "done" \/ username'[t] # None
      BY DEF ToldWhenNamed
    <3>2. CASE e = c
      <4>1. t \in rest
        BY <2>2, <3>1, <3>2 DEF Announcing
      <4> QED
        BY <1>2, <2>1, <2>2, <4>1, AudienceIsNamed DEF SightInv, ToldWhenNamed
    <3>3. CASE e # c
      <4>1. pc[e] = "offline" /\ t \in targets[e] /\ t \in Conns
        BY <1>1, <3>1, <3>3 DEF OthersStay, TypeOK
      <4> QED
        BY <1>2, <2>1, <4>1 DEF SightInv, ToldWhenNamed
    <3> QED
      BY <3>2, <3>3
  <2>4. ASSUME NEW a \in Conns, NEW b \in Conns, Present(a)', Present(b)', Sighted(a, b)
        PROVE  Sighted(a, b)'
    <3>1. ~(a \in rest /\ username[b] = username[c])
      <4>1. Present(b) /\ b # c
        BY <1>3, <2>4
      <4>2. CASE pc[c] = "offline" /\ rest = targets[c]
        BY <2>4, <4>2 DEF Sighted, Doomed
      <4>3. CASE Holds(c)
        BY <4>1, <4>3, OwnName DEF Present, Holds
      <4> QED
        BY <2>2, <4>2, <4>3
    <3>2. Listed(a, b)'
      <4>1. /\ pc'[a] = pc[a] /\ username'[b] = username[b] /\ others' = others
            /\ Listed(a, b)
        BY <1>1, <1>3, <2>4 DEF Sighted
      <4>2. username[b] \in roster[a] => username[b] \in roster'[a]
        BY <2>2, <3>1 DEF Announcing, Announced
      <4> QED
        BY <4>1, <4>2 DEF Listed
    <3>3. ~Doomed(a, b)'
      <4>1. SUFFICES ASSUME NEW e \in Conns, pc'[e] = "offline",
                            username'[e] = username'[b], a \in targets'[e]
                     PROVE  FALSE
        BY DEF Doomed
      <4>2. CASE e = c
        BY <2>1, <2>2, <3>1, <4>1, <4>2 DEF Announcing
      <4>3. CASE e # c
        <5>1. pc[e] = "offline" /\ username[e] = username[b] /\ a \in targets[e]
          BY <1>1, <2>1, <4>1, <4>3 DEF OthersStay
        <5> QED
          BY <2>4, <5>1 DEF Sighted, Doomed
      <4> QED
        BY <4>2, <4>3
    <3> QED
      BY <3>2, <3>3 DEF Sighted
  <2>5. OneSeesTheOther'
    BY <1>3, <2>4 DEF SightInv, OneSeesTheOther
  <2> QED
    BY <2>3, <2>5 DEF SightInv
<1> QED
  BY <1>4, <1>5

\* Every step keeps one of two clients in the sight of the other.
LEMMA SightStep ==
  ASSUME IInv, SightInv, [Next]_vars
  PROVE  SightInv'
<1> USE DEF IInv
<1>1. ASSUME NEW c \in Conns, Connect(c)
      PROVE  SightInv'
  <2>1. /\ pc[c] = "idle" /\ pc' = [pc EXCEPT ![c] = "recv"]
        /\ UNCHANGED <<username, others, targets, roster, renamed>>
        /\ \A d \in Conns \ {c} : sock'[d] = sock[d]
        /\ username[c] = None
    BY <1>1 DEF Connect, history, Named, TypeOK
  <2> QED
    BY <2>1, SightsStay DEF Present, TypeOK
<1>2. ASSUME NEW c \in Conns, Disconnect(c)
      PROVE  SightInv'
  <2>1. /\ UNCHANGED <<pc, username, others, targets, renamed>>
        /\ sock'[c] = "closed"
        /\ \A d \in Conns \ {c} : roster'[d] = roster[d] /\ sock'[d] = sock[d]
    BY <1>2 DEF Disconnect, Close, handlers, TypeOK
  <2> QED
    BY <2>1, SightsStay DEF Present
<1>3. ASSUME NEW c \in Conns, RegisterReply(c)
      PROVE  SightInv'
  <2>1. /\ pc[c] = "mint" /\ pc' = [pc EXCEPT ![c] = "replied"]
        /\ UNCHANGED <<username, sock, renamed>>
        /\ \A d \in Conns \ {c} : /\ others'[d] = others[d]
                                  /\ targets'[d] = targets[d]
                                  /\ roster'[d] = roster[d]
        /\ c \in Watched /\ sock[c] = "open" => roster'[c] = others[c]
    BY <1>3 DEF RegisterReply, history, TypeOK
  <2>2. ToldWhenNamed'
    BY <2>1 DEF SightInv, ToldWhenNamed, TypeOK
  <2>3. ASSUME NEW a \in Conns, NEW b \in Conns, Present(a)', Sighted(a, b)
        PROVE  Sighted(a, b)'
    <3>1. Listed(a, b)'
      BY <2>1, <2>3 DEF Sighted, Listed, Present, TypeOK
    <3>2. ~Doomed(a, b)'
      BY <2>1, <2>3 DEF Sighted, Doomed, TypeOK
    <3> QED
      BY <3>1, <3>2 DEF Sighted
  <2>4. \A d \in Conns : Present(d)' => Present(d)
    BY <2>1 DEF Present, InLoop, TypeOK
  <2> QED
    BY <2>2, <2>3, <2>4 DEF SightInv, OneSeesTheOther
<1>4. ASSUME NEW c \in Conns, Talking(c)
      PROVE  SightInv'
  <2>1. /\ pc[c] \in {"recv", "sent"} /\ pc'[c] \in {"recv", "sent"}
        /\ \A d \in Conns \ {c} : pc'[d] = pc[d] /\ targets'[d] = targets[d]
        /\ UNCHANGED <<username, others, sock, roster, renamed>>
    BY <1>4 DEF Talking
  <2> QED
    BY <2>1, SightsStay DEF Present, InLoop
<1>5. ASSUME NEW c \in Conns, Joining(c)
      PROVE  SightInv'
  <2>1. /\ pc[c] \in {"replied", "online"} /\ pc'[c] \in {"online", "recv"}
        /\ OthersStay(c)
        /\ UNCHANGED <<username, others, sock, renamed>>
        /\ \A d \in Conns \ {c} : targets'[d] = targets[d]
        /\ \A d \in Conns : roster[d] \subseteq roster'[d]
    BY <1>5 DEF Joining, Announcing, Announced
  <2> QED
    BY <2>1, SightsStay DEF Present, OthersStay, InLoop
<1>6. CASE UNCHANGED vars
  BY <1>6, SightsStay DEF vars, handlers, history, Present
<1> QED
  BY <1>1, <1>2, <1>3, <1>4, <1>5, <1>6, NewcomerSees, LeaverIsForgotten, StepKinds

\* Two registered clients are never hidden from each other: the one that
\* registered last has the other in its list, and no announcement of a previous
\* holder of the name is left to strike it out (server.py:355, 571).
THEOREM SomebodySees == Spec => []NoMutualBlindness
<1>1. Init => SightInv
  BY DEF Init, SightInv, ToldWhenNamed, OneSeesTheOther, Present
<1>2. IInv /\ SightInv /\ [Next]_vars => SightInv'
  BY SightStep
<1>3. SightInv => NoMutualBlindness
  <2>1. \A c \in Watched \ renamed : Confirmed(c) => c \in Conns /\ Present(c) /\ pc[c] # "mint"
    BY ServerAssumption DEF Confirmed, Present, InLoop
  <2>2. \A c, d : pc[c] # "mint" /\ Sighted(c, d) => Lists(c, d)
    BY DEF Sighted, Listed, Lists
  <2> QED
    BY <2>1, <2>2 DEF SightInv, OneSeesTheOther, NoMutualBlindness
<1> QED
  BY <1>1, <1>2, <1>3, Invariance, PTL DEF Spec

-----------------------------------------------------------------------------
(***************************************************************************)
(* Who believes in a call is told of its end.                              *)
(***************************************************************************)

\* A belief stays sound while its client keeps its name, the call stays in the
\* books under that name and no BYE that is due is forgotten.
LEMMA SoundStays ==
  ASSUME NEW d \in Conns, NEW k \in Ids, Sound(d, k),
         Believes(d, k)' => Believes(d, k) /\ username'[d] = username[d],
         lost \subseteq lost',
         Believes(d, k)' => (Involves(k, username[d]) => Involves(k, username[d])'),
         Believes(d, k)' => (ByeDue(k, username[d]) => ByeDue(k, username[d])')
  PROVE  Sound(d, k)'
<1>1. LostTrack(k) => LostTrack(k)'
  BY DEF LostTrack, LostBy
<1> QED
  BY <1>1 DEF Sound

\* Nobody comes to believe in a call where beliefs are only given up and no
\* connection goes back to the start.
LEMMA StartedStays ==
  ASSUME TypeOK, Started,
         \A k \in Ids : live'[k] \subseteq live[k],
         \A c \in Conns : pc'[c] = "idle" => pc[c] = "idle"
  PROVE  Started'
<1>1. ASSUME NEW k \in Ids, NEW c \in live'[k]
      PROVE  pc'[c] # "idle"
  <2>1. c \in live[k] /\ c \in Conns
    BY <1>1 DEF TypeOK
  <2> QED
    BY <2>1 DEF Started
<1> QED
  BY <1>1 DEF Started

\* A step that neither places nor ends a call, nor leaves the loop, keeps all
\* beliefs sound.
LEMMA BeliefsStay ==
  ASSUME TypeOK, BeliefInv, UNCHANGED <<dialogs, ended, live, lost>>,
         \A d \in Conns : sock'[d] = "open" => sock[d] = "open",
         \A d \in Conns : pc'[d] \in InLoop => pc[d] \in InLoop /\ username'[d] = username[d],
         \A d \in Conns : pc'[d] = "idle" => pc[d] = "idle",
         \A d \in Conns : pc[d] = "byes" => pc'[d] = "byes"
  PROVE  BeliefInv'
<1>1. Started' /\ ByesAreSent'
  BY DEF BeliefInv, Started, ByesAreSent, TypeOK
<1>2. ASSUME NEW d \in Conns, NEW k \in Ids
      PROVE  Sound(d, k)'
  BY SoundStays DEF BeliefInv, Believes, Involves, ByeDue
<1> QED
  BY <1>1, <1>2 DEF BeliefInv

\* One step of the loop of BYEs: those who are sent one believe no longer, and
\* the others' are still due.
LEMMA NextByeTells ==
  ASSUME TypeOK, NEW c \in Conns, NEW rest \in SUBSET (Users \X CallIds),
         NEW registry \in [Users -> Conns \cup {None}],
         NextBye(c, rest, registry)
  PROVE  /\ \A k \in Ids : live'[k] \subseteq live[k]
         /\ \A d \in Conns \ {c} :
              /\ ended'[d] = ended[d]
              /\ sock'[d] = "open" => sock[d] = "open"
         /\ ended'[c] # {} => pc'[c] = "byes"
         /\ \A d \in Conns \ {c}, k \in Ids :
              /\ <<username[d], k>> \in rest
              /\ registry[username[d]] = d
              /\ Believes(d, k)'
              => <<username[d], k>> \in ended'[c]
<1>1. ASSUME NEW skipped \in SUBSET PartnerGone(rest, registry), skipped = rest,
             ended' = [ended EXCEPT ![c] = {}], HandlerReturns(c)
      PROVE  /\ \A k \in Ids : live'[k] \subseteq live[k]
             /\ \A d \in Conns \ {c} :
                  /\ ended'[d] = ended[d]
                  /\ sock'[d] = "open" => sock[d] = "open"
             /\ ended'[c] # {} => pc'[c] = "byes"
             /\ \A d \in Conns \ {c}, k \in Ids :
                  /\ <<username[d], k>> \in rest
                  /\ registry[username[d]] = d
                  /\ Believes(d, k)'
                  => <<username[d], k>> \in ended'[c]
  <2>1. /\ \A k \in Ids : live'[k] \subseteq live[k]
        /\ \A d \in Conns \ {c} : ended'[d] = ended[d] /\ sock'[d] = sock[d]
        /\ ended'[c] = {}
    BY <1>1 DEF HandlerReturns, Close, TypeOK
  <2>2. ASSUME NEW d \in Conns, NEW k \in Ids,
               <<username[d], k>> \in rest, registry[username[d]] = d
        PROVE  FALSE
    BY <1>1, <2>2, ServerAssumption DEF PartnerGone
  <2> QED
    BY <2>1, <2>2
<1>2. ASSUME NEW skipped \in SUBSET PartnerGone(rest, registry),
             NEW e \in rest \ skipped, registry[e[1]] # None,
             pc' = [pc EXCEPT ![c] = "byes"],
             ended' = [ended EXCEPT ![c] = rest \ (skipped \cup {e})],
             live' = [live EXCEPT ![e[2]] = @ \ Receiver(registry[e[1]])],
             UNCHANGED <<username, sock, roster>>
      PROVE  /\ \A k \in Ids : live'[k] \subseteq live[k]
             /\ \A d \in Conns \ {c} :
                  /\ ended'[d] = ended[d]
                  /\ sock'[d] = "open" => sock[d] = "open"
             /\ ended'[c] # {} => pc'[c] = "byes"
             /\ \A d \in Conns \ {c}, k \in Ids :
                  /\ <<username[d], k>> \in rest
                  /\ registry[username[d]] = d
                  /\ Believes(d, k)'
                  => <<username[d], k>> \in ended'[c]
  <2>1. /\ \A k \in Ids : live'[k] \subseteq live[k]
        /\ \A d \in Conns \ {c} : ended'[d] = ended[d] /\ sock'[d] = sock[d]
        /\ ended'[c] = rest \ (skipped \cup {e}) /\ pc'[c] = "byes"
    BY <1>2 DEF TypeOK
  <2>2. ASSUME NEW d \in Conns, NEW k \in Ids, e = <<username[d], k>>,
               registry[username[d]] = d, Believes(d, k)'
        PROVE  FALSE
    <3>1. e[1] = username[d] /\ e[2] = k
      BY <2>2
    <3>2. live'[k] = live[k] \ Receiver(d)
      BY <1>2, <2>2, <3>1 DEF TypeOK
    <3>3. sock[d] = "open" /\ d \in live'[k]
      BY <1>2, <2>2 DEF Believes
    <3> QED
      BY <3>2, <3>3 DEF Receiver
  <2>3. ASSUME NEW d \in Conns, NEW k \in Ids,
               <<username[d], k>> \in skipped, registry[username[d]] = d
        PROVE  FALSE
    BY <1>2, <2>3, ServerAssumption DEF PartnerGone
  <2> QED
    BY <2>1, <2>2, <2>3
<1> QED
  BY <1>1, <1>2 DEF NextBye

\* The clean-up after a name leaves no believer behind: the other party is told,
\* and whoever has taken the name meanwhile has lost the call.
LEMMA CleanUpTells ==
  ASSUME IInv, BeliefInv, NEW c \in Conns, pc[c] # "byes",
         NEW registry \in [Users -> Conns \cup {None}],
         \A d \in Conns \ {c} : pc[d] \in InLoop /\ username[d] # None =>
                                  registry[username[d]] = d,
         username[c] \in Users,
         CleanUp(c, registry)
  PROVE  BeliefInv'
<1> USE DEF IInv
<1> DEFINE u    == username[c]
           mine == DialogsOf(u)
           due  == {<<OtherParty(k, u), k>> : k \in mine}
<1>1. /\ dialogs' = [k \in Ids |-> IF k \in mine THEN None ELSE dialogs[k]]
      /\ lost' = lost \cup
           IF registry[u] = None THEN {} ELSE {<<k, "reclaimed">> : k \in mine}
      /\ NextBye(c, due, registry)
  BY DEF CleanUp
<1>2. due \in SUBSET (Users \X CallIds)
  <2>1. ASSUME NEW k \in mine
        PROVE  k \in CallIds /\ OtherParty(k, u) \in Users
    BY <2>1 DEF TypeOK, DialogsOf, Involves, OtherParty, Dialogs, Ids
  <2> QED
    BY <2>1
<1>3. mine \subseteq Ids
  BY DEF DialogsOf
<1>4. /\ \A k \in Ids : live'[k] \subseteq live[k]
      /\ \A d \in Conns \ {c} : /\ ended'[d] = ended[d]
                                /\ sock'[d] = "open" => sock[d] = "open"
      /\ ended'[c] # {} => pc'[c] = "byes"
      /\ \A d \in Conns \ {c}, k \in Ids :
           /\ <<username[d], k>> \in due
           /\ registry[username[d]] = d
           /\ Believes(d, k)'
           => <<username[d], k>> \in ended'[c]
  BY <1>1, <1>2, NextByeTells
<1>5. OthersStay(c) /\ pc'[c] \in {"byes", "done"}
  BY <1>1, NextByeMoves
<1>6. ended[c] = {}
  BY DEF BeliefInv, ByesAreSent
<1>7. ByesAreSent'
  BY <1>4, <1>5 DEF BeliefInv, ByesAreSent, OthersStay
<1>8. Started'
  BY <1>4, <1>5, StartedStays DEF BeliefInv, OthersStay
<1>9. ASSUME NEW d \in Conns, NEW k \in Ids, Believes(d, k)'
      PROVE  Sound(d, k)'
  <2>1. d # c /\ username'[d] = username[d]
    BY <1>5, <1>9 DEF Believes, OthersStay, InLoop
  <2>2. Believes(d, k) /\ Sound(d, k)
    BY <1>4, <1>5, <1>9, <2>1 DEF Believes, OthersStay, BeliefInv
  <2>3. lost \subseteq lost'
    BY <1>1
  <2>4. CASE k \notin mine
    <3>1. ByeDue(k, username[d]) => ByeDue(k, username[d])'
      BY <1>4, <1>6, <2>1 DEF ByeDue
    <3>2. Involves(k, username[d]) => Involves(k, username[d])'
      BY <1>1, <2>1, <2>4 DEF Involves
    <3> QED
      BY <2>1, <2>2, <2>3, <3>1, <3>2, SoundStays
  <2>5. CASE k \in mine
    <3>1. CASE LostTrack(k)
      BY <2>3, <3>1 DEF Sound, LostTrack, LostBy
    <3>2. CASE ByeDue(k, username[d])
      BY <1>4, <1>6, <2>1, <3>2 DEF Sound, ByeDue
    <3>3. CASE Involves(k, username[d])
      <4>2. /\ dialogs[k] # None /\ u \in {dialogs[k].caller, dialogs[k].callee}
            /\ username[d] \in {dialogs[k].caller, dialogs[k].callee}
        BY <2>5, <3>3 DEF DialogsOf, Involves
      <4>3. username[d] \in Users /\ registry[username[d]] = d
        <5>1. dialogs[k] \in Dialogs
          BY <4>2 DEF TypeOK
        <5>2. username[d] \in Users
          BY <4>2, <5>1 DEF Dialogs
        <5>3. username[d] # None /\ pc[d] \in InLoop
          BY <2>2, <5>2, ServerAssumption DEF Believes
        <5> QED
          BY <2>1, <5>2, <5>3
      <4>4. CASE username[d] = OtherParty(k, u)
        <5>1. <<username[d], k>> \in due
          BY <2>5, <4>4
        <5>2. <<username[d], k>> \in ended'[c]
          BY <1>4, <1>9, <2>1, <4>3, <5>1
        <5>3. ByeDue(k, username[d])'
          BY <2>1, <5>2 DEF ByeDue
        <5> QED
          BY <5>3 DEF Sound
      <4>5. CASE username[d] = u
        <5>1. <<k, "reclaimed">> \in lost'
          BY <1>1, <2>5, <4>3, <4>5, ServerAssumption
        <5> QED
          BY <5>1 DEF Sound, LostTrack, LostBy, Causes
      <4> QED
        BY <4>2, <4>4, <4>5 DEF OtherParty
    <3> QED
      BY <2>2, <3>1, <3>2, <3>3 DEF Sound
  <2> QED
    BY <2>4, <2>5
<1>10. \A d \in Conns, k \in Ids : Sound(d, k)'
  BY <1>9 DEF Sound
<1> QED
  BY <1>7, <1>8, <1>10 DEF BeliefInv

\* A connection opens, or closes: nobody comes to believe in a call.
LEMMA OpeningKeepsBeliefs ==
  ASSUME IInv, BeliefInv, NEW c \in Conns, Connect(c) \/ Disconnect(c)
  PROVE  BeliefInv'
<1> USE DEF IInv
<1>1. /\ UNCHANGED <<dialogs, username, ended, lost>>
      /\ \A d \in Conns \ {c} : pc'[d] = pc[d] /\ sock'[d] = sock[d]
      /\ \A k \in Ids : live'[k] \subseteq live[k]
      /\ \/ pc[c] = "idle" /\ pc'[c] = "recv"
         \/ pc' = pc /\ sock'[c] = "closed"
  BY DEF Connect, Disconnect, Close, server, handlers, history, TypeOK
<1>2. ByesAreSent'
  BY <1>1 DEF BeliefInv, ByesAreSent
<1>3. Started'
  BY <1>1, StartedStays DEF BeliefInv
<1>4. ASSUME NEW d \in Conns, NEW k \in Ids
      PROVE  Sound(d, k)'
  <2>1. Believes(d, k)' => Believes(d, k)
    BY <1>1 DEF Believes, BeliefInv, Started
  <2>2. /\ ByeDue(k, username[d]) => ByeDue(k, username[d])'
        /\ Involves(k, username[d]) => Involves(k, username[d])'
    BY <1>1 DEF ByeDue, Involves
  <2> QED
    BY <1>1, <2>1, <2>2, SoundStays DEF BeliefInv
<1> QED
  BY <1>2, <1>3, <1>4 DEF BeliefInv

\* Whoever registers under another name is no party of its calls any more, which
\* is on record.
LEMMA RegisterKeepsBeliefs ==
  ASSUME IInv, BeliefInv, NEW c \in Conns, NEW u \in Users, Register(c, u)
  PROVE  BeliefInv'
<1> USE DEF IInv
<1>1. /\ pc[c] = "recv" /\ pc' = [pc EXCEPT ![c] = "mint"]
      /\ username' = [username EXCEPT ![c] = u]
      /\ UNCHANGED <<dialogs, ended, sock, live>>
      /\ lost \subseteq lost'
      /\ username[c] \notin {None, u} =>
           \A k \in CallsOf(username[c]) : <<k, "renamed">> \in lost'
  BY DEF Register
<1>2. ByesAreSent'
  BY <1>1 DEF BeliefInv, ByesAreSent, TypeOK
<1>3. Started'
  BY <1>1, StartedStays DEF BeliefInv, TypeOK
<1>4. ASSUME NEW d \in Conns, NEW k \in Ids, d # c \/ username[c] = u
      PROVE  Sound(d, k)'
  <2>1. Believes(d, k)' => Believes(d, k) /\ username'[d] = username[d]
    BY <1>1, <1>4 DEF Believes, InLoop, TypeOK
  <2>2. /\ ByeDue(k, username[d]) => ByeDue(k, username[d])'
        /\ Involves(k, username[d]) => Involves(k, username[d])'
    BY <1>1, <1>4 DEF ByeDue, Involves, TypeOK
  <2> QED
    BY <1>1, <2>1, <2>2, SoundStays DEF BeliefInv
<1>5. ASSUME NEW k \in Ids, username[c] # u, Believes(c, k)'
      PROVE  LostTrack(k)'
  <2>1. Believes(c, k) /\ Sound(c, k)
    BY <1>1, <1>5 DEF Believes, InLoop, BeliefInv
  <2>2. CASE LostTrack(k)
    BY <1>1, <2>2 DEF LostTrack, LostBy
  <2>3. CASE Involves(k, username[c]) \/ ByeDue(k, username[c])
    <3>1. username[c] \in Users
      BY <2>3 DEF Involves, ByeDue, TypeOK, Dialogs
    <3>2. k \in CallsOf(username[c])
      BY <2>3 DEF CallsOf
    <3>3. <<k, "renamed">> \in lost'
      BY <1>1, <1>5, <3>1, <3>2, ServerAssumption
    <3> QED
      BY <3>3 DEF LostTrack, LostBy, Causes
  <2> QED
    BY <2>1, <2>2, <2>3 DEF Sound
<1>6. \A d \in Conns, k \in Ids : Sound(d, k)'
  BY <1>4, <1>5 DEF Sound
<1> QED
  BY <1>2, <1>3, <1>6 DEF BeliefInv

\* A call with an id is in the books when its two parties come to believe in it, and
\* whoever believed in another call of that id is one of them, or is lost track of.
LEMMA InviteKeepsBeliefs ==
  ASSUME IInv, BeliefInv, NEW c \in Conns, NEW u \in Users, NEW k \in Ids,
         Invite(c, u, k)
  PROVE  BeliefInv'
<1> USE DEF IInv
<1> DEFINE t == connections[u]
<1>1. /\ pc[c] = "recv" /\ username[c] # None /\ t # None
      /\ dialogs' = Filed(k, [caller |-> username[c], callee |-> u, state |-> "ringing"])
      /\ live' = [live EXCEPT ![k] = @ \cup Receiver(c) \cup Receiver(t)]
      /\ lost' = lost \cup Crossed(k, username[c], u)
                      \cup IF k = NoId THEN {<<k, "unrecorded">>} ELSE {}
      /\ pc' = [pc EXCEPT ![c] = "sent"]
      /\ UNCHANGED <<username, ended, sock>>
  BY DEF Invite, Send
<1>2. t \in Conns /\ pc[t] \in InLoop /\ username[t] = u
  BY <1>1 DEF TypeOK, RegistryOwned
<1>3. username[c] \in Users
  BY <1>1 DEF TypeOK
<1>4. k # NoId =>
        \A v : v \in {username[c], u} => dialogs'[k] # None
                 /\ v \in {dialogs'[k].caller, dialogs'[k].callee}
  <2>1. SUFFICES ASSUME k # NoId
                 PROVE  \A v : v \in {username[c], u} => dialogs'[k] # None
                          /\ v \in {dialogs'[k].caller, dialogs'[k].callee}
    OBVIOUS
  <2>2. dialogs'[k] = [caller |-> username[c], callee |-> u, state |-> "ringing"]
    BY <1>1, <2>1 DEF TypeOK, Filed
  <2>3. dialogs'[k] \in Dialogs
    BY <1>3, <2>2 DEF Dialogs
  <2>4. dialogs'[k] # None
    BY <2>3, NoneIsNoDialog
  <2> QED
    BY <2>2, <2>4
<1>5. live'[k] \subseteq live[k] \cup {c, t}
  BY <1>1 DEF Receiver, TypeOK
<1>6. \A j \in Ids \ {k} : dialogs'[j] = dialogs[j] /\ live'[j] = live[j]
  BY <1>1 DEF TypeOK, Filed
<1>7. \A d \in Conns : pc'[d] # "idle" <=> pc[d] # "idle"
  BY <1>1 DEF TypeOK
<1>8. ByesAreSent'
  BY <1>1 DEF BeliefInv, ByesAreSent, TypeOK
<1>9. Started'
  <2>1. ASSUME NEW j \in Ids, NEW d \in live'[j]
        PROVE  pc'[d] # "idle"
    <3>1. d \in live[j] \/ d \in {c, t}
      BY <1>5, <1>6, <2>1
    <3>2. d \in Conns
      BY <1>2, <3>1 DEF TypeOK
    <3>3. pc[d] # "idle"
      BY <1>1, <1>2, <3>1 DEF BeliefInv, Started, InLoop
    <3> QED
      BY <1>7, <3>2, <3>3
  <2> QED
    BY <2>1 DEF Started
<1>10. lost \subseteq lost'
  BY <1>1
<1>11. ASSUME NEW d \in Conns
       PROVE  Sound(d, k)'
  <2>1. CASE k = NoId
    <3>1. <<k, "unrecorded">> \in lost'
      BY <1>1, <2>1
    <3> QED
      BY <3>1 DEF Sound, LostTrack, LostBy, Causes
  <2>2. CASE k # NoId /\ username[d] \in {username[c], u}
    <3>1. Involves(k, username[d])'
      BY <1>1, <1>4, <2>2 DEF Involves
    <3> QED
      BY <3>1 DEF Sound
  <2>3. CASE k # NoId /\ username[d] \notin {username[c], u}
    <3>1. SUFFICES ASSUME Believes(d, k)'
                   PROVE  Involves(k, username[d])' \/ ByeDue(k, username[d])'
                            \/ LostTrack(k)'
      BY DEF Sound
    <3>2. d \notin {c, t}
      BY <1>2, <2>3
    <3>3. Believes(d, k)
      BY <1>1, <1>5, <3>1, <3>2 DEF Believes, TypeOK
    <3>4. CASE LostTrack(k)
      BY <1>10, <3>4 DEF LostTrack, LostBy
    <3>5. CASE ByeDue(k, username[d])
      BY <1>1, <3>5 DEF ByeDue
    <3>6. CASE Involves(k, username[d])
      <4>1. <<k, "crossed">> \in Crossed(k, username[c], u)
        BY <2>3, <3>6 DEF Crossed, Involves
      <4>2. <<k, "crossed">> \in lost'
        BY <1>1, <4>1
      <4> QED
        BY <4>2 DEF LostTrack, LostBy, Causes
    <3> QED
      BY <3>3, <3>4, <3>5, <3>6 DEF BeliefInv, Sound
  <2> QED
    BY <2>1, <2>2, <2>3
<1>12. ASSUME NEW d \in Conns, NEW j \in Ids \ {k}
       PROVE  Sound(d, j)'
  <2>1. Believes(d, j)' => Believes(d, j) /\ username'[d] = username[d]
    BY <1>1, <1>6 DEF Believes, InLoop, TypeOK
  <2>2. /\ ByeDue(j, username[d]) => ByeDue(j, username[d])'
        /\ Involves(j, username[d]) => Involves(j, username[d])'
    BY <1>1, <1>6 DEF ByeDue, Involves
  <2> QED
    BY <1>10, <2>1, <2>2, SoundStays DEF BeliefInv
<1>13. \A d \in Conns, j \in Ids : Sound(d, j)'
  BY <1>11, <1>12
<1> QED
  BY <1>8, <1>9, <1>13 DEF BeliefInv

\* An answer changes the state of the call, and neither party of it.
LEMMA AnswerKeepsBeliefs ==
  ASSUME IInv, BeliefInv, NEW c \in Conns, NEW u \in Users, NEW k \in Ids,
         Answer(c, u, k)
  PROVE  BeliefInv'
<1> USE DEF IInv
<1>1. /\ pc[c] = "recv" /\ pc' = [pc EXCEPT ![c] = "sent"]
      /\ dialogs' = IF dialogs[k] = None THEN dialogs
                    ELSE [dialogs EXCEPT ![k].state = "active"]
      /\ UNCHANGED <<username, ended, sock, live, lost>>
  BY DEF Answer, Send, history
<1>2. ASSUME NEW j \in Ids, NEW v, Involves(j, v)
      PROVE  Involves(j, v)'
  <2>1. CASE j # k \/ dialogs[k] = None
    BY <1>1, <1>2, <2>1 DEF TypeOK, Involves
  <2>2. CASE j = k /\ dialogs[k] # None
    <3>1. dialogs[k] \in Dialogs /\ dialogs'[k] = [dialogs[k] EXCEPT !.state = "active"]
      BY <1>1, <2>2 DEF TypeOK
    <3>2. /\ dialogs'[k] \in Dialogs
          /\ dialogs'[k].caller = dialogs[k].caller
          /\ dialogs'[k].callee = dialogs[k].callee
      BY <3>1 DEF Dialogs
    <3>3. dialogs'[k] # None
      BY <3>2, NoneIsNoDialog
    <3> QED
      BY <1>2, <2>2, <3>2, <3>3 DEF Involves
  <2> QED
    BY <2>1, <2>2
<1>3. ByesAreSent'
  BY <1>1 DEF BeliefInv, ByesAreSent, TypeOK
<1>4. Started'
  BY <1>1, StartedStays DEF BeliefInv, TypeOK
<1>5. ASSUME NEW d \in Conns, NEW j \in Ids
      PROVE  Sound(d, j)'
  <2>1. Believes(d, j)' => Believes(d, j) /\ username'[d] = username[d]
    BY <1>1 DEF Believes, InLoop, TypeOK
  <2>2. ByeDue(j, username[d]) => ByeDue(j, username[d])'
    BY <1>1 DEF ByeDue
  <2>3. Involves(j, username[d]) => Involves(j, username[d])'
    BY <1>1, <1>2 DEF Involves
  <2> QED
    BY <1>1, <2>1, <2>2, <2>3, SoundStays DEF BeliefInv
<1> QED
  BY <1>3, <1>4, <1>5 DEF BeliefInv

\* Whoever ends a call tells whom it names, and nobody else is a party of it, but for
\* those who are lost track of.
LEMMA EndKeepsBeliefs ==
  ASSUME IInv, BeliefInv, NEW c \in Conns, NEW u \in Users, NEW k \in Ids,
         EndCall(c, u, k)
  PROVE  BeliefInv'
<1> USE DEF IInv
<1> DEFINE t == connections[u]
<1>1. /\ pc[c] = "recv" /\ username[c] # None
      /\ pc'[c] \in {"recv", "sent"} /\ \A d \in Conns \ {c} : pc'[d] = pc[d]
      /\ dialogs' = Filed(k, None)
      /\ lost' = lost \cup Crossed(k, username[c], u)
      /\ live' = [live EXCEPT ![k] = @ \ ({c} \cup IF t = None THEN {} ELSE Receiver(t))]
      /\ UNCHANGED <<username, ended, sock>>
  BY DEF EndCall, Removed, Send, TypeOK
<1>2. ByesAreSent'
  BY <1>1 DEF BeliefInv, ByesAreSent, TypeOK
<1>3. /\ \A j \in Ids : live'[j] \subseteq live[j]
      /\ \A j \in Ids \ {k} : dialogs'[j] = dialogs[j]
      /\ live'[k] = live[k] \ ({c} \cup IF t = None THEN {} ELSE Receiver(t))
  BY <1>1 DEF TypeOK, Filed
<1>4. Started'
  BY <1>1, <1>3, StartedStays DEF BeliefInv
<1>5. ASSUME NEW d \in Conns, NEW j \in Ids
      PROVE  /\ Believes(d, j)' => Believes(d, j) /\ username'[d] = username[d]
             /\ ByeDue(j, username[d]) => ByeDue(j, username[d])'
  BY <1>1, <1>3 DEF Believes, ByeDue, InLoop
<1>6. ASSUME NEW d \in Conns, NEW j \in Ids \ {k}
      PROVE  Sound(d, j)'
  <2>1. Involves(j, username[d]) => Involves(j, username[d])'
    BY <1>1, <1>3 DEF Involves
  <2> QED
    BY <1>1, <1>5, <2>1, SoundStays DEF BeliefInv
<1>7. ASSUME NEW d \in Conns, Believes(d, k)'
      PROVE  ByeDue(k, username[d])' \/ LostTrack(k)'
  <2>1. Believes(d, k) /\ d # c
    BY <1>3, <1>5, <1>7 DEF Believes
  <2>2. CASE LostTrack(k)
    BY <1>1, <2>2 DEF LostTrack, LostBy
  <2>3. CASE ByeDue(k, username[d])
    BY <1>5, <2>3
  <2>4. CASE Involves(k, username[d])
    <3>1. username[d] \in Users /\ connections[username[d]] = d
      <4>1. username[d] \in Users
        BY <2>4 DEF Involves, TypeOK, Dialogs
      <4> QED
        BY <2>1, <4>1, OwnName, ServerAssumption DEF Believes
    <3>2. connections[username[c]] = c
      BY <1>1, OwnName DEF InLoop
    <3>3. username[d] # u
      <4>1. SUFFICES ASSUME username[d] = u
                     PROVE  FALSE
        OBVIOUS
      <4>2. t = d
        BY <3>1, <4>1
      <4>3. Receiver(t) = {d} /\ t # None
        BY <2>1, <4>2, ServerAssumption DEF Receiver, Believes
      <4> QED
        BY <1>3, <1>7, <4>3 DEF Believes
    <3>4. username[d] # username[c]
      BY <2>1, <3>1, <3>2
    <3>5. <<k, "crossed">> \in Crossed(k, username[c], u)
      BY <2>4, <3>3, <3>4 DEF Crossed, Involves
    <3>6. <<k, "crossed">> \in lost'
      BY <1>1, <3>5
    <3> QED
      BY <3>6 DEF LostTrack, LostBy, Causes
  <2> QED
    BY <2>1, <2>2, <2>3, <2>4 DEF BeliefInv, Sound
<1>8. \A d \in Conns : Sound(d, k)'
  BY <1>7 DEF Sound
<1>9. \A d \in Conns, j \in Ids : Sound(d, j)'
  BY <1>6, <1>8
<1> QED
  BY <1>2, <1>4, <1>9 DEF BeliefInv

\* A handler that returns has told everybody it had to, or it is on record whom
\* it has not.
LEMMA ReturnKeepsBeliefs ==
  ASSUME IInv, BeliefInv, NEW c \in Conns, HandlerReturns(c),
         UNCHANGED dialogs, lost \subseteq lost',
         ended' \in {ended, [ended EXCEPT ![c] = {}]},
         pc[c] # "byes" \/ ended'[c] = {},
         \A e \in ended[c] : LostTrack(e[2])'
  PROVE  BeliefInv'
<1> USE DEF IInv
<1>1. /\ OthersStay(c) /\ pc'[c] = "done"
      /\ \A k \in Ids : live'[k] \subseteq live[k]
      /\ \A d \in Conns \ {c} : sock'[d] = sock[d] /\ ended'[d] = ended[d]
      /\ ended'[c] = {}
  BY ReturnMoves DEF HandlerReturns, Close, TypeOK, BeliefInv, ByesAreSent
<1>2. ByesAreSent'
  BY <1>1 DEF BeliefInv, ByesAreSent, OthersStay
<1>3. Started'
  BY <1>1, StartedStays DEF BeliefInv, OthersStay
<1>4. ASSUME NEW d \in Conns, NEW k \in Ids, Believes(d, k)'
      PROVE  Sound(d, k)'
  <2>1. d # c /\ username'[d] = username[d] /\ Believes(d, k)
    BY <1>1, <1>4 DEF Believes, InLoop, OthersStay
  <2>2. CASE LostTrack(k)
    BY <2>2 DEF Sound, LostTrack, LostBy
  <2>3. CASE Involves(k, username[d]) \/ ByeDue(k, username[d])
    <3>1. Involves(k, username[d]) => Involves(k, username[d])'
      BY <2>1 DEF Involves
    <3>2. CASE <<username[d], k>> \in ended[c]
      <4>1. LostTrack(k)'
        BY <3>2
      <4> QED
        BY <4>1 DEF Sound
    <3>3. CASE <<username[d], k>> \notin ended[c]
      <4>1. ByeDue(k, username[d]) => ByeDue(k, username[d])'
        BY <1>1, <2>1, <3>3 DEF ByeDue
      <4> QED
        BY <2>3, <3>1, <4>1 DEF Sound
    <3> QED
      BY <3>2, <3>3
  <2> QED
    BY <2>1, <2>2, <2>3 DEF BeliefInv, Sound
<1>5. \A d \in Conns, k \in Ids : Sound(d, k)'
  BY <1>4 DEF Sound
<1> QED
  BY <1>2, <1>3, <1>5 DEF BeliefInv

\* A broadcast tells nobody of a call.
LEMMA BroadcastKeepsBeliefs ==
  ASSUME IInv, BeliefInv, NEW c \in Conns, pc[c] \in InLoop \cup {"offline"},
         NEW rest, BroadcastTo(c, rest, "offline"),
         UNCHANGED <<dialogs, username, ended, sock, live, lost>>
  PROVE  BeliefInv'
<1>1. OthersStay(c) /\ pc'[c] = "offline"
  BY BroadcastMoves DEF IInv
<1>2. /\ \A d \in Conns : pc'[d] \in InLoop => pc[d] \in InLoop
      /\ \A d \in Conns : pc'[d] = "idle" => pc[d] = "idle"
      /\ \A d \in Conns : pc[d] = "byes" => pc'[d] = "byes"
  BY <1>1 DEF OthersStay, InLoop
<1> QED
  BY <1>2, BeliefsStay DEF IInv

\* A handler that leaves its loop.
LEMMA FinallyKeepsBeliefs ==
  ASSUME IInv, BeliefInv, NEW c \in Conns, pc[c] \in InLoop, Finally(c)
  PROVE  BeliefInv'
<1> USE DEF IInv
<1>1. pc[c] # "byes" /\ ended[c] = {}
  BY DEF BeliefInv, ByesAreSent, InLoop
<1>2. CASE ~Holds(c)
  <2>1. HandlerReturns(c) /\ UNCHANGED <<dialogs, ended, lost>>
    BY <1>2 DEF Finally
  <2> QED
    BY <1>1, <2>1, ReturnKeepsBeliefs
<1>3. CASE Holds(c) /\ Audience(Released(c), username[c]) = {}
  <2>1. CleanUp(c, Released(c))
    BY <1>3 DEF Finally
  <2>2. username[c] \in Users
    BY <1>3 DEF Holds, TypeOK
  <2>3. Released(c) \in [Users -> Conns \cup {None}]
    BY ReleasedType
  <2>4. ASSUME NEW d \in Conns \ {c}, pc[d] \in InLoop, username[d] # None
        PROVE  Released(c)[username[d]] = d
    <3>1. username[d] \in Users /\ connections[username[d]] = d
      BY <2>4, OwnName
    <3> QED
      BY <1>3, <3>1 DEF Released, Holds, TypeOK
  <2> QED
    BY <1>1, <2>1, <2>2, <2>3, <2>4, CleanUpTells
<1>4. CASE Holds(c) /\ Audience(Released(c), username[c]) # {}
  <2>1. /\ BroadcastTo(c, Audience(Released(c), username[c]), "offline")
        /\ UNCHANGED <<dialogs, username, ended, sock, live, lost>>
    BY <1>4 DEF Finally
  <2> QED
    BY <1>1, <2>1, BroadcastKeepsBeliefs
<1> QED
  BY <1>2, <1>3, <1>4

\* The steps of "finally" after the first.
LEMMA OfflineKeepsBeliefs ==
  ASSUME IInv, BeliefInv, NEW c \in Conns, OfflineSent(c)
  PROVE  BeliefInv'
<1> USE DEF IInv
<1>1. pc[c] = "offline"
  BY DEF OfflineSent
<1>2. CASE /\ BroadcastTo(c, targets[c], "offline")
           /\ UNCHANGED <<dialogs, username, ended, sock, live, lost>>
  BY <1>1, <1>2, BroadcastKeepsBeliefs
<1>3. CASE CleanUp(c, connections)
  <2>1. username[c] \in Users
    BY <1>1 DEF Named, TypeOK
  <2>2. \A d \in Conns \ {c} :
          pc[d] \in InLoop /\ username[d] # None => connections[username[d]] = d
    BY OwnName
  <2>3. connections \in [Users -> Conns \cup {None}]
    BY DEF TypeOK
  <2> QED
    BY <1>1, <1>3, <2>1, <2>2, <2>3, CleanUpTells
<1> QED
  BY <1>2, <1>3 DEF OfflineSent

LEMMA ByeKeepsBeliefs ==
  ASSUME IInv, BeliefInv, NEW c \in Conns, ByeSent(c)
  PROVE  BeliefInv'
<1> USE DEF IInv
<1>1. /\ NextBye(c, ended[c], connections) /\ pc[c] = "byes"
      /\ UNCHANGED <<dialogs, lost>>
  BY DEF ByeSent, server
<1>2. /\ ended[c] \in SUBSET (Users \X CallIds)
      /\ connections \in [Users -> Conns \cup {None}]
  BY DEF TypeOK
<1>3. /\ \A k \in Ids : live'[k] \subseteq live[k]
      /\ \A d \in Conns \ {c} : /\ ended'[d] = ended[d]
                                /\ sock'[d] = "open" => sock[d] = "open"
      /\ ended'[c] # {} => pc'[c] = "byes"
      /\ \A d \in Conns \ {c}, k \in Ids :
           /\ <<username[d], k>> \in ended[c]
           /\ connections[username[d]] = d
           /\ Believes(d, k)'
           => <<username[d], k>> \in ended'[c]
  BY <1>1, <1>2, NextByeTells
<1>4. OthersStay(c) /\ pc'[c] \in {"byes", "done"}
  BY <1>1, NextByeMoves
<1>5. ByesAreSent'
  BY <1>3, <1>4 DEF BeliefInv, ByesAreSent, OthersStay
<1>6. Started'
  BY <1>3, <1>4, StartedStays DEF BeliefInv, OthersStay
<1>7. ASSUME NEW d \in Conns, NEW k \in Ids, Believes(d, k)'
      PROVE  Sound(d, k)'
  <2>1. d # c /\ username'[d] = username[d] /\ Believes(d, k)
    BY <1>3, <1>4, <1>7 DEF Believes, InLoop, OthersStay
  <2>2. CASE LostTrack(k)
    BY <1>1, <2>2 DEF Sound, LostTrack, LostBy
  <2>3. CASE Involves(k, username[d]) \/ ByeDue(k, username[d])
    <3>1. connections[username[d]] = d
      <4>1. username[d] # None
        BY <2>3, ServerAssumption DEF Involves, ByeDue, TypeOK, Dialogs
      <4> QED
        BY <2>1, <4>1, OwnName DEF Believes
    <3>2. ByeDue(k, username[d]) => ByeDue(k, username[d])'
      BY <1>3, <1>7, <2>1, <3>1 DEF ByeDue
    <3>3. Involves(k, username[d]) => Involves(k, username[d])'
      BY <1>1, <2>1 DEF Involves
    <3> QED
      BY <2>3, <3>2, <3>3 DEF Sound
  <2> QED
    BY <2>1, <2>2, <2>3 DEF BeliefInv, Sound
<1>8. \A d \in Conns, k \in Ids : Sound(d, k)'
  BY <1>7 DEF Sound
<1> QED
  BY <1>5, <1>6, <1>8 DEF BeliefInv

\* An invitation to a name that nobody holds makes nobody believe in the call.
LEMMA UnknownKeepsBeliefs ==
  ASSUME IInv, BeliefInv, NEW c \in Conns, NEW u \in Users, NEW k \in Ids,
         InviteUnknown(c, u, k)
  PROVE  BeliefInv'
<1> USE DEF IInv
<1>1. /\ pc[c] = "recv" /\ pc' = [pc EXCEPT ![c] = "sent"]
      /\ UNCHANGED <<dialogs, username, ended, sock, live, lost>>
  BY DEF InviteUnknown, Send, server
<1>2. /\ \A d \in Conns : pc'[d] \in InLoop => pc[d] \in InLoop
      /\ \A d \in Conns : pc'[d] = "idle" => pc[d] = "idle"
      /\ \A d \in Conns : pc[d] = "byes" => pc'[d] = "byes"
  BY <1>1 DEF InLoop, TypeOK
<1> QED
  BY <1>1, <1>2, BeliefsStay

\* Every step tells the believers of the calls it ends, or puts them on record.
LEMMA BeliefStep ==
  ASSUME IInv, BeliefInv, [Next]_vars
  PROVE  BeliefInv'
<1> USE DEF IInv
<1>1. ASSUME NEW c \in Conns, pc[c] \in InLoop, pc'[c] \in InLoop,
             UNCHANGED <<dialogs, username, ended, live, lost, sock>>,
             \A d \in Conns \ {c} : pc'[d] = pc[d]
      PROVE  BeliefInv'
  <2>1. \A d \in Conns : pc'[d] \in InLoop <=> pc[d] \in InLoop
    BY <1>1
  <2>2. /\ \A d \in Conns : pc'[d] = "idle" => pc[d] = "idle"
        /\ \A d \in Conns : pc[d] = "byes" => pc'[d] = "byes"
    BY <1>1 DEF InLoop
  <2> QED
    BY <1>1, <2>1, <2>2, BeliefsStay
<1>2. ASSUME NEW c \in Conns, RegisterReply(c)
      PROVE  BeliefInv'
  <2>1. /\ pc[c] = "mint" /\ pc' = [pc EXCEPT ![c] = "replied"]
        /\ UNCHANGED <<dialogs, username, ended, live, lost, sock>>
    BY <1>2 DEF RegisterReply, server, history
  <2>2. /\ pc[c] \in InLoop /\ pc'[c] \in InLoop
        /\ \A d \in Conns \ {c} : pc'[d] = pc[d]
    BY <2>1 DEF InLoop, TypeOK
  <2> QED
    BY <1>1, <2>1, <2>2
<1>3. ASSUME NEW c \in Conns, SendReturns(c)
      PROVE  BeliefInv'
  BY <1>1, <1>3 DEF SendReturns, server, history, InLoop, TypeOK
<1>4. ASSUME NEW c \in Conns, AnnounceOnline(c) \/ OnlineSent(c)
      PROVE  BeliefInv'
  BY <1>1, <1>4
  DEF AnnounceOnline, OnlineSent, AnnounceTo, BroadcastTo, server, history, InLoop, TypeOK
<1>5. ASSUME NEW c \in Conns, ErrorReply(c) \/ \E u \in Users : RegisterRefused(c, u)
      PROVE  BeliefInv'
  BY <1>1, <1>5 DEF ErrorReply, RegisterRefused, Send, server, history, InLoop, TypeOK
<1>6. ASSUME NEW c \in Conns, NEW u \in Users, Ice(c, u)
      PROVE  BeliefInv'
  BY <1>1, <1>6 DEF Ice, Send, server, history, InLoop, TypeOK
<1>7. ASSUME NEW c \in Conns, NEW u \in Users, NEW k \in Ids, InviteUnknown(c, u, k)
      PROVE  BeliefInv'
  BY <1>7, UnknownKeepsBeliefs
<1>8. ASSUME NEW c \in Conns, NEW u \in Users, NEW k \in Ids,
             Invite(c, u, k) \/ Answer(c, u, k) \/ EndCall(c, u, k)
      PROVE  BeliefInv'
  BY <1>8, InviteKeepsBeliefs, AnswerKeepsBeliefs, EndKeepsBeliefs
<1>9. ASSUME NEW c \in Conns, ClientMessage(c)
      PROVE  BeliefInv'
  BY <1>5, <1>6, <1>7, <1>8, <1>9, RegisterKeepsBeliefs
  DEF ClientMessage
<1>10. ASSUME NEW c \in Conns, SendRaises(c) \/ RecvRaises(c)
       PROVE  BeliefInv'
  BY <1>10, FinallyKeepsBeliefs DEF SendRaises, RecvRaises, InLoop
<1>11. ASSUME NEW c \in Conns, ByeRaises(c)
       PROVE  BeliefInv'
  <2>1. /\ HandlerReturns(c) /\ UNCHANGED dialogs
        /\ ended' = [ended EXCEPT ![c] = {}]
        /\ lost' = lost \cup {<<e[2], "aborted">> : e \in ended[c]}
    BY <1>11 DEF ByeRaises, server
  <2>2. ended'[c] = {}
    BY <2>1 DEF TypeOK
  <2>3. \A e \in ended[c] : LostTrack(e[2])'
    BY <2>1 DEF LostTrack, LostBy, Causes
  <2> QED
    BY <2>1, <2>2, <2>3, ReturnKeepsBeliefs
<1>12. CASE UNCHANGED vars
  BY <1>12, BeliefsStay DEF vars, server, handlers, history
<1> QED
  BY <1>2, <1>3, <1>4, <1>9, <1>10, <1>11, <1>12, OpeningKeepsBeliefs,
     OfflineKeepsBeliefs, ByeKeepsBeliefs
  DEF Next, HandlerStep

\* A connected client that believes in a call is one of its parties in the books, or a
\* BYE to it is due, or the server lost track of the call: a party changed its name, a
\* loop of BYEs was cut short, a name was taken up again before the clean-up after its
\* last holder, a message between other people overwrote or removed the call, or it
\* had no id (server.py:329-339, 413, 512, 577).
THEOREM BelieversAreTold == Spec => []PartnersTold
<1>1. Init => BeliefInv
  BY DEF Init, BeliefInv, ByesAreSent, Started, Sound, Believes
<1>2. IInv /\ BeliefInv /\ [Next]_vars => BeliefInv'
  BY BeliefStep
<1>3. IInv /\ BeliefInv => PartnersTold
  BY DEF BeliefInv, Sound, LostTrack, PartnersTold
<1> QED
  BY <1>1, <1>2, <1>3, Invariance, PTL DEF Spec

===============================================================================
