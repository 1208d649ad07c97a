------------------------------- MODULE CallSetup -------------------------------
(***************************************************************************)
(* Calls between browsers: the page of client/index.html, one per client,  *)
(* with its WebSocket to the signaling server and its peer connections.    *)
(*                                                                         *)
(* The page is single-threaded.  An action is a click, the delivery of a   *)
(* message, an event of WebRTC, or what an async handler does from one     *)
(* await to the next; "tasks" holds the handlers that are suspended.  The  *)
(* handlers keep their state in the page's global variables, which another *)
(* handler may have changed when they go on.                               *)
(*                                                                         *)
(* The server is that of SignalingServer, reduced to what it forwards, to  *)
(* the books and to the handlers of connections that have closed.  A       *)
(* message is appended to the target's mailbox when it is sent: the server *)
(* takes up the messages of one client in order and a client reads its     *)
(* mail at any later time, so what the clients see is the same.  A client  *)
(* keeps its name: changes of names are in SignalingServer.                *)
(*                                                                         *)
(* localStream, the microphone, is assigned in the same step as pc         *)
(* (654-657, 715-718) and both are reset by endCall: pc stands for both.   *)
(***************************************************************************)
EXTENDS Naturals, Sequences, FiniteSets, SequencesExt

CONSTANTS
  Clients,
  MaxCalls,        \* how often somebody clicks Call
  MaxConnections,  \* how many peer connections each client opens
  MaxDrops,        \* how often a WebSocket closes
  None

ASSUME CallSetupAssumption ==
  /\ None \notin Clients
  /\ {MaxCalls, MaxConnections, MaxDrops} \subseteq Nat

\* The page of client p[1] opens p[2]-th; it also names its own SDP and its ICE
\* candidate.
Connections == Clients \X (1 .. MaxConnections)
Calls       == 1 .. MaxCalls

ASSUME NoneIsNobodys == None \notin Connections \cup Calls

VARIABLES
  page,       \* the global variables and the visible controls of each page
  tasks,      \* its suspended handlers
  conn,       \* its RTCPeerConnections
  mailbox,    \* messages on their way to it
  online,     \* its WebSocket is open and registered
  dialogs,    \* the server's self._dialogs : call id -> set of two parties
  leaving,    \* its handlers of WebSockets that have closed, not done yet
  calls,      \* the number of call ids generated so far
  drops,      \* how many WebSockets have closed
  disturbed   \* history: what befell which clients, see Mishaps

vars ==
  <<page, tasks, conn, mailbox, online, dialogs, leaving, calls, drops, disturbed>>

Pages ==
  [peer : Clients \cup {None},          \* currentPeer
   callId : Calls \cup {None},          \* currentCallId
   pc : Connections \cup {None},        \* pc and localStream
   banner : BOOLEAN,                    \* the incoming call is shown
   offer : Connections \cup {None},     \* incomingCall._offerSDP
   pending : SUBSET Connections,        \* pendingRemoteCandidates
   hangup : BOOLEAN,                    \* Hang Up is shown instead of Call
   active : BOOLEAN]                    \* the active call is shown

PeerConnections ==
  [state : {"none", "open", "closed"}, local : {"none", "offer", "answer"}, gathered : BOOLEAN,
   remote : Connections \cup {None}, candidates : SUBSET Connections]

Tasks ==
  [at : {"microphone"}, call : Calls, target : Clients]
    \cup [at : {"offer"}, pc : Connections, target : Clients]
    \cup [at : {"microphone to answer"}, call : Calls \cup {None}]
    \cup [at : {"remote offer", "remote answer"}, pc : Connections, sdp : Connections]
    \cup [at : {"candidates", "answer"}, pc : Connections]

\* The messages that end a call.
Ends == {"bye", "rejected"}

Messages ==
  [type : {"invite", "answer"}, from : Clients, sdp : Connections,
   callId : Calls \cup {None}]
    \cup [type : {"ice"}, from : Clients, candidate : Connections]
    \cup [type : Ends, from : Clients, callId : Calls \cup {None}]

\* The handler of the drop-th WebSocket that closed: it has not noticed yet; it has
\* released the name and broadcasts user_offline; it sends a synthetic bye, on a
\* WebSocket that is open, or that has closed.
Handlers ==
  [drop : 1 .. MaxDrops, client : Clients, at : {"closed", "offline"}, to : {None}, ended : {{}}]
    \cup
  [drop : 1 .. MaxDrops, client : Clients, at : {"byes", "broken"},
   to : Clients,                        \* to whom it is sending
   ended : SUBSET (Clients \X Calls)]   \* the byes that remain: <<other_user, call_id>>

\* A client placed a call or was offered one during another; its call ended while
\* the microphone or WebRTC kept a handler waiting; a call was ended by a bye of
\* another one; the end of its call was lost with its WebSocket, or was not sent to
\* it; its connection failed, which tells nobody, when the other side did not have
\* its description.
Mishaps == {"overlap", "cut short", "misled", "unheard", "untold", "failed"}

TypeOK ==
  /\ page \in [Clients -> Pages]
  /\ tasks \in [Clients -> SUBSET Tasks]
  /\ conn \in [Connections -> PeerConnections]
  /\ mailbox \in [Clients -> Seq(Messages)]
  /\ online \in [Clients -> BOOLEAN]
  /\ dialogs \in [Calls -> SUBSET Clients]
  /\ leaving \subseteq Handlers
  /\ calls \in 0 .. MaxCalls
  /\ drops \in 0 .. MaxDrops
  /\ disturbed \subseteq Clients \X Mishaps

Fresh ==
  [state |-> "open", local |-> "none", gathered |-> FALSE, remote |-> None,
   candidates |-> {}]

BlankPage ==
  [peer |-> None, callId |-> None, pc |-> None, banner |-> FALSE, offer |-> None,
   pending |-> {}, hangup |-> FALSE, active |-> FALSE]

Init ==
  /\ page      = [c \in Clients |-> BlankPage]
  /\ tasks     = [c \in Clients |-> {}]
  /\ conn      = [p \in Connections |-> [Fresh EXCEPT !.state = "none"]]
  /\ mailbox   = [c \in Clients |-> <<>>]
  /\ online    = [c \in Clients |-> TRUE]
  /\ dialogs   = [k \in Calls |-> {}]
  /\ leaving   = {}
  /\ calls     = 0
  /\ drops     = 0
  /\ disturbed = {}

-------------------------------------------------------------------------------
(***************************************************************************)
(* The page's functions.                                                   *)
(***************************************************************************)

\* send, and the server's forwarding: nothing is sent on a closed WebSocket, and
\* nothing is forwarded to a name that is not registered.
Sent(c, target, message) ==
  IF online[c] /\ target # None /\ online[target]
  THEN [mailbox EXCEPT ![target] = Append(@, message)]
  ELSE mailbox

\* The server has client c in its registry: until the handler of a WebSocket that
\* has closed notices, what is sent to it is lost, or raises.
Registered(c) == online[c] \/ \E h \in leaving : h.client = c /\ h.at = "closed"

\* The server's dialogs after client c has sent a bye or a reject of call k.
Dismissed(c, k) ==
  IF online[c] /\ k # None THEN [dialogs EXCEPT ![k] = {}] ELSE dialogs

\* startActiveCall
Started(s) == [s EXCEPT !.active = TRUE, !.hangup = TRUE]

\* Wrong: the offer goes, too, while a handler may still want to answer it.
EndedWithoutOffer(s) == BlankPage

\* endCall; the offer of the last invite stays.
Ended(s) == [BlankPage EXCEPT !.offer = s.offer]

\* Wrong: pc is set to null and not closed.
LeftOpen(p) == conn

\* Nothing reads a closed connection any more.
Closed(p) ==
  IF p = None THEN conn ELSE [conn EXCEPT ![p] = [Fresh EXCEPT !.state = "closed"]]

\* The call ends; "mishaps" is what else befalls client c with it.
EndCallAnd(c, rest, mishaps) ==
  /\ page' = [page EXCEPT ![c] = Ended(@)]
  /\ conn' = Closed(page[c].pc)
  /\ tasks' = [tasks EXCEPT ![c] = rest]
  /\ disturbed' = disturbed \cup ({c} \X (mishaps \cup IF rest = {} THEN {} ELSE {"cut short"}))

EndCall(c, rest) == EndCallAnd(c, rest, {})

\* createPeerConnection
Unused(c) == {p \in Connections : p[1] = c /\ conn[p].state = "none"}
NextConnection(c) == CHOOSE p \in Unused(c) : \A q \in Unused(c) : p[2] <= q[2]

Opened(c, task, next) ==
  LET p == NextConnection(c) IN
  /\ Unused(c) # {}
  /\ page' = [page EXCEPT ![c].pc = p]
  /\ conn' = [conn EXCEPT ![p].state = "open"]
  /\ tasks' = [tasks EXCEPT ![c] = (@ \ {task}) \cup {[next EXCEPT !.pc = p]}]

\* The connection table with the remote description of p set and the queued
\* candidates added to whatever pc is by now (flushPendingCandidates).
WithRemote(c, p, sdp) ==
  LET set == [conn EXCEPT ![p].remote = sdp] IN
  IF page[c].pc = None THEN set
  ELSE [set EXCEPT ![page[c].pc].candidates = @ \cup page[c].pending]

\* The page after that: ontrack starts the call, and the queue is empty.
WithTrack(c) == Started([page[c] EXCEPT !.pending = {}])

HasLocalOffer(p)  == conn[p].local = "offer" /\ conn[p].remote = None
HasRemoteOffer(p) == conn[p].local = "none" /\ conn[p].remote # None

\* Something of a call is under way at client c.
Busy(c) == page[c].peer # None \/ page[c].pc # None \/ tasks[c] # {}

-------------------------------------------------------------------------------
(***************************************************************************)
(* Placing a call: the Call button, then the microphone, then the offer.   *)
(***************************************************************************)

\* The button in the user list works during a call, too.
ClickCall(c, t) ==
  LET k == calls + 1 IN
  /\ online[c]
  /\ calls < MaxCalls
  /\ calls' = k
  /\ page' = [page EXCEPT ![c].peer = t, ![c].callId = k]
  /\ tasks' = [tasks EXCEPT ![c] =
                 @ \cup {[at |-> "microphone", call |-> k, target |-> t]}]
  /\ disturbed' = IF Busy(c) THEN disturbed \cup {<<c, "overlap">>} ELSE disturbed
  /\ UNCHANGED <<conn, mailbox, online, dialogs, leaving, drops>>

MicrophoneToCall(c, task) ==
  /\ task.at = "microphone"
  /\ Opened(c, task, [at |-> "offer", pc |-> None, target |-> task.target])
  /\ UNCHANGED <<mailbox, online, dialogs, leaving, calls, drops, disturbed>>

\* getUserMedia rejects.
MicrophoneRefused(c, task) ==
  /\ task.at \in {"microphone", "microphone to answer"}
  /\ EndCall(c, tasks[c] \ {task})
  /\ UNCHANGED <<mailbox, online, dialogs, leaving, calls, drops>>

\* createOffer and setLocalDescription are done: the invite names the target of
\* the click and the call of the moment.  The server puts the call down if it has
\* the target in its registry, also if that has closed (and the send may then raise,
\* which is another Drop).
SendInvite(c, task) ==
  LET k == page[c].callId IN
  /\ task.at = "offer"
  /\ conn[task.pc].state = "open"
  /\ conn' = [conn EXCEPT ![task.pc].local = "offer"]
  /\ page' = [page EXCEPT ![c].hangup = TRUE]
  /\ tasks' = [tasks EXCEPT ![c] = @ \ {task}]
  /\ mailbox' = Sent(c, task.target,
                    [type |-> "invite", from |-> c, sdp |-> task.pc, callId |-> k])
  /\ dialogs' = IF online[c] /\ Registered(task.target) /\ k # None
                THEN [dialogs EXCEPT ![k] = {c, task.target}] ELSE dialogs
  /\ UNCHANGED <<online, leaving, calls, drops, disturbed>>

\* An await on a connection that is no longer pc: the handler goes on with the
\* new pc, or none, and fails; or, once its own is closed, it never goes on.
SetUpFails(c, task) ==
  /\ \/ task.at \in {"offer", "answer"} /\ task.pc # page[c].pc
     \/ task.at = "candidates" /\ page[c].pc = None
     \/ task.at = "answer" /\ ~HasRemoteOffer(task.pc)
     \/ task.at = "remote offer" /\ conn[task.pc].state = "closed"
  /\ EndCall(c, tasks[c] \ {task})
  /\ UNCHANGED <<mailbox, online, dialogs, leaving, calls, drops>>

SetUpHangs(c, task) ==
  /\ task.at \in {"offer", "candidates", "answer", "remote offer", "remote answer"}
  /\ conn[task.pc].state = "closed"
  /\ tasks' = [tasks EXCEPT ![c] = @ \ {task}]
  /\ UNCHANGED <<page, conn, mailbox, online, dialogs, leaving, calls, drops, disturbed>>

-------------------------------------------------------------------------------
(***************************************************************************)
(* Answering: the banner, the microphone, the offer, the answer.           *)
(***************************************************************************)
ClickAnswer(c) ==
  /\ page[c].banner
  /\ page' = [page EXCEPT ![c].banner = FALSE]
  /\ tasks' = [tasks EXCEPT ![c] =
                 @ \cup {[at |-> "microphone to answer", call |-> page[c].callId]}]
  /\ UNCHANGED <<conn, mailbox, online, dialogs, leaving, calls, drops, disturbed>>

MicrophoneToAnswer(c, task) ==
  /\ task.at = "microphone to answer"
  /\ Opened(c, task, [at |-> "remote offer", pc |-> None, sdp |-> page[c].offer])
  /\ UNCHANGED <<mailbox, online, dialogs, leaving, calls, drops, disturbed>>

\* The offer is the remote description: the call starts, and the candidates that
\* came early are added.
RemoteOfferSet(c, task) ==
  /\ task.at = "remote offer"
  /\ conn[task.pc].state = "open"
  /\ conn' = WithRemote(c, task.pc, task.sdp)
  /\ page' = [page EXCEPT ![c] = WithTrack(c)]
  /\ tasks' = [tasks EXCEPT ![c] =
                 (@ \ {task}) \cup {[at |-> "candidates", pc |-> task.pc]}]
  /\ UNCHANGED <<mailbox, online, dialogs, leaving, calls, drops, disturbed>>

\* They have been added: the answer is asked of whatever pc is by now.
CandidatesFlushed(c, task) ==
  /\ task.at = "candidates"
  /\ page[c].pc # None
  /\ tasks' = [tasks EXCEPT ![c] =
                 (@ \ {task}) \cup {[at |-> "answer", pc |-> page[c].pc]}]
  /\ UNCHANGED <<page, conn, mailbox, online, dialogs, leaving, calls, drops, disturbed>>

SendAnswer(c, task) ==
  /\ task.at = "answer"
  /\ conn[task.pc].state = "open"
  /\ HasRemoteOffer(task.pc)
  /\ conn' = [conn EXCEPT ![task.pc].local = "answer"]
  /\ page' = [page EXCEPT ![c] = Started(@)]
  /\ tasks' = [tasks EXCEPT ![c] = @ \ {task}]
  /\ mailbox' = Sent(c, page[c].peer,
                    [type |-> "answer", from |-> c, sdp |-> task.pc,
                     callId |-> page[c].callId])
  /\ UNCHANGED <<online, dialogs, leaving, calls, drops, disturbed>>

ClickReject(c) ==
  /\ page[c].banner
  /\ page' = [page EXCEPT ![c].banner = FALSE, ![c].peer = None, ![c].callId = None]
  /\ mailbox' = Sent(c, page[c].peer,
                    [type |-> "rejected", from |-> c, callId |-> page[c].callId])
  /\ dialogs' = Dismissed(c, page[c].callId)
  /\ UNCHANGED <<tasks, conn, online, leaving, calls, drops, disturbed>>

\* Wrong: the call is reset before the bye is sent.
HangUpUnsaid(c) ==
  /\ page[c].hangup
  /\ dialogs' = dialogs
  /\ EndCall(c, tasks[c])
  /\ UNCHANGED <<mailbox, online, leaving, calls, drops>>

ClickHangUp(c) ==
  /\ page[c].hangup
  /\ mailbox' = Sent(c, page[c].peer,
                    [type |-> "bye", from |-> c, callId |-> page[c].callId])
  /\ dialogs' = Dismissed(c, page[c].callId)
  /\ EndCall(c, tasks[c])
  /\ UNCHANGED <<online, leaving, calls, drops>>

-------------------------------------------------------------------------------
(***************************************************************************)
(* handleMessage                                                           *)
(***************************************************************************)
ReadInvite(c, message) ==
  /\ message.type = "invite"
  /\ page' = [page EXCEPT ![c].peer = message.from, ![c].callId = message.callId,
                          ![c].offer = message.sdp, ![c].banner = TRUE]
  /\ disturbed' = IF Busy(c) THEN disturbed \cup {<<c, "overlap">>} ELSE disturbed
  /\ UNCHANGED <<tasks, conn>>

ReadAnswer(c, message) ==
  /\ message.type = "answer"
  /\ tasks' = IF page[c].pc = None THEN tasks
              ELSE [tasks EXCEPT ![c] =
                      @ \cup {[at |-> "remote answer", pc |-> page[c].pc,
                               sdp |-> message.sdp]}]
  /\ UNCHANGED <<page, conn, disturbed>>

\* Wrong: a candidate that comes too early is dropped.
CandidateDropped(c, candidate) ==
  /\ conn' = IF page[c].pc = None \/ conn[page[c].pc].remote = None THEN conn
             ELSE [conn EXCEPT ![page[c].pc].candidates = @ \cup {candidate}]
  /\ page' = page

\* A candidate is queued until there is a remote description to add it to.
CandidateTaken(c, candidate) ==
  IF page[c].pc = None \/ conn[page[c].pc].remote = None
  THEN /\ page' = [page EXCEPT ![c].pending = @ \cup {candidate}]
       /\ conn' = conn
  ELSE /\ conn' = [conn EXCEPT ![page[c].pc].candidates = @ \cup {candidate}]
       /\ page' = page

ReadCandidate(c, message) ==
  /\ message.type = "ice"
  /\ CandidateTaken(c, message.candidate)
  /\ UNCHANGED <<tasks, disturbed>>

\* Any bye ends the call of the moment, whichever call it names.
ReadBye(c, message) ==
  /\ message.type \in Ends
  /\ EndCallAnd(c, tasks[c],
       IF page[c].callId \in {None, message.callId} THEN {} ELSE {"misled"})

Read(c) ==
  /\ mailbox[c] # <<>>
  /\ mailbox' = [mailbox EXCEPT ![c] = Tail(@)]
  /\ LET message == Head(mailbox[c]) IN
       ReadInvite(c, message) \/ ReadAnswer(c, message)
         \/ ReadCandidate(c, message) \/ ReadBye(c, message)
  /\ UNCHANGED <<online, dialogs, leaving, calls, drops>>

\* handleAnswer goes on, or is refused by a connection that expects no answer.
RemoteAnswerSet(c, task) ==
  /\ task.at = "remote answer"
  /\ conn[task.pc].state = "open"
  /\ tasks' = [tasks EXCEPT ![c] = @ \ {task}]
  /\ IF HasLocalOffer(task.pc)
     THEN /\ page' = [page EXCEPT ![c] = WithTrack(c)]
          /\ conn' = WithRemote(c, task.pc, task.sdp)
     ELSE UNCHANGED <<page, conn>>
  /\ UNCHANGED <<mailbox, online, dialogs, leaving, calls, drops, disturbed>>

-------------------------------------------------------------------------------
(***************************************************************************)
(* WebRTC events and the WebSocket.                                        *)
(***************************************************************************)
Gathered(c, p) ==
  /\ p[1] = c
  /\ conn[p].state = "open" /\ conn[p].local # "none" /\ ~conn[p].gathered
  /\ conn' = [conn EXCEPT ![p].gathered = TRUE]
  /\ mailbox' = Sent(c, page[c].peer, [type |-> "ice", from |-> c, candidate |-> p])
  /\ UNCHANGED <<page, tasks, online, dialogs, leaving, calls, drops, disturbed>>

\* Connections p and q have each other's description.
Paired(p, q) ==
  /\ p # None /\ q # None
  /\ conn[p].remote = q
  /\ conn[q].remote = p

\* pc has both descriptions: it is connecting or connected, and may fail.
Negotiated(p) == p # None /\ conn[p].state = "open" /\ conn[p].local # "none" /\ conn[p].remote # None

\* "disconnected" or "failed": the call ends, and no bye is sent.  The handler of a
\* connection that is not pc any more looks at the state of pc instead.
ConnectionLost(c) ==
  LET p == page[c].pc IN
  /\ Negotiated(p)
  /\ EndCallAnd(c, tasks[c], IF Paired(p, conn[p].remote) THEN {} ELSE {"failed"})
  /\ UNCHANGED <<mailbox, online, dialogs, leaving, calls, drops>>

-------------------------------------------------------------------------------
(***************************************************************************)
(* A WebSocket that closes.  The page keeps its call, and may register     *)
(* again.  The handler in the server finds out later, at its receive or at *)
(* a send; it releases the name, broadcasts user_offline, forgets the      *)
(* calls of the name and sends a synthetic bye for each, with an await at  *)
(* every send.                                                             *)
(***************************************************************************)

\* The end of the call of client c's page is still in its mail.
EndUnread(c) ==
  \E message \in Range(mailbox[c]) :
    message.type \in Ends /\ message.callId = page[c].callId

\* What was on its way is lost; what c still reads of it, it reads before.
Drop(c) ==
  /\ online[c]
  /\ drops < MaxDrops
  /\ drops' = drops + 1
  /\ online' = [online EXCEPT ![c] = FALSE]
  /\ mailbox' = [mailbox EXCEPT ![c] = <<>>]
  /\ leaving' =
       {IF h.at = "byes" /\ h.to = c THEN [h EXCEPT !.at = "broken"] ELSE h : h \in leaving}
         \cup {[drop |-> drops', client |-> c, at |-> "closed", to |-> None, ended |-> {}]}
  /\ disturbed' = IF EndUnread(c) THEN disturbed \cup {<<c, "unheard">>} ELSE disturbed
  /\ UNCHANGED <<page, tasks, conn, dialogs, calls>>

\* Refused, as a duplicate name, until the server has noticed that c had closed.
Reconnect(c) ==
  /\ ~Registered(c)
  /\ online' = [online EXCEPT ![c] = TRUE]
  /\ UNCHANGED <<page, tasks, conn, mailbox, dialogs, leaving, calls, drops, disturbed>>

\* Client c takes part in call k, or has an invite to it in its mail.
TakesPart(c, k) ==
  \/ page[c].callId = k
  \/ \E message \in Range(mailbox[c]) : message.type = "invite" /\ message.callId = k

\* Client e[1] was not told of the end of its call e[2].
Untold(entries) ==
  {<<e[1], "untold">> : e \in {x \in entries : TakesPart(x[1], x[2])}}

\* The loop of synthetic byes, with the entries rest to go: past those whose turn
\* comes while their client is not registered, up to its next send, or to its end.
NextBye(h, rest) ==
  \E skipped \in SUBSET {e \in rest : ~Registered(e[1])} :
    \/ /\ skipped = rest
       /\ leaving' = leaving \ {h}
       /\ disturbed' = disturbed \cup Untold(skipped)
       /\ UNCHANGED mailbox
    \/ \E e \in rest \ skipped :
         LET bye == [type |-> "bye", from |-> h.client, callId |-> e[2]]
             next(at) == [h EXCEPT !.at = at, !.to = e[1], !.ended = rest \ (skipped \cup {e})]
         IN  /\ Registered(e[1])
             /\ IF online[e[1]]
                THEN /\ mailbox' = [mailbox EXCEPT ![e[1]] = Append(@, bye)]
                     /\ leaving' = (leaving \ {h}) \cup {next("byes")}
                     /\ disturbed' = disturbed \cup Untold(skipped)
                ELSE /\ leaving' = (leaving \ {h}) \cup {next("broken")}
                     /\ disturbed' = disturbed \cup Untold(skipped \cup {e})
                     /\ UNCHANGED mailbox

\* Wrong: the books are cleaned and nobody is told.
NoPartners(c) == {}

Involved(c) == {k \in Calls : c \in dialogs[k]}

PartnersOf(c) == {e \in (Clients \ {c}) \X Involved(c) : e[1] \in dialogs[e[2]]}

\* _cleanup_dialogs forgets every call of the name, also those of the client that
\* has registered again meanwhile.
CleanUp(h) ==
  /\ dialogs' = [k \in Calls |-> IF h.client \in dialogs[k] THEN {} ELSE dialogs[k]]
  /\ NextBye(h, PartnersOf(h.client))

\* The name is released: its clean-up follows at once if there is nobody to send
\* user_offline to.
Release(h) ==
  /\ h.at = "closed"
  /\ IF \E t \in Clients \ {h.client} : Registered(t)
     THEN /\ leaving' = (leaving \ {h}) \cup {[h EXCEPT !.at = "offline"]}
          /\ UNCHANGED <<mailbox, dialogs, disturbed>>
     ELSE CleanUp(h)

OfflineSent(h) == h.at = "offline" /\ CleanUp(h)

ByeSent(h) ==
  /\ h.at \in {"byes", "broken"}
  /\ NextBye(h, h.ended)
  /\ UNCHANGED dialogs

\* The send raises out of "finally", and the rest of the loop is lost.
ByeRaises(h) ==
  /\ h.at = "broken"
  /\ leaving' = leaving \ {h}
  /\ disturbed' = disturbed \cup Untold(h.ended)
  /\ UNCHANGED <<mailbox, dialogs>>

Leave(h) ==
  /\ Release(h) \/ OfflineSent(h) \/ ByeSent(h) \/ ByeRaises(h)
  /\ UNCHANGED <<page, tasks, conn, online, drops, calls>>

-------------------------------------------------------------------------------
Resume(c, task) ==
  \/ MicrophoneToCall(c, task) \/ MicrophoneToAnswer(c, task) \/ MicrophoneRefused(c, task)
  \/ SendInvite(c, task) \/ SendAnswer(c, task)
  \/ RemoteOfferSet(c, task) \/ CandidatesFlushed(c, task) \/ RemoteAnswerSet(c, task)
  \/ SetUpFails(c, task) \/ SetUpHangs(c, task)

Next ==
  \/ \E c \in Clients :
       \/ \E t \in Clients \ {c} : ClickCall(c, t)
       \/ ClickAnswer(c) \/ ClickReject(c) \/ ClickHangUp(c)
       \/ \E task \in tasks[c] : Resume(c, task)
       \/ Read(c) \/ ConnectionLost(c) \/ Drop(c) \/ Reconnect(c)
       \/ \E p \in Connections : Gathered(c, p)
  \/ \E h \in leaving : Leave(h)

Spec == Init /\ [][Next]_vars

-------------------------------------------------------------------------------
(***************************************************************************)
(* Safety.                                                                 *)
(***************************************************************************)

\* Client c never placed a call, or was offered one, during another.
OneCallAtATime(c) == <<c, "overlap">> \notin disturbed

\* Nor did a call end while the microphone or WebRTC kept its handler waiting.
Calm(c) == OneCallAtATime(c) /\ <<c, "cut short">> \notin disturbed

Awaits(c, types, from) ==
  \E message \in Range(mailbox[c]) : message.type \in types /\ message.from = from

EndOnItsWay(c, from) == Awaits(c, Ends, from)

\* The end of a call of client c was lost with its WebSocket, or not sent to it.
Missed(c) == \E mishap \in {"unheard", "untold"} : <<c, mishap>> \in disturbed

\* The synthetic bye of call k to client c is still to be sent.
ByeDue(c, k) == \E h \in leaving : <<c, k>> \in h.ended

\* Two clients whose connections are paired mean the same call, and each would
\* send its bye to the other.  The server has that call in its books, and so
\* tells either once the other disconnects, until one of them has been told, or is
\* about to be, or was not there to hear it, or was behind a send that raised
\* (handleIncomingCall, answerBtn, hangupBtn, endCall; server.py:313-339).
CallIsShared ==
  \A c, d \in Clients :
    LET k == page[c].callId IN
    Calm(c) /\ Calm(d) /\ Paired(page[c].pc, page[d].pc) =>
      /\ page[c].peer = d /\ page[d].peer = c
      /\ page[d].callId = k
      /\ \/ dialogs[k] = {c, d}
         \/ EndOnItsWay(c, d) \/ EndOnItsWay(d, c)
         \/ ByeDue(c, k) \/ ByeDue(d, k)
         \/ Missed(c) \/ Missed(d)

\* No candidate of the other side is lost, however early it comes: once the
\* connection has its remote description it has the candidate, or the candidate
\* is still in the mail (handleICECandidate, flushPendingCandidates).
CandidatesKept ==
  \A c, d \in Clients :
    LET p == page[c].pc
        q == page[d].pc
    IN  Calm(c) /\ Calm(d) /\ Paired(p, q) /\ conn[q].gathered /\ drops = 0 =>
          q \in conn[p].candidates \/ Awaits(c, {"ice"}, d)

\* Connection q has the description of connection p, which is still open.
Holds(q, p) == p # None /\ conn[q].remote = p /\ conn[p].state = "open"

\* A client whose microphone is on is setting up a call or can hang up, and that
\* releases it: whatever ends a call, and while whatever handler waits, no
\* connection is left that the page has lost hold of (callBtn, answerBtn, endCall).
MicrophoneInHand ==
  \A p \in Connections :
    conn[p].state = "open" /\ OneCallAtATime(p[1]) =>
      p = page[p[1]].pc /\ (page[p[1]].hangup \/ tasks[p[1]] # {})

\* Where a bye ends no call but its own, and WebRTC gives up no connection but those
\* that have each other, an answer is applied to another call's offer only while the
\* callee has yet to hear that its own call has ended (handleAnswer ignores the
\* call id).
LateAnswersAreOver ==
  disturbed = {} /\ drops = 0 =>
    \A p, q \in Connections :
      conn[p].local = "offer" /\ Holds(p, q) =>
        conn[q].remote = p \/ EndOnItsWay(q[1], p[1])

\* "After this, both sides have each other's SDP" (client/index.html:864).
BothHaveEachOther ==
  disturbed = {} =>
    \A p, q \in Connections :
      conn[p].local = "offer" /\ Holds(p, q) => conn[q].remote = p

\* "Our outgoing call was declined" (client/index.html:615), "Call ended by the
\* other party" (609): where nobody has two calls at once, no client is taken out
\* of its call by the end of another one.
ByesEndTheirCall ==
  (\A c \in Clients : OneCallAtATime(c)) =>
    \A c \in Clients : <<c, "misled">> \notin disturbed

===============================================================================
