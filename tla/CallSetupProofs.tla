---------------------------- MODULE CallSetupProofs ----------------------------
(***************************************************************************)
(* Proofs about CallSetup: the types of its state, and that the page never *)
(* loses hold of the microphone.                                           *)
(***************************************************************************)
EXTENDS CallSetup, FiniteSetTheorems, NaturalsInduction, WellFoundedInduction, TLAPS

\* An offer is there when the banner is shown, and while somebody who tapped
\* Answer waits for the microphone.
Offered ==
  \A c \in Clients :
    \/ page[c].offer # None
    \/ ~page[c].banner /\ \A task \in tasks[c] : task.at # "microphone to answer"

Typed == TypeOK /\ Offered

-----------------------------------------------------------------------------
(***************************************************************************)
(* The page's functions.                                                   *)
(***************************************************************************)

\* A page that opens a connection opens one of its own, for the first time.
LEMMA NextIsUnused ==
  ASSUME NEW c \in Clients, Unused(c) # {}
  PROVE  NextConnection(c) \in Unused(c)
<1> DEFINE R    == {ss \in Nat \X Nat : ss[1] < ss[2]}
           used == {p[2] : p \in Unused(c)}
<1>1. IsWellFoundedOn(R, Nat)
  BY NatLessThanWellFounded DEF OpToRel
<1>2. used \in SUBSET Nat /\ used # {}
  BY DEF Unused, Connections
<1> HIDE DEF R
<1>3. PICK x \in used : \A y \in used : ~(<<y, x>> \in R)
  BY <1>1, <1>2, WFMin
<1>4. \A y \in used : ~(y < x)
  BY <1>2, <1>3 DEF R
<1>5. PICK p \in Unused(c) : x = p[2]
  OBVIOUS
<1>6. \A q \in Unused(c) : p[2] <= q[2]
  <2>1. ASSUME NEW q \in Unused(c)
        PROVE  p[2] <= q[2]
    <3>1. q[2] \in used /\ p[2] \in used
      OBVIOUS
    <3>2. q[2] \in Nat /\ p[2] \in Nat /\ ~(q[2] < p[2])
      BY <1>2, <1>4, <1>5, <3>1
    <3> QED
      BY <3>2
  <2> QED
    BY <2>1
<1> QED
  BY <1>6 DEF NextConnection

\* A message is delivered or not.
LEMMA SentType ==
  ASSUME TypeOK, NEW c, NEW target, NEW message \in Messages
  PROVE  Sent(c, target, message) \in [Clients -> Seq(Messages)]
<1>1. mailbox \in [Clients -> Seq(Messages)]
  BY DEF TypeOK
<1>2. ASSUME target \in Clients
      PROVE  Append(mailbox[target], message) \in Seq(Messages)
  BY <1>1, <1>2
<1>3. [mailbox EXCEPT ![target] = Append(@, message)] \in [Clients -> Seq(Messages)]
  BY <1>1, <1>2
<1> QED
  BY <1>1, <1>3 DEF Sent

LEMMA DismissedType ==
  ASSUME TypeOK, NEW c, NEW k
  PROVE  Dismissed(c, k) \in [Calls -> SUBSET Clients]
BY DEF TypeOK, Dismissed

LEMMA EndedType ==
  ASSUME NEW s \in Pages
  PROVE  Ended(s) \in Pages /\ ~Ended(s).banner /\ Ended(s).offer = s.offer
BY DEF Ended, BlankPage, Pages

LEMMA ClosedType ==
  ASSUME TypeOK, NEW p
  PROVE  Closed(p) \in [Connections -> PeerConnections]
<1>1. [Fresh EXCEPT !.state = "closed"] \in PeerConnections
  BY DEF Fresh, PeerConnections
<1> QED
  BY <1>1 DEF Closed, TypeOK

\* endCall resets the page but for its offer, and drops no handler.
LEMMA EndCallType ==
  ASSUME Typed, NEW c \in Clients, NEW rest \in SUBSET tasks[c],
         NEW mishaps \in SUBSET Mishaps, EndCallAnd(c, rest, mishaps)
  PROVE  /\ page' \in [Clients -> Pages]
         /\ tasks' \in [Clients -> SUBSET Tasks]
         /\ conn' \in [Connections -> PeerConnections]
         /\ disturbed' \subseteq Clients \X Mishaps
         /\ Offered'
<1> USE DEF Typed
<1>1. /\ Ended(page[c]) \in Pages
      /\ ~Ended(page[c]).banner /\ Ended(page[c]).offer = page[c].offer
  BY EndedType DEF TypeOK
<1>2. page' \in [Clients -> Pages]
  BY <1>1 DEF EndCallAnd, TypeOK
<1>3. tasks' \in [Clients -> SUBSET Tasks]
  BY DEF EndCallAnd, TypeOK
<1>4. conn' \in [Connections -> PeerConnections]
  BY ClosedType DEF EndCallAnd
<1>5. disturbed' \subseteq Clients \X Mishaps
  <2>1. disturbed \subseteq Clients \X Mishaps
    BY DEF TypeOK
  <2>2. disturbed' \subseteq disturbed \cup ({c} \X Mishaps)
    BY DEF EndCallAnd, Mishaps
  <2> QED
    BY <2>1, <2>2
<1>6. ASSUME NEW d \in Clients
      PROVE  /\ page'[d].offer = page[d].offer
             /\ page'[d].banner => page[d].banner
             /\ tasks'[d] \subseteq tasks[d]
  BY <1>1 DEF EndCallAnd, TypeOK
<1>7. Offered'
  BY <1>6 DEF Offered
<1> QED
  BY <1>2, <1>3, <1>4, <1>5, <1>7

LEMMA PlainEndCallType ==
  ASSUME Typed, NEW c \in Clients, NEW rest \in SUBSET tasks[c], EndCall(c, rest)
  PROVE  /\ page' \in [Clients -> Pages]
         /\ tasks' \in [Clients -> SUBSET Tasks]
         /\ conn' \in [Connections -> PeerConnections]
         /\ disturbed' \subseteq Clients \X Mishaps
         /\ Offered'
<1>1. EndCallAnd(c, rest, {})
  BY DEF EndCall
<1>2. {} \in SUBSET Mishaps
  OBVIOUS
<1> HIDE DEF Typed
<1> QED
  BY <1>1, <1>2, EndCallType

\* createPeerConnection, and the handler that goes on after it.
LEMMA OpenedType ==
  ASSUME TypeOK, NEW c \in Clients, NEW task, NEW next,
         \A p \in Connections : [next EXCEPT !.pc = p] \in Tasks,
         Opened(c, task, next)
  PROVE  /\ page' \in [Clients -> Pages]
         /\ tasks' \in [Clients -> SUBSET Tasks]
         /\ conn' \in [Connections -> PeerConnections]
<1> DEFINE p == NextConnection(c)
<1>1. p \in Connections
  BY NextIsUnused DEF Opened, Unused
<1> HIDE DEF p
<1>2. [page[c] EXCEPT !.pc = p] \in Pages
  <2>1. page[c] \in Pages
    BY DEF TypeOK
  <2> QED
    BY <1>1, <2>1 DEF Pages
<1>3. page' \in [Clients -> Pages]
  BY <1>2 DEF Opened, TypeOK, p
<1>4. [conn[p] EXCEPT !.state = "open"] \in PeerConnections
  <2>1. conn[p] \in PeerConnections
    BY <1>1 DEF TypeOK
  <2> QED
    BY <2>1 DEF PeerConnections
<1>5. conn' \in [Connections -> PeerConnections]
  BY <1>4 DEF Opened, TypeOK, p
<1>6. [next EXCEPT !.pc = p] \in Tasks
  BY <1>1
<1>7. tasks' \in [Clients -> SUBSET Tasks]
  BY <1>6 DEF Opened, TypeOK, p
<1> QED
  BY <1>3, <1>5, <1>7

\* The handlers that work on a connection, and what they hold.
LEMMA TaskKinds ==
  ASSUME NEW task \in Tasks
  PROVE  /\ task.at \in {"microphone", "offer", "microphone to answer",
                         "remote offer", "remote answer", "candidates", "answer"}
         /\ task.at = "microphone" => task.call \in Calls /\ task.target \in Clients
         /\ task.at = "offer" => task.pc \in Connections /\ task.target \in Clients
         /\ task.at \in {"remote offer", "remote answer"} =>
              task.pc \in Connections /\ task.sdp \in Connections
         /\ task.at \in {"candidates", "answer"} => task.pc \in Connections
BY DEF Tasks

\* The remote description is set, and the queue is emptied.
LEMMA WithRemoteType ==
  ASSUME TypeOK, NEW c \in Clients, NEW p \in Connections, NEW sdp \in Connections
  PROVE  /\ WithRemote(c, p, sdp) \in [Connections -> PeerConnections]
         /\ WithTrack(c) \in Pages
<1>1. page[c] \in Pages /\ conn[p] \in PeerConnections
  BY DEF TypeOK
<1> DEFINE set == [conn EXCEPT ![p].remote = sdp]
<1>2. [conn[p] EXCEPT !.remote = sdp] \in PeerConnections
  BY <1>1 DEF PeerConnections
<1>3. set \in [Connections -> PeerConnections]
  BY <1>2 DEF TypeOK
<1>4. ASSUME page[c].pc # None
      PROVE  [set EXCEPT ![page[c].pc].candidates = @ \cup page[c].pending]
               \in [Connections -> PeerConnections]
  <2>1. page[c].pc \in Connections /\ page[c].pending \subseteq Connections
    BY <1>1, <1>4 DEF Pages
  <2>2. [set[page[c].pc] EXCEPT !.candidates = @ \cup page[c].pending] \in PeerConnections
    BY <1>3, <2>1 DEF PeerConnections
  <2> HIDE DEF set
  <2> QED
    BY <1>3, <2>2
<1>5. WithTrack(c) \in Pages
  BY <1>1 DEF WithTrack, Started, Pages
<1> QED
  BY <1>3, <1>4, <1>5 DEF WithRemote

-----------------------------------------------------------------------------
(***************************************************************************)
(* Types.                                                                  *)
(***************************************************************************)

\* An offer stays, and nobody answers a call whose banner was not shown.
LEMMA OfferedStays ==
  ASSUME Offered,
         \A d \in Clients :
           \/ page'[d].offer # None
           \/ /\ page'[d].offer = page[d].offer
              /\ page'[d].banner => page[d].banner
              /\ \A task \in tasks'[d] :
                   task.at = "microphone to answer" =>
                     task \in tasks[d] \/ page[d].banner
  PROVE  Offered'
BY DEF Offered

\* What a click does to the page and to the mail.
LEMMA ClickType ==
  ASSUME Typed, NEW c \in Clients,
         \/ \E t \in Clients \ {c} : ClickCall(c, t)
         \/ ClickAnswer(c) \/ ClickReject(c) \/ ClickHangUp(c)
  PROVE  Typed'
<1> USE DEF Typed
<1>1. page[c] \in Pages
  BY DEF TypeOK
<1>2. ASSUME NEW t \in Clients, ClickCall(c, t)
      PROVE  Typed'
  <2> DEFINE k    == calls + 1
             s    == [page[c] EXCEPT !.peer = t, !.callId = k]
             task == [at |-> "microphone", call |-> k, target |-> t]
  <2>1. k \in Calls
    <3>1. MaxCalls \in Nat
      BY CallSetupAssumption
    <3>2. calls \in 0 .. MaxCalls /\ calls < MaxCalls
      BY <1>2 DEF ClickCall, TypeOK
    <3> QED
      BY <3>1, <3>2 DEF Calls
  <2>2. task \in Tasks /\ task.at # "microphone to answer"
    BY <2>1 DEF Tasks
  <2>3. s \in Pages /\ s.offer = page[c].offer /\ s.banner = page[c].banner
    BY <1>1, <2>1 DEF Pages
  <2>4. /\ page' = [page EXCEPT ![c] = s]
        /\ tasks' = [tasks EXCEPT ![c] = @ \cup {task}]
        /\ calls' = k
        /\ disturbed' \subseteq disturbed \cup {<<c, "overlap">>}
        /\ UNCHANGED <<conn, mailbox, online, dialogs, leaving, drops>>
    BY <1>2 DEF ClickCall, TypeOK
  <2> HIDE DEF s, task, k
  <2>5. page' \in [Clients -> Pages] /\ tasks' \in [Clients -> SUBSET Tasks]
    BY <2>2, <2>3, <2>4 DEF TypeOK
  <2>6. disturbed' \subseteq Clients \X Mishaps
    <3>1. <<c, "overlap">> \in Clients \X Mishaps
      BY DEF Mishaps
    <3> QED
      BY <2>4, <3>1 DEF TypeOK
  <2>7. calls' \in 0 .. MaxCalls
    BY <2>1, <2>4, CallSetupAssumption DEF Calls
  <2>8. Offered'
    BY <2>2, <2>3, <2>4, OfferedStays DEF TypeOK
  <2> QED
    BY <2>4, <2>5, <2>6, <2>7, <2>8 DEF TypeOK
<1>3. CASE ClickAnswer(c)
  <2> DEFINE s    == [page[c] EXCEPT !.banner = FALSE]
             task == [at |-> "microphone to answer", call |-> page[c].callId]
  <2>1. task \in Tasks
    BY <1>1 DEF Tasks, Pages
  <2>2. s \in Pages /\ s.offer = page[c].offer /\ ~s.banner
    BY <1>1 DEF Pages
  <2>3. /\ page[c].banner
        /\ page' = [page EXCEPT ![c] = s]
        /\ tasks' = [tasks EXCEPT ![c] = @ \cup {task}]
        /\ UNCHANGED <<conn, mailbox, online, dialogs, leaving, calls, drops, disturbed>>
    BY <1>3 DEF ClickAnswer, TypeOK
  <2> HIDE DEF s, task
  <2>4. page' \in [Clients -> Pages] /\ tasks' \in [Clients -> SUBSET Tasks]
    BY <2>1, <2>2, <2>3 DEF TypeOK
  <2>5. Offered'
    BY <2>2, <2>3, OfferedStays DEF TypeOK
  <2> QED
    BY <2>3, <2>4, <2>5 DEF TypeOK
<1>4. CASE ClickReject(c)
  <2> DEFINE s == [page[c] EXCEPT !.banner = FALSE, !.peer = None, !.callId = None]
  <2>1. s \in Pages /\ s.offer = page[c].offer /\ ~s.banner
    BY <1>1 DEF Pages
  <2>2. [type |-> "rejected", from |-> c, callId |-> page[c].callId] \in Messages
    BY <1>1 DEF Messages, Ends, Pages
  <2>3. /\ page' = [page EXCEPT ![c] = s]
        /\ UNCHANGED <<tasks, conn, online, leaving, calls, drops, disturbed>>
    BY <1>4 DEF ClickReject, TypeOK
  <2>4. mailbox' \in [Clients -> Seq(Messages)] /\ dialogs' \in [Calls -> SUBSET Clients]
    BY <1>4, <2>2, SentType, DismissedType DEF ClickReject
  <2> HIDE DEF s
  <2>5. page' \in [Clients -> Pages] /\ Offered'
    BY <2>1, <2>3, OfferedStays DEF TypeOK
  <2> QED
    BY <2>3, <2>4, <2>5 DEF TypeOK
<1>5. CASE ClickHangUp(c)
  <2>1. [type |-> "bye", from |-> c, callId |-> page[c].callId] \in Messages
    BY <1>1 DEF Messages, Ends, Pages
  <2>2. mailbox' \in [Clients -> Seq(Messages)] /\ dialogs' \in [Calls -> SUBSET Clients]
    BY <1>5, <2>1, SentType, DismissedType DEF ClickHangUp
  <2>3. EndCall(c, tasks[c]) /\ UNCHANGED <<online, leaving, calls, drops>>
    BY <1>5 DEF ClickHangUp
  <2> QED
    BY <2>2, <2>3, PlainEndCallType DEF TypeOK
<1> QED
  BY <1>2, <1>3, <1>4, <1>5

\* Opening a connection leaves banner and offer alone.
LEMMA OpenedOffers ==
  ASSUME Typed, NEW c \in Clients, NEW task, NEW next, Opened(c, task, next),
         \A p \in Connections : [next EXCEPT !.pc = p].at # "microphone to answer"
  PROVE  Offered'
<1> DEFINE p == NextConnection(c)
           s == [page[c] EXCEPT !.pc = p]
           q == [next EXCEPT !.pc = p]
<1>1. page' = [page EXCEPT ![c] = s] /\ tasks' = [tasks EXCEPT ![c] = (@ \ {task}) \cup {q}]
  BY DEF Opened, Typed, TypeOK
<1>2. s.banner = page[c].banner /\ s.offer = page[c].offer
  <2>1. page[c] \in Pages
    BY DEF Typed, TypeOK
  <2> QED
    BY <2>1 DEF Pages
<1>3. q.at # "microphone to answer"
  BY NextIsUnused DEF Opened, Unused
<1> HIDE DEF s, q
<1> QED
  BY <1>1, <1>2, <1>3, OfferedStays DEF Typed, TypeOK

\* What a handler does that waited for the microphone.
LEMMA MicrophoneType ==
  ASSUME Typed, NEW c \in Clients, NEW task \in tasks[c],
         MicrophoneToCall(c, task) \/ MicrophoneToAnswer(c, task)
           \/ MicrophoneRefused(c, task)
  PROVE  Typed'
<1> USE DEF Typed
<1>1. task \in Tasks
  BY DEF TypeOK
<1>2. CASE MicrophoneToCall(c, task)
  <2> DEFINE next == [at |-> "offer", pc |-> None, target |-> task.target]
             Successors == [at : {"offer"}, pc : Connections, target : Clients]
  <2>1. task.at = "microphone" /\ Opened(c, task, next)
    BY <1>2 DEF MicrophoneToCall
  <2>2. task.target \in Clients
    BY <1>1, <2>1, TaskKinds
  <2>3. \A p \in Connections : [next EXCEPT !.pc = p] \in Successors
    BY <2>2
  <2>4. \A p \in Connections : /\ [next EXCEPT !.pc = p] \in Tasks
                               /\ [next EXCEPT !.pc = p].at # "microphone to answer"
    BY <2>3 DEF Tasks
  <2> HIDE DEF next
  <2>5. /\ page' \in [Clients -> Pages]
        /\ tasks' \in [Clients -> SUBSET Tasks]
        /\ conn' \in [Connections -> PeerConnections]
    BY <2>1, <2>4, OpenedType
  <2>6. Offered'
    BY <2>1, <2>4, OpenedOffers
  <2> QED
    BY <1>2, <2>5, <2>6 DEF MicrophoneToCall, TypeOK
<1>3. CASE MicrophoneToAnswer(c, task)
  <2> DEFINE next == [at |-> "remote offer", pc |-> None, sdp |-> page[c].offer]
             Successors == [at : {"remote offer"}, pc : Connections, sdp : Connections]
  <2>1. task.at = "microphone to answer" /\ Opened(c, task, next)
    BY <1>3 DEF MicrophoneToAnswer
  <2>2. page[c].offer \in Connections
    BY <2>1 DEF Offered, TypeOK, Pages
  <2>3. \A p \in Connections : [next EXCEPT !.pc = p] \in Successors
    BY <2>2
  <2>4. \A p \in Connections : /\ [next EXCEPT !.pc = p] \in Tasks
                               /\ [next EXCEPT !.pc = p].at # "microphone to answer"
    BY <2>3 DEF Tasks
  <2> HIDE DEF next
  <2>5. /\ page' \in [Clients -> Pages]
        /\ tasks' \in [Clients -> SUBSET Tasks]
        /\ conn' \in [Connections -> PeerConnections]
    BY <2>1, <2>4, OpenedType
  <2>6. Offered'
    BY <2>1, <2>4, OpenedOffers
  <2> QED
    BY <1>3, <2>5, <2>6 DEF MicrophoneToAnswer, TypeOK
<1>4. CASE MicrophoneRefused(c, task)
  <2>1. EndCall(c, tasks[c] \ {task}) /\ UNCHANGED <<mailbox, online, dialogs, leaving, calls, drops>>
    BY <1>4 DEF MicrophoneRefused
  <2> QED
    BY <2>1, PlainEndCallType DEF TypeOK
<1> QED
  BY <1>2, <1>3, <1>4

\* What a handler sends once its connection has a local description.
LEMMA SendType ==
  ASSUME Typed, NEW c \in Clients, NEW task \in tasks[c],
         SendInvite(c, task) \/ SendAnswer(c, task)
  PROVE  Typed'
<1> USE DEF Typed
<1>1. page[c] \in Pages /\ task \in Tasks
  BY DEF TypeOK
<1>2. page[c].callId \in Calls \cup {None}
  BY <1>1 DEF Pages
<1> tasks' = [tasks EXCEPT ![c] = @ \ {task}]
  BY DEF SendInvite, SendAnswer
<1>3. \A d \in Clients : tasks'[d] \subseteq tasks[d]
  BY DEF TypeOK
<1>4. tasks' \in [Clients -> SUBSET Tasks]
  BY DEF TypeOK
<1>5. CASE SendInvite(c, task)
  <2> DEFINE s == [page[c] EXCEPT !.hangup = TRUE]
             d == [conn[task.pc] EXCEPT !.local = "offer"]
             message == [type |-> "invite", from |-> c, sdp |-> task.pc,
                         callId |-> page[c].callId]
  <2>1. task.pc \in Connections /\ task.target \in Clients
    BY <1>1, <1>5, TaskKinds DEF SendInvite
  <2>2. s \in Pages /\ s.offer = page[c].offer /\ s.banner = page[c].banner
    BY <1>1 DEF Pages
  <2>3. conn[task.pc] \in PeerConnections
    BY <2>1 DEF TypeOK
  <2>4. d \in PeerConnections
    BY <2>3 DEF PeerConnections
  <2>5. message \in Messages
    BY <1>2, <2>1 DEF Messages
  <2>6. mailbox' \in [Clients -> Seq(Messages)]
    BY <1>5, <2>5, SentType DEF SendInvite
  <2>7. dialogs' \in [Calls -> SUBSET Clients]
    BY <1>5, <2>1 DEF SendInvite, TypeOK
  <2>8. /\ page' = [page EXCEPT ![c] = s] /\ conn' = [conn EXCEPT ![task.pc] = d]
        /\ UNCHANGED <<online, leaving, calls, drops, disturbed>>
    BY <1>5 DEF SendInvite, TypeOK
  <2> HIDE DEF s, d
  <2>9. page' \in [Clients -> Pages] /\ conn' \in [Connections -> PeerConnections]
    BY <2>2, <2>4, <2>8 DEF TypeOK
  <2>10. Offered'
    BY <1>3, <2>2, <2>8, OfferedStays DEF TypeOK
  <2> QED
    BY <1>4, <2>6, <2>7, <2>8, <2>9, <2>10 DEF TypeOK
<1>6. CASE SendAnswer(c, task)
  <2> DEFINE s == Started(page[c])
             d == [conn[task.pc] EXCEPT !.local = "answer"]
             message == [type |-> "answer", from |-> c, sdp |-> task.pc,
                         callId |-> page[c].callId]
  <2>1. task.pc \in Connections
    BY <1>1, <1>6, TaskKinds DEF SendAnswer
  <2>2. s \in Pages /\ s.offer = page[c].offer /\ s.banner = page[c].banner
    BY <1>1 DEF Pages, Started
  <2>3. conn[task.pc] \in PeerConnections
    BY <2>1 DEF TypeOK
  <2>4. d \in PeerConnections
    BY <2>3 DEF PeerConnections
  <2>5. message \in Messages
    BY <1>2, <2>1 DEF Messages
  <2>6. mailbox' \in [Clients -> Seq(Messages)]
    BY <1>6, <2>5, SentType DEF SendAnswer
  <2>7. /\ page' = [page EXCEPT ![c] = s] /\ conn' = [conn EXCEPT ![task.pc] = d]
        /\ UNCHANGED <<online, dialogs, leaving, calls, drops, disturbed>>
    BY <1>6 DEF SendAnswer, TypeOK
  <2> HIDE DEF s, d
  <2>8. page' \in [Clients -> Pages] /\ conn' \in [Connections -> PeerConnections]
    BY <2>2, <2>4, <2>7 DEF TypeOK
  <2>9. Offered'
    BY <1>3, <2>2, <2>7, OfferedStays DEF TypeOK
  <2> QED
    BY <1>4, <2>6, <2>7, <2>8, <2>9 DEF TypeOK
<1> QED
  BY <1>5, <1>6

\* What a handler does once the remote description is set, or cannot be.
LEMMA DescriptionType ==
  ASSUME Typed, NEW c \in Clients, NEW task \in tasks[c],
         \/ RemoteOfferSet(c, task) \/ CandidatesFlushed(c, task)
         \/ RemoteAnswerSet(c, task)
         \/ SetUpFails(c, task) \/ SetUpHangs(c, task)
  PROVE  Typed'
<1> USE DEF Typed
<1>1. page[c] \in Pages /\ task \in Tasks /\ tasks[c] \subseteq Tasks
  BY DEF TypeOK
<1>2. /\ WithTrack(c).offer = page[c].offer /\ WithTrack(c).banner = page[c].banner
      /\ Ended(page[c]) \in Pages
      /\ Ended(page[c]).offer = page[c].offer /\ ~Ended(page[c]).banner
  <2>1. /\ WithTrack(c).offer = page[c].offer
        /\ WithTrack(c).banner = page[c].banner
    BY <1>1 DEF WithTrack, Started, Pages
  <2> QED
    BY <1>1, <2>1, EndedType
<1> DEFINE Successors == [at : {"candidates", "answer"}, pc : Connections]
<1>7. \A t \in Successors : t \in Tasks /\ t.at # "microphone to answer"
  BY DEF Tasks
<1>3. CASE RemoteOfferSet(c, task)
  <2> DEFINE s    == WithTrack(c)
             next == [at |-> "candidates", pc |-> task.pc]
  <2>1. task.pc \in Connections /\ task.sdp \in Connections
    BY <1>1, <1>3, TaskKinds DEF RemoteOfferSet
  <2>2. conn' \in [Connections -> PeerConnections] /\ s \in Pages
    BY <1>3, <2>1, WithRemoteType DEF RemoteOfferSet
  <2>3. s.offer = page[c].offer /\ s.banner = page[c].banner
    BY <1>2
  <2>4. next \in Successors
    BY <2>1
  <2>5. next \in Tasks /\ next.at # "microphone to answer"
    BY <1>7, <2>4
  <2>6. /\ page' = [page EXCEPT ![c] = s]
        /\ tasks' = [tasks EXCEPT ![c] = (tasks[c] \ {task}) \cup {next}]
        /\ UNCHANGED <<mailbox, online, dialogs, leaving, calls, drops, disturbed>>
    BY <1>3 DEF RemoteOfferSet, TypeOK
  <2> HIDE DEF s, next, Successors
  <2>7. page' \in [Clients -> Pages] /\ tasks' \in [Clients -> SUBSET Tasks]
    BY <2>2, <2>5, <2>6 DEF TypeOK
  <2>8. Offered'
    BY <2>2, <2>3, <2>5, <2>6, OfferedStays DEF TypeOK
  <2> QED
    BY <2>2, <2>6, <2>7, <2>8 DEF TypeOK
<1>8. CASE CandidatesFlushed(c, task)
  <2> DEFINE next == [at |-> "answer", pc |-> page[c].pc]
  <2>1. page[c].pc \in Connections
    BY <1>1, <1>8 DEF CandidatesFlushed, Pages
  <2>2. next \in Successors
    BY <2>1
  <2>3. next \in Tasks /\ next.at # "microphone to answer"
    BY <1>7, <2>2
  <2>4. /\ tasks' = [tasks EXCEPT ![c] = (tasks[c] \ {task}) \cup {next}]
        /\ UNCHANGED <<page, conn, mailbox, online, dialogs, leaving, calls, drops,
                       disturbed>>
    BY <1>8 DEF CandidatesFlushed, TypeOK
  <2> HIDE DEF next, Successors
  <2>5. tasks' \in [Clients -> SUBSET Tasks]
    BY <2>3, <2>4 DEF TypeOK
  <2>6. Offered'
    BY <2>3, <2>4, OfferedStays DEF TypeOK
  <2> QED
    BY <2>4, <2>5, <2>6 DEF TypeOK
<1>4. CASE RemoteAnswerSet(c, task)
  <2>1. task.pc \in Connections /\ task.sdp \in Connections
    BY <1>1, <1>4, TaskKinds DEF RemoteAnswerSet
  <2>2. /\ WithRemote(c, task.pc, task.sdp) \in [Connections -> PeerConnections]
        /\ WithTrack(c) \in Pages
    BY <2>1, WithRemoteType
  <2>3. /\ \/ page' = page
           \/ page' = [page EXCEPT ![c] = WithTrack(c)]
        /\ conn' \in {conn, WithRemote(c, task.pc, task.sdp)}
        /\ tasks' = [tasks EXCEPT ![c] = @ \ {task}]
        /\ UNCHANGED <<mailbox, online, dialogs, leaving, calls, drops, disturbed>>
    BY <1>4 DEF RemoteAnswerSet
  <2>4. /\ page' \in [Clients -> Pages] /\ tasks' \in [Clients -> SUBSET Tasks]
        /\ conn' \in [Connections -> PeerConnections]
    BY <2>2, <2>3 DEF TypeOK
  <2>5. Offered'
    BY <1>2, <2>3, OfferedStays DEF TypeOK
  <2> QED
    BY <2>3, <2>4, <2>5 DEF TypeOK
<1>5. CASE SetUpFails(c, task)
  <2>1. EndCall(c, tasks[c] \ {task}) /\ UNCHANGED <<mailbox, online, dialogs, leaving, calls, drops>>
    BY <1>5 DEF SetUpFails
  <2> QED
    BY <2>1, PlainEndCallType DEF TypeOK
<1>6. CASE SetUpHangs(c, task)
  <2>1. /\ tasks' = [tasks EXCEPT ![c] = @ \ {task}]
        /\ UNCHANGED <<page, conn, mailbox, online, dialogs, leaving, calls, drops, disturbed>>
    BY <1>6 DEF SetUpHangs
  <2>2. Offered'
    BY <2>1, OfferedStays DEF TypeOK
  <2> QED
    BY <2>1, <2>2 DEF TypeOK
<1> QED
  BY <1>3, <1>4, <1>5, <1>6, <1>8

\* What a message does that is read.
LEMMA ReadType ==
  ASSUME Typed, NEW c \in Clients, Read(c)
  PROVE  Typed'
<1> USE DEF Typed
<1> DEFINE message == Head(mailbox[c])
<1>1. /\ mailbox' = [mailbox EXCEPT ![c] = Tail(@)]
      /\ UNCHANGED <<online, dialogs, leaving, calls, drops>>
      /\ mailbox[c] \in Seq(Messages) /\ mailbox[c] # <<>>
  BY DEF Read, TypeOK
<1>2. message \in Messages /\ Tail(mailbox[c]) \in Seq(Messages)
  BY <1>1
<1>3. mailbox' \in [Clients -> Seq(Messages)]
  BY <1>1, <1>2 DEF TypeOK
<1>4. page[c] \in Pages
  BY DEF TypeOK
<1> HIDE DEF message
<1>5. CASE ReadInvite(c, message)
  <2> DEFINE s == [page[c] EXCEPT !.peer = message.from, !.callId = message.callId,
                                  !.offer = message.sdp, !.banner = TRUE]
  <2>1. /\ message.from \in Clients /\ message.sdp \in Connections
        /\ message.callId \in Calls \cup {None}
    BY <1>2, <1>5 DEF ReadInvite, Messages, Ends
  <2>2. s \in Pages /\ s.offer = message.sdp
    BY <1>4, <2>1 DEF Pages
  <2>3. /\ page' = [page EXCEPT ![c] = s]
        /\ disturbed' \subseteq disturbed \cup {<<c, "overlap">>}
        /\ UNCHANGED <<tasks, conn>>
    BY <1>5 DEF ReadInvite, TypeOK
  <2>4. disturbed' \subseteq Clients \X Mishaps
    <3>1. <<c, "overlap">> \in Clients \X Mishaps
      BY DEF Mishaps
    <3> QED
      BY <2>3, <3>1 DEF TypeOK
  <2> HIDE DEF s
  <2>5. page' \in [Clients -> Pages]
    BY <2>2, <2>3 DEF TypeOK
  <2>6. Offered'
    BY <2>1, <2>2, <2>3, OfferedStays, NoneIsNobodys DEF TypeOK
  <2> QED
    BY <1>1, <1>3, <2>3, <2>4, <2>5, <2>6 DEF TypeOK
<1>6. CASE ReadAnswer(c, message)
  <2> DEFINE next == [at |-> "remote answer", pc |-> page[c].pc, sdp |-> message.sdp]
             more == IF page[c].pc = None THEN {} ELSE {next}
             Successors == [at : {"remote answer"}, pc : Connections, sdp : Connections]
  <2>1. message.sdp \in Connections
    BY <1>2, <1>6 DEF ReadAnswer, Messages, Ends
  <2>2. page[c].pc # None => page[c].pc \in Connections
    BY <1>4 DEF Pages
  <2>3. more \subseteq Successors
    <3>1. page[c].pc # None => next \in Successors
      BY <2>1, <2>2
    <3> HIDE DEF next
    <3> QED
      BY <3>1
  <2>4. \A t \in Successors : t \in Tasks /\ t.at # "microphone to answer"
    BY DEF Tasks
  <2>5. /\ tasks' = [tasks EXCEPT ![c] = @ \cup more]
        /\ UNCHANGED <<page, conn, disturbed>>
    BY <1>6 DEF ReadAnswer, TypeOK
  <2> HIDE DEF more, Successors
  <2>6. tasks' \in [Clients -> SUBSET Tasks]
    BY <2>3, <2>4, <2>5 DEF TypeOK
  <2>7. Offered'
    BY <2>3, <2>4, <2>5, OfferedStays DEF TypeOK
  <2> QED
    BY <1>1, <1>3, <2>5, <2>6, <2>7 DEF TypeOK
<1>7. CASE ReadCandidate(c, message)
  <2> DEFINE s == [page[c] EXCEPT !.pending = @ \cup {message.candidate}]
             d == [conn[page[c].pc] EXCEPT !.candidates = @ \cup {message.candidate}]
  <2>1. message.candidate \in Connections
    BY <1>2, <1>7 DEF ReadCandidate, Messages, Ends
  <2>2. s \in Pages /\ s.offer = page[c].offer /\ s.banner = page[c].banner
    BY <1>4, <2>1 DEF Pages
  <2>3. ASSUME page[c].pc # None
        PROVE  page[c].pc \in Connections /\ d \in PeerConnections
    <3>1. page[c].pc \in Connections
      BY <1>4, <2>3 DEF Pages
    <3>2. conn[page[c].pc] \in PeerConnections
      BY <3>1 DEF TypeOK
    <3> QED
      BY <2>1, <3>1, <3>2 DEF PeerConnections
  <2>4. /\ \/ page' = [page EXCEPT ![c] = s] /\ conn' = conn
           \/ page' = page /\ page[c].pc # None /\ conn' = [conn EXCEPT ![page[c].pc] = d]
        /\ UNCHANGED <<tasks, disturbed>>
    BY <1>7 DEF ReadCandidate, CandidateTaken, TypeOK
  <2> HIDE DEF s, d
  <2>5. page' \in [Clients -> Pages] /\ conn' \in [Connections -> PeerConnections]
    BY <2>2, <2>3, <2>4 DEF TypeOK
  <2>6. Offered'
    BY <2>2, <2>4, OfferedStays DEF TypeOK
  <2> QED
    BY <1>1, <1>3, <2>4, <2>5, <2>6 DEF TypeOK
<1>8. CASE ReadBye(c, message)
  <2>1. PICK mishaps \in SUBSET Mishaps : EndCallAnd(c, tasks[c], mishaps)
    BY <1>8 DEF ReadBye, Mishaps
  <2> QED
    BY <1>1, <1>3, <2>1, EndCallType DEF TypeOK
<1> QED
  BY <1>5, <1>6, <1>7, <1>8 DEF Read, message

\* The entries of a set of calls with a client.
LEMMA UntoldType ==
  ASSUME NEW entries \in SUBSET (Clients \X Calls)
  PROVE  Untold(entries) \subseteq Clients \X Mishaps
<1>1. ASSUME NEW e \in entries
      PROVE  <<e[1], "untold">> \in Clients \X Mishaps
  BY DEF Mishaps
<1> QED
  BY <1>1 DEF Untold

\* The partners of a client are clients.
LEMMA PartnersType ==
  ASSUME NEW c
  PROVE  PartnersOf(c) \subseteq Clients \X Calls
BY DEF PartnersOf, Involved

\* A handler goes on with its loop of byes.
LEMMA NextByeType ==
  ASSUME TypeOK, NEW h \in leaving, NEW rest \in SUBSET (Clients \X Calls),
         NextBye(h, rest)
  PROVE  /\ leaving' \subseteq Handlers
         /\ mailbox' \in [Clients -> Seq(Messages)]
         /\ disturbed' \subseteq Clients \X Mishaps
<1>1. PICK skipped \in SUBSET rest :
        \/ /\ leaving' = leaving \ {h}
           /\ disturbed' = disturbed \cup Untold(skipped)
           /\ mailbox' = mailbox
        \/ \E e \in rest :
             LET bye == [type |-> "bye", from |-> h.client, callId |-> e[2]]
                 left == rest \ (skipped \cup {e}) IN
             /\ \E at \in {"byes", "broken"} :
                  leaving' = (leaving \ {h})
                    \cup {[h EXCEPT !.at = at, !.to = e[1], !.ended = left]}
             /\ \/ mailbox' = [mailbox EXCEPT ![e[1]] = Append(@, bye)]
                \/ mailbox' = mailbox
             /\ \E told \in SUBSET rest : disturbed' = disturbed \cup Untold(told)
  BY DEF NextBye
<1>2. disturbed' \subseteq Clients \X Mishaps
  <2>1. PICK told \in SUBSET rest : disturbed' = disturbed \cup Untold(told)
    BY <1>1
  <2>2. Untold(told) \subseteq Clients \X Mishaps
    BY UntoldType
  <2> QED
    BY <2>1, <2>2 DEF TypeOK
<1>3. h \in Handlers /\ leaving \subseteq Handlers
  BY DEF TypeOK
<1>4. CASE leaving' = leaving \ {h} /\ mailbox' = mailbox
  BY <1>2, <1>3, <1>4 DEF TypeOK
<1>5. ASSUME NEW e \in rest, NEW at \in {"byes", "broken"}, NEW left \in SUBSET rest,
             leaving' = (leaving \ {h})
               \cup {[h EXCEPT !.at = at, !.to = e[1], !.ended = left]},
             \/ mailbox' = [mailbox EXCEPT ![e[1]] =
                              Append(@, [type |-> "bye", from |-> h.client, callId |-> e[2]])]
             \/ mailbox' = mailbox
      PROVE  leaving' \subseteq Handlers /\ mailbox' \in [Clients -> Seq(Messages)]
  <2>1. e[1] \in Clients /\ e[2] \in Calls
    OBVIOUS
  <2>2. [h EXCEPT !.at = at, !.to = e[1], !.ended = left] \in Handlers
    BY <1>3, <2>1 DEF Handlers
  <2>3. [type |-> "bye", from |-> h.client, callId |-> e[2]] \in Messages
    BY <1>3, <2>1 DEF Handlers, Messages, Ends
  <2>4. mailbox \in [Clients -> Seq(Messages)]
    BY DEF TypeOK
  <2>5. Append(mailbox[e[1]], [type |-> "bye", from |-> h.client, callId |-> e[2]])
          \in Seq(Messages)
    BY <2>1, <2>3, <2>4
  <2> QED
    BY <1>3, <1>5, <2>1, <2>2, <2>4, <2>5
<1>6. CASE leaving' # leaving \ {h} \/ mailbox' # mailbox
  <2>1. PICK e \in rest, at \in {"byes", "broken"} :
          /\ leaving' = (leaving \ {h})
               \cup {[h EXCEPT !.at = at, !.to = e[1], !.ended = rest \ (skipped \cup {e})]}
          /\ \/ mailbox' = [mailbox EXCEPT ![e[1]] =
                              Append(@, [type |-> "bye", from |-> h.client, callId |-> e[2]])]
             \/ mailbox' = mailbox
    BY <1>1, <1>6
  <2>2. rest \ (skipped \cup {e}) \in SUBSET rest
    OBVIOUS
  <2> QED
    BY <1>2, <1>5, <2>1, <2>2
<1> QED
  BY <1>4, <1>6

\* A handler of a WebSocket that has closed goes on.
LEMMA LeaveType ==
  ASSUME Typed, NEW h \in leaving, Leave(h)
  PROVE  Typed'
<1>1. TypeOK /\ h \in Handlers
  BY DEF Typed, TypeOK
<1>2. UNCHANGED <<page, tasks, conn, online, calls, drops>>
  BY DEF Leave
<1>3. Offered'
  BY <1>2 DEF Typed, Offered
<1>4. ASSUME CleanUp(h)
      PROVE  /\ leaving' \subseteq Handlers
             /\ mailbox' \in [Clients -> Seq(Messages)]
             /\ disturbed' \subseteq Clients \X Mishaps
             /\ dialogs' \in [Calls -> SUBSET Clients]
  <2>1. NextBye(h, PartnersOf(h.client)) /\ dialogs' \in [Calls -> SUBSET Clients]
    BY <1>1, <1>4 DEF CleanUp, TypeOK
  <2> QED
    BY <1>1, <2>1, NextByeType, PartnersType
<1>5. /\ leaving' \subseteq Handlers
      /\ mailbox' \in [Clients -> Seq(Messages)]
      /\ disturbed' \subseteq Clients \X Mishaps
      /\ dialogs' \in [Calls -> SUBSET Clients]
  <2>1. CASE Release(h)
    <3>1. CASE CleanUp(h)
      BY <1>4, <3>1
    <3>2. CASE /\ leaving' = (leaving \ {h}) \cup {[h EXCEPT !.at = "offline"]}
               /\ UNCHANGED <<mailbox, dialogs, disturbed>>
      <4>1. [h EXCEPT !.at = "offline"] \in Handlers
        BY <1>1, <2>1 DEF Handlers, Release
      <4> QED
        BY <1>1, <3>2, <4>1 DEF TypeOK
    <3> QED
      BY <2>1, <3>1, <3>2 DEF Release
  <2>2. CASE OfflineSent(h)
    BY <1>4, <2>2 DEF OfflineSent
  <2>3. CASE ByeSent(h)
    <3>1. h.ended \in SUBSET (Clients \X Calls)
      BY <1>1 DEF Handlers
    <3>2. NextBye(h, h.ended) /\ dialogs' = dialogs
      BY <2>3 DEF ByeSent
    <3> QED
      BY <1>1, <3>1, <3>2, NextByeType DEF TypeOK
  <2>4. CASE ByeRaises(h)
    <3>1. Untold(h.ended) \subseteq Clients \X Mishaps
      BY <1>1, UntoldType DEF Handlers
    <3> QED
      BY <1>1, <2>4, <3>1 DEF ByeRaises, TypeOK
  <2> QED
    BY <2>1, <2>2, <2>3, <2>4 DEF Leave
<1> QED
  BY <1>1, <1>2, <1>3, <1>5 DEF Typed, TypeOK

\* What the browser and the network do.
LEMMA EventType ==
  ASSUME Typed, NEW c \in Clients,
         \/ ConnectionLost(c) \/ Drop(c) \/ Reconnect(c)
         \/ \E p \in Connections : Gathered(c, p)
  PROVE  Typed'
<1> USE DEF Typed
<1>1. CASE ConnectionLost(c)
  <2>1. PICK mishaps \in SUBSET {"failed"} :
          /\ EndCallAnd(c, tasks[c], mishaps)
          /\ UNCHANGED <<mailbox, online, dialogs, leaving, calls, drops>>
    BY <1>1 DEF ConnectionLost
  <2>2. mishaps \in SUBSET Mishaps
    BY DEF Mishaps
  <2> QED
    BY <2>1, <2>2, EndCallType DEF TypeOK
<1>2. CASE Drop(c)
  <2>3. <<>> \in Seq(Messages)
    OBVIOUS
  <2>4. mailbox' \in [Clients -> Seq(Messages)]
    BY <1>2, <2>3 DEF Drop, TypeOK
  <2>1. leaving' \subseteq Handlers
    <3> DEFINE new == [drop |-> drops', client |-> c, at |-> "closed", to |-> None,
                       ended |-> {}]
               after(h) == IF h.at = "byes" /\ h.to = c THEN [h EXCEPT !.at = "broken"] ELSE h
    <3>1. drops' \in 1 .. MaxDrops
      <4>1. MaxDrops \in Nat
        BY CallSetupAssumption
      <4>2. drops \in 0 .. MaxDrops /\ drops < MaxDrops /\ drops' = drops + 1
        BY <1>2 DEF Drop, TypeOK
      <4> QED
        BY <4>1, <4>2
    <3>2. new \in Handlers
      BY <3>1 DEF Handlers
    <3>3. \A h \in Handlers : after(h) \in Handlers
      BY DEF Handlers
    <3>4. leaving' = {after(h) : h \in leaving} \cup {new} /\ leaving \subseteq Handlers
      BY <1>2 DEF Drop, TypeOK
    <3> HIDE DEF new, after
    <3> QED
      BY <3>2, <3>3, <3>4
  <2>5. drops' \in 0 .. MaxDrops
    <3>1. MaxDrops \in Nat
      BY CallSetupAssumption
    <3>2. drops \in 0 .. MaxDrops /\ drops < MaxDrops /\ drops' = drops + 1
      BY <1>2 DEF Drop, TypeOK
    <3> QED
      BY <3>1, <3>2
  <2>6. /\ online' \in [Clients -> BOOLEAN]
        /\ UNCHANGED <<page, tasks, conn, dialogs, calls>>
    BY <1>2 DEF Drop, TypeOK
  <2>7. disturbed' \subseteq Clients \X Mishaps
    <3>1. disturbed' \subseteq disturbed \cup {<<c, "unheard">>}
      BY <1>2 DEF Drop
    <3>2. <<c, "unheard">> \in Clients \X Mishaps
      BY DEF Mishaps
    <3> QED
      BY <3>1, <3>2 DEF TypeOK
  <2>8. Offered'
    BY <2>6, OfferedStays
  <2> QED
    BY <2>1, <2>4, <2>5, <2>6, <2>7, <2>8 DEF TypeOK
<1>3. CASE Reconnect(c)
  <2>1. /\ online' \in [Clients -> BOOLEAN]
        /\ UNCHANGED <<page, tasks, conn, mailbox, dialogs, leaving, calls, drops, disturbed>>
    BY <1>3 DEF Reconnect, TypeOK
  <2>2. Offered'
    BY <2>1, OfferedStays
  <2> QED
    BY <2>1, <2>2 DEF TypeOK
<1>4. ASSUME NEW p \in Connections, Gathered(c, p)
      PROVE  Typed'
  <2>1. [type |-> "ice", from |-> c, candidate |-> p] \in Messages
    BY DEF Messages
  <2>2. mailbox' \in [Clients -> Seq(Messages)]
    BY <1>4, <2>1, SentType DEF Gathered
  <2>3. conn[p] \in PeerConnections
    BY DEF TypeOK
  <2>4. [conn[p] EXCEPT !.gathered = TRUE] \in PeerConnections
    BY <2>3 DEF PeerConnections
  <2>5. /\ conn' \in [Connections -> PeerConnections]
        /\ UNCHANGED <<page, tasks, online, dialogs, leaving, calls, drops, disturbed>>
    BY <1>4, <2>4 DEF Gathered, TypeOK
  <2>6. Offered'
    BY <2>5, OfferedStays
  <2> QED
    BY <2>2, <2>5, <2>6 DEF TypeOK
<1> QED
  BY <1>1, <1>2, <1>3, <1>4

LEMMA InitTyped == Init => Typed
<1> SUFFICES ASSUME Init
             PROVE  Typed
  OBVIOUS
<1>1. BlankPage \in Pages /\ ~BlankPage.banner
  BY DEF BlankPage, Pages
<1>2. [Fresh EXCEPT !.state = "none"] \in PeerConnections
  BY DEF Fresh, PeerConnections
<1>3. <<>> \in Seq(Messages)
  OBVIOUS
<1>4. 0 \in 0 .. MaxCalls /\ 0 \in 0 .. MaxDrops
  BY CallSetupAssumption
<1>5. TypeOK
  BY <1>1, <1>2, <1>3, <1>4 DEF Init, TypeOK
<1>6. Offered
  BY <1>1 DEF Init, Offered
<1> QED
  BY <1>5, <1>6 DEF Typed

LEMMA TypeStep ==
  ASSUME Typed, [Next]_vars
  PROVE  Typed'
<1>1. ASSUME NEW c \in Clients, NEW task \in tasks[c], Resume(c, task)
      PROVE  Typed'
  BY <1>1, MicrophoneType, SendType, DescriptionType DEF Resume
<1>2. CASE UNCHANGED vars
  BY <1>2 DEF vars, Typed, TypeOK, Offered
<1> QED
  BY <1>1, <1>2, ClickType, ReadType, EventType, LeaveType DEF Next

THEOREM Types == Spec => []Typed
BY InitTyped, TypeStep, PTL DEF Spec

\* The state of every page, connection, mailbox and call has its type in every
\* reachable state; in particular whoever taps Answer finds an offer to answer
\* (answerBtn, client/index.html:722).
THEOREM TypeCorrectness == Spec => []TypeOK
BY Types, PTL DEF Typed

-----------------------------------------------------------------------------
(***************************************************************************)
(* The microphone.                                                         *)
(***************************************************************************)

AtMicrophone == {"microphone", "microphone to answer"}

\* A handler that opened connection p and has not yet come to show Hang Up.
SettingUp(c, p) ==
  \E task \in tasks[c] : task.at \in {"offer", "remote offer"} /\ task.pc = p

\* While client c has one call at a time: nothing else is under way while the
\* banner is shown, or while a handler waits for the microphone; and the page has
\* hold of the only connection that is open.
InHand(c) ==
  OneCallAtATime(c) =>
    /\ page[c].banner => page[c].peer # None /\ page[c].pc = None /\ tasks[c] = {}
    /\ \A m \in tasks[c] : m.at \in AtMicrophone => page[c].pc = None /\ tasks[c] = {m}
    /\ \A p \in Connections :
         p[1] = c /\ conn[p].state = "open" =>
           p = page[c].pc /\ (page[c].hangup \/ SettingUp(c, p))

AllInHand == \A c \in Clients : InHand(c)

\* Nothing is opened for client c.
OpensNone(c) ==
  \A p \in Connections : p[1] = c /\ conn'[p].state = "open" => conn[p].state = "open"

\* What a page does stays with it.
OthersStay(c) ==
  /\ \A d \in Clients \ {c} : page'[d] = page[d] /\ tasks'[d] = tasks[d] /\ OpensNone(d)
  /\ disturbed \subseteq disturbed'

\* The call goes on: handlers end, or are joined by some that need no microphone.
CallGoesOn(c) ==
  /\ disturbed \subseteq disturbed'
  /\ page'[c].banner = page[c].banner
  /\ page'[c].peer = page[c].peer
  /\ page'[c].pc = page[c].pc
  /\ page[c].hangup => page'[c].hangup
  /\ \A task \in tasks'[c] :
       \/ task \in tasks[c]
       \/ /\ task.at \notin AtMicrophone
          /\ page[c].pc # None \/ \E other \in tasks[c] : other.at \notin AtMicrophone
  /\ \A task \in tasks[c] :
       \/ task \in tasks'[c] \/ page'[c].hangup
       \/ task.at \notin {"offer", "remote offer"}
       \/ conn'[task.pc].state # "open"

LEMMA GoesOn ==
  ASSUME NEW c \in Clients, InHand(c), OpensNone(c), CallGoesOn(c)
  PROVE  InHand(c)'
<1> USE DEF CallGoesOn
<1> SUFFICES ASSUME OneCallAtATime(c)'
             PROVE  InHand(c)'
  BY DEF InHand
<1>1. OneCallAtATime(c)
  BY DEF OneCallAtATime
<1>2. ASSUME page'[c].banner
      PROVE  page'[c].peer # None /\ page'[c].pc = None /\ tasks'[c] = {}
  BY <1>1, <1>2 DEF InHand
<1>3. ASSUME NEW m \in tasks'[c], m.at \in AtMicrophone
      PROVE  page'[c].pc = None /\ tasks'[c] = {m}
  BY <1>1, <1>3 DEF InHand
<1>4. ASSUME NEW p \in Connections, p[1] = c, conn'[p].state = "open"
      PROVE  p = page'[c].pc /\ (page'[c].hangup \/ SettingUp(c, p)')
  BY <1>1, <1>4 DEF InHand, OpensNone, SettingUp
<1> QED
  BY <1>2, <1>3, <1>4 DEF InHand

\* Where no connection of its is open a page has only to mind its banner and its
\* handlers.
LEMMA NothingOpen ==
  ASSUME NEW c \in Clients,
         \A p \in Connections : p[1] = c => conn'[p].state # "open",
         page'[c].pc = None,
         page'[c].banner => page'[c].peer # None /\ tasks'[c] = {},
         \A m \in tasks'[c] : m.at \in AtMicrophone => tasks'[c] = {m}
  PROVE  InHand(c)'
BY DEF InHand

\* A page without a connection has none open.
LEMMA NoneIsOpen ==
  ASSUME NEW c \in Clients, InHand(c), OneCallAtATime(c), page[c].pc = None
  PROVE  \A p \in Connections : p[1] = c => conn[p].state # "open"
BY NoneIsNobodys DEF InHand

\* endCall closes the only connection.
LEMMA EndCallLetsGo ==
  ASSUME Typed, NEW c \in Clients, InHand(c), NEW rest \in SUBSET tasks[c],
         NEW mishaps, EndCallAnd(c, rest, mishaps)
  PROVE  InHand(c)' /\ OthersStay(c)
<1>1. /\ page' = [page EXCEPT ![c] = Ended(page[c])]
      /\ conn' = Closed(page[c].pc)
      /\ tasks' = [tasks EXCEPT ![c] = rest]
      /\ disturbed \subseteq disturbed'
  BY DEF EndCallAnd, Typed, TypeOK
<1>2. \A p \in Connections :
        conn'[p].state = "open" => conn[p].state = "open" /\ p # page[c].pc
  BY <1>1, NoneIsNobodys DEF Closed, Fresh, Typed, TypeOK
<1>3. /\ page'[c].pc = None /\ ~page'[c].banner
      /\ tasks'[c] = rest
  BY <1>1 DEF Ended, BlankPage, Typed, TypeOK
<1>4. OthersStay(c)
  BY <1>1, <1>2 DEF OthersStay, OpensNone, Typed, TypeOK
<1>5. InHand(c)'
  <2>1. SUFFICES ASSUME OneCallAtATime(c)
                 PROVE  InHand(c)'
    BY <1>1 DEF InHand, OneCallAtATime
  <2>2. \A p \in Connections : p[1] = c => conn'[p].state # "open"
    BY <1>2, <2>1 DEF InHand
  <2>3. \A m \in rest : m.at \in AtMicrophone => rest = {m}
    BY <2>1 DEF InHand
  <2> QED
    BY <1>3, <2>2, <2>3, NothingOpen
<1> QED
  BY <1>4, <1>5

\* createPeerConnection is called by the only handler, and there was none before.
LEMMA OpenedInHand ==
  ASSUME Typed, NEW c \in Clients, InHand(c), NEW task \in tasks[c],
         task.at \in AtMicrophone, NEW next,
         \A p \in Connections : /\ [next EXCEPT !.pc = p].at \in {"offer", "remote offer"}
                                /\ [next EXCEPT !.pc = p].pc = p,
         Opened(c, task, next), disturbed' = disturbed
  PROVE  InHand(c)' /\ OthersStay(c)
<1>1. PICK p \in Connections : p = NextConnection(c) /\ p[1] = c
  BY NextIsUnused DEF Opened, Unused
<1> DEFINE q == [next EXCEPT !.pc = p]
<1>2. /\ page' = [page EXCEPT ![c] = [page[c] EXCEPT !.pc = p]]
      /\ conn' = [conn EXCEPT ![p] = [conn[p] EXCEPT !.state = "open"]]
      /\ tasks' = [tasks EXCEPT ![c] = (tasks[c] \ {task}) \cup {q}]
  BY <1>1 DEF Opened, Typed, TypeOK
<1>3. q.at \in {"offer", "remote offer"} /\ q.pc = p
  BY <1>1
<1> HIDE DEF q
<1>4. \A r \in Connections \ {p} : conn'[r] = conn[r]
  BY <1>2 DEF Typed, TypeOK
<1>5. OthersStay(c)
  BY <1>1, <1>2, <1>4 DEF OthersStay, OpensNone, Typed, TypeOK
<1>6. ASSUME OneCallAtATime(c)
      PROVE  InHand(c)'
  <2>1. page[c].pc = None /\ tasks[c] = {task} /\ ~page[c].banner
    BY <1>6 DEF InHand
  <2>2. page'[c].pc = p /\ ~page'[c].banner
    <3>1. page[c] \in Pages
      BY DEF Typed, TypeOK
    <3> QED
      BY <1>2, <2>1, <3>1 DEF Pages, Typed, TypeOK
  <2>3. tasks'[c] = {q}
    BY <1>2, <2>1 DEF Typed, TypeOK
  <2>4. \A r \in Connections : r[1] = c /\ conn'[r].state = "open" => r = p
    BY <1>4, <1>6, <2>1, NoneIsOpen
  <2>5. SettingUp(c, p)'
    <3>1. q \in tasks'[c]
      BY <2>3
    <3> QED
      BY <1>3, <3>1 DEF SettingUp
  <2>6. q.at \notin AtMicrophone
    BY <1>3 DEF AtMicrophone
  <2> QED
    BY <2>2, <2>3, <2>4, <2>5, <2>6 DEF InHand
<1>7. InHand(c)'
  BY <1>6 DEF InHand, OneCallAtATime
<1> QED
  BY <1>5, <1>7

\* Clicks: a second call at the same time is on record.
LEMMA ClickInHand ==
  ASSUME Typed, NEW c \in Clients, InHand(c),
         \/ \E t \in Clients \ {c} : ClickCall(c, t)
         \/ ClickAnswer(c) \/ ClickReject(c) \/ ClickHangUp(c)
  PROVE  InHand(c)' /\ OthersStay(c)
<1>1. page[c] \in Pages
  BY DEF Typed, TypeOK
<1>2. ASSUME NEW t \in Clients \ {c}, ClickCall(c, t)
      PROVE  InHand(c)' /\ OthersStay(c)
  <2>1. PICK task : /\ task.at = "microphone"
                    /\ tasks' = [tasks EXCEPT ![c] = @ \cup {task}]
    BY <1>2 DEF ClickCall
  <2>2. /\ page' = [page EXCEPT ![c] = [page[c] EXCEPT !.peer = t, !.callId = calls + 1]]
        /\ conn' = conn
        /\ disturbed' = IF Busy(c) THEN disturbed \cup {<<c, "overlap">>} ELSE disturbed
    BY <1>2 DEF ClickCall, Typed, TypeOK
  <2>3. OthersStay(c)
    BY <2>1, <2>2 DEF OthersStay, OpensNone, Typed, TypeOK
  <2>4. ASSUME OneCallAtATime(c)'
        PROVE  InHand(c)'
    <3>1. OneCallAtATime(c) /\ page[c].peer = None /\ page[c].pc = None /\ tasks[c] = {}
      BY <2>2, <2>4 DEF OneCallAtATime, Busy
    <3>2. page'[c].pc = None /\ ~page'[c].banner
      <4>1. ~page[c].banner
        BY <3>1 DEF InHand
      <4> QED
        BY <1>1, <2>2, <3>1, <4>1 DEF Pages, Typed, TypeOK
    <3>3. tasks'[c] = {task}
      BY <2>1, <3>1 DEF Typed, TypeOK
    <3>4. \A p \in Connections : p[1] = c => conn'[p].state # "open"
      BY <2>2, <3>1, NoneIsOpen
    <3> QED
      BY <3>2, <3>3, <3>4, NothingOpen
  <2> QED
    BY <2>3, <2>4 DEF InHand
<1>3. CASE ClickAnswer(c)
  <2>1. PICK task : tasks' = [tasks EXCEPT ![c] = @ \cup {task}]
    BY <1>3 DEF ClickAnswer
  <2>2. /\ page[c].banner
        /\ page' = [page EXCEPT ![c] = [page[c] EXCEPT !.banner = FALSE]]
        /\ UNCHANGED <<conn, disturbed>>
    BY <1>3 DEF ClickAnswer, Typed, TypeOK
  <2>3. OthersStay(c)
    BY <2>1, <2>2 DEF OthersStay, OpensNone, Typed, TypeOK
  <2>4. ASSUME OneCallAtATime(c)
        PROVE  InHand(c)'
    <3>1. page[c].pc = None /\ tasks[c] = {}
      BY <2>2, <2>4 DEF InHand
    <3>2. page'[c].pc = None /\ ~page'[c].banner
      BY <1>1, <2>2, <3>1 DEF Pages, Typed, TypeOK
    <3>3. tasks'[c] = {task}
      BY <2>1, <3>1 DEF Typed, TypeOK
    <3>4. \A p \in Connections : p[1] = c => conn'[p].state # "open"
      BY <2>2, <2>4, <3>1, NoneIsOpen
    <3> QED
      BY <3>2, <3>3, <3>4, NothingOpen
  <2> QED
    BY <2>2, <2>3, <2>4 DEF InHand, OneCallAtATime
<1>4. CASE ClickReject(c)
  <2>1. /\ page[c].banner
        /\ page' = [page EXCEPT ![c] = [page[c] EXCEPT !.banner = FALSE, !.peer = None,
                                                       !.callId = None]]
        /\ UNCHANGED <<tasks, conn, disturbed>>
    BY <1>4 DEF ClickReject, Typed, TypeOK
  <2>2. OthersStay(c)
    BY <2>1 DEF OthersStay, OpensNone, Typed, TypeOK
  <2>3. ASSUME OneCallAtATime(c)
        PROVE  InHand(c)'
    <3>1. page[c].pc = None /\ tasks[c] = {}
      BY <2>1, <2>3 DEF InHand
    <3>2. page'[c].pc = None /\ ~page'[c].banner
      BY <1>1, <2>1, <3>1 DEF Pages, Typed, TypeOK
    <3>3. \A p \in Connections : p[1] = c => conn'[p].state # "open"
      BY <2>1, <2>3, <3>1, NoneIsOpen
    <3> QED
      BY <2>1, <3>1, <3>2, <3>3, NothingOpen
  <2> QED
    BY <2>1, <2>2, <2>3 DEF InHand, OneCallAtATime
<1>5. CASE ClickHangUp(c)
  BY <1>5, EndCallLetsGo DEF EndCall, ClickHangUp
<1> QED
  BY <1>2, <1>3, <1>4, <1>5

\* The microphone is granted or refused.
LEMMA MicrophoneGrantedInHand ==
  ASSUME Typed, NEW c \in Clients, InHand(c), NEW task \in tasks[c],
         MicrophoneToCall(c, task) \/ MicrophoneToAnswer(c, task)
           \/ MicrophoneRefused(c, task) \/ SetUpFails(c, task)
  PROVE  InHand(c)' /\ OthersStay(c)
<1>1. ASSUME NEW o, NEW p \in Connections
      PROVE  /\ [[at |-> "offer", pc |-> None, target |-> o] EXCEPT !.pc = p].at = "offer"
             /\ [[at |-> "offer", pc |-> None, target |-> o] EXCEPT !.pc = p].pc = p
             /\ [[at |-> "remote offer", pc |-> None, sdp |-> o] EXCEPT !.pc = p].at = "remote offer"
             /\ [[at |-> "remote offer", pc |-> None, sdp |-> o] EXCEPT !.pc = p].pc = p
  OBVIOUS
<1>2. CASE MicrophoneToCall(c, task)
  <2> DEFINE next == [at |-> "offer", pc |-> None, target |-> task.target]
  <2>1. \A p \in Connections : /\ [next EXCEPT !.pc = p].at \in {"offer", "remote offer"}
                               /\ [next EXCEPT !.pc = p].pc = p
    BY <1>1
  <2>2. task.at \in AtMicrophone /\ Opened(c, task, next) /\ disturbed' = disturbed
    BY <1>2 DEF MicrophoneToCall, AtMicrophone
  <2> HIDE DEF next
  <2> QED
    BY <2>1, <2>2, OpenedInHand
<1>3. CASE MicrophoneToAnswer(c, task)
  <2> DEFINE next == [at |-> "remote offer", pc |-> None, sdp |-> page[c].offer]
  <2>1. \A p \in Connections : /\ [next EXCEPT !.pc = p].at \in {"offer", "remote offer"}
                               /\ [next EXCEPT !.pc = p].pc = p
    BY <1>1
  <2>2. task.at \in AtMicrophone /\ Opened(c, task, next) /\ disturbed' = disturbed
    BY <1>3 DEF MicrophoneToAnswer, AtMicrophone
  <2> HIDE DEF next
  <2> QED
    BY <2>1, <2>2, OpenedInHand
<1>4. CASE MicrophoneRefused(c, task) \/ SetUpFails(c, task)
  <2>1. EndCall(c, tasks[c] \ {task})
    BY <1>4 DEF MicrophoneRefused, SetUpFails
  <2> QED
    BY <2>1, EndCallLetsGo DEF EndCall
<1> QED
  BY <1>2, <1>3, <1>4

\* A remote description leaves every connection as open as it was.
LEMMA WithRemoteOpensNone ==
  ASSUME Typed, NEW c \in Clients, NEW p \in Connections, NEW sdp \in Connections
  PROVE  /\ \A q \in Connections : WithRemote(c, p, sdp)[q].state = conn[q].state
         /\ WithTrack(c).pc = page[c].pc /\ WithTrack(c).peer = page[c].peer
         /\ WithTrack(c).banner = page[c].banner /\ WithTrack(c).hangup
<1>1. /\ page[c] \in Pages /\ \A q \in Connections : conn[q] \in PeerConnections
      /\ conn \in [Connections -> PeerConnections]
  BY DEF Typed, TypeOK
<1> DEFINE set == [conn EXCEPT ![p].remote = sdp]
<1>2. set \in [Connections -> PeerConnections]
  <2>1. [conn[p] EXCEPT !.remote = sdp] \in PeerConnections
    BY <1>1 DEF PeerConnections
  <2> QED
    BY <1>1, <2>1
<1>3. \A q \in Connections : set[q].state = conn[q].state
  BY <1>1 DEF PeerConnections
<1>4. ASSUME page[c].pc # None, NEW q \in Connections
      PROVE  [set EXCEPT ![page[c].pc].candidates = @ \cup page[c].pending][q].state
               = conn[q].state
  <2>1. set[q] \in PeerConnections
    BY <1>2
  <2> HIDE DEF set
  <2> QED
    BY <1>2, <1>3, <2>1 DEF PeerConnections
<1>5. \A q \in Connections : WithRemote(c, p, sdp)[q].state = conn[q].state
  BY <1>3, <1>4 DEF WithRemote
<1>6. /\ WithTrack(c).pc = page[c].pc /\ WithTrack(c).peer = page[c].peer
      /\ WithTrack(c).banner = page[c].banner /\ WithTrack(c).hangup
  BY <1>1 DEF WithTrack, Started, Pages
<1> QED
  BY <1>5, <1>6

\* A connection that changes in another respect is as open as it was.
LEMMA StatesStay ==
  ASSUME Typed, NEW p, NEW d, d.state = conn[p].state,
         conn' = [conn EXCEPT ![p] = d]
  PROVE  \A q \in Connections : conn'[q].state = conn[q].state
BY DEF Typed, TypeOK

\* Descriptions are set and sent.
LEMMA DescriptionInHand ==
  ASSUME Typed, NEW c \in Clients, InHand(c), NEW task \in tasks[c],
         \/ SendInvite(c, task) \/ SendAnswer(c, task)
         \/ RemoteOfferSet(c, task) \/ CandidatesFlushed(c, task)
         \/ RemoteAnswerSet(c, task) \/ SetUpHangs(c, task)
  PROVE  InHand(c)' /\ OthersStay(c)
<1>1. page[c] \in Pages /\ task \in Tasks
  BY DEF Typed, TypeOK
<1>2. disturbed' = disturbed
  BY DEF SendInvite, SendAnswer, RemoteOfferSet, CandidatesFlushed, RemoteAnswerSet, SetUpHangs
<1>3. CASE SendInvite(c, task) \/ SendAnswer(c, task)
  <2>1. task.pc \in Connections
    BY <1>1, <1>3, TaskKinds DEF SendInvite, SendAnswer
  <2>2. PICK s \in {[page[c] EXCEPT !.hangup = TRUE], Started(page[c])},
             d \in {[conn[task.pc] EXCEPT !.local = "offer"],
                   [conn[task.pc] EXCEPT !.local = "answer"]} :
          /\ page' = [page EXCEPT ![c] = s]
          /\ conn' = [conn EXCEPT ![task.pc] = d]
          /\ tasks' = [tasks EXCEPT ![c] = @ \ {task}]
    BY <1>3 DEF SendInvite, SendAnswer, Typed, TypeOK
  <2>3. \A p \in Connections : conn'[p].state = conn[p].state
    <3>1. conn[task.pc] \in PeerConnections
      BY <2>1 DEF Typed, TypeOK
    <3>2. d.state = conn[task.pc].state
      BY <3>1 DEF PeerConnections
    <3> QED
      BY <2>2, <3>2, StatesStay
  <2>4. /\ page'[c].banner = page[c].banner /\ page'[c].peer = page[c].peer
        /\ page'[c].pc = page[c].pc /\ page'[c].hangup
    <3>1. page'[c] = s
      BY <2>2 DEF Typed, TypeOK
    <3>2. /\ s.banner = page[c].banner /\ s.peer = page[c].peer
          /\ s.pc = page[c].pc /\ s.hangup
      BY <1>1 DEF Started, Pages
    <3> QED
      BY <3>1, <3>2
  <2>5. /\ tasks'[c] \subseteq tasks[c]
        /\ \A e \in Clients \ {c} : tasks'[e] = tasks[e] /\ page'[e] = page[e]
    BY <2>2 DEF Typed, TypeOK
  <2>6. \A e \in Clients : OpensNone(e)
    BY <2>3 DEF OpensNone
  <2>7. CallGoesOn(c)
    BY <1>2, <2>4, <2>5 DEF CallGoesOn
  <2> QED
    BY <1>2, <2>5, <2>6, <2>7, GoesOn DEF OthersStay
<1>4. CASE RemoteOfferSet(c, task)
  <2>1. task.pc \in Connections /\ task.sdp \in Connections
    BY <1>1, <1>4, TaskKinds DEF RemoteOfferSet
  <2>2. \A p \in Connections : conn'[p].state = conn[p].state
    BY <1>4, <2>1, WithRemoteOpensNone DEF RemoteOfferSet
  <2>3. \A d \in Clients : OpensNone(d)
    BY <2>2 DEF OpensNone
  <2>4. OthersStay(c)
    BY <1>2, <1>4, <2>3 DEF RemoteOfferSet, OthersStay, Typed, TypeOK
  <2> DEFINE next == [at |-> "candidates", pc |-> task.pc]
  <2>5. /\ page'[c] = WithTrack(c)
        /\ tasks'[c] = (tasks[c] \ {task}) \cup {next}
    BY <1>4 DEF RemoteOfferSet, Typed, TypeOK
  <2>6. next.at \notin AtMicrophone /\ task.at \notin AtMicrophone
    BY <1>4 DEF RemoteOfferSet, AtMicrophone
  <2>7. /\ page'[c].banner = page[c].banner /\ page'[c].peer = page[c].peer
        /\ page'[c].pc = page[c].pc /\ page'[c].hangup
    BY <2>1, <2>5, WithRemoteOpensNone
  <2> HIDE DEF next
  <2>8. CallGoesOn(c)
    BY <1>2, <2>5, <2>6, <2>7 DEF CallGoesOn
  <2> QED
    BY <2>3, <2>4, <2>8, GoesOn
<1>7. CASE CandidatesFlushed(c, task)
  <2> DEFINE next == [at |-> "answer", pc |-> page[c].pc]
  <2>1. /\ page[c].pc # None /\ task.at = "candidates"
        /\ tasks' = [tasks EXCEPT ![c] = (@ \ {task}) \cup {next}]
        /\ UNCHANGED <<page, conn>>
    BY <1>7 DEF CandidatesFlushed
  <2>2. next.at \notin AtMicrophone
    BY DEF AtMicrophone
  <2> HIDE DEF next
  <2>3. /\ tasks'[c] = (tasks[c] \ {task}) \cup {next}
        /\ \A d \in Clients \ {c} : tasks'[d] = tasks[d]
    BY <2>1 DEF Typed, TypeOK
  <2>4. \A d \in Clients : OpensNone(d)
    BY <2>1 DEF OpensNone
  <2>5. CallGoesOn(c)
    BY <1>2, <2>1, <2>2, <2>3 DEF CallGoesOn
  <2> QED
    BY <1>2, <2>1, <2>3, <2>4, <2>5, GoesOn DEF OthersStay
<1>5. CASE RemoteAnswerSet(c, task)
  <2>1. task.pc \in Connections /\ task.sdp \in Connections
    BY <1>1, <1>5, TaskKinds DEF RemoteAnswerSet
  <2>2. \A p \in Connections : conn'[p].state = conn[p].state
    <3>1. conn' = conn \/ conn' = WithRemote(c, task.pc, task.sdp)
      BY <1>5 DEF RemoteAnswerSet
    <3> QED
      BY <2>1, <3>1, WithRemoteOpensNone
  <2>3. \A d \in Clients : OpensNone(d)
    BY <2>2 DEF OpensNone
  <2>4. /\ task.at = "remote answer"
        /\ tasks' = [tasks EXCEPT ![c] = @ \ {task}]
        /\ page' = page \/ page' = [page EXCEPT ![c] = WithTrack(c)]
    BY <1>5 DEF RemoteAnswerSet
  <2>5. /\ page'[c].banner = page[c].banner /\ page'[c].peer = page[c].peer
        /\ page'[c].pc = page[c].pc
        /\ page[c].hangup => page'[c].hangup
    <3>1. page'[c] \in {page[c], WithTrack(c)}
      BY <2>4 DEF Typed, TypeOK
    <3> QED
      BY <2>1, <3>1, WithRemoteOpensNone
  <2>6. /\ tasks'[c] = tasks[c] \ {task}
        /\ \A d \in Clients \ {c} : tasks'[d] = tasks[d] /\ page'[d] = page[d]
    BY <2>4 DEF Typed, TypeOK
  <2>7. CallGoesOn(c)
    BY <1>2, <2>4, <2>5, <2>6 DEF CallGoesOn
  <2> QED
    BY <1>2, <2>3, <2>6, <2>7, GoesOn DEF OthersStay
<1>6. CASE SetUpHangs(c, task)
  <2>1. /\ conn[task.pc].state = "closed"
        /\ tasks' = [tasks EXCEPT ![c] = @ \ {task}]
        /\ UNCHANGED <<page, conn>>
    BY <1>6 DEF SetUpHangs
  <2>2. /\ tasks'[c] = tasks[c] \ {task}
        /\ \A d \in Clients \ {c} : tasks'[d] = tasks[d]
    BY <2>1 DEF Typed, TypeOK
  <2>3. \A d \in Clients : OpensNone(d)
    BY <2>1 DEF OpensNone
  <2>4. CallGoesOn(c)
    BY <1>2, <2>1, <2>2 DEF CallGoesOn
  <2> QED
    BY <1>2, <2>1, <2>2, <2>3, <2>4, GoesOn DEF OthersStay
<1> QED
  BY <1>3, <1>4, <1>5, <1>6, <1>7

\* Messages are read.
LEMMA ReadInHand ==
  ASSUME Typed, NEW c \in Clients, InHand(c), Read(c)
  PROVE  InHand(c)' /\ OthersStay(c)
<1>1. PICK message \in Messages :
        \/ ReadInvite(c, message) \/ ReadAnswer(c, message)
        \/ ReadCandidate(c, message) \/ ReadBye(c, message)
  <2>1. mailbox[c] \in Seq(Messages) /\ mailbox[c] # <<>>
    BY DEF Read, Typed, TypeOK
  <2> QED
    BY <2>1 DEF Read
<1>2. page[c] \in Pages
  BY DEF Typed, TypeOK
<1>3. CASE ReadInvite(c, message)
  <2>1. message.from \in Clients
    BY <1>1, <1>3 DEF ReadInvite, Messages
  <2>2. /\ page' = [page EXCEPT ![c] =
             [page[c] EXCEPT !.peer = message.from, !.callId = message.callId,
                             !.offer = message.sdp, !.banner = TRUE]]
        /\ disturbed' = IF Busy(c) THEN disturbed \cup {<<c, "overlap">>} ELSE disturbed
        /\ UNCHANGED <<tasks, conn>>
    BY <1>3 DEF ReadInvite, Typed, TypeOK
  <2>3. OthersStay(c)
    BY <2>2 DEF OthersStay, OpensNone, Typed, TypeOK
  <2>4. ASSUME OneCallAtATime(c)'
        PROVE  InHand(c)'
    <3>1. OneCallAtATime(c) /\ page[c].pc = None /\ tasks[c] = {}
      BY <2>2, <2>4 DEF OneCallAtATime, Busy
    <3>2. page'[c].pc = None /\ page'[c].peer = message.from
      BY <1>2, <2>2, <3>1 DEF Pages, Typed, TypeOK
    <3>3. page'[c].peer # None
      BY <2>1, <3>2, CallSetupAssumption
    <3>4. \A p \in Connections : p[1] = c => conn'[p].state # "open"
      BY <2>2, <3>1, NoneIsOpen
    <3> QED
      BY <2>2, <3>1, <3>2, <3>3, <3>4, NothingOpen
  <2> QED
    BY <2>3, <2>4 DEF InHand
<1>4. CASE ReadAnswer(c, message)
  <2> DEFINE next == [at |-> "remote answer", pc |-> page[c].pc, sdp |-> message.sdp]
  <2>1. /\ tasks' = IF page[c].pc = None THEN tasks
                    ELSE [tasks EXCEPT ![c] = @ \cup {next}]
        /\ UNCHANGED <<page, conn, disturbed>>
    BY <1>4 DEF ReadAnswer
  <2>2. next.at \notin AtMicrophone
    BY DEF AtMicrophone
  <2> HIDE DEF next
  <2>3. /\ tasks'[c] = IF page[c].pc = None THEN tasks[c] ELSE tasks[c] \cup {next}
        /\ \A d \in Clients \ {c} : tasks'[d] = tasks[d]
    BY <2>1 DEF Typed, TypeOK
  <2>4. \A d \in Clients : OpensNone(d)
    BY <2>1 DEF OpensNone
  <2>5. CallGoesOn(c)
    <3>1. \A t \in tasks'[c] :
            t \in tasks[c] \/ (page[c].pc # None /\ t.at \notin AtMicrophone)
      BY <2>2, <2>3
    <3>2. tasks[c] \subseteq tasks'[c]
      BY <2>3
    <3>3. page' = page /\ disturbed' = disturbed
      BY <2>1
    <3> QED
      BY <3>1, <3>2, <3>3 DEF CallGoesOn
  <2> QED
    BY <2>1, <2>3, <2>4, <2>5, GoesOn DEF OthersStay
<1>5. CASE ReadCandidate(c, message)
  <2> DEFINE s == [page[c] EXCEPT !.pending = @ \cup {message.candidate}]
             d == [conn[page[c].pc] EXCEPT !.candidates = @ \cup {message.candidate}]
  <2>1. /\ UNCHANGED <<tasks, disturbed>>
        /\ \/ page' = [page EXCEPT ![c] = s] /\ conn' = conn
           \/ /\ page[c].pc # None
              /\ conn' = [conn EXCEPT ![page[c].pc] = d] /\ page' = page
    BY <1>5 DEF ReadCandidate, CandidateTaken, Typed, TypeOK
  <2>2. \A p \in Connections : conn'[p].state = conn[p].state
    <3>1. page[c].pc # None => conn[page[c].pc] \in PeerConnections
      BY <1>2 DEF Pages, Typed, TypeOK
    <3>2. page[c].pc # None => d.state = conn[page[c].pc].state
      BY <3>1 DEF PeerConnections
    <3> HIDE DEF d
    <3> QED
      BY <2>1, <3>2, StatesStay
  <2>3. /\ page'[c].banner = page[c].banner /\ page'[c].peer = page[c].peer
        /\ page'[c].pc = page[c].pc /\ page'[c].hangup = page[c].hangup
        /\ \A e \in Clients \ {c} : page'[e] = page[e]
    <3>1. /\ s.banner = page[c].banner /\ s.peer = page[c].peer
          /\ s.pc = page[c].pc /\ s.hangup = page[c].hangup
      BY <1>2 DEF Pages
    <3> HIDE DEF s
    <3> QED
      BY <2>1, <3>1 DEF Typed, TypeOK
  <2>4. \A e \in Clients : OpensNone(e)
    BY <2>2 DEF OpensNone
  <2>5. CallGoesOn(c)
    BY <2>1, <2>3 DEF CallGoesOn
  <2> QED
    BY <2>1, <2>3, <2>4, <2>5, GoesOn DEF OthersStay
<1>6. CASE ReadBye(c, message)
  BY <1>6, EndCallLetsGo DEF ReadBye
<1> QED
  BY <1>1, <1>3, <1>4, <1>5, <1>6

\* What the browser and the network do leaves the page as it is, or ends the call.
LEMMA EventInHand ==
  ASSUME Typed, NEW c \in Clients, InHand(c),
         \/ ConnectionLost(c) \/ Drop(c) \/ Reconnect(c)
         \/ \E p \in Connections : Gathered(c, p)
  PROVE  InHand(c)' /\ OthersStay(c)
<1>1. CASE ConnectionLost(c)
  BY <1>1, EndCallLetsGo DEF ConnectionLost
<1>2. ASSUME \/ Drop(c) \/ Reconnect(c)
             \/ \E p \in Connections : Gathered(c, p)
      PROVE  InHand(c)' /\ OthersStay(c)
  <2>1. UNCHANGED <<page, tasks>> /\ disturbed \subseteq disturbed'
    BY <1>2 DEF Drop, Reconnect, Gathered
  <2>2. \A p \in Connections : conn'[p].state = conn[p].state
    <3>1. ASSUME NEW p \in Connections
          PROVE  [conn[p] EXCEPT !.gathered = TRUE].state = conn[p].state
      <4>1. conn[p] \in PeerConnections
        BY DEF Typed, TypeOK
      <4> QED
        BY <4>1 DEF PeerConnections
    <3>2. \/ conn' = conn
          \/ \E p \in Connections :
               conn' = [conn EXCEPT ![p] = [conn[p] EXCEPT !.gathered = TRUE]]
      BY <1>2 DEF Drop, Reconnect, Gathered
    <3> QED
      BY <3>1, <3>2, StatesStay
  <2>3. \A d \in Clients : OpensNone(d)
    BY <2>2 DEF OpensNone
  <2>4. CallGoesOn(c)
    BY <2>1 DEF CallGoesOn
  <2> QED
    BY <2>1, <2>3, <2>4, GoesOn DEF OthersStay
<1> QED
  BY <1>1, <1>2

\* What befell a client stays on record when a handler goes on.
LEMMA OnlyMoreUntold ==
  ASSUME NEW h, Leave(h)
  PROVE  disturbed \subseteq disturbed'
BY DEF Leave, Release, OfflineSent, CleanUp, ByeSent, NextBye, ByeRaises

LEMMA InHandStep ==
  ASSUME Typed, AllInHand, [Next]_vars
  PROVE  AllInHand'
<1>1. ASSUME NEW c \in Clients, InHand(c)' /\ OthersStay(c)
      PROVE  AllInHand'
  <2>1. ASSUME NEW d \in Clients \ {c}
        PROVE  InHand(d)'
    <3>1. OpensNone(d) /\ CallGoesOn(d)
      BY <1>1 DEF OthersStay, CallGoesOn
    <3> QED
      BY <3>1, GoesOn DEF AllInHand
  <2> QED
    BY <1>1, <2>1 DEF AllInHand
<1>2. ASSUME NEW c \in Clients, NEW task \in tasks[c], Resume(c, task)
      PROVE  InHand(c)' /\ OthersStay(c)
  BY <1>2, MicrophoneGrantedInHand, DescriptionInHand DEF Resume, AllInHand
<1>3. CASE UNCHANGED vars
  BY <1>3 DEF vars, AllInHand, InHand, OneCallAtATime, SettingUp
<1>4. ASSUME NEW h \in leaving, Leave(h)
      PROVE  AllInHand'
  <2>1. UNCHANGED <<page, tasks, conn>> /\ disturbed \subseteq disturbed'
    BY <1>4, OnlyMoreUntold DEF Leave
  <2>2. ASSUME NEW c \in Clients
        PROVE  OpensNone(c) /\ CallGoesOn(c)
    BY <2>1 DEF OpensNone, CallGoesOn
  <2> QED
    BY <2>2, GoesOn DEF AllInHand
<1>5. CASE \E c \in Clients : InHand(c)' /\ OthersStay(c)
  BY <1>1, <1>5
<1> QED
  BY <1>2, <1>3, <1>4, <1>5, ClickInHand, ReadInHand, EventInHand DEF Next, AllInHand

\* A connection with the microphone on it is the one the page can close, and the
\* page shows Hang Up or comes to it, for every client that has one call at a time
\* (callBtn, answerBtn, endCall; client/index.html:654, 715, 743).
THEOREM MicrophoneReleased == Spec => []MicrophoneInHand
<1>1. Init => AllInHand
  BY DEF Init, AllInHand, InHand, BlankPage, Fresh
<1>2. Typed /\ AllInHand /\ [Next]_vars => AllInHand'
  BY InHandStep
<1>3. AllInHand => MicrophoneInHand
  <2>1. \A p \in Connections : p[1] \in Clients
    BY DEF Connections
  <2> QED
    BY <2>1 DEF AllInHand, InHand, SettingUp, MicrophoneInHand
<1> QED
  BY <1>1, <1>2, <1>3, Types, PTL DEF Spec

===============================================================================
