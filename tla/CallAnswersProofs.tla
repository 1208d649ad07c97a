--------------------------- MODULE CallAnswersProofs ---------------------------
(***************************************************************************)
(* Proofs about CallSetup, concluded: where nothing disturbs a call, an    *)
(* answer that reaches the offer of another call comes from a client that  *)
(* is being told that its own has ended.                                   *)
(***************************************************************************)
EXTENDS CallCandidatesProofs

-----------------------------------------------------------------------------
(***************************************************************************)
(* The invariants, on top of those of CallCandidatesProofs.                *)
(***************************************************************************)

Undisturbed == disturbed = {} /\ drops = 0

\* The call with the offer p goes on at the client that made the offer.
Lasts(p) == Caller(p[1]) /\ page[p[1]].pc = p

\* It does, or client d is being told that it does not.
Expected(d, p) == Lasts(p) \/ EndOnItsWay(d, p[1])

IsAnswer(message, q) == message.type = "answer" /\ message.sdp = q

IsEnd(message, from) == message.type \in Ends /\ message.from = from

\* A handler of client c is about to apply the answer q.
Applying(c, q) == \E task \in tasks[c] : task.at = "remote answer" /\ task.sdp = q

InTransit(c, q) == (\E message \in Mail(c) : IsAnswer(message, q)) \/ Applying(c, q)

\* The answer q is in the mail of c once, or with a handler.
Once(c, q) ==
  /\ \A i, j \in DOMAIN mailbox[c] :
       IsAnswer(mailbox[c][i], q) /\ IsAnswer(mailbox[c][j], q) => i = j
  /\ Applying(c, q) => \A message \in Mail(c) : ~IsAnswer(message, q)

\* A connection that is not open has no description of another.
Forgotten == \A p \in Connections : conn[p].state # "open" => conn[p].remote = None

\* An invite is followed by the end of its call, if that is over.
Invited ==
  \A d \in Clients : \A j \in DOMAIN mailbox[d] : \A p \in Connections :
    Brings(mailbox[d][j], p) =>
      /\ mailbox[d][j].from = p[1]
      /\ Lasts(p) \/ \E i \in DOMAIN mailbox[d] : i > j /\ IsEnd(mailbox[d][i], p[1])

\* Who may yet answer an offer will send the answer to who made it.
Considered ==
  \A d \in Clients : \A p \in Connections :
    Answering(d, p) /\ ~Callee(d) => page[d].peer = p[1] /\ Expected(d, p)

\* The answer of a call that goes on at the callee is on its way to who made the
\* offer, once, and has not been there.
Answered ==
  \A q \in Connections : conn[q].state = "open" /\ conn[q].local = "answer" =>
    /\ conn[q].remote # None
    /\ \A c \in Clients : InTransit(c, q) =>
         /\ c = conn[q].remote[1] /\ Expected(q[1], conn[q].remote)
         /\ \A p \in Connections : conn[p].remote # q
         /\ Once(c, q)

\* Who made the offer is told of the end of the call only by who took part in it.
Concluded ==
  \A c \in Clients : Caller(c) =>
    \A message \in Mail(c) :
      message.type \in Ends /\ message.callId = page[c].callId =>
        \A d \in Clients :
          /\ ~Answering(d, page[c].pc)
          /\ \A other \in Mail(d) : ~Brings(other, page[c].pc)

\* LateAnswersAreOver, for one behaviour that is undisturbed.
Applied ==
  \A p, q \in Connections :
    conn[p].local = "offer" /\ Holds(p, q) => conn[q].remote = p \/ EndOnItsWay(q[1], p[1])

Replied == Undisturbed => Invited /\ Considered /\ Answered /\ Concluded /\ Applied

-----------------------------------------------------------------------------
(***************************************************************************)
(* What a step of client x does about answers.                             *)
(***************************************************************************)

EndsCall(x) ==
  \/ ClickHangUp(x) \/ ConnectionLost(x)
  \/ Read(x) /\ ReadBye(x, Head(mailbox[x]))
  \/ \E task \in tasks[x] : MicrophoneRefused(x, task) \/ SetUpFails(x, task)

\* A handler of x sets the remote description of p.
Describes(x, task, p) ==
  /\ task \in tasks[x] /\ task.pc = p /\ conn'[p].remote = task.sdp
  /\ RemoteOfferSet(x, task) \/ (RemoteAnswerSet(x, task) /\ HasLocalOffer(p))

Described(x) ==
  \A p \in Connections :
    conn'[p].remote \in {conn[p].remote, None} \/ \E task : Describes(x, task, p)

\* A handler has an answer from the mail.
AnswersRead(x) ==
  \A task \in tasks'[x] :
    task.at = "remote answer" =>
      task \in tasks[x] \/ (Read(x) /\ IsAnswer(Head(mailbox[x]), task.sdp))

StaysOpen == \A p \in Connections : conn[p].state = "open" => conn'[p].state = "open"

AnswerMoves(x) == Described(x) /\ AnswersRead(x) /\ (EndsCall(x) \/ StaysOpen)

LEMMA NothingAnswered ==
  ASSUME NEW x, conn' = conn,
         \A task \in tasks'[x] : task.at = "remote answer" => task \in tasks[x]
  PROVE  AnswerMoves(x)
BY DEF AnswerMoves, Described, AnswersRead, StaysOpen

\* The call ends.
LEMMA EndCallAnswers ==
  ASSUME Typed, NEW x \in Clients, NEW rest \in SUBSET tasks[x], NEW mishaps,
         EndCallAnd(x, rest, mishaps)
  PROVE  Described(x) /\ AnswersRead(x) /\ Over(x)
<1>1. tasks'[x] = rest /\ Over(x)
  BY EndCallIsOver
<1>2. conn' = Closed(page[x].pc)
  BY DEF EndCallAnd
<1>3. ASSUME NEW p \in Connections
      PROVE  conn'[p].remote \in {conn[p].remote, None}
  <2>1. [Fresh EXCEPT !.state = "closed"].remote = None
    BY DEF Fresh
  <2>2. conn'[p] \in {conn[p], [Fresh EXCEPT !.state = "closed"]}
    BY <1>2 DEF Closed, Typed, TypeOK
  <2> HIDE DEF Fresh
  <2> QED
    BY <2>1, <2>2
<1> QED
  BY <1>1, <1>3 DEF Described, AnswersRead

LEMMA EndsAnswers ==
  ASSUME Typed, NEW x \in Clients, EndsCall(x)
  PROVE  AnswerMoves(x) /\ Over(x)
<1>1. PICK rest \in SUBSET tasks[x] : \E mishaps : EndCallAnd(x, rest, mishaps)
  BY DEF EndsCall, ClickHangUp, ConnectionLost, ReadBye, MicrophoneRefused, SetUpFails, EndCall
<1> QED
  BY <1>1, EndCallAnswers DEF AnswerMoves

\* One connection is written to, but for its remote description.
LEMMA WriteAnswers ==
  ASSUME Typed, NEW x \in Clients, NEW p \in Connections, NEW d,
         conn' = [conn EXCEPT ![p] = d], d.state \in {conn[p].state, "open"},
         d.remote = conn[p].remote,
         \A task \in tasks'[x] : task.at = "remote answer" => task \in tasks[x]
  PROVE  AnswerMoves(x)
<1>1. conn'[p] = d /\ \A q \in Connections \ {p} : conn'[q] = conn[q]
  BY ConnChanges
<1> QED
  BY <1>1 DEF AnswerMoves, Described, AnswersRead, StaysOpen

\* The page opens a connection.
LEMMA OpenedAnswers ==
  ASSUME Typed, NEW x \in Clients, NEW task \in tasks[x], NEW next,
         Opened(x, task, next),
         \A p \in Connections : [next EXCEPT !.pc = p].at # "remote answer"
  PROVE  AnswerMoves(x)
<1>1. PICK p \in Connections : p = NextConnection(x)
  BY NextIsUnused DEF Opened, Unused
<1> DEFINE d == [conn[p] EXCEPT !.state = "open"]
           following == [next EXCEPT !.pc = p]
<1>2. /\ conn' = [conn EXCEPT ![p] = d]
      /\ tasks'[x] = (tasks[x] \ {task}) \cup {following}
  BY <1>1 DEF Opened, Typed, TypeOK
<1>3. d.state = "open" /\ d.remote = conn[p].remote
  <2>1. conn[p] \in PeerConnections
    BY DEF Typed, TypeOK
  <2> QED
    BY <2>1 DEF PeerConnections
<1>4. following.at # "remote answer"
  OBVIOUS
<1> HIDE DEF d, following
<1> QED
  BY <1>2, <1>3, <1>4, WriteAnswers

\* A remote description is set.
LEMMA DescribedAnswers ==
  ASSUME Typed, NEW x \in Clients, NEW task \in tasks[x],
         \/ RemoteOfferSet(x, task)
         \/ RemoteAnswerSet(x, task) /\ HasLocalOffer(task.pc)
  PROVE  AnswerMoves(x)
<1>1. /\ task.at \in {"remote offer", "remote answer"}
      /\ conn' = WithRemote(x, task.pc, task.sdp)
  BY DEF RemoteOfferSet, RemoteAnswerSet
<1>2. task.pc \in Connections /\ task.sdp \in Connections
  BY <1>1, TaskKinds DEF Typed, TypeOK
<1>3. /\ conn'[task.pc].state = conn[task.pc].state /\ conn'[task.pc].remote = task.sdp
      /\ \A q \in Connections \ {task.pc} : Same(q)
  BY <1>1, <1>2, RemoteSet
<1>4. \A other \in tasks'[x] : other.at = "remote answer" => other \in tasks[x]
  <2> DEFINE next == [at |-> "candidates", pc |-> task.pc]
  <2>1. tasks' \in {[tasks EXCEPT ![x] = @ \ {task}],
                    [tasks EXCEPT ![x] = (@ \ {task}) \cup {next}]}
    BY DEF RemoteOfferSet, RemoteAnswerSet, Typed, TypeOK
  <2>2. next.at # "remote answer"
    OBVIOUS
  <2> HIDE DEF next
  <2>3. tasks'[x] \subseteq tasks[x] \cup {next}
    BY <2>1 DEF Typed, TypeOK
  <2> QED
    BY <2>2, <2>3
<1>5. Describes(x, task, task.pc)
  BY <1>3 DEF Describes
<1> QED
  BY <1>3, <1>4, <1>5 DEF AnswerMoves, Described, AnswersRead, StaysOpen, Same

\* A description is sent.
LEMMA SenderAnswers ==
  ASSUME Sound, NEW x \in Clients, NEW task \in tasks[x],
         SendInvite(x, task) \/ SendAnswer(x, task)
  PROVE  AnswerMoves(x)
<1>1. /\ Typed /\ task.pc \in Connections /\ tasks'[x] = tasks[x] \ {task}
      /\ conn[task.pc].state = "open"
  BY Inviter, Replier DEF Inviting, Replying, Sound
<1>2. PICK local : conn' = [conn EXCEPT ![task.pc] = [conn[task.pc] EXCEPT !.local = local]]
  BY <1>1 DEF SendInvite, SendAnswer, Typed, TypeOK
<1>3. PICK d : d = [conn[task.pc] EXCEPT !.local = local]
  OBVIOUS
<1>4. d.state = "open" /\ d.remote = conn[task.pc].remote
  <2>1. conn[task.pc] \in PeerConnections
    BY <1>1 DEF Typed, TypeOK
  <2> QED
    BY <1>1, <1>3, <2>1 DEF PeerConnections
<1> QED
  BY <1>1, <1>2, <1>3, <1>4, WriteAnswers

\* A message other than a bye is read.
LEMMA ReadAnswers ==
  ASSUME Typed, NEW x \in Clients, Read(x), NEW message, message = Head(mailbox[x]),
         ReadInvite(x, message) \/ ReadAnswer(x, message) \/ ReadCandidate(x, message)
  PROVE  AnswerMoves(x)
<1>1. CASE ReadInvite(x, message)
  BY <1>1, NothingAnswered DEF ReadInvite
<1>2. CASE ReadAnswer(x, message)
  <2> DEFINE next == [at |-> "remote answer", pc |-> page[x].pc, sdp |-> message.sdp]
  <2>1. /\ conn' = conn /\ message.type = "answer"
        /\ tasks' \in {tasks, [tasks EXCEPT ![x] = @ \cup {next}]}
    BY <1>2 DEF ReadAnswer
  <2>2. next.sdp = message.sdp
    OBVIOUS
  <2> HIDE DEF next
  <2>3. tasks'[x] \subseteq tasks[x] \cup {next}
    BY <2>1 DEF Typed, TypeOK
  <2> QED
    BY <2>1, <2>2, <2>3 DEF AnswerMoves, Described, AnswersRead, StaysOpen, IsAnswer
<1>3. CASE ReadCandidate(x, message)
  <2> DEFINE p == page[x].pc
  <2>1. tasks' = tasks /\ (conn' = conn \/ (p # None /\
          conn' = [conn EXCEPT ![p] = Gains(conn[p], {message.candidate})]))
    BY <1>3 DEF ReadCandidate, CandidateTaken, Gains, Typed, TypeOK
  <2>2. CASE conn' = conn
    BY <2>1, <2>2, NothingAnswered
  <2>3. CASE p # None /\ conn' = [conn EXCEPT ![p] = Gains(conn[p], {message.candidate})]
    <3>1. p \in Connections /\ conn[p] \in PeerConnections
      BY <2>3 DEF Typed, TypeOK, Pages
    <3>2. message.candidate \in Connections
      <4>1. mailbox[x] \in Seq(Messages) /\ mailbox[x] # <<>>
        BY DEF Read, Typed, TypeOK
      <4>2. message \in Messages
        BY <4>1
      <4> QED
        BY <1>3, <4>2, IceKind DEF ReadCandidate
    <3>3. PICK d : d = Gains(conn[p], {message.candidate})
      OBVIOUS
    <3>4. d.remote = conn[p].remote /\ d.state = conn[p].state
      BY <3>1, <3>3 DEF Gains, PeerConnections
    <3> QED
      BY <2>1, <2>3, <3>1, <3>3, <3>4, WriteAnswers
  <2> QED
    BY <2>1, <2>2, <2>3
<1> QED
  BY <1>1, <1>2, <1>3

\* The actions that leave the connections alone, or only note that one has gathered.
LEMMA IdleAnswers ==
  ASSUME Typed, NEW x \in Clients,
         \/ \E t \in Clients \ {x} : ClickCall(x, t)
         \/ ClickAnswer(x) \/ ClickReject(x) \/ Drop(x) \/ Reconnect(x)
         \/ \E p \in Connections : Gathered(x, p)
         \/ \E task \in tasks[x] :
              \/ SetUpHangs(x, task) \/ CandidatesFlushed(x, task)
              \/ RemoteAnswerSet(x, task) /\ ~HasLocalOffer(task.pc)
         \/ \E h \in leaving : Leave(h)
  PROVE  AnswerMoves(x)
<1>1. ASSUME NEW task, task.at # "remote answer", tasks' = [tasks EXCEPT ![x] = @ \cup {task}]
      PROVE  \A other \in tasks'[x] : other.at = "remote answer" => other \in tasks[x]
  BY <1>1 DEF Typed, TypeOK
<1>2. ASSUME NEW t \in Clients, ClickCall(x, t)
      PROVE  AnswerMoves(x)
  <2> DEFINE task == [at |-> "microphone", call |-> calls + 1, target |-> t]
  <2>1. conn' = conn /\ tasks' = [tasks EXCEPT ![x] = @ \cup {task}]
    BY <1>2 DEF ClickCall
  <2>2. task.at # "remote answer"
    OBVIOUS
  <2> HIDE DEF task
  <2> QED
    BY <1>1, <2>1, <2>2, NothingAnswered
<1>3. CASE ClickAnswer(x)
  <2> DEFINE task == [at |-> "microphone to answer", call |-> page[x].callId]
  <2>1. conn' = conn /\ tasks' = [tasks EXCEPT ![x] = @ \cup {task}]
    BY <1>3 DEF ClickAnswer
  <2>2. task.at # "remote answer"
    OBVIOUS
  <2> HIDE DEF task
  <2> QED
    BY <1>1, <2>1, <2>2, NothingAnswered
<1>4. CASE ClickReject(x) \/ Drop(x) \/ Reconnect(x)
  BY <1>4, NothingAnswered DEF ClickReject, Drop, Reconnect
<1>5. ASSUME NEW p \in Connections, Gathered(x, p)
      PROVE  AnswerMoves(x)
  <2>1. conn' = [conn EXCEPT ![p] = [conn[p] EXCEPT !.gathered = TRUE]] /\ tasks' = tasks
    BY <1>5 DEF Gathered, Typed, TypeOK
  <2>2. PICK d : d = [conn[p] EXCEPT !.gathered = TRUE]
    OBVIOUS
  <2>3. d.remote = conn[p].remote /\ d.state = conn[p].state
    <3>1. conn[p] \in PeerConnections
      BY DEF Typed, TypeOK
    <3> QED
      BY <2>2, <3>1 DEF PeerConnections
  <2> QED
    BY <2>1, <2>2, <2>3, WriteAnswers
<1>6. ASSUME NEW task \in tasks[x],
             SetUpHangs(x, task) \/ (RemoteAnswerSet(x, task) /\ ~HasLocalOffer(task.pc))
      PROVE  AnswerMoves(x)
  BY <1>6, NothingAnswered DEF SetUpHangs, RemoteAnswerSet, Typed, TypeOK
<1>7. ASSUME NEW task \in tasks[x], CandidatesFlushed(x, task)
      PROVE  AnswerMoves(x)
  <2> DEFINE next == [at |-> "answer", pc |-> page[x].pc]
  <2>1. conn' = conn /\ tasks' = [tasks EXCEPT ![x] = (@ \ {task}) \cup {next}]
    BY <1>7 DEF CandidatesFlushed
  <2>2. next.at # "remote answer"
    OBVIOUS
  <2> HIDE DEF next
  <2>3. tasks'[x] = (tasks[x] \ {task}) \cup {next}
    BY <2>1 DEF Typed, TypeOK
  <2> QED
    BY <2>1, <2>2, <2>3, NothingAnswered
<1>8. ASSUME NEW h \in leaving, Leave(h)
      PROVE  AnswerMoves(x)
  BY <1>8, NothingAnswered DEF Leave
<1> QED
  BY <1>2, <1>3, <1>4, <1>5, <1>6, <1>7, <1>8

\* Every action does what is said above.
LEMMA StepAnswers ==
  ASSUME Sound, NEW x \in Clients, Acts(x)
  PROVE  AnswerMoves(x)
<1>1. Typed
  BY DEF Sound
<1>2. ASSUME NEW task \in tasks[x], Resume(x, task)
      PROVE  AnswerMoves(x)
  <2>1. CASE MicrophoneToCall(x, task)
    <3> DEFINE next == [at |-> "offer", pc |-> None, target |-> task.target]
    <3>1. \A p \in Connections : [next EXCEPT !.pc = p].at # "remote answer"
      OBVIOUS
    <3>2. Opened(x, task, next)
      BY <2>1 DEF MicrophoneToCall
    <3> HIDE DEF next
    <3> QED
      BY <1>1, <3>1, <3>2, OpenedAnswers
  <2>2. CASE MicrophoneToAnswer(x, task)
    <3> DEFINE next == [at |-> "remote offer", pc |-> None, sdp |-> page[x].offer]
    <3>1. \A p \in Connections : [next EXCEPT !.pc = p].at # "remote answer"
      OBVIOUS
    <3>2. Opened(x, task, next)
      BY <2>2 DEF MicrophoneToAnswer
    <3> HIDE DEF next
    <3> QED
      BY <1>1, <3>1, <3>2, OpenedAnswers
  <2>3. CASE MicrophoneRefused(x, task) \/ SetUpFails(x, task)
    BY <1>1, <2>3, EndsAnswers DEF EndsCall
  <2>4. CASE SendInvite(x, task) \/ SendAnswer(x, task)
    BY <2>4, SenderAnswers
  <2>5. CASE RemoteOfferSet(x, task) \/ RemoteAnswerSet(x, task)
    BY <1>1, <2>5, DescribedAnswers, IdleAnswers
  <2>6. CASE SetUpHangs(x, task) \/ CandidatesFlushed(x, task)
    BY <1>1, <2>6, IdleAnswers
  <2> QED
    BY <1>2, <2>1, <2>2, <2>3, <2>4, <2>5, <2>6 DEF Resume
<1>3. CASE Read(x)
  BY <1>1, <1>3, ReadAnswers, EndsAnswers DEF Read, EndsCall
<1>4. CASE ClickHangUp(x) \/ ConnectionLost(x)
  BY <1>1, <1>4, EndsAnswers DEF EndsCall
<1> QED
  BY <1>1, <1>2, <1>3, <1>4, IdleAnswers DEF Acts

-----------------------------------------------------------------------------
(***************************************************************************)
(* The mail.                                                               *)
(***************************************************************************)

\* A click on Hang Up is heard by the peer.
LEMMA HangUpHeard ==
  ASSUME Typed, NEW x \in Clients, ClickHangUp(x), NEW t \in Clients, t = page[x].peer,
         \A c \in Clients : online[c]
  PROVE  \E bye \in Messages : IsEnd(bye, x) /\ mailbox'[t] = Append(mailbox[t], bye)
<1> DEFINE bye == [type |-> "bye", from |-> x, callId |-> page[x].callId]
<1>1. bye \in Messages /\ IsEnd(bye, x)
  BY DEF Messages, Ends, IsEnd, Typed, TypeOK, Pages
<1>2. mailbox' = [mailbox EXCEPT ![t] = Append(@, bye)]
  BY CallSetupAssumption DEF ClickHangUp, Sent
<1> HIDE DEF bye
<1>3. mailbox'[t] = Append(mailbox[t], bye)
  BY <1>2 DEF Typed, TypeOK
<1> QED
  BY <1>1, <1>3

\* A page that says that its call has ended has nothing left of it.
LEMMA EndPosted ==
  ASSUME Sound, NEW x \in Clients, Acts(x), ~Drop(x), leaving = {}, NEW d \in Clients,
         NEW message \in Mail(d)', message \notin Mail(d), message.type \in Ends
  PROVE  message.callId = page[x].callId /\ Over(x)
<1>1. Typed /\ InHand(x)
  BY DEF Sound, AllInHand
<1>2. mailbox' # mailbox
  BY DEF Mail
<1>3. ASSUME NEW target, NEW sent \in Messages, mailbox' = Sent(x, target, sent)
      PROVE  message = sent
  BY <1>1, <1>3, MailAfterSent
<1>4. ASSUME NEW target, NEW sent \in Messages, mailbox' = Sent(x, target, sent),
             sent.type \notin Ends
      PROVE  FALSE
  BY <1>3, <1>4
<1>5. CASE ClickHangUp(x)
  <2> DEFINE bye == [type |-> "bye", from |-> x, callId |-> page[x].callId]
  <2>1. bye \in Messages /\ bye.callId = page[x].callId
    BY <1>1 DEF Messages, Ends, Typed, TypeOK, Pages
  <2>2. mailbox' = Sent(x, page[x].peer, bye)
    BY <1>5 DEF ClickHangUp
  <2>3. Over(x)
    BY <1>1, <1>5, EndsAnswers DEF EndsCall
  <2> HIDE DEF bye
  <2> QED
    BY <1>3, <2>1, <2>2, <2>3
<1>6. CASE ClickReject(x)
  <2> DEFINE reject == [type |-> "rejected", from |-> x, callId |-> page[x].callId]
  <2>1. reject \in Messages /\ reject.callId = page[x].callId
    BY <1>1 DEF Messages, Ends, Typed, TypeOK, Pages
  <2>2. mailbox' = Sent(x, page[x].peer, reject)
    BY <1>6 DEF ClickReject
  <2>3. Over(x)
    <3>1. /\ page[x].banner /\ page[x] \in Pages
          /\ page' = [page EXCEPT ![x] = [page[x] EXCEPT !.banner = FALSE, !.peer = None,
                                                         !.callId = None]]
          /\ UNCHANGED <<tasks, disturbed>>
      BY <1>1, <1>6 DEF ClickReject, Typed, TypeOK
    <3>2. page'[x].pc = page[x].pc /\ ~page'[x].banner
      BY <1>1, <3>1 DEF Pages, Typed, TypeOK
    <3> QED
      BY <1>1, <3>1, <3>2 DEF Over, InHand, Calm, OneCallAtATime
  <2> HIDE DEF reject
  <2> QED
    BY <1>3, <2>1, <2>2, <2>3
<1>7. ASSUME NEW task \in tasks[x], SendInvite(x, task) \/ SendAnswer(x, task)
      PROVE  FALSE
  <2>1. task.pc \in Connections /\ page[x].callId \in Calls \cup {None}
    BY <1>1, <1>7, Inviter, Replier DEF Inviting, Replying, Typed, TypeOK, Pages
  <2>2. CASE SendInvite(x, task)
    <3> DEFINE sent == [type |-> "invite", from |-> x, sdp |-> task.pc,
                        callId |-> page[x].callId]
    <3>1. sent \in Messages /\ sent.type \notin Ends
      BY <2>1 DEF Messages, Ends
    <3>2. mailbox' = Sent(x, task.target, sent)
      BY <2>2 DEF SendInvite
    <3> HIDE DEF sent
    <3> QED
      BY <1>4, <3>1, <3>2
  <2>3. CASE SendAnswer(x, task)
    <3> DEFINE sent == [type |-> "answer", from |-> x, sdp |-> task.pc,
                        callId |-> page[x].callId]
    <3>1. sent \in Messages /\ sent.type \notin Ends
      BY <2>1 DEF Messages, Ends
    <3>2. mailbox' = Sent(x, page[x].peer, sent)
      BY <2>3 DEF SendAnswer
    <3> HIDE DEF sent
    <3> QED
      BY <1>4, <3>1, <3>2
  <2> QED
    BY <1>7, <2>2, <2>3
<1>8. ASSUME NEW p \in Connections, Gathered(x, p)
      PROVE  FALSE
  <2> DEFINE sent == [type |-> "ice", from |-> x, candidate |-> p]
  <2>1. sent \in Messages /\ sent.type \notin Ends
    BY DEF Messages, Ends
  <2>2. mailbox' = Sent(x, page[x].peer, sent)
    BY <1>8 DEF Gathered
  <2> HIDE DEF sent
  <2> QED
    BY <1>4, <2>1, <2>2
<1>9. ~Read(x)
  <2>1. SUFFICES ASSUME Read(x)
                 PROVE  FALSE
    OBVIOUS
  <2>2. mailbox[x] # <<>> /\ mailbox' = [mailbox EXCEPT ![x] = Tail(@)]
    BY <2>1 DEF Read
  <2>3. mailbox'[x] = Tail(mailbox[x]) /\ \A e \in Clients \ {x} : mailbox'[e] = mailbox[e]
    BY <1>1, <2>2 DEF Typed, TypeOK
  <2> QED
    BY <1>1, <2>2, <2>3, RestOfMail DEF Mail
<1>10. ASSUME NEW task \in tasks[x], Resume(x, task)
       PROVE  FALSE
  BY <1>2, <1>7, <1>10 DEF Resume, MicrophoneToCall, MicrophoneToAnswer, MicrophoneRefused,
     RemoteOfferSet, CandidatesFlushed, RemoteAnswerSet, SetUpFails, SetUpHangs
<1>11. ~ClickAnswer(x) /\ ~ConnectionLost(x) /\ ~Reconnect(x)
  BY <1>2 DEF ClickAnswer, ConnectionLost, Reconnect
<1>12. \A t \in Clients : ~ClickCall(x, t)
  BY <1>2 DEF ClickCall
<1> QED
  BY <1>5, <1>6, <1>8, <1>9, <1>10, <1>11, <1>12 DEF Acts

\* What comes after a message that is not posted comes after it still.
LEMMA LaterKept ==
  ASSUME Typed, NEW x \in Clients, Post(x), ~Drop(x), NEW d \in Clients,
         NEW j \in DOMAIN mailbox'[d], ~Posted(x, mailbox'[d][j])
  PROVE  \E n \in DOMAIN mailbox[d] :
           /\ mailbox[d][n] = mailbox'[d][j]
           /\ \A i \in DOMAIN mailbox[d] :
                i > n => \E l \in DOMAIN mailbox'[d] :
                           l > j /\ mailbox'[d][l] = mailbox[d][i]
<1>1. mailbox[d] \in Seq(Messages)
  BY DEF Typed, TypeOK
<1>2. CASE Grows(x, d)
  <2>1. PICK new \in Seq(Messages) :
          mailbox'[d] = mailbox[d] \o new /\ \A n \in DOMAIN new : Posted(x, new[n])
    BY <1>2 DEF Grows
  <2>2. /\ \A n \in DOMAIN mailbox[d] :
             n \in DOMAIN mailbox'[d] /\ mailbox'[d][n] = mailbox[d][n]
        /\ \A n \in DOMAIN mailbox'[d] :
             \/ n \in DOMAIN mailbox[d]
             \/ /\ n - Len(mailbox[d]) \in DOMAIN new
                /\ mailbox'[d][n] = new[n - Len(mailbox[d])]
    BY <1>1, <2>1, Grown
  <2>3. j \in DOMAIN mailbox[d]
    BY <2>1, <2>2
  <2> QED
    BY <2>2, <2>3
<1>3. CASE d = x /\ Read(x)
  <2>1. mailbox[x] # <<>> /\ mailbox' = [mailbox EXCEPT ![x] = Tail(@)]
    BY <1>3 DEF Read
  <2>2. mailbox'[x] = Tail(mailbox[x])
    BY <2>1 DEF Typed, TypeOK
  <2>3. /\ \A n \in DOMAIN Tail(mailbox[x]) :
             /\ n \in Nat /\ n + 1 \in DOMAIN mailbox[x]
             /\ Tail(mailbox[x])[n] = mailbox[x][n + 1]
        /\ \A i \in DOMAIN mailbox[x] :
             i > 1 => /\ i - 1 \in DOMAIN Tail(mailbox[x])
                      /\ Tail(mailbox[x])[i - 1] = mailbox[x][i]
        /\ \A i \in DOMAIN mailbox[x] : i \in Nat
    BY <1>1, <1>3, <2>1
  <2>4. \A n \in DOMAIN mailbox'[d] :
          n \in Nat /\ n + 1 \in DOMAIN mailbox[d] /\ mailbox'[d][n] = mailbox[d][n + 1]
    BY <1>3, <2>2, <2>3
  <2>5. \A i \in DOMAIN mailbox[d] :
          /\ i \in Nat
          /\ i > 1 => i - 1 \in DOMAIN mailbox'[d] /\ mailbox'[d][i - 1] = mailbox[d][i]
    BY <1>3, <2>2, <2>3
  <2>6. ASSUME NEW i \in DOMAIN mailbox[d], i > j + 1
        PROVE  i - 1 > j /\ i > 1
    BY <2>4, <2>5, <2>6
  <2> QED
    BY <2>4, <2>5, <2>6
<1> QED
  BY <1>2, <1>3 DEF Post

-----------------------------------------------------------------------------
(***************************************************************************)
(* An undisturbed step.                                                    *)
(***************************************************************************)

\* A step of client x, from a state in which the invariants hold, that disturbs
\* nothing.
Goes(x) ==
  /\ Step(x) /\ Acts(x) /\ AnswerMoves(x) /\ Typed' /\ AllInHand'
  /\ Undisturbed /\ Undisturbed'
  /\ Forgotten /\ Invited /\ Considered /\ Answered /\ Concluded /\ Applied

\* Everybody is calm and online, and has one connection open at most.
LEMMA GoesOnCalm ==
  ASSUME NEW x, Goes(x)
  PROVE  /\ Sound /\ Typed /\ Owned /\ x \in Clients /\ Moves(x) /\ Post(x) /\ ~Drop(x)
         /\ leaving = {} /\ \A d \in Clients : Calm(d) /\ Calm(d)' /\ online[d]
         /\ \A q \in Connections : q[1] \in Clients
         /\ \A q \in Connections : conn[q].state = "open" => page[q[1]].pc = q
         /\ \A q \in Connections : conn'[q].state = "open" => page'[q[1]].pc = q
<1>1. Sound /\ Typed /\ Owned /\ x \in Clients /\ Moves(x) /\ Post(x)
  BY DEF Goes, Step, Sound, Agreed, Moves
<1>2. \A d \in Clients : Calm(d) /\ Calm(d)'
  BY DEF Goes, Undisturbed, Calm, OneCallAtATime
<1>3. leaving = {} /\ \A d \in Clients : online[d]
  BY DEF Goes, Step, Known, Connected, Undisturbed
<1>4. ~Drop(x)
  <2>1. drops = 0 /\ drops' = 0
    BY DEF Goes, Undisturbed
  <2> QED
    BY <2>1 DEF Drop
<1>5. \A q \in Connections : q[1] \in Clients
  BY DEF Connections
<1>6. \A q \in Connections : conn[q].state = "open" => page[q[1]].pc = q
  BY <1>1, <1>2, <1>5 DEF Sound, AllInHand, InHand, Calm
<1>7. \A q \in Connections : conn'[q].state = "open" => page'[q[1]].pc = q
  BY <1>2, <1>5 DEF Goes, AllInHand, InHand, Calm
<1> QED
  BY <1>1, <1>2, <1>3, <1>4, <1>5, <1>6, <1>7

\* The connection of a page is open.
LEMMA PageIsOpen ==
  ASSUME NEW x, Goes(x), NEW d \in Clients
  PROVE  /\ page[d].pc # None => /\ Calling(d) /\ conn[page[d].pc].state = "open"
                                 /\ page[d].pc \in Connections /\ page[d].pc[1] = d
         /\ page'[d].pc # None => /\ conn'[page'[d].pc].state = "open"
                                  /\ page'[d].pc \in Connections /\ page'[d].pc[1] = d
<1>1. Sound /\ x \in Clients /\ Moves(x) /\ Calm(d) /\ Calm(d)' /\ Staged(d) /\ Owned
  BY GoesOnCalm DEF Sound, Agreed
<1>2. Staged(d)' /\ Owned'
  BY <1>1, AllStill, OwnedKept
<1>3. page[d].pc # None => page[d].pc \in Connections
  BY <1>1 DEF Sound, Typed, TypeOK, Pages
<1>4. page'[d].pc # None => page'[d].pc \in Connections
  BY DEF Goes, Typed, TypeOK, Pages
<1> QED
  BY <1>1, <1>2, <1>3, <1>4 DEF Staged, Calling, Owned

\* A connection that stays open keeps the descriptions it has.
LEMMA LocalStays ==
  ASSUME NEW x, Goes(x), NEW q \in Connections, conn[q].state = "open",
         conn'[q].state = "open", conn[q].local # "none"
  PROVE  conn'[q].local = conn[q].local /\ page[q[1]].pc = q /\ page'[q[1]].pc = q
<1> DEFINE e == q[1]
<1>1. /\ Sound /\ Moves(x) /\ x \in Clients /\ e \in Clients /\ Calm(e) /\ Calm(e)'
      /\ page[e].pc = q /\ page'[e].pc = q /\ q # None
      /\ CallsStill(e) /\ AnsweredStill(e)
  BY GoesOnCalm, AllStill, NoneIsNobodys
<1>2. conn[q].local \in {"offer", "answer"}
  BY DEF Goes, Step, Sound, Typed, TypeOK, PeerConnections
<1>3. conn'[q].local \in {conn[q].local, "offer", "answer"}
  BY <1>1 DEF Moves, ConnMoves, Same, Changes
<1>4. ASSUME conn[q].local = "answer", conn'[q].local = "offer"
      PROVE  FALSE
  <2>1. Caller(e)' /\ ~Caller(e)
    BY <1>1, <1>4 DEF Caller
  <2>2. PICK task : Inviting(e, task)
    BY <1>1, <2>1 DEF CallsStill
  <2> QED
    BY <1>1, <1>4, <2>2, FirstInvite
<1>5. ASSUME conn[q].local = "offer", conn'[q].local = "answer"
      PROVE  FALSE
  <2>1. Callee(e)' /\ ~Callee(e)
    BY <1>1, <1>5 DEF Callee
  <2>2. PICK task : Replying(e, task)
    BY <1>1, <2>1 DEF AnsweredStill
  <2>3. task \in tasks[e] /\ task.at = "answer" /\ HasRemoteOffer(task.pc)
    BY <1>1, <2>2, Replier DEF Replying
  <2>4. task.pc = q
    BY <1>1, <2>3, OneHandler
  <2> QED
    BY <1>5, <2>3, <2>4 DEF HasRemoteOffer
<1> QED
  BY <1>1, <1>2, <1>3, <1>4, <1>5

\* A handler that describes a connection describes that of its page, which has no
\* remote description yet: an offer where there is none, or an answer to its own.
LEMMA DescribesFirst ==
  ASSUME NEW x, Goes(x), NEW task, NEW p \in Connections, Describes(x, task, p)
  PROVE  /\ p = page[x].pc /\ conn[p].remote = None /\ Calling(x)
         /\ mailbox' = mailbox
         /\ task.at \in {"remote offer", "remote answer"}
         /\ task.at = "remote offer" => conn[p].local = "none"
         /\ task.at = "remote answer" =>
              conn[p].local = "offer" /\ tasks'[x] = tasks[x] \ {task}
<1>1. Sound /\ Typed /\ x \in Clients /\ Calm(x)
  BY GoesOnCalm
<1>2. task \in tasks[x] /\ task.pc = p
  BY DEF Describes
<1>3. CASE RemoteOfferSet(x, task)
  <2>1. task.at = "remote offer" /\ mailbox' = mailbox
    BY <1>3 DEF RemoteOfferSet
  <2>2. p = page[x].pc /\ Calling(x)
    BY <1>1, <1>2, <2>1, OneHandler
  <2> QED
    BY <1>2, <2>1, <2>2 DEF Calling, Serves
<1>4. CASE RemoteAnswerSet(x, task) /\ HasLocalOffer(p)
  <2>1. /\ task.at = "remote answer" /\ mailbox' = mailbox
        /\ tasks' = [tasks EXCEPT ![x] = @ \ {task}]
    BY <1>4 DEF RemoteAnswerSet
  <2>2. p = page[x].pc /\ Calling(x)
    BY <1>1, <1>2, <2>1, OneHandler
  <2>3. tasks'[x] = tasks[x] \ {task}
    BY <1>1, <2>1 DEF Typed, TypeOK
  <2> QED
    BY <1>4, <2>1, <2>2, <2>3 DEF HasLocalOffer
<1> QED
  BY <1>3, <1>4 DEF Describes

LEMMA RemoteStays ==
  ASSUME NEW x, Goes(x), NEW q \in Connections, conn[q].remote # None,
         conn'[q].state = "open"
  PROVE  conn'[q].remote = conn[q].remote
<1>1. Typed /\ x \in Clients /\ Moves(x)
  BY GoesOnCalm
<1>2. ASSUME NEW task, Describes(x, task, q)
      PROVE  FALSE
  <2>1. conn[q].remote = None
    BY <1>2, DescribesFirst
  <2> QED
    BY <2>1
<1>3. conn'[q].remote \in {conn[q].remote, None}
  BY <1>2 DEF Goes, AnswerMoves, Described
<1>4. ASSUME NEW task \in tasks[x], task.at \in {"remote offer", "remote answer"}
      PROVE  task.sdp # None
  BY <1>1, <1>4, TaskKinds, NoneIsNobodys DEF Typed, TypeOK
<1> QED
  BY <1>1, <1>3, <1>4 DEF Moves, ConnMoves, Same, Changes

-----------------------------------------------------------------------------
(***************************************************************************)
(* How a call ends.                                                        *)
(***************************************************************************)

\* The other side of a paired connection is the one that answers.
LEMMA PairedAnswers ==
  ASSUME NEW x, Goes(x), NEW c \in Clients, Caller(c), NEW r, r = conn[page[c].pc].remote,
         Paired(page[c].pc, r), NEW t, t = page[c].peer
  PROVE  t \in Clients /\ r = page[t].pc /\ Callee(t) /\ Answering(t, page[c].pc)
<1> DEFINE p == page[c].pc
           e == r[1]
<1>1. /\ Sound /\ Typed /\ p \in Connections /\ r # None /\ p # None /\ conn[r].remote = p
  BY GoesOnCalm, PageIsOpen DEF Caller, Paired
<1>2. r \in Connections
  BY <1>1 DEF Typed, TypeOK, PeerConnections
<1>3. conn[r].state = "open"
  BY <1>1, <1>2 DEF Goes, Forgotten
<1>4. e \in Clients /\ page[e].pc = r /\ Calm(e)
  BY <1>2, <1>3, GoesOnCalm
<1>5. OfferKnown(c, p, page[c].callId, t)
  BY <1>1 DEF Sound, Agreed, Offers
<1>6. conn[r].local # "offer"
  BY <1>1, <1>4, <1>5 DEF OfferKnown, Caller
<1>7. Answering(e, p)
  BY <1>1, <1>4, <1>6 DEF Answering
<1>8. conn[r].local # "none"
  BY <1>1, <1>2, <1>3 DEF Sound, Agreed, NothingSaid, Undescribed, Unsaid
<1>9. conn[r].local = "answer"
  BY <1>1, <1>2, <1>6, <1>8 DEF Typed, TypeOK, PeerConnections
<1>10. e = t
  BY <1>4, <1>5, <1>7 DEF OfferKnown
<1> QED
  BY <1>1, <1>4, <1>7, <1>9, <1>10 DEF Callee

\* If a step undoes an offer, its client hung up, or gave up the paired connection, or
\* had the end of the call in its mail.
LEMMA Leaves ==
  ASSUME NEW x, Goes(x), NEW p \in Connections, Lasts(p), ~Lasts(p)'
  PROVE  /\ p[1] = x
         /\ \/ ClickHangUp(x)
            \/ Paired(p, conn[p].remote)
            \/ \E message \in Mail(x) :
                 message.type \in Ends /\ message.callId = page[x].callId
<1> DEFINE c == p[1]
<1>1. /\ Sound /\ Typed /\ x \in Clients /\ Moves(x) /\ c \in Clients
      /\ Calm(c) /\ Calm(c)' /\ Caller(c) /\ page[c].pc = p /\ p # None
      /\ conn[p].local = "offer" /\ conn[p].state = "open" /\ Calling(c)
  BY GoesOnCalm, PageIsOpen DEF Lasts, Caller
<1>2. c = x
  <2>1. SUFFICES ASSUME c # x
                 PROVE  Lasts(p)'
    OBVIOUS
  <2>2. page'[c] = page[c] /\ Same(p)
    BY <1>1, <2>1, OthersKeep
  <2> QED
    BY <1>1, <2>2 DEF Lasts, Caller, Same
<1>3. ~StaysOpen
  <2>1. SUFFICES ASSUME StaysOpen
                 PROVE  Lasts(p)'
    OBVIOUS
  <2>2. conn'[p].state = "open"
    BY <1>1, <2>1 DEF StaysOpen
  <2>3. conn'[p].local = "offer" /\ page'[c].pc = p
    BY <1>1, <2>2, LocalStays
  <2> QED
    BY <1>1, <2>3 DEF Lasts, Caller
<1>4. EndsCall(x)
  BY <1>3 DEF Goes, AnswerMoves
<1>5. ASSUME NEW rest, NEW mishaps, EndCallAnd(x, rest, mishaps)
      PROVE  mishaps = {}
  <2>1. disturbed' = {}
    BY DEF Goes, Undisturbed
  <2>2. \A m \in mishaps : <<x, m>> \in disturbed'
    BY <1>5 DEF EndCallAnd
  <2> QED
    BY <2>1, <2>2
<1>6. CASE ConnectionLost(x)
  <2>1. EndCallAnd(x, tasks[x], IF Paired(p, conn[p].remote) THEN {} ELSE {"failed"})
    BY <1>1, <1>2, <1>6 DEF ConnectionLost
  <2>2. Paired(p, conn[p].remote)
    BY <1>5, <2>1
  <2> QED
    BY <1>2, <2>2
<1>7. ASSUME Read(x), ReadBye(x, Head(mailbox[x]))
      PROVE  /\ Head(mailbox[x]) \in Mail(x) /\ Head(mailbox[x]).type \in Ends
             /\ Head(mailbox[x]).callId = page[x].callId
  <2>1. Head(mailbox[x]) \in Mail(x)
    BY <1>1, <1>7, RestOfMail DEF Read
  <2>2. page[x].callId \in {None, Head(mailbox[x]).callId} /\ Head(mailbox[x]).type \in Ends
    BY <1>5, <1>7 DEF ReadBye
  <2>3. page[x].callId # None
    BY <1>1, <1>2 DEF Calling
  <2> QED
    BY <2>1, <2>2, <2>3
<1>8. ASSUME NEW task \in tasks[x], MicrophoneRefused(x, task) \/ SetUpFails(x, task)
      PROVE  FALSE
  <2>1. Serves(x, task) /\ task.pc = page[x].pc
    BY <1>1, <1>2 DEF Calling, Serves
  <2> QED
    BY <1>1, <1>2, <1>8, <2>1 DEF Serves, AtMicrophone, MicrophoneRefused, SetUpFails
<1> QED
  BY <1>2, <1>4, <1>6, <1>7, <1>8 DEF EndsCall

\* Client d is to read the offer p, or is about to answer it, and its answer has not
\* been there.
Concerned(d, p) ==
  \/ \E message \in Mail(d) : Brings(message, p)
  \/ Answering(d, p) /\ (~Callee(d) \/ conn[p].remote # page[d].pc)

\* Such a client learns of the end of the call.
LEMMA Departs ==
  ASSUME NEW x, Goes(x), NEW p \in Connections, Lasts(p), ~Lasts(p)',
         NEW d \in Clients, Concerned(d, p)
  PROVE  \E bye \in Messages : IsEnd(bye, p[1]) /\ mailbox'[d] = Append(mailbox[d], bye)
<1>1. /\ Sound /\ Typed /\ x \in Clients /\ p[1] = x /\ Caller(x) /\ page[x].pc = p
      /\ Calm(d) /\ \A c \in Clients : Calm(c) /\ online[c]
  BY GoesOnCalm, Leaves DEF Lasts
<1>2. PICK t, k : t = page[x].peer /\ k = page[x].callId
  OBVIOUS
<1>3. OfferKnown(x, p, k, t) /\ CallHeld(x, p, k, t) /\ t \in Clients
  <2>1. Calling(x) /\ page[x].peer \in Clients \cup {None}
    BY <1>1, PageIsOpen DEF Caller, Typed, TypeOK, Pages
  <2> QED
    BY <1>1, <1>2, <2>1 DEF Sound, Agreed, Offers, Held, Calling
<1>4. d = t
  BY <1>1, <1>3 DEF Concerned, OfferKnown
<1>5. ~Paired(p, conn[p].remote)
  <2>1. SUFFICES ASSUME Paired(p, conn[p].remote)
                 PROVE  FALSE
    OBVIOUS
  <2>2. conn[p].remote = page[t].pc /\ Callee(t) /\ Answering(t, p)
    BY <1>1, <1>2, <2>1, PairedAnswers
  <2>3. page[t].callId = k
    BY <1>1, <1>3, <2>2 DEF OfferKnown
  <2>4. \A message \in Mail(t) : ~Brings(message, p)
    BY <1>1, <1>3, <2>3 DEF CallHeld
  <2> QED
    BY <1>4, <2>2, <2>4 DEF Concerned
<1>6. ~\E message \in Mail(x) : message.type \in Ends /\ message.callId = page[x].callId
  BY <1>1 DEF Goes, Concluded, Concerned
<1>7. ClickHangUp(x)
  BY <1>5, <1>6, Leaves
<1> QED
  BY <1>1, <1>2, <1>3, <1>4, <1>7, HangUpHeard

\* A client that goes on with its call has not read the end of it.
LEMMA EndComes ==
  ASSUME NEW x, Goes(x), NEW d \in Clients, NEW from, EndOnItsWay(d, from),
         page'[d].pc # None \/ \E p : Answering(d, p)'
  PROVE  EndOnItsWay(d, from)'
<1>1. /\ Typed /\ x \in Clients /\ Post(x) /\ ~Drop(x) /\ Calm(d)'
  BY GoesOnCalm
<1>2. PICK message \in Mail(d) : message.type \in Ends /\ message.from = from
  BY DEF EndOnItsWay, Awaits, Mail
<1>3. ~Over(d)
  BY <1>1 DEF Over, Answering, Waits
<1>4. message \in Mail(d)'
  BY <1>1, <1>2, <1>3, MailLost, EndRead
<1> QED
  BY <1>2, <1>4 DEF EndOnItsWay, Awaits, Mail

\* Who is concerned with an offer knows what it may expect.
LEMMA ExpectedKept ==
  ASSUME NEW x, Goes(x), NEW d \in Clients, NEW p \in Connections, Expected(d, p),
         Concerned(d, p), Answering(d, p)'
  PROVE  Expected(d, p)'
<1>1. CASE EndOnItsWay(d, p[1])
  BY <1>1, EndComes DEF Expected
<1>2. CASE Lasts(p)
  <2>1. SUFFICES ASSUME ~Lasts(p)'
                 PROVE  EndOnItsWay(d, p[1])'
    BY DEF Expected
  <2>2. PICK bye \in Messages : IsEnd(bye, p[1]) /\ mailbox'[d] = Append(mailbox[d], bye)
    BY <1>2, <2>1, Departs
  <2>3. mailbox[d] \in Seq(Messages)
    BY GoesOnCalm DEF Typed, TypeOK
  <2>4. Len(mailbox[d]) + 1 \in DOMAIN mailbox'[d] /\ mailbox'[d][Len(mailbox[d]) + 1] = bye
    BY <2>2, <2>3
  <2>5. bye \in Mail(d)'
    BY <2>4 DEF Mail, Range
  <2> QED
    BY <2>2, <2>5 DEF EndOnItsWay, Awaits, IsEnd, Mail
<1> QED
  BY <1>1, <1>2 DEF Expected

\* Who has given an answer stays with it.
LEMMA CalleeStays ==
  ASSUME NEW x, Goes(x), NEW d \in Clients, Callee(d), NEW p, Answering(d, p)'
  PROVE  Callee(d)'
<1>1. Sound /\ Typed /\ x \in Clients /\ Moves(x) /\ Calm(d) /\ Calm(d)'
  BY GoesOnCalm
<1>2. PICK q \in Connections :
        q = page[d].pc /\ q[1] = d /\ q # None /\ conn[q].local = "answer" /\ conn[q].state = "open"
  BY PageIsOpen DEF Callee
<1>3. CASE d # x
  <2>1. page'[d] = page[d] /\ Same(q)
    BY <1>1, <1>2, <1>3, OthersKeep
  <2> QED
    BY <1>1, <1>2, <2>1 DEF Callee, Same
<1>4. CASE d = x
  <2>1. ~EndsCall(x)
    <3>1. ~Over(x)
      BY <1>1, <1>4 DEF Over, Answering, Waits
    <3> QED
      BY <1>1, <3>1, EndsAnswers
  <2>2. conn'[q].state = "open"
    BY <1>2, <2>1 DEF Goes, AnswerMoves, StaysOpen
  <2>3. conn'[q].local = "answer" /\ page'[d].pc = q
    BY <1>2, <2>2, LocalStays
  <2> QED
    BY <1>1, <1>2, <2>3 DEF Callee
<1> QED
  BY <1>3, <1>4

-----------------------------------------------------------------------------
(***************************************************************************)
(* What an undisturbed step keeps.                                         *)
(***************************************************************************)

LEMMA ForgottenKept ==
  ASSUME NEW x, ConnMoves(x), Forgotten
  PROVE  Forgotten'
<1>1. ASSUME NEW p \in Connections, conn'[p].state # "open"
      PROVE  conn'[p].remote = None
  BY <1>1 DEF ConnMoves, Same, Changes, Forgotten
<1> QED
  BY <1>1 DEF Forgotten

\* The invite that x sends is its own.
LEMMA InvitedNew ==
  ASSUME NEW x, Goes(x), NEW d \in Clients, NEW message \in Mail(d)', NEW p \in Connections,
         Brings(message, p), Posted(x, message)
  PROVE  message.from = p[1] /\ Lasts(p)'
<1>1. Sound /\ Typed /\ x \in Clients /\ Calm(x) /\ Calm(x)'
  BY GoesOnCalm
<1>2. PICK task : Inviting(x, task) /\ p = task.pc
  BY DEF Posted, Brings
<1>3. /\ p[1] = x /\ conn'[p].local = "offer" /\ page'[x].pc = page[x].pc
      /\ p = page[x].pc /\ p # None /\ Unsaid(p)
  BY <1>1, <1>2, Inviter, FirstInvite, NoneIsNobodys DEF PageStays
<1>4. PICK sent \in Messages :
        sent.type = "invite" /\ sent.from = x /\ mailbox' = Sent(x, page[x].peer, sent)
  BY <1>1, <1>2, Invitation
<1>5. message \notin Mail(d)
  BY <1>3 DEF Unsaid, Brings
<1>6. message = sent
  BY <1>1, <1>4, <1>5, MailAfterSent
<1> QED
  BY <1>1, <1>3, <1>4, <1>6 DEF Lasts, Caller

LEMMA InvitedKept ==
  ASSUME NEW x, Goes(x)
  PROVE  Invited'
<1>1. SUFFICES ASSUME NEW d \in Clients, NEW j \in DOMAIN mailbox'[d],
                      NEW p \in Connections, Brings(mailbox'[d][j], p)
               PROVE  /\ mailbox'[d][j].from = p[1]
                      /\ \/ Lasts(p)'
                         \/ \E i \in DOMAIN mailbox'[d] : i > j /\ IsEnd(mailbox'[d][i], p[1])
  BY DEF Invited
<1>2. Typed /\ Post(x) /\ x \in Clients /\ ~Drop(x)
  BY GoesOnCalm
<1>3. CASE Posted(x, mailbox'[d][j])
  <2>1. mailbox'[d][j] \in Mail(d)'
    BY DEF Mail, Range
  <2> QED
    BY <1>1, <1>3, <2>1, InvitedNew
<1>4. CASE ~Posted(x, mailbox'[d][j])
  <2>1. PICK n \in DOMAIN mailbox[d] :
          /\ mailbox[d][n] = mailbox'[d][j]
          /\ \A i \in DOMAIN mailbox[d] :
               i > n => \E l \in DOMAIN mailbox'[d] :
                          l > j /\ mailbox'[d][l] = mailbox[d][i]
    BY <1>2, <1>4, LaterKept
  <2>2. /\ mailbox[d][n].from = p[1]
        /\ Lasts(p) \/ \E i \in DOMAIN mailbox[d] : i > n /\ IsEnd(mailbox[d][i], p[1])
    BY <1>1, <2>1 DEF Goes, Invited
  <2>3. CASE \E i \in DOMAIN mailbox[d] : i > n /\ IsEnd(mailbox[d][i], p[1])
    BY <2>1, <2>2, <2>3
  <2>4. CASE Lasts(p) /\ ~Lasts(p)'
    <3>1. mailbox[d][n] \in Mail(d)
      BY DEF Mail, Range
    <3>2. Concerned(d, p)
      BY <1>1, <2>1, <3>1 DEF Concerned
    <3>3. PICK bye \in Messages : IsEnd(bye, p[1]) /\ mailbox'[d] = Append(mailbox[d], bye)
      BY <2>4, <3>2, Departs
    <3>4. mailbox[d] \in Seq(Messages)
      BY <1>2 DEF Typed, TypeOK
    <3>5. mailbox'[d][j] # bye
      BY <1>1, <3>3 DEF Brings, IsEnd, Ends
    <3>6. /\ Len(mailbox[d]) + 1 \in DOMAIN mailbox'[d]
          /\ mailbox'[d][Len(mailbox[d]) + 1] = bye
          /\ j \in 1 .. Len(mailbox[d]) + 1 /\ Len(mailbox[d]) \in Nat
      BY <3>3, <3>4
    <3>7. Len(mailbox[d]) + 1 > j
      BY <3>5, <3>6
    <3> QED
      BY <2>1, <2>2, <3>3, <3>6, <3>7
  <2> QED
    BY <2>1, <2>2, <2>3, <2>4
<1> QED
  BY <1>3, <1>4

LEMMA ConsideredKept ==
  ASSUME NEW x, Goes(x)
  PROVE  Considered'
<1>1. SUFFICES ASSUME NEW d \in Clients, NEW p \in Connections,
                      Answering(d, p)', ~Callee(d)'
               PROVE  page'[d].peer = p[1] /\ Expected(d, p)'
  BY DEF Considered
<1>2. /\ Sound /\ Typed /\ x \in Clients /\ Moves(x) /\ Calm(d)' /\ AnswersStill(d)
  BY GoesOnCalm, AllStill
<1>3. CASE Answering(d, p) /\ page'[d].peer = page[d].peer
  <2>1. ~Callee(d)
    BY <1>1, CalleeStays
  <2>2. page[d].peer = p[1] /\ Expected(d, p)
    BY <1>3, <2>1 DEF Goes, Considered
  <2>3. Expected(d, p)'
    BY <1>1, <1>3, <2>1, <2>2, ExpectedKept DEF Concerned
  <2> QED
    BY <1>3, <2>2, <2>3
<1>4. ASSUME NEW message, Taking(d, message), Brings(message, p)
      PROVE  page'[d].peer = p[1] /\ Expected(d, p)'
  <2>1. /\ message \in Mail(d) /\ mailbox[d] # <<>> /\ message = Head(mailbox[d])
        /\ mailbox'[d] = Tail(mailbox[d]) /\ page'[d].peer = message.from
    BY <1>2, <1>4, TakenCall
  <2>2. mailbox[d] \in Seq(Messages)
    BY <1>2 DEF Typed, TypeOK
  <2>3. 1 \in DOMAIN mailbox[d] /\ mailbox[d][1] = message
    BY <2>1, <2>2
  <2>4. /\ message.from = p[1]
        /\ Lasts(p) \/ \E i \in DOMAIN mailbox[d] : i > 1 /\ IsEnd(mailbox[d][i], p[1])
    BY <1>4, <2>3 DEF Goes, Invited
  <2>5. CASE Lasts(p)
    BY <1>1, <1>4, <2>1, <2>4, <2>5, ExpectedKept DEF Expected, Concerned
  <2>6. ASSUME NEW i \in DOMAIN mailbox[d], i > 1, IsEnd(mailbox[d][i], p[1])
        PROVE  EndOnItsWay(d, p[1])'
    <3>1. mailbox[d][i] \in Mail(d)
      BY DEF Mail, Range
    <3>2. EndOnItsWay(d, p[1])
      BY <2>6, <3>1 DEF EndOnItsWay, Awaits, IsEnd, Mail
    <3> QED
      BY <1>1, <3>2, EndComes
  <2> QED
    BY <2>1, <2>4, <2>5, <2>6 DEF Expected
<1> QED
  BY <1>1, <1>2, <1>3, <1>4 DEF AnswersStill

\* An offer that nobody is concerned with, and that goes on, stays so.
LEMMA ConcludedStays ==
  ASSUME NEW x, Goes(x), NEW c \in Clients, NEW p, NEW t, CallOf(c, p, t),
         \A d \in Clients : \A other \in Mail(d) : ~Brings(other, p),
         NEW d \in Clients, Answering(d, p)' => ~Answering(d, p)
  PROVE  ~Answering(d, p)' /\ \A other \in Mail(d)' : ~Brings(other, p)
<1>1. /\ Sound /\ Typed /\ x \in Clients /\ Moves(x) /\ Calm(d)' /\ AnswersStill(d)
      /\ Step(x) /\ p \in Connections
  BY GoesOnCalm, AllStill DEF Goes, CallOf
<1>2. \A other \in Mail(d)' : ~Brings(other, p)
  BY <1>1, InviteBefore
<1>3. \A message : Taking(d, message) => ~Brings(message, p)
  BY <1>1, TakenCall
<1> QED
  BY <1>1, <1>2, <1>3 DEF AnswersStill

LEMMA ConcludedKept ==
  ASSUME NEW x, Goes(x)
  PROVE  Concluded'
<1>1. SUFFICES ASSUME NEW c \in Clients, Caller(c)', NEW message \in Mail(c)',
                      message.type \in Ends, message.callId = page'[c].callId,
                      NEW d \in Clients
               PROVE  /\ ~Answering(d, page[c].pc)'
                      /\ \A other \in Mail(d)' : ~Brings(other, page'[c].pc)
  BY DEF Concluded
<1>2. /\ Sound /\ Typed /\ x \in Clients /\ Moves(x) /\ ~Drop(x) /\ leaving = {} /\ Acts(x)
      /\ \A e \in Clients : Calm(e) /\ Calm(e)'
  BY GoesOnCalm DEF Goes
<1>3. message.type \notin {"invite", "answer", "ice"}
  BY <1>1 DEF Ends
<1>4. ASSUME NEW task, Inviting(x, task), page'[c].callId = page[x].callId, c = x
      PROVE  FALSE
  <2>1. NewCall(x) /\ Placing(x)
    BY <1>2, <1>4, FirstInvite
  <2>2. message \notin Mail(x)
    BY <1>1, <1>3, <1>4, <2>1 DEF NewCall
  <2>3. PICK sent \in Messages : sent.type = "invite" /\ mailbox' = Sent(x, page[x].peer, sent)
    BY <1>2, <1>4, Invitation
  <2>4. message = sent
    BY <1>1, <1>2, <1>4, <2>2, <2>3, MailAfterSent
  <2> QED
    BY <1>3, <2>3, <2>4
<1>5. PICK p, k, t :
        /\ p = page'[c].pc /\ k = page'[c].callId /\ p = page[c].pc /\ k = page[c].callId
        /\ t = page[c].peer /\ Caller(c)
  BY <1>1, <1>2, <1>4, CallerBefore
<1>6. /\ OfferKnown(c, p, k, t) /\ CallHeld(c, p, k, t) /\ CallOf(c, p, t)
  <2>1. OfferKnown(c, p, k, t) /\ CallHeld(c, p, k, t)
    BY <1>2, <1>5 DEF Sound, Agreed, Offers, Held
  <2>2. Calling(c) /\ p \in Connections
    BY <1>5, PageIsOpen DEF Caller
  <2>3. t \in Clients
    BY <1>2, <1>5, <2>2 DEF Calling, Typed, TypeOK, Pages
  <2> QED
    BY <1>1, <1>5, <2>1, <2>2, <2>3 DEF CallOf
<1>7. CASE message \in Mail(c)
  <2>1. \A e \in Clients :
          ~Answering(e, p) /\ \A other \in Mail(e) : ~Brings(other, p)
    BY <1>1, <1>5, <1>7 DEF Goes, Concluded
  <2>2. ~Answering(d, p)' /\ \A other \in Mail(d)' : ~Brings(other, p)
    <3>1. \A e \in Clients : \A other \in Mail(e) : ~Brings(other, p)
      BY <2>1
    <3>2. ~Answering(d, p)
      BY <2>1
    <3> QED
      BY <1>6, <3>1, <3>2, ConcludedStays
  <2> QED
    BY <1>5, <2>2 DEF Answering
<1>8. CASE message \notin Mail(c)
  <2>1. page[x].callId = k /\ Over(x)
    BY <1>1, <1>2, <1>5, <1>8, EndPosted
  <2>2. x # c
    BY <1>1, <1>2, <2>1 DEF Over, Caller
  <2>3. t \in Clients /\ x = t
    BY <1>2, <1>6, <2>1, <2>2 DEF CallHeld, CallOf
  <2>4. \A e \in Clients : \A other \in Mail(e) : ~Brings(other, p)
    <3>1. \A other \in Mail(t) : ~Brings(other, p)
      BY <1>2, <1>6, <2>1, <2>3 DEF CallHeld
    <3> QED
      BY <1>6, <3>1 DEF OfferKnown
  <2>5. Answering(d, p) => d = x
    BY <1>2, <1>6, <2>3 DEF OfferKnown
  <2>6. ~Answering(x, p)'
    BY <1>2, <2>1 DEF Over, Answering, Waits
  <2>7. Answering(d, p)' => ~Answering(d, p)
    BY <2>5, <2>6
  <2>8. ~Answering(d, p)' /\ \A other \in Mail(d)' : ~Brings(other, p)
    BY <1>6, <2>4, <2>7, ConcludedStays
  <2> QED
    BY <1>5, <2>8 DEF Answering
<1> QED
  BY <1>7, <1>8

\* Handlers that bring the same answer are the same.
LEMMA SameAnswerTask ==
  ASSUME NEW a \in Tasks, NEW b \in Tasks, a.at = "remote answer", b.at = "remote answer",
         a.pc = b.pc, a.sdp = b.sdp
  PROVE  a = b
<1> DEFINE Kind   == [at : {"remote offer", "remote answer"}, pc : Connections,
                      sdp : Connections]
           fields == {"at", "pc", "sdp"}
<1>1. a \in Kind /\ b \in Kind
  BY DEF Tasks
<1>2. \A t \in Kind : t = [i \in fields |-> t[i]]
  OBVIOUS
<1>3. \A i \in fields : a[i] = b[i]
  OBVIOUS
<1> HIDE DEF Kind, fields
<1> QED
  BY <1>1, <1>2, <1>3, Extensionality

LEMMA AnswerPosted ==
  ASSUME Sound, NEW x \in Clients, NEW task, Replying(x, task)
  PROVE  \E message \in Messages :
           IsAnswer(message, task.pc) /\ mailbox' = Sent(x, page[x].peer, message)
<1> DEFINE message == [type |-> "answer", from |-> x, sdp |-> task.pc,
                       callId |-> page[x].callId]
<1>1. task.pc \in Connections
  BY Replier
<1>2. message \in Messages /\ IsAnswer(message, task.pc)
  BY <1>1 DEF Messages, IsAnswer, Sound, Typed, TypeOK, Pages
<1>3. mailbox' = Sent(x, page[x].peer, message)
  BY DEF Replying, SendAnswer
<1> HIDE DEF message
<1> QED
  BY <1>2, <1>3

\* Who sends an answer sends it to who made the offer, and nobody has it yet.
LEMMA AnsweredNew ==
  ASSUME NEW x, Goes(x), NEW task, Replying(x, task), NEW q, q = task.pc
  PROVE  /\ conn'[q].remote # None
         /\ \A c \in Clients : InTransit(c, q)' =>
              /\ c = conn'[q].remote[1] /\ Expected(q[1], conn[q].remote)'
              /\ \A p \in Connections : conn'[p].remote # q
              /\ Once(c, q)'
<1>1. /\ Sound /\ Typed /\ x \in Clients /\ Calm(x) /\ Moves(x) /\ task \in tasks[x]
      /\ q \in Connections /\ q # None /\ q[1] = x /\ task.at = "answer"
      /\ conn[q].local = "none" /\ conn[q].remote # None /\ conn[q].state = "open"
      /\ conn'[q].remote = conn[q].remote /\ conn'[q].local = "answer"
      /\ tasks'[x] = tasks[x] \ {task} /\ page'[x].pc = page[x].pc
  BY GoesOnCalm, Replier, NoneIsNobodys DEF Replying, HasRemoteOffer, PageStays
<1>2. page[x].pc = q
  BY <1>1, OneHandler
<1>3. Unsaid(q)
  BY <1>1 DEF Sound, Agreed, NothingSaid, Undescribed
<1>4. PICK p \in Connections : p = conn[q].remote
  BY <1>1 DEF Typed, TypeOK, PeerConnections
<1>5. Answering(x, p) /\ Answering(x, p)' /\ ~Callee(x)
  BY <1>1, <1>2, <1>4 DEF Answering, Callee
<1>6. page[x].peer = p[1] /\ Expected(x, p)
  BY <1>1, <1>5 DEF Goes, Considered
<1>7. Expected(x, p)'
  BY <1>1, <1>5, <1>6, ExpectedKept DEF Concerned
<1>8. PICK message \in Messages : IsAnswer(message, q) /\ mailbox' = Sent(x, p[1], message)
  BY <1>1, <1>6, AnswerPosted
<1>9. \A c \in Clients : \A other \in Mail(c) : ~IsAnswer(other, q)
  BY <1>3 DEF Unsaid, IsAnswer
<1>10. ASSUME NEW c \in Clients, Applying(c, q)'
       PROVE  FALSE
  <2>1. tasks'[c] \subseteq tasks[c]
    BY <1>1, OthersKeep
  <2> QED
    BY <1>3, <1>10, <2>1 DEF Applying, Unsaid
<1>11. ASSUME NEW r \in Connections, conn'[r].remote = q
       PROVE  FALSE
  <2>1. PICK other : Describes(x, other, r)
    BY <1>1, <1>3, <1>11 DEF Goes, AnswerMoves, Described, Unsaid
  <2>2. other \in tasks[x] /\ other.sdp = q /\ other.at \in {"remote offer", "remote answer"}
    BY <1>11, <2>1, DescribesFirst DEF Describes
  <2> QED
    BY <1>1, <1>3, <2>2 DEF Unsaid
<1>12. ASSUME NEW c \in Clients, InTransit(c, q)'
       PROVE  c = p[1] /\ Once(c, q)'
  <2>1. PICK other \in Mail(c)' : IsAnswer(other, q)
    BY <1>10, <1>12 DEF InTransit
  <2>2. c = p[1]
    BY <1>1, <1>8, <1>9, <2>1, MailAfterSent
  <2>3. ASSUME NEW i \in DOMAIN mailbox'[c], IsAnswer(mailbox'[c][i], q)
        PROVE  i = Len(mailbox[c]) + 1
    <3>1. mailbox'[c] = mailbox[c] \/ mailbox'[c] = Append(mailbox[c], message)
      BY <1>1, <1>8, SentLast
    <3>2. mailbox[c] \in Seq(Messages)
      BY <1>1 DEF Typed, TypeOK
    <3>3. \A n \in DOMAIN mailbox[c] : mailbox[c][n] \in Mail(c)
      BY DEF Mail, Range
    <3>4. i \notin DOMAIN mailbox[c] \/ mailbox'[c][i] # mailbox[c][i]
      BY <1>9, <2>3, <3>3
    <3> QED
      BY <3>1, <3>2, <3>4
  <2> QED
    BY <1>10, <2>2, <2>3 DEF Once
<1> QED
  BY <1>1, <1>4, <1>7, <1>11, <1>12

\* An answer that has been given is not given again.
LEMMA TransitBefore ==
  ASSUME NEW x, Goes(x), NEW e \in Clients, Callee(e), NEW q, q = page[e].pc,
         NEW c \in Clients
  PROVE  /\ \A message \in Mail(c)' :
              IsAnswer(message, q) => message \in Mail(c) /\ ~Posted(x, message)
         /\ Applying(c, q)' =>
              Applying(c, q) \/ (c = x /\ Read(x) /\ IsAnswer(Head(mailbox[x]), q))
         /\ InTransit(c, q)' => InTransit(c, q)
<1>1. /\ Sound /\ Typed /\ x \in Clients /\ Post(x) /\ Moves(x)
      /\ Calm(e) /\ q # None /\ conn[q].local = "answer"
  BY GoesOnCalm DEF Callee
<1>2. ASSUME NEW message \in Mail(c)', IsAnswer(message, q)
      PROVE  message \in Mail(c) /\ ~Posted(x, message)
  <2>1. message.type = "answer" /\ message.sdp = q
    BY <1>2 DEF IsAnswer
  <2>2. ~Posted(x, message)
    BY <1>1, <2>1, PostedElsewhere
  <2> QED
    BY <1>1, <2>2, MailGrows
<1>3. ASSUME Applying(c, q)', ~Applying(c, q)
      PROVE  c = x /\ Read(x) /\ IsAnswer(Head(mailbox[x]), q)
  <2>1. PICK task \in tasks'[c] : task.at = "remote answer" /\ task.sdp = q
    BY <1>3 DEF Applying
  <2>2. task \notin tasks[c]
    BY <1>3, <2>1 DEF Applying
  <2>3. c = x
    BY <1>1, <2>1, <2>2, OthersKeep
  <2> QED
    BY <2>1, <2>2, <2>3 DEF Goes, AnswerMoves, AnswersRead
<1>4. ASSUME c = x, Read(x), IsAnswer(Head(mailbox[x]), q)
      PROVE  InTransit(c, q)
  <2>1. Head(mailbox[x]) \in Mail(x)
    BY <1>1, <1>4, RestOfMail DEF Read
  <2> QED
    BY <1>4, <2>1 DEF InTransit
<1>5. InTransit(c, q)' => InTransit(c, q)
  BY <1>2, <1>3, <1>4 DEF InTransit
<1> QED
  BY <1>2, <1>3, <1>5

LEMMA OnceKept ==
  ASSUME NEW x, Goes(x), NEW e \in Clients, Callee(e), NEW q, q = page[e].pc,
         NEW c \in Clients, Once(c, q)
  PROVE  Once(c, q)'
<1>1. Sound /\ Typed /\ x \in Clients /\ Post(x) /\ mailbox[c] \in Seq(Messages)
  BY GoesOnCalm DEF Typed, TypeOK
<1>2. /\ \A message \in Mail(c)' :
           IsAnswer(message, q) => message \in Mail(c) /\ ~Posted(x, message)
      /\ Applying(c, q)' =>
           Applying(c, q) \/ (c = x /\ Read(x) /\ IsAnswer(Head(mailbox[x]), q))
  BY TransitBefore
<1>3. ASSUME NEW i \in DOMAIN mailbox'[c], NEW j \in DOMAIN mailbox'[c],
             IsAnswer(mailbox'[c][i], q), IsAnswer(mailbox'[c][j], q)
      PROVE  j <= i
  <2>1. mailbox'[c][j] \in Mail(c)'
    BY DEF Mail, Range
  <2>2. ~Posted(x, mailbox'[c][j])
    BY <1>2, <1>3, <2>1
  <2>3. ASSUME NEW m \in DOMAIN mailbox[c], NEW n \in DOMAIN mailbox[c],
               mailbox[c][m] = mailbox'[c][i], mailbox[c][n] = mailbox'[c][j]
        PROVE  n <= m
    <3>1. m = n
      BY <1>3, <2>3 DEF Once
    <3>2. m \in Nat
      BY <1>1
    <3> QED
      BY <3>1, <3>2
  <2> QED
    BY <1>1, <2>2, <2>3, OrderKept
<1>4. ASSUME NEW i \in DOMAIN mailbox'[c], NEW j \in DOMAIN mailbox'[c],
             IsAnswer(mailbox'[c][i], q), IsAnswer(mailbox'[c][j], q)
      PROVE  i = j
  <2>1. mailbox'[c] \in Seq(Messages)
    BY DEF Goes, Typed, TypeOK
  <2>2. i \in Nat /\ j \in Nat
    BY <2>1
  <2>3. j <= i /\ i <= j
    BY <1>3, <1>4
  <2> QED
    BY <2>2, <2>3
<1>5. ASSUME Applying(c, q)', NEW message \in Mail(c)', IsAnswer(message, q)
      PROVE  FALSE
  <2>1. message \in Mail(c)
    BY <1>2, <1>5
  <2>2. c = x /\ Read(x) /\ IsAnswer(Head(mailbox[x]), q)
    BY <1>2, <1>5, <2>1 DEF Once
  <2>3. mailbox[x] # <<>> /\ mailbox' = [mailbox EXCEPT ![x] = Tail(@)]
    BY <2>2 DEF Read
  <2>4. mailbox'[x] = Tail(mailbox[x])
    BY <1>1, <2>3 DEF Typed, TypeOK
  <2>5. PICK n \in DOMAIN Tail(mailbox[x]) : message = Tail(mailbox[x])[n]
    BY <1>5, <2>2, <2>4 DEF Mail, Range
  <2>6. /\ n \in Nat /\ n > 0 /\ n + 1 \in DOMAIN mailbox[x] /\ message = mailbox[x][n + 1]
        /\ 1 \in DOMAIN mailbox[x] /\ Head(mailbox[x]) = mailbox[x][1]
    BY <1>1, <2>2, <2>3, <2>5
  <2>7. n + 1 = 1
    BY <1>5, <2>2, <2>6 DEF Once
  <2> QED
    BY <2>6, <2>7
<1> QED
  BY <1>4, <1>5 DEF Once

\* A connection has its remote description from a handler.
LEMMA DescribedBy ==
  ASSUME NEW x, Goes(x), NEW r \in Connections,
         conn'[r].remote # None, conn'[r].remote # conn[r].remote
  PROVE  /\ mailbox' = mailbox
         /\ \E task \in tasks[x] :
              /\ task.sdp = conn'[r].remote
              /\ task.at \in {"remote offer", "remote answer"}
              /\ task.at = "remote answer" => tasks'[x] = tasks[x] \ {task}
<1>1. PICK task : Describes(x, task, r)
  BY DEF Goes, AnswerMoves, Described
<1>2. task \in tasks[x] /\ task.sdp = conn'[r].remote
  BY <1>1 DEF Describes
<1>3. /\ mailbox' = mailbox /\ task.at \in {"remote offer", "remote answer"}
      /\ task.at = "remote answer" => tasks'[x] = tasks[x] \ {task}
  BY <1>1, DescribesFirst
<1> QED
  BY <1>2, <1>3

\* While the answer is on its way nobody has it.
LEMMA NotThereYet ==
  ASSUME NEW x, Goes(x), NEW e \in Clients, Callee(e), NEW q, q = page[e].pc,
         NEW c \in Clients, InTransit(c, q)',
         \A d \in Clients : InTransit(d, q) => d = c,
         \A r \in Connections : conn[r].remote # q, Once(c, q),
         NEW r \in Connections
  PROVE  conn'[r].remote # q
<1>1. /\ Sound /\ Typed /\ x \in Clients /\ Calm(x) /\ q # None
      /\ tasks[x] \subseteq Tasks
  BY GoesOnCalm DEF Callee, Typed, TypeOK
<1>2. SUFFICES ASSUME conn'[r].remote = q
               PROVE  FALSE
  OBVIOUS
<1>3. conn'[r].remote # None /\ conn'[r].remote # conn[r].remote
  BY <1>1, <1>2
<1>4. PICK task \in tasks[x] :
        /\ task.sdp = conn'[r].remote
        /\ task.at \in {"remote offer", "remote answer"}
        /\ task.at = "remote answer" => tasks'[x] = tasks[x] \ {task}
  BY <1>3, DescribedBy
<1>5. mailbox' = mailbox /\ task.sdp = q
  BY <1>2, <1>3, <1>4, DescribedBy
<1>6. CASE task.at = "remote offer"
  <2>1. Answering(x, q)
    BY <1>5, <1>6 DEF Answering
  <2>2. AnswerKnown(q)
    BY <1>1 DEF Sound, Agreed, Answers
  <2> QED
    BY <1>1, <2>1, <2>2 DEF AnswerKnown
<1>7. CASE task.at = "remote answer"
  <2>1. Applying(x, q) /\ x = c
    BY <1>1, <1>5, <1>7 DEF Applying, InTransit
  <2>2. mailbox' = mailbox /\ tasks'[x] = tasks[x] \ {task}
    BY <1>4, <1>5, <1>7
  <2>3. \A message \in Mail(c)' : ~IsAnswer(message, q)
    BY <2>1, <2>2 DEF Once, Mail
  <2>4. PICK other \in tasks'[x] : other.at = "remote answer" /\ other.sdp = q
    BY <2>1, <2>3 DEF InTransit, Applying
  <2>5. other \in tasks[x] /\ other # task
    BY <2>2, <2>4
  <2>6. other.pc = page[x].pc /\ task.pc = page[x].pc
    BY <1>1, <1>7, <2>4, <2>5, OneHandler
  <2> QED
    BY <1>1, <1>5, <1>7, <2>4, <2>5, <2>6, SameAnswerTask
<1> QED
  BY <1>4, <1>6, <1>7

LEMMA AnsweredKept ==
  ASSUME NEW x, Goes(x)
  PROVE  Answered'
<1>1. SUFFICES ASSUME NEW q \in Connections, conn'[q].state = "open",
                      conn'[q].local = "answer"
               PROVE  /\ conn'[q].remote # None
                      /\ \A c \in Clients : InTransit(c, q)' =>
                           /\ c = conn'[q].remote[1] /\ Expected(q[1], conn[q].remote)'
                           /\ \A p \in Connections : conn'[p].remote # q
                           /\ Once(c, q)'
  BY DEF Answered
<1>2. PICK e \in Clients : e = q[1] /\ page'[e].pc = q
  BY <1>1, GoesOnCalm
<1>3. /\ Sound /\ Typed /\ x \in Clients /\ Moves(x) /\ Calm(e) /\ Calm(e)'
      /\ q # None /\ AnsweredStill(e)
  BY GoesOnCalm, AllStill, NoneIsNobodys
<1>4. Callee(e)'
  BY <1>1, <1>2, <1>3 DEF Callee
<1>5. CASE Callee(e) /\ page[e].pc = q
  <2>1. conn[q].state = "open" /\ conn[q].local = "answer"
    BY <1>5, PageIsOpen DEF Callee
  <2>2. /\ conn[q].remote # None
        /\ \A c \in Clients : InTransit(c, q) =>
             /\ c = conn[q].remote[1] /\ Expected(e, conn[q].remote)
             /\ \A p \in Connections : conn[p].remote # q
             /\ Once(c, q)
    BY <1>2, <2>1 DEF Goes, Answered
  <2>3. PICK p \in Connections : p = conn[q].remote
    BY <1>3, <2>2 DEF Typed, TypeOK, PeerConnections
  <2>4. conn'[q].remote = p
    BY <1>1, <2>2, <2>3, RemoteStays
  <2>5. ASSUME NEW c \in Clients, InTransit(c, q)'
        PROVE  /\ c = p[1] /\ Expected(e, p)'
               /\ \A r \in Connections : conn'[r].remote # q
               /\ Once(c, q)'
    <3>1. InTransit(c, q)
      BY <1>5, <2>5, TransitBefore
    <3>2. /\ c = p[1] /\ Expected(e, p) /\ Once(c, q)
          /\ \A r \in Connections : conn[r].remote # q
      BY <2>2, <2>3, <3>1
    <3>3. Answering(e, p) /\ Answering(e, p)'
      BY <1>1, <1>2, <1>3, <1>5, <2>1, <2>3, <2>4 DEF Answering
    <3>4. Expected(e, p)'
      BY <1>5, <3>2, <3>3, ExpectedKept DEF Concerned
    <3>5. \A r \in Connections : conn'[r].remote # q
      <4>1. \A d \in Clients : InTransit(d, q) => d = c
        BY <2>2, <2>3, <3>2
      <4> QED
        BY <1>5, <2>5, <3>2, <4>1, NotThereYet
    <3> QED
      BY <1>5, <3>2, <3>4, <3>5, OnceKept
  <2> QED
    BY <1>2, <2>2, <2>3, <2>4, <2>5, NoneIsNobodys
<1>6. ASSUME NEW task, Replying(e, task)
      PROVE  e = x /\ task.pc = q
  <2>1. task \in tasks[e] /\ task.at = "answer"
    BY <1>3, <1>6, Replier DEF Replying
  <2>2. page'[e].pc = page[e].pc /\ tasks'[e] = tasks[e] \ {task}
    BY <1>3, <1>6, Replier DEF PageStays
  <2>3. task.pc = page[e].pc
    BY <1>3, <2>1, OneHandler
  <2>4. e = x
    BY <1>3, <2>1, <2>2, OthersKeep
  <2> QED
    BY <1>2, <2>2, <2>3, <2>4
<1>7. ASSUME NEW task, Replying(e, task)
      PROVE  /\ conn'[q].remote # None
             /\ \A c \in Clients : InTransit(c, q)' =>
                  /\ c = conn'[q].remote[1] /\ Expected(q[1], conn[q].remote)'
                  /\ \A p \in Connections : conn'[p].remote # q
                  /\ Once(c, q)'
  <2>1. Replying(x, task) /\ q = task.pc
    BY <1>6, <1>7
  <2> QED
    BY <2>1, AnsweredNew
<1>8. (Callee(e) /\ page[e].pc = q) \/ \E task : Replying(e, task)
  BY <1>2, <1>3, <1>4 DEF AnsweredStill
<1> QED
  BY <1>5, <1>7, <1>8

\* An answer reaches the offer of the caller while who sent it is in that call, or is
\* being told that its own has ended.
LEMMA AppliedNew ==
  ASSUME NEW x, Goes(x), NEW task, NEW p \in Connections, Describes(x, task, p),
         conn[p].local = "offer", NEW q \in Connections, q = task.sdp,
         conn[q].state = "open"
  PROVE  conn[q].remote = p \/ EndOnItsWay(q[1], p[1])
<1> DEFINE e == q[1]
<1>1. /\ Sound /\ Typed /\ x \in Clients /\ e \in Clients /\ Calm(e) /\ page[e].pc = q
      /\ q # None
  BY GoesOnCalm, NoneIsNobodys
<1>2. /\ page[x].pc = p /\ p # None /\ task \in tasks[x] /\ task.at = "remote answer"
  <2>1. task \in tasks[x] /\ p # None
    BY NoneIsNobodys DEF Describes
  <2>2. /\ page[x].pc = p /\ task.at \in {"remote offer", "remote answer"}
        /\ task.at = "remote offer" => conn[p].local = "none"
    BY DescribesFirst
  <2> QED
    BY <2>1, <2>2
<1>3. p[1] = x
  BY <1>1, <1>2, PageIsOpen
<1>4. conn[q].local # "none"
  BY <1>1, <1>2 DEF Sound, Agreed, NothingSaid, Undescribed, Unsaid
<1>5. conn[q].local # "offer"
  <2>1. SUFFICES ASSUME conn[q].local = "offer"
                 PROVE  FALSE
    OBVIOUS
  <2>2. Caller(e)
    BY <1>1, <2>1 DEF Caller
  <2>3. OfferKnown(e, q, page[e].callId, page[e].peer)
    BY <1>1, <2>2 DEF Sound, Agreed, Offers
  <2> QED
    BY <1>1, <1>2, <2>3 DEF OfferKnown
<1>6. conn[q].local = "answer"
  BY <1>1, <1>4, <1>5 DEF Typed, TypeOK, PeerConnections
<1>7. InTransit(x, q)
  BY <1>2 DEF InTransit, Applying
<1>8. PICK r : r = conn[q].remote /\ x = r[1] /\ Expected(e, r)
  BY <1>1, <1>6, <1>7 DEF Goes, Answered
<1> QED
  BY <1>2, <1>3, <1>8 DEF Expected, Lasts

LEMMA AppliedKept ==
  ASSUME NEW x, Goes(x)
  PROVE  Applied'
<1>1. SUFFICES ASSUME NEW p \in Connections, NEW q \in Connections,
                      conn'[p].local = "offer", Holds(p, q)'
               PROVE  conn'[q].remote = p \/ EndOnItsWay(q[1], p[1])'
  BY DEF Applied
<1> DEFINE c == p[1]
           e == q[1]
<1>2. /\ Sound /\ Typed /\ x \in Clients /\ c \in Clients /\ e \in Clients
      /\ Moves(x) /\ Calm(c) /\ Calm(c)' /\ p # None /\ q # None
      /\ conn'[p].remote = q /\ conn'[q].state = "open"
  BY <1>1, GoesOnCalm, NoneIsNobodys DEF Holds
<1>3. conn'[p].state = "open"
  <2>1. Forgotten'
    BY <1>2, ForgottenKept DEF Moves, Goes
  <2> QED
    BY <1>2, <2>1 DEF Forgotten
<1>4. page'[c].pc = p /\ page'[e].pc = q
  BY <1>2, <1>3, GoesOnCalm
<1>5. Caller(c)'
  BY <1>1, <1>2, <1>4 DEF Caller
<1>6. ASSUME NEW task, Inviting(x, task), p = task.pc, Calm(x)
      PROVE  FALSE
  BY <1>2, <1>6, Inviter, FirstInvite
<1>7. Caller(c) /\ page[c].pc = p
  BY <1>2, <1>4, <1>5, <1>6, CallerBefore
<1>8. conn[p].local = "offer"
  BY <1>7 DEF Caller
<1>9. conn[q].state = "open"
  <2>1. NothingSaid /\ NothingSaid'
    BY <1>2, NothingSaidKept DEF Sound, Agreed
  <2>2. ~Undescribed(q)'
    BY <1>2, <2>1 DEF NothingSaid, Unsaid
  <2> QED
    BY <1>2, <2>1, <2>2 DEF Moves, ConnMoves, Same, Changes, Undescribed, NothingSaid
<1>10. conn[q].remote = p \/ EndOnItsWay(e, c)
  <2>1. CASE conn[p].remote = q
    BY <1>2, <1>8, <1>9, <2>1 DEF Goes, Applied, Holds
  <2>2. ASSUME NEW task, Describes(x, task, p)
        PROVE  conn[q].remote = p \/ EndOnItsWay(e, c)
    <3>1. q = task.sdp
      BY <1>2, <2>2 DEF Describes
    <3> QED
      BY <1>8, <1>9, <2>2, <3>1, AppliedNew
  <2> QED
    BY <1>2, <2>1, <2>2 DEF Goes, AnswerMoves, Described
<1>11. conn[q].remote = p => conn'[q].remote = p
  BY <1>2, RemoteStays
<1>12. EndOnItsWay(e, c) => EndOnItsWay(e, c)'
  BY <1>2, <1>4, EndComes
<1> QED
  BY <1>10, <1>11, <1>12

-----------------------------------------------------------------------------
(***************************************************************************)
(* The theorem.                                                            *)
(***************************************************************************)

LEMMA UndisturbedBefore ==
  ASSUME NEW x, Step(x), Undisturbed'
  PROVE  Undisturbed
<1>1. disturbed \subseteq disturbed'
  BY DEF Step, Moves, OthersStay
<1>2. drops' = 0 => drops = 0
  BY DEF Step, CandidateMoves
<1> QED
  BY <1>1, <1>2 DEF Undisturbed

LEMMA RepliedStep ==
  ASSUME Sound, Known, Forgotten, Replied, Typed', AllInHand', [Next]_vars
  PROVE  Forgotten' /\ Replied'
<1>1. CASE Next
  <2>1. PICK x \in Clients : Step(x) /\ Acts(x)
    <3>1. Typed
      BY DEF Sound
    <3>2. PICK x \in Clients : Acts(x)
      BY <1>1, <3>1, SomebodyActs
    <3> QED
      BY <3>2, StepMoves, StepFinds DEF Step
  <2>2. AnswerMoves(x)
    BY <2>1, StepAnswers
  <2>3. Forgotten'
    BY <2>1, ForgottenKept DEF Step, Moves
  <2>4. ASSUME Undisturbed'
        PROVE  Invited' /\ Considered' /\ Answered' /\ Concluded' /\ Applied'
    <3>1. Undisturbed
      BY <2>1, <2>4, UndisturbedBefore
    <3>2. Goes(x)
      BY <2>1, <2>2, <2>4, <3>1 DEF Goes, Replied
    <3> QED
      BY <3>2, InvitedKept, ConsideredKept, AnsweredKept, ConcludedKept, AppliedKept
  <2> QED
    BY <2>3, <2>4 DEF Replied
<1>2. CASE UNCHANGED vars
  <2>1. UNCHANGED <<page, tasks, conn, mailbox, drops, disturbed>>
    BY <1>2 DEF vars
  <2>2. \A d \in Clients : \A p : /\ Answering(d, p)' = Answering(d, p)
                                  /\ Expected(d, p)' = Expected(d, p)
                                  /\ InTransit(d, p)' = InTransit(d, p)
                                  /\ Once(d, p)' = Once(d, p)
    BY <2>1 DEF Answering, Waits, Expected, Lasts, EndOnItsWay, Awaits, InTransit, Applying,
       Mail, Once, Caller, Calm, OneCallAtATime
  <2>3. Forgotten'
    BY <2>1 DEF Forgotten
  <2>4. ASSUME Undisturbed'
        PROVE  Invited' /\ Considered' /\ Answered' /\ Concluded' /\ Applied'
    <3>1. Invited /\ Considered /\ Answered /\ Concluded /\ Applied
      BY <2>1, <2>4 DEF Undisturbed, Replied
    <3>2. Invited'
      <4>1. \A p \in Connections : Lasts(p)' = Lasts(p)
        BY <2>1 DEF Lasts, Caller, Calm, OneCallAtATime
      <4> QED
        BY <2>1, <3>1, <4>1 DEF Invited
    <3>3. Considered'
      BY <2>1, <2>2, <3>1 DEF Considered, Callee, Calm, OneCallAtATime
    <3>4. Answered'
      <4>1. SUFFICES ASSUME NEW q \in Connections, conn[q].state = "open",
                            conn[q].local = "answer"
                     PROVE  /\ conn[q].remote # None
                            /\ \A c \in Clients : InTransit(c, q) =>
                                 /\ c = conn[q].remote[1] /\ Expected(q[1], conn[q].remote)'
                                 /\ \A p \in Connections : conn[p].remote # q
                                 /\ Once(c, q)
        BY <2>1, <2>2 DEF Answered
      <4>2. q[1] \in Clients
        BY DEF Connections
      <4>3. Expected(q[1], conn[q].remote)' = Expected(q[1], conn[q].remote)
        BY <2>1 DEF Expected, Lasts, EndOnItsWay, Awaits, Caller, Calm, OneCallAtATime
      <4> QED
        BY <3>1, <4>1, <4>2, <4>3 DEF Answered
    <3>5. Concluded'
      BY <2>1, <2>2, <3>1 DEF Concluded, Caller, Calm, OneCallAtATime, Mail
    <3>6. Applied'
      BY <2>1, <3>1 DEF Applied, Holds, EndOnItsWay, Awaits
    <3> QED
      BY <3>2, <3>3, <3>4, <3>5, <3>6
  <2> QED
    BY <2>3, <2>4 DEF Replied
<1> QED
  BY <1>1, <1>2

LEMMA InitReplied == Init => Forgotten /\ Replied
<1> SUFFICES ASSUME Init
             PROVE  Forgotten /\ Replied
  OBVIOUS
<1>1. /\ \A c \in Clients : /\ page[c].pc = None /\ ~page[c].banner /\ tasks[c] = {}
                            /\ mailbox[c] = <<>> /\ Mail(c) = {}
      /\ \A p \in Connections : /\ conn[p].state = "none" /\ conn[p].local = "none"
                                /\ conn[p].remote = None
  BY DEF Init, BlankPage, Fresh, Mail, Range
<1>2. Invited
  BY <1>1 DEF Invited
<1>3. Considered
  BY <1>1 DEF Considered, Answering, Waits
<1>4. Answered /\ Applied
  BY <1>1 DEF Answered, Applied
<1>5. Concluded
  BY <1>1 DEF Concluded, Caller
<1> QED
  BY <1>1, <1>2, <1>3, <1>4, <1>5 DEF Forgotten, Replied

\* In every behaviour in which nothing disturbs a call, an answer that is applied to the
\* offer of another call comes from a client that is being told that its own call has
\* ended: handleAnswer ignores the call id, and what it takes for its own is over.
THEOREM LateAnswersEnd == Spec => []LateAnswersAreOver
<1>1. Init => AllInHand /\ Agreed /\ Known /\ Forgotten /\ Replied
  BY InitAgreed, InitKnown, InitReplied DEF Init, AllInHand, InHand, BlankPage, Fresh
<1>2. Typed /\ Typed' /\ AllInHand /\ Agreed /\ Known /\ Forgotten /\ Replied /\ [Next]_vars =>
        AllInHand' /\ Agreed' /\ Known' /\ Forgotten' /\ Replied'
  BY InHandStep, AgreedStep, KnownStep, RepliedStep DEF Sound
<1>3. Replied => LateAnswersAreOver
  BY DEF Replied, Undisturbed, Applied, LateAnswersAreOver
<1>4. Spec => []Typed
  BY Types
<1> QED
  BY <1>1, <1>2, <1>3, <1>4, PTL DEF Spec

=============================================================================
