-------------------------- MODULE CallAgreementProofs --------------------------
(***************************************************************************)
(* Proofs about CallSetup, continued: two pages whose connections are      *)
(* paired mean the same call, and the server or the mail knows of it.      *)
(***************************************************************************)
EXTENDS CallSetupProofs

-----------------------------------------------------------------------------
(***************************************************************************)
(* The invariants.                                                         *)
(***************************************************************************)

Mail(d) == Range(mailbox[d])

Waits(c, at) == \E task \in tasks[c] : task.at = at

\* The message is an invite with the offer of connection p.
Brings(message, p) == message.type = "invite" /\ message.sdp = p

\* A page works on connections of its own.
Owned ==
  \A c \in Clients :
    /\ page[c].pc # None => page[c].pc[1] = c
    /\ \A task \in tasks[c] : task.at \notin AtMicrophone => task.pc[1] = c

\* Nobody has a description of connection p.
Unsaid(p) ==
  /\ \A d \in Clients :
       /\ \A message \in Mail(d) : message.type \in {"invite", "answer"} => message.sdp # p
       /\ page[d].offer # p
       /\ \A task \in tasks[d] : task.at \in {"remote offer", "remote answer"} => task.sdp # p
  /\ \A q \in Connections : conn[q].remote # p

Undescribed(p) == conn[p].state # "closed" /\ conn[p].local = "none"

\* A connection that has not described itself is described nowhere.
NothingSaid ==
  \A p \in Connections :
    /\ Undescribed(p) => Unsaid(p)
    /\ conn[p].state = "none" => conn[p].local = "none" /\ conn[p].remote = None

\* The server has still to send a bye of call k; that one is to x, for "from" has gone.
Owing(k) == \E h \in leaving : \E e \in h.ended : e[2] = k
Due(x, from, k) == \E h \in leaving : h.client = from /\ <<x, k>> \in h.ended

\* A call id that is about has been generated.
Numbered ==
  /\ \A c \in Clients :
       /\ page[c].callId # None => page[c].callId <= calls
       /\ \A message \in Mail(c) :
            message.type # "ice" /\ message.callId # None => message.callId <= calls
  /\ \A k \in Calls : dialogs[k] # {} \/ Owing(k) => k <= calls

\* Client c has no connection: its handlers, if any, wait for the microphone.
Preparing(c) ==
  /\ \A task \in tasks[c] : task.at \in AtMicrophone /\ page[c].peer # None
  /\ \A task \in tasks[c] :
       task.at = "microphone" =>
         page[c].callId # None /\ task.target = page[c].peer /\ page[c].peer # c

\* A handler works on the connection of the page, at the point where that is.
Serves(c, task) ==
  /\ task.at \notin AtMicrophone /\ task.pc = page[c].pc
  /\ task.at \in {"offer", "remote offer"} =>
       conn[task.pc].local = "none" /\ conn[task.pc].remote = None
  /\ task.at = "offer" => task.target = page[c].peer /\ ~Waits(c, "remote offer")
  /\ task.at = "remote offer" => task.sdp = page[c].offer
  /\ task.at \in {"candidates", "answer"} => HasRemoteOffer(task.pc)
  /\ task.at = "candidates" => ~Waits(c, "answer")

Calling(c) ==
  /\ conn[page[c].pc].state = "open" /\ page[c].peer # None
  /\ \A task \in tasks[c] : Serves(c, task)
  /\ Waits(c, "offer") \/ conn[page[c].pc].local = "offer" =>
       page[c].callId # None /\ page[c].peer # c

Staged(c) ==
  Calm(c) => IF page[c].pc = None THEN Preparing(c) ELSE Calling(c)

\* Client c has generated a call id and has yet to send its invite.
Placing(c) == Calm(c) /\ (Waits(c, "microphone") \/ Waits(c, "offer"))

\* That call id is nowhere else.
NewCall(c) ==
  Placing(c) =>
    /\ \A d \in Clients \ {c} : page[d].callId # page[c].callId
    /\ \A d \in Clients : \A message \in Mail(d) :
         message.type # "ice" => message.callId # page[c].callId
    /\ dialogs[page[c].callId] = {} /\ ~Owing(page[c].callId)

\* Client d is about to answer, or has answered, the offer of connection p.
Answering(d, p) ==
  \/ page[d].offer = p /\ (page[d].banner \/ Waits(d, "microphone to answer"))
  \/ \E task \in tasks[d] : task.at = "remote offer" /\ task.sdp = p
  \/ /\ page[d].pc # None /\ conn[page[d].pc].local # "offer"
     /\ conn[page[d].pc].remote = p

\* Client c has made an offer, or has given an answer.
Caller(c) == Calm(c) /\ page[c].pc # None /\ conn[page[c].pc].local = "offer"
Callee(c) == Calm(c) /\ page[c].pc # None /\ conn[page[c].pc].local = "answer"

\* The offer p of c, to t in call k, is where it should be and nowhere else; and in
\* t's mail whatever else belongs to the call comes after it.
OfferKnown(c, p, k, t) ==
  /\ \A d \in Clients : \A message \in Mail(d) :
       /\ Brings(message, p) => d = t /\ message.callId = k /\ message.from = c
       /\ message.type = "answer" => message.sdp # p
  /\ \A d \in Clients : \A task \in tasks[d] : task.at = "remote answer" => task.sdp # p
  /\ \A d \in Clients :
       /\ Calm(d) /\ Answering(d, p) => d = t /\ page[d].peer = c /\ page[d].callId = k
       /\ Caller(d) => conn[page[d].pc].remote # p
  /\ \A i, j \in DOMAIN mailbox[t] :
       /\ Brings(mailbox[t][j], p)
       /\ mailbox[t][i].type # "ice" /\ mailbox[t][i].callId = k
       => j <= i

\* Client x is being told by "from" that call k has ended.
Told(x, from, k) ==
  \E message \in Mail(x) : message.type \in Ends /\ message.from = from /\ message.callId = k

\* Both parties of call k are in the books, or the mail tells one of them that the
\* other has gone, or the server is about to, or such a bye was lost.
Accounted(c, t, k) ==
  \/ dialogs[k] = {c, t}
  \/ Told(c, t, k) \/ Told(t, c, k)
  \/ Due(c, t, k) \/ Due(t, c, k)
  \/ Missed(c) \/ Missed(t)

\* Only c and t know call k; and as long as t may answer, it is accounted for.
CallHeld(c, p, k, t) ==
  Calm(t) =>
    /\ \A d \in Clients : page[d].callId = k => d \in {c, t}
    /\ \A d \in Clients : \A message \in Mail(d) :
         message.type = "invite" /\ message.callId = k => message.sdp = p
    /\ page[t].callId = k => \A message \in Mail(t) : ~Brings(message, p)
    /\ (\E message \in Mail(t) : Brings(message, p)) \/ Answering(t, p) => Accounted(c, t, k)

\* Nobody takes the answer q for an offer.
AnswerKnown(q) ==
  \A d \in Clients :
    /\ \A message \in Mail(d) : ~Brings(message, q)
    /\ Calm(d) => ~Answering(d, q)

Offers  == \A c \in Clients : Caller(c) => OfferKnown(c, page[c].pc, page[c].callId, page[c].peer)
Held    == \A c \in Clients : Caller(c) => CallHeld(c, page[c].pc, page[c].callId, page[c].peer)
Answers == \A c \in Clients : Callee(c) => AnswerKnown(page[c].pc)

Agreed ==
  /\ Owned /\ NothingSaid /\ Numbered
  /\ \A c \in Clients : Staged(c) /\ NewCall(c)
  /\ Offers /\ Held /\ Answers

-----------------------------------------------------------------------------
(***************************************************************************)
(* What a step of client x does: the parts of it that the invariants above *)
(* depend on.  Each action is shown to be a move, and each invariant to    *)
(* survive one, whichever action it is.                                    *)
(***************************************************************************)

\* Nothing happens to the descriptions of connection p.
Same(p) ==
  /\ conn'[p].state = conn[p].state
  /\ conn'[p].local = conn[p].local
  /\ conn'[p].remote = conn[p].remote

\* A connection of x is closed or opened, or is given one of its descriptions.
Changes(x, p) ==
  /\ p[1] = x
  /\ \/ conn'[p].state = "closed" /\ conn'[p].remote = None
     \/ /\ conn[p].state = "none" /\ conn'[p].state = "open"
        /\ conn'[p].local = conn[p].local /\ conn'[p].remote = conn[p].remote
     \/ /\ conn[p].state = "open" /\ conn'[p].state = "open"
        /\ conn'[p].local \in {"offer", "answer"} /\ conn'[p].remote = conn[p].remote
     \/ /\ conn[p].state = "open" /\ conn'[p].state = "open"
        /\ conn'[p].local = conn[p].local
        /\ \E task \in tasks[x] :
             task.at \in {"remote offer", "remote answer"} /\ conn'[p].remote = task.sdp

ConnMoves(x) == \A p \in Connections : Same(p) \/ Changes(x, p)

\* The handlers of x work for x, on what has been in its mail.
HandlersMove(x) ==
  /\ page'[x].pc # None => page'[x].pc[1] = x
  /\ \/ page'[x].offer = page[x].offer
     \/ \E message \in Mail(x) : Brings(message, page'[x].offer)
  /\ \A task \in tasks'[x] :
       \/ task \in tasks[x] \/ task.at \in AtMicrophone
       \/ /\ task.pc[1] = x
          /\ task.at = "remote offer" => task.sdp = page[x].offer
          /\ task.at = "remote answer" =>
               \E message \in Mail(x) : message.type = "answer" /\ task.sdp = message.sdp

Inviting(x, task) == task \in tasks[x] /\ SendInvite(x, task)
Replying(x, task) == task \in tasks[x] /\ SendAnswer(x, task)
Taking(x, message) ==
  Read(x) /\ message = Head(mailbox[x]) /\ ReadInvite(x, message)

\* The call of x is given up, taken from its mail, or new.
CallIds(x) ==
  /\ calls' \in {calls, calls + 1}
  /\ \/ page'[x].callId \in {page[x].callId, None}
     \/ page'[x].callId = calls + 1 /\ calls' = calls + 1
     \/ \E message : Taking(x, message) /\ page'[x].callId = message.callId

\* A message that x sends, or that the server sends when a WebSocket of x is gone.
Posted(x, message) ==
  /\ message.type = "invite" =>
       /\ message.callId = page[x].callId
       /\ \E task : Inviting(x, task) /\ message.sdp = task.pc
  /\ message.type = "answer" =>
       /\ message.callId = page[x].callId
       /\ \E task : Replying(x, task) /\ message.sdp = task.pc
  /\ message.type \in Ends =>
       \/ message.callId = page[x].callId
       \/ /\ message.callId \in Calls
          /\ x \in dialogs[message.callId] \/ Owing(message.callId)
  /\ message.type = "ice" => Gathered(x, message.candidate)

\* The mail of d grows by messages of x.
Grows(x, d) ==
  \E new \in Seq(Messages) :
    mailbox'[d] = mailbox[d] \o new /\ \A i \in DOMAIN new : Posted(x, new[i])

Post(x) == \A d \in Clients : Grows(x, d) \/ (d = x /\ (Read(x) \/ Drop(x)))

\* Nothing is left of the call of x.
Over(x) == Calm(x)' => page'[x].pc = None /\ ~page'[x].banner /\ tasks'[x] = {}

\* The end of call k that d was to hear of from y is in its mail, or is still due, or
\* was lost, unless it has no part in that call.
Kept(d, y, k) ==
  Due(d, y, k)' \/ Told(d, y, k)' \/ Missed(d)' \/ ~TakesPart(d, k)

Books(x) ==
  \A k \in Calls :
    \/ dialogs'[k] = dialogs[k]
    \/ dialogs'[k] = {} /\ k = page[x].callId /\ Over(x)
    \/ dialogs'[k] = {} /\ x \in dialogs[k] /\ \A d \in dialogs[k] \ {x} : Kept(d, x, k)
    \/ k = page[x].callId /\ \E task : Inviting(x, task)

\* A bye that is due was due, or its call was in the books; and it is kept.
Dues(x) ==
  \A k \in Calls :
    /\ Owing(k)' => Owing(k) \/ x \in dialogs[k]
    /\ \A d, y \in Clients : Due(d, y, k) => Kept(d, y, k)

\* Whoever answers has answered before, or takes the invite from its mail.
AnswersStill(d) ==
  \A p \in Connections :
    Calm(d)' /\ Answering(d, p)' =>
      \/ Answering(d, p) /\ page'[d].peer = page[d].peer /\ page'[d].callId = page[d].callId
      \/ \E message : Taking(d, message) /\ Brings(message, p)

\* A caller has been the caller before, or sends the invite.
CallsStill(c) ==
  Caller(c)' =>
    \/ /\ Caller(c) /\ page'[c].pc = page[c].pc
       /\ page'[c].peer = page[c].peer /\ page'[c].callId = page[c].callId
       /\ \/ conn'[page[c].pc].remote = conn[page[c].pc].remote
          \/ \E task \in tasks[c] :
               task.at = "remote answer" /\ conn'[page[c].pc].remote = task.sdp
    \/ \E task : Inviting(c, task)

AnsweredStill(c) ==
  Callee(c)' =>
    \/ Callee(c) /\ page'[c].pc = page[c].pc
    \/ \E task : Replying(c, task)

\* Nothing is posted about the call of x.
Quiet(x) ==
  /\ \A d \in Clients : \A message \in Mail(d)' :
       \/ message \in Mail(d) \/ message.type = "ice"
       \/ /\ message.callId \in Calls
          /\ x \in dialogs[message.callId] \/ Owing(message.callId)
  /\ \A k \in Calls : dialogs'[k] \in {dialogs[k], {}}

\* The invite is still to come, or the call has just been made up.
NewStill(x) ==
  Placing(x)' =>
    \/ Placing(x) /\ page'[x].callId = page[x].callId /\ Quiet(x)
    \/ page'[x].callId = calls + 1 /\ UNCHANGED <<mailbox, dialogs, leaving>>

Progress(x) ==
  Staged(x)' /\ AnswersStill(x) /\ CallsStill(x) /\ AnsweredStill(x) /\ NewStill(x)

Moves(x) ==
  /\ OthersStay(x) /\ HandlersMove(x) /\ ConnMoves(x)
  /\ CallIds(x) /\ Post(x) /\ Books(x) /\ Dues(x)
  /\ Progress(x)

\* An action of client x, or of a handler of a WebSocket of x that has closed.
Acts(x) ==
  \/ \E t \in Clients \ {x} : ClickCall(x, t)
  \/ ClickAnswer(x) \/ ClickReject(x) \/ ClickHangUp(x)
  \/ \E task \in tasks[x] : Resume(x, task)
  \/ Read(x) \/ ConnectionLost(x) \/ Drop(x) \/ Reconnect(x)
  \/ \E p \in Connections : Gathered(x, p)
  \/ \E h \in leaving : h.client = x /\ Leave(h)

\* What may be assumed in every state.
Sound == Typed /\ AllInHand /\ Agreed

LEMMA CalmBefore ==
  ASSUME NEW d \in Clients, disturbed \subseteq disturbed', Calm(d)'
  PROVE  Calm(d)
BY DEF Calm, OneCallAtATime

\* The end of a call leaves nothing to do.
LEMMA CallOver ==
  ASSUME NEW x \in Clients, Over(x)
  PROVE  Progress(x)
<1>1. SUFFICES ASSUME Calm(x)'
               PROVE  Progress(x)
  BY DEF Progress, Staged, AnswersStill, CallsStill, AnsweredStill, NewStill,
         Caller, Callee, Placing
<1>2. page'[x].pc = None /\ ~page'[x].banner /\ tasks'[x] = {}
  BY <1>1 DEF Over
<1>3. Staged(x)'
  BY <1>2 DEF Staged, Preparing
<1>4. \A p \in Connections : ~Answering(x, p)'
  BY <1>2 DEF Answering, Waits
<1>5. ~Caller(x)' /\ ~Callee(x)' /\ ~Placing(x)'
  BY <1>2 DEF Caller, Callee, Placing, Waits
<1> QED
  BY <1>3, <1>4, <1>5 DEF Progress, AnswersStill, CallsStill, AnsweredStill, NewStill

-----------------------------------------------------------------------------
(***************************************************************************)
(* Connections, mail and books, from what the actions say of them.         *)
(***************************************************************************)

LEMMA ConnStays ==
  ASSUME NEW x, conn' = conn
  PROVE  ConnMoves(x) /\ \A p \in Connections : Same(p)
BY DEF ConnMoves, Same

\* One connection changes.
LEMMA ConnChanges ==
  ASSUME Typed, NEW p \in Connections, NEW d, conn' = [conn EXCEPT ![p] = d]
  PROVE  /\ conn'[p] = d
         /\ \A q \in Connections \ {p} : conn'[q] = conn[q] /\ Same(q)
<1>1. conn \in [Connections -> PeerConnections]
  BY DEF Typed, TypeOK
<1> QED
  BY <1>1 DEF Same

LEMMA OneConnMoves ==
  ASSUME Typed, NEW x, NEW p \in Connections, NEW d, conn' = [conn EXCEPT ![p] = d],
         Same(p) \/ Changes(x, p)
  PROVE  ConnMoves(x)
<1>1. \A q \in Connections \ {p} : Same(q)
  BY ConnChanges
<1> QED
  BY <1>1 DEF ConnMoves

\* endCall closes the connection of the page.
LEMMA CloseMoves ==
  ASSUME Typed, Owned, NEW x \in Clients, conn' = Closed(page[x].pc)
  PROVE  ConnMoves(x)
<1>1. CASE page[x].pc = None
  BY <1>1, ConnStays DEF Closed
<1>2. CASE page[x].pc # None
  <2>1. page[x].pc \in Connections /\ page[x].pc[1] = x
    BY <1>2 DEF Owned, Typed, TypeOK, Pages
  <2>2. conn' = [conn EXCEPT ![page[x].pc] = [Fresh EXCEPT !.state = "closed"]]
    BY <1>2 DEF Closed
  <2>3. conn'[page[x].pc] = [Fresh EXCEPT !.state = "closed"]
    BY <2>1, <2>2, ConnChanges
  <2>4. Changes(x, page[x].pc)
    BY <2>1, <2>3 DEF Changes, Fresh
  <2> QED
    BY <2>1, <2>2, <2>4, OneConnMoves
<1> QED
  BY <1>1, <1>2

\* The remote description of p is set; candidates do not count.
LEMMA RemoteSet ==
  ASSUME Typed, NEW x \in Clients, NEW p \in Connections, NEW sdp \in Connections,
         conn' = WithRemote(x, p, sdp)
  PROVE  /\ conn'[p].state = conn[p].state /\ conn'[p].local = conn[p].local
         /\ conn'[p].remote = sdp
         /\ \A q \in Connections \ {p} : Same(q)
<1>1. /\ page[x] \in Pages
      /\ conn \in [Connections -> PeerConnections]
  BY DEF Typed, TypeOK
<1> DEFINE d   == [conn[p] EXCEPT !.remote = sdp]
           set == [conn EXCEPT ![p] = d]
<1>2. d \in PeerConnections /\ d.state = conn[p].state /\ d.local = conn[p].local /\ d.remote = sdp
  <2>1. conn[p] \in PeerConnections
    BY <1>1
  <2> QED
    BY <2>1 DEF PeerConnections
<1>3. /\ set \in [Connections -> PeerConnections]
      /\ set[p] = d /\ \A q \in Connections \ {p} : set[q] = conn[q]
  BY <1>1, <1>2
<1>4. conn' = IF page[x].pc = None THEN set
              ELSE [set EXCEPT ![page[x].pc].candidates = @ \cup page[x].pending]
  BY DEF WithRemote
<1> HIDE DEF d, set
<1>5. ASSUME NEW q \in Connections
      PROVE  /\ conn'[q].state = set[q].state /\ conn'[q].local = set[q].local
             /\ conn'[q].remote = set[q].remote
  <2>1. set[q] \in PeerConnections
    BY <1>3
  <2>2. conn'[q] \in {set[q], [set[q] EXCEPT !.candidates = @ \cup page[x].pending]}
    BY <1>3, <1>4
  <2> QED
    BY <2>1, <2>2 DEF PeerConnections
<1> QED
  BY <1>2, <1>3, <1>5 DEF Same

\* createPeerConnection opens p, a connection without any description.
Opens(x, task, next, p) ==
  /\ p[1] = x /\ ConnMoves(x)
  /\ conn'[p].state = "open" /\ conn'[p].local = "none" /\ conn'[p].remote = None
  /\ page'[x] = [page[x] EXCEPT !.pc = p]
  /\ tasks'[x] = (tasks[x] \ {task}) \cup {[next EXCEPT !.pc = p]}

LEMMA OpensOne ==
  ASSUME Typed, NothingSaid, NEW x \in Clients, NEW task \in tasks[x], NEW next,
         Opened(x, task, next)
  PROVE  \E p \in Connections : Opens(x, task, next, p)
<1>1. PICK p \in Connections :
        p = NextConnection(x) /\ p[1] = x /\ conn[p].state = "none"
  BY NextIsUnused DEF Opened, Unused
<1>2. /\ page' = [page EXCEPT ![x] = [page[x] EXCEPT !.pc = p]]
      /\ conn' = [conn EXCEPT ![p] = [conn[p] EXCEPT !.state = "open"]]
      /\ tasks' = [tasks EXCEPT ![x] = (tasks[x] \ {task}) \cup {[next EXCEPT !.pc = p]}]
  BY <1>1 DEF Opened, Typed, TypeOK
<1>3. /\ page'[x] = [page[x] EXCEPT !.pc = p]
      /\ tasks'[x] = (tasks[x] \ {task}) \cup {[next EXCEPT !.pc = p]}
  BY <1>2 DEF Typed, TypeOK
<1>4. conn'[p] = [conn[p] EXCEPT !.state = "open"]
  BY <1>2, ConnChanges
<1>5. /\ conn'[p].state = "open" /\ conn'[p].local = conn[p].local
      /\ conn'[p].remote = conn[p].remote
  <2>1. conn[p] \in PeerConnections
    BY DEF Typed, TypeOK
  <2> QED
    BY <1>4, <2>1 DEF PeerConnections
<1>6. conn[p].local = "none" /\ conn[p].remote = None
  BY <1>1 DEF NothingSaid
<1>7. ConnMoves(x)
  <2>1. Changes(x, p)
    BY <1>1, <1>5 DEF Changes
  <2> QED
    BY <1>2, <2>1, OneConnMoves
<1> QED
  BY <1>1, <1>3, <1>5, <1>6, <1>7 DEF Opens

-----------------------------------------------------------------------------
\* A mailbox that stays has grown by nothing.
LEMMA NothingPosted ==
  ASSUME Typed, NEW x, NEW d \in Clients, mailbox'[d] = mailbox[d]
  PROVE  Grows(x, d)
<1>1. <<>> \in Seq(Messages) /\ DOMAIN <<>> = {} /\ mailbox[d] \o <<>> = mailbox[d]
  <2>1. mailbox[d] \in Seq(Messages)
    BY DEF Typed, TypeOK
  <2> QED
    BY <2>1
<1> QED
  BY <1>1 DEF Grows

LEMMA PostStays ==
  ASSUME Typed, NEW x, mailbox' = mailbox
  PROVE  Post(x)
BY NothingPosted DEF Post

LEMMA PostSends ==
  ASSUME Typed, NEW x, NEW target, NEW message \in Messages, Posted(x, message),
         mailbox' = Sent(x, target, message)
  PROVE  Post(x)
<1>1. mailbox \in [Clients -> Seq(Messages)]
  BY DEF Typed, TypeOK
<1>2. ASSUME NEW d \in Clients, mailbox'[d] # mailbox[d]
      PROVE  Grows(x, d)
  <2>1. mailbox'[d] = Append(mailbox[d], message)
    BY <1>1, <1>2 DEF Sent
  <2>2. <<message>> \in Seq(Messages) /\ DOMAIN <<message>> = {1} /\ <<message>>[1] = message
    OBVIOUS
  <2>3. mailbox'[d] = mailbox[d] \o <<message>>
    <3>1. mailbox[d] \in Seq(Messages)
      BY <1>1
    <3> QED
      BY <2>1, <3>1
  <2>4. \A i \in DOMAIN <<message>> : Posted(x, <<message>>[i])
    BY <2>2
  <2> QED
    BY <2>2, <2>3, <2>4 DEF Grows
<1> QED
  BY <1>2, NothingPosted DEF Post

\* What else is in a mailbox after a message has been sent.
LEMMA MailAfterSent ==
  ASSUME Typed, NEW x, NEW target, NEW message \in Messages,
         mailbox' = Sent(x, target, message)
  PROVE  \A d \in Clients : \A m \in Mail(d)' :
           \/ m \in Mail(d)
           \/ m = message /\ d = target /\ online[x] /\ online[target]
<1>1. mailbox \in [Clients -> Seq(Messages)]
  BY DEF Typed, TypeOK
<1>2. ASSUME NEW d \in Clients, mailbox'[d] # mailbox[d]
      PROVE  /\ mailbox'[d] = Append(mailbox[d], message)
             /\ d = target /\ online[x] /\ online[target]
  BY <1>1, <1>2 DEF Sent
<1>3. ASSUME NEW d \in Clients, NEW m \in Mail(d)', m \notin Mail(d)
      PROVE  m = message /\ d = target /\ online[x] /\ online[target]
  <2>1. mailbox'[d] # mailbox[d]
    BY <1>3 DEF Mail
  <2>2. PICK i \in DOMAIN mailbox'[d] : m = mailbox'[d][i]
    BY <1>3 DEF Mail, Range
  <2>3. mailbox'[d] = Append(mailbox[d], message) /\ mailbox[d] \in Seq(Messages)
    BY <1>1, <1>2, <2>1
  <2>4. i \in DOMAIN mailbox[d] => m = mailbox[d][i]
    BY <2>2, <2>3
  <2>5. i \notin DOMAIN mailbox[d]
    BY <1>3, <2>4 DEF Mail, Range
  <2>6. m = message
    BY <2>2, <2>3, <2>5
  <2> QED
    BY <1>2, <2>1, <2>6
<1> QED
  BY <1>3

LEMMA BooksStay ==
  ASSUME NEW x, dialogs' = dialogs
  PROVE  Books(x)
BY DEF Books

LEMMA DuesStay ==
  ASSUME NEW x, leaving' = leaving
  PROVE  Dues(x)
BY DEF Dues, Owing, Due, Kept

LEMMA BooksDismissed ==
  ASSUME Typed, NEW x, Over(x), dialogs' = Dismissed(x, page[x].callId),
         leaving' = leaving
  PROVE  Books(x) /\ Dues(x)
<1>1. \A k \in Calls : \/ dialogs'[k] = dialogs[k]
                       \/ dialogs'[k] = {} /\ k = page[x].callId
  BY DEF Dismissed, Typed, TypeOK
<1> QED
  BY <1>1, DuesStay DEF Books

-----------------------------------------------------------------------------
(***************************************************************************)
(* The end of a call.                                                      *)
(***************************************************************************)

LEMMA EndCallIsOver ==
  ASSUME Typed, NEW x \in Clients, NEW rest \in SUBSET tasks[x], NEW mishaps,
         EndCallAnd(x, rest, mishaps)
  PROVE  /\ page'[x].pc = None /\ page'[x].callId = None
         /\ page'[x].offer = page[x].offer /\ tasks'[x] = rest
         /\ Over(x)
<1>1. page'[x] = Ended(page[x]) /\ tasks'[x] = rest
  BY DEF EndCallAnd, Typed, TypeOK
<1>2. /\ page'[x].pc = None /\ page'[x].callId = None /\ ~page'[x].banner
      /\ page'[x].offer = page[x].offer
  BY <1>1 DEF Ended, BlankPage
<1>3. ASSUME rest # {}
      PROVE  ~Calm(x)'
  <2>1. <<x, "cut short">> \in disturbed'
    BY <1>3 DEF EndCallAnd
  <2> QED
    BY <2>1 DEF Calm
<1> QED
  BY <1>1, <1>2, <1>3 DEF Over

LEMMA EndCallMoves ==
  ASSUME Sound, NEW x \in Clients, NEW rest \in SUBSET tasks[x], NEW mishaps,
         EndCallAnd(x, rest, mishaps), calls' = calls, Post(x), Books(x), Dues(x)
  PROVE  Moves(x)
<1>1. Typed /\ Owned /\ InHand(x)
  BY DEF Sound, Agreed, AllInHand
<1>2. /\ page'[x].pc = None /\ page'[x].callId = None
      /\ page'[x].offer = page[x].offer /\ tasks'[x] = rest
      /\ Over(x)
  BY <1>1, EndCallIsOver
<1>3. OthersStay(x)
  BY <1>1, EndCallLetsGo
<1>4. HandlersMove(x)
  BY <1>2 DEF HandlersMove
<1>5. ConnMoves(x)
  BY <1>1, CloseMoves DEF EndCallAnd
<1>6. CallIds(x)
  BY <1>2 DEF CallIds
<1> QED
  BY <1>2, <1>3, <1>4, <1>5, <1>6, CallOver DEF Moves

\* The call fails: nobody is told.
LEMMA FailureMoves ==
  ASSUME Sound, NEW x \in Clients,
         \/ ConnectionLost(x)
         \/ \E task \in tasks[x] : MicrophoneRefused(x, task) \/ SetUpFails(x, task)
  PROVE  Moves(x)
<1>1. PICK rest \in SUBSET tasks[x] : \E mishaps : EndCallAnd(x, rest, mishaps)
  BY DEF ConnectionLost, MicrophoneRefused, SetUpFails, EndCall
<1>2. UNCHANGED <<mailbox, online, dialogs, leaving, calls>>
  BY DEF ConnectionLost, MicrophoneRefused, SetUpFails
<1>3. Typed
  BY DEF Sound, Agreed
<1>4. Post(x) /\ Books(x) /\ Dues(x)
  BY <1>2, <1>3, PostStays, BooksStay, DuesStay
<1> QED
  BY <1>1, <1>2, <1>4, EndCallMoves

\* Hang Up, and Reject: the other is told.
LEMMA EndIsPosted ==
  ASSUME Typed, NEW x \in Clients, NEW type \in Ends, NEW target,
         mailbox' = Sent(x, target, [type |-> type, from |-> x, callId |-> page[x].callId])
  PROVE  Post(x)
<1> DEFINE message == [type |-> type, from |-> x, callId |-> page[x].callId]
<1>1. message \in Messages
  BY DEF Messages, Typed, TypeOK, Pages
<1>2. type # "invite" /\ type # "answer" /\ type # "ice"
  BY DEF Ends
<1>3. Posted(x, message)
  BY <1>2 DEF Posted
<1> HIDE DEF message
<1> QED
  BY <1>1, <1>3, PostSends DEF message

LEMMA HangUpMoves ==
  ASSUME Sound, NEW x \in Clients, ClickHangUp(x)
  PROVE  Moves(x)
<1>1. Typed
  BY DEF Sound, Agreed
<1>2. /\ mailbox' = Sent(x, page[x].peer,
                         [type |-> "bye", from |-> x, callId |-> page[x].callId])
      /\ dialogs' = Dismissed(x, page[x].callId)
      /\ EndCallAnd(x, tasks[x], {})
      /\ UNCHANGED <<online, leaving, calls>>
  BY DEF ClickHangUp, EndCall
<1>3. Over(x)
  BY <1>1, <1>2, EndCallIsOver
<1>4. Post(x)
  BY <1>1, <1>2, EndIsPosted DEF Ends
<1>5. Books(x) /\ Dues(x)
  BY <1>1, <1>2, <1>3, BooksDismissed
<1> QED
  BY <1>2, <1>4, <1>5, EndCallMoves

LEMMA RejectMoves ==
  ASSUME Sound, NEW x \in Clients, ClickReject(x)
  PROVE  Moves(x)
<1>1. Typed /\ InHand(x)
  BY DEF Sound, Agreed, AllInHand
<1>2. /\ page[x].banner
      /\ page' = [page EXCEPT ![x] = [page[x] EXCEPT !.banner = FALSE, !.peer = None,
                                                     !.callId = None]]
      /\ mailbox' = Sent(x, page[x].peer,
                         [type |-> "rejected", from |-> x, callId |-> page[x].callId])
      /\ dialogs' = Dismissed(x, page[x].callId)
      /\ UNCHANGED <<tasks, conn, online, leaving, calls, disturbed>>
  BY <1>1 DEF ClickReject, Typed, TypeOK
<1>3. /\ page'[x].callId = None /\ ~page'[x].banner
      /\ page'[x].pc = page[x].pc /\ page'[x].offer = page[x].offer
  <2>1. page[x] \in Pages
    BY <1>1 DEF Typed, TypeOK
  <2> QED
    BY <1>1, <1>2, <2>1 DEF Pages, Typed, TypeOK
<1>4. Over(x)
  BY <1>1, <1>2, <1>3 DEF Over, InHand, Calm, OneCallAtATime
<1>5. Post(x)
  BY <1>1, <1>2, EndIsPosted DEF Ends
<1>6. Books(x) /\ Dues(x)
  BY <1>1, <1>2, <1>4, BooksDismissed
<1>7. OthersStay(x)
  BY <1>1, ClickInHand
<1>8. HandlersMove(x)
  <2>1. Owned
    BY DEF Sound, Agreed
  <2> QED
    BY <1>2, <1>3, <2>1 DEF HandlersMove, Owned
<1>9. ConnMoves(x) /\ CallIds(x)
  BY <1>2, <1>3, ConnStays DEF CallIds
<1> QED
  BY <1>4, <1>5, <1>6, <1>7, <1>8, <1>9, CallOver DEF Moves

\* Reading takes the first message and nothing else.
LEMMA ReadingMoves ==
  ASSUME Typed, NEW x \in Clients, Read(x)
  PROVE  /\ mailbox[x] # <<>> /\ Head(mailbox[x]) \in Messages
         /\ mailbox'[x] = Tail(mailbox[x])
         /\ UNCHANGED <<online, dialogs, leaving, calls>>
         /\ Post(x) /\ Books(x) /\ Dues(x)
<1>1. /\ mailbox[x] # <<>>
      /\ mailbox' = [mailbox EXCEPT ![x] = Tail(@)]
      /\ UNCHANGED <<online, dialogs, leaving, calls>>
  BY DEF Read
<1>2. mailbox \in [Clients -> Seq(Messages)]
  BY DEF Typed, TypeOK
<1>3. Head(mailbox[x]) \in Messages
  BY <1>1, <1>2
<1>4. mailbox'[x] = Tail(mailbox[x]) /\ \A d \in Clients \ {x} : mailbox'[d] = mailbox[d]
  BY <1>1, <1>2
<1>5. Post(x)
  BY <1>4, NothingPosted DEF Post
<1>6. Books(x) /\ Dues(x)
  BY <1>1, BooksStay, DuesStay
<1> QED
  BY <1>1, <1>3, <1>4, <1>5, <1>6

LEMMA ByeMoves ==
  ASSUME Sound, NEW x \in Clients, Read(x), ReadBye(x, Head(mailbox[x]))
  PROVE  Moves(x)
<1>1. Typed
  BY DEF Sound, Agreed
<1>2. PICK mishaps : EndCallAnd(x, tasks[x], mishaps)
  BY DEF ReadBye
<1> QED
  BY <1>1, <1>2, ReadingMoves, EndCallMoves

\* Whoever reads the end of a call has none any more.
LEMMA EndRead ==
  ASSUME Typed, NEW x \in Clients, Read(x), Head(mailbox[x]).type \in Ends
  PROVE  Over(x)
<1>1. Head(mailbox[x]).type \notin {"invite", "answer", "ice"}
  BY DEF Ends
<1>2. ReadBye(x, Head(mailbox[x]))
  BY <1>1 DEF Read, ReadInvite, ReadAnswer, ReadCandidate
<1>3. PICK mishaps : EndCallAnd(x, tasks[x], mishaps)
  BY <1>2 DEF ReadBye
<1> QED
  BY <1>3, EndCallIsOver

-----------------------------------------------------------------------------
(***************************************************************************)
(* Steps that leave the call of x as it is.                                *)
(***************************************************************************)

Steady(x) ==
  /\ disturbed \subseteq disturbed'
  /\ page'[x].peer = page[x].peer /\ page'[x].callId = page[x].callId
  /\ page'[x].pc = page[x].pc /\ page'[x].banner = page[x].banner
  /\ page'[x].offer = page[x].offer
  /\ \A p \in Connections : Same(p)
  /\ \A task \in tasks'[x] :
       \/ task \in tasks[x]
       \/ task.at = "remote answer" /\ task.pc = page[x].pc /\ page[x].pc # None
  /\ Quiet(x)

LEMMA SteadyStaged ==
  ASSUME Typed, NEW x \in Clients, Staged(x), Steady(x)
  PROVE  Staged(x)'
<1> USE DEF Steady
<1>1. SUFFICES ASSUME Calm(x)'
               PROVE  Staged(x)'
  BY DEF Staged
<1>2. Calm(x)
  BY <1>1, CalmBefore
<1>3. \A at : at # "remote answer" /\ Waits(x, at)' => Waits(x, at)
  BY DEF Waits
<1>4. CASE page[x].pc = None
  <2>1. Preparing(x)
    BY <1>2, <1>4 DEF Staged
  <2>2. tasks'[x] \subseteq tasks[x]
    BY <1>4
  <2>3. Preparing(x)'
    BY <2>1, <2>2 DEF Preparing
  <2> QED
    BY <1>4, <2>3 DEF Staged
<1>5. CASE page[x].pc # None
  <2>1. Calling(x)
    BY <1>2, <1>5 DEF Staged
  <2>2. page[x].pc \in Connections
    BY <1>5 DEF Typed, TypeOK, Pages
  <2>3. Same(page[x].pc)
    BY <2>2
  <2>4. ASSUME NEW task \in tasks'[x]
        PROVE  Serves(x, task)'
    <3>1. CASE task \in tasks[x]
      <4>1. Serves(x, task)
        BY <2>1, <3>1 DEF Calling
      <4>2. HasRemoteOffer(task.pc) => HasRemoteOffer(task.pc)'
        BY <2>3, <4>1 DEF Serves, Same, HasRemoteOffer
      <4> QED
        BY <1>3, <2>3, <4>1, <4>2 DEF Serves, Same
    <3>2. CASE task.at = "remote answer" /\ task.pc = page[x].pc
      BY <3>2 DEF Serves, AtMicrophone
    <3> QED
      BY <3>1, <3>2
  <2>5. Calling(x)'
    BY <1>3, <2>1, <2>3, <2>4 DEF Calling, Same
  <2> QED
    BY <1>5, <2>5 DEF Staged
<1> QED
  BY <1>4, <1>5

LEMMA SteadyProgress ==
  ASSUME Typed, NEW x \in Clients, Staged(x), Steady(x)
  PROVE  Progress(x)
<1> USE DEF Steady
<1>1. \A at : at # "remote answer" /\ Waits(x, at)' => Waits(x, at)
  BY DEF Waits
<1>2. page[x].pc # None => Same(page[x].pc)
  BY DEF Typed, TypeOK, Pages
<1>3. AnswersStill(x)
  <2>1. ASSUME NEW p \in Connections, Answering(x, p)'
        PROVE  Answering(x, p)
    BY <1>1, <1>2, <2>1 DEF Answering, Same
  <2> QED
    BY <2>1 DEF AnswersStill
<1>4. CallsStill(x) /\ AnsweredStill(x)
  <2>1. Caller(x)' => Caller(x)
    BY <1>2, CalmBefore DEF Caller, Same
  <2>2. Callee(x)' => Callee(x)
    BY <1>2, CalmBefore DEF Callee, Same
  <2>3. Caller(x) => conn'[page[x].pc].remote = conn[page[x].pc].remote
    BY <1>2 DEF Caller, Same
  <2> QED
    BY <2>1, <2>2, <2>3 DEF CallsStill, AnsweredStill
<1>5. NewStill(x)
  BY <1>1, CalmBefore DEF NewStill, Placing
<1> QED
  BY <1>3, <1>4, <1>5, SteadyStaged DEF Progress

LEMMA SteadyMoves ==
  ASSUME Sound, NEW x \in Clients, OthersStay(x), Steady(x), calls' = calls,
         Post(x), Books(x), Dues(x),
         \A task \in tasks'[x] :
           \/ task \in tasks[x]
           \/ \E message \in Mail(x) : message.type = "answer" /\ task.sdp = message.sdp
  PROVE  Moves(x)
<1>1. Typed /\ Owned /\ Staged(x)
  BY DEF Sound, Agreed
<1>2. HandlersMove(x)
  BY <1>1 DEF Steady, HandlersMove, Owned
<1>3. ConnMoves(x) /\ CallIds(x)
  BY DEF Steady, ConnMoves, CallIds
<1> QED
  BY <1>1, <1>2, <1>3, SteadyProgress DEF Moves

\* Nothing is posted.
LEMMA MailKept ==
  ASSUME NEW x, mailbox' = mailbox, dialogs' = dialogs
  PROVE  Quiet(x)
BY DEF Quiet, Mail

\* A handler that never goes on, or whose answer is refused.
LEMMA HandlerLeaves ==
  ASSUME Sound, NEW x \in Clients, NEW task \in tasks[x],
         \/ SetUpHangs(x, task)
         \/ RemoteAnswerSet(x, task) /\ ~HasLocalOffer(task.pc)
  PROVE  Moves(x)
<1>1. Typed /\ InHand(x)
  BY DEF Sound, Agreed, AllInHand
<1>2. /\ tasks' = [tasks EXCEPT ![x] = @ \ {task}]
      /\ UNCHANGED <<page, conn, mailbox, online, dialogs, leaving, calls, disturbed>>
  BY DEF SetUpHangs, RemoteAnswerSet
<1>3. tasks'[x] \subseteq tasks[x]
  BY <1>1, <1>2 DEF Typed, TypeOK
<1>4. Steady(x)
  BY <1>2, <1>3, ConnStays, MailKept DEF Steady
<1>5. OthersStay(x)
  BY <1>1, DescriptionInHand
<1>6. Post(x) /\ Books(x) /\ Dues(x)
  BY <1>1, <1>2, PostStays, BooksStay, DuesStay
<1> QED
  BY <1>2, <1>3, <1>4, <1>5, <1>6, SteadyMoves

\* The rest of a mailbox was in it before.
LEMMA RestOfMail ==
  ASSUME Typed, NEW x \in Clients, mailbox[x] # <<>>
  PROVE  /\ Head(mailbox[x]) \in Mail(x)
         /\ \A m \in Range(Tail(mailbox[x])) : m \in Mail(x)
<1>1. mailbox[x] \in Seq(Messages)
  BY DEF Typed, TypeOK
<1>2. 1 \in DOMAIN mailbox[x] /\ Head(mailbox[x]) = mailbox[x][1]
  BY <1>1
<1>3. ASSUME NEW i \in DOMAIN Tail(mailbox[x])
      PROVE  i + 1 \in DOMAIN mailbox[x] /\ Tail(mailbox[x])[i] = mailbox[x][i + 1]
  BY <1>1
<1> QED
  BY <1>2, <1>3 DEF Mail, Range

LEMMA ReadingIsQuiet ==
  ASSUME Typed, NEW x \in Clients, Read(x)
  PROVE  Quiet(x)
<1>1. mailbox[x] # <<>>
  BY DEF Read
<1>2. /\ mailbox' = [mailbox EXCEPT ![x] = Tail(@)]
      /\ dialogs' = dialogs
  BY DEF Read
<1>3. /\ mailbox'[x] = Tail(mailbox[x])
      /\ \A d \in Clients \ {x} : mailbox'[d] = mailbox[d]
  BY <1>2 DEF Typed, TypeOK
<1>4. \A d \in Clients : \A m \in Mail(d)' : m \in Mail(d)
  BY <1>1, <1>3, RestOfMail DEF Mail
<1> QED
  BY <1>2, <1>4 DEF Quiet

\* An answer or a candidate is read.
LEMMA AnswerOrCandidateMoves ==
  ASSUME Sound, NEW x \in Clients, Read(x), NEW message, message = Head(mailbox[x]),
         ReadAnswer(x, message) \/ ReadCandidate(x, message)
  PROVE  Moves(x)
<1>1. Typed /\ InHand(x)
  BY DEF Sound, Agreed, AllInHand
<1>2. /\ calls' = calls /\ Post(x) /\ Books(x) /\ Dues(x)
      /\ message \in Mail(x)
  BY <1>1, ReadingMoves, RestOfMail
<1>3. OthersStay(x)
  BY <1>1, ReadInHand
<1>4. Quiet(x)
  BY <1>1, ReadingIsQuiet
<1>5. CASE ReadAnswer(x, message)
  <2> DEFINE next == [at |-> "remote answer", pc |-> page[x].pc, sdp |-> message.sdp]
  <2>1. /\ message.type = "answer"
        /\ UNCHANGED <<page, conn, disturbed>>
        /\ \A task \in tasks'[x] :
             task \in tasks[x] \/ (task = next /\ page[x].pc # None)
    BY <1>1, <1>5 DEF ReadAnswer, Typed, TypeOK
  <2>2. next.at = "remote answer" /\ next.pc = page[x].pc /\ next.sdp = message.sdp
    OBVIOUS
  <2> HIDE DEF next
  <2>3. Steady(x)
    BY <1>4, <2>1, <2>2, ConnStays DEF Steady
  <2> QED
    BY <1>2, <1>3, <2>1, <2>2, <2>3, SteadyMoves
<1>6. CASE ReadCandidate(x, message)
  <2> DEFINE s == [page[x] EXCEPT !.pending = @ \cup {message.candidate}]
             d == [conn[page[x].pc] EXCEPT !.candidates = @ \cup {message.candidate}]
  <2>1. /\ UNCHANGED <<tasks, disturbed>>
        /\ \/ page' = [page EXCEPT ![x] = s] /\ conn' = conn
           \/ /\ page[x].pc # None
              /\ conn' = [conn EXCEPT ![page[x].pc] = d] /\ page' = page
    BY <1>1, <1>6 DEF ReadCandidate, CandidateTaken, Typed, TypeOK
  <2>2. page[x] \in Pages
    BY <1>1 DEF Typed, TypeOK
  <2>3. \A p \in Connections : Same(p)
    <3>1. ASSUME page[x].pc # None, conn' = [conn EXCEPT ![page[x].pc] = d]
          PROVE  \A p \in Connections : Same(p)
      <4>1. page[x].pc \in Connections /\ conn[page[x].pc] \in PeerConnections
        BY <1>1, <2>2, <3>1 DEF Pages, Typed, TypeOK
      <4>2. /\ d.state = conn[page[x].pc].state /\ d.local = conn[page[x].pc].local
            /\ d.remote = conn[page[x].pc].remote
        BY <4>1 DEF PeerConnections
      <4> HIDE DEF d
      <4>3. Same(page[x].pc)
        BY <1>1, <3>1, <4>1, <4>2, ConnChanges DEF Same
      <4> QED
        BY <1>1, <3>1, <4>1, <4>3, ConnChanges
    <3> QED
      BY <2>1, <3>1, ConnStays
  <2>4. /\ page'[x].peer = page[x].peer /\ page'[x].callId = page[x].callId
        /\ page'[x].pc = page[x].pc /\ page'[x].banner = page[x].banner
        /\ page'[x].offer = page[x].offer
    <3>1. page'[x] \in {page[x], s}
      BY <1>1, <2>1 DEF Typed, TypeOK
    <3> QED
      BY <2>2, <3>1 DEF Pages
  <2>5. Steady(x)
    BY <1>4, <2>1, <2>3, <2>4 DEF Steady
  <2> QED
    BY <1>2, <1>3, <2>1, <2>5, SteadyMoves
<1> QED
  BY <1>5, <1>6

\* A candidate is sent, or the WebSocket opens again.
LEMMA WebMoves ==
  ASSUME Sound, NEW x \in Clients,
         Reconnect(x) \/ \E p \in Connections : Gathered(x, p)
  PROVE  Moves(x)
<1>1. Typed /\ InHand(x)
  BY DEF Sound, Agreed, AllInHand
<1>2. UNCHANGED <<page, tasks, dialogs, leaving, calls, disturbed>>
  BY DEF Reconnect, Gathered
<1>3. OthersStay(x)
  BY <1>1, EventInHand
<1>4. Books(x)
  BY <1>2, BooksStay
<1>5. CASE Reconnect(x)
  <2>1. /\ online' = [online EXCEPT ![x] = TRUE]
        /\ UNCHANGED <<conn, mailbox>>
    BY <1>5 DEF Reconnect
  <2>2. Steady(x)
    BY <1>2, <2>1, ConnStays, MailKept DEF Steady
  <2>3. Post(x)
    BY <1>1, <2>1, PostStays
  <2>4. Dues(x)
    BY <1>2, DuesStay
  <2> QED
    BY <1>2, <1>3, <1>4, <2>2, <2>3, <2>4, SteadyMoves
<1>6. ASSUME NEW p \in Connections, Gathered(x, p)
      PROVE  Moves(x)
  <2> DEFINE candidate == [type |-> "ice", from |-> x, candidate |-> p]
             d == [conn[p] EXCEPT !.gathered = TRUE]
  <2>1. /\ conn' = [conn EXCEPT ![p] = d]
        /\ mailbox' = Sent(x, page[x].peer, candidate)
        /\ online' = online
    BY <1>1, <1>6 DEF Gathered, Typed, TypeOK
  <2>2. /\ candidate \in Messages /\ candidate.type = "ice"
        /\ candidate.candidate = p
    BY DEF Messages
  <2>3. Posted(x, candidate)
    BY <1>6, <2>2 DEF Posted, Ends
  <2>4. d.state = conn[p].state /\ d.local = conn[p].local /\ d.remote = conn[p].remote
    <3>1. conn[p] \in PeerConnections
      BY <1>1 DEF Typed, TypeOK
    <3> QED
      BY <3>1 DEF PeerConnections
  <2> HIDE DEF candidate, d
  <2>5. \A q \in Connections : Same(q)
    <3>1. Same(p)
      BY <1>1, <2>1, <2>4, ConnChanges DEF Same
    <3> QED
      BY <1>1, <2>1, <3>1, ConnChanges
  <2>6. Quiet(x)
    BY <1>1, <1>2, <2>1, <2>2, MailAfterSent DEF Quiet
  <2>7. Steady(x)
    BY <1>2, <2>5, <2>6 DEF Steady
  <2>8. Post(x) /\ Dues(x)
    BY <1>1, <1>2, <2>1, <2>2, <2>3, PostSends, DuesStay
  <2> QED
    BY <1>2, <1>3, <1>4, <2>7, <2>8, SteadyMoves
<1> QED
  BY <1>5, <1>6

\* What grows keeps what it had.
LEMMA Grown ==
  ASSUME NEW s \in Seq(Messages), NEW t \in Seq(Messages)
  PROVE  /\ Range(s \o t) = Range(s) \cup Range(t)
         /\ \A i \in DOMAIN s : i \in DOMAIN (s \o t) /\ (s \o t)[i] = s[i] /\ i <= Len(s)
         /\ \A i \in DOMAIN (s \o t) :
              \/ i \in DOMAIN s
              \/ i > Len(s) /\ i - Len(s) \in DOMAIN t /\ (s \o t)[i] = t[i - Len(s)]
<1>1. \A i \in DOMAIN s : i \in DOMAIN (s \o t) /\ (s \o t)[i] = s[i] /\ i <= Len(s)
  OBVIOUS
<1>2. \A i \in DOMAIN (s \o t) :
        \/ i \in DOMAIN s
        \/ i > Len(s) /\ i - Len(s) \in DOMAIN t /\ (s \o t)[i] = t[i - Len(s)]
  OBVIOUS
<1>3. \A j \in DOMAIN t : Len(s) + j \in DOMAIN (s \o t) /\ (s \o t)[Len(s) + j] = t[j]
  OBVIOUS
<1> HIDE DEF Range
<1>4. Range(s) \subseteq Range(s \o t)
  BY <1>1 DEF Range
<1>5. Range(t) \subseteq Range(s \o t)
  BY <1>3 DEF Range
<1>6. Range(s \o t) \subseteq Range(s) \cup Range(t)
  BY <1>1, <1>2 DEF Range
<1> QED
  BY <1>1, <1>2, <1>4, <1>5, <1>6

\* What a disconnect does to the mail: the rest of it is lost.
LEMMA Dropped ==
  ASSUME Typed, NEW x \in Clients, Drop(x)
  PROVE  /\ mailbox'[x] = <<>> /\ Mail(x)' = {}
         /\ EndUnread(x) => Missed(x)'
         /\ Quiet(x) /\ Post(x) /\ Books(x)
<1>1. /\ mailbox' = [mailbox EXCEPT ![x] = <<>>] /\ dialogs' = dialogs
      /\ disturbed' = IF EndUnread(x) THEN disturbed \cup {<<x, "unheard">>} ELSE disturbed
  BY DEF Drop
<1>2. mailbox'[x] = <<>> /\ \A d \in Clients \ {x} : mailbox'[d] = mailbox[d]
  BY <1>1 DEF Typed, TypeOK
<1>3. Mail(x)' = {}
  BY <1>2 DEF Mail, Range
<1>4. EndUnread(x) => Missed(x)'
  BY <1>1 DEF Missed
<1>5. Post(x)
  BY <1>2, NothingPosted DEF Post
<1>6. Quiet(x)
  BY <1>1, <1>2, <1>3 DEF Quiet, Mail
<1> QED
  BY <1>1, <1>2, <1>3, <1>4, <1>5, <1>6, BooksStay

\* The handlers that were sending to x find its WebSocket closed; nothing that they
\* owe changes.
LEMMA DropDues ==
  ASSUME Typed, NEW x \in Clients, Drop(x)
  PROVE  Dues(x)
<1> DEFINE new == [drop |-> drops', client |-> x, at |-> "closed", to |-> None, ended |-> {}]
           after(h) == IF h.at = "byes" /\ h.to = x THEN [h EXCEPT !.at = "broken"] ELSE h
<1>1. leaving' = {after(h) : h \in leaving} \cup {new} /\ new.ended = {}
  BY DEF Drop
<1>2. ASSUME NEW h \in leaving
      PROVE  after(h).client = h.client /\ after(h).ended = h.ended
  <2>1. h \in Handlers
    BY DEF Typed, TypeOK
  <2> QED
    BY <2>1 DEF Handlers
<1> HIDE DEF new, after
<1>3. ASSUME NEW k \in Calls
      PROVE  Owing(k)' => Owing(k)
  BY <1>1, <1>2 DEF Owing
<1>4. ASSUME NEW k \in Calls, NEW d \in Clients, NEW y \in Clients, Due(d, y, k)
      PROVE  Due(d, y, k)'
  BY <1>1, <1>2, <1>4 DEF Due
<1> QED
  BY <1>3, <1>4 DEF Dues, Kept

LEMMA DropMoves ==
  ASSUME Sound, NEW x \in Clients, Drop(x)
  PROVE  Moves(x)
<1>1. Typed /\ InHand(x)
  BY DEF Sound, AllInHand
<1>2. UNCHANGED <<page, tasks, conn, calls>>
  BY DEF Drop
<1>3. OthersStay(x)
  BY <1>1, EventInHand
<1>4. Quiet(x) /\ Post(x) /\ Books(x) /\ Dues(x)
  BY <1>1, Dropped, DropDues
<1>5. Steady(x)
  BY <1>2, <1>3, <1>4, ConnStays DEF Steady, OthersStay
<1> QED
  BY <1>2, <1>3, <1>4, <1>5, SteadyMoves

\* The server tells client e[1] of the end of call e[2], and goes on with h.
Tells(h, e) ==
  /\ mailbox' = [mailbox EXCEPT ![e[1]] =
                   Append(@, [type |-> "bye", from |-> h.client, callId |-> e[2]])]

\* Of the byes of the loop, each is sent, or remains, or is lost on record.
LEMMA ByesKept ==
  ASSUME Typed, NEW h \in leaving, NEW rest \in SUBSET (Clients \X Calls),
         NextBye(h, rest)
  PROVE  /\ \A e \in rest : Kept(e[1], h.client, e[2])
         /\ mailbox' = mailbox \/ \E e \in rest : Tells(h, e)
         /\ \E next : /\ leaving' \subseteq (leaving \ {h}) \cup {next}
                      /\ leaving \ {h} \subseteq leaving'
                      /\ next.ended \subseteq rest
<1>1. h \in Handlers
  BY DEF Typed, TypeOK
<1>2. ASSUME NEW lost, disturbed' = disturbed \cup Untold(lost), NEW e \in lost
      PROVE  Missed(e[1])' \/ ~TakesPart(e[1], e[2])
  BY <1>2 DEF Untold, Missed
<1>3. PICK skipped \in SUBSET rest :
        \/ /\ skipped = rest
           /\ leaving' = leaving \ {h}
           /\ disturbed' = disturbed \cup Untold(skipped)
           /\ mailbox' = mailbox
        \/ \E e \in rest \ skipped, at \in {"byes", "broken"} :
             /\ leaving' = (leaving \ {h})
                  \cup {[h EXCEPT !.at = at, !.to = e[1], !.ended = rest \ (skipped \cup {e})]}
             /\ \/ Tells(h, e) /\ disturbed' = disturbed \cup Untold(skipped)
                \/ mailbox' = mailbox /\ disturbed' = disturbed \cup Untold(skipped \cup {e})
  BY DEF NextBye, Tells
<1>4. CASE /\ skipped = rest
           /\ leaving' = leaving \ {h}
           /\ disturbed' = disturbed \cup Untold(skipped)
           /\ mailbox' = mailbox
  <2>1. \A e \in rest : Kept(e[1], h.client, e[2])
    BY <1>2, <1>4 DEF Kept
  <2>2. [h EXCEPT !.ended = {}].ended \subseteq rest
    BY <1>1 DEF Handlers
  <2> QED
    BY <1>4, <2>1, <2>2
<1>5. ASSUME NEW e \in rest \ skipped, NEW at,
             leaving' = (leaving \ {h})
               \cup {[h EXCEPT !.at = at, !.to = e[1], !.ended = rest \ (skipped \cup {e})]},
             \/ Tells(h, e) /\ disturbed' = disturbed \cup Untold(skipped)
             \/ mailbox' = mailbox /\ disturbed' = disturbed \cup Untold(skipped \cup {e})
      PROVE  /\ \A f \in rest : Kept(f[1], h.client, f[2])
             /\ mailbox' = mailbox \/ \E f \in rest : Tells(h, f)
             /\ \E next : /\ leaving' \subseteq (leaving \ {h}) \cup {next}
                          /\ leaving \ {h} \subseteq leaving'
                          /\ next.ended \subseteq rest
  <2> DEFINE next == [h EXCEPT !.at = at, !.to = e[1], !.ended = rest \ (skipped \cup {e})]
  <2>1. next.client = h.client /\ next.ended = rest \ (skipped \cup {e})
    BY <1>1 DEF Handlers
  <2>2. leaving' = (leaving \ {h}) \cup {next}
    BY <1>5
  <2> HIDE DEF next
  <2>3. ASSUME NEW f \in rest \ (skipped \cup {e})
        PROVE  Kept(f[1], h.client, f[2])
    <3>1. f = <<f[1], f[2]>>
      OBVIOUS
    <3>2. Due(f[1], h.client, f[2])'
      BY <2>1, <2>2, <3>1 DEF Due
    <3> QED
      BY <3>2 DEF Kept
  <2>4. ASSUME NEW f \in skipped
        PROVE  Kept(f[1], h.client, f[2])
    BY <1>2, <1>5 DEF Kept
  <2>5. Kept(e[1], h.client, e[2])
    <3>1. CASE Tells(h, e)
      <4> DEFINE bye == [type |-> "bye", from |-> h.client, callId |-> e[2]]
      <4>1. mailbox[e[1]] \in Seq(Messages) /\ e[1] \in Clients
        BY DEF Typed, TypeOK
      <4>2. mailbox'[e[1]] = Append(mailbox[e[1]], bye)
        BY <3>1, <4>1 DEF Tells, Typed, TypeOK
      <4>3. bye.type \in Ends /\ bye.from = h.client /\ bye.callId = e[2]
        BY DEF Ends
      <4> HIDE DEF bye
      <4>4. /\ Len(mailbox[e[1]]) + 1 \in DOMAIN mailbox'[e[1]]
            /\ mailbox'[e[1]][Len(mailbox[e[1]]) + 1] = bye
        BY <4>1, <4>2
      <4>5. bye \in Mail(e[1])'
        BY <4>4 DEF Mail, Range
      <4>6. Told(e[1], h.client, e[2])'
        BY <4>3, <4>5 DEF Told
      <4> QED
        BY <4>6 DEF Kept
    <3>2. CASE disturbed' = disturbed \cup Untold(skipped \cup {e})
      BY <1>2, <3>2 DEF Kept
    <3> QED
      BY <1>5, <3>1, <3>2
  <2>6. \A f \in rest : Kept(f[1], h.client, f[2])
    BY <2>3, <2>4, <2>5
  <2>7. next.ended \subseteq rest
    BY <2>1
  <2> QED
    BY <1>5, <2>2, <2>6, <2>7
<1> QED
  BY <1>3, <1>4, <1>5

\* What a handler of x does: it has told, has to tell, or has lost the partners of
\* the calls that it takes out of the books, and those that it had to tell before.
Settled(x, h, rest) ==
  /\ \A e \in rest : Kept(e[1], x, e[2])
  /\ mailbox' = mailbox \/ \E e \in rest : Tells(h, e)
  /\ leaving \ {h} \subseteq leaving'
  /\ \A g \in leaving' : g \in leaving \/ g.ended \subseteq rest

LEMMA LeavingSettles ==
  ASSUME Typed, NEW h \in leaving, Leave(h)
  PROVE  \/ /\ Settled(h.client, h, h.ended) /\ dialogs' = dialogs
         \/ /\ Settled(h.client, h, PartnersOf(h.client)) /\ h.ended = {}
            /\ dialogs' = [k \in Calls |-> IF h.client \in dialogs[k] THEN {} ELSE dialogs[k]]
<1> DEFINE x == h.client
<1>1. h \in Handlers
  BY DEF Typed, TypeOK
<1>2. h.ended \in SUBSET (Clients \X Calls)
  BY <1>1 DEF Handlers
<1>3. ASSUME NEW rest \in SUBSET (Clients \X Calls), NextBye(h, rest)
      PROVE  Settled(x, h, rest)
  <2>1. PICK next : /\ leaving' \subseteq (leaving \ {h}) \cup {next}
                    /\ leaving \ {h} \subseteq leaving'
                    /\ next.ended \subseteq rest
    BY <1>3, ByesKept
  <2>2. \A g \in leaving' : g \in leaving \/ g.ended \subseteq rest
    BY <2>1
  <2> QED
    BY <1>3, <2>1, <2>2, ByesKept DEF Settled
<1>4. ASSUME CleanUp(h), h.at \in {"closed", "offline"}
      PROVE  /\ Settled(x, h, PartnersOf(x)) /\ h.ended = {}
             /\ dialogs' = [k \in Calls |-> IF x \in dialogs[k] THEN {} ELSE dialogs[k]]
  <2>1. h.ended = {}
    BY <1>1, <1>4 DEF Handlers
  <2>2. PartnersOf(x) \in SUBSET (Clients \X Calls)
    BY PartnersType
  <2>3. NextBye(h, PartnersOf(x))
    BY <1>4 DEF CleanUp
  <2> QED
    BY <1>3, <1>4, <2>1, <2>2, <2>3 DEF CleanUp
<1>5. CASE Release(h)
  <2>1. CASE CleanUp(h)
    BY <1>4, <1>5, <2>1 DEF Release
  <2>2. CASE /\ leaving' = (leaving \ {h}) \cup {[h EXCEPT !.at = "offline"]}
             /\ UNCHANGED <<mailbox, dialogs, disturbed>>
    <3>1. h.ended = {} /\ [h EXCEPT !.at = "offline"].ended = {}
      BY <1>1, <1>5 DEF Release, Handlers
    <3> QED
      BY <2>2, <3>1 DEF Settled
  <2> QED
    BY <1>5, <2>1, <2>2 DEF Release
<1>6. CASE OfflineSent(h)
  BY <1>4, <1>6 DEF OfflineSent
<1>7. CASE ByeSent(h)
  BY <1>2, <1>3, <1>7 DEF ByeSent
<1>8. CASE ByeRaises(h)
  <2>1. \A e \in h.ended : Missed(e[1])' \/ ~TakesPart(e[1], e[2])
    BY <1>8 DEF ByeRaises, Untold, Missed
  <2>2. UNCHANGED <<mailbox, dialogs>> /\ leaving' = leaving \ {h}
    BY <1>8 DEF ByeRaises
  <2> QED
    BY <2>1, <2>2 DEF Settled, Kept
<1> QED
  BY <1>5, <1>6, <1>7, <1>8 DEF Leave

\* The mail grows by the bye, if by anything.
LEMMA TellsPosts ==
  ASSUME Typed, NEW h \in leaving, NEW x, NEW e \in Clients \X Calls, Tells(h, e),
         x \in dialogs[e[2]] \/ Owing(e[2])
  PROVE  /\ Post(x)
         /\ \A d \in Clients : \A m \in Mail(d)' :
              m \in Mail(d) \/ (m.callId \in Calls /\ (x \in dialogs[m.callId] \/ Owing(m.callId)))
<1> DEFINE bye == [type |-> "bye", from |-> h.client, callId |-> e[2]]
<1>1. mailbox \in [Clients -> Seq(Messages)] /\ e[1] \in Clients /\ e[2] \in Calls
  BY DEF Typed, TypeOK
<1>2. bye \in Messages
  <2>1. h.client \in Clients
    BY DEF Typed, TypeOK, Handlers
  <2> QED
    BY <1>1, <2>1 DEF Messages, Ends
<1>3. /\ bye.callId = e[2] /\ bye.type \in Ends
      /\ bye.type # "invite" /\ bye.type # "answer" /\ bye.type # "ice"
  BY DEF Ends
<1>4. mailbox'[e[1]] = Append(mailbox[e[1]], bye)
      /\ \A d \in Clients \ {e[1]} : mailbox'[d] = mailbox[d]
  BY <1>1 DEF Tells
<1> HIDE DEF bye
<1>5. Posted(x, bye)
  BY <1>1, <1>3 DEF Posted
<1>6. mailbox[e[1]] \in Seq(Messages) /\ <<bye>> \in Seq(Messages)
      /\ mailbox'[e[1]] = mailbox[e[1]] \o <<bye>>
  <2>1. mailbox[e[1]] \in Seq(Messages)
    BY <1>1
  <2>2. \A box \in Seq(Messages) : Append(box, bye) = box \o <<bye>>
    BY <1>2
  <2> QED
    BY <1>2, <1>4, <2>1, <2>2
<1>7. Range(<<bye>>) = {bye}
  BY DEF Range
<1>8. Grows(x, e[1])
  <2>1. \A i \in DOMAIN <<bye>> : Posted(x, <<bye>>[i])
    BY <1>5
  <2> QED
    BY <1>6, <2>1 DEF Grows
<1>9. Post(x)
  BY <1>4, <1>8, NothingPosted DEF Post
<1>10. Mail(e[1])' = Mail(e[1]) \cup {bye}
  <2>1. Range(mailbox[e[1]] \o <<bye>>) = Range(mailbox[e[1]]) \cup Range(<<bye>>)
    BY <1>6, Grown
  <2> QED
    BY <1>6, <1>7, <2>1 DEF Mail
<1>11. ASSUME NEW d \in Clients, NEW m \in Mail(d)', m \notin Mail(d)
       PROVE  m = bye
  BY <1>4, <1>10, <1>11 DEF Mail
<1> QED
  BY <1>1, <1>3, <1>9, <1>11

LEMMA LeaveMoves ==
  ASSUME Sound, NEW h \in leaving, Leave(h)
  PROVE  h.client \in Clients /\ Moves(h.client)
<1> DEFINE x == h.client
<1>1. Typed /\ x \in Clients /\ h.ended \in SUBSET (Clients \X Calls)
  BY DEF Sound, Typed, TypeOK, Handlers
<1>2. UNCHANGED <<page, tasks, conn, online, calls>> /\ disturbed \subseteq disturbed'
  BY OnlyMoreUntold DEF Leave
<1>3. OthersStay(x)
  BY <1>2 DEF OthersStay, OpensNone
<1>4. PICK rest \in SUBSET (Clients \X Calls) :
        /\ Settled(x, h, rest) /\ h.ended \subseteq rest
        /\ \/ rest = h.ended /\ dialogs' = dialogs
           \/ /\ rest = PartnersOf(x)
              /\ dialogs' = [k \in Calls |-> IF x \in dialogs[k] THEN {} ELSE dialogs[k]]
  BY <1>1, LeavingSettles, PartnersType
<1>5. \A e \in rest : x \in dialogs[e[2]] \/ Owing(e[2])
  <2>1. \A e \in h.ended : Owing(e[2])
    BY DEF Owing
  <2>2. \A e \in PartnersOf(x) : x \in dialogs[e[2]]
    BY DEF PartnersOf, Involved
  <2> QED
    BY <1>4, <2>1, <2>2
<1>6. \A k \in Calls : dialogs'[k] \in {dialogs[k], {}}
  BY <1>4
<1>7. /\ Post(x)
      /\ \A d \in Clients : \A m \in Mail(d)' :
           m \in Mail(d) \/ (m.callId \in Calls /\ (x \in dialogs[m.callId] \/ Owing(m.callId)))
  <2>1. CASE mailbox' = mailbox
    BY <1>1, <2>1, PostStays DEF Mail
  <2>2. ASSUME NEW e \in rest, Tells(h, e)
        PROVE  /\ Post(x)
               /\ \A d \in Clients : \A m \in Mail(d)' :
                    \/ m \in Mail(d)
                    \/ m.callId \in Calls /\ (x \in dialogs[m.callId] \/ Owing(m.callId))
    <3>1. e \in Clients \X Calls /\ (x \in dialogs[e[2]] \/ Owing(e[2]))
      BY <1>5
    <3> HIDE DEF x
    <3> QED
      BY <1>1, <2>2, <3>1, TellsPosts
  <2> QED
    BY <1>4, <2>1, <2>2 DEF Settled
<1>8. Quiet(x)
  BY <1>6, <1>7 DEF Quiet
<1>9. Steady(x)
  BY <1>2, <1>8, ConnStays DEF Steady
<1>10. Books(x)
  <2>1. ASSUME NEW k \in Calls, dialogs'[k] # dialogs[k]
        PROVE  /\ dialogs'[k] = {} /\ x \in dialogs[k]
               /\ \A d \in dialogs[k] \ {x} : Kept(d, x, k)
    <3>1. dialogs'[k] = {} /\ x \in dialogs[k] /\ rest = PartnersOf(x)
      BY <1>4, <2>1
    <3>2. ASSUME NEW d \in dialogs[k] \ {x}
          PROVE  Kept(d, x, k)
      <4>1. <<d, k>> \in PartnersOf(x)
        BY <1>1, <3>1, <3>2 DEF PartnersOf, Involved, Typed, TypeOK
      <4>2. Kept(<<d, k>>[1], x, <<d, k>>[2])
        BY <1>4, <3>1, <4>1 DEF Settled
      <4> QED
        BY <4>2
    <3> QED
      BY <3>1, <3>2
  <2> QED
    BY <2>1 DEF Books
<1>11. Dues(x)
  <2>1. ASSUME NEW k \in Calls, Owing(k)'
        PROVE  Owing(k) \/ x \in dialogs[k]
    <3>0. PICK g \in leaving' : \E e \in g.ended : e[2] = k
      BY <2>1 DEF Owing
    <3>1. PICK e \in g.ended : e[2] = k
      BY <3>0
    <3>2. CASE g \in leaving
      BY <3>1, <3>2 DEF Owing
    <3>3. CASE g.ended \subseteq rest
      BY <1>5, <3>1, <3>3
    <3> QED
      BY <1>4, <3>2, <3>3 DEF Settled
  <2>2. ASSUME NEW k \in Calls, NEW d \in Clients, NEW y \in Clients, Due(d, y, k)
        PROVE  Kept(d, y, k)
    <3>1. PICK g \in leaving : g.client = y /\ <<d, k>> \in g.ended
      BY <2>2 DEF Due
    <3>2. CASE g = h
      <4>1. Kept(<<d, k>>[1], x, <<d, k>>[2])
        BY <1>4, <3>1, <3>2 DEF Settled
      <4> QED
        BY <3>1, <3>2, <4>1
    <3>3. CASE g # h
      <4>1. g \in leaving'
        BY <1>4, <3>3 DEF Settled
      <4>2. Due(d, y, k)'
        BY <3>1, <4>1 DEF Due
      <4> QED
        BY <4>2 DEF Kept
    <3> QED
      BY <3>2, <3>3
  <2> QED
    BY <2>1, <2>2 DEF Dues
<1> HIDE DEF x
<1>12. Moves(x)
  BY <1>1, <1>2, <1>3, <1>7, <1>9, <1>10, <1>11, SteadyMoves
<1> QED
  BY <1>1, <1>12 DEF x

-----------------------------------------------------------------------------
(***************************************************************************)
(* A call begins.                                                          *)
(***************************************************************************)

\* A page that has neither connection nor handler nor banner answers nothing,
\* once it works on the microphone only.
LEMMA Beginning ==
  ASSUME NEW x \in Clients, disturbed \subseteq disturbed',
         Calm(x)' => /\ page'[x].pc = None /\ Preparing(x)'
                     /\ \A p \in Connections :
                          Answering(x, p)' =>
                            \/ /\ Answering(x, p) /\ page'[x].peer = page[x].peer
                               /\ page'[x].callId = page[x].callId
                            \/ \E message : Taking(x, message) /\ Brings(message, p)
  PROVE  Staged(x)' /\ AnswersStill(x) /\ CallsStill(x) /\ AnsweredStill(x)
<1>1. Staged(x)'
  BY DEF Staged
<1>2. AnswersStill(x)
  BY DEF AnswersStill
<1>3. ~Caller(x)' /\ ~Callee(x)'
  BY DEF Caller, Callee
<1> QED
  BY <1>1, <1>2, <1>3 DEF CallsStill, AnsweredStill

LEMMA ClickCallMoves ==
  ASSUME Sound, NEW x \in Clients, NEW t \in Clients \ {x}, ClickCall(x, t)
  PROVE  Moves(x)
<1> DEFINE k    == calls + 1
           task == [at |-> "microphone", call |-> k, target |-> t]
<1>1. Typed /\ Owned /\ InHand(x)
  BY DEF Sound, Agreed, AllInHand
<1>2. /\ page' = [page EXCEPT ![x] = [page[x] EXCEPT !.peer = t, !.callId = k]]
      /\ tasks' = [tasks EXCEPT ![x] = @ \cup {task}]
      /\ disturbed' = IF Busy(x) THEN disturbed \cup {<<x, "overlap">>} ELSE disturbed
      /\ calls' = k /\ UNCHANGED <<conn, mailbox, online, dialogs, leaving>>
  BY <1>1 DEF ClickCall, Typed, TypeOK
<1>3. task.at = "microphone" /\ task.target = t
  OBVIOUS
<1>4. k # None
  <2>1. k \in Calls
    <3>1. MaxCalls \in Nat
      BY CallSetupAssumption
    <3>2. calls \in 0 .. MaxCalls /\ calls < MaxCalls
      BY <1>1 DEF ClickCall, Typed, TypeOK
    <3> QED
      BY <3>1, <3>2 DEF Calls
  <2> QED
    BY <2>1, NoneIsNobodys
<1> HIDE DEF task
<1>5. /\ page'[x].peer = t /\ page'[x].callId = k /\ page'[x].pc = page[x].pc
      /\ page'[x].offer = page[x].offer /\ page'[x].banner = page[x].banner
      /\ tasks'[x] = tasks[x] \cup {task}
  <2>1. page[x] \in Pages
    BY <1>1 DEF Typed, TypeOK
  <2>2. page'[x] = [page[x] EXCEPT !.peer = t, !.callId = k]
    BY <1>1, <1>2 DEF Typed, TypeOK
  <2>3. tasks'[x] = tasks[x] \cup {task}
    BY <1>1, <1>2 DEF Typed, TypeOK
  <2> HIDE DEF k
  <2> QED
    BY <2>1, <2>2, <2>3 DEF Pages
<1>6. t # None
  BY CallSetupAssumption
<1> HIDE DEF k
<1>7. OthersStay(x)
  BY <1>1, ClickInHand
<1>8. ASSUME Calm(x)'
      PROVE  /\ page'[x].pc = None /\ Preparing(x)'
             /\ \A p \in Connections : ~Answering(x, p)'
  <2>1. OneCallAtATime(x) /\ page[x].peer = None /\ page[x].pc = None /\ tasks[x] = {}
    BY <1>2, <1>8 DEF Calm, OneCallAtATime, Busy
  <2>2. ~page[x].banner
    BY <1>1, <2>1 DEF InHand
  <2>3. tasks'[x] = {task} /\ page'[x].pc = None /\ ~page'[x].banner
    BY <1>5, <2>1, <2>2
  <2>4. Preparing(x)'
    BY <1>3, <1>4, <1>5, <1>6, <2>3 DEF Preparing, AtMicrophone
  <2>5. \A p \in Connections : ~Answering(x, p)'
    BY <1>3, <2>3 DEF Answering, Waits
  <2> QED
    BY <2>3, <2>4, <2>5
<1>9. Progress(x)
  <2>1. Staged(x)' /\ AnswersStill(x) /\ CallsStill(x) /\ AnsweredStill(x)
    BY <1>7, <1>8, Beginning DEF OthersStay
  <2>2. NewStill(x)
    BY <1>2, <1>5 DEF NewStill, k
  <2> QED
    BY <2>1, <2>2 DEF Progress
<1>10. HandlersMove(x)
  BY <1>1, <1>3, <1>5 DEF HandlersMove, Owned, AtMicrophone
<1>11. ConnMoves(x) /\ CallIds(x)
  BY <1>2, <1>5, ConnStays DEF CallIds, k
<1>12. Post(x) /\ Books(x) /\ Dues(x)
  BY <1>1, <1>2, PostStays, BooksStay, DuesStay
<1> QED
  BY <1>7, <1>9, <1>10, <1>11, <1>12 DEF Moves

LEMMA ClickAnswerMoves ==
  ASSUME Sound, NEW x \in Clients, ClickAnswer(x)
  PROVE  Moves(x)
<1> DEFINE task == [at |-> "microphone to answer", call |-> page[x].callId]
<1>1. Typed /\ Owned /\ InHand(x)
  BY DEF Sound, Agreed, AllInHand
<1>2. /\ page[x].banner
      /\ page' = [page EXCEPT ![x] = [page[x] EXCEPT !.banner = FALSE]]
      /\ tasks' = [tasks EXCEPT ![x] = @ \cup {task}]
      /\ UNCHANGED <<conn, mailbox, online, dialogs, leaving, calls, disturbed>>
  BY <1>1 DEF ClickAnswer, Typed, TypeOK
<1>3. task.at = "microphone to answer"
  OBVIOUS
<1> HIDE DEF task
<1>4. /\ page'[x].peer = page[x].peer /\ page'[x].callId = page[x].callId
      /\ page'[x].pc = page[x].pc /\ page'[x].offer = page[x].offer /\ ~page'[x].banner
      /\ tasks'[x] = tasks[x] \cup {task}
  <2>1. page[x] \in Pages
    BY <1>1 DEF Typed, TypeOK
  <2>2. page'[x] = [page[x] EXCEPT !.banner = FALSE] /\ tasks'[x] = tasks[x] \cup {task}
    BY <1>1, <1>2 DEF Typed, TypeOK
  <2> QED
    BY <2>1, <2>2 DEF Pages
<1>5. OthersStay(x)
  BY <1>1, ClickInHand
<1>6. ASSUME Calm(x)'
      PROVE  /\ page[x].peer # None /\ page[x].pc = None /\ tasks'[x] = {task}
  BY <1>1, <1>2, <1>4, <1>6 DEF InHand, Calm, OneCallAtATime
<1>7. ASSUME Calm(x)'
      PROVE  /\ page'[x].pc = None /\ Preparing(x)'
             /\ \A p \in Connections : Answering(x, p)' => Answering(x, p)
  <2>1. Preparing(x)'
    BY <1>3, <1>4, <1>6, <1>7 DEF Preparing, AtMicrophone
  <2>2. \A p \in Connections : Answering(x, p)' => Answering(x, p)
    BY <1>2, <1>3, <1>4, <1>6, <1>7 DEF Answering
  <2> QED
    BY <1>4, <1>6, <1>7, <2>1, <2>2
<1>8. Progress(x)
  <2>1. Staged(x)' /\ AnswersStill(x) /\ CallsStill(x) /\ AnsweredStill(x)
    BY <1>4, <1>5, <1>7, Beginning DEF OthersStay
  <2>2. NewStill(x)
    BY <1>3, <1>6 DEF NewStill, Placing, Waits
  <2> QED
    BY <2>1, <2>2 DEF Progress
<1>9. HandlersMove(x)
  BY <1>1, <1>3, <1>4 DEF HandlersMove, Owned, AtMicrophone
<1>10. ConnMoves(x) /\ CallIds(x)
  BY <1>2, <1>4, ConnStays DEF CallIds
<1>11. Post(x) /\ Books(x) /\ Dues(x)
  BY <1>1, <1>2, PostStays, BooksStay, DuesStay
<1> QED
  BY <1>5, <1>8, <1>9, <1>10, <1>11 DEF Moves

LEMMA InviteMoves ==
  ASSUME Sound, NEW x \in Clients, Read(x), ReadInvite(x, Head(mailbox[x]))
  PROVE  Moves(x)
<1>1. Typed /\ Owned /\ InHand(x)
  BY DEF Sound, Agreed, AllInHand
<1>2. PICK message : message = Head(mailbox[x]) /\ Taking(x, message)
  BY DEF Taking
<1>3. /\ mailbox[x] # <<>> /\ message \in Messages /\ message \in Mail(x)
      /\ calls' = calls /\ Post(x) /\ Books(x) /\ Dues(x)
  BY <1>1, <1>2, ReadingMoves, RestOfMail
<1>4. /\ message.type = "invite"
      /\ page' = [page EXCEPT ![x] =
           [page[x] EXCEPT !.peer = message.from, !.callId = message.callId,
                           !.offer = message.sdp, !.banner = TRUE]]
      /\ disturbed' = IF Busy(x) THEN disturbed \cup {<<x, "overlap">>} ELSE disturbed
      /\ UNCHANGED <<tasks, conn>>
  BY <1>1, <1>2 DEF ReadInvite, Typed, TypeOK
<1>5. /\ page'[x].peer = message.from /\ page'[x].callId = message.callId
      /\ page'[x].offer = message.sdp /\ page'[x].pc = page[x].pc
  <2>1. page[x] \in Pages
    BY <1>1 DEF Typed, TypeOK
  <2> QED
    BY <1>1, <1>4, <2>1 DEF Pages, Typed, TypeOK
<1>6. Brings(message, page'[x].offer)
  BY <1>4, <1>5 DEF Brings
<1>7. OthersStay(x)
  BY <1>1, ReadInHand
<1>8. ASSUME Calm(x)'
      PROVE  page'[x].pc = None /\ tasks'[x] = {}
  BY <1>4, <1>5, <1>8 DEF Calm, OneCallAtATime, Busy
<1>9. Progress(x)
  <2>1. Calm(x)' => Preparing(x)'
    BY <1>8 DEF Preparing
  <2>2. \A p \in Connections : Calm(x)' /\ Answering(x, p)' => Brings(message, p)
    BY <1>6, <1>8 DEF Answering
  <2>3. Staged(x)' /\ AnswersStill(x) /\ CallsStill(x) /\ AnsweredStill(x)
    BY <1>2, <1>7, <1>8, <2>1, <2>2, Beginning DEF OthersStay
  <2>4. NewStill(x)
    BY <1>8 DEF NewStill, Placing, Waits
  <2> QED
    BY <2>3, <2>4 DEF Progress
<1>10. HandlersMove(x)
  BY <1>1, <1>3, <1>4, <1>5, <1>6 DEF HandlersMove, Owned
<1>11. ConnMoves(x) /\ CallIds(x)
  BY <1>2, <1>3, <1>4, <1>5, ConnStays DEF CallIds
<1> QED
  BY <1>3, <1>7, <1>9, <1>10, <1>11 DEF Moves

-----------------------------------------------------------------------------
(***************************************************************************)
(* A connection is opened.                                                 *)
(***************************************************************************)

\* A calm page whose microphone is granted goes on with one handler.
LEMMA OpenedProgress ==
  ASSUME Sound, NEW x \in Clients, NEW task \in tasks[x], task.at \in AtMicrophone,
         NEW next, NEW p \in Connections,
         next.at \in {"offer", "remote offer"}, next.pc = p,
         task.at = "microphone" => next.at = "offer" /\ next.target = task.target,
         task.at # "microphone" => next.at = "remote offer" /\ next.sdp = page[x].offer,
         conn'[p].state = "open", conn'[p].local = "none", conn'[p].remote = None,
         page'[x].pc = p, page'[x].peer = page[x].peer, page'[x].callId = page[x].callId,
         page'[x].offer = page[x].offer, page'[x].banner = page[x].banner,
         tasks'[x] = (tasks[x] \ {task}) \cup {next},
         UNCHANGED <<mailbox, dialogs, leaving, disturbed>>
  PROVE  Progress(x)
<1>1. SUFFICES ASSUME Calm(x), Calm(x)'
               PROVE  Progress(x)
  BY CalmBefore DEF Progress, Staged, AnswersStill, CallsStill, AnsweredStill, NewStill,
         Caller, Callee, Placing
<1>2. InHand(x) /\ Staged(x) /\ OneCallAtATime(x)
  BY <1>1 DEF Sound, AllInHand, Agreed, Calm
<1>3. page[x].pc = None /\ tasks[x] = {task} /\ ~page[x].banner /\ Preparing(x)
  BY <1>1, <1>2 DEF InHand, Staged
<1>4. tasks'[x] = {next} /\ p # None
  BY <1>3, NoneIsNobodys
<1>5. Serves(x, next)'
  <2>1. next.at = "offer" => task.at = "microphone" /\ next.target = page'[x].peer
    BY <1>3 DEF Preparing
  <2>2. next.at = "offer" => ~Waits(x, "remote offer")'
    BY <1>4 DEF Waits
  <2> QED
    BY <2>1, <2>2 DEF Serves, AtMicrophone
<1>6. Staged(x)'
  <2>1. Waits(x, "offer")' => page'[x].callId # None /\ page'[x].peer # x
    BY <1>3, <1>4 DEF Waits, Preparing
  <2>2. page'[x].peer # None
    BY <1>3 DEF Preparing
  <2>3. Calling(x)'
    BY <1>4, <1>5, <2>1, <2>2 DEF Calling
  <2> QED
    BY <1>4, <2>3 DEF Staged
<1>7. AnswersStill(x)
  <2>1. ASSUME NEW q \in Connections, Answering(x, q)'
        PROVE  Answering(x, q)
    <3>1. next.at = "remote offer" /\ next.sdp = q
      <4>1. ~page'[x].banner /\ ~Waits(x, "microphone to answer")'
        BY <1>3, <1>4 DEF Waits
      <4>2. conn'[page'[x].pc].remote # q
        BY NoneIsNobodys
      <4> QED
        BY <1>4, <2>1, <4>1, <4>2 DEF Answering
    <3>2. task.at = "microphone to answer" /\ page[x].offer = q
      BY <3>1 DEF AtMicrophone
    <3> QED
      BY <3>2 DEF Answering, Waits
  <2> QED
    BY <2>1 DEF AnswersStill
<1>8. ~Caller(x)' /\ ~Callee(x)'
  BY DEF Caller, Callee
<1>9. NewStill(x)
  <2>1. Placing(x)' => Placing(x)
    BY <1>1, <1>3, <1>4 DEF Placing, Waits, AtMicrophone
  <2> QED
    BY <2>1, MailKept DEF NewStill
<1> QED
  BY <1>6, <1>7, <1>8, <1>9 DEF Progress, CallsStill, AnsweredStill

\* The handler that goes on once its connection is there.
GoesOnWith(x, task, next) ==
  /\ next.at \in {"offer", "remote offer"}
  /\ task.at = "microphone" => next.at = "offer" /\ next.target = task.target
  /\ task.at # "microphone" => next.at = "remote offer"
  /\ next.at = "remote offer" => next.sdp = page[x].offer

LEMMA OpenedMoves ==
  ASSUME Sound, NEW x \in Clients, OthersStay(x), NEW task \in tasks[x],
         task.at \in AtMicrophone, NEW first, Opened(x, task, first),
         \A q \in Connections : /\ GoesOnWith(x, task, [first EXCEPT !.pc = q])
                                /\ [first EXCEPT !.pc = q].pc = q,
         UNCHANGED <<mailbox, online, dialogs, leaving, calls, disturbed>>
  PROVE  Moves(x)
<1>1. Typed /\ Owned /\ NothingSaid /\ InHand(x)
  BY DEF Sound, Agreed, AllInHand
<1>2. PICK p \in Connections : Opens(x, task, first, p)
  BY <1>1, OpensOne
<1>3. PICK next :
        /\ tasks'[x] = (tasks[x] \ {task}) \cup {next} /\ next.pc = p
        /\ GoesOnWith(x, task, next)
  BY <1>2 DEF Opens
<1>4. /\ page'[x].pc = p /\ page'[x].peer = page[x].peer /\ page'[x].callId = page[x].callId
      /\ page'[x].offer = page[x].offer /\ page'[x].banner = page[x].banner
  <2>1. page[x] \in Pages
    BY <1>1 DEF Typed, TypeOK
  <2> QED
    BY <1>2, <2>1 DEF Opens, Pages
<1>5. Progress(x)
  <2>1. /\ next.at \in {"offer", "remote offer"}
        /\ task.at = "microphone" => next.at = "offer" /\ next.target = task.target
        /\ task.at # "microphone" => next.at = "remote offer" /\ next.sdp = page[x].offer
    BY <1>3 DEF GoesOnWith
  <2>2. /\ conn'[p].state = "open" /\ conn'[p].local = "none" /\ conn'[p].remote = None
    BY <1>2 DEF Opens
  <2> QED
    BY <1>3, <1>4, <2>1, <2>2, OpenedProgress
<1>6. HandlersMove(x)
  <2>1. p[1] = x
    BY <1>2 DEF Opens
  <2>2. \A other \in tasks'[x] : other \in tasks[x] \/ other = next
    BY <1>3
  <2>3. next.at # "remote answer" /\ (next.at = "remote offer" => next.sdp = page[x].offer)
    BY <1>3 DEF GoesOnWith, AtMicrophone
  <2> QED
    BY <1>3, <1>4, <2>1, <2>2, <2>3 DEF HandlersMove
<1>7. CallIds(x)
  BY <1>4 DEF CallIds
<1>8. Post(x) /\ Books(x) /\ Dues(x)
  BY <1>1, PostStays, BooksStay, DuesStay
<1> QED
  BY <1>2, <1>5, <1>6, <1>7, <1>8 DEF Opens, Moves

LEMMA MicrophoneMoves ==
  ASSUME Sound, NEW x \in Clients, NEW task \in tasks[x],
         MicrophoneToCall(x, task) \/ MicrophoneToAnswer(x, task)
  PROVE  Moves(x)
<1>1. OthersStay(x)
  BY MicrophoneGrantedInHand DEF Sound, AllInHand
<1>2. /\ UNCHANGED <<mailbox, online, dialogs, leaving, calls, disturbed>>
      /\ task.at \in AtMicrophone
  BY DEF MicrophoneToCall, MicrophoneToAnswer, AtMicrophone
<1>3. CASE MicrophoneToCall(x, task)
  <2> DEFINE first == [at |-> "offer", pc |-> None, target |-> task.target]
  <2>1. ASSUME NEW q, NEW target
        PROVE  /\ [[at |-> "offer", pc |-> None, target |-> target] EXCEPT !.pc = q].at = "offer"
               /\ [[at |-> "offer", pc |-> None, target |-> target] EXCEPT !.pc = q].pc = q
               /\ [[at |-> "offer", pc |-> None, target |-> target] EXCEPT !.pc = q].target
                    = target
    OBVIOUS
  <2>2. \A q : /\ [first EXCEPT !.pc = q].at = "offer" /\ [first EXCEPT !.pc = q].pc = q
               /\ [first EXCEPT !.pc = q].target = task.target
    BY <2>1
  <2>3. Opened(x, task, first) /\ task.at = "microphone"
    BY <1>3 DEF MicrophoneToCall
  <2> HIDE DEF first
  <2>4. \A q \in Connections : GoesOnWith(x, task, [first EXCEPT !.pc = q])
    BY <2>2, <2>3 DEF GoesOnWith
  <2> QED
    BY <1>1, <1>2, <2>2, <2>3, <2>4, OpenedMoves
<1>4. CASE MicrophoneToAnswer(x, task)
  <2> DEFINE first == [at |-> "remote offer", pc |-> None, sdp |-> page[x].offer]
  <2>1. ASSUME NEW q, NEW sdp
        PROVE  /\ [[at |-> "remote offer", pc |-> None, sdp |-> sdp] EXCEPT !.pc = q].at
                    = "remote offer"
               /\ [[at |-> "remote offer", pc |-> None, sdp |-> sdp] EXCEPT !.pc = q].pc = q
               /\ [[at |-> "remote offer", pc |-> None, sdp |-> sdp] EXCEPT !.pc = q].sdp = sdp
    OBVIOUS
  <2>2. \A q : /\ [first EXCEPT !.pc = q].at = "remote offer" /\ [first EXCEPT !.pc = q].pc = q
               /\ [first EXCEPT !.pc = q].sdp = page[x].offer
    BY <2>1
  <2>3. Opened(x, task, first) /\ task.at # "microphone"
    BY <1>4 DEF MicrophoneToAnswer
  <2> HIDE DEF first
  <2>4. \A q \in Connections : GoesOnWith(x, task, [first EXCEPT !.pc = q])
    BY <2>2, <2>3 DEF GoesOnWith
  <2> QED
    BY <1>1, <1>2, <2>2, <2>3, <2>4, OpenedMoves
<1> QED
  BY <1>3, <1>4

-----------------------------------------------------------------------------
(***************************************************************************)
(* Descriptions are set and sent.                                          *)
(***************************************************************************)

\* Functions that agree are the same.
LEMMA Extensionality ==
  ASSUME NEW a, NEW b, NEW fields,
         a = [i \in fields |-> a[i]], b = [i \in fields |-> b[i]],
         \A i \in fields : a[i] = b[i]
  PROVE  a = b
OBVIOUS

\* HandlersMove that hold the same are the same.
LEMMA SameTask ==
  ASSUME NEW a \in Tasks, NEW b \in Tasks, a.at = b.at, a.pc = b.pc,
         a.at \in {"offer", "remote offer", "candidates", "answer"},
         a.at = "offer" => a.target = b.target,
         a.at = "remote offer" => a.sdp = b.sdp
  PROVE  a = b
<1>1. CASE a.at = "offer"
  <2> DEFINE Kind   == [at : {"offer"}, pc : Connections, target : Clients]
             fields == {"at", "pc", "target"}
  <2>1. a \in Kind /\ b \in Kind
    BY <1>1 DEF Tasks
  <2>2. \A t \in Kind : t = [i \in fields |-> t[i]]
    OBVIOUS
  <2>3. \A i \in fields : a[i] = b[i]
    BY <1>1
  <2> HIDE DEF Kind, fields
  <2> QED
    BY <2>1, <2>2, <2>3, Extensionality
<1>2. CASE a.at = "remote offer"
  <2> DEFINE Kind   == [at : {"remote offer", "remote answer"}, pc : Connections,
                        sdp : Connections]
             fields == {"at", "pc", "sdp"}
  <2>1. a \in Kind /\ b \in Kind
    BY <1>2 DEF Tasks
  <2>2. \A t \in Kind : t = [i \in fields |-> t[i]]
    OBVIOUS
  <2>3. \A i \in fields : a[i] = b[i]
    BY <1>2
  <2> HIDE DEF Kind, fields
  <2> QED
    BY <2>1, <2>2, <2>3, Extensionality
<1>3. CASE a.at \in {"candidates", "answer"}
  <2> DEFINE Kind   == [at : {"candidates", "answer"}, pc : Connections]
             fields == {"at", "pc"}
  <2>1. a \in Kind /\ b \in Kind
    BY <1>3 DEF Tasks
  <2>2. \A t \in Kind : t = [i \in fields |-> t[i]]
    OBVIOUS
  <2>3. \A i \in fields : a[i] = b[i]
    OBVIOUS
  <2> HIDE DEF Kind, fields
  <2> QED
    BY <2>1, <2>2, <2>3, Extensionality
<1> QED
  BY <1>1, <1>2, <1>3

\* A calm page whose handler describes its connection has one handler that does;
\* the others, if any, bring answers.
LEMMA OneHandler ==
  ASSUME Sound, NEW x \in Clients, Calm(x), NEW task \in tasks[x],
         task.at \in {"offer", "remote offer", "candidates", "answer", "remote answer"}
  PROVE  /\ page[x].pc # None /\ Calling(x) /\ task.pc = page[x].pc /\ task.pc \in Connections
         /\ task.at # "remote answer" =>
              \A other \in tasks[x] \ {task} :
                other.at = "remote answer" /\ other.pc = page[x].pc
         /\ HasLocalOffer(task.pc) =>
              \A other \in tasks[x] : other.at = "remote answer" /\ other.pc = page[x].pc
<1>1. /\ Typed /\ Staged(x) /\ tasks[x] \subseteq Tasks
  BY DEF Sound, Agreed, Typed, TypeOK
<1>2. page[x].pc # None /\ Calling(x)
  BY <1>1 DEF Staged, Preparing, AtMicrophone
<1>3. \A other \in tasks[x] : Serves(x, other)
  BY <1>2 DEF Calling
<1>4. task.pc = page[x].pc /\ task.pc \in Connections
  BY <1>1, <1>2, <1>3 DEF Serves, Typed, TypeOK, Pages
<1>5. ASSUME NEW other \in tasks[x]
      PROVE  /\ other.pc = page[x].pc
             /\ other.at \in {"offer", "remote offer", "candidates", "answer",
                              "remote answer"}
  <2>1. other \in Tasks
    BY <1>1
  <2> QED
    BY <1>3, <2>1, TaskKinds DEF Serves, AtMicrophone
<1>6. ASSUME HasLocalOffer(task.pc), NEW other \in tasks[x]
      PROVE  other.at = "remote answer"
  BY <1>3, <1>4, <1>5, <1>6 DEF Serves, HasLocalOffer, HasRemoteOffer
<1>7. ASSUME NEW other \in tasks[x] \ {task}, task.at # "remote answer"
      PROVE  other.at = "remote answer"
  <2>1. other \in Tasks /\ task \in Tasks /\ Serves(x, other) /\ Serves(x, task)
    BY <1>1, <1>3
  <2>2. ASSUME other.at = task.at
        PROVE  FALSE
    BY <1>4, <1>5, <1>7, <2>1, <2>2, SameTask DEF Serves
  <2>3. ASSUME other.at # task.at, other.at # "remote answer"
        PROVE  FALSE
    <3>1. {"candidates", "answer"} \cap {other.at, task.at} = {}
      <4>1. ~(\E a, b \in tasks[x] : a.at = "candidates" /\ b.at = "answer")
        BY <1>3 DEF Serves, Waits
      <4> QED
        BY <1>4, <1>5, <1>7, <2>1, <2>3, <4>1 DEF Serves, HasRemoteOffer
    <3>2. \E a, b \in tasks[x] : a.at = "offer" /\ b.at = "remote offer" /\ Serves(x, a)
      BY <1>5, <1>7, <2>1, <2>3, <3>1
    <3> QED
      BY <3>2 DEF Serves, Waits
  <2> QED
    BY <2>2, <2>3
<1> QED
  BY <1>2, <1>4, <1>5, <1>6, <1>7

\* The page stays where it is, but for what it shows.
PageStays(x) ==
  /\ page'[x].peer = page[x].peer /\ page'[x].callId = page[x].callId
  /\ page'[x].pc = page[x].pc /\ page'[x].offer = page[x].offer
  /\ page'[x].banner = page[x].banner

\* A calm page on which nothing waits but answers is in a call.
LEMMA InCall ==
  ASSUME NEW x \in Clients, PageStays(x), page[x].pc # None, Calling(x),
         conn'[page[x].pc].state = "open",
         conn'[page[x].pc].local = "offer" => page[x].callId # None /\ page[x].peer # x,
         \A other \in tasks'[x] :
           /\ other.pc = page[x].pc
           /\ \/ other.at = "remote answer"
              \/ other.at \in {"candidates", "answer"} /\ HasRemoteOffer(page[x].pc)',
         ~(Waits(x, "candidates")' /\ Waits(x, "answer")')
  PROVE  Staged(x)' /\ ~Placing(x)'
<1>1. \A other \in tasks'[x] : Serves(x, other)'
  BY DEF Serves, AtMicrophone, PageStays, Waits
<1>2. ~Waits(x, "offer")' /\ ~Waits(x, "microphone")'
  BY DEF Waits
<1>3. Calling(x)'
  BY <1>1, <1>2 DEF Calling, PageStays
<1> QED
  BY <1>2, <1>3 DEF Staged, Placing, PageStays

\* The invite describes a connection of x, and the page stays in the call.
LEMMA Inviter ==
  ASSUME Sound, NEW x \in Clients, NEW task, Inviting(x, task)
  PROVE  /\ task.at = "offer" /\ task.pc \in Connections /\ task.pc[1] = x
         /\ task.target \in Clients /\ conn[task.pc].state = "open"
         /\ conn'[task.pc].state = "open" /\ conn'[task.pc].local = "offer"
         /\ conn'[task.pc].remote = conn[task.pc].remote
         /\ ConnMoves(x) /\ PageStays(x) /\ tasks'[x] = tasks[x] \ {task}
<1> DEFINE p == task.pc
<1>1. Typed /\ Owned /\ task \in tasks[x]
  BY DEF Sound, Agreed, Inviting
<1>2. task.at = "offer" /\ p \in Connections /\ p[1] = x /\ task.target \in Clients
  <2>1. task \in Tasks /\ task.at = "offer"
    BY <1>1 DEF Inviting, SendInvite, Typed, TypeOK
  <2> QED
    BY <1>1, <2>1, TaskKinds DEF Owned, AtMicrophone
<1>3. /\ conn[p].state = "open"
      /\ conn' = [conn EXCEPT ![p] = [conn[p] EXCEPT !.local = "offer"]]
      /\ page' = [page EXCEPT ![x] = [page[x] EXCEPT !.hangup = TRUE]]
      /\ tasks' = [tasks EXCEPT ![x] = @ \ {task}]
  BY <1>1, <1>2 DEF Inviting, SendInvite, Typed, TypeOK
<1>4. /\ conn'[p].state = "open" /\ conn'[p].local = "offer"
      /\ conn'[p].remote = conn[p].remote /\ ConnMoves(x)
  <2>1. conn[p] \in PeerConnections
    BY <1>1, <1>2 DEF Typed, TypeOK
  <2>2. conn'[p] = [conn[p] EXCEPT !.local = "offer"]
    BY <1>1, <1>2, <1>3, ConnChanges
  <2>3. /\ conn'[p].state = "open" /\ conn'[p].local = "offer"
        /\ conn'[p].remote = conn[p].remote
    BY <1>3, <2>1, <2>2 DEF PeerConnections
  <2>4. Changes(x, p)
    BY <1>2, <1>3, <2>3 DEF Changes
  <2> QED
    BY <1>1, <1>2, <1>3, <2>3, <2>4, OneConnMoves
<1>5. PageStays(x) /\ tasks'[x] = tasks[x] \ {task}
  <2>1. page[x] \in Pages /\ page'[x] = [page[x] EXCEPT !.hangup = TRUE]
    BY <1>1, <1>3 DEF Typed, TypeOK
  <2> QED
    BY <1>1, <1>3, <2>1 DEF PageStays, Pages, Typed, TypeOK
<1> QED
  BY <1>2, <1>3, <1>4, <1>5

LEMMA SendInviteMoves ==
  ASSUME Sound, NEW x \in Clients, NEW task \in tasks[x], SendInvite(x, task)
  PROVE  Moves(x)
<1> DEFINE p == task.pc
           k == page[x].callId
           message == [type |-> "invite", from |-> x, sdp |-> p, callId |-> k]
<1>1. Typed /\ Owned /\ InHand(x)
  BY DEF Sound, Agreed, AllInHand
<1>2. /\ mailbox' = Sent(x, task.target, message)
      /\ dialogs' = IF online[x] /\ Registered(task.target) /\ k # None
                    THEN [dialogs EXCEPT ![k] = {x, task.target}] ELSE dialogs
      /\ UNCHANGED <<online, leaving, calls, disturbed>>
  BY DEF SendInvite
<1>3. Inviting(x, task)
  BY DEF Inviting
<1>4. /\ task.at = "offer" /\ p \in Connections /\ task.target \in Clients
      /\ conn'[p].state = "open" /\ conn'[p].local = "offer" /\ ConnMoves(x)
      /\ PageStays(x) /\ tasks'[x] = tasks[x] \ {task}
  BY <1>3, Inviter
<1>5. OthersStay(x)
  BY <1>1, DescriptionInHand
<1>6. Progress(x)
  <2>1. SUFFICES ASSUME Calm(x), Calm(x)'
                 PROVE  Progress(x)
    BY <1>5, CalmBefore DEF OthersStay, Progress, Staged, AnswersStill, CallsStill,
       AnsweredStill, NewStill, Caller, Callee, Placing
  <2>2. /\ page[x].pc # None /\ Calling(x) /\ p = page[x].pc
        /\ \A other \in tasks'[x] : other.at = "remote answer" /\ other.pc = page[x].pc
    BY <1>4, <2>1, OneHandler
  <2>3. page[x].callId # None /\ page[x].peer # x
    BY <1>4, <2>2 DEF Calling, Waits
  <2>4. Staged(x)' /\ ~Placing(x)'
    BY <1>4, <2>2, <2>3, InCall DEF Waits
  <2>5. AnswersStill(x)
    <3>1. ASSUME NEW q \in Connections, Answering(x, q)'
          PROVE  Answering(x, q)
      BY <1>4, <2>2, <3>1 DEF Answering, Waits, PageStays
    <3> QED
      BY <1>4, <3>1 DEF AnswersStill, PageStays
  <2>6. CallsStill(x) /\ ~Callee(x)'
    BY <1>3, <1>4, <2>2 DEF CallsStill, Callee, PageStays
  <2> QED
    BY <2>4, <2>5, <2>6 DEF Progress, AnsweredStill, NewStill
<1>7. HandlersMove(x)
  BY <1>1, <1>4 DEF HandlersMove, Owned, PageStays
<1>8. CallIds(x)
  BY <1>2, <1>4 DEF CallIds, PageStays
<1>9. Post(x)
  <2>1. message \in Messages
    <3>1. k \in Calls \cup {None}
      BY <1>1 DEF Typed, TypeOK, Pages
    <3> QED
      BY <1>4, <3>1 DEF Messages
  <2>2. message.type = "invite" /\ message.callId = k /\ message.sdp = p
    OBVIOUS
  <2> HIDE DEF message
  <2>3. Posted(x, message)
    BY <1>3, <2>2 DEF Posted, Ends
  <2> QED
    BY <1>1, <1>2, <2>1, <2>3, PostSends
<1>10. Books(x)
  BY <1>1, <1>2, <1>3 DEF Books, Typed, TypeOK
<1>11. Dues(x)
  BY <1>2, DuesStay
<1> QED
  BY <1>4, <1>5, <1>6, <1>7, <1>8, <1>9, <1>10, <1>11 DEF Moves

\* So does the answer.
LEMMA Replier ==
  ASSUME Sound, NEW x \in Clients, NEW task, Replying(x, task)
  PROVE  /\ task.at = "answer" /\ task.pc \in Connections /\ task.pc[1] = x
         /\ conn[task.pc].state = "open" /\ HasRemoteOffer(task.pc)
         /\ conn'[task.pc].state = "open" /\ conn'[task.pc].local = "answer"
         /\ conn'[task.pc].remote = conn[task.pc].remote
         /\ ConnMoves(x) /\ PageStays(x) /\ tasks'[x] = tasks[x] \ {task}
<1> DEFINE p == task.pc
<1>1. Typed /\ Owned /\ task \in tasks[x]
  BY DEF Sound, Agreed, Replying
<1>2. task.at = "answer" /\ p \in Connections /\ p[1] = x
  <2>1. task \in Tasks /\ task.at = "answer"
    BY <1>1 DEF Replying, SendAnswer, Typed, TypeOK
  <2> QED
    BY <1>1, <2>1, TaskKinds DEF Owned, AtMicrophone
<1>3. /\ conn[p].state = "open" /\ HasRemoteOffer(p)
      /\ conn' = [conn EXCEPT ![p] = [conn[p] EXCEPT !.local = "answer"]]
      /\ page' = [page EXCEPT ![x] = Started(page[x])]
      /\ tasks' = [tasks EXCEPT ![x] = @ \ {task}]
  BY <1>1, <1>2 DEF Replying, SendAnswer, Typed, TypeOK
<1>4. /\ conn'[p].state = "open" /\ conn'[p].local = "answer"
      /\ conn'[p].remote = conn[p].remote /\ ConnMoves(x)
  <2>1. conn[p] \in PeerConnections
    BY <1>1, <1>2 DEF Typed, TypeOK
  <2>2. conn'[p] = [conn[p] EXCEPT !.local = "answer"]
    BY <1>1, <1>2, <1>3, ConnChanges
  <2>3. /\ conn'[p].state = "open" /\ conn'[p].local = "answer"
        /\ conn'[p].remote = conn[p].remote
    BY <1>3, <2>1, <2>2 DEF PeerConnections
  <2>4. Changes(x, p)
    BY <1>2, <1>3, <2>3 DEF Changes
  <2> QED
    BY <1>1, <1>2, <1>3, <2>3, <2>4, OneConnMoves
<1>5. PageStays(x) /\ tasks'[x] = tasks[x] \ {task}
  <2>1. page[x] \in Pages /\ page'[x] = Started(page[x])
    BY <1>1, <1>3 DEF Typed, TypeOK
  <2> QED
    BY <1>1, <1>3, <2>1 DEF PageStays, Started, Pages, Typed, TypeOK
<1> QED
  BY <1>2, <1>3, <1>4, <1>5

LEMMA SendAnswerMoves ==
  ASSUME Sound, NEW x \in Clients, NEW task \in tasks[x], SendAnswer(x, task)
  PROVE  Moves(x)
<1> DEFINE p == task.pc
           message == [type |-> "answer", from |-> x, sdp |-> p, callId |-> page[x].callId]
<1>1. Typed /\ Owned /\ InHand(x)
  BY DEF Sound, Agreed, AllInHand
<1>2. /\ mailbox' = Sent(x, page[x].peer, message)
      /\ UNCHANGED <<online, dialogs, leaving, calls, disturbed>>
  BY DEF SendAnswer
<1>3. Replying(x, task)
  BY DEF Replying
<1>4. /\ task.at = "answer" /\ p \in Connections /\ HasRemoteOffer(p)
      /\ conn'[p].state = "open" /\ conn'[p].local = "answer"
      /\ conn'[p].remote = conn[p].remote /\ ConnMoves(x)
      /\ PageStays(x) /\ tasks'[x] = tasks[x] \ {task}
  BY <1>3, Replier
<1>5. OthersStay(x)
  BY <1>1, DescriptionInHand
<1>6. Progress(x)
  <2>1. SUFFICES ASSUME Calm(x), Calm(x)'
                 PROVE  Progress(x)
    BY <1>5, CalmBefore DEF OthersStay, Progress, Staged, AnswersStill, CallsStill,
       AnsweredStill, NewStill, Caller, Callee, Placing
  <2>2. /\ page[x].pc # None /\ Calling(x) /\ p = page[x].pc
        /\ \A other \in tasks'[x] : other.at = "remote answer" /\ other.pc = page[x].pc
    BY <1>4, <2>1, OneHandler
  <2>3. Staged(x)' /\ ~Placing(x)'
    BY <1>4, <2>2, InCall DEF Waits
  <2>4. AnswersStill(x)
    <3>1. ASSUME NEW q \in Connections, Answering(x, q)'
          PROVE  Answering(x, q)
      BY <1>4, <2>2, <3>1 DEF Answering, Waits, PageStays, HasRemoteOffer
    <3> QED
      BY <1>4, <3>1 DEF AnswersStill, PageStays
  <2>5. ~Caller(x)' /\ AnsweredStill(x)
    BY <1>3, <1>4, <2>2 DEF AnsweredStill, Caller, PageStays
  <2> QED
    BY <2>3, <2>4, <2>5 DEF Progress, CallsStill, NewStill
<1>7. HandlersMove(x)
  BY <1>1, <1>4 DEF HandlersMove, Owned, PageStays
<1>8. CallIds(x)
  BY <1>2, <1>4 DEF CallIds, PageStays
<1>9. Post(x)
  <2>1. message \in Messages
    <3>1. page[x].callId \in Calls \cup {None}
      BY <1>1 DEF Typed, TypeOK, Pages
    <3> QED
      BY <1>4, <3>1 DEF Messages
  <2>2. message.type = "answer" /\ message.callId = page[x].callId /\ message.sdp = p
    OBVIOUS
  <2> HIDE DEF message
  <2>3. Posted(x, message)
    BY <1>3, <2>2 DEF Posted, Ends
  <2> QED
    BY <1>1, <1>2, <2>1, <2>3, PostSends
<1>10. Books(x) /\ Dues(x)
  BY <1>1, <1>2, BooksStay, DuesStay
<1> QED
  BY <1>4, <1>5, <1>6, <1>7, <1>8, <1>9, <1>10 DEF Moves

\* A remote description is set on a connection of x.
LEMMA RemoteMoves ==
  ASSUME Typed, Owned, NEW x \in Clients, NEW task \in tasks[x],
         task.at \in {"remote offer", "remote answer"}, conn[task.pc].state = "open",
         conn' = WithRemote(x, task.pc, task.sdp)
  PROVE  /\ task.pc \in Connections /\ task.sdp \in Connections
         /\ conn'[task.pc].state = "open" /\ conn'[task.pc].local = conn[task.pc].local
         /\ conn'[task.pc].remote = task.sdp
         /\ ConnMoves(x)
         /\ PageStays(x) <=> /\ page'[x].peer = WithTrack(x).peer
                             /\ page'[x].callId = WithTrack(x).callId
                             /\ page'[x].pc = WithTrack(x).pc
                             /\ page'[x].offer = WithTrack(x).offer
                             /\ page'[x].banner = WithTrack(x).banner
<1>1. task.pc \in Connections /\ task.sdp \in Connections
  BY TaskKinds DEF Typed, TypeOK
<1>2. task.pc[1] = x
  BY DEF Owned, AtMicrophone
<1>3. /\ conn'[task.pc].state = "open" /\ conn'[task.pc].local = conn[task.pc].local
      /\ conn'[task.pc].remote = task.sdp
      /\ \A q \in Connections \ {task.pc} : Same(q)
  BY <1>1, RemoteSet
<1>4. Changes(x, task.pc)
  BY <1>2, <1>3 DEF Changes
<1>5. ConnMoves(x)
  BY <1>3, <1>4 DEF ConnMoves
<1>6. /\ WithTrack(x).peer = page[x].peer /\ WithTrack(x).callId = page[x].callId
      /\ WithTrack(x).pc = page[x].pc /\ WithTrack(x).offer = page[x].offer
      /\ WithTrack(x).banner = page[x].banner
  <2>1. page[x] \in Pages
    BY DEF Typed, TypeOK
  <2> QED
    BY <2>1 DEF WithTrack, Started, Pages
<1> QED
  BY <1>1, <1>3, <1>5, <1>6 DEF PageStays

LEMMA RemoteOfferMoves ==
  ASSUME Sound, NEW x \in Clients, NEW task \in tasks[x], RemoteOfferSet(x, task)
  PROVE  Moves(x)
<1> DEFINE p == task.pc
<1>1. Typed /\ Owned /\ InHand(x)
  BY DEF Sound, Agreed, AllInHand
<1>2. /\ task.at = "remote offer" /\ conn[p].state = "open"
      /\ conn' = WithRemote(x, p, task.sdp)
      /\ UNCHANGED <<mailbox, online, dialogs, leaving, calls, disturbed>>
  BY DEF RemoteOfferSet
<1>3. /\ p \in Connections /\ task.sdp \in Connections
      /\ conn'[p].state = "open" /\ conn'[p].local = conn[p].local
      /\ conn'[p].remote = task.sdp /\ ConnMoves(x)
  BY <1>1, <1>2, RemoteMoves
<1>4. DEFINE next == [at |-> "candidates", pc |-> p]
<1>5. page'[x] = WithTrack(x) /\ tasks'[x] = (tasks[x] \ {task}) \cup {next}
  BY <1>1 DEF RemoteOfferSet, Typed, TypeOK
<1>6. next.at = "candidates" /\ next.pc = p
  OBVIOUS
<1> HIDE DEF next
<1>7. PageStays(x)
  BY <1>1, <1>2, <1>5, RemoteMoves
<1>8. OthersStay(x)
  BY <1>1, DescriptionInHand
<1>9. Progress(x)
  <2>1. SUFFICES ASSUME Calm(x), Calm(x)'
                 PROVE  Progress(x)
    BY <1>8, CalmBefore DEF OthersStay, Progress, Staged, AnswersStill, CallsStill,
       AnsweredStill, NewStill, Caller, Callee, Placing
  <2>2. /\ Calling(x) /\ p = page[x].pc /\ page[x].pc # None
        /\ \A other \in tasks[x] \ {task} :
             other.at = "remote answer" /\ other.pc = page[x].pc
    BY <1>2, <2>1, OneHandler
  <2>3. conn[p].local = "none"
    BY <1>2, <2>2 DEF Calling, Serves
  <2>4. HasRemoteOffer(page[x].pc)'
    BY <1>3, <1>7, <2>2, <2>3, NoneIsNobodys DEF HasRemoteOffer, PageStays
  <2>5. ~Waits(x, "answer")'
    BY <1>5, <1>6, <2>2 DEF Waits
  <2>6. Staged(x)' /\ ~Placing(x)'
    BY <1>3, <1>5, <1>6, <1>7, <2>2, <2>3, <2>4, <2>5, InCall
  <2>7. AnswersStill(x)
    <3>1. ASSUME NEW q \in Connections, Answering(x, q)'
          PROVE  Answering(x, q)
      <4>1. \A at : at # "candidates" /\ Waits(x, at)' => Waits(x, at)
        BY <1>5, <1>6 DEF Waits
      <4>2. CASE page'[x].offer = q /\ (page'[x].banner \/ Waits(x, "microphone to answer")')
        BY <1>7, <4>1, <4>2 DEF Answering, PageStays
      <4>3. CASE \E other \in tasks'[x] : other.at = "remote offer" /\ other.sdp = q
        BY <1>5, <1>6, <4>3 DEF Answering
      <4>4. CASE conn'[page'[x].pc].remote = q
        BY <1>2, <1>3, <1>7, <2>2, <4>4 DEF Answering, PageStays
      <4> QED
        BY <3>1, <4>2, <4>3, <4>4 DEF Answering
    <3> QED
      BY <1>7, <3>1 DEF AnswersStill, PageStays
  <2>8. ~Caller(x)' /\ ~Callee(x)'
    BY <1>3, <1>7, <2>2, <2>3 DEF Caller, Callee, PageStays
  <2> QED
    BY <2>6, <2>7, <2>8 DEF Progress, CallsStill, AnsweredStill, NewStill
<1>10. HandlersMove(x)
  <2>1. p[1] = x
    BY <1>1, <1>2 DEF Owned, AtMicrophone
  <2> QED
    BY <1>1, <1>5, <1>6, <1>7, <2>1 DEF HandlersMove, Owned, PageStays
<1>11. CallIds(x)
  BY <1>2, <1>7 DEF CallIds, PageStays
<1> QED
  BY <1>1, <1>2, <1>3, <1>8, <1>9, <1>10, <1>11, PostStays, BooksStay, DuesStay DEF Moves

\* The answer is asked of the connection of the page.
LEMMA FlushedMoves ==
  ASSUME Sound, NEW x \in Clients, NEW task \in tasks[x], CandidatesFlushed(x, task)
  PROVE  Moves(x)
<1> DEFINE next == [at |-> "answer", pc |-> page[x].pc]
<1>1. Typed /\ Owned /\ InHand(x)
  BY DEF Sound, Agreed, AllInHand
<1>2. /\ task.at = "candidates" /\ page[x].pc # None
      /\ tasks'[x] = (tasks[x] \ {task}) \cup {next}
      /\ UNCHANGED <<page, conn, mailbox, online, dialogs, leaving, calls, disturbed>>
  BY <1>1 DEF CandidatesFlushed, Typed, TypeOK
<1>3. next.at = "answer" /\ next.pc = page[x].pc
  OBVIOUS
<1> HIDE DEF next
<1>4. PageStays(x)
  BY <1>2 DEF PageStays
<1>5. OthersStay(x)
  BY <1>1, DescriptionInHand
<1>6. Progress(x)
  <2>1. SUFFICES ASSUME Calm(x), Calm(x)'
                 PROVE  Progress(x)
    BY <1>5, CalmBefore DEF OthersStay, Progress, Staged, AnswersStill, CallsStill,
       AnsweredStill, NewStill, Caller, Callee, Placing
  <2>2. /\ Calling(x) /\ task.pc = page[x].pc
        /\ \A other \in tasks[x] \ {task} :
             other.at = "remote answer" /\ other.pc = page[x].pc
    BY <1>2, <2>1, OneHandler
  <2>3. HasRemoteOffer(page[x].pc)
    BY <1>2, <2>2 DEF Calling, Serves
  <2>4. HasRemoteOffer(page[x].pc)' /\ conn[page[x].pc].state = "open"
    BY <1>2, <2>2, <2>3 DEF HasRemoteOffer, Calling
  <2>5. ~Waits(x, "candidates")'
    BY <1>2, <1>3, <2>2 DEF Waits
  <2>6. conn[page[x].pc].local = "none"
    BY <2>3 DEF HasRemoteOffer
  <2>7. Staged(x)' /\ ~Placing(x)'
    BY <1>2, <1>3, <1>4, <2>2, <2>4, <2>5, <2>6, InCall
  <2>8. AnswersStill(x)
    <3>1. ASSUME NEW q \in Connections, Answering(x, q)'
          PROVE  Answering(x, q)
      <4>1. \A at : at # "answer" /\ Waits(x, at)' => Waits(x, at)
        BY <1>2, <1>3 DEF Waits
      <4> QED
        BY <1>2, <1>3, <3>1, <4>1 DEF Answering
    <3> QED
      BY <1>2, <3>1 DEF AnswersStill
  <2>9. ~Caller(x)' /\ ~Callee(x)'
    BY <1>2, <2>6 DEF Caller, Callee
  <2> QED
    BY <2>7, <2>8, <2>9 DEF Progress, CallsStill, AnsweredStill, NewStill
<1>7. HandlersMove(x)
  BY <1>1, <1>2, <1>3 DEF HandlersMove, Owned
<1>8. CallIds(x)
  BY <1>2 DEF CallIds
<1> QED
  BY <1>1, <1>2, <1>5, <1>6, <1>7, <1>8, ConnStays, PostStays, BooksStay, DuesStay DEF Moves

LEMMA RemoteAnswerMoves ==
  ASSUME Sound, NEW x \in Clients, NEW task \in tasks[x], RemoteAnswerSet(x, task),
         HasLocalOffer(task.pc)
  PROVE  Moves(x)
<1> DEFINE p == task.pc
<1>1. Typed /\ Owned /\ InHand(x)
  BY DEF Sound, Agreed, AllInHand
<1>2. /\ task.at = "remote answer" /\ conn[p].state = "open"
      /\ conn' = WithRemote(x, p, task.sdp)
      /\ page' = [page EXCEPT ![x] = WithTrack(x)]
      /\ tasks' = [tasks EXCEPT ![x] = @ \ {task}]
      /\ UNCHANGED <<mailbox, online, dialogs, leaving, calls, disturbed>>
  BY DEF RemoteAnswerSet
<1>3. /\ p \in Connections
      /\ conn'[p].state = "open" /\ conn'[p].local = conn[p].local
      /\ conn'[p].remote = task.sdp /\ ConnMoves(x)
  BY <1>1, <1>2, RemoteMoves
<1>4. page'[x] = WithTrack(x) /\ tasks'[x] = tasks[x] \ {task}
  BY <1>1, <1>2 DEF Typed, TypeOK
<1>5. PageStays(x)
  BY <1>1, <1>2, <1>4, RemoteMoves
<1>6. OthersStay(x)
  BY <1>1, DescriptionInHand
<1>7. Progress(x)
  <2>1. SUFFICES ASSUME Calm(x), Calm(x)'
                 PROVE  Progress(x)
    BY <1>6, CalmBefore DEF OthersStay, Progress, Staged, AnswersStill, CallsStill,
       AnsweredStill, NewStill, Caller, Callee, Placing
  <2>2. /\ page[x].pc # None /\ Calling(x) /\ p = page[x].pc
        /\ \A other \in tasks'[x] : other.at = "remote answer" /\ other.pc = page[x].pc
    BY <1>2, <1>4, <2>1, OneHandler
  <2>3. conn[p].local = "offer"
    BY DEF HasLocalOffer
  <2>4. page[x].callId # None /\ page[x].peer # x
    BY <2>2, <2>3 DEF Calling
  <2>5. Staged(x)' /\ ~Placing(x)'
    BY <1>3, <1>5, <2>2, <2>4, InCall DEF Waits
  <2>6. AnswersStill(x)
    <3>1. ASSUME NEW q \in Connections, Answering(x, q)'
          PROVE  Answering(x, q)
      BY <1>3, <1>4, <1>5, <2>2, <2>3, <3>1 DEF Answering, Waits, PageStays
    <3> QED
      BY <1>5, <3>1 DEF AnswersStill, PageStays
  <2>7. CallsStill(x)
    <3>1. Caller(x)
      BY <2>1, <2>2, <2>3 DEF Caller
    <3> QED
      BY <1>2, <1>3, <1>5, <2>2, <3>1 DEF CallsStill, PageStays
  <2>8. ~Callee(x)'
    BY <1>3, <1>5, <2>2, <2>3 DEF Callee, PageStays
  <2> QED
    BY <2>5, <2>6, <2>7, <2>8 DEF Progress, AnsweredStill, NewStill
<1>8. HandlersMove(x) /\ CallIds(x)
  BY <1>1, <1>2, <1>4, <1>5 DEF HandlersMove, Owned, PageStays, CallIds
<1>9. Post(x) /\ Books(x) /\ Dues(x)
  BY <1>1, <1>2, PostStays, BooksStay, DuesStay
<1> QED
  BY <1>3, <1>6, <1>7, <1>8, <1>9 DEF Moves

\* Every action is a move.
LEMMA StepMoves ==
  ASSUME Sound, NEW x \in Clients, Acts(x)
  PROVE  Moves(x)
<1>1. ASSUME NEW task \in tasks[x], Resume(x, task)
      PROVE  Moves(x)
  <2>1. CASE MicrophoneToCall(x, task) \/ MicrophoneToAnswer(x, task)
    BY <2>1, MicrophoneMoves
  <2>2. CASE MicrophoneRefused(x, task) \/ SetUpFails(x, task)
    BY <2>2, FailureMoves
  <2>3. CASE SendInvite(x, task)
    BY <2>3, SendInviteMoves
  <2>4. CASE SendAnswer(x, task)
    BY <2>4, SendAnswerMoves
  <2>5. CASE RemoteOfferSet(x, task)
    BY <2>5, RemoteOfferMoves
  <2>6. CASE RemoteAnswerSet(x, task)
    BY <2>6, RemoteAnswerMoves, HandlerLeaves
  <2>7. CASE SetUpHangs(x, task)
    BY <2>7, HandlerLeaves
  <2>8. CASE CandidatesFlushed(x, task)
    BY <2>8, FlushedMoves
  <2> QED
    BY <1>1, <2>1, <2>2, <2>3, <2>4, <2>5, <2>6, <2>7, <2>8 DEF Resume
<1>2. ASSUME Read(x)
      PROVE  Moves(x)
  <2>1. \/ ReadInvite(x, Head(mailbox[x])) \/ ReadAnswer(x, Head(mailbox[x]))
        \/ ReadCandidate(x, Head(mailbox[x])) \/ ReadBye(x, Head(mailbox[x]))
    BY <1>2 DEF Read
  <2> QED
    BY <1>2, <2>1, InviteMoves, AnswerOrCandidateMoves, ByeMoves
<1> QED
  BY <1>1, <1>2, ClickCallMoves, ClickAnswerMoves, RejectMoves, HangUpMoves, FailureMoves,
     DropMoves, WebMoves, LeaveMoves DEF Acts

-----------------------------------------------------------------------------
(***************************************************************************)
(* What a move keeps: ownership, silence, numbers, and the stage that each *)
(* page is at.                                                             *)
(***************************************************************************)

\* A message was in the mail or has been posted.
LEMMA MailGrows ==
  ASSUME Typed, NEW x \in Clients, Post(x)
  PROVE  \A d \in Clients : \A message \in Mail(d)' :
           message \in Mail(d) \/ Posted(x, message)
<1> SUFFICES ASSUME NEW d \in Clients, NEW message \in Mail(d)', message \notin Mail(d)
             PROVE  Posted(x, message)
  OBVIOUS
<1>1. CASE Grows(x, d)
  <2>1. PICK new \in Seq(Messages) :
          mailbox'[d] = mailbox[d] \o new /\ \A i \in DOMAIN new : Posted(x, new[i])
    BY <1>1 DEF Grows
  <2>2. mailbox[d] \in Seq(Messages)
    BY DEF Typed, TypeOK
  <2>3. message \in Range(new)
    BY <2>1, <2>2, Grown DEF Mail
  <2> QED
    BY <2>1, <2>3 DEF Range
<1>2. CASE d = x /\ Read(x)
  <2>1. mailbox[x] # <<>> /\ mailbox' = [mailbox EXCEPT ![x] = Tail(@)]
    BY <1>2 DEF Read
  <2>2. mailbox'[x] = Tail(mailbox[x])
    BY <2>1 DEF Typed, TypeOK
  <2> QED
    BY <1>2, <2>1, <2>2, RestOfMail DEF Mail
<1>3. CASE d = x /\ Drop(x)
  BY <1>3, Dropped
<1> QED
  BY <1>1, <1>2, <1>3 DEF Post

\* A description that is posted is of a connection of the sender that has been given
\* it just now.
LEMMA PostedDescription ==
  ASSUME Sound, NEW x \in Clients, NEW message, Posted(x, message),
         message.type \in {"invite", "answer"}
  PROVE  /\ message.sdp \in Connections /\ message.sdp[1] = x
         /\ conn'[message.sdp].local # "none" /\ message.callId = page[x].callId
         /\ Calm(x) => message.sdp = page[x].pc /\ conn[message.sdp].local = "none"
<1>1. CASE message.type = "invite"
  <2>1. PICK task : Inviting(x, task) /\ message.sdp = task.pc
    BY <1>1 DEF Posted
  <2>2. /\ task.at = "offer" /\ task.pc \in Connections /\ task.pc[1] = x
        /\ conn'[task.pc].local = "offer"
    BY <2>1, Inviter
  <2>3. ASSUME Calm(x)
        PROVE  task.pc = page[x].pc /\ conn[task.pc].local = "none"
    <3>1. task \in tasks[x]
      BY <2>1 DEF Inviting
    <3>2. Calling(x) /\ task.pc = page[x].pc
      BY <2>2, <2>3, <3>1, OneHandler
    <3> QED
      BY <2>2, <3>1, <3>2 DEF Calling, Serves
  <2> QED
    BY <1>1, <2>1, <2>2, <2>3 DEF Posted
<1>2. CASE message.type = "answer"
  <2>1. PICK task : Replying(x, task) /\ message.sdp = task.pc
    BY <1>2 DEF Posted
  <2>2. /\ task.at = "answer" /\ task.pc \in Connections /\ task.pc[1] = x
        /\ conn'[task.pc].local = "answer" /\ HasRemoteOffer(task.pc)
    BY <2>1, Replier
  <2>3. ASSUME Calm(x)
        PROVE  task.pc = page[x].pc /\ conn[task.pc].local = "none"
    <3>1. task \in tasks[x]
      BY <2>1 DEF Replying
    <3> QED
      BY <2>2, <2>3, <3>1, OneHandler DEF HasRemoteOffer
  <2> QED
    BY <1>2, <2>1, <2>2, <2>3 DEF Posted
<1> QED
  BY <1>1, <1>2

LEMMA OwnedKept ==
  ASSUME Sound, NEW x \in Clients, Moves(x)
  PROVE  Owned'
<1>1. Owned
  BY DEF Sound, Agreed
<1>2. ASSUME NEW d \in Clients \ {x}
      PROVE  page'[d] = page[d] /\ tasks'[d] = tasks[d]
  BY DEF Moves, OthersStay
<1>3. /\ page'[x].pc # None => page'[x].pc[1] = x
      /\ \A task \in tasks'[x] : task.at \notin AtMicrophone => task.pc[1] = x
  BY <1>1 DEF Moves, HandlersMove, Owned
<1>4. ASSUME NEW d \in Clients
      PROVE  /\ page'[d].pc # None => page'[d].pc[1] = d
             /\ \A task \in tasks'[d] : task.at \notin AtMicrophone => task.pc[1] = d
  <2>1. CASE d = x
    BY <1>3, <2>1
  <2>2. CASE d # x
    BY <1>1, <1>2, <2>2 DEF Owned
  <2> QED
    BY <2>1, <2>2
<1> QED
  BY <1>4 DEF Owned

\* A connection that has not described itself had not before.
LEMMA UndescribedBefore ==
  ASSUME Sound, NEW x \in Clients, ConnMoves(x), NEW p \in Connections, Undescribed(p)'
  PROVE  Undescribed(p) /\ Unsaid(p)
<1>1. Same(p) \/ Changes(x, p)
  BY DEF ConnMoves
<1>2. Undescribed(p)
  BY <1>1 DEF Undescribed, Same, Changes
<1> QED
  BY <1>2 DEF Sound, Agreed, NothingSaid

LEMMA NothingSaidKept ==
  ASSUME Sound, NEW x \in Clients, Moves(x)
  PROVE  NothingSaid'
<1>1. Typed /\ NothingSaid /\ ConnMoves(x) /\ HandlersMove(x) /\ Post(x)
  BY DEF Sound, Agreed, Moves
<1>2. ASSUME NEW p \in Connections, Undescribed(p)'
      PROVE  Unsaid(p)'
  <2>1. Unsaid(p) /\ conn'[p].local = "none" /\ p # None
    BY <1>1, <1>2, UndescribedBefore, NoneIsNobodys DEF Undescribed
  <2>2. ASSUME NEW d \in Clients, NEW message \in Mail(d)',
               message.type \in {"invite", "answer"}
        PROVE  message.sdp # p
    <3>1. CASE message \in Mail(d)
      BY <2>1, <2>2, <3>1 DEF Unsaid
    <3>2. CASE Posted(x, message)
      BY <2>1, <2>2, <3>2, PostedDescription
    <3> QED
      BY <1>1, <3>1, <3>2, MailGrows
  <2>3. ASSUME NEW d \in Clients
        PROVE  /\ page'[d].offer # p
               /\ \A task \in tasks'[d] :
                    task.at \in {"remote offer", "remote answer"} => task.sdp # p
    <3>1. CASE d # x
      <4>1. page'[d] = page[d] /\ tasks'[d] = tasks[d]
        BY <3>1 DEF Moves, OthersStay
      <4> QED
        BY <2>1, <4>1 DEF Unsaid
    <3>2. CASE d = x
      <4>1. page'[x].offer # p
        BY <1>1, <2>1 DEF HandlersMove, Unsaid, Brings
      <4>2. \A task \in tasks'[x] :
              task.at \in {"remote offer", "remote answer"} => task.sdp # p
        BY <1>1, <2>1 DEF HandlersMove, Unsaid, AtMicrophone
      <4> QED
        BY <3>2, <4>1, <4>2
    <3> QED
      BY <3>1, <3>2
  <2>4. ASSUME NEW q \in Connections
        PROVE  conn'[q].remote # p
    <3>1. conn[q].remote # p
      BY <2>1 DEF Unsaid
    <3>2. \A task \in tasks[x] :
            task.at \in {"remote offer", "remote answer"} => task.sdp # p
      BY <2>1 DEF Unsaid
    <3>3. Same(q) \/ Changes(x, q)
      BY <1>1 DEF ConnMoves
    <3> QED
      BY <2>1, <3>1, <3>2, <3>3 DEF Same, Changes
  <2> QED
    BY <2>2, <2>3, <2>4 DEF Unsaid
<1>3. ASSUME NEW p \in Connections, conn'[p].state = "none"
      PROVE  conn'[p].local = "none" /\ conn'[p].remote = None
  <2>1. Same(p) \/ Changes(x, p)
    BY <1>1 DEF ConnMoves
  <2>2. Same(p)
    BY <1>3, <2>1 DEF Changes
  <2> QED
    BY <1>1, <1>3, <2>2 DEF Same, NothingSaid
<1> QED
  BY <1>2, <1>3 DEF NothingSaid

\* A page takes a call id from the mail, or makes one up.
LEMMA TakenCall ==
  ASSUME Typed, NEW x \in Clients, NEW message, Taking(x, message)
  PROVE  /\ message \in Mail(x) /\ message.type = "invite"
         /\ mailbox[x] # <<>> /\ message = Head(mailbox[x])
         /\ mailbox'[x] = Tail(mailbox[x])
         /\ page'[x].peer = message.from /\ page'[x].callId = message.callId
         /\ page'[x].pc = page[x].pc /\ tasks' = tasks /\ conn' = conn
         /\ UNCHANGED dialogs
<1>1. /\ mailbox[x] # <<>> /\ message = Head(mailbox[x])
      /\ mailbox' = [mailbox EXCEPT ![x] = Tail(@)] /\ UNCHANGED dialogs
      /\ ReadInvite(x, message)
  BY DEF Taking, Read
<1>2. mailbox'[x] = Tail(mailbox[x])
  BY <1>1 DEF Typed, TypeOK
<1>3. /\ page'[x] = [page[x] EXCEPT !.peer = message.from, !.callId = message.callId,
                                    !.offer = message.sdp, !.banner = TRUE]
      /\ message.type = "invite" /\ tasks' = tasks /\ conn' = conn
  BY <1>1 DEF ReadInvite, Typed, TypeOK
<1>4. page[x] \in Pages
  BY DEF Typed, TypeOK
<1> QED
  BY <1>1, <1>2, <1>3, <1>4, RestOfMail DEF Pages

LEMMA NumberedKept ==
  ASSUME Sound, Typed', NEW x \in Clients, Moves(x)
  PROVE  Numbered'
<1>1. /\ Typed /\ Numbered /\ calls \in Nat /\ calls' \in {calls, calls + 1}
      /\ CallIds(x) /\ Post(x) /\ Books(x) /\ Dues(x)
  BY CallSetupAssumption DEF Sound, Agreed, Moves, CallIds, Typed, TypeOK
<1>2. \A k \in Calls : k <= calls => k <= calls'
  <2>1. Calls \subseteq Nat
    BY CallSetupAssumption DEF Calls
  <2> QED
    BY <1>1, <2>1
<1>3. \A d \in Clients : \A message \in Mail(d) :
        message.type # "ice" => message.callId \in Calls \cup {None}
  <2>1. \A message \in Messages :
          message.type # "ice" => message.callId \in Calls \cup {None}
    BY DEF Messages
  <2>2. \A d \in Clients : Mail(d) \subseteq Messages
    BY DEF Mail, Range, Typed, TypeOK, Sound
  <2> QED
    BY <2>1, <2>2
<1>4. \A d \in Clients : page[d].callId \in Calls \cup {None}
  BY <1>1 DEF Typed, TypeOK, Pages
<1>5. page[x].callId # None => page[x].callId <= calls'
  BY <1>1, <1>2, <1>4 DEF Numbered
<1>6. ASSUME NEW d \in Clients, page'[d].callId # None
      PROVE  page'[d].callId <= calls'
  <2>1. CASE d # x
    <3>1. page'[d] = page[d]
      BY <2>1 DEF Moves, OthersStay
    <3> QED
      BY <1>1, <1>2, <1>4, <1>6, <3>1 DEF Numbered
  <2>2. CASE d = x
    <3>1. CASE page'[x].callId \in {page[x].callId, None}
      BY <1>5, <1>6, <2>2, <3>1
    <3>2. CASE page'[x].callId = calls + 1 /\ calls' = calls + 1
      BY <1>1, <2>2, <3>2
    <3>3. ASSUME NEW message, Taking(x, message)
          PROVE  page'[d].callId <= calls'
      <4>1. /\ message \in Mail(x) /\ message.type = "invite"
            /\ page'[x].callId = message.callId
        BY <1>1, <3>3, TakenCall
      <4> QED
        BY <1>1, <1>2, <1>3, <1>6, <2>2, <4>1 DEF Numbered
    <3> QED
      BY <1>1, <3>1, <3>2, <3>3 DEF CallIds
  <2> QED
    BY <2>1, <2>2
<1>7. ASSUME NEW d \in Clients, NEW message \in Mail(d)',
             message.type # "ice", message.callId # None
      PROVE  message.callId <= calls'
  <2>1. CASE message \in Mail(d)
    BY <1>1, <1>2, <1>3, <1>7, <2>1 DEF Numbered
  <2>2. CASE Posted(x, message)
    <3>1. message.type \in {"invite", "answer"} \cup Ends
      <4>1. mailbox'[d] \in Seq(Messages)
        BY DEF Typed, TypeOK
      <4> QED
        BY <1>7, <4>1 DEF Messages, Mail, Range
    <3>2. \/ message.callId = page[x].callId
          \/ /\ message.callId \in Calls
             /\ dialogs[message.callId] # {} \/ Owing(message.callId)
      BY <2>2, <3>1 DEF Posted
    <3> QED
      BY <1>1, <1>2, <1>5, <1>7, <3>2 DEF Numbered
  <2> QED
    BY <1>1, <2>1, <2>2, MailGrows
<1>8. ASSUME NEW k \in Calls, dialogs'[k] # {} \/ Owing(k)'
      PROVE  k <= calls'
  <2>1. dialogs[k] # {} \/ Owing(k) \/ k = page[x].callId
    BY <1>1, <1>8 DEF Books, Dues
  <2> QED
    BY <1>1, <1>2, <1>5, <2>1, NoneIsNobodys DEF Numbered
<1> QED
  BY <1>6, <1>7, <1>8 DEF Numbered

\* What x does is nothing to another client.
LEMMA OthersKeep ==
  ASSUME Sound, NEW x \in Clients, Moves(x), NEW d \in Clients \ {x}
  PROVE  /\ page'[d] = page[d] /\ tasks'[d] = tasks[d]
         /\ page[d].pc # None => page[d].pc \in Connections /\ Same(page[d].pc)
         /\ Calm(d)' => Calm(d)
         /\ Placing(d)' => Placing(d)
         /\ Staged(d)' /\ AnswersStill(d) /\ CallsStill(d) /\ AnsweredStill(d)
<1>1. /\ Typed /\ Owned /\ Staged(d) /\ ConnMoves(x) /\ disturbed \subseteq disturbed'
      /\ page'[d] = page[d] /\ tasks'[d] = tasks[d]
  BY DEF Sound, Agreed, Moves, OthersStay
<1>2. ASSUME NEW p \in Connections, p[1] = d
      PROVE  Same(p)
  BY <1>1, <1>2 DEF ConnMoves, Changes
<1>3. page[d].pc # None => page[d].pc \in Connections /\ page[d].pc[1] = d
  BY <1>1 DEF Owned, Typed, TypeOK, Pages
<1>4. page[d].pc # None => Same(page[d].pc)
  BY <1>2, <1>3
<1>5. Calm(d)' => Calm(d)
  BY <1>1, CalmBefore
<1>6. \A at : Waits(d, at)' <=> Waits(d, at)
  BY <1>1 DEF Waits
<1>7. Staged(d)'
  <2>1. SUFFICES ASSUME Calm(d)
                 PROVE  Staged(d)'
    BY <1>5 DEF Staged
  <2>2. CASE page[d].pc = None
    <3>1. Preparing(d)
      BY <1>1, <2>1, <2>2 DEF Staged
    <3> QED
      BY <1>1, <2>2, <3>1 DEF Staged, Preparing
  <2>3. CASE page[d].pc # None
    <3>1. Calling(d) /\ Same(page[d].pc)
      BY <1>1, <1>4, <2>1, <2>3 DEF Staged
    <3>2. ASSUME NEW task \in tasks[d]
          PROVE  Serves(d, task)'
      <4>1. Serves(d, task)
        BY <3>1 DEF Calling
      <4>2. HasRemoteOffer(task.pc) => HasRemoteOffer(task.pc)'
        BY <3>1, <4>1 DEF Serves, Same, HasRemoteOffer
      <4> QED
        BY <1>1, <1>6, <3>1, <4>1, <4>2 DEF Serves, Same
    <3>3. Calling(d)'
      BY <1>1, <1>6, <3>1, <3>2 DEF Calling, Same
    <3> QED
      BY <1>1, <2>3, <3>3 DEF Staged
  <2> QED
    BY <2>2, <2>3
<1>8. AnswersStill(d)
  <2>1. ASSUME NEW p \in Connections, Answering(d, p)'
        PROVE  Answering(d, p)
    BY <1>1, <1>4, <1>6, <2>1 DEF Answering, Same
  <2> QED
    BY <1>1, <2>1 DEF AnswersStill
<1>9. CallsStill(d) /\ AnsweredStill(d)
  BY <1>1, <1>4, <1>5 DEF CallsStill, AnsweredStill, Caller, Callee, Same
<1>10. Placing(d)' => Placing(d)
  BY <1>5, <1>6 DEF Placing
<1> QED
  BY <1>1, <1>3, <1>4, <1>5, <1>7, <1>8, <1>9, <1>10

LEMMA AllStill ==
  ASSUME Sound, NEW x \in Clients, Moves(x), NEW d \in Clients
  PROVE  /\ Calm(d)' => Calm(d)
         /\ Staged(d)' /\ AnswersStill(d) /\ CallsStill(d) /\ AnsweredStill(d)
<1>1. CASE d = x
  BY <1>1, CalmBefore DEF Moves, OthersStay, Progress
<1>2. CASE d # x
  BY <1>2, OthersKeep
<1> QED
  BY <1>1, <1>2

\* A message that is posted is about the call of the sender's page, or about one that
\* is in the books or has just been taken out of them.
LEMMA PostedCall ==
  ASSUME NEW x \in Clients, NEW message \in Messages, Posted(x, message),
         message.type # "ice"
  PROVE  \/ message.callId = page[x].callId
         \/ /\ message.callId \in Calls
            /\ x \in dialogs[message.callId] \/ Owing(message.callId)
<1>1. message.type \in {"invite", "answer"} \cup Ends
  BY DEF Messages
<1> QED
  BY <1>1 DEF Posted

LEMMA MailIsMessages ==
  ASSUME Typed, NEW d \in Clients
  PROVE  Mail(d) \subseteq Messages
BY DEF Typed, TypeOK, Mail, Range

LEMMA NewCallKept ==
  ASSUME Sound, Typed', NEW x \in Clients, Moves(x), NEW c \in Clients
  PROVE  NewCall(c)'
<1>1. /\ Typed /\ Numbered /\ NewCall(c) /\ Staged(c) /\ calls \in Nat
      /\ Post(x) /\ Books(x) /\ CallIds(x) /\ NewStill(x) /\ Dues(x)
  BY CallSetupAssumption DEF Sound, Agreed, Moves, Progress, Typed, TypeOK
<1>2. Placing(c) => page[c].callId \in Calls
  <2>1. ASSUME Placing(c)
        PROVE  page[c].callId # None
    BY <1>1, <2>1 DEF Staged, Preparing, Calling, Serves, Placing, Waits, AtMicrophone
  <2> QED
    BY <1>1, <2>1 DEF Typed, TypeOK, Pages
<1>3. \A d \in Clients : Mail(d)' \subseteq Messages
  <2>1. \A d \in Clients : mailbox'[d] \in Seq(Messages)
    BY DEF Typed, TypeOK
  <2> QED
    BY <2>1 DEF Mail, Range
<1>4. \A k \in Calls : k <= calls => k # calls + 1
  <2>1. Calls \subseteq Nat
    BY CallSetupAssumption DEF Calls
  <2> QED
    BY <1>1, <2>1
<1>5. ASSUME Placing(c)', c = x
      PROVE  NewCall(c)'
  <2>1. \A d \in Clients \ {x} : page'[d] = page[d]
    BY DEF Moves, OthersStay
  <2>2. CASE Placing(x) /\ page'[x].callId = page[x].callId /\ Quiet(x)
    <3>1. ASSUME NEW d \in Clients, NEW message \in Mail(d)', message.type # "ice"
          PROVE  message.callId # page[x].callId
      BY <1>1, <1>5, <2>2, <3>1 DEF Quiet, NewCall
    <3>2. dialogs'[page[x].callId] = {} /\ ~Owing(page[x].callId)'
      BY <1>1, <1>2, <1>5, <2>2 DEF Quiet, NewCall, Dues
    <3>3. \A d \in Clients \ {x} : page'[d].callId # page[x].callId
      BY <1>1, <1>5, <2>1, <2>2 DEF NewCall
    <3> QED
      BY <1>5, <2>2, <3>1, <3>2, <3>3 DEF NewCall
  <2>3. CASE page'[x].callId = calls + 1 /\ UNCHANGED <<mailbox, dialogs, leaving>>
    <3>1. calls + 1 \in Calls
      <4>1. page'[x].callId \in Calls \cup {None} /\ Staged(x)'
        BY AllStill DEF Typed, TypeOK, Pages
      <4>2. page'[x].callId # None
        BY <1>5, <4>1 DEF Staged, Preparing, Calling, Serves, Placing, Waits, AtMicrophone
      <4> QED
        BY <2>3, <4>1, <4>2
    <3>2. PICK k \in Calls : k = calls + 1
      BY <3>1
    <3>3. page'[x].callId = k /\ c = x
      BY <1>5, <2>3, <3>2
    <3>4. \A d \in Clients \ {x} : page'[d].callId # k
      BY <1>1, <1>4, <2>1, <3>2, NoneIsNobodys DEF Numbered
    <3>5. ASSUME NEW d \in Clients, NEW message \in Mail(d)', message.type # "ice"
          PROVE  message.callId # k
      <4>1. message \in Mail(d)
        BY <2>3, <3>5 DEF Mail
      <4> QED
        BY <1>1, <1>4, <3>2, <3>5, <4>1, NoneIsNobodys DEF Numbered
    <3>6. dialogs'[k] = {} /\ ~Owing(k)'
      <4>1. dialogs[k] = {} /\ ~Owing(k)
        BY <1>1, <1>4, <3>2 DEF Numbered
      <4>2. Owing(k)' <=> Owing(k)
        BY <2>3 DEF Owing
      <4> QED
        BY <2>3, <4>1, <4>2
    <3> QED
      BY <3>3, <3>4, <3>5, <3>6 DEF NewCall
  <2> QED
    BY <1>1, <1>5, <2>2, <2>3 DEF NewStill
<1>6. ASSUME Placing(c)', c # x
      PROVE  NewCall(c)'
  <2> DEFINE k == page[c].callId
  <2>1. /\ Placing(c) /\ k \in Calls /\ page'[c] = page[c]
        /\ \A d \in Clients \ {x} : page'[d] = page[d]
    BY <1>2, <1>6, OthersKeep DEF Moves, OthersStay
  <2>2. /\ \A d \in Clients \ {c} : page[d].callId # k
        /\ \A d \in Clients : \A m \in Mail(d) : m.type # "ice" => m.callId # k
        /\ dialogs[k] = {} /\ ~Owing(k)
    BY <1>1, <2>1 DEF NewCall
  <2>3. page'[x].callId # k
    <3>1. page[x].callId # k /\ None # k
      BY <1>6, <2>1, <2>2, NoneIsNobodys
    <3>2. calls + 1 # k
      BY <1>1, <1>4, <2>1, NoneIsNobodys DEF Numbered
    <3>3. ASSUME NEW message, Taking(x, message)
          PROVE  message.callId # k
      BY <1>1, <2>2, <3>3, TakenCall
    <3> QED
      BY <1>1, <3>1, <3>2, <3>3 DEF CallIds
  <2>4. ASSUME NEW d \in Clients, NEW message \in Mail(d)', message.type # "ice"
        PROVE  message.callId # k
    <3>1. CASE message \in Mail(d)
      BY <2>2, <2>4, <3>1
    <3>2. CASE Posted(x, message)
      <4>1. \/ message.callId = page[x].callId
            \/ x \in dialogs[message.callId] \/ Owing(message.callId)
        BY <1>3, <2>4, <3>2, PostedCall
      <4> QED
        BY <1>6, <2>2, <4>1
    <3> QED
      BY <1>1, <3>1, <3>2, MailGrows
  <2>5. dialogs'[k] = {} /\ ~Owing(k)'
    BY <1>1, <1>6, <2>1, <2>2 DEF Books, Dues
  <2>6. \A d \in Clients \ {c} : page'[d].callId # k
    BY <2>1, <2>2, <2>3
  <2> QED
    BY <2>1, <2>4, <2>5, <2>6 DEF NewCall
<1> QED
  BY <1>5, <1>6 DEF NewCall

-----------------------------------------------------------------------------
(***************************************************************************)
(* An offer stays known, and so does an answer.                            *)
(***************************************************************************)

\* A message that was in the mail is still there, has been read, or is lost.
LEMMA MailLost ==
  ASSUME Typed, NEW x \in Clients, Post(x), NEW d \in Clients,
         NEW message \in Mail(d), message \notin Mail(d)'
  PROVE  d = x /\ (Drop(x) \/ (Read(x) /\ message = Head(mailbox[x])))
<1>1. mailbox[d] \in Seq(Messages)
  BY DEF Typed, TypeOK
<1>2. ~Grows(x, d)
  <2>1. ASSUME NEW new \in Seq(Messages), mailbox'[d] = mailbox[d] \o new
        PROVE  FALSE
    BY <1>1, <2>1, Grown DEF Mail
  <2> QED
    BY <2>1 DEF Grows
<1>3. ASSUME d = x, Read(x)
      PROVE  message = Head(mailbox[x])
  <2>1. mailbox[x] # <<>> /\ mailbox' = [mailbox EXCEPT ![x] = Tail(@)]
    BY <1>3 DEF Read
  <2>2. mailbox'[x] = Tail(mailbox[x])
    BY <2>1 DEF Typed, TypeOK
  <2>3. PICK i \in DOMAIN mailbox[x] : message = mailbox[x][i]
    BY <1>3 DEF Mail, Range
  <2>4. i # 1 => i - 1 \in DOMAIN Tail(mailbox[x]) /\ Tail(mailbox[x])[i - 1] = mailbox[x][i]
    BY <1>1, <1>3, <2>1, <2>3
  <2>5. i = 1
    BY <1>3, <2>2, <2>3, <2>4 DEF Mail, Range
  <2> QED
    BY <1>1, <1>3, <2>1, <2>3, <2>5
<1> QED
  BY <1>2, <1>3 DEF Post

\* What is not posted keeps its place before others.
LEMMA OrderKept ==
  ASSUME Typed, NEW x \in Clients, Post(x), NEW d \in Clients,
         NEW i \in DOMAIN mailbox'[d], NEW j \in DOMAIN mailbox'[d],
         ~Posted(x, mailbox'[d][j])
  PROVE  \/ j <= i
         \/ \E m, n \in DOMAIN mailbox[d] :
              /\ mailbox[d][m] = mailbox'[d][i] /\ mailbox[d][n] = mailbox'[d][j]
              /\ n <= m => j <= i
<1>1. mailbox[d] \in Seq(Messages)
  BY DEF Typed, TypeOK
<1>2. CASE Grows(x, d)
  <2>1. PICK new \in Seq(Messages) :
          mailbox'[d] = mailbox[d] \o new /\ \A n \in DOMAIN new : Posted(x, new[n])
    BY <1>2 DEF Grows
  <2>2. /\ \A n \in DOMAIN mailbox[d] : mailbox'[d][n] = mailbox[d][n] /\ n <= Len(mailbox[d])
        /\ \A n \in DOMAIN mailbox'[d] :
             \/ n \in DOMAIN mailbox[d]
             \/ /\ n > Len(mailbox[d]) /\ n - Len(mailbox[d]) \in DOMAIN new
                /\ mailbox'[d][n] = new[n - Len(mailbox[d])]
    BY <1>1, <2>1, Grown
  <2>3. j \in DOMAIN mailbox[d] /\ j <= Len(mailbox[d])
    BY <2>1, <2>2
  <2>4. CASE i \in DOMAIN mailbox[d]
    <3>1. mailbox[d][i] = mailbox'[d][i] /\ mailbox[d][j] = mailbox'[d][j]
      BY <2>2, <2>3, <2>4
    <3> QED
      BY <2>3, <2>4, <3>1
  <2>5. CASE i > Len(mailbox[d])
    <3>1. i \in Nat /\ j \in Nat /\ Len(mailbox[d]) \in Nat
      BY <1>1, <2>1, <2>3
    <3> QED
      BY <2>3, <2>5, <3>1
  <2> QED
    BY <2>2, <2>4, <2>5
<1>3. CASE d = x /\ Read(x)
  <2>1. mailbox[x] # <<>> /\ mailbox' = [mailbox EXCEPT ![x] = Tail(@)]
    BY <1>3 DEF Read
  <2>2. mailbox'[x] = Tail(mailbox[x])
    BY <2>1 DEF Typed, TypeOK
  <2>3. \A n \in DOMAIN Tail(mailbox[x]) :
          n \in Nat /\ n + 1 \in DOMAIN mailbox[x] /\ Tail(mailbox[x])[n] = mailbox[x][n + 1]
    BY <1>1, <1>3, <2>1
  <2>4. /\ i + 1 \in DOMAIN mailbox[d] /\ j + 1 \in DOMAIN mailbox[d]
        /\ mailbox[d][i + 1] = mailbox'[d][i] /\ mailbox[d][j + 1] = mailbox'[d][j]
    BY <1>3, <2>2, <2>3
  <2>5. j + 1 <= i + 1 => j <= i
    BY <1>3, <2>2, <2>3
  <2> QED
    BY <2>4, <2>5
<1>4. CASE d = x /\ Drop(x)
  <2>1. mailbox'[d] = <<>>
    BY <1>4, Dropped
  <2> QED
    BY <2>1
<1> QED
  BY <1>2, <1>3, <1>4 DEF Post

\* A connection that has described itself is not described again.
LEMMA PostedElsewhere ==
  ASSUME Sound, NEW x \in Clients, NEW message, Posted(x, message),
         message.type \in {"invite", "answer"},
         NEW c \in Clients, Calm(c), page[c].pc # None, conn[page[c].pc].local # "none"
  PROVE  message.sdp # page[c].pc
<1>1. message.sdp[1] = x /\ (Calm(x) => conn[message.sdp].local = "none")
  BY PostedDescription
<1>2. page[c].pc[1] = c
  BY DEF Sound, Agreed, Owned
<1> QED
  BY <1>1, <1>2

\* A calm client that sends an invite has made up its call and its offer.
LEMMA FirstInvite ==
  ASSUME Sound, NEW x \in Clients, Calm(x), NEW task, Inviting(x, task)
  PROVE  /\ task.pc = page[x].pc /\ task.pc \in Connections
         /\ conn[task.pc].local = "none" /\ conn[task.pc].remote = None
         /\ Unsaid(task.pc) /\ Placing(x) /\ NewCall(x)
         /\ task.target = page[x].peer /\ page[x].peer \in Clients \ {x}
         /\ page[x].callId \in Calls
<1>1. task \in tasks[x] /\ task.at = "offer" /\ conn[task.pc].state = "open"
  BY Inviter DEF Inviting
<1>2. /\ page[x].pc # None /\ Calling(x) /\ task.pc = page[x].pc /\ task.pc \in Connections
  BY <1>1, OneHandler
<1>3. /\ conn[task.pc].local = "none" /\ conn[task.pc].remote = None
      /\ task.target = page[x].peer
  BY <1>1, <1>2 DEF Calling, Serves
<1>4. Unsaid(task.pc)
  BY <1>1, <1>2, <1>3 DEF Sound, Agreed, NothingSaid, Undescribed
<1>5. Placing(x) /\ page[x].peer # x /\ page[x].callId # None
  BY <1>1, <1>2 DEF Placing, Waits, Calling
<1>6. task.target \in Clients /\ page[x].callId \in Calls
  BY <1>5, Inviter DEF Sound, Typed, TypeOK, Pages
<1> QED
  BY <1>2, <1>3, <1>4, <1>5, <1>6 DEF Sound, Agreed

\* Nobody answers an offer that has not been made.
LEMMA Silence ==
  ASSUME Typed, NEW p \in Connections, Unsaid(p), NEW d \in Clients
  PROVE  ~Answering(d, p) /\ \A message \in Mail(d) : ~Brings(message, p)
<1>1. page[d].pc # None => conn[page[d].pc].remote # p
  BY DEF Unsaid, Typed, TypeOK, Pages
<1> QED
  BY <1>1 DEF Unsaid, Answering, Brings

\* A calm client that sends an invite has no answer.
LEMMA InviterLacks ==
  ASSUME Sound, NEW x \in Clients, Calm(x), NEW task, Inviting(x, task)
  PROVE  conn'[page'[x].pc].remote = None
<1>1. conn'[task.pc].remote = conn[task.pc].remote /\ PageStays(x)
  BY Inviter
<1>2. task.pc = page[x].pc /\ conn[task.pc].remote = None
  BY FirstInvite
<1> QED
  BY <1>1, <1>2 DEF PageStays

\* What no mail and no handler brings to a caller it does not have afterwards.
LEMMA CallerLacks ==
  ASSUME Sound, NEW d \in Clients, CallsStill(d), NEW p \in Connections,
         Caller(d) => conn[page[d].pc].remote # p,
         \A task \in tasks[d] : task.at = "remote answer" => task.sdp # p,
         Calm(d)' => Calm(d), Caller(d)'
  PROVE  conn'[page'[d].pc].remote # p
<1>1. ASSUME NEW task, Inviting(d, task)
      PROVE  conn'[page'[d].pc].remote # p
  <2>1. Calm(d)
    BY DEF Caller
  <2> QED
    BY <1>1, <2>1, InviterLacks, NoneIsNobodys
<1>2. CASE /\ Caller(d) /\ page'[d].pc = page[d].pc
           /\ \/ conn'[page[d].pc].remote = conn[page[d].pc].remote
              \/ \E task \in tasks[d] :
                   task.at = "remote answer" /\ conn'[page[d].pc].remote = task.sdp
  BY <1>2
<1> QED
  BY <1>1, <1>2 DEF CallsStill

LEMMA OfferStays ==
  ASSUME Sound, NEW x \in Clients, Moves(x), NEW c \in Clients, Caller(c),
         NEW p, NEW k, NEW t \in Clients, p = page[c].pc, OfferKnown(c, p, k, t)
  PROVE  OfferKnown(c, p, k, t)'
<1>1. /\ Typed /\ Post(x) /\ HandlersMove(x) /\ Calm(c) /\ p # None /\ p \in Connections
      /\ conn[p].local = "offer"
  BY DEF Sound, Moves, Caller, Typed, TypeOK, Pages
<1>2. ASSUME NEW message, message.type \in {"invite", "answer"}, Posted(x, message)
      PROVE  message.sdp # p
  BY <1>1, <1>2, PostedElsewhere
<1>3. ASSUME NEW d \in Clients, NEW message \in Mail(d)'
      PROVE  /\ Brings(message, p) => /\ d = t /\ message.callId = k /\ message.from = c
                                      /\ ~Posted(x, message)
             /\ message.type = "answer" => message.sdp # p
  <2>1. message \in Mail(d) \/ Posted(x, message)
    BY <1>1, MailGrows
  <2>2. message.type \in {"invite", "answer"} /\ message.sdp = p =>
          ~Posted(x, message) /\ message \in Mail(d)
    BY <1>2, <2>1
  <2>3. message \in Mail(d) =>
          /\ Brings(message, p) => d = t /\ message.callId = k /\ message.from = c
          /\ message.type = "answer" => message.sdp # p
    BY DEF OfferKnown
  <2> QED
    BY <2>2, <2>3 DEF Brings
<1>4. ASSUME NEW d \in Clients, NEW task \in tasks'[d], task.at = "remote answer"
      PROVE  task.sdp # p
  <2>1. CASE task \in tasks[d]
    BY <1>4, <2>1 DEF OfferKnown
  <2>2. CASE task \notin tasks[d]
    <3>1. d = x
      BY <2>2, OthersKeep
    <3>2. PICK message \in Mail(x) : message.type = "answer" /\ task.sdp = message.sdp
      BY <1>1, <1>4, <2>2, <3>1 DEF HandlersMove, AtMicrophone
    <3> QED
      BY <3>2 DEF OfferKnown
  <2> QED
    BY <2>1, <2>2
<1>5. ASSUME NEW d \in Clients, Calm(d)', Answering(d, p)'
      PROVE  d = t /\ page'[d].peer = c /\ page'[d].callId = k
  <2>1. Calm(d) /\ AnswersStill(d)
    BY <1>5, AllStill
  <2>2. CASE /\ Answering(d, p) /\ page'[d].peer = page[d].peer
             /\ page'[d].callId = page[d].callId
    <3>1. d = t /\ page[d].peer = c /\ page[d].callId = k
      BY <2>1, <2>2 DEF OfferKnown
    <3> QED
      BY <2>2, <3>1
  <2>3. ASSUME NEW message, Taking(d, message), Brings(message, p)
        PROVE  d = t /\ page'[d].peer = c /\ page'[d].callId = k
    <3>1. /\ message \in Mail(d)
          /\ page'[d].peer = message.from /\ page'[d].callId = message.callId
      BY <1>1, <2>3, TakenCall
    <3>2. d = t /\ message.callId = k /\ message.from = c
      BY <2>3, <3>1 DEF OfferKnown
    <3> QED
      BY <3>1, <3>2
  <2> QED
    BY <1>1, <1>5, <2>1, <2>2, <2>3 DEF AnswersStill
<1>6. ASSUME NEW d \in Clients, Caller(d)'
      PROVE  conn'[page'[d].pc].remote # p
  <2>1. CallsStill(d) /\ (Calm(d)' => Calm(d))
    BY AllStill
  <2> QED
    BY <1>1, <1>6, <2>1, CallerLacks DEF OfferKnown
<1>7. ASSUME NEW i \in DOMAIN mailbox'[t], NEW j \in DOMAIN mailbox'[t],
             Brings(mailbox'[t][j], p),
             mailbox'[t][i].type # "ice", mailbox'[t][i].callId = k
      PROVE  j <= i
  <2>1. ~Posted(x, mailbox'[t][j])
    BY <1>3, <1>7 DEF Mail, Range
  <2>2. \/ j <= i
        \/ \E m, n \in DOMAIN mailbox[t] :
             /\ mailbox[t][m] = mailbox'[t][i] /\ mailbox[t][n] = mailbox'[t][j]
             /\ n <= m => j <= i
    BY <1>1, <2>1, OrderKept
  <2> QED
    BY <1>7, <2>2 DEF OfferKnown
<1> QED
  BY <1>3, <1>4, <1>5, <1>6, <1>7 DEF OfferKnown

LEMMA AnswerStays ==
  ASSUME Sound, NEW x \in Clients, Moves(x), NEW c \in Clients, Callee(c),
         NEW q, q = page[c].pc, AnswerKnown(q)
  PROVE  AnswerKnown(q)'
<1>1. /\ Typed /\ Post(x) /\ Calm(c) /\ q # None /\ q \in Connections
      /\ conn[q].local = "answer"
  BY DEF Sound, Moves, Callee, Typed, TypeOK, Pages
<1>2. ASSUME NEW d \in Clients, NEW message \in Mail(d)'
      PROVE  ~Brings(message, q)
  <2>1. message \in Mail(d) \/ Posted(x, message)
    BY <1>1, MailGrows
  <2>2. message.type = "invite" /\ Posted(x, message) => message.sdp # q
    BY <1>1, PostedElsewhere
  <2> QED
    BY <2>1, <2>2 DEF AnswerKnown, Brings
<1>3. ASSUME NEW d \in Clients, Calm(d)'
      PROVE  ~Answering(d, q)'
  <2>1. Calm(d) /\ AnswersStill(d)
    BY <1>3, AllStill
  <2>2. ~Answering(d, q)
    BY <2>1 DEF AnswerKnown
  <2>3. \A message : Taking(d, message) => ~Brings(message, q)
    BY <1>1, TakenCall DEF AnswerKnown
  <2> QED
    BY <1>1, <1>3, <2>1, <2>2, <2>3 DEF AnswersStill
<1> QED
  BY <1>2, <1>3 DEF AnswerKnown

\* Nobody has begun to answer it by the next state, either.
LEMMA StillSilent ==
  ASSUME Sound, NEW x \in Clients, Moves(x), NEW p \in Connections, Unsaid(p),
         NEW d \in Clients
  PROVE  Calm(d)' => ~Answering(d, p)'
<1>1. Typed /\ AnswersStill(d)
  BY AllStill DEF Sound
<1>2. ~Answering(d, p)
  BY <1>1, Silence
<1>3. \A message : Taking(d, message) => ~Brings(message, p)
  BY <1>1, Silence, TakenCall
<1> QED
  BY <1>1, <1>2, <1>3 DEF AnswersStill

\* A message that arrives comes last.
LEMMA SentLast ==
  ASSUME Typed, NEW x, NEW target, NEW message \in Messages, NEW d \in Clients,
         mailbox' = Sent(x, target, message)
  PROVE  \/ mailbox'[d] = mailbox[d]
         \/ mailbox'[d] = Append(mailbox[d], message)
<1>1. mailbox \in [Clients -> Seq(Messages)]
  BY DEF Typed, TypeOK
<1>2. CASE mailbox' = mailbox
  BY <1>2
<1>3. CASE mailbox' = [mailbox EXCEPT ![target] = Append(@, message)]
  BY <1>1, <1>3
<1> QED
  BY <1>2, <1>3 DEF Sent

\* What an invite says.
LEMMA Invitation ==
  ASSUME Sound, NEW x \in Clients, Calm(x), NEW task, Inviting(x, task)
  PROVE  \E message \in Messages :
           /\ message.type = "invite" /\ message.from = x
           /\ message.sdp = task.pc /\ message.callId = page[x].callId
           /\ mailbox' = Sent(x, page[x].peer, message)
           /\ online[x] /\ online[page[x].peer] =>
                dialogs'[page[x].callId] = {x, page[x].peer}
<1> DEFINE message == [type |-> "invite", from |-> x, sdp |-> task.pc,
                       callId |-> page[x].callId]
<1>1. /\ task.pc \in Connections /\ page[x].callId \in Calls
      /\ task.target = page[x].peer
  BY FirstInvite
<1>2. SendInvite(x, task)
  BY DEF Inviting
<1>3. message \in Messages
  BY <1>1 DEF Messages
<1>4. mailbox' = Sent(x, page[x].peer, message)
  BY <1>1, <1>2 DEF SendInvite
<1>5. dialogs \in [Calls -> SUBSET Clients] /\ page[x].callId # None
  BY <1>1, NoneIsNobodys DEF Sound, Typed, TypeOK
<1>6. online[x] /\ online[page[x].peer] =>
        dialogs'[page[x].callId] = {x, page[x].peer}
  <2>1. online[x] /\ online[page[x].peer] =>
          dialogs' = [dialogs EXCEPT ![page[x].callId] = {x, page[x].peer}]
    BY <1>1, <1>2, <1>5 DEF SendInvite, Registered
  <2> QED
    BY <1>1, <1>5, <2>1
<1>7. /\ message.type = "invite" /\ message.from = x
      /\ message.sdp = task.pc /\ message.callId = page[x].callId
  OBVIOUS
<1> HIDE DEF message
<1> QED
  BY <1>3, <1>4, <1>6, <1>7

LEMMA OfferNew ==
  ASSUME Sound, NEW x \in Clients, Moves(x), Calm(x), NEW task, Inviting(x, task),
         NEW p, p = task.pc, NEW k, k = page[x].callId, NEW t, t = page[x].peer
  PROVE  OfferKnown(x, p, k, t)'
<1>1. /\ Typed /\ p \in Connections /\ Unsaid(p) /\ NewCall(x) /\ Placing(x)
      /\ t \in Clients \ {x}
  BY FirstInvite DEF Sound
<1>2. PICK message \in Messages :
        /\ message.type = "invite" /\ message.from = x
        /\ message.sdp = p /\ message.callId = k
        /\ mailbox' = Sent(x, t, message)
  BY Invitation
<1>3. ASSUME NEW d \in Clients, NEW m \in Mail(d)'
      PROVE  m \in Mail(d) \/ (m = message /\ d = t)
  BY <1>1, <1>2, <1>3, MailAfterSent
<1>4. ASSUME NEW d \in Clients, NEW m \in Mail(d)'
      PROVE  /\ Brings(m, p) => d = t /\ m.callId = k /\ m.from = x
             /\ m.type = "answer" => m.sdp # p
  <2>1. CASE m \in Mail(d)
    BY <1>1, <2>1 DEF Unsaid, Brings
  <2>2. CASE m = message /\ d = t
    BY <1>2, <2>2
  <2> QED
    BY <1>3, <1>4, <2>1, <2>2
<1>5. ASSUME NEW d \in Clients, NEW other \in tasks'[d], other.at = "remote answer"
      PROVE  other.sdp # p
  <2>1. other \in tasks[d]
    <3>1. d # x => tasks'[d] = tasks[d]
      BY OthersKeep
    <3>2. tasks'[x] = tasks[x] \ {task}
      BY Inviter
    <3> QED
      BY <1>5, <3>1, <3>2
  <2> QED
    BY <1>1, <1>5, <2>1 DEF Unsaid
<1>6. ASSUME NEW d \in Clients
      PROVE  /\ Calm(d)' => ~Answering(d, p)'
             /\ Caller(d)' => conn'[page'[d].pc].remote # p
  <2>1. Calm(d)' => ~Answering(d, p)'
    BY <1>1, StillSilent
  <2>2. /\ Caller(d) => conn[page[d].pc].remote # p
        /\ \A other \in tasks[d] : other.at = "remote answer" => other.sdp # p
    BY <1>1 DEF Unsaid, Caller, Typed, TypeOK, Pages
  <2>3. CallsStill(d) /\ (Calm(d)' => Calm(d))
    BY AllStill
  <2> QED
    BY <1>1, <2>1, <2>2, <2>3, CallerLacks
<1>7. ASSUME NEW i \in DOMAIN mailbox'[t], NEW j \in DOMAIN mailbox'[t],
             Brings(mailbox'[t][j], p),
             mailbox'[t][i].type # "ice", mailbox'[t][i].callId = k
      PROVE  j <= i
  <2>1. mailbox[t] \in Seq(Messages)
    BY <1>1 DEF Typed, TypeOK
  <2>2. \A n \in DOMAIN mailbox[t] :
          /\ ~Brings(mailbox[t][n], p)
          /\ mailbox[t][n].type # "ice" => mailbox[t][n].callId # k
    BY <1>1, Silence DEF NewCall, Mail, Range
  <2>3. CASE mailbox'[t] = mailbox[t]
    BY <1>7, <2>2, <2>3
  <2>4. CASE mailbox'[t] = Append(mailbox[t], message)
    <3>1. \A n \in DOMAIN mailbox'[t] :
            \/ n \in DOMAIN mailbox[t] /\ mailbox'[t][n] = mailbox[t][n]
            \/ n = Len(mailbox[t]) + 1
      BY <1>2, <2>1, <2>4
    <3>2. i = Len(mailbox[t]) + 1 /\ j = Len(mailbox[t]) + 1
      BY <1>7, <2>2, <3>1
    <3> QED
      BY <2>1, <3>2
  <2> QED
    BY <1>1, <1>2, <2>3, <2>4, SentLast
<1> QED
  BY <1>4, <1>5, <1>6, <1>7 DEF OfferKnown

LEMMA AnswerNew ==
  ASSUME Sound, NEW x \in Clients, Moves(x), NEW task, Replying(x, task),
         NEW q, q = task.pc
  PROVE  AnswerKnown(q)'
<1>1. /\ Typed /\ q \in Connections /\ conn[q].state = "open" /\ conn[q].local = "none"
      /\ Post(x)
  BY Replier DEF Sound, HasRemoteOffer, Moves
<1>2. Unsaid(q)
  BY <1>1 DEF Sound, Agreed, NothingSaid, Undescribed
<1>3. ASSUME NEW d \in Clients, NEW message \in Mail(d)'
      PROVE  ~Brings(message, q)
  <2>1. message \in Mail(d) => ~Brings(message, q)
    BY <1>1, <1>2, Silence
  <2>2. message.type = "invite" => ~Posted(x, message)
    <3>1. ASSUME NEW other, Inviting(x, other)
          PROVE  FALSE
      <4>1. tasks'[x] = tasks[x] \ {other} /\ other.at = "offer"
        BY <3>1, Inviter
      <4>2. tasks'[x] = tasks[x] \ {task} /\ task.at = "answer" /\ task \in tasks[x]
        BY Replier DEF Replying
      <4> QED
        BY <3>1, <4>1, <4>2 DEF Inviting
    <3> QED
      BY <3>1 DEF Posted
  <2> QED
    BY <1>1, <1>3, <2>1, <2>2, MailGrows DEF Brings
<1>4. \A d \in Clients : Calm(d)' => ~Answering(d, q)'
  BY <1>1, <1>2, StillSilent
<1> QED
  BY <1>3, <1>4 DEF AnswerKnown

-----------------------------------------------------------------------------
(***************************************************************************)
(* A call stays held: nobody else learns of it, and the books or the mail  *)
(* account for it as long as it may be answered.                           *)
(***************************************************************************)

LEMMA HeldNew ==
  ASSUME Sound, NEW x \in Clients, Moves(x), Calm(x), NEW task, Inviting(x, task),
         NEW p, p = task.pc, NEW k, k = page[x].callId, NEW t, t = page[x].peer
  PROVE  CallHeld(x, p, k, t)'
<1>1. /\ Typed /\ p \in Connections /\ Unsaid(p) /\ NewCall(x) /\ Placing(x)
      /\ t \in Clients \ {x}
  BY FirstInvite DEF Sound
<1>2. PICK message \in Messages :
        /\ message.type = "invite" /\ message.sdp = p
        /\ mailbox' = Sent(x, t, message)
        /\ online[x] /\ online[t] => dialogs'[k] = {x, t}
  BY Invitation
<1>3. ASSUME NEW d \in Clients, NEW m \in Mail(d)', m \notin Mail(d)
      PROVE  m = message /\ d = t /\ online[x] /\ online[t]
  BY <1>1, <1>2, <1>3, MailAfterSent
<1>4. ASSUME NEW d \in Clients \ {x}
      PROVE  page'[d].callId # k
  <2>1. page'[d] = page[d]
    BY OthersKeep
  <2> QED
    BY <1>1, <2>1 DEF NewCall
<1>5. ASSUME NEW d \in Clients, NEW m \in Mail(d)', m.type = "invite", m.callId = k
      PROVE  m.sdp = p
  BY <1>1, <1>2, <1>3, <1>5 DEF NewCall
<1>6. ASSUME NEW m \in Mail(t)', Brings(m, p)
      PROVE  dialogs'[k] = {x, t}
  <2>1. m \notin Mail(t)
    BY <1>1, <1>6, Silence
  <2> QED
    BY <1>1, <1>2, <1>3, <2>1
<1>7. Calm(t)' => ~Answering(t, p)'
  BY <1>1, StillSilent
<1> QED
  BY <1>1, <1>4, <1>5, <1>6, <1>7 DEF CallHeld, Accounted

\* A call is placed once.
LEMMA NoSecondInvite ==
  ASSUME Sound, NEW c \in Clients, Caller(c), NEW t, t = page[c].peer, Calm(t),
         CallHeld(c, page[c].pc, page[c].callId, t),
         NEW x \in Clients, page[x].callId = page[c].callId, NEW task, Inviting(x, task)
  PROVE  FALSE
<1>1. x \in {c, t}
  BY DEF CallHeld
<1>2. CASE x = c
  <2>1. conn[page[c].pc].local = "none"
    BY <1>2, FirstInvite DEF Caller
  <2> QED
    BY <2>1 DEF Caller
<1>3. CASE x = t /\ x # c
  BY <1>3, FirstInvite DEF NewCall
<1> QED
  BY <1>1, <1>2, <1>3

\* Once t has read what belongs to the call it has read the invite.
LEMMA HeadOfCall ==
  ASSUME Typed, NEW c, NEW p, NEW k, NEW t \in Clients, OfferKnown(c, p, k, t), Read(t),
         Head(mailbox[t]).type # "ice", Head(mailbox[t]).callId = k
  PROVE  \A message \in Mail(t)' : ~Brings(message, p)
<1>1. /\ mailbox[t] \in Seq(Messages) /\ mailbox[t] # <<>>
      /\ mailbox' = [mailbox EXCEPT ![t] = Tail(@)]
  BY DEF Read, Typed, TypeOK
<1>2. mailbox'[t] = Tail(mailbox[t])
  BY <1>1 DEF Typed, TypeOK
<1>3. 1 \in DOMAIN mailbox[t] /\ mailbox[t][1] = Head(mailbox[t])
  BY <1>1
<1>4. ASSUME NEW n \in DOMAIN Tail(mailbox[t]), Brings(Tail(mailbox[t])[n], p)
      PROVE  FALSE
  <2>1. /\ n \in Nat /\ n > 0 /\ n + 1 \in DOMAIN mailbox[t]
        /\ Tail(mailbox[t])[n] = mailbox[t][n + 1]
    BY <1>1
  <2>2. n + 1 <= 1
    BY <1>3, <1>4, <2>1 DEF OfferKnown
  <2> QED
    BY <2>1, <2>2
<1> QED
  BY <1>2, <1>4 DEF Mail, Range

LEMMA HeldStays ==
  ASSUME Sound, NEW x \in Clients, Moves(x), NEW c \in Clients, Caller(c), Caller(c)',
         NEW p, p = page[c].pc, NEW k, k = page[c].callId, NEW t, t = page[c].peer,
         OfferKnown(c, p, k, t), CallHeld(c, p, k, t)
  PROVE  CallHeld(c, p, k, t)'
<1>1. /\ Typed /\ Post(x) /\ CallIds(x) /\ Books(x) /\ Dues(x) /\ Numbered
      /\ disturbed \subseteq disturbed' /\ calls \in Nat
  BY CallSetupAssumption DEF Sound, Agreed, Moves, OthersStay, Typed, TypeOK
<1>2. k \in Calls /\ k # None /\ t \in Clients \ {c}
  BY <1>1, NoneIsNobodys
     DEF Sound, Agreed, Staged, Caller, Calling, Typed, TypeOK, Pages
<1>3. k # calls + 1
  <2>1. k \in Nat /\ k <= calls
    BY <1>1, <1>2, CallSetupAssumption DEF Numbered, Calls
  <2> QED
    BY <1>1, <2>1
<1>4. SUFFICES ASSUME Calm(t)'
               PROVE  CallHeld(c, p, k, t)'
  BY DEF CallHeld
<1>5. Calm(t) /\ AnswersStill(t)
  BY <1>2, <1>4, AllStill
<1>6. /\ \A d \in Clients : page[d].callId = k => d \in {c, t}
      /\ \A d \in Clients : \A message \in Mail(d) :
           message.type = "invite" /\ message.callId = k => message.sdp = p
      /\ page[t].callId = k => \A message \in Mail(t) : ~Brings(message, p)
      /\ (\E message \in Mail(t) : Brings(message, p)) \/ Answering(t, p) =>
           Accounted(c, t, k)
  BY <1>5 DEF CallHeld
<1>7. ASSUME NEW task, Inviting(x, task)
      PROVE  page[x].callId # k
  BY <1>5, <1>7, NoSecondInvite
<1>8. ASSUME NEW message, Taking(x, message), message.callId = k
      PROVE  x = t /\ Brings(message, p) /\ Read(t) /\ message = Head(mailbox[t])
  <2>1. message \in Mail(x) /\ message.type = "invite"
    BY <1>1, <1>8, TakenCall
  <2>2. Brings(message, p)
    BY <1>6, <1>8, <2>1 DEF Brings
  <2>3. x = t
    BY <2>1, <2>2 DEF OfferKnown
  <2> QED
    BY <1>8, <2>2, <2>3 DEF Taking
<1>9. ASSUME NEW d \in Clients, page'[d].callId = k
      PROVE  \/ page[d].callId = k
             \/ d = t /\ d = x /\ \E message : Taking(x, message) /\ message.callId = k
  <2>1. CASE d # x
    BY <1>9, <2>1, OthersKeep
  <2>2. CASE d = x
    BY <1>1, <1>2, <1>3, <1>8, <1>9, <2>2 DEF CallIds
  <2> QED
    BY <2>1, <2>2
<1>10. ASSUME NEW d \in Clients, page'[d].callId = k
       PROVE  d \in {c, t}
  BY <1>6, <1>9, <1>10
<1>11. ASSUME NEW d \in Clients, NEW message \in Mail(d)',
              message.type = "invite", message.callId = k
       PROVE  message.sdp = p
  <2>1. ~Posted(x, message)
    BY <1>7, <1>11 DEF Posted
  <2> QED
    BY <1>1, <1>6, <1>11, <2>1, MailGrows
<1>12. ASSUME NEW message \in Mail(t)', Brings(message, p)
       PROVE  message \in Mail(t)
  <2>1. ~Posted(x, message)
    BY <1>12, PostedElsewhere DEF Brings, Caller
  <2> QED
    BY <1>1, <1>2, <2>1, MailGrows
<1>13. ASSUME page'[t].callId = k, NEW message \in Mail(t)'
       PROVE  ~Brings(message, p)
  <2>1. CASE page[t].callId = k
    BY <1>6, <1>12, <2>1
  <2>2. ASSUME NEW taken, Taking(x, taken), taken.callId = k
        PROVE  ~Brings(message, p)
    <3>1. /\ Read(t) /\ Head(mailbox[t]).type # "ice" /\ Head(mailbox[t]).callId = k
      BY <1>8, <2>2 DEF Brings
    <3> QED
      BY <1>1, <1>2, <1>13, <3>1, HeadOfCall
  <2> QED
    BY <1>2, <1>9, <1>13, <2>1, <2>2
<1>14. ASSUME (\E message \in Mail(t)' : Brings(message, p)) \/ Answering(t, p)'
       PROVE  Accounted(c, t, k)'
  <2>1. (\E message \in Mail(t) : Brings(message, p)) \/ Answering(t, p)
    <3>1. ASSUME NEW message, Taking(t, message)
          PROVE  message \in Mail(t)
      BY <1>1, <1>2, <3>1, TakenCall
    <3>2. p \in Connections
      BY <1>1 DEF Caller, Typed, TypeOK, Pages
    <3> QED
      BY <1>4, <1>5, <1>12, <1>14, <3>1, <3>2 DEF AnswersStill
  <2>2. ~Over(c)
    BY DEF Over, Caller
  <2>3. Over(t) => \E message \in Mail(t)' : Brings(message, p)
    BY <1>4, <1>14 DEF Over, Answering, Waits
  <2>8. TakesPart(c, k) /\ TakesPart(t, k)
    <3>1. TakesPart(c, k)
      BY DEF TakesPart
    <3>2. CASE Answering(t, p)
      BY <1>2, <1>5, <3>2 DEF OfferKnown, TakesPart
    <3>3. ASSUME NEW message \in Mail(t), Brings(message, p)
          PROVE  TakesPart(t, k)
      BY <1>2, <3>3 DEF OfferKnown, Brings, TakesPart, Mail
    <3> QED
      BY <2>1, <3>1, <3>2, <3>3
  <2>4. CASE dialogs[k] = {c, t}
    <3>1. CASE dialogs'[k] = dialogs[k]
      BY <2>4, <3>1 DEF Accounted
    <3>2. CASE k = page[x].callId /\ Over(x)
      <4>1. x = t
        BY <1>6, <2>2, <3>2
      <4> QED
        BY <1>6, <1>12, <2>3, <3>2, <4>1
    <3>3. CASE x \in dialogs[k] /\ \A d \in dialogs[k] \ {x} : Kept(d, x, k)
      <4>1. CASE x = c
        <5>1. Kept(t, c, k)
          BY <1>2, <2>4, <3>3, <4>1
        <5> QED
          BY <2>8, <5>1 DEF Kept, Accounted
      <4>2. CASE x = t
        <5>1. Kept(c, t, k)
          BY <1>2, <2>4, <3>3, <4>2
        <5> QED
          BY <2>8, <5>1 DEF Kept, Accounted
      <4> QED
        BY <2>4, <3>3, <4>1, <4>2
    <3> QED
      BY <1>1, <1>2, <1>7, <3>1, <3>2, <3>3 DEF Books
  <2>5. CASE Told(c, t, k)
    <3>1. PICK message \in Mail(c) :
            message.type \in Ends /\ message.from = t /\ message.callId = k
      BY <2>5 DEF Told
    <3>2. CASE message \in Mail(c)'
      BY <3>1, <3>2 DEF Accounted, Told
    <3>3. CASE message \notin Mail(c)'
      <4>1. c = x /\ (Drop(c) \/ (Read(c) /\ message = Head(mailbox[c])))
        BY <1>1, <3>3, MailLost
      <4>2. ~Read(c) \/ message # Head(mailbox[c])
        BY <1>1, <2>2, <3>1, EndRead
      <4>3. EndUnread(c)
        BY <3>1 DEF EndUnread, Mail
      <4>4. Missed(c)'
        BY <1>1, <4>1, <4>2, <4>3, Dropped
      <4> QED
        BY <4>4 DEF Accounted
    <3> QED
      BY <3>2, <3>3
  <2>6. CASE Told(t, c, k)
    <3>1. PICK message \in Mail(t) :
            message.type \in Ends /\ message.from = c /\ message.callId = k
      BY <2>6 DEF Told
    <3>2. CASE message \in Mail(t)'
      BY <3>1, <3>2 DEF Accounted, Told
    <3>3. CASE Read(t) /\ message = Head(mailbox[t])
      <4>1. Over(t)
        BY <1>1, <1>2, <3>1, <3>3, EndRead
      <4>2. message.type # "ice"
        BY <3>1 DEF Ends
      <4> QED
        BY <1>1, <1>2, <2>3, <3>1, <3>3, <4>1, <4>2, HeadOfCall
    <3>4. CASE Drop(t)
      <4>1. Mail(t)' = {} /\ (EndUnread(t) => Missed(t)')
        BY <1>1, <1>2, <3>4, Dropped
      <4>2. UNCHANGED <<page, tasks, conn>>
        BY <3>4 DEF Drop
      <4>3. Answering(t, p)
        BY <1>14, <4>1, <4>2 DEF Answering, Waits
      <4>4. page[t].callId = k
        BY <1>2, <1>5, <4>3 DEF OfferKnown
      <4>5. Missed(t)'
        BY <3>1, <4>1, <4>4 DEF EndUnread, Mail
      <4> QED
        BY <4>5 DEF Accounted
    <3> QED
      BY <1>1, <1>2, <3>2, <3>3, <3>4, MailLost
  <2>7. CASE Missed(c) \/ Missed(t)
    BY <1>1, <2>7 DEF Missed, Accounted
  <2>9. CASE Due(c, t, k) \/ Due(t, c, k)
    <3>1. Kept(c, t, k) \/ Kept(t, c, k)
      BY <1>1, <1>2, <2>9 DEF Dues
    <3> QED
      BY <2>8, <3>1 DEF Kept, Accounted
  <2> QED
    BY <1>6, <2>1, <2>4, <2>5, <2>6, <2>7, <2>9 DEF Accounted
<1> QED
  BY <1>10, <1>11, <1>13, <1>14 DEF CallHeld

-----------------------------------------------------------------------------
(***************************************************************************)
(* The invariant holds at first and is kept by every step.                 *)
(***************************************************************************)

\* A caller has been in its call before, or sends the invite now.
LEMMA CallerBefore ==
  ASSUME Sound, NEW x \in Clients, Moves(x), NEW c \in Clients, Caller(c)'
  PROVE  \E p, k, t :
           /\ p = page'[c].pc /\ k = page'[c].callId /\ t = page'[c].peer
           /\ \/ Caller(c) /\ p = page[c].pc /\ k = page[c].callId /\ t = page[c].peer
              \/ /\ c = x /\ Calm(x) /\ k = page[x].callId /\ t = page[x].peer
                 /\ \E task : Inviting(x, task) /\ p = task.pc
<1>1. CallsStill(c) /\ Calm(c)
  BY AllStill DEF Caller
<1>2. CASE /\ Caller(c) /\ page'[c].pc = page[c].pc
           /\ page'[c].peer = page[c].peer /\ page'[c].callId = page[c].callId
  BY <1>2
<1>3. ASSUME NEW task, Inviting(c, task)
      PROVE  /\ c = x /\ Calm(x) /\ page'[c].callId = page[x].callId
             /\ page'[c].peer = page[x].peer /\ page'[c].pc = task.pc
  <2>1. tasks'[c] = tasks[c] \ {task} /\ PageStays(c) /\ task \in tasks[c]
    BY <1>3, Inviter DEF Inviting
  <2>2. c = x
    BY <2>1, OthersKeep
  <2>3. task.pc = page[c].pc
    BY <1>1, <1>3, FirstInvite
  <2> QED
    BY <1>1, <2>1, <2>2, <2>3 DEF PageStays
<1> QED
  BY <1>1, <1>2, <1>3 DEF CallsStill

LEMMA CallsKept ==
  ASSUME Sound, NEW x \in Clients, Moves(x)
  PROVE  Offers' /\ Held'
<1>1. ASSUME NEW c \in Clients, Caller(c)'
      PROVE  /\ OfferKnown(c, page[c].pc, page[c].callId, page[c].peer)'
             /\ CallHeld(c, page[c].pc, page[c].callId, page[c].peer)'
  <2>1. PICK p, k, t :
          /\ p = page'[c].pc /\ k = page'[c].callId /\ t = page'[c].peer
          /\ \/ Caller(c) /\ p = page[c].pc /\ k = page[c].callId /\ t = page[c].peer
             \/ /\ c = x /\ Calm(x) /\ k = page[x].callId /\ t = page[x].peer
                /\ \E task : Inviting(x, task) /\ p = task.pc
    BY <1>1, CallerBefore
  <2>2. CASE Caller(c) /\ p = page[c].pc /\ k = page[c].callId /\ t = page[c].peer
    <3>1. OfferKnown(c, p, k, t) /\ CallHeld(c, p, k, t)
      BY <2>2 DEF Sound, Agreed, Offers, Held
    <3>2. t \in Clients
      BY <2>2 DEF Sound, Agreed, Staged, Caller, Calling, Typed, TypeOK, Pages
    <3>3. OfferKnown(c, p, k, t)' /\ CallHeld(c, p, k, t)'
      BY <1>1, <2>2, <3>1, <3>2, OfferStays, HeldStays
    <3> QED
      BY <2>1, <3>3
  <2>3. ASSUME c = x, Calm(x), k = page[x].callId, t = page[x].peer,
               NEW task, Inviting(x, task), p = task.pc
        PROVE  OfferKnown(c, p, k, t)' /\ CallHeld(c, p, k, t)'
    BY <2>3, OfferNew, HeldNew
  <2> QED
    BY <2>1, <2>2, <2>3
<1> QED
  BY <1>1 DEF Offers, Held

LEMMA AnswersKept ==
  ASSUME Sound, NEW x \in Clients, Moves(x)
  PROVE  Answers'
<1>1. ASSUME NEW c \in Clients, Callee(c)'
      PROVE  AnswerKnown(page[c].pc)'
  <2>1. AnsweredStill(c) /\ Calm(c)
    BY <1>1, AllStill DEF Callee
  <2>2. PICK q : q = page'[c].pc
    OBVIOUS
  <2>3. CASE Callee(c) /\ q = page[c].pc
    <3>1. AnswerKnown(q)
      BY <2>3 DEF Sound, Agreed, Answers
    <3> QED
      BY <2>2, <2>3, <3>1, AnswerStays
  <2>4. ASSUME NEW task, Replying(c, task)
        PROVE  AnswerKnown(q)'
    <3>1. /\ tasks'[c] = tasks[c] \ {task} /\ PageStays(c) /\ task \in tasks[c]
          /\ task.at = "answer"
      BY <2>4, Replier DEF Replying
    <3>2. c = x
      BY <3>1, OthersKeep
    <3>3. task.pc = q
      BY <2>1, <2>2, <3>1, OneHandler DEF PageStays
    <3> QED
      BY <2>4, <3>2, <3>3, AnswerNew
  <2> QED
    BY <1>1, <2>1, <2>2, <2>3, <2>4 DEF AnsweredStill
<1> QED
  BY <1>1 DEF Answers

LEMMA AgreedStep ==
  ASSUME Sound, Typed', [Next]_vars
  PROVE  Agreed'
<1>1. CASE Next
  <2>1. PICK x \in Clients : Moves(x)
    BY <1>1, StepMoves, LeaveMoves DEF Next, Acts
  <2>2. Owned' /\ NothingSaid' /\ Numbered'
    BY <2>1, OwnedKept, NothingSaidKept, NumberedKept
  <2>3. \A c \in Clients : Staged(c)' /\ NewCall(c)'
    BY <2>1, AllStill, NewCallKept
  <2> QED
    BY <2>1, <2>2, <2>3, CallsKept, AnswersKept DEF Agreed
<1>2. CASE UNCHANGED vars
  <2>1. Agreed
    BY DEF Sound
  <2>2. UNCHANGED <<page, tasks, conn, mailbox, online, dialogs, leaving, calls, disturbed>>
    BY <1>2 DEF vars
  <2>3. Owned' /\ Numbered' /\ \A k : Owing(k)' = Owing(k)
    BY <2>1, <2>2 DEF Agreed, Owned, Numbered, Owing, Mail
  <2>4. NothingSaid'
    BY <2>1, <2>2 DEF Agreed, NothingSaid, Undescribed, Unsaid, Mail
  <2>5. \A c \in Clients : Calm(c)' = Calm(c) /\ \A at : Waits(c, at)' = Waits(c, at)
    BY <2>2 DEF Calm, OneCallAtATime, Waits
  <2>6. ASSUME NEW c \in Clients
        PROVE  Staged(c)' /\ NewCall(c)'
    <3>1. Staged(c) /\ NewCall(c)
      BY <2>1 DEF Agreed
    <3>2. \A task \in tasks[c] : Serves(c, task) => Serves(c, task)'
      BY <2>2, <2>5 DEF Serves, HasRemoteOffer
    <3>3. Staged(c)'
      BY <2>2, <2>5, <3>1, <3>2 DEF Staged, Preparing, Calling
    <3>4. NewCall(c)'
      BY <2>2, <2>3, <2>5, <3>1 DEF NewCall, Placing, Mail
    <3> QED
      BY <3>3, <3>4
  <2>7. \A c \in Clients : Caller(c)' = Caller(c) /\ Callee(c)' = Callee(c)
    BY <2>2, <2>5 DEF Caller, Callee
  <2>8. \A d \in Clients : \A p : Answering(d, p)' = Answering(d, p)
    BY <2>2, <2>5 DEF Answering
  <2>9. ASSUME NEW c \in Clients, NEW p, NEW k, NEW t
        PROVE  /\ OfferKnown(c, p, k, t) => OfferKnown(c, p, k, t)'
               /\ CallHeld(c, p, k, t) => CallHeld(c, p, k, t)'
               /\ AnswerKnown(p) => AnswerKnown(p)'
    <3>1. OfferKnown(c, p, k, t) => OfferKnown(c, p, k, t)'
      BY <2>2, <2>5, <2>7, <2>8 DEF OfferKnown, Mail
    <3>2. Accounted(c, t, k) => Accounted(c, t, k)'
      BY <2>2 DEF Accounted, Told, Due, Missed, Mail
    <3>3. CallHeld(c, p, k, t) => CallHeld(c, p, k, t)'
      BY <2>2, <2>5, <2>8, <3>2 DEF CallHeld, Calm, OneCallAtATime, Answering, Waits, Mail
    <3>4. AnswerKnown(p) => AnswerKnown(p)'
      BY <2>2, <2>5, <2>8 DEF AnswerKnown, Mail
    <3> QED
      BY <3>1, <3>3, <3>4
  <2>10. Offers' /\ Held' /\ Answers'
    BY <2>1, <2>2, <2>7, <2>9 DEF Agreed, Offers, Held, Answers
  <2> QED
    BY <2>3, <2>4, <2>6, <2>10 DEF Agreed
<1> QED
  BY <1>1, <1>2

LEMMA InitAgreed == Init => Agreed
<1> SUFFICES ASSUME Init
             PROVE  Agreed
  OBVIOUS
<1>1. /\ \A c \in Clients : /\ page[c] = BlankPage /\ tasks[c] = {} /\ Mail(c) = {}
                            /\ mailbox[c] = <<>>
      /\ \A p \in Connections : conn[p] = [Fresh EXCEPT !.state = "none"]
      /\ \A k \in Calls : dialogs[k] = {} /\ ~Owing(k)
  BY DEF Init, Mail, Range, Owing
<1>2. /\ \A c \in Clients : /\ page[c].pc = None /\ page[c].callId = None
                            /\ page[c].offer = None
      /\ \A p \in Connections : /\ conn[p].state = "none" /\ conn[p].local = "none"
                                /\ conn[p].remote = None
  BY <1>1 DEF BlankPage, Fresh
<1>3. Owned /\ Numbered
  BY <1>1, <1>2 DEF Owned, Numbered
<1>4. NothingSaid
  BY <1>1, <1>2, NoneIsNobodys DEF NothingSaid, Unsaid
<1>5. \A c \in Clients : ~Caller(c) /\ ~Callee(c) /\ ~Placing(c) /\ Staged(c)
  BY <1>1, <1>2 DEF Caller, Callee, Placing, Waits, Staged, Preparing
<1> QED
  BY <1>3, <1>4, <1>5 DEF Agreed, NewCall, Offers, Held, Answers

-----------------------------------------------------------------------------
(***************************************************************************)
(* What the invariant says of two pages whose connections are paired.      *)
(***************************************************************************)

\* Of two paired connections one has made the offer.
LEMMA OneOffers ==
  ASSUME Sound, NEW c \in Clients, NEW d \in Clients, Calm(c), Calm(d),
         Paired(page[c].pc, page[d].pc)
  PROVE  conn[page[c].pc].local = "offer" \/ conn[page[d].pc].local = "offer"
<1> DEFINE p == page[c].pc
           q == page[d].pc
<1>1. /\ Typed /\ p \in Connections /\ q \in Connections
      /\ p # None /\ q # None /\ conn[p].remote = q /\ conn[q].remote = p
  BY DEF Sound, Typed, TypeOK, Pages, Paired
<1>2. SUFFICES ASSUME conn[p].local # "offer", conn[q].local # "offer"
               PROVE  FALSE
  OBVIOUS
<1>3. Answering(c, q) /\ Answering(d, p)
  BY <1>1, <1>2 DEF Answering
<1>4. ~Callee(c) /\ ~Callee(d)
  BY <1>3 DEF Sound, Agreed, Answers, AnswerKnown
<1>5. conn[p].local = "none" /\ conn[p].state = "open"
  <2>1. conn[p].local \in {"none", "offer", "answer"}
    BY <1>1 DEF Typed, TypeOK, PeerConnections
  <2>2. conn[p].local # "answer"
    BY <1>1, <1>4 DEF Callee
  <2>3. conn[p].state = "open"
    BY <1>1 DEF Sound, Agreed, Staged, Calling
  <2> QED
    BY <1>2, <2>1, <2>2, <2>3
<1>6. Unsaid(p)
  BY <1>1, <1>5 DEF Sound, Agreed, NothingSaid, Undescribed
<1> QED
  BY <1>1, <1>6 DEF Unsaid

\* The other answers it.
LEMMA OfferAndAnswer ==
  ASSUME Sound, NEW c \in Clients, NEW d \in Clients, Calm(c), Calm(d),
         Paired(page[c].pc, page[d].pc), conn[page[c].pc].local = "offer"
  PROVE  /\ page[c].peer = d /\ page[d].peer = c /\ page[c].callId = page[d].callId
         /\ Caller(c) /\ Answering(d, page[c].pc) /\ Accounted(c, d, page[c].callId)
<1>1. Caller(c) /\ page[d].pc # None /\ conn[page[d].pc].remote = page[c].pc
  BY DEF Caller, Paired
<1>2. /\ OfferKnown(c, page[c].pc, page[c].callId, page[c].peer)
      /\ CallHeld(c, page[c].pc, page[c].callId, page[c].peer)
  BY <1>1 DEF Sound, Agreed, Offers, Held
<1>3. ~Caller(d)
  BY <1>1, <1>2 DEF OfferKnown
<1>4. Answering(d, page[c].pc)
  BY <1>1, <1>3 DEF Answering, Caller
<1>5. page[c].peer = d /\ page[d].peer = c /\ page[c].callId = page[d].callId
  BY <1>2, <1>4 DEF OfferKnown
<1> QED
  BY <1>1, <1>2, <1>4, <1>5 DEF CallHeld

LEMMA SharedWhenAgreed ==
  ASSUME Sound
  PROVE  CallIsShared
<1> SUFFICES ASSUME NEW c \in Clients, NEW d \in Clients, Calm(c), Calm(d),
                    Paired(page[c].pc, page[d].pc)
             PROVE  /\ page[c].peer = d /\ page[d].peer = c
                    /\ page[c].callId = page[d].callId
                    /\ \/ dialogs[page[c].callId] = {c, d}
                       \/ EndOnItsWay(c, d) \/ EndOnItsWay(d, c)
                       \/ ByeDue(c, page[c].callId) \/ ByeDue(d, page[c].callId)
                       \/ Missed(c) \/ Missed(d)
  BY DEF CallIsShared
<1> DEFINE p == page[c].pc
           q == page[d].pc
<1>1. /\ Typed /\ p \in Connections /\ q \in Connections
      /\ p # None /\ q # None /\ conn[p].remote = q /\ conn[q].remote = p
  BY DEF Sound, Typed, TypeOK, Pages, Paired
<1>2. Paired(q, p)
  BY <1>1 DEF Paired
<1>3. conn[p].local = "offer" \/ conn[q].local = "offer"
  BY OneOffers
<1>4. /\ page[c].peer = d /\ page[d].peer = c /\ page[c].callId = page[d].callId
      /\ Accounted(c, d, page[c].callId) \/ Accounted(d, c, page[c].callId)
  BY <1>2, <1>3, OfferAndAnswer
<1>5. \A k : /\ Told(c, d, k) => EndOnItsWay(c, d)
             /\ Told(d, c, k) => EndOnItsWay(d, c)
             /\ Due(c, d, k) => ByeDue(c, k)
             /\ Due(d, c, k) => ByeDue(d, k)
  BY DEF Told, EndOnItsWay, Awaits, Mail, Due, ByeDue
<1> QED
  BY <1>4, <1>5 DEF Accounted

\* In every behaviour the two parties of a call mean the same call, whatever other
\* calls, disconnects and refusals there are around it, and wherever the server's
\* clean-up of a disconnect waits.  Until one of them has been told of its end, the
\* books, the mail, or a bye that is due account for it, or it is on record that one
\* of them was not there to be told, or lost what it was told, or stood behind a send
\* that raised (handleIncomingCall, answerBtn, hangupBtn, endCall; server.py:313-339).
THEOREM CallsAgree == Spec => []CallIsShared
<1>1. Init => AllInHand /\ Agreed
  BY InitAgreed DEF Init, AllInHand, InHand, BlankPage, Fresh
<1>2. Typed /\ Typed' /\ AllInHand /\ Agreed /\ [Next]_vars => AllInHand' /\ Agreed'
  BY InHandStep, AgreedStep DEF Sound
<1>3. Typed /\ AllInHand /\ Agreed => CallIsShared
  BY SharedWhenAgreed DEF Sound
<1>4. Spec => []Typed
  BY Types
<1> QED
  BY <1>1, <1>2, <1>3, <1>4, PTL DEF Spec

===============================================================================
