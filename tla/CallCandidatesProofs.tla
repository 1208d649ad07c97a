-------------------------- MODULE CallCandidatesProofs --------------------------
(***************************************************************************)
(* Proofs about CallSetup, continued: no candidate of either party of a    *)
(* call is lost on the way to the connection of the other.                 *)
(***************************************************************************)
EXTENDS CallAgreementProofs

-----------------------------------------------------------------------------
(***************************************************************************)
(* The invariants, on top of those of CallAgreementProofs.                 *)
(***************************************************************************)

\* The message brings the candidate of connection q.
IsCandidate(message, q) ==
  message.type = "ice" /\ message.candidate = q /\ message.from = q[1]

Coming(c, q) == \E message \in Mail(c) : IsCandidate(message, q)

\* Client c has the candidate of q in its queue or on its connection.
Has(c, q) ==
  \/ q \in page[c].pending
  \/ page[c].pc # None /\ q \in conn[page[c].pc].candidates

Arrives(c, q) == Coming(c, q) \/ Has(c, q)

\* A connection that has not described itself has no candidate yet.
NoneFound ==
  \A p \in Connections :
    Undescribed(p) => ~conn[p].gathered /\ \A d \in Clients : ~Coming(d, p)

Connected == drops = 0 => leaving = {} /\ \A c \in Clients : online[c]

\* Candidates wait in the queue only for the remote description.
Flushed(c) ==
  Calm(c) /\ page[c].pc # None /\ conn[page[c].pc].remote # None => page[c].pending = {}

\* The candidate of p comes to t after the invite with the offer p.
OfferFirst(p, t) ==
  \A i, j \in DOMAIN mailbox[t] :
    Brings(mailbox[t][j], p) /\ IsCandidate(mailbox[t][i], p) => j <= i

\* It comes to whoever may answer that offer.
OfferFollowed(p, t) ==
  Calm(t) /\ conn[p].gathered /\ drops = 0 =>
    /\ (\E message \in Mail(t) : Brings(message, p)) => Coming(t, p)
    /\ Answering(t, p) => Arrives(t, p)

\* And the candidate of who answers it comes to c.
AnswerFollowed(c, p, t) ==
  /\ Calm(t) /\ Answering(t, p) /\ drops = 0
  /\ page[t].pc # None /\ conn[page[t].pc].gathered
  => Arrives(c, page[t].pc)

Followed(c, p, t) == OfferFirst(p, t) /\ OfferFollowed(p, t) /\ AnswerFollowed(c, p, t)

Known ==
  /\ NoneFound /\ Connected
  /\ \A c \in Clients : Flushed(c)
  /\ \A c \in Clients : Caller(c) => Followed(c, page[c].pc, page[c].peer)

-----------------------------------------------------------------------------
(***************************************************************************)
(* What a step of client x does about candidates.                          *)
(***************************************************************************)

\* It reads the candidate of q.
Finds(x, q) == Read(x) /\ IsCandidate(Head(mailbox[x]), q)

\* What it has, or finds, it keeps as long as its call lasts.
Keeps(x) ==
  Calm(x)' => Over(x) \/ \A q \in Connections : Has(x, q) \/ Finds(x, q) => Has(x, q)'

\* A new connection of the page has no candidate.
GatheredStill(x) ==
  Calm(x)' /\ page'[x].pc # None /\ conn'[page'[x].pc].gathered =>
    page'[x].pc = page[x].pc

CandidateMoves(x) ==
  /\ \A p \in Connections : p[1] # x => conn'[p] = conn[p]
  /\ \A p \in Connections : conn'[p].gathered => conn[p].gathered \/ Gathered(x, p)
  /\ drops' = 0 => drops = 0 /\ \A c \in Clients : online[c] => online'[c]
  /\ Keeps(x) /\ Flushed(x)' /\ GatheredStill(x)

\* The page and its connections are as before.
LEMMA NothingFound ==
  ASSUME NEW x \in Clients, Flushed(x), disturbed \subseteq disturbed', conn' = conn,
         page'[x].pc = page[x].pc, page'[x].pending = page[x].pending,
         \A q \in Connections : ~Finds(x, q),
         drops' = 0 => drops = 0 /\ \A c \in Clients : online[c] => online'[c]
  PROVE  CandidateMoves(x)
<1>1. Keeps(x)
  BY DEF Keeps, Has
<1>2. Calm(x)' => Calm(x)
  BY CalmBefore
<1>3. Flushed(x)'
  BY <1>2 DEF Flushed
<1> QED
  BY <1>1, <1>3 DEF CandidateMoves, GatheredStill

\* The call ends.
LEMMA EndCallFinds ==
  ASSUME Typed, Owned, NEW x \in Clients, NEW rest \in SUBSET tasks[x], NEW mishaps,
         EndCallAnd(x, rest, mishaps), UNCHANGED <<online, drops>>
  PROVE  CandidateMoves(x)
<1>1. page'[x].pc = None /\ Over(x)
  BY EndCallIsOver
<1>2. conn' = Closed(page[x].pc)
  BY DEF EndCallAnd
<1>3. ASSUME NEW p \in Connections
      PROVE  /\ p[1] # x => conn'[p] = conn[p]
             /\ conn'[p].gathered => conn[p].gathered
  <2>1. conn \in [Connections -> PeerConnections]
    BY DEF Typed, TypeOK
  <2>2. page[x].pc # None => page[x].pc[1] = x
    BY DEF Owned
  <2>3. ~[Fresh EXCEPT !.state = "closed"].gathered
    BY DEF Fresh
  <2> HIDE DEF Fresh
  <2>4. CASE p = page[x].pc
    BY <1>2, <2>1, <2>2, <2>3, <2>4 DEF Closed
  <2>5. CASE p # page[x].pc
    BY <1>2, <2>1, <2>5 DEF Closed
  <2> QED
    BY <2>4, <2>5
<1> QED
  BY <1>1, <1>3 DEF CandidateMoves, Keeps, Flushed, GatheredStill

\* The page opens a connection.
LEMMA OpenedFinds ==
  ASSUME Sound, NoneFound, NEW x \in Clients, NEW task \in tasks[x],
         task.at \in AtMicrophone, NEW next, Opened(x, task, next),
         UNCHANGED <<mailbox, online, drops, disturbed>>
  PROVE  CandidateMoves(x)
<1>1. /\ Typed /\ Staged(x) /\ NothingSaid
      /\ conn \in [Connections -> PeerConnections] /\ page[x] \in Pages
  BY DEF Sound, Agreed, Typed, TypeOK
<1>2. PICK p \in Connections :
        p = NextConnection(x) /\ p[1] = x /\ conn[p].state = "none"
  BY NextIsUnused DEF Opened, Unused
<1>3. conn[p].remote = None /\ ~conn[p].gathered
  BY <1>1, <1>2 DEF NothingSaid, NoneFound, Undescribed
<1>4. /\ \A q \in Connections \ {p} : conn'[q] = conn[q]
      /\ conn'[p].remote = None /\ ~conn'[p].gathered
  <2>1. conn' = [conn EXCEPT ![p] = [conn[p] EXCEPT !.state = "open"]]
    BY <1>1, <1>2 DEF Opened
  <2>2. conn[p] \in PeerConnections
    BY <1>1
  <2>3. /\ [conn[p] EXCEPT !.state = "open"].remote = conn[p].remote
        /\ [conn[p] EXCEPT !.state = "open"].gathered = conn[p].gathered
    BY <2>2 DEF PeerConnections
  <2> QED
    BY <1>1, <1>3, <2>1, <2>3
<1>5. page'[x].pc = p /\ page'[x].pending = page[x].pending
  <2>1. page' = [page EXCEPT ![x] = [page[x] EXCEPT !.pc = p]]
    BY <1>1, <1>2 DEF Opened, Typed, TypeOK
  <2>2. page'[x] = [page[x] EXCEPT !.pc = p]
    BY <1>1, <2>1 DEF Typed, TypeOK
  <2> QED
    BY <1>1, <2>2 DEF Pages
<1>6. Calm(x)' => page[x].pc = None
  <2>1. Calm(x)' => Calm(x)
    BY CalmBefore
  <2> QED
    BY <1>1, <2>1 DEF Staged, Calling, Serves
<1>7. Keeps(x)
  <2>1. ~Read(x)
    BY <1>1 DEF Read, Typed, TypeOK
  <2> QED
    BY <1>5, <1>6, <2>1 DEF Keeps, Has, Finds
<1>8. GatheredStill(x) /\ Flushed(x)'
  BY <1>4, <1>5 DEF GatheredStill, Flushed
<1> QED
  BY <1>2, <1>4, <1>7, <1>8 DEF CandidateMoves

\* A client that reads has one message less.
LEMMA NotShorter ==
  ASSUME Typed, NEW x \in Clients,
         \/ mailbox'[x] = mailbox[x]
         \/ \E m \in Messages : mailbox'[x] = Append(mailbox[x], m)
  PROVE  ~Read(x)
<1>1. SUFFICES ASSUME Read(x)
               PROVE  FALSE
  OBVIOUS
<1>2. PICK m \in Messages : mailbox'[x] \in {mailbox[x], Append(mailbox[x], m)}
  <2>1. Head(mailbox[x]) \in Messages
    BY <1>1 DEF Read, Typed, TypeOK
  <2> QED
    BY <2>1
<1>3. /\ mailbox[x] \in Seq(Messages) /\ mailbox[x] # <<>>
      /\ mailbox'[x] = Tail(mailbox[x])
  BY <1>1 DEF Read, Typed, TypeOK
<1>4. Len(mailbox'[x]) = Len(mailbox[x]) - 1
  BY <1>3
<1>5. Len(mailbox'[x]) \in {Len(mailbox[x]), Len(mailbox[x]) + 1}
  BY <1>2, <1>3
<1> QED
  BY <1>3, <1>4, <1>5

LEMMA NotReading ==
  ASSUME Typed, NEW x \in Clients,
         \/ mailbox' = mailbox
         \/ \E target : \E message \in Messages : mailbox' = Sent(x, target, message)
  PROVE  ~Read(x)
<1>1. CASE mailbox' = mailbox
  BY <1>1, NotShorter
<1>2. ASSUME NEW target, NEW message \in Messages, mailbox' = Sent(x, target, message)
      PROVE  mailbox'[x] \in {mailbox[x], Append(mailbox[x], message)}
  BY <1>2, SentLast
<1> QED
  BY <1>1, <1>2, NotShorter

\* Nor does it read when the server's handler of its WebSocket that closed goes on.
LEMMA LeaveReadsNot ==
  ASSUME Typed, NEW x \in Clients, NEW h \in leaving, Leave(h)
  PROVE  ~Read(x)
<1>1. h \in Handlers /\ h.client \in Clients
  BY DEF Typed, TypeOK, Handlers
<1>2. h.ended \subseteq Clients \X Calls
  BY <1>1 DEF Handlers
<1>3. mailbox' = mailbox \/ \E e \in Clients \X Calls : Tells(h, e)
  BY <1>2, LeavingSettles, PartnersType DEF Settled
<1>4. ASSUME NEW e \in Clients \X Calls, Tells(h, e)
      PROVE  ~Read(x)
  <2> DEFINE bye == [type |-> "bye", from |-> h.client, callId |-> e[2]]
  <2>1. bye \in Messages
    BY <1>1, <1>4 DEF Messages, Ends
  <2>2. mailbox' = [mailbox EXCEPT ![e[1]] = Append(@, bye)]
    BY <1>4 DEF Tells
  <2> HIDE DEF bye
  <2>3. mailbox'[x] = mailbox[x] \/ mailbox'[x] = Append(mailbox[x], bye)
    BY <2>2 DEF Typed, TypeOK
  <2> QED
    BY <2>1, <2>3, NotShorter
<1> QED
  BY <1>3, <1>4, NotShorter

\* One connection of x is written to, and keeps its candidates.
LEMMA WriteFinds ==
  ASSUME Typed, NEW x \in Clients, Flushed(x), disturbed \subseteq disturbed',
         NEW p \in Connections, p[1] = x, NEW d, conn' = [conn EXCEPT ![p] = d],
         d.remote = conn[p].remote, d.candidates = conn[p].candidates,
         d.gathered => conn[p].gathered \/ Gathered(x, p),
         page'[x].pc = page[x].pc, page'[x].pending = page[x].pending,
         ~Read(x), UNCHANGED <<online, drops>>
  PROVE  CandidateMoves(x)
<1>1. conn'[p] = d /\ \A q \in Connections \ {p} : conn'[q] = conn[q]
  BY ConnChanges
<1>2. page[x].pc # None => page[x].pc \in Connections
  BY DEF Typed, TypeOK, Pages
<1>3. page[x].pc # None => /\ conn'[page[x].pc].remote = conn[page[x].pc].remote
                           /\ conn'[page[x].pc].candidates = conn[page[x].pc].candidates
  BY <1>1, <1>2
<1>4. Keeps(x)
  BY <1>3 DEF Keeps, Has, Finds
<1>5. Flushed(x)'
  BY <1>3, CalmBefore DEF Flushed
<1>6. \A q \in Connections : conn'[q].gathered => conn[q].gathered \/ Gathered(x, q)
  BY <1>1
<1> QED
  BY <1>1, <1>4, <1>5, <1>6 DEF CandidateMoves, GatheredStill

LEMMA GatheredFinds ==
  ASSUME Typed, NEW x \in Clients, Flushed(x), NEW p \in Connections, Gathered(x, p)
  PROVE  CandidateMoves(x)
<1> DEFINE d == [conn[p] EXCEPT !.gathered = TRUE]
<1>1. /\ conn' = [conn EXCEPT ![p] = d] /\ p[1] = x
      /\ UNCHANGED <<page, online, drops, disturbed>>
  BY DEF Gathered, Typed, TypeOK
<1>2. d.remote = conn[p].remote /\ d.candidates = conn[p].candidates
  <2>1. conn[p] \in PeerConnections
    BY DEF Typed, TypeOK
  <2> QED
    BY <2>1 DEF PeerConnections
<1>3. ~Read(x)
  <2> DEFINE message == [type |-> "ice", from |-> x, candidate |-> p]
  <2>1. message \in Messages
    BY DEF Messages
  <2>2. mailbox' = Sent(x, page[x].peer, message)
    BY DEF Gathered
  <2> HIDE DEF message
  <2> QED
    BY <2>1, <2>2, NotReading
<1> HIDE DEF d
<1> QED
  BY <1>1, <1>2, <1>3, WriteFinds

\* A description is sent.
LEMMA SenderFinds ==
  ASSUME Typed, Owned, NEW x \in Clients, Flushed(x), NEW task \in tasks[x],
         SendInvite(x, task) \/ SendAnswer(x, task)
  PROVE  CandidateMoves(x)
<1>1. /\ task.at \in {"offer", "answer"} /\ task.pc \in Connections /\ task.pc[1] = x
      /\ UNCHANGED <<online, drops, disturbed>>
  BY TaskKinds DEF SendInvite, SendAnswer, Owned, AtMicrophone, Typed, TypeOK
<1>2. page[x] \in Pages /\ conn[task.pc] \in PeerConnections
  BY <1>1 DEF Typed, TypeOK
<1>3. page'[x].pc = page[x].pc /\ page'[x].pending = page[x].pending
  <2>1. page' \in {[page EXCEPT ![x] = [page[x] EXCEPT !.hangup = TRUE]],
                   [page EXCEPT ![x] = Started(page[x])]}
    BY DEF SendInvite, SendAnswer, Typed, TypeOK
  <2>2. page'[x] \in {[page[x] EXCEPT !.hangup = TRUE], Started(page[x])}
    BY <2>1 DEF Typed, TypeOK
  <2> QED
    BY <1>2, <2>2 DEF Pages, Started
<1>4. PICK local : conn' = [conn EXCEPT ![task.pc] = [conn[task.pc] EXCEPT !.local = local]]
  BY <1>1 DEF SendInvite, SendAnswer, Typed, TypeOK
<1>5. PICK d : d = [conn[task.pc] EXCEPT !.local = local]
  OBVIOUS
<1>6. /\ d.remote = conn[task.pc].remote /\ d.candidates = conn[task.pc].candidates
      /\ d.gathered = conn[task.pc].gathered
  BY <1>2, <1>5 DEF PeerConnections
<1>7. ~Read(x)
  <2>1. CASE SendInvite(x, task)
    <3> DEFINE message == [type |-> "invite", from |-> x, sdp |-> task.pc,
                           callId |-> page[x].callId]
    <3>1. message \in Messages
      BY <1>1, <1>2 DEF Messages, Pages
    <3>2. mailbox' = Sent(x, task.target, message)
      BY <2>1 DEF SendInvite
    <3> HIDE DEF message
    <3> QED
      BY <3>1, <3>2, NotReading
  <2>2. CASE SendAnswer(x, task)
    <3> DEFINE message == [type |-> "answer", from |-> x, sdp |-> task.pc,
                           callId |-> page[x].callId]
    <3>1. message \in Messages
      BY <1>1, <1>2 DEF Messages, Pages
    <3>2. mailbox' = Sent(x, page[x].peer, message)
      BY <2>2 DEF SendAnswer
    <3> HIDE DEF message
    <3> QED
      BY <3>1, <3>2, NotReading
  <2> QED
    BY <2>1, <2>2
<1> QED
  BY <1>1, <1>3, <1>4, <1>5, <1>6, <1>7, WriteFinds

\* A connection gains candidates.
Gains(before, more) == [before EXCEPT !.candidates = @ \cup more]

LEMMA Gaining ==
  ASSUME NEW before \in PeerConnections, NEW more \in SUBSET Connections
  PROVE  /\ Gains(before, more) \in PeerConnections
         /\ Gains(before, more).gathered = before.gathered
         /\ Gains(before, more).remote = before.remote
         /\ Gains(before, more).candidates = before.candidates \cup more
BY DEF Gains, PeerConnections

LEMMA IceKind ==
  ASSUME NEW message \in Messages, message.type = "ice"
  PROVE  message.candidate \in Connections
BY DEF Messages, Ends

\* A candidate is read.
LEMMA CandidateFinds ==
  ASSUME Typed, Owned, NEW x \in Clients, Flushed(x), Read(x),
         ReadCandidate(x, Head(mailbox[x]))
  PROVE  CandidateMoves(x)
<1> DEFINE q == Head(mailbox[x]).candidate
           p == page[x].pc
<1>1. Head(mailbox[x]) \in Messages /\ Head(mailbox[x]).type = "ice"
  BY DEF Read, ReadCandidate, Typed, TypeOK
<1>2. q \in Connections
  BY <1>1, IceKind
<1>3. page[x] \in Pages /\ p \in Connections \cup {None} /\ (p # None => p[1] = x)
  BY DEF Owned, Typed, TypeOK, Pages
<1>4. UNCHANGED <<online, drops, disturbed>>
  BY DEF Read, ReadCandidate
<1>5. \A other \in Connections : Finds(x, other) => other = q
  BY DEF Finds, IsCandidate
<1> HIDE DEF q
<1>6. CASE p = None \/ conn[p].remote = None
  <2>1. conn' = conn /\ page' = [page EXCEPT ![x].pending = @ \cup {q}]
    BY <1>6 DEF ReadCandidate, CandidateTaken, q
  <2>2. page'[x] = [page[x] EXCEPT !.pending = @ \cup {q}]
    BY <2>1 DEF Typed, TypeOK
  <2>3. page'[x].pc = p /\ page'[x].pending = page[x].pending \cup {q}
    BY <1>3, <2>2 DEF Pages
  <2>4. Keeps(x)
    BY <1>5, <2>1, <2>3 DEF Keeps, Has
  <2>5. Flushed(x)' /\ GatheredStill(x)
    BY <1>6, <2>1, <2>3 DEF Flushed, GatheredStill
  <2> QED
    BY <1>4, <2>1, <2>4, <2>5 DEF CandidateMoves
<1>7. CASE p # None /\ conn[p].remote # None
  <2>1. page' = page /\ conn' = [conn EXCEPT ![p] = Gains(conn[p], {q})]
    BY <1>3, <1>7 DEF ReadCandidate, CandidateTaken, q, Gains, Typed, TypeOK
  <2>2. conn'[p] = Gains(conn[p], {q}) /\ \A o \in Connections \ {p} : conn'[o] = conn[o]
    BY <1>3, <1>7, <2>1, ConnChanges
  <2>3. /\ conn'[p].gathered = conn[p].gathered /\ conn'[p].remote = conn[p].remote
        /\ conn'[p].candidates = conn[p].candidates \cup {q}
    <3>1. conn[p] \in PeerConnections
      BY <1>3, <1>7 DEF Typed, TypeOK
    <3> QED
      BY <1>2, <2>2, <3>1, Gaining
  <2>4. Keeps(x)
    BY <1>5, <1>7, <2>1, <2>3 DEF Keeps, Has
  <2>5. Flushed(x)'
    BY <1>4, <1>7, <2>1, <2>3, CalmBefore DEF Flushed
  <2>6. \A o \in Connections : o[1] # x => conn'[o] = conn[o]
    BY <1>3, <1>7, <2>2
  <2>7. \A o \in Connections : conn'[o].gathered => conn[o].gathered
    BY <2>2, <2>3
  <2> QED
    BY <1>4, <2>1, <2>4, <2>5, <2>6, <2>7 DEF CandidateMoves, GatheredStill
<1> QED
  BY <1>6, <1>7

\* A remote description is set, and the queue is emptied onto the connection.
LEMMA DescribedFinds ==
  ASSUME Sound, NEW x \in Clients, Flushed(x), NEW task \in tasks[x],
         \/ RemoteOfferSet(x, task)
         \/ RemoteAnswerSet(x, task) /\ HasLocalOffer(task.pc)
  PROVE  CandidateMoves(x)
<1> DEFINE p   == task.pc
           o   == page[x].pc
           set == [conn EXCEPT ![p] = [conn[p] EXCEPT !.remote = task.sdp]]
<1>1. /\ Typed /\ Owned
      /\ conn \in [Connections -> PeerConnections] /\ page[x] \in Pages
  BY DEF Sound, Agreed, Typed, TypeOK
<1>2. /\ task.at \in {"remote offer", "remote answer"}
      /\ conn' = WithRemote(x, p, task.sdp)
      /\ UNCHANGED <<mailbox, online, drops, disturbed>>
      /\ page'[x] = WithTrack(x)
  BY <1>1 DEF RemoteOfferSet, RemoteAnswerSet, Typed, TypeOK
<1>3. /\ p \in Connections /\ p[1] = x /\ task.sdp \in Connections
      /\ o # None => o \in Connections /\ o[1] = x
  BY <1>1, <1>2, TaskKinds DEF Owned, AtMicrophone, Typed, TypeOK, Pages
<1>4. /\ set \in [Connections -> PeerConnections]
      /\ \A q \in Connections : /\ set[q].gathered = conn[q].gathered
                                /\ set[q].candidates = conn[q].candidates
      /\ \A q \in Connections \ {p} : set[q] = conn[q]
  <2>1. conn[p] \in PeerConnections
    BY <1>1, <1>3
  <2>2. /\ [conn[p] EXCEPT !.remote = task.sdp] \in PeerConnections
        /\ [conn[p] EXCEPT !.remote = task.sdp].gathered = conn[p].gathered
        /\ [conn[p] EXCEPT !.remote = task.sdp].candidates = conn[p].candidates
    BY <1>3, <2>1 DEF PeerConnections
  <2> QED
    BY <1>1, <1>3, <2>2
<1>5. conn' = IF o = None THEN set
              ELSE [set EXCEPT ![o] = Gains(set[o], page[x].pending)]
  BY <1>1, <1>2, <1>3 DEF WithRemote, Gains
<1>6. WithTrack(x).pc = o /\ WithTrack(x).pending = {}
  BY <1>1 DEF WithTrack, Started, Pages
<1>7. ~Read(x)
  BY <1>1, <1>2, NotReading
<1> HIDE DEF set
<1>8. /\ \A q \in Connections : conn'[q].gathered = conn[q].gathered
      /\ \A q \in Connections : q[1] # x => conn'[q] = conn[q]
      /\ o # None => conn'[o].candidates = conn[o].candidates \cup page[x].pending
  <2>1. CASE o = None
    BY <1>3, <1>4, <1>5, <2>1
  <2>2. CASE o # None
    <3>1. set[o] \in PeerConnections /\ page[x].pending \in SUBSET Connections
      BY <1>1, <1>3, <1>4, <2>2 DEF Pages
    <3>2. /\ conn'[o] = Gains(set[o], page[x].pending)
          /\ \A q \in Connections \ {o} : conn'[q] = set[q]
      BY <1>3, <1>4, <1>5, <2>2
    <3>3. /\ conn'[o].gathered = set[o].gathered
          /\ conn'[o].candidates = set[o].candidates \cup page[x].pending
      BY <3>1, <3>2, Gaining
    <3> QED
      BY <1>3, <1>4, <2>2, <3>2, <3>3
  <2> QED
    BY <2>1, <2>2
<1>9. Calm(x)' => page'[x].pc = o /\ o # None /\ page'[x].pending = {}
  <2>1. Calm(x)' => Calm(x)
    BY <1>2, CalmBefore
  <2>2. Calm(x) => o # None
    BY <1>2, OneHandler
  <2> QED
    BY <1>2, <1>6, <2>1, <2>2
<1>10. Keeps(x)
  BY <1>7, <1>8, <1>9 DEF Keeps, Has, Finds
<1>11. Flushed(x)' /\ GatheredStill(x)
  BY <1>9 DEF Flushed, GatheredStill
<1> QED
  BY <1>2, <1>8, <1>10, <1>11 DEF CandidateMoves

\* The other actions do nothing about candidates.
LEMMA IdleFinds ==
  ASSUME Typed, NEW x \in Clients, Flushed(x),
         \/ \E t \in Clients \ {x} : ClickCall(x, t)
         \/ ClickAnswer(x) \/ ClickReject(x) \/ Drop(x) \/ Reconnect(x)
         \/ Read(x) /\ (ReadInvite(x, Head(mailbox[x])) \/ ReadAnswer(x, Head(mailbox[x])))
         \/ \E task \in tasks[x] :
              \/ SetUpHangs(x, task) \/ CandidatesFlushed(x, task)
              \/ RemoteAnswerSet(x, task) /\ ~HasLocalOffer(task.pc)
         \/ \E h \in leaving : Leave(h)
  PROVE  CandidateMoves(x)
<1> USE DEF Typed
<1>1. page[x] \in Pages
  BY DEF TypeOK
<1>2. ASSUME NEW t \in Clients \ {x}, ClickCall(x, t)
      PROVE  CandidateMoves(x)
  <2>1. /\ page' = [page EXCEPT ![x] = [page[x] EXCEPT !.peer = t, !.callId = calls + 1]]
        /\ UNCHANGED <<conn, mailbox, online, drops>> /\ disturbed \subseteq disturbed'
    BY <1>2 DEF ClickCall, TypeOK
  <2>2. page'[x].pc = page[x].pc /\ page'[x].pending = page[x].pending
    BY <1>1, <2>1 DEF Pages, TypeOK
  <2> QED
    BY <2>1, <2>2, NotReading, NothingFound DEF Finds
<1>3. CASE ClickAnswer(x)
  <2>1. /\ page' = [page EXCEPT ![x] = [page[x] EXCEPT !.banner = FALSE]]
        /\ UNCHANGED <<conn, mailbox, online, drops, disturbed>>
    BY <1>3 DEF ClickAnswer, TypeOK
  <2>2. page'[x].pc = page[x].pc /\ page'[x].pending = page[x].pending
    BY <1>1, <2>1 DEF Pages, TypeOK
  <2> QED
    BY <2>1, <2>2, NotReading, NothingFound DEF Finds
<1>4. CASE ClickReject(x)
  <2> DEFINE message == [type |-> "rejected", from |-> x, callId |-> page[x].callId]
  <2>1. /\ page' = [page EXCEPT ![x] = [page[x] EXCEPT !.banner = FALSE, !.peer = None,
                                                       !.callId = None]]
        /\ mailbox' = Sent(x, page[x].peer, message)
        /\ UNCHANGED <<conn, online, drops, disturbed>>
    BY <1>4 DEF ClickReject, TypeOK
  <2>2. page'[x].pc = page[x].pc /\ page'[x].pending = page[x].pending
    BY <1>1, <2>1 DEF Pages, TypeOK
  <2>3. message \in Messages
    BY <1>1 DEF Messages, Ends, Pages
  <2> HIDE DEF message
  <2>4. ~Read(x)
    BY <2>1, <2>3, NotReading
  <2> QED
    BY <2>1, <2>2, <2>4, NothingFound DEF Finds
<1>5. CASE Drop(x)
  <2>1. /\ UNCHANGED <<page, conn>> /\ disturbed \subseteq disturbed'
        /\ online[x] /\ ~online'[x] /\ drops' # 0
    BY <1>5 DEF Drop, TypeOK
  <2>2. ~Read(x)
    BY <2>1 DEF Read
  <2> QED
    BY <2>1, <2>2, NothingFound DEF Finds
<1>6. CASE Reconnect(x)
  <2>1. UNCHANGED <<page, conn, mailbox, drops, disturbed>>
    BY <1>6 DEF Reconnect
  <2>2. \A c \in Clients : online[c] => online'[c]
    BY <1>6 DEF Reconnect, TypeOK
  <2> QED
    BY <2>1, <2>2, NotReading, NothingFound DEF Finds
<1>7. CASE Read(x) /\ ReadInvite(x, Head(mailbox[x]))
  <2> DEFINE m == Head(mailbox[x])
  <2>1. /\ page' = [page EXCEPT ![x] = [page[x] EXCEPT !.peer = m.from, !.callId = m.callId,
                                                       !.offer = m.sdp, !.banner = TRUE]]
        /\ UNCHANGED <<conn, online, drops>> /\ disturbed \subseteq disturbed'
        /\ m.type = "invite"
    BY <1>7 DEF Read, ReadInvite, TypeOK
  <2> HIDE DEF m
  <2>2. page'[x].pc = page[x].pc /\ page'[x].pending = page[x].pending
    BY <1>1, <2>1 DEF Pages, TypeOK
  <2>3. \A q \in Connections : ~Finds(x, q)
    BY <2>1 DEF Finds, IsCandidate, m
  <2> QED
    BY <2>1, <2>2, <2>3, NothingFound
<1>8. CASE Read(x) /\ ReadAnswer(x, Head(mailbox[x]))
  <2>1. UNCHANGED <<page, conn, online, drops, disturbed>>
    BY <1>8 DEF Read, ReadAnswer
  <2>2. \A q \in Connections : ~Finds(x, q)
    BY <1>8 DEF ReadAnswer, Finds, IsCandidate
  <2> QED
    BY <2>1, <2>2, NothingFound
<1>9. ASSUME NEW task \in tasks[x],
             \/ SetUpHangs(x, task) \/ CandidatesFlushed(x, task)
             \/ RemoteAnswerSet(x, task) /\ ~HasLocalOffer(task.pc)
      PROVE  CandidateMoves(x)
  <2>1. UNCHANGED <<page, conn, mailbox, online, drops, disturbed>>
    BY <1>9 DEF SetUpHangs, CandidatesFlushed, RemoteAnswerSet
  <2> QED
    BY <2>1, NotReading, NothingFound DEF Finds
<1>10. ASSUME NEW h \in leaving, Leave(h)
       PROVE  CandidateMoves(x)
  <2>1. UNCHANGED <<page, conn, online, drops>> /\ disturbed \subseteq disturbed'
    BY <1>10, OnlyMoreUntold DEF Leave
  <2>2. ~Read(x)
    BY <1>10, LeaveReadsNot
  <2> QED
    BY <2>1, <2>2, NothingFound DEF Finds
<1> QED
  BY <1>2, <1>3, <1>4, <1>5, <1>6, <1>7, <1>8, <1>9, <1>10

\* Every action does what is said above.
LEMMA StepFinds ==
  ASSUME Sound, Known, NEW x \in Clients, Acts(x)
  PROVE  CandidateMoves(x)
<1>1. Typed /\ Owned /\ Flushed(x) /\ NoneFound
  BY DEF Sound, Agreed, Known
<1>2. ASSUME NEW rest \in SUBSET tasks[x], NEW mishaps, EndCallAnd(x, rest, mishaps),
             UNCHANGED <<online, drops>>
      PROVE  CandidateMoves(x)
  BY <1>1, <1>2, EndCallFinds
<1>3. ASSUME NEW task \in tasks[x], Resume(x, task)
      PROVE  CandidateMoves(x)
  <2>1. CASE MicrophoneToCall(x, task)
    BY <1>1, <2>1, OpenedFinds DEF MicrophoneToCall, AtMicrophone
  <2>2. CASE MicrophoneToAnswer(x, task)
    BY <1>1, <2>2, OpenedFinds DEF MicrophoneToAnswer, AtMicrophone
  <2>3. CASE MicrophoneRefused(x, task) \/ SetUpFails(x, task)
    BY <1>2, <2>3 DEF MicrophoneRefused, SetUpFails, EndCall
  <2>4. CASE SendInvite(x, task) \/ SendAnswer(x, task)
    BY <1>1, <2>4, SenderFinds
  <2>5. CASE RemoteOfferSet(x, task) \/ RemoteAnswerSet(x, task)
    BY <1>1, <2>5, DescribedFinds, IdleFinds
  <2>6. CASE SetUpHangs(x, task) \/ CandidatesFlushed(x, task)
    BY <1>1, <2>6, IdleFinds
  <2> QED
    BY <1>3, <2>1, <2>2, <2>3, <2>4, <2>5, <2>6 DEF Resume
<1>4. ASSUME Read(x)
      PROVE  CandidateMoves(x)
  <2>1. \/ ReadInvite(x, Head(mailbox[x])) \/ ReadAnswer(x, Head(mailbox[x]))
        \/ ReadCandidate(x, Head(mailbox[x])) \/ ReadBye(x, Head(mailbox[x]))
    BY <1>4 DEF Read
  <2>2. CASE ReadBye(x, Head(mailbox[x]))
    BY <1>2, <1>4, <2>2 DEF Read, ReadBye
  <2>3. CASE ReadCandidate(x, Head(mailbox[x]))
    BY <1>1, <1>4, <2>3, CandidateFinds
  <2> QED
    BY <1>1, <1>4, <2>1, <2>2, <2>3, IdleFinds
<1>5. CASE ClickHangUp(x) \/ ConnectionLost(x)
  BY <1>2, <1>5 DEF ClickHangUp, ConnectionLost, EndCall
<1>6. ASSUME NEW p \in Connections, Gathered(x, p)
      PROVE  CandidateMoves(x)
  BY <1>1, <1>6, GatheredFinds
<1> QED
  BY <1>1, <1>3, <1>4, <1>5, <1>6, IdleFinds DEF Acts

\* And every step is one of some client.
LEMMA SomebodyActs ==
  ASSUME Typed, Next
  PROVE  \E x \in Clients : Acts(x)
<1>1. \A h \in leaving : h.client \in Clients
  BY DEF Typed, TypeOK, Handlers
<1> QED
  BY <1>1 DEF Next, Acts

-----------------------------------------------------------------------------
(***************************************************************************)
(* What a step keeps of the invariants.                                    *)
(***************************************************************************)

\* A step of client x from a state in which the invariants hold.
Step(x) == Sound /\ Known /\ x \in Clients /\ Moves(x) /\ CandidateMoves(x)

\* Without a disconnect mail is lost only by being read.
LEMMA OnlyRead ==
  ASSUME NEW x, Step(x), drops' = 0, NEW d \in Clients,
         NEW message \in Mail(d), message \notin Mail(d)'
  PROVE  d = x /\ Read(x) /\ message = Head(mailbox[x])
<1>1. Typed /\ Post(x) /\ x \in Clients
  BY DEF Step, Sound, Moves
<1>2. ~Drop(x)
  BY <1>1 DEF Drop, Typed, TypeOK
<1> QED
  BY <1>1, <1>2, MailLost

\* A candidate that has come, or is coming, is not lost as long as the call lasts.
LEMMA ArrivesStill ==
  ASSUME NEW x, Step(x), drops' = 0, NEW c \in Clients, Calm(c)',
         NEW q \in Connections, Arrives(c, q)
  PROVE  Arrives(c, q)' \/ (c = x /\ Over(x))
<1>1. Sound /\ Owned /\ x \in Clients /\ Moves(x) /\ Keeps(x)
  BY DEF Step, Sound, Agreed, CandidateMoves
<1>2. CASE c = x
  <2>1. ASSUME Has(x, q) \/ Finds(x, q)
        PROVE  Has(x, q)' \/ Over(x)
    BY <1>1, <1>2, <2>1 DEF Keeps
  <2>2. ASSUME NEW message \in Mail(x), IsCandidate(message, q)
        PROVE  Coming(x, q)' \/ Finds(x, q)
    <3>1. CASE message \in Mail(x)'
      BY <2>2, <3>1 DEF Coming
    <3>2. CASE message \notin Mail(x)'
      BY <1>1, <2>2, <3>2, OnlyRead DEF Finds
    <3> QED
      BY <3>1, <3>2
  <2> QED
    BY <1>2, <2>1, <2>2 DEF Arrives, Coming
<1>3. CASE c # x
  <2>1. page'[c] = page[c]
    BY <1>1, <1>3, OthersKeep
  <2>2. page[c].pc # None => conn'[page[c].pc] = conn[page[c].pc]
    <3>1. page[c].pc # None => page[c].pc[1] = c /\ page[c].pc \in Connections
      BY <1>1 DEF Owned, Sound, Typed, TypeOK, Pages
    <3> QED
      BY <1>3, <3>1 DEF Step, CandidateMoves
  <2>3. Has(c, q) => Has(c, q)'
    BY <2>1, <2>2 DEF Has
  <2>4. Coming(c, q) => Coming(c, q)'
    BY <1>3, OnlyRead DEF Coming
  <2> QED
    BY <2>3, <2>4 DEF Arrives
<1> QED
  BY <1>2, <1>3

\* Without a disconnect a candidate is sent to whoever the page talks to.
LEMMA GatheredArrives ==
  ASSUME Typed, Connected, drops = 0, NEW x \in Clients, NEW p \in Connections,
         Gathered(x, p), NEW t \in Clients, t = page[x].peer
  PROVE  Coming(t, p)'
<1> DEFINE message == [type |-> "ice", from |-> x, candidate |-> p]
<1>1. IsCandidate(message, p) /\ message \in Messages
  BY DEF Gathered, IsCandidate, Messages
<1>2. t # None /\ online[x] /\ online[t]
  BY CallSetupAssumption DEF Connected
<1>3. mailbox' = [mailbox EXCEPT ![t] = Append(@, message)]
  BY <1>2 DEF Gathered, Sent
<1> HIDE DEF message
<1>4. mailbox'[t] = Append(mailbox[t], message) /\ mailbox[t] \in Seq(Messages)
  BY <1>3 DEF Typed, TypeOK
<1>5. Len(mailbox[t]) + 1 \in DOMAIN mailbox'[t] /\ mailbox'[t][Len(mailbox[t]) + 1] = message
  BY <1>1, <1>4
<1>6. message \in Mail(t)'
  BY <1>5 DEF Mail, Range
<1> QED
  BY <1>1, <1>6 DEF Coming

\* A connection that gathers has described itself.
LEMMA GathersDescribed ==
  ASSUME NEW x, NEW p, Gathered(x, p)
  PROVE  ~Undescribed(p) /\ p[1] = x
BY DEF Gathered, Undescribed

\* No candidate comes out of nothing.
LEMMA ComingBefore ==
  ASSUME NEW x, Step(x), NEW d \in Clients, NEW p \in Connections, Coming(d, p)'
  PROVE  Coming(d, p) \/ Gathered(x, p)
<1>1. Typed /\ Post(x) /\ x \in Clients
  BY DEF Step, Sound, Moves
<1>2. PICK message \in Mail(d)' : IsCandidate(message, p)
  BY DEF Coming
<1>3. message \in Mail(d) \/ Posted(x, message)
  BY <1>1, MailGrows
<1> QED
  BY <1>2, <1>3 DEF Coming, Posted, IsCandidate

LEMMA NoneFoundKept ==
  ASSUME NEW x, Step(x)
  PROVE  NoneFound'
<1>1. ASSUME NEW p \in Connections, Undescribed(p)'
      PROVE  ~conn'[p].gathered /\ \A d \in Clients : ~Coming(d, p)'
  <2>1. Undescribed(p)
    BY <1>1, UndescribedBefore DEF Step, Moves
  <2>2. ~conn[p].gathered /\ \A d \in Clients : ~Coming(d, p)
    BY <2>1 DEF Step, Known, NoneFound
  <2>3. ~Gathered(x, p)
    BY <2>1, GathersDescribed
  <2>4. ~conn'[p].gathered
    BY <2>2, <2>3 DEF Step, CandidateMoves
  <2> QED
    BY <2>2, <2>3, <2>4, ComingBefore
<1> QED
  BY <1>1 DEF NoneFound

LEMMA FlushedKept ==
  ASSUME NEW x, Step(x), NEW c \in Clients
  PROVE  Flushed(c)'
<1>1. Sound /\ Owned /\ x \in Clients /\ Moves(x) /\ Flushed(x)' /\ Flushed(c)
  BY DEF Step, Sound, Agreed, CandidateMoves, Known
<1>2. CASE c = x
  BY <1>1, <1>2
<1>3. CASE c # x
  <2>1. page'[c] = page[c] /\ (Calm(c)' => Calm(c))
    BY <1>1, <1>3, OthersKeep
  <2>2. page[c].pc # None => page[c].pc[1] = c /\ page[c].pc \in Connections
    BY <1>1 DEF Owned, Sound, Typed, TypeOK, Pages
  <2>3. page[c].pc # None => conn'[page[c].pc] = conn[page[c].pc]
    BY <1>3, <2>2 DEF Step, CandidateMoves
  <2> QED
    BY <1>1, <2>1, <2>3 DEF Flushed
<1> QED
  BY <1>2, <1>3

-----------------------------------------------------------------------------
(***************************************************************************)
(* The candidates of a call go on following its offer and its answer.      *)
(***************************************************************************)

\* The call of a caller, as it was before the step.
CallOf(c, p, t) ==
  /\ Caller(c) /\ Caller(c)' /\ p = page[c].pc /\ t = page[c].peer
  /\ p \in Connections /\ t \in Clients

\* An invite that is in the mail was there before.
LEMMA InviteBefore ==
  ASSUME NEW x, Step(x), NEW c \in Clients, NEW p, NEW t, CallOf(c, p, t),
         NEW d \in Clients, NEW message \in Mail(d)', Brings(message, p)
  PROVE  message \in Mail(d) /\ ~Posted(x, message)
<1>1. Sound /\ Typed /\ Post(x) /\ x \in Clients
  BY DEF Step, Sound, Moves
<1>2. ~Posted(x, message)
  BY <1>1, PostedElsewhere DEF CallOf, Caller, Brings
<1> QED
  BY <1>1, <1>2, MailGrows

LEMMA FirstStays ==
  ASSUME NEW x, Step(x), NEW c \in Clients, NEW p, NEW t, CallOf(c, p, t), OfferFirst(p, t)
  PROVE  OfferFirst(p, t)'
<1>1. Typed /\ Post(x) /\ x \in Clients /\ t \in Clients
  BY DEF Step, Sound, Moves, CallOf
<1>2. ASSUME NEW i \in DOMAIN mailbox'[t], NEW j \in DOMAIN mailbox'[t],
             Brings(mailbox'[t][j], p), IsCandidate(mailbox'[t][i], p)
      PROVE  j <= i
  <2>1. mailbox'[t][j] \in Mail(t)'
    BY DEF Mail, Range
  <2>2. ~Posted(x, mailbox'[t][j])
    BY <1>1, <1>2, <2>1, InviteBefore
  <2>3. \/ j <= i
        \/ \E m, n \in DOMAIN mailbox[t] :
             /\ mailbox[t][m] = mailbox'[t][i] /\ mailbox[t][n] = mailbox'[t][j]
             /\ n <= m => j <= i
    BY <1>1, <2>2, OrderKept
  <2> QED
    BY <1>2, <2>3 DEF OfferFirst
<1> QED
  BY <1>2 DEF OfferFirst

\* Once t has read the candidate it has read the invite.
LEMMA HeadIsCandidate ==
  ASSUME Typed, NEW p, NEW t \in Clients, OfferFirst(p, t), Read(t),
         IsCandidate(Head(mailbox[t]), p)
  PROVE  \A message \in Mail(t)' : ~Brings(message, p)
<1>1. /\ mailbox[t] \in Seq(Messages) /\ mailbox[t] # <<>>
      /\ mailbox' = [mailbox EXCEPT ![t] = Tail(@)]
  BY DEF Read, Typed, TypeOK
<1>2. mailbox'[t] = Tail(mailbox[t])
  BY <1>1 DEF Typed, TypeOK
<1>3. 1 \in DOMAIN mailbox[t] /\ mailbox[t][1] = Head(mailbox[t])
  BY <1>1
<1>4. ASSUME NEW n \in DOMAIN Tail(mailbox[t]), Brings(Tail(mailbox[t])[n], p)
      PROVE  FALSE
  <2>1. /\ n \in Nat /\ n > 0 /\ n + 1 \in DOMAIN mailbox[t]
        /\ Tail(mailbox[t])[n] = mailbox[t][n + 1]
    BY <1>1
  <2>2. n + 1 <= 1
    BY <1>3, <1>4, <2>1 DEF OfferFirst
  <2> QED
    BY <2>1, <2>2
<1> QED
  BY <1>2, <1>4 DEF Mail, Range

LEMMA OfferFollowedStays ==
  ASSUME NEW x, Step(x), NEW c \in Clients, NEW p, NEW t, CallOf(c, p, t),
         OfferFirst(p, t), OfferFollowed(p, t)
  PROVE  OfferFollowed(p, t)'
<1>1. /\ Sound /\ Typed /\ Owned /\ Connected /\ x \in Clients /\ CandidateMoves(x)
      /\ t \in Clients /\ p \in Connections /\ p = page[c].pc /\ t = page[c].peer
  BY DEF Step, Sound, Agreed, Known, CallOf
<1>2. SUFFICES ASSUME Calm(t)', conn'[p].gathered, drops' = 0
               PROVE  /\ (\E message \in Mail(t)' : Brings(message, p)) => Coming(t, p)'
                      /\ Answering(t, p)' => Arrives(t, p)'
  BY DEF OfferFollowed
<1>3. drops = 0 /\ Calm(t) /\ AnswersStill(t)
  BY <1>1, <1>2, AllStill DEF CandidateMoves, Step
<1>4. CASE Gathered(x, p)
  <2>1. x = c
    BY <1>1, <1>4, GathersDescribed DEF Owned, Caller, CallOf
  <2>2. Coming(t, p)'
    BY <1>1, <1>3, <1>4, <2>1, GatheredArrives
  <2> QED
    BY <2>2 DEF Arrives
<1>5. CASE conn[p].gathered
  <2>1. ASSUME NEW message \in Mail(t)', Brings(message, p)
        PROVE  Coming(t, p)'
    <3>1. message \in Mail(t)
      BY <1>1, <2>1, InviteBefore
    <3>2. PICK candidate \in Mail(t) : IsCandidate(candidate, p)
      BY <1>3, <1>5, <2>1, <3>1 DEF OfferFollowed, Coming
    <3>3. candidate \in Mail(t)'
      BY <1>1, <1>2, <2>1, <3>2, OnlyRead, HeadIsCandidate
    <3> QED
      BY <3>2, <3>3 DEF Coming
  <2>2. ASSUME Answering(t, p)
        PROVE  Arrives(t, p)' \/ ~Answering(t, p)'
    <3>1. Arrives(t, p)
      BY <1>3, <1>5, <2>2 DEF OfferFollowed
    <3>2. Arrives(t, p)' \/ Over(t)
      BY <1>1, <1>2, <3>1, ArrivesStill
    <3>3. Over(t) => ~Answering(t, p)'
      BY <1>2 DEF Over, Answering, Waits
    <3> QED
      BY <3>2, <3>3
  <2>3. ASSUME NEW message, Taking(t, message), Brings(message, p)
        PROVE  Arrives(t, p)'
    <3>1. message \in Mail(t)
      BY <1>1, <2>3, TakenCall
    <3>2. PICK candidate \in Mail(t) : IsCandidate(candidate, p)
      BY <1>3, <1>5, <2>3, <3>1 DEF OfferFollowed, Coming
    <3>3. candidate # message
      BY <2>3, <3>2 DEF Brings, IsCandidate
    <3>4. candidate \in Mail(t)'
      BY <1>1, <1>2, <2>3, <3>2, <3>3, OnlyRead DEF Taking
    <3> QED
      BY <3>2, <3>4 DEF Arrives, Coming
  <2> QED
    BY <1>1, <1>2, <1>3, <2>1, <2>2, <2>3 DEF AnswersStill
<1> QED
  BY <1>1, <1>2, <1>4, <1>5 DEF CandidateMoves

\* A client whose call goes on takes no invite.
LEMMA TakesNoInvite ==
  ASSUME Typed, NEW t \in Clients, NEW message, Taking(t, message), Calm(t)'
  PROVE  page'[t].pc = None
<1>1. ReadInvite(t, message) /\ page'[t].pc = page[t].pc
  BY TakenCall DEF Taking
<1>2. ~Busy(t)
  BY <1>1 DEF ReadInvite, Calm, OneCallAtATime
<1> QED
  BY <1>1, <1>2 DEF Busy

LEMMA AnswerFollowedStays ==
  ASSUME NEW x, Step(x), NEW c \in Clients, NEW p, NEW t, CallOf(c, p, t),
         AnswerFollowed(c, p, t)
  PROVE  AnswerFollowed(c, p, t)'
<1>1. /\ Sound /\ Typed /\ Owned /\ Connected /\ x \in Clients /\ Moves(x)
      /\ CandidateMoves(x) /\ t \in Clients /\ p \in Connections
      /\ p = page[c].pc /\ t = page[c].peer
  BY DEF Step, Sound, Agreed, Known, CallOf
<1>2. SUFFICES ASSUME Calm(t)', Answering(t, p)', drops' = 0, page'[t].pc # None,
                      conn'[page'[t].pc].gathered
               PROVE  Arrives(c, page[t].pc)'
  BY DEF AnswerFollowed
<1>3. drops = 0 /\ Calm(t) /\ Answering(t, p)
  <2>1. Calm(t) /\ AnswersStill(t)
    BY <1>1, <1>2, AllStill
  <2>2. \A message : ~Taking(t, message)
    BY <1>1, <1>2, TakesNoInvite
  <2> QED
    BY <1>1, <1>2, <2>1, <2>2 DEF AnswersStill, CandidateMoves
<1>4. page'[t].pc = page[t].pc
  <2>1. CASE t = x
    BY <1>1, <1>2, <2>1 DEF CandidateMoves, GatheredStill
  <2>2. CASE t # x
    BY <1>1, <2>2, OthersKeep
  <2> QED
    BY <2>1, <2>2
<1>5. PICK q \in Connections : q = page[t].pc /\ q[1] = t
  BY <1>1, <1>2, <1>4 DEF Owned, Typed, TypeOK, Pages
<1>6. CASE conn[q].gathered
  <2>1. Arrives(c, q)
    BY <1>2, <1>3, <1>4, <1>5, <1>6 DEF AnswerFollowed
  <2>2. Calm(c)' /\ page'[c].pc # None
    BY DEF CallOf, Caller
  <2>3. Arrives(c, q)'
    BY <1>2, <2>1, <2>2, ArrivesStill DEF Over
  <2> QED
    BY <1>4, <1>5, <2>3
<1>7. CASE Gathered(x, q)
  <2>1. x = t
    BY <1>5, <1>7, GathersDescribed
  <2>2. page[t].peer = c
    <3>1. OfferKnown(c, p, page[c].callId, t)
      BY <1>1 DEF Sound, Agreed, Offers, CallOf
    <3> QED
      BY <1>1, <1>3, <3>1 DEF OfferKnown
  <2>3. Coming(c, q)'
    BY <1>1, <1>3, <1>7, <2>1, <2>2, GatheredArrives
  <2> QED
    BY <1>4, <1>5, <2>3 DEF Arrives
<1> QED
  BY <1>1, <1>2, <1>4, <1>5, <1>6, <1>7 DEF CandidateMoves

\* A call that is new has no candidates yet.
LEMMA FollowedNew ==
  ASSUME NEW x, Step(x), Calm(x), NEW task, Inviting(x, task),
         NEW p, p = task.pc, NEW t \in Clients
  PROVE  Followed(x, p, t)'
<1>1. Sound /\ x \in Clients /\ Moves(x) /\ NoneFound /\ CandidateMoves(x)
  BY DEF Step, Known
<1>2. /\ p \in Connections /\ Unsaid(p) /\ conn[p].local = "none" /\ conn[p].state = "open"
  BY <1>1, FirstInvite, Inviter
<1>3. Undescribed(p)
  BY <1>2 DEF Undescribed
<1>4. ~Gathered(x, p)
  BY <1>3, GathersDescribed
<1>5. ~conn'[p].gathered /\ ~Coming(t, p)'
  BY <1>1, <1>2, <1>3, <1>4, ComingBefore DEF NoneFound, CandidateMoves
<1>6. Calm(t)' => ~Answering(t, p)'
  BY <1>1, <1>2, StillSilent
<1>7. OfferFirst(p, t)'
  <2>1. \A i \in DOMAIN mailbox'[t] : ~IsCandidate(mailbox'[t][i], p)
    BY <1>5 DEF Coming, Mail, Range
  <2> QED
    BY <2>1 DEF OfferFirst
<1> QED
  BY <1>5, <1>6, <1>7 DEF Followed, OfferFollowed, AnswerFollowed

LEMMA FollowedKept ==
  ASSUME NEW x, Step(x), NEW c \in Clients, Caller(c)'
  PROVE  Followed(c, page[c].pc, page[c].peer)'
<1>1. Sound /\ x \in Clients /\ Moves(x)
  BY DEF Step
<1>2. PICK p, k, t :
        /\ p = page'[c].pc /\ k = page'[c].callId /\ t = page'[c].peer
        /\ \/ Caller(c) /\ p = page[c].pc /\ k = page[c].callId /\ t = page[c].peer
           \/ /\ c = x /\ Calm(x) /\ k = page[x].callId /\ t = page[x].peer
              /\ \E task : Inviting(x, task) /\ p = task.pc
  BY <1>1, CallerBefore
<1>3. CASE Caller(c) /\ p = page[c].pc /\ t = page[c].peer
  <2>1. CallOf(c, p, t)
    BY <1>1, <1>3 DEF Sound, Agreed, Staged, Caller, Calling, CallOf, Typed, TypeOK, Pages
  <2>2. Followed(c, p, t)
    BY <1>3 DEF Step, Known
  <2>3. Followed(c, p, t)'
    BY <2>1, <2>2, FirstStays, OfferFollowedStays, AnswerFollowedStays DEF Followed
  <2> QED
    BY <1>2, <2>3
<1>4. ASSUME c = x, Calm(x), t = page[x].peer, NEW task, Inviting(x, task), p = task.pc
      PROVE  Followed(c, p, t)'
  BY <1>1, <1>4, FirstInvite, FollowedNew
<1> QED
  BY <1>2, <1>3, <1>4

\* Without a disconnect the server has no handler that leaves.
LEMMA NobodyLeaves ==
  ASSUME Typed, Next, leaving = {}, drops' = 0
  PROVE  leaving' = {}
<1>1. PICK x \in Clients : Acts(x)
  BY SomebodyActs
<1>2. ~Drop(x)
  BY DEF Drop, Typed, TypeOK
<1>3. ASSUME NEW task \in tasks[x], Resume(x, task)
      PROVE  leaving' = leaving
  <2>1. \/ MicrophoneToCall(x, task) \/ MicrophoneToAnswer(x, task)
        \/ MicrophoneRefused(x, task) \/ SendInvite(x, task) \/ SendAnswer(x, task)
        => leaving' = leaving
    BY DEF MicrophoneToCall, MicrophoneToAnswer, MicrophoneRefused, SendInvite, SendAnswer
  <2>2. \/ RemoteOfferSet(x, task) \/ CandidatesFlushed(x, task) \/ RemoteAnswerSet(x, task)
        \/ SetUpFails(x, task) \/ SetUpHangs(x, task)
        => leaving' = leaving
    BY DEF RemoteOfferSet, CandidatesFlushed, RemoteAnswerSet, SetUpFails, SetUpHangs
  <2> QED
    BY <1>3, <2>1, <2>2 DEF Resume
<1>4. ASSUME NEW t, ClickCall(x, t)
      PROVE  leaving' = leaving
  BY <1>4 DEF ClickCall
<1>5. ASSUME NEW p, Gathered(x, p)
      PROVE  leaving' = leaving
  BY <1>5 DEF Gathered
<1>6. \/ ClickAnswer(x) \/ ClickReject(x) \/ ClickHangUp(x) \/ Read(x)
      \/ ConnectionLost(x) \/ Reconnect(x)
      => leaving' = leaving
  BY DEF ClickAnswer, ClickReject, ClickHangUp, Read, ConnectionLost, Reconnect
<1> QED
  BY <1>1, <1>2, <1>3, <1>4, <1>5, <1>6 DEF Acts

LEMMA KnownStep ==
  ASSUME Sound, Known, [Next]_vars
  PROVE  Known'
<1>1. CASE Next
  <2>1. PICK x \in Clients : Step(x)
    <3>1. Typed
      BY DEF Sound
    <3>2. PICK x \in Clients : Acts(x)
      BY <1>1, <3>1, SomebodyActs
    <3> QED
      BY <3>2, StepMoves, StepFinds DEF Step
  <2>2. Connected'
    BY <1>1, <2>1, NobodyLeaves DEF Step, Sound, Known, Connected, CandidateMoves
  <2> QED
    BY <2>1, <2>2, NoneFoundKept, FlushedKept, FollowedKept DEF Known
<1>2. CASE UNCHANGED vars
  <2>1. UNCHANGED <<page, tasks, conn, mailbox, online, leaving, drops, disturbed>>
    BY <1>2 DEF vars
  <2>2. \A d \in Clients : \A p : /\ Coming(d, p)' = Coming(d, p)
                                  /\ Arrives(d, p)' = Arrives(d, p)
    BY <2>1 DEF Coming, Arrives, Has, Mail
  <2>3. \A d \in Clients : Calm(d)' = Calm(d) /\ Caller(d)' = Caller(d)
    BY <2>1 DEF Calm, OneCallAtATime, Caller
  <2>4. \A d \in Clients : \A p : Answering(d, p)' = Answering(d, p)
    BY <2>1 DEF Answering, Waits
  <2>5. NoneFound' /\ Connected' /\ \A c \in Clients : Flushed(c)'
    BY <2>1, <2>2, <2>3 DEF Known, NoneFound, Undescribed, Connected, Flushed
  <2>6. ASSUME NEW c \in Clients, Caller(c)
        PROVE  Followed(c, page[c].pc, page[c].peer)'
    <3>1. Followed(c, page[c].pc, page[c].peer) /\ page[c].peer \in Clients
      BY <2>6 DEF Known, Sound, Agreed, Staged, Caller, Calling, Typed, TypeOK, Pages
    <3>2. OfferFirst(page[c].pc, page[c].peer)'
      BY <2>1, <3>1 DEF Followed, OfferFirst
    <3>3. OfferFollowed(page[c].pc, page[c].peer)'
      BY <2>1, <2>2, <2>3, <2>4, <3>1 DEF Followed, OfferFollowed, Mail
    <3>4. AnswerFollowed(c, page[c].pc, page[c].peer)'
      BY <2>1, <2>2, <2>3, <2>4, <3>1 DEF Followed, AnswerFollowed
    <3> QED
      BY <3>2, <3>3, <3>4 DEF Followed
  <2> QED
    BY <2>3, <2>5, <2>6 DEF Known
<1> QED
  BY <1>1, <1>2

LEMMA InitKnown == Init => Known
<1> SUFFICES ASSUME Init
             PROVE  Known
  OBVIOUS
<1>1. /\ \A c \in Clients : page[c].pc = None /\ online[c] /\ Mail(c) = {}
      /\ \A p \in Connections : ~conn[p].gathered
      /\ leaving = {}
  BY DEF Init, BlankPage, Fresh, Mail, Range
<1> QED
  BY <1>1 DEF Known, NoneFound, Coming, Connected, Flushed, Caller

-----------------------------------------------------------------------------
(***************************************************************************)
(* What the invariant says of two pages whose connections are paired.      *)
(***************************************************************************)
LEMMA KeptWhenKnown ==
  ASSUME Sound, Known
  PROVE  CandidatesKept
<1> SUFFICES ASSUME NEW c \in Clients, NEW d \in Clients, Calm(c), Calm(d),
                    Paired(page[c].pc, page[d].pc), conn[page[d].pc].gathered, drops = 0
             PROVE  page[d].pc \in conn[page[c].pc].candidates \/ Awaits(c, {"ice"}, d)
  BY DEF CandidatesKept
<1> DEFINE p == page[c].pc
           q == page[d].pc
<1>1. /\ p # None /\ q # None /\ conn[p].remote = q /\ q[1] = d
      /\ Paired(q, p)
  BY DEF Paired, Sound, Agreed, Owned
<1>2. Arrives(c, q)
  <2>1. CASE conn[p].local = "offer"
    <3>1. Caller(c) /\ page[c].peer = d /\ Answering(d, p)
      BY <2>1, OfferAndAnswer
    <3>2. AnswerFollowed(c, p, d)
      BY <3>1 DEF Known, Followed
    <3> QED
      BY <1>1, <3>1, <3>2 DEF AnswerFollowed
  <2>2. CASE conn[q].local = "offer"
    <3>1. Caller(d) /\ page[d].peer = c /\ Answering(c, q)
      BY <1>1, <2>2, OfferAndAnswer
    <3>2. OfferFollowed(q, c)
      BY <3>1 DEF Known, Followed
    <3> QED
      BY <3>1, <3>2 DEF OfferFollowed
  <2> QED
    BY <2>1, <2>2, OneOffers
<1>3. page[c].pending = {}
  BY <1>1, NoneIsNobodys DEF Known, Flushed
<1>4. Coming(c, q) => Awaits(c, {"ice"}, d)
  BY <1>1 DEF Coming, IsCandidate, Awaits, Mail
<1> QED
  BY <1>2, <1>3, <1>4 DEF Arrives, Has

\* In every behaviour without disconnects the candidates of both parties of a call reach
\* the connection of the other, or are still in its mail, however early they come and
\* whatever the two clicked before (handleICECandidate, flushPendingCandidates, endCall).
THEOREM CandidatesArrive == Spec => []CandidatesKept
<1>1. Init => AllInHand /\ Agreed /\ Known
  BY InitAgreed, InitKnown DEF Init, AllInHand, InHand, BlankPage, Fresh
<1>2. Typed /\ Typed' /\ AllInHand /\ Agreed /\ Known /\ [Next]_vars =>
        AllInHand' /\ Agreed' /\ Known'
  BY InHandStep, AgreedStep, KnownStep DEF Sound
<1>3. Typed /\ AllInHand /\ Agreed /\ Known => CandidatesKept
  BY KeptWhenKnown DEF Sound
<1>4. Spec => []Typed
  BY Types
<1> QED
  BY <1>1, <1>2, <1>3, <1>4, PTL DEF Spec

===============================================================================
