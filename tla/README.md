# A formal model of voip-stack

This directory holds a TLA+ model of the repository: what its signaling server,
its browser client and its media pipeline do, the properties that make them
correct, TLC runs that check those properties on small instances, and theorems
that TLAPS proves for every instance.

Run a model with `tlc -workers 2 -config <run>.cfg <MC module>` and the proofs
with `tlapm <module>Proofs.tla`, both in this directory.

## 1. Inventory of the system

| Component | State | Operations | Talks to |
|---|---|---|---|
| Signaling server, `voip/server.py` | `_connections` (name → connection), `_dialogs` (call id → dialog); per handler `username` and the locals of the handler it runs | register, invite, answer, ice, bye, reject; disconnect | browsers over one WebSocket each; a TURN provider over HTTP in a thread |
| … start/stop, static files (168-246) | the listening socket | start, cancel, GET / | |
| … credentials (51-93) | environment variables | one HTTP request | TURN provider |
| Browser client, `client/index.html` | `ws`, `pc`, `localStream`, `currentPeer`, `currentCallId`, `registered`, `pendingRemoteCandidates`, `onlineUsers`, timers | buttons (register, call, answer, reject, hang up), messages, WebRTC events | the server; the peer, through WebRTC |
| Jitter buffer, `voip/jitter.py` | `_buffer`, `_next_expected_sequence`, `_playout_started`, three counters, a moving average | put, get, stats | whoever receives packets and plays them |
| RTP packets, `voip/rtp.py`, `native/rtp_parser` | none | parse, build | jitter buffer |
| SDP, `voip/sdp.py` | the section being parsed | parse, build, negotiate, log | server (log), demos |
| SIP messages, `voip/sip.py` | none | parse, build | demos |
| Audio, `voip/audio.py` | none | mix, volume, silence, tone | demos |
| Types, CLI, benchmarks, deployment | | | |

The server and its clients interact by messages only. Everything inside the
server is one event loop: a handler runs without interruption from one `await`
to the next, and everything another handler does can happen at an `await`. The
server keeps no history: when a handler resumes, it works on with what it read
before, and goes by *names*, which may have changed hands.

What is hard, by component:

- **Server.** A registration awaits the credential service with the name stored
  and the list of users already taken; broadcasts await each recipient in turn;
  a disconnect releases the name, awaits a broadcast, cleans up the calls and
  awaits each synthetic BYE; a send to a closed client raises in the *sender's*
  handler. Correct means: the registry always agrees with the handlers, nobody
  takes or frees another's name, the user lists of clients converge, no call
  outlives its parties in the books, and every party of a call that ends is told.
- **Client.** Every button handler awaits the microphone and WebRTC, while
  messages come in and reset or replace the call; the handlers share global
  variables, and messages carry a call id that the page does not look at.
  Correct means: two pages that are connected mean the same call, and so do the
  server's books; no candidate is lost; no connection or microphone outlives the
  call that the page knows of.
- **Jitter buffer.** Packets are lost, repeated, late and reordered; numbers
  wrap; the buffer evicts; playout skips. Correct means: released in stream
  order and at most once, every position counted exactly once, nothing waits for
  ever, and the wrap-around never shows.
- **Parsers and audio.** Boundaries: lengths taken from the packet itself, which
  section or header a line belongs to, saturation. Correct means: what is
  accepted can be written again unchanged, what comes later leaves what came
  before alone, the two RTP parsers cannot be told apart, and a mix never wraps.

`PROJECT.json` lists the components with their status, and each hazard at the
line where it bites with the properties that guard against it.

## 2. Modules

| Module | Models | Extends or instantiates |
|---|---|---|
| `NameRegistry` | what the server promises about names | |
| `SignalingServer` | all of `voip/server.py` that serves WebSocket clients, and the client's user list | `NameRegistry` as an abstraction |
| `MCSignalingServer` | instances for TLC | `SignalingServer` |
| `SignalingServerProofs` | theorems about the registry, the books and what clients come to believe | `SignalingServer` |
| `SequenceNumbers` | numbers that wrap, the half circle rule | |
| `PlayoutBuffer` | what the jitter buffer promises, in stream positions | |
| `JitterBuffer` | `voip/jitter.py` | `SequenceNumbers`; `PlayoutBuffer` as an abstraction |
| `MCJitterBuffer` | instances for TLC | `JitterBuffer` |
| `JitterBufferProofs` | theorems: the half circle rule, safety, the refinement | `JitterBuffer` |
| `CallSetup` | calls between pages of `client/index.html`, with what the server forwards | |
| `MCCallSetup` | instances for TLC | `CallSetup` |
| `CallSetupProofs` | theorems: types, the microphone | `CallSetup` |
| `CallAgreementProofs` | theorem: the two parties of a call mean the same call | `CallSetupProofs` |
| `CallCandidatesProofs` | theorem: no candidate of a call is lost | `CallAgreementProofs` |
| `CallAnswersProofs` | theorem: an answer that comes too late is followed by the end of its call | `CallCandidatesProofs` |
| `OrderedDict` | Python's `dict`, which keeps the order of insertion | |
| `SdpSession` | `voip/sdp.py`: parse, build, negotiate | `OrderedDict` |
| `SipMessage` | `voip/sip.py`: parse, build | `OrderedDict` |
| `MessageTexts` | texts that grow line by line, and what the two parsers make of them | `SdpSession`, `SipMessage` |
| `MCMessageTexts` | an instance for TLC | `MessageTexts` |
| `MessageTextsProofs` | theorems: headers settle and are as written, sections close, two sides agree, sessions and messages survive | `MessageTexts` |
| `RtpPacket` | `voip/rtp.py` and the native parser | |
| `AudioMixer` | `voip/audio.py` | |
| `MediaBytes` | datagrams that lose bytes, streams that join a mix | `RtpPacket`, `AudioMixer` |
| `MCMediaBytes` | an instance for TLC | `MediaBytes` |
| `MediaBytesProofs` | theorems about the RTP parsers and the mixer | `MediaBytes` |

Definitions whose comment begins with "Wrong:" are not part of the model. Each
is the definition after it with a plausible bug, and is used to confirm that a
property notices that bug (`mutants` in `PROJECT.json`).

### SignalingServer

`pc[c]` is the `await` at which the handler of connection `c` is suspended; an
action is the code from one `await` to the next. The header of the module lists
the places. `connections` and `dialogs` are the two dictionaries, `username` and
`others` the handlers' locals, `targets` what a send or broadcast still has to
do, `ended` the BYEs still to be sent.

How the code's parts map to actions:

| Code | Actions |
|---|---|
| `_handle_connection`, loop (258-310) | `ErrorReply`, `RegisterRefused`, `Register`, `SendReturns` |
| `_handle_register` (341-392) | `Register`, `RegisterReply`, `AnnounceOnline`, `OnlineSent` |
| `_handle_invite` / `_answer` / `_ice` / `_bye` / `_reject` | `InviteUnknown`, `Invite`, `Answer`, `Ice`, `EndCall` (bye and reject) |
| `except` and `finally` (312-339) | `RecvRaises`, `SendRaises` (both via `Finally`), `OfflineSent`, `ByeSent`, `ByeRaises` |
| `_cleanup_dialogs` | `CleanUp` |
| the websockets library | `Connect`, `Disconnect`, `Close`, `Broken`, `Receiver` |

Points of the modelling:

- *A send* writes the message at once if the connection is open and then waits
  for the drain. It raises in the sender's handler if the connection is closed
  already or closes meanwhile. A broadcast swallows the exception.
- *A broadcast* takes its snapshot of the registry when it starts and serves the
  connections in the order of the dictionary; the model lets the order vary.
- *Reading.* What has been written to an open connection counts as read by its
  client: messages to one client stay in order, and the properties about lists
  look at moments when nothing is under way.
- *Clients* send what `client/index.html` sends. The page generates a fresh call
  id when its user clicks Call (648), but the invite carries the id that it holds
  when it is sent (674): none, if a BYE ended the call during the microphone prompt,
  or that of a call it was invited to meanwhile. So an invite has a fresh id, an id
  that the page has learnt, or none (`NoId`, for which the server keeps no dialog:
  the guards at 413, 454, 511 and 541 are in `Filed` and in `dialogs[NoId] = None`);
  all other messages have a learnt id or none. A page that reconnects keeps what it
  knows, and the model does not say which connection is whose successor: `Knows`
  lets a client name what it learnt itself or what any closed connection's page had
  learnt. That is more than pages do, never less.
- *Messages to nobody* (answer and ice to an unknown name) change nothing and
  are not actions.
- *A handler that has returned* has `username` reset and its connection closed,
  which is what the library does.
- *Data* left out: SDP, candidates, ICE servers, `started_at`, error texts. The
  dialog's state is kept although the server never reads it.
- *Shutdown* of the server looks to the handlers like every connection closing.

The history variables record what no single component knows: who heard of
which call (`heard`), which clients still believe in it (`live`), which connections
changed their name (`renamed`), and which calls the server lost track of and why
(`lost`). Nothing in the model's guards reads them but the choice of what a
client may say.

### JitterBuffer

`put` is `Put` (late, duplicate or held, after `Anchor`), `get` is `GetExpected`
and `GetSkipping`, which both end in `Release`; a `get` that returns `None`
changes nothing. Packet *i* of the stream carries number `Wire(i)`. The model
sees both, the code only the number: every decision in an action of
`JitterBuffer` is made from numbers, and the history variables `position`,
`first`, `last`, `arrived` and `copies` only serve the properties and bounds.

Time is an age per held packet, in ticks, that stops at the target delay. Any
packet may arrive at any time. `Near` is an assumption on the network: an arrival
is less than half a circle of numbers (32768 packets, eleven minutes of audio)
away from the position and from what is held. The half circle rule means nothing
beyond it.

`stats()` reads the counters. The moving average `current_delay_ms` is left out:
a float on which nothing depends.

### CallSetup

The page is single-threaded, so an action is a click, the delivery of a message,
an event of WebRTC, or what an `async` handler does from one `await` to the next.
`tasks[c]` holds the suspended handlers of client *c* with their locals; all else
is in `page[c]`, the global variables that the handlers share, and `conn`, the
peer connections.

| Code | Actions |
|---|---|
| Call button (641-686) | `ClickCall`, `MicrophoneToCall`, `SendInvite` |
| Answer button (710-751) | `ClickAnswer`, `MicrophoneToAnswer`, `RemoteOfferSet`, `CandidatesFlushed`, `SendAnswer` |
| their `catch` blocks | `MicrophoneRefused`, `SetUpFails` |
| Reject, Hang Up (688-692, 753-759) | `ClickReject`, `ClickHangUp` |
| `handleMessage` (553-624) | `Read`: `ReadInvite`, `ReadAnswer` (then `RemoteAnswerSet`), `ReadCandidate`, `ReadBye` |
| WebRTC events (793-821) | `Gathered`, `ConnectionLost`; `ontrack` is part of `WithTrack` |
| WebSocket (497-543) | `Drop`, `Reconnect` |
| the server's `finally` (`server.py` 312-339, 577-597) | `Leave`: `Release`, `OfflineSent`, `ByeSent`, `ByeRaises`, with `CleanUp` and `NextBye` in them |

- *The server* is reduced to forwarding, its books (`dialogs`) and the handlers of
  WebSockets that have closed (`leaving`), which go on from await to await: one that
  has not noticed yet, one that has released the name and broadcasts `user_offline`
  (one await here: what it sends has no part in calls), and one
  that sends a synthetic BYE and has others still to send. Between two of its steps
  anything may happen: calls end and begin, partners go and come back. A partner that
  is not registered when its turn comes is skipped for good; at one whose WebSocket
  has closed the send may raise, and the rest of the loop is lost (`ByeRaises`). A
  message is in the target's mailbox once it is sent, and is read at any later time.
  When a WebSocket closes, what was on its way to that client is lost.
- *A send that raises* in the handler of a client that is still connected ends that
  handler, and the library closes the WebSocket: for the client that is a `Drop` like
  any other. Between the moment the server has decided this and the moment the page
  hears of it, the page could send messages that nobody reads; the model has them
  sent before the `Drop` or lost after it.
- *Names.* A page keeps its name here, and takes it again when it reconnects, which
  the server refuses until it has noticed that the old WebSocket had closed
  (`Registered`). What a change of names during a call does is in `SignalingServer`
  (`Register`, `renamed`), with its own finding.
- *The microphone* (`localStream`) is assigned in the same step as `pc` and reset
  in the same function, so `pc` stands for both.
- *WebRTC* is external: a connection keeps its descriptions and candidates, takes
  an answer only after its own offer, and once closed never completes a promise
  (`SetUpHangs`) or rejects it (`SetUpFails`). One candidate per connection stands
  for all of them. Each connection names its own SDP.
- *A handler that resumes* goes on with the page's `pc` of that moment, as the
  code does, and fails if that is `null` or another connection. After the queued
  candidates have been added one by one the answer is asked of whatever `pc` is then
  (`CandidatesFlushed`); that they may be added to two connections, if `pc` changes
  between two of them, is left out: one candidate stands for all.
- *History.* `disturbed` records mishaps: who had a second call during a first
  (the button in the user list works during a call, and so does an incoming
  invite); whose call ended while a handler was waiting; whose call was ended by
  the bye of another one; who lost the end of its call with its WebSocket
  ("unheard"), or was not sent it, because it was not registered when its turn came or
  was behind a send that raised ("untold"); and
  whose connection failed, which ends the call without a bye, before the other side
  had its description. The page has no answer to any of them, and each property says which it
  excludes. The call id that a bye carries is in the model only for the third:
  the page does not look at it.

### SdpSession, SipMessage and MessageTexts

The parsers are functions. A text is a sequence of lines and a line a record of
tokens: what a line is (its type letter; header, fold, start line, empty) and the
values the parser stores. `Malformed` stands for a token that a conversion
rejects. Names keep their spelling apart from the word, so that "case-insensitive"
is something the model can get wrong. Attributes, rtpmaps and headers are
`OrderedDict`s: assigning a key again keeps its place, and `build_*` writes them
in that order. `ParseSdp` has the two passes of the code; `WellFormed` collects
the conditions under which it does not raise.

`MessageTexts` has one state per text and one step per line, so that an action
property can say what one more line may change.

### RtpPacket, AudioMixer and MediaBytes

Bytes are numbers, shifts and masks are divisions and remainders; a 32-bit field
is two halves because TLC's integers are 32 bits wide. `ParseError` and
`NativeError` give the first error raised. A gain is a fraction, since TLC has no
floats; the gains of the run are exact in binary. `MediaBytes` cuts one byte at a
time off a datagram, and lets one stream at a time join a mix.

## 3. Runs

| Run | Instance | Checks | Distinct states |
|---|---|---|---|
| `ServerNames` | 3 connections, 3 names, no calls | `RegistryOwned`, `SelfNotListed`, `NoMutualBlindness`, `ImplementsRegistry` | 80 000 |
| `ServerCalls` | 3 connections, 3 names, 2 calls and the call without an id | `RegistryOwned`, `DialogsAccounted`, `PartnersTold` | 312 000 |
| `ServerLiveness` | 2 connections, 2 names, 1 call and the call without an id | `TypeOK`, `NamesAreFreed`, `CallsAreForgotten` | 264 000 |
| `Jitter` | 8 numbers, packets 5 to 13, buffer of 3, delay 2, 2 repeats | `TypeOK`, `Window`, `Bounded`, `SlotsCountedOnce`, `InOrder`, `NothingStuck`, `ImplementsPlayout` | 220 000 |
| `CallSetup` | 2 clients, 3 calls, 3 connections each, 2 closed WebSockets | `TypeOK`, `CallIsShared`, `CandidatesKept`, `MicrophoneInHand`, `LateAnswersAreOver` | 3 100 000 |
| `MessageTexts` | 17 SDP lines after 5 beginnings, 3 at a time; SIP texts of 6 lines of 7 kinds | `SdpRoundTrip`, `SectionsClosed`, `NegotiationAgrees`, `SipRoundTrip`, `HeadersAsWritten`, `HeadersSettled` | 99 000 |
| `MediaBytes` | 768 datagrams at every length; 3 of 14 streams, 5 gains, 2 formats | `RtpRoundTrip`, `OnlyPayloadIsCut`, `NativeAgrees`, `SpeakersInAnyOrder`, `JoiningNeverWraps`, `OppositesCancel`, `SilenceIsNeutral`, `TonesDoNotClip` | 36 000 |

Why these bounds are enough to meet the hard cases. *Server:* a connection
serves one client from opening to closing, so three connections under two names
give a name that changes hands while both its old owner and its partner are
there; three names give a bystander whose list is observed; two calls give a
clean-up that has several partners to tell, and an invite that carries the id of
another call. `ServerCalls` stops (`CallsAndRenames`) when all connections are closed,
when three handlers are suspended elsewhere than at their receive, and when too many
hard things meet: a change of names is explored with one call id, two names in use
and one suspended handler at a time (`ServerNames` interleaves several); two call ids
only while nobody has changed its name, once everybody has
registered, with nothing lost but by a loop cut short, and at most one suspended
handler besides those that leave. So a call without an id, and one that overwrites
another, are explored with one id that the parties reuse; the theorem
`BelieversAreTold` has none of these limits. `RegistryOwned` is checked in this run,
too, because only here a forwarded message raises in its sender's handler.
`TypeOK` is checked in `ServerLiveness`, where every action is taken. *Jitter:* nine packets pass the wrap at 8
with room on both sides, and a window of half a circle is then four packets: full
buffer, gap, eviction and late arrival all happen at the wrap. *Calls:* a message
or handler of one call that is overtaken by the next needs two calls and two
connections of a client; they may go in either direction or cross. `MaxCalls`,
`MaxConnections` and `MaxDrops` are the guards of `ClickCall`, `Opened` and
`Drop`. The run stops where its properties have nothing more to say, and where the
combinations become too many (`Rounds`): with two calls it goes on as long as one
client has had one call at a time; as long as neither client had two calls at once
or one cut short, also with two closed WebSockets, or with three calls and none; with
closed WebSockets it ends where a connection finds its candidate, of which the
property that speaks of disconnects knows nothing. Two closed WebSockets are what it takes
for both sides of a call to miss its end: with one, `CallIsShared` held even
without its last disjunct. Three calls are what it takes for the leftovers of one
call to end the next and for the answer to that one to meet a third: with two,
`LateAnswersAreOver` held even for clients that had been taken out of a call by
the bye of another. Each call takes a connection of a client, and the third matters:
with two, it held even for a client whose connection, with the wrong answer on it,
had failed and told nobody.
*Texts:* three lines after a beginning that already has a video and an audio
section are enough for a third section with attributes, an rtpmap that comes
twice, and a static payload type that is redefined. Six SIP lines hold a start
line, a header, its fold, the same header again, a blank line and a body. *Bytes:*
every first byte means every version, flag and CSRC count; every length of a
datagram is a state. The samples are the limits, their neighbours, zero and the
amplitude of a tone.

`CHECK_DEADLOCK FALSE` stands in every configuration because these systems may
stop: every connection is over, or the stream has ended.

Symmetry is used in the safety runs of the server and of the calls only; the
specifications tell no two users, connections or clients apart.

**Fairness.** *Server:* the event loop resumes every task whose `await` is done,
a send is done when it drains or its connection closes (the library's keepalive
closes one that does not answer), and the credential request has a timeout. So
the handlers' own steps are weakly fair. The receive of a closed connection
first yields the messages that came before the close, which are finitely many:
strong fairness of `RecvRaises`. Clients owe nothing: no message, connection or
disconnection is assumed to happen. *Jitter buffer:* time passes, and the caller
keeps calling `get` ("once per packet interval"); weak fairness of both. The
network owes nothing, but what it delivers is finite (`MaxCopies`): without that
bound packets can be evicted and delivered again for ever, each time just before
the call that would have found one ready, and `NothingStuck` does not hold.

### Where the code and its comments differ

Five runs check what a comment or docstring says and find it violated
(`findings` in `PROJECT.json` quotes both sides).

| Run | The text | What happens |
|---|---|---|
| `StaleUserList` | "list of other online users" | the list is older than the reply: a user who registered during the credential request is missing, one who left during it is brought back |
| `ByesCutShort` | "notifies active call partners" | a partner that has closed cuts the loop short |
| `RenamedParty` | "notifies active call partners" | a party that registers under another name during its call cannot be found when the other one leaves: the books keep the old name |
| `LateAnswer` | "both sides have each other's SDP" | the answer to a call that was hung up becomes the remote description of the next one, whose own answer is refused |
| `ByeOfAnother` | "our outgoing call was declined" | a caller hangs up and calls again; the callee declines the first call, and the page, which does not look at the call id, ends the second |

`PartnersTold` is the property that remains of the second and the third: in the model
a client is left believing in a call only if one of five things is on record for that
call. A party registered under another name (288). A loop of BYEs was cut short (333).
The name was taken again while its previous owner's clean-up was under way (330). A
message between others, one of whom is no party of the call, overwrote or removed its
entry in the books (414, 512): the page sends the id of the moment. Or the call had no
id, and so no entry (413). The second and the first are the findings above; of the
others no text of the repository says that they cannot happen. `NotifiedUnless` is the
form in which a run takes one cause off the list and finds the violation.
`LateAnswersAreOver` is
what remains of the fourth: where a bye ends no call but its own, and no connection
fails for want of the right answer, the wrong answer is always followed by the end
of the call it belongs to.
`build_request` and `build_response` write no blank line after the headers when there
is no body (`sip.py` 268), although the docstring at 258 has one; `BuildMessage` does
what the code does. No run is kept for it: it restates that line.

Likewise `NoMutualBlindness`: lists may be wrong, but of two registered clients
at least one can call the other, at any time and not only once all announcements
have arrived.

## 4. Proofs

All theorems hold for every value of the constants, under the assumptions the
modules name: `None` is no user, connection, number or record of a call; the
modulus is at least 2; the buffer size is at least 1; datagrams consist of bytes;
gains are fractions with a positive denominator and formats have samples of 16 bits
(`GainsAssumption`, `FormatsAssumption`); a text is a sequence
of lines and an `m=` line has a list of formats (`TextsAssumption`); what is malformed
is told from the parser's own letters and codecs (`MalformedAssumption`); "SIP/2.0" is
a version, and start lines and header lines have the parts that the comment of
`SipMessage` gives them (`SipAssumption`).

What recursive functions and folds compute for any length is proved without the
library's induction theorems, which are out of the provers' reach: `WFMin` gives the
smallest number at which a statement fails (`Smallest`), and the step from the number
before it is the induction step. A recursive function is seen as the sequence of its
intermediate results for this.

**SignalingServerProofs.** `Invariance` proves `Spec => []IInv` with

    IInv == TypeOK /\ RegistryOwned /\ Named /\ DialogsAccounted

`TypeOK` is not inductive: that an error reply to an unknown target has a
connection to go to is `RegistryOwned`, and that a broadcast has a name to
announce is `Named`, which says at which awaits a handler has one. From it
follow `TypeCorrectness`, `RegistryAgreement`, `CallAccounting`, and
`Refinement`: every step of a handler is a claim or a release of `NameRegistry`,
or leaves the registry alone.

The same module goes on with three properties of what clients believe, each with an
inductive invariant of its own on top of `IInv`.

- `NobodyListsItself`, from `ListInv`: the list about to be sent leaves out the
  client's own name (`OwnLeftOut`), and an announcement its own connection, so
  nothing that is still on its way can put the name into the client's list.
- `SomebodySees`, from `SightInv`: of two clients that keep the name they
  registered under, one has the other in its list, or in the list it is about to
  be sent, *and* no announcement under way is about to strike that name out
  (`OneSeesTheOther`). It is the one that registered last. The announcement that a
  name went offline is the danger, since the name may have been taken again; it
  goes only to those that were registered when it began (`ToldWhenNamed`).
- `BelieversAreTold`, from `BeliefInv`: a client that believes in a call is a party
  to it in the books, under the name it has, or is among those to be told, or one of
  the five causes is on record (`Sound`); a loop of BYEs runs only while its handler is
  at "byes" (`ByesAreSent`), and a connection that believes anything has been opened
  (`Started`). This is the argument that the order of release, broadcast, clean-up and
  synthetic BYEs loses nobody, whatever call ids the pages send, but for those causes.

**CallSetupProofs.** `Types` proves `Spec => []Typed`, and `TypeCorrectness` follows.
`TypeOK` is not inductive: that the handler of Answer has an offer to go on with
is `Offered`. `MicrophoneReleased` needs `AllInHand`: while a client has had one
call at a time, a banner means that nothing else is under way, a handler that
waits for the microphone is the only one and there is no connection, and a
connection that is open is the page's own, with Hang Up shown or with the handler
that opened it still waiting to go on. `MicrophoneInHand` alone does not survive
a step: when the microphone is granted, `createPeerConnection` overwrites `pc`,
and it is the first two parts that say there was nothing to overwrite.

**CallAgreementProofs.** `CallsAgree` proves `Spec => []CallIsShared`. The property
speaks of two connections that are paired; its inductive invariant has to say, from
the click on, where everything is that may pair them. On top of `Typed` and
`AllInHand`, `Agreed` says:

- of every connection, that nobody has its description before it has described
  itself (`NothingSaid`), and that page and handlers work on connections of their
  own (`Owned`);
- of every page, which handlers there can be and how far its connection is
  (`Staged`);
- of a call id, that it is nowhere else until the invite is sent (`NewCall`), and
  that it has been generated if it is anywhere (`Numbered`);
- of an offer that has been made (`Offers`): the invite that brings it is in nobody's
  mail but the callee's, ahead of whatever else in that mail belongs to the call;
  who answers it is the callee, with the caller as its peer and the call id of the
  invite; and no handler and no other caller takes it for an answer;
- of its call (`Held`): nobody else knows it, there is no second invite, and as long
  as the callee may answer it or has answered it, the books have both parties, or
  one of them has the end of the call in its mail (`Told`), or a handler of the server
  has still to send it (`Due`), or it was lost on record (`Missed`);
- of an answer (`Answers`), that nobody takes it for an offer.

Two facts decide it. The end of a call comes after its invite in the callee's mail,
so whoever has read the end does not answer any more (`HeadOfCall`). And a clean-up of
the server, cut into its awaits, hands the parties over without losing one: what it
takes out of the books is due in the same step, and each step of the loop sends a bye
that is due, keeps it, or records that its client takes part in that call and was not
told (`Kept`, `Settled`, `LeavingSettles`). A client that takes no part in the call at
that moment will not, for its invite is gone; and one whose WebSocket closes loses the
mail on record (`Dropped`). A call id is new as long as neither the books nor the byes
that are due (`Owing`) have it. The proof has two layers: every action is a *move*
(`StepMoves`), which says what the step of one client may do to its page, its
connections, the mail and the books; and every part of `Agreed` survives a move.
The property leaves out, as the run does, clients that had two calls at once or one
cut short while a handler was waiting.

**CallCandidatesProofs.** `CandidatesArrive` proves `Spec => []CandidatesKept`. Its
inductive invariant is `Known`, on top of `Agreed`; a candidate *arrives* at a page
(`Arrives`) while it is in the page's mail, in its queue or on its connection:

- a connection that has not described itself has found no candidate (`NoneFound`);
- a queue that still holds something has no remote description to add it to
  (`Flushed`): setting one and emptying the queue is one step of the code;
- a candidate of the caller comes to the callee after the invite (`OfferFirst`), and
  arrives as long as the callee may answer or has answered (`OfferFollowed`);
- a candidate of who answers the offer arrives at the caller (`AnswerFollowed`).

`Flushed` turns "arrives" into what the property says. `OfferFirst` is what saves the
early candidate: whoever has it has read the invite before, and a page that takes an
invite has no call whose end would empty the queue (`TakesNoInvite`). The proof adds
to the moves of `CallAgreementProofs` what a step does about candidates (`StepFinds`):
without a disconnect nothing that arrives is lost but by the end of the page's own
call (`ArrivesStill`). The theorem, like the run, is about behaviours without
disconnects: a WebSocket that closes takes its mail with it. In those no handler of
the server ever leaves (`Connected`, `NobodyLeaves`).

**CallAnswersProofs.** `LateAnswersEnd` proves `Spec => []LateAnswersAreOver`: an
answer on a connection whose offer it does not answer is followed by the end of the
call it belongs to. The danger is that the end is read first and the answer then
stays for good. On top of `Agreed` and `Known`, `Replied` says of the calls of
clients that met none of the mishaps (`Undisturbed`):

- an invite is followed in the mail by the end of its call if that is over (`Invited`);
- who may still answer has the offerer as its peer, and the call lasts or its end is
  on its way (`Considered`);
- an answer is on its way once, to who made the offer, and has not been there
  (`Answered`);
- the caller is told of the end only when nobody may answer any more (`Concluded`);
- the property itself (`Applied`).

What decides it is that a caller leaves an offer unanswered only by hanging up, and
so has posted a bye to the callee, and that the callee, who reads the bye after the
invite and answers nothing afterwards, has put its answer into the caller's mail
before whatever it says about the end.

**JitterBufferProofs.** `HalfCircleOrder`: for any modulus, `SequenceBefore`
orders the numbers of two packets less than half a circle apart as the stream
orders the packets. The lemmas compute the distance of two numbers from that of
their packets.

`Invariance` proves `Spec => []IInv` with

    IInv == TypeOK /\ Window /\ Started /\ Bounded /\ SlotsCountedOnce

`Window` carries the argument: what is held lies from the position on and less
than half a circle ahead, so `HalfCircleOrder` applies to any two numbers in the
buffer, `_find_oldest_sequence_number` finds the earliest packet
(`OldestIsEarliest`), an arrival is late exactly if it is behind the position
(`LateIsBehind`), and the gap computed from numbers is the gap in the stream
(`GetReleases`). `Started` says what is known before and after the first
release. `StreamOrder` follows: a release is at or after the position, and the
last one was before it. `Refinement`: with "packet p is pending if it is stored
under its number" the buffer of numbers implements `PlayoutBuffer`, step by step.

**MediaBytesProofs.** `RoundTrip`, `NativeAgreement` and `PayloadIsTheRest` say of
a datagram of any bytes and any length what the run `MediaBytes` shows of 768 and
their beginnings. The arithmetic is in lemmas about one flag byte, where a bit
tested by shifting is the bit tested by masking (`SameBit`) and the flags that
`parse_rtp_header` refuses leave exactly the byte that `build_rtp` writes
(`PlainFlags`); `HeaderFits` bounds the header's length by the datagram's, and the
rest is about positions in a sequence. The invariant needed is only that a
datagram consists of bytes.

Five theorems are about the mixer, for any streams of any length and any number of
them. A mix of many streams is seen as its running totals (`Totals`), which are the
sum whatever computes it (`TotalIs`, `TotalsDiffer`); a byte string that the mixer
wrote unpacks to the samples it was packed from (`SamplesPacked`, `PackedSamples`).
`OrderDoesNotMatter` exchanges two neighbours (`MixOfExchanged`), `NoWrapAround`
and `SilenceChangesNothing` add a stream (`MixOfMore`), `OppositesLeaveNothing` uses
that truncation towards zero does to a number what it does to its opposite
(`OppositeTruncated`), and `HeadroomForTwo` needs only the amplitude of a tone.

**MessageTextsProofs.** Theorems about texts of any lines and any length. A recursive
function over the lines is described by the three things it does with a line: read
it, keep what it has, join the result to the rest (`Steps`); that there is a sequence
of states, and only one, is proved by looking at the first line where there would be
none or where two differ (`StepsExist`, `StepsAgree`).

- `BodyAlone`: once the blank line is there it stays where it is (`BlankLineStays`),
  so header section and body are cut at the same place in the longer text.
- `OnlyLastSectionGrows`: a line more is one step more of the second pass
  (`SecondPassGoesOn`), which touches nothing but the section that is open
  (`LastSectionGrows`).
- `SidesAgree`: what the parser leaves behind are sections with codecs that it has read
  or has of its own (`MediaAreSections`), so that the filter of `negotiate_codecs` keeps
  exactly the codecs whose name and rate the other side has, in their order
  (`Filtered...`), and filtering twice is filtering once.
- `SessionsSurvive`: the lines that `BuildMedia` writes for a section are read back by
  the second pass as that section. First the rtpmaps, of which each stands in the table
  under a payload type of its own (`RtpmapsRead`), then the attributes, which are put in
  the order they came in (`AttributesRead`), so that what closes the section finds the
  codecs in the order of the formats (`MediaRead`); then section after section
  (`AllMediaRead`); and the session lines, which are at most five, in front
  (`RebuiltIs`). The theorem has two hypotheses of its own, which are about the model
  and not the code: `None` is no open section and `Malformed` no value of an `m=` line.
  TLC cannot enumerate all sections there could be, so they are not assumptions of the
  module; a model value meets both.
- `LastLineCounts`: up to any line, what the lines unfold to is what stands before the
  last line that continues no other, plus that line with its continuations
  (`UnfoldedBeginning`). So a line more changes nothing or assigns one header
  (`NothingAdded`, `HeaderAdded`), and the headers up to any line are those of the last
  lines of each name (`HeadersUpTo`); counting them is a bijection (`LastLines`).
- `MessagesSurvive`: of the lines that `BuildMessage` writes (`WrittenMessage`), the empty
  one is the blank line exactly if a body follows; otherwise it is a header line, and is
  skipped (`ReadBack`). The headers have canonical names, each once, so that they are
  assigned back one by one (`SameHeaders`), in a message of version 2.0.

**Only model-checked.**

- The liveness properties `NamesAreFreed`, `CallsAreForgotten` and `NothingStuck`:
  liveness under fairness is beyond the prover.

## 5. Plan

What is left: a jitter buffer whose stream jumps (a sender that restarts). The code has
no rule for it, so first a statement of what should hold.

## 6. What is not modelled

A text without a colon that the next line continues: `sip.py` unfolds (58) before it
looks for the colon (148), so a colon in the continuation makes a header of both;
`Continued` leaves the line malformed. Nothing the builders write looks like that.

The server's listening socket and static files (no state of their own), the
credential request (I/O; its await is modelled), logging, and of the page the
rendering, the statistics, the level meter and the call timer, on which no call
depends. Of `generate_tone` only the amplitude: the sine is a float. The
demonstration script, the benchmarks and the deployment files. WebRTC media
itself runs in the browser.

Hazards without a property, with the reason, are in `PROJECT.json`: a refused
microphone that ends the call for one side only, a second call during a first,
the state handler of a replaced connection, the call timer that is started
twice, and a stream whose numbers jump. `CallSetup` contains the first three as
behaviours; the code and its texts do not say what should hold of them.
