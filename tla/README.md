# socketio-netty in TLA+

socketio-netty is a Socket.IO 0.9 server in Java on Netty 3.4, shipped with the
client library that browsers load from it.  This directory holds TLA+ models of
both, the TLC configurations that check them, and proofs checked by TLAPS.  Java
files are named below without the prefix `src/com/yongboy/socketio/`; "the
browser" is `source/static/socket.io.js`; "the protocol text" is
`demo/socket.io protocol.html`.

## 1. The system

| component | state it keeps | operations |
|---|---|---|
| `server/SocketIOTransportAdapter` (one per channel) | `currentTransport`, chosen by the first request and kept | handshake, dispatch of requests and frames, `channelDisconnected`, `exceptionCaught`, static files |
| `server/MemoryStore` (one) | `ConcurrentHashMap` session id -> client; `BlankIO` is the placeholder of a session without transport | `get`, `add`, `remove`, `checkExist`, `getClients` |
| `server/transport/ITransport` and its five transports | the store, the request | `doHandle` (creation of clients, switch of transport, GET, POST), `handleContent` (framing, packet types 0-5) |
| `server/transport/GenericIO` and `XhrIO`, `JsonpIO`, `HtmlfileIO`, `WebSocketIO` (one per session and transport) | `ctx`, `req`, `open`, `namespace`, `queue`, `scheduledFuture` | `connect`, `reconnect`, `heartbeat`, `send`, `sendEncoded`, `disconnect` |
| `server/transport/EventClientIO.ClearTaskSpeed` (one per scheduled removal) | session id, handler | marks the client closed, calls `OnDisconnect`, closes its channel, removes the session |
| `server/SocketIOManager` | options, the scheduled executor, the store | timers: clear task (60 s or 1 ms), heartbeat and handshake cleanup (25 s) |
| `MainServer`, `server/IOHandlerAbs` | `handlerMap`: namespace -> handler | `getIOHandler`, `addNamespace`, `broadcast`, `ackNotify` |
| `server/SocketIOServer`, `flash/*` | running flag, server channel | start, stop, policy file |
| browser: `Socket` | flags, `transport`, buffer and `doBuffer`, four timers, the reconnect loop | `connect`, `packet`, `setBuffer`, `disconnect`, `reconnect`, callbacks of handshakes and timers |
| browser: `Transport` and its subclasses | `open`, a close timeout, the websocket or the requests that are out | `open`, `close`, `onData`, `onClose`, `packet`, `payload`, `get`, `post` |
| browser: `SocketNamespace` (one per endpoint) | `acks`, `ackPackets` | `send`, `emit`, `onPacket`, `disconnect` |

How they interact.  Netty calls the adapter of a channel on the channel's I/O
worker; there is no execution handler, so the handlers of a transport, of
`handleContent` and of the application run on that worker, and a poll blocks it
for up to 19.996 s.  Workers of different channels, and the threads of the
scheduled executor, share the store and the client objects without locks: the
store is a concurrent map, but every sequence of two accesses to it, and every
field of a client, can be interleaved with the other threads.  Clear tasks
name a session id, not a client.  The browser runs one callback at a time; its
races are among callbacks that are never cancelled: handshakes, timers and the
events of transports it has dropped act on the one `Socket` whatever it is
doing by then.

What is hard: check-then-act on the store (first requests, switch of
transport, clear tasks); timers that outlive the client they were made for;
several connections of one session whose ends are all reported; queues that
several threads drain; messages taken from a queue for a connection that is
gone; a browser whose buffer flag is shared by all its transports; two timeouts
at each end that must not go off while an answer is under way; one namespace
field for a browser that has many.

What makes each component correct:

- session life cycle: a session is served by a client of its own session and
  transport; no session stays behind when its peer is gone; every handler
  returns;
- delivery, both ways: a message is sent at most once and is never in two
  places or in none; it is in order except where the code lets it be overtaken,
  and is lost only with a connection;
- heartbeats: a peer that answers in time is kept, where the code has a loop that
  keeps it, and a silent one is noticed;
- the browser's socket: every attempt to connect and every reconnect loop ends,
  a connected socket is watched, a disconnect is final;
- dispatch: a packet reaches the handler of its namespace, an answer the
  callback it is meant for, and a body is split where it was joined.

## 2. The modules

| module | models | with it |
|---|---|---|
| `Sessions` | the life cycle of sessions, of all transports | `MCSessions`, `SessionsProofs` |
| `Mailbox` | abstract: what `IOClient.send` promises | |
| `PollDelivery` | `XhrIO` and `JsonpIO`: queue, polls, connect packets; implements `Mailbox` | `MCPollDelivery`, `PollDeliveryProofs`, `PollOrderProofs` |
| `StreamDelivery` | `WebSocketIO` and `HtmlfileIO`: the drain loops; implements `Mailbox` | `MCStreamDelivery`, `StreamDeliveryProofs` |
| `Heartbeat` | the timers of both ends, with time, and the network | `MCHeartbeat`, `HeartbeatProofs` |
| `Dispatch` | namespaces, handlers, acknowledgements, broadcasts, framing, both ends | `MCDispatch`, `DispatchProofs` |
| `ClientSocket` | the browser's `Socket` and transports: connect, fall back, reconnect | `MCClientSocket`, `ClientSocketProofs` |
| `Outbox` | what the browser sends: buffer, POSTs, frames, namespaces after a reconnect | `MCOutbox`, `OutboxProofs` |

The modules meet at the objects of the code.  `Sessions` says which client
serves a session and when it is removed; the delivery modules take one client
from its first GET on and follow its messages, with `Sessions`' removals as
`Disconnect`, `Shut` and `Close`.  `ClientSocket` says when the browser has a
transport; `Outbox` takes that as `Open` and `OnDisconnect` and follows its
packets.  `Dispatch` has both ends of one session and leaves loss and order of
what is between them to the delivery modules and `Outbox`.  `Heartbeat` joins
the timers of `Sessions` and `ClientSocket`, which have them without delays.

### Sessions

State: `store` is `MemoryStore.clients`; `uID`, `id`, `ctx`, `open` and
`scheduledFuture` are the fields of every `GenericIO`; `tstate`, `tsid`, `tref`
the tasks of the executor and their local variables; `req`, `link`, `pc`, `ref`,
`cap` are per connection its request, its life in Netty, and where its I/O
worker is with which local variables.  `issued` says how far the handshake of a
session got.

Actions follow the threads.  `HandshakeRespond`, `HandshakeRegister`: the two
steps of `handleHandshake`.  `CheckExist`, `GetClient`, `AddClient`,
`SwitchRemove`, `SwitchAdd`, `ConnectNew`, `Reconnect`, `DisconnectRequest`,
`OtherMethod`, `PostOnOpen`, `PostOnClosed`, `Packet...`: `ITransport.doHandle`
and `handleContent`, one action for each access to the store.  `Beat...`,
`PollEnd`, `Arm`: the heartbeats and the clear task they schedule.  `Ws...`,
`Frame...`, `CloseFrame`: `WebSocketTransport`.  `Close`, `Disconnected`,
`Exception`: the channel events.  `Expire`, `ExpireRemove`: the cleanup of a
handshake; `ClearStart`, `ClearClose`, `ClearThrows`, `ClearRemove`:
`ClearTaskSpeed.run`, which ends early when the handler's `OnDisconnect` throws.

Abstractions: a connection carries one HTTP request (each response is followed
by a close) or one websocket; a body or frame carries one packet; time is left
out, so a pending task may run at any moment, which includes every order of
timers the delays allow.

`Reapable` is the safety form of "no session is forgotten": a client that ever
had a timer, and every streaming client, is about to be removed by a handler that
works on it or by the task its own `scheduledFuture` names, or has a channel whose
end Netty has yet to report.  `SessionReaped` is its liveness form.  Both except
`Abandoned`, a client whose task ended with an exception of `OnDisconnect`: the
executor tells nobody, and the client stays until a request or the end of a
channel makes another task.  The exception `NeverPolled` of `SessionReaped` is a
polling session that never polled.

### PollDelivery

State: the queue, `open` and `ctx` of one client; per connection its request
(`job`), its life (`link`), what the browser got of its response (`resp`), and
its worker's position and locals (`pc`, `chan`, `item`); `sent`, `received`,
`heard` and `dropped` record what became of messages and connect packets.

Actions: `Send` is `GenericIO.send`; `Poll`, `Reconnect`, `BeatNotOpen`,
`BeatOpen`, `BeatOnClosed`, `BeatShut`, `BeatHead`, `Take`, `TimeOut`, `Body` are a
GET and `heartbeat`; `Post`, `Direct...` are a POST with a connect or heartbeat packet
and `sendDirectMessage`; `Disconnect` is `disconnect()`; `Close` and `Break`
are Netty and the network.  `open` and `ctx` are read one step before they are
used, because the code reads them without a lock.  A check of `isOpen` and the
write that follows are one step where a break in between has no outcome of its
own, and two outcomes (`DirectWrite`, `DirectLost`) where it has.

`DeliversMail` is the refinement: `lost` of `Mailbox` is what was dropped, `cut`
is `CutShort`, that some poll did not get its whole response.

### StreamDelivery

State: the queue, `open` and `ctx` of one client, the channels of its session,
and of every thread its position and the message (`item`) and channel (`chan`)
in its local variables.  A thread is an I/O worker or one of the application:
both call `sendEncoded`, which is `Offer`, `Check`, `Poll`, `Channel`, `Write`,
one action for each access to what the threads share.  A connect packet
(`Prepare`) leads to the same loop.  `Reconnect` is another GET; it changes the
client of an htmlfile only.

`NothingLeft` is what the loop must not get wrong: a thread that has found the
queue empty leaves without a lock, and another one may offer just then.  It has
one exception, which the model shows to be needed: a message offered while the
client was shut stays when `reconnect` opens it again, until the next one is
sent.  `OvertakenInHand` says how far messages can be out of order.
`DeliversMail` is the same refinement as above, with a cut when a channel was
closed or broken or the client shut.

### Heartbeat

The timers of both ends with their delays in ticks: the 25 s beat and the 60 s
clear task of a stream, the wait of a poll, the browser's heartbeat timeout, and
messages that take at most `Latency`.  `kind` is one of three: a websocket, an
htmlfile, a polling transport.  A loop (`at`, `age`) is what keeps a session
alive: for a stream each namespace has its own, connect packet or `2::` up, wait,
`2::` down; for a poll there is one.  All loops share the one clear task that the
client's field names (`clear`) and the one timer of the browser (`watch`);
`forgotten` is the oldest of the tasks the field named before.  `Tick` lets time
pass only when nothing is overdue, and the run has deadlock checking on, so time
cannot stop.

Three things of the code end sessions that work:

- an htmlfile sends its packets up by POST; `channelDisconnected` takes the end of
  the POST for that of the session and schedules the removal, in 1 ms
  (`PostEnded`, `removal`);
- a connect packet of a polling browser is echoed on whatever poll waits (`Echo`),
  and the worker of that poll goes on waiting (`blocked`): when it ends it
  schedules a clear task over that of the next poll, which is then named by no
  field and cannot be cancelled (`BlockedEnds`, `Scheduled`);
- `open = false`, which follows the echo (`EchoEnds`), may fall between
  `reconnect` and `heartbeat` of the next poll, which then gets no response
  (`PollMissed`).

`Kept` and `Noticed` are the two sides of a heartbeat.  `Kept`: while the network
works neither end gives up a session that is `Unbroken`, that is a websocket with
a namespace, or a polling session as long as no echo has ended a waiting poll and
no poll has found `open` false (`slipped`).  It is not said of an htmlfile.
`Noticed`: when the network is gone both ends do give up, whatever blocked
workers and forgotten tasks there are, for all three kinds.  The server notices
within 60 s for a stream and 80 s for a poll, if `heartbeat` was ever called:
before that a stream has no clear task (see `claim_beat`).

### Dispatch

State of the browser: the namespace objects (`spaces`), their `acks` and
`ackPackets`, packets still to be transmitted (`up`).  State of the server: the
`namespace` of every client made for the session, whether the last of them is
`stored`, what a worker has read (`arrived`) and what `handleContent`, called for
the client `using`, has still to handle (`work`), the clear tasks with the
handlers they have captured (`clear`: the one the field names, and older ones),
the handler and client a poll was called with (`poll`), the `channel` of a
websocket.

`Transmit` carries one or several frames of a websocket, or all that waits of a
polling browser; `Begin` takes the next frame, or the body, to `handleContent`:
`EncodePayload` joins packets, `Contents` and `Split` take them apart again, with
`trim` and the regular expression, over tokens.  `Handle` is one packet.  `Clear`
and `ClearEnds` are `ClearTaskSpeed.run`: `OnDisconnect`, which may throw, and then
the end of the channel and the session, while a worker goes on with what it has
read.  `Begin` makes a new client for a frame that finds no session
(`initGenericClient`), as does a request whose `checkExist` came before the removal
(`Begin` and `PollLate`); such a client has the namespace of the root.  A handler
may throw in any packet, and a namespace without a handler makes `getIOHandler`
return null, whose use throws: the rest of the body is not read (`Abort`),
`exceptionCaught` closes the channel and schedules a removal (`Caught`), as it
does for an I/O error (`ExceptionCaught`).

`RightHandler`, `AckRight` and `Paired` are stated for a browser that opens one
namespace, because the server has one field: a browser that opens two has the
messages of the first heard by the handler of the second.  `RightHandler` says
that besides the namespace's own handler only the root's may hear a message, and
only from a client that was made anew: that is what the code does to frames that
outlive their session.  `Paired` is stated for websockets, because a poll that
began before the connect packet hands the handler of the root (or none) to the
clear task.  Frames break when a message contains a separator that is followed by
digits: `TextsAssumption` leaves such texts out.  Trailing white space of the last
packet of a body is trimmed, and `SplitExact` says so.

### ClientSocket

State: the flags, timers and counters of `Socket`, the transport in use, and of
every transport that ever was whether it is open, what it still has outstanding,
a second websocket it was made to open (`old` is the first), and its close
timeout.  An action is one callback with all it calls.  An object
that nothing refers to any more may stand for a new one (`Free`).

What the code does and the model shows: a handshake that fails leaves
`connecting` set, so that no later `connect()` does anything (`stuck`); each
open overwrites the one handle of the connect timeout, so earlier ones can no
longer be cancelled (`strays`); `remainingTransports` is never set again; a
transport that timed out is not closed; `disconnect()` does not stop a
handshake or a connect timeout, and throws when there is no transport; the
callback of a deferred open opens whatever transport there is by then, which
throws when that was opened before (its `open` is a flag, no method), and makes a
second websocket beside one that has not opened; `disconnectSync` never
sends its request.  The properties say what holds nevertheless:
`AttemptEnds`, `LoopAlive` and `ReconnectEnds` except `stuck`, and `StaysAway` is
for a disconnect with nothing outstanding.

### Outbox

State: `doBuffer`, `buffer` and the requests in `box`, of every session its
transport and whether it is open, and the packets in the order in which
`Socket.packet` got them.  `Given` is `Socket.packet`, `SetBuffer` is
`Socket.setBuffer`, `Posted` the POST of XHR and of the JSONP form, `Released`
the end of one.  `FrameArrives` and `PostArrives` are the server, which reads
the frames of a websocket in order and each POST on its own thread.

`InOrder` excepts sessions in which a POST was out when another one was done
with (`spoiled`): a heartbeat is answered past the buffer, and its end flushes
the buffer while the other POST is out.  `Announced` excepts namespaces of a
connection that was given up by `disconnect()`: only the reconnect loop renews
them.

## 3. The runs

| run | question | answer |
|---|---|---|
| `sessions` | One session, two connections that make any request a browser makes of a websocket, an htmlfile stream and a poll, two clients and tasks, handlers that may throw: are `TypeOK`, `CtxOfSession`, `Reapable` and the inductive invariant `IInv` invariants? | yes |
| `live_switch` | Two connections that switch the session to and fro: does every handler return from the recursion, and does an abandoned session leave the store? | yes |
| `live_streaming` | Does the session leave the store too when one connection is a websocket with frames after its session was cleared, or one that is refused, or an htmlfile stream, post or other request? | yes |
| `polls_overlap` | XHR polls that overlap, a connect packet, breaks: is a message ever in two places or in none, or dropped without a poll cut short? | no |
| `polls_sequential` | A JSONP browser with one poll at a time: is the order kept, whatever is lost? | yes |
| `streams` | Three threads on one stream that is opened again, broken, closed and shut: is a message sent twice, left behind, or overtaken in the queue? | no |
| `heartbeat` | The default delays, two namespaces, a websocket, an htmlfile or a poll with echoes: is a session whose loop nothing broke kept while the network works, and a silent one of any kind noticed? | yes |
| `dispatch` | A browser with one or two namespaces over a websocket or by polling, a root with a handler, separators and white space, acknowledgements, broadcasts, clear tasks beside a busy worker, exceptions: does everybody hear what is meant for them, but for the root's handler on a client made anew? | yes |
| `client_socket` | A websocket and XHR, every fault, second websockets, stray timers and deferred opens: is an attempt or a reconnect loop left hanging, a connected socket unwatched, a disconnect undone? | no |
| `client_live` | A websocket and JSONP: does a reconnect end, and is the death of the server noticed? | yes |
| `outbox` | Two sessions, three packets, two POSTs that can be answered in any order or fail: is a packet lost, doubled, stuck or out of order, or a namespace not announced again? | no |
| `claim_beat` | Does the browser hear from a working server before its heartbeat timeout? | violated |

`claim_beat` checks a sentence of the protocol text (line 43): the handshake's
answer has "A number of seconds within which a heartbeat is expected".  The
server sends its first `2::` after a connect packet or a heartbeat of the
browser (`WebSocketTransport.java`:102 calls `connect` and not `heartbeat`), and
the browser announces every namespace but the root.  So a websocket of the root
namespace only is never sent a heartbeat, and an idle one is ended by the
browser after 60 s.

Other disagreements between code and text show in the models and have no run:

- the session is stored after the handshake's response was written, so that a
  fast first request gets 403 (`HandshakeRespond`; protocol text 146);
- the end of an htmlfile POST schedules the removal of the session
  (`Disconnected`, `PostEnded` of `Heartbeat`; `SocketIOTransportAdapter.java`:71;
  text 67: the main connection is a GET);
- "clear the existing timer" (`GenericIO.java`:97): overlapping polls leave a
  timer that no field names (`Arm`, `forgotten` of `Heartbeat`);
- `open = false` after a connect packet was answered undoes the next poll's
  `reconnect`, which then gets no response (`DirectDone`, `BeatNotOpen`,
  `PollMissed` of `Heartbeat`; text 316: a poll is closed with a noop);
- a message taken for a poll that ended is gone (`Body`; text 49: both ends are
  to buffer);
- a session that opens two namespaces has the messages of the first heard by the
  handler of the second (`OnMessage` of `Dispatch`; text 203: "Each socket is
  identified by an endpoint");
- a frame that is handled after a clear task removed its session is heard by the
  handler of the root (`Begin` of `Dispatch`; the same sentence);
- `?disconnect` gets no response (`DisconnectRequest`; text 331);
- a polling session that got `1::` and never polls has no timer and stays in the
  store (`NeverPolled`; text 44);
- `XhrIO.connect` may write the echo of a connect packet into a response that has
  begun (`DirectWrite`), and `JsonpIO.connect` answers `1::` to all of them
  (`Info`; text 237);
- the header and padding of an htmlfile response are written by `prepare`, which
  the first GET does not call (`HtmlfileIO.java`:104);
- with heartbeats off the browser computes a timeout of 0 and ends every
  connection at once (`Limit` of `Heartbeat`; `socket.io.js`:1675).

### Bounds

`sessions`: two connections suffice for every race of two handlers and for one
handler against the end of the other's channel; a connection carries one
request, so a session sees two in all, besides the frames of a websocket. Two
clients and two tasks: an object that nothing refers to may be made anew
(`FreshClients`, `FreshTasks`), so the bound is on the objects in use at once,
not on those made; when none is free the action that would make one is disabled.
`live_streaming` has the requests the server refuses or does not answer; they
touch the store no more than those of `sessions` do. `live_switch` has the GETs
of two transports: with frames of a websocket added, `HandlerReturns` does not
hold, since frames that keep arriving add the websocket's client again and again
while a GET of another transport tries to replace it.

The polling runs have four connections: the first GET, two polls that overlap,
and a POST.  Two messages show order, duplication and overtaking; `streams` has
three, for three threads that hold one each, and a second channel to reconnect.
`Posts` has at most one POST of a kind in `PollDelivery`.

`heartbeat` uses the default options in ticks of five seconds: a beat after 5, a
timeout of 12, a poll of 4, and a latency of 3, that is 15 s, so that 25 + 2 * 15
is less than 60 as `InTime` asks.  Two namespaces are enough for one to replace
the clear task of another.  One echo is answered at a time, and one worker waits
for a poll that an echo has ended.

`dispatch` has two namespaces of which one has a handler, and the root, which
has one too: the second handler that could hear wrongly. Two messages, with a
separator after digits and with white space at the end; two packets waiting
(`MaxUp`), which is the smallest body with a frame and the fewest frames of
which one can outlive the session; one packet on its way down (`MaxDown` is
looked at before a packet is handled, whose answers may be several); two
clients, so that one is made anew. A polling browser opens one namespace here,
for the size of the graph; one with two opens them over a websocket, and bodies
of two packets come from the one.

`client_socket` has two transports to fall back on, a websocket and XHR, and two
objects, so that one dropped transport is alive beside the one in use; one
handshake, one stray timer and one deferred open at a time; one attempt before
the last one of the loop; two calls of the application; at most two websockets
of one transport object. `client_live` has a websocket and JSONP, whose polls
cannot be aborted, and no POSTs and no deferred opens, for the size of the
graph. `outbox` has two sessions, the older one with its POSTs still out, two
POSTs so that one can overtake the other, and three packets, of which one may be
a connect packet that is sent again. The theorems have no bound.

Symmetry is used in safety runs only, over values that no definition names
(`First` and `Creator` are left out).  `LiveView` hides the fields of objects
that nothing refers to; they are overwritten before they are read.
`CHECK_DEADLOCK FALSE`: browsers stop making requests when the bounds are used
up.

### Fairness

`Sessions!Fairness`: a started handler and a scheduled task go on (weak
fairness: they run on threads of their own, and `queue.poll` has a timeout); a
channel with a `CLOSE` listener closes; `channelDisconnected` comes after the
frames read before it (strong fairness, as frames disable it while their
handler runs).  Nothing makes a client send, close or fail.
`PollDelivery!Fairness` is the same for the workers and the `CLOSE` listener.
A worker that is starved because all workers wait in polls is not modelled.

`ClientSocket!Fairness`: timers fire, a handshake is answered or fails, a page
gets loaded, and a websocket that is closing, or that cannot connect, reports
so, as does one the socket has dropped.  Nothing makes the server send
anything, and nothing ends the connection of the transport in use.

## 4. The proofs

The theorems hold for every value of the constants.  They assume only the named
assumptions on them: the sentinels (`None`, `Blank`, `Off`, the packets) are
different from each other and from the values they stand among, sets of kinds
and names hold what the code has, `First` and `Creator` are elements of their
sets, and delays and bounds are natural numbers.

`SessionsProofs`: `TypeCorrect`, `ClientOnItsOwnChannel` (`CtxOfSession`),
`NoSessionForgotten` (`Reapable`). `Reapable` is not inductive. A cancelled
timer leaves the client to the handler that cancelled it only if the timer was
its own and no other client's (`FutureOK`: no two clients in use name one task,
and a task that is still to run is one of its client's session) and the handler
works on that session (`RefOK`); `channelDisconnected` finds the session of the
client whose channel ended because clients are bound to channels of their
session (`CtxOK`), and it is still to come when a client is made because a
handler runs before it (`BusyOK`). `IInv` is their conjunction, and `Inductive`
proves it, one lemma per group of actions, one step per action.

`PollDeliveryProofs`: `TypeCorrect`, `MessageInOnePlace` (`OnePlace`) and
`PollDeliversMail` (`DeliversMail`, the refinement of `Mailbox`).  The step that
matters is `Body`: a message is lost only if some poll was cut short.  It needs
that the connection a worker writes to carries a GET (`WorkerOK`, `GetOK`), that
two workers with the same connection have spoiled its response with a second
head (`HeadOK`), and that a connection is closed by the server only after its
response (`ClosingOK`): so a worker that finds neither its own head nor an open
connection has a poll before it that was cut short.  `CutLemma` shows that this
remains so.

`PollOrderProofs`: `ReceivedInOrder` (`InOrder`), under the assumption that the
browser has one poll out at a time (`~Overlap`; with overlapping polls order is
lost, which is why `polls_overlap` does not check it).  A poll whose connection
broke leaves its worker waiting at the queue, so several workers may hold
messages, and one that took a later message may write first.  The strengthening
says which of them can still be heard: the browser waits on one connection
(`OnePoll`), what is queued is later than all that was taken (`QueueLater`), and
a worker that is about to write a message the browser will read holds one later
than all it has (`LiveLast`), since of two workers that write to that connection
one has spoiled the response of the other.

`StreamDeliveryProofs`: all five properties of `streams`.  `OnePlace` goes
through the actions that move a message from one place to the next.
`NothingLeft` is its own invariant: a thread leaves only an empty queue, and
whoever offers goes on to the loop.  `OvertakenInHand` follows from `Ordered`: the
queue is in order, and everything that was ever taken from it is older than what
is left.  The refinement maps a `Write` to a delivery or a loss, and a loss needs
`Hurt`, which follows from `Reached`: a client that is not open was shut, and a
channel in use that is not open was opened once, so it was closed or broken.

`HeartbeatProofs`: `TypeCorrect`, `WorkingConnectionKept` (`Kept`) and
`SilenceNoticed` (`Noticed`).  The invariant relates the ages of the timers to
where the loop of the first namespace is.  `Ahead`: while the network works and
the session is `Unbroken` that loop goes round, and each timer is no older than
the way the loop has come since it started the timer; with `InTime` that is less
than the timeout (lemma `NotDue`), so no timer is ever due.  `Behind`: once the
network is gone nothing starts the browser's timer again, so it is at least as old
as the silence, and so is something that will remove the session: the clear task
of a websocket, the removal of an htmlfile, and for a polling session
(`PollingEnds`) a worker that waits or a clear task, named or forgotten, less the
wait of a poll.  `Shape` says which loops and timers each kind of session has,
that no task is forgotten before an echo ends a poll, that a forgotten task is
older than the one the field names, and that only timers send into a cut network.

`ClientSocketProofs`: `TypeCorrect`, `ConnectedIsWatched`, `AttemptHasEnd`,
`LoopNeverLeft`, `DisconnectIsFinal`, the five properties of `client_socket`.
`Watched` holds because whatever stops the heartbeat timer also clears
`connected` in the same callback.  None of the others is inductive: `LoopState`
ties the reconnect timer to the loop (a timer that outlived its loop would
connect a socket that was told to stay away), `HasTransport` says that nothing
runs before the first transport exists, and `Away` that what was settled when the
application disconnected stays settled, since the transports that remain have had
their `1::` or are closed (`Dead`).

`OutboxProofs`: the five invariants of `outbox`, from four inductive ones.  The
lemmas on `Socket`'s and `Transport`'s operators (`SetBuffer`, `Flush`, `Renew`,
`Perish` and the others) say what each does to the packets; the actions cite them.
- `ShapeInv`: which requests there are.  While the connection is open `doBuffer`
  holds packets back only as long as some POST is out whose end will be told,
  which gives `NothingStuck`.
- `OrderInv`: the buffer is sorted and later than all that was ever given to a
  request; while `doBuffer` is off no POST to the current session is out, or the
  session is `spoiled`.  So a packet that passes the buffer overtakes none.
- `PlaceInv`: each packet is at exactly one site (the buffer, a wire, a POST, the
  server, lost) and there only once; every operation moves packets from one site
  to another.
- `AnnounceInv`: while there is no connection and none is being renewed, the
  connect packets of the namespaces that were not dismissed are in the buffer
  (`Promised`); while there is one they are bound for its session or were read
  from it (`Introduced`), unless its requests fail; and a POST whose end nobody
  will tell is one of a spoiled session (`Silenced`).

`DispatchProofs`: the six invariants of `dispatch`, and `PayloadRead`, on which
`SplitExact` rests: `Contents` undoes `EncodePayload`, for bodies of any number of
packets of any length in which no separator is followed by digits.  `FlattenSeq`
and `Split` are recursive functions, and the induction is by the least (or
greatest) index at which the claim would fail (`Least`, `Greatest`).  `Layout` says
where in a body each packet is; the expression matches at the frames
(`FrameMatches`) and nowhere within a packet (`PacketMatchless`); `trim` only
shortens the last packet (`LayoutTrim`).  The other invariants are about `Line`, the
headers the server has still to see, to which a step of the browser appends and of
which `Handle` takes the first:
- `Sound`: the types, packets that are whole (`Wells`), and `SplitExact`.
- `Asked`, for `NoStranger`: the packets on their way in both directions, the
  namespaces of the session's clients and the objects of the browser name only
  what was opened.
- `Heard`, for `RightHandler`: as long as the next packet is for the client the
  session began with (`Original`) and the namespace of that client is not yet the one
  the browser opens, every message in `Line` waits behind a connect (`Led`), and
  there is one as soon as the browser has the object.  A body that is dropped
  (`Abort`) may take the connect with it only when the namespace is set already.
  A client made anew has the root's namespace until a connect packet sets it, so
  its packets are heard by the root's handler or the right one.
- `Answered`, for `AckRight`: an id stands for one message wherever it is, in a
  message, an answer or a waiting callback (`Marks`), and is not above
  `ackPackets`; an answer that a client made anew sends under the root's name
  finds no callback, since none waits there.
- `Pairing`, for `Paired`: before the connect packet is handled no heartbeat was
  asked for, so the session is whole (`Unmet`) or its channel is gone and nothing
  will be handled (`Closed`); from then on the handler has been told of the end, or
  the session is whole and every clear task is for that handler (`Served`).
The last three are for a browser that opens one namespace, as the properties are.

Only model-checked: liveness (`SessionReaped`, `HandlerReturns`,
`ReconnectEnds`, `DeadServerNoticed`), which needs fairness and `ENABLED`.

## 5. Not modelled, and why

- Server start and stop: one flag and a sequence of Netty calls made by one
  thread; what becomes of open channels and blocked workers is decided in Netty.
- The flash policy server: one constant answer.  FlashSocket is the websocket
  transport under another name, at both ends.
- Static files and the options file: file I/O.  The delays among the options are
  constants of `Heartbeat`.
- The demo handlers: example applications.  What they do to the server
  (acknowledge, broadcast) is in `Dispatch`.
- Of the packet format: ids, JSON and query strings within a packet, the quoting
  of JSONP bodies, and `decodePayload`, whose framed input the server never
  sends.  Of the browser: utilities, the JSON, SWFObject and web-socket-js code
  bundled into the file, type-7 error packets, which the server never sends, and
  `disconnectSync`, which never sends its request.
- The response header and padding of an htmlfile stream.
- How Netty assigns channels to I/O workers: each connection has a worker of its
  own here, so workers that starve behind blocked polls are out of the models.

`source/static/socket.io.js` is in the repository four times, byte for byte, and
the drawing canvas of the whiteboard demo twice; the models refer to the first of
these files.  Much of it is bundled third-party code, a browser's workarounds and
utilities; the models' definitions point into what is left, `Socket`, `Transport`,
`SocketNamespace`, the parser's encoder and the four transports.
