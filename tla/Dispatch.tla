------------------------------ MODULE Dispatch ------------------------------
(***************************************************************************)
(* Which handler hears a packet: namespaces, acknowledgements, broadcasts, *)
(* and the frame that carries several packets in one request.              *)
(*                                                                         *)
(* The browser keeps one namespace object per endpoint and names the       *)
(* endpoint in every packet; the server keeps one field, client.namespace, *)
(* set by the connect packets, and looks the handler up under that field.  *)
(* A websocket carries a packet per frame; a polling transport sends what  *)
(* waits as one body (parser.encodePayload), which handleContent splits    *)
(* with a regular expression.  The handler a clear task will call is       *)
(* captured when the task is scheduled, or, by a poll, when it starts.     *)
(* Clear tasks run beside the worker: what it has read when they remove    *)
(* the session is handled all the same, with a client made anew, which     *)
(* knows nothing of the namespace.                                         *)
(*                                                                         *)
(* Abstractions.  A request is handled packet by packet, each in one step; *)
(* an exception, of the application or of a write, comes at its end.  To   *)
(* make a client and to store it is one step.                              *)
(* Packets go up in order and come down in any order (what the transports  *)
(* lose and overtake is in Outbox, PollDelivery and StreamDelivery).       *)
(* There is one session, with one transport for its life; the other        *)
(* sessions are seen through the broadcasts of their handlers.  The text   *)
(* of a packet is a sequence of tokens: its header, the replacement        *)
(* character "sep", a run of digits, a run of white space, any other text. *)
(* The handlers are the application's: on a message one may acknowledge    *)
(* it, broadcast, both or neither, with texts that are not packets         *)
(* already, as those of DemoChatHandler and WhiteboardHandler are not.     *)
(***************************************************************************)
EXTENDS Naturals, FiniteSets, SequencesExt

CONSTANTS
    Endpoints,  \* the namespaces browsers ask for, without the root
    Root,       \* the root namespace, ""
    Handlers,   \* the namespaces MainServer.addNamespace was called for
    Texts,      \* bound: what the messages of the application say, in their order;
                \* each is a sequence of tokens
    Browsers,   \* bound: transports, and the namespaces an application opens over each
    MaxUp,      \* bound: packets waiting in the browser
    MaxDown,    \* bound: packets on their way to it when the server goes on
    MaxClients  \* bound: clients made for the session

Spaces  == Endpoints \cup {Root}
Tokens  == {<<"sep">>, <<"digits">>, <<"space">>, <<"text">>}
Nobody  == <<"null">>   \* handlerMap.get of a namespace without a handler

\* No text looks like the frame: a separator is never followed by digits.
Framelike(p) == \E i \in 1..Len(p) - 1 : p[i] = <<"sep">> /\ p[i + 1] = <<"digits">>

ASSUME SpacesAssumption == Root \notin Endpoints /\ Handlers \subseteq Spaces
ASSUME BrowsersAssumption ==
    Browsers \subseteq {"websocket", "polling"} \X (SUBSET Endpoints \ {{}})
ASSUME TextsAssumption ==
    /\ Texts \in Seq(Seq(Tokens))
    /\ \A n \in DOMAIN Texts : ~Framelike(Texts[n])

VARIABLES
    opens,      \* the namespaces the application will open (fixed)
    kind,       \* the session's transport (fixed)
    spaces,     \* Socket.namespaces: the endpoints with an object
    acks,       \* SocketNamespace.acks, per endpoint: pairs of an id and its callback
    ackPackets, \* SocketNamespace.ackPackets, per endpoint
    up,         \* encoded packets the browser has still to transmit
    down,       \* packets on their way to the browser
    namespace,  \* GenericIO.namespace of every client made for the session, in order
    stored,     \* the store has the last of them
    channel,    \* a websocket's channel: open, shut, or gone when that was reported;
                \* of a polling transport none is kept
    arrived,    \* packets the worker has read: of a POST, or in frames read together
    using,      \* the client handleContent was called with
    work,       \* contentList: what handleContent has still to handle
    poll,       \* the handler a blocked XhrIO.heartbeat was called with, and its client
    clear,      \* the handlers of the pending clear tasks: of the one that scheduledFuture
                \* of the last client holds, and of others, of which it may be several
    ending,     \* clear tasks have told their handler and will remove the session
    serial,     \* history: packets the application sent
    body,       \* history: the packets of the request being handled, not handled yet
    heard,      \* history: endpoint of a packet, namespace of the handler that heard it,
                \* and the client it was heard from
    crossed,    \* history: a callback was called with the answer to another message
    met,        \* history: the handlers whose OnConnect was called
    parted      \* history: the handlers whose OnDisconnect was called

fixed   == <<opens, kind>>
browser == <<spaces, acks, ackPackets, up, serial>>
session == <<namespace, stored, channel>>
request == <<using, work, body>>
tasks   == <<poll, clear, ending>>
calls   == <<heard, met, parted>>
vars == <<fixed, browser, down, session, arrived, request, tasks, calls, crossed>>

Init ==
    /\ \E b \in Browsers : kind = b[1] /\ opens = b[2]
    /\ spaces = {}
    /\ acks = [e \in Spaces |-> {}]
    /\ ackPackets = [e \in Spaces |-> 0]
    /\ up = <<>>
    /\ down = {[type |-> "connect", endpoint |-> Root]}
    /\ namespace = <<Root>>
    /\ stored = TRUE
    /\ channel = IF kind = "websocket" THEN "open" ELSE "gone"
    /\ arrived = <<>>
    /\ using = 1
    /\ work = <<>>
    /\ poll = {}
    /\ clear = [older |-> {}, future |-> {}]
    /\ ending = FALSE
    /\ serial = 0
    /\ body = <<>>
    /\ heard = {}
    /\ crossed = FALSE
    /\ met = {}
    /\ parted = {}

-----------------------------------------------------------------------------
(* Encoding: parser.encodePacket and parser.encodePayload.                 *)

Header(type, e, id, n) == <<"head", [type |-> type, endpoint |-> e, id |-> id, serial |-> n]>>
Packet(type, e, id, n, data) == <<Header(type, e, id, n)>> \o data

Frame == <<<<"sep">>, <<"digits">>, <<"sep">>>>

\* Mutant: packets are put one after the other.
EncodePayloadBare(packets) == FlattenSeq(packets)

EncodePayload(packets) ==
    IF Len(packets) = 1 THEN packets[1]
    ELSE FlattenSeq([i \in DOMAIN packets |-> Frame \o packets[i]])

-----------------------------------------------------------------------------
(* Decoding: ITransport.handleContent and getSplitResults.                 *)

\* String.trim.
Visible(c) == {i \in DOMAIN c : c[i] # <<"space">>}
Trim(c) ==
    IF Visible(c) = {} THEN <<>>
    ELSE SubSeq(c, CHOOSE i \in Visible(c) : \A j \in Visible(c) : i <= j,
                   CHOOSE i \in Visible(c) : \A j \in Visible(c) : j <= i)

\* Mutant: \ufffd\d*\ufffd, which needs no digits.
MatchEndAny(c, i) ==
    IF i + 2 <= Len(c) /\ SubSeq(c, i, i + 2) = Frame THEN i + 2
    ELSE IF i < Len(c) /\ SubSeq(c, i, i + 1) = <<<<"sep">>, <<"sep">>>> THEN i + 1 ELSE 0

\* Where the frame's expression, \ufffd\d{1,}\ufffd, ends when it matches at i.
MatchEnd(c, i) == IF i + 2 <= Len(c) /\ SubSeq(c, i, i + 2) = Frame THEN i + 2 ELSE 0

\* String.split: what comes before the first match from i on, then the rest; an
\* empty part is skipped.
Split(c) ==
    LET Part(i, j) == IF i > j THEN <<>> ELSE <<SubSeq(c, i, j)>>
        From[i \in 1..Len(c) + 1] ==
            LET ms == {m \in i..Len(c) : MatchEnd(c, m) # 0}
                m  == CHOOSE m \in ms : \A j \in ms : m <= j
            IN IF ms = {} THEN Part(i, Len(c))
               ELSE Part(i, m - 1) \o From[MatchEnd(c, m) + 1]
    IN From[1]

Contents(content) ==
    LET c == Trim(content) IN
    IF c # <<>> /\ c[1] = <<"sep">> THEN Split(c) ELSE <<c>>

-----------------------------------------------------------------------------
(* The browser *)

Put(packet) ==
    /\ Len(up) < MaxUp
    /\ up' = Append(up, packet)

Connecting(e) == Packet("connect", e, 0, 0, <<>>)

\* Socket.of for a namespace that may be new; the caller has the rest of its step.
Of(e) ==
    /\ spaces' = spaces \cup {e}
    /\ IF e \in spaces \cup {Root} THEN up' = up ELSE Put(Connecting(e))

\* The application opens one of its namespaces.
Open(e) ==
    /\ e \in opens \ spaces
    /\ Of(e)
    /\ UNCHANGED <<fixed, acks, ackPackets, serial, down, session, arrived, request, tasks,
                   calls, crossed>>

Sends(e) ==
    /\ e \in spaces \cap opens
    /\ serial < Len(Texts)
    /\ serial' = serial + 1
    /\ UNCHANGED <<fixed, spaces, down, session, arrived, request, tasks, calls, crossed>>

\* SocketNamespace.send and emit without a callback.
Emit(e) ==
    /\ Sends(e)
    /\ Put(Packet("event", e, 0, serial', Texts[serial']))
    /\ UNCHANGED <<acks, ackPackets>>

\* Mutant: the counter is read and not advanced.
EmitWithAckSameId(e) ==
    /\ Sends(e)
    /\ LET id == ackPackets[e] + 1 IN
          /\ acks' = [acks EXCEPT ![e] = {a \in @ : a[1] # id} \cup {<<id, serial'>>}]
          /\ Put(Packet("event", e, id, serial', Texts[serial']))
    /\ UNCHANGED ackPackets

\* The same with a callback: it waits in acks under the next id.
EmitWithAck(e) ==
    /\ Sends(e)
    /\ LET id == ackPackets[e] + 1 IN
          /\ ackPackets' = [ackPackets EXCEPT ![e] = id]
          /\ acks' = [acks EXCEPT ![e] = {a \in @ : a[1] # id} \cup {<<id, serial'>>}]
          /\ Put(Packet("event", e, id, serial', Texts[serial']))

\* SocketNamespace.disconnect of a namespace.
Leave(e) ==
    /\ Sends(e)
    /\ Put(Packet("disconnect", e, 0, serial', <<>>))
    /\ UNCHANGED <<acks, ackPackets>>

\* SocketNamespace.onPacket, type ack: the callback is called and forgotten.
Called(p) ==
    LET found == {a \in acks[p.endpoint] : a[1] = p.id} IN
    /\ acks' = [acks EXCEPT ![p.endpoint] = @ \ found]
    /\ crossed' = (crossed \/ \E a \in found : a[2] # p.answers)

\* Socket.onPacket: the packet's namespace, made if it does not exist, handles it.
Receive(p) ==
    /\ p \in down
    /\ down' = down \ {p}
    /\ IF p.type = "heartbeat"
       THEN Put(Packet("heartbeat", Root, 0, 0, <<>>)) /\ UNCHANGED spaces
       ELSE Of(p.endpoint)
    /\ IF p.type = "ack" THEN Called(p) ELSE UNCHANGED <<acks, crossed>>
    /\ UNCHANGED <<fixed, ackPackets, serial, session, arrived, request, tasks, calls>>

\* WS.send transmits a packet, XHR.payload all that waits.  The worker may read
\* several frames at a time; checkExist refuses a POST for a session that is gone.
Transmit ==
    /\ up # <<>> /\ arrived = <<>> /\ work = <<>>
    /\ kind = "websocket" => channel = "open"
    /\ \E n \in (IF kind = "websocket" THEN 1..Len(up) ELSE {1, Len(up)}) :
          /\ up' = SubSeq(up, n + 1, Len(up))
          /\ arrived' = IF kind = "polling" /\ ~stored THEN <<>> ELSE SubSeq(up, 1, n)
    /\ UNCHANGED <<fixed, spaces, acks, ackPackets, serial, down, session, request, tasks,
                   calls, crossed>>

-----------------------------------------------------------------------------
(* The server *)

\* Mutant: a namespace nobody was added for is given some handler.
GetIOHandlerDefault(e) == IF e \in Handlers THEN e ELSE CHOOSE h \in Handlers : TRUE

\* MainServer.getIOHandler.
GetIOHandler(e) == IF e \in Handlers THEN e ELSE Nobody

\* The client in the store, if there is one, and the client of a packet's sender.
Latest == Len(namespace)
Here   == namespace[using]

\* doNewI0Client and store.add: a task of the client before is out of reach.
Made ==
    /\ Latest < MaxClients
    /\ namespace' = Append(namespace, Root)
    /\ stored' = TRUE
    /\ clear' = [older |-> clear.older \cup clear.future, future |-> {}]
    /\ UNCHANGED channel

\* A frame or the body of a POST: initGenericClient, or store.get of doHandle, and
\* the beginning of handleContent.
Begin ==
    /\ arrived # <<>> /\ work = <<>>
    /\ \E n \in {IF kind = "websocket" THEN 1 ELSE Len(arrived)} :
          /\ work' = Contents(EncodePayload(SubSeq(arrived, 1, n)))
          /\ body' = SubSeq(arrived, 1, n)
          /\ arrived' = SubSeq(arrived, n + 1, Len(arrived))
    /\ \/ stored /\ UNCHANGED <<session, clear>>
       \/ ~stored /\ Made
    /\ using' = Len(namespace')
    /\ UNCHANGED <<fixed, browser, down, poll, ending, calls, crossed>>

\* scheduleClearTask and scheduleRemoveTask for handler h: the field holds the new
\* task, and one it held goes on.
Scheduled(ts, h) == [older |-> ts.older \cup ts.future, future |-> {h}]

\* prepareHeartbeat cancels the task the field holds.
Cancelled(ts) == [ts EXCEPT !.future = {}]

\* exceptionCaught: the channel is closed, which channelDisconnected reports at once,
\* and both schedule a removal for the client in the store, of namespace e.
Caught(ts, e) ==
    LET h == GetIOHandler(e) IN
    /\ channel' = "gone"
    /\ clear' = CASE ~stored -> ts
                  [] stored /\ channel = "open" -> Scheduled(Scheduled(ts, h), h)
                  [] stored /\ channel # "open" -> Scheduled(ts, h)

\* A handler throws, as a call of null does: the rest of the body is not looked at.
\* ts are the clear tasks there are by then.
Abort(ts) ==
    /\ work' = <<>>
    /\ body' = <<>>
    /\ Caught(ts, namespace'[Latest])

\* On to the next packet of the body.
Handled(ts) ==
    /\ work' = Tail(work)
    /\ body' = SubSeq(body, 2, Len(body))
    /\ clear' = ts
    /\ UNCHANGED channel

\* What is written to a closed channel goes nowhere.
Written(packets) == IF kind = "websocket" /\ channel # "open" THEN {} ELSE packets

\* WebSocketTransport.doHandle sends handleContent's "1" after the frame.
Answer ==
    IF kind = "websocket" THEN {[type |-> "event", endpoint |-> namespace'[using]]} ELSE {}

\* IOHandlerAbs.ackNotify.
AckNotify(head) ==
    IF head.id = 0 THEN {}
    ELSE {[type |-> "ack", endpoint |-> Here, id |-> head.id, answers |-> head.serial]}

\* Mutant: the text is wrapped once, for the client whose handler broadcasts.
WrappedFor(from, to) == from

\* IOHandlerAbs.broadcast from a client of namespace from: GenericIO.send wraps the
\* text for each client with that client's own namespace.
Wrapped(from, to) == to
Broadcast(from) ==
    IF stored THEN {[type |-> "event", endpoint |-> Wrapped(from, namespace[Latest])]} ELSE {}

\* Types 3, 4 and 5: OnMessage, and what the application does in it.
OnMessage(head) ==
    LET h == GetIOHandler(Here) IN
    /\ UNCHANGED <<namespace, met, parted>>
    /\ IF h = Nobody
       THEN Abort(clear) /\ UNCHANGED <<down, heard>>
       ELSE /\ Handled(clear) \/ Abort(clear)
            /\ heard' = heard \cup {<<head.endpoint, h, using>>}
            /\ \E answers \in {{}, AckNotify(head)}, told \in {{}, Broadcast(Here)} :
                  down' = down \cup Written(answers \cup told \cup Answer)

\* The handler of another client broadcasts to every client in the store.
Overhear(from) ==
    /\ Cardinality(down) < MaxDown
    /\ down' = down \cup Written(Broadcast(from))
    /\ UNCHANGED <<fixed, browser, session, arrived, request, tasks, calls, crossed>>

\* WebSocketIO.heartbeat(h): prepareHeartbeat, a new clear task for h, and "2::"
\* after the interval.  The polling transports call heartbeat in Poll only.
Beat(h) == IF kind = "websocket" THEN Scheduled(Cancelled(clear), h) ELSE clear
Beats   == IF kind = "websocket" THEN {[type |-> "heartbeat", endpoint |-> Root]} ELSE {}

\* Mutant: the handler is looked up before the field is set.
HeartbeatForOld(e) == GetIOHandler(Here)

\* doPrepareAction: the handler heartbeat is given, after setNamespace.
HeartbeatFor(e) == GetIOHandler(e)

\* Type 1: doPrepareAction, then OnConnect.
OnConnect(head) ==
    LET e == head.endpoint
        h == GetIOHandler(e)
        t == Beat(HeartbeatFor(e)) IN
    /\ namespace' = [namespace EXCEPT ![using] = e]
    /\ down' = down \cup Written({[type |-> "connect", endpoint |-> e]} \cup Beats
                                 \cup (IF h = Nobody THEN {} ELSE Answer))
    /\ IF h = Nobody
       THEN Abort(t) /\ UNCHANGED met
       ELSE (Handled(t) \/ Abort(t)) /\ met' = met \cup {h}
    /\ UNCHANGED <<heard, parted>>

\* Type 2: client.heartbeat.  (Only a websocket's browser is sent a "2::".)
OnHeartbeat(head) ==
    /\ UNCHANGED <<namespace, calls>>
    /\ LET t == Beat(GetIOHandler(Here)) IN Handled(t) \/ Abort(t)
    /\ down' = down \cup Written(Beats \cup Answer)

\* Type 0: OnDisconnect; the session stays in the store, and a websocket is sent
\* its packet back.
OnDisconnect(head) ==
    LET h == GetIOHandler(Here) IN
    /\ UNCHANGED <<namespace, met>>
    /\ IF h = Nobody
       THEN Abort(clear) /\ UNCHANGED <<down, heard, parted>>
       ELSE /\ Handled(clear) \/ Abort(clear)
            /\ heard' = heard \cup {<<head.endpoint, h, using>>}
            /\ parted' = parted \cup {h}
            /\ down' = IF kind = "websocket"
                       THEN down \cup Written({[type |-> "disconnect", endpoint |-> head.endpoint]})
                       ELSE down

\* handleContent's loop, one packet.
Handle ==
    /\ work # <<>> /\ Cardinality(down) < MaxDown
    /\ LET head == work[1][1][2] IN
          \/ head.type = "event"      /\ OnMessage(head)
          \/ head.type = "connect"    /\ OnConnect(head)
          \/ head.type = "heartbeat"  /\ OnHeartbeat(head)
          \/ head.type = "disconnect" /\ OnDisconnect(head)
    /\ UNCHANGED <<fixed, browser, stored, arrived, using, poll, ending, crossed>>

\* A polling GET: the client in the store reconnects, and XhrIO.heartbeat cancels its
\* clear task and waits.  (At most one poll is waiting.)
Poll ==
    /\ kind = "polling" /\ stored /\ poll = {}
    /\ poll' = {<<GetIOHandler(namespace[Latest]), Latest>>}
    /\ clear' = Cancelled(clear)
    /\ UNCHANGED <<fixed, browser, down, session, arrived, request, ending, calls, crossed>>

\* A GET whose checkExist found the session and whose store.get does not: the client
\* it makes is connected, and does not wait.
PollLate ==
    /\ kind = "polling" /\ ~stored
    /\ Made
    /\ down' = down \cup {[type |-> "connect", endpoint |-> Root]}
    /\ UNCHANGED <<fixed, browser, arrived, request, poll, ending, calls, crossed>>

\* XhrIO.heartbeat ends with a clear task for the handler it was called with; its
\* client may be another one than that of the store by then.
PollEnds ==
    /\ poll # {}
    /\ \E p \in poll :
          clear' = IF p[2] = Latest THEN Scheduled(clear, p[1])
                   ELSE [clear EXCEPT !.older = @ \cup {p[1]}]
    /\ poll' = {}
    /\ UNCHANGED <<fixed, browser, down, session, arrived, request, ending, calls, crossed>>

\* The peer closes a websocket, or it is closed already: when the frames that were
\* read are handled, channelDisconnected schedules a removal, unless the session is
\* gone.
ChannelDisconnected ==
    /\ kind = "websocket" /\ channel # "gone" /\ arrived = <<>> /\ work = <<>>
    /\ channel' = "gone"
    /\ clear' = IF stored THEN Scheduled(clear, GetIOHandler(namespace[Latest])) ELSE clear
    /\ UNCHANGED <<fixed, browser, down, namespace, stored, arrived, request, poll,
                   ending, calls, crossed>>

\* An I/O error on a channel whose worker is not in a handler.
ExceptionCaught ==
    /\ kind = "websocket" => channel = "open" /\ arrived = <<>> /\ work = <<>>
    /\ Caught(clear, namespace[Latest])
    /\ UNCHANGED <<fixed, browser, down, namespace, stored, arrived, request, poll,
                   ending, calls, crossed>>

\* ClearTaskSpeed.run: if there is a client, OnDisconnect of the handler the task was
\* made with, which ends the task if it throws ...
Clear(h) ==
    /\ \/ h \in clear.future /\ clear' = [clear EXCEPT !.future = {}]
       \/ /\ h \in clear.older
          /\ \E others \in SUBSET {h} : clear' = [clear EXCEPT !.older = (@ \ {h}) \cup others]
    /\ IF stored
       THEN /\ ending' \in {TRUE} \cup (IF h = Nobody THEN {} ELSE {ending})
            /\ parted' = IF h = Nobody THEN parted ELSE parted \cup {h}
       ELSE UNCHANGED <<ending, parted>>
    /\ UNCHANGED <<fixed, browser, down, session, arrived, request, poll, heard, met,
                   crossed>>

\* ... and client.disconnect and store.remove, whatever is in the store by then.
ClearEnds ==
    /\ ending
    /\ ending' \in BOOLEAN
    /\ stored' = FALSE
    /\ channel' = IF channel = "open" THEN "shut" ELSE channel
    /\ UNCHANGED <<fixed, browser, down, namespace, arrived, request, poll, clear,
                   calls, crossed>>

Next ==
    \/ \E e \in Endpoints : Open(e) \/ Emit(e) \/ EmitWithAck(e) \/ Leave(e)
    \/ \E p \in down : Receive(p)
    \/ Transmit \/ Begin \/ Handle
    \/ \E from \in Handlers : Overhear(from)
    \/ Poll \/ PollLate \/ PollEnds
    \/ ChannelDisconnected \/ ExceptionCaught
    \/ \E h \in Handlers \cup {Nobody} : Clear(h)
    \/ ClearEnds

Spec == Init /\ [][Next]_vars

-----------------------------------------------------------------------------
(* Properties *)

Ids == 1..Len(Texts)
Headers ==
    [type : {"connect", "event", "heartbeat", "disconnect"}, endpoint : Spaces,
     id : 0..Len(Texts), serial : 0..Len(Texts)]
Piece(p) ==
    /\ p # <<>> /\ Len(p[1]) = 2 /\ p[1][2] \in Headers
    /\ \A i \in DOMAIN p \ {1} : p[i] \in Tokens
Downs ==
    [type : {"connect", "event", "heartbeat", "disconnect"}, endpoint : Spaces]
    \cup [type : {"ack"}, endpoint : Spaces, id : Ids, answers : Ids]

\* Every variable has its type, and what handleContent is about to handle begins with
\* the header of one packet (parser.encodePayload, getSplitResults).
TypeOK ==
    /\ opens \subseteq Endpoints /\ spaces \subseteq Spaces
    /\ kind \in {"websocket", "polling"}
    /\ \A e \in Spaces : acks[e] \subseteq Ids \X Ids /\ ackPackets[e] \in 0..Len(Texts)
    /\ \A packets \in {up, arrived, body, work} :
          \A i \in DOMAIN packets : Piece(packets[i])
    /\ down \subseteq Downs
    /\ namespace \in Seq(Spaces) /\ using \in DOMAIN namespace
    /\ channel \in {"open", "shut", "gone"}
    /\ poll \subseteq (Handlers \cup {Nobody}) \X DOMAIN namespace
    /\ clear.older \cup clear.future \subseteq Handlers \cup {Nobody}
    /\ met \cup parted \subseteq Handlers
    /\ heard \subseteq Spaces \X Handlers \X DOMAIN namespace
    /\ serial \in 0..Len(Texts)
    /\ {stored, ending, crossed} \subseteq BOOLEAN

\* The packets of a request are handled as they were encoded, each once and in
\* order, whatever separators and digits the messages hold: what is still to be
\* handled is what was encoded, but for white space at the end of the body
\* (encodePayload's frame against handleContent's trim and regular expression).
SplitExact ==
    /\ Len(work) = Len(body)
    /\ \A i \in DOMAIN work :
          work[i] = body[i] \/ (i = Len(work) /\ work[i] = Trim(body[i]))

Single == \E e \in Endpoints : opens = {e}

\* A browser that opens one namespace is heard by the handler of that namespace, and
\* by no other, whatever the browsers of other namespaces do; but when a clear task
\* takes the session away from a worker that has packets still to handle, the client
\* made for them has the root's handler hear them (client.namespace against the
\* endpoint in the packet, initGenericClient against ClearTaskSpeed).
RightHandler ==
    Single => \A x \in heard : x[2] = x[1] \/ (x[2] = Root /\ x[3] > 1)

\* A browser that opens one namespace sees a callback called only with the answer to
\* the message it was passed with (ackPackets and acks against ackNotify's id).
AckRight == Single => ~crossed

\* No packet makes a browser open a namespace its application did not ask for: a
\* broadcast reaches every client under a namespace it announced (GenericIO.send
\* against Socket.of, which opens the namespace of a packet and announces it).
NoStranger == spaces \subseteq opens \cup {Root}

\* A handler that saw the one namespace of a websocket session connect has seen it
\* disconnect once the session is gone (the handler captured by the clear task that
\* removes it against the one OnConnect was called on).
Paired == (kind = "websocket" /\ Single /\ ~stored) => met \subseteq parted

=============================================================================
