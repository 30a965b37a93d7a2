---------------------------- MODULE ClientSocket ----------------------------
(***************************************************************************)
(* The browser's end of a connection: Socket and Transport of the client   *)
(* library the server hands out (source/static/socket.io.js).  How a       *)
(* socket gets connected, falls back to another transport, notices that    *)
(* the server is gone, and reconnects.                                     *)
(*                                                                         *)
(* JavaScript runs one callback at a time, so an action is one callback    *)
(* with everything it calls.  What makes the code hard is that a Socket    *)
(* has many callbacks outstanding (handshakes, timers, the events of every *)
(* transport it ever opened) and that most of them are never cancelled:    *)
(* they act on the fields of the socket whatever it is doing by then.      *)
(*                                                                         *)
(* Abstractions.  Messages, buffering and namespaces are left to Outbox;   *)
(* here the server sends "1::", heartbeats, "0::" or anything else.  Time  *)
(* is left out: a timer that is set may fire at any moment.  Listeners of  *)
(* the application do not call back into the socket; it calls connect and  *)
(* disconnect between callbacks.  Flashsocket is websocket's code.         *)
(***************************************************************************)
EXTENDS Naturals, Sequences

CONSTANTS
    Transports,     \* Transport objects
    Names,          \* the transports both ends support, in order of preference
    MaxAttempts,    \* 'max reconnection attempts'
    Faults,         \* which requests may fail: "handshake", "poll", "post", "websocket"
    MaxShakes, MaxDeferred, MaxTimers, MaxPosts, MaxCalls,      \* bounds of the model
    None            \* undefined

AllNames == {"websocket", "xhr-polling", "jsonp-polling", "htmlfile"}
XHR(n)   == n # "websocket"         \* htmlfile and the polling transports inherit from XHR

ASSUME NamesAssumption ==
    /\ Names \in Seq(AllNames) /\ Names # <<>>
    /\ \A i, j \in DOMAIN Names : Names[i] = Names[j] => i = j
ASSUME BoundsAssumption ==
    /\ {MaxAttempts, MaxShakes, MaxDeferred, MaxTimers, MaxPosts, MaxCalls} \subseteq Nat
    /\ MaxShakes > 0
ASSUME FaultsAssumption == Faults \subseteq {"handshake", "poll", "post", "websocket"}
ASSUME NoneAssumption ==
    None \notin Transports \cup Seq(AllNames)

VARIABLES
    connected, connecting, reconnecting,    \* the flags of Socket
    transport,          \* Socket.transport
    tr,                 \* the fields of every Transport, see Fields
    remaining,          \* Socket.remainingTransports
    shakes,             \* handshake requests without an answer
    deferred,           \* callbacks given to Transport.ready and not called yet
    timer, strays,      \* connect timeouts: the one connectTimeoutTimer names, the others
    once,               \* TRUE while a once('connect') listener is registered
    heartbeat,          \* TRUE while heartbeatTimeoutTimer runs
    attempts, reconnectTimer, redo,         \* reconnectionAttempts, -Timer, redoTransports
    up,                 \* FALSE once the server has gone for good
    called,             \* how often the application called connect or disconnect
    left,               \* history: did the application disconnect, and from what
    stuck               \* history: a handshake failed or an open threw

flags  == <<connected, connecting>>
loop   == <<reconnecting, attempts, reconnectTimer, redo>>
timers == <<timer, strays, once>>
calls  == <<shakes, deferred>>
rest   == <<up, called, left>>
vars   == <<flags, loop, timers, calls, transport, tr, remaining, heartbeat, stuck, rest>>

Links == {"none", "connecting", "open", "closing", "closed", "poll"}

(* open is the property that shadows the method open: "method" until it is *)
(* assigned.  link is the websocket, or the request or iframe of get().    *)
(* old is a websocket that a second call of open() has replaced, and whose *)
(* listeners are still those of the transport.                             *)
Fields ==
    [name : AllNames, open : {"method", "true", "false"},
     link : Links, old : Links,
     hello : BOOLEAN,           \* history: "1::" was received
     posts : 0..MaxPosts,       \* POSTs that may still fail
     closeTimer : BOOLEAN]

New(n) == [name |-> n, open |-> "method", link |-> "none", old |-> "none", hello |-> FALSE,
           posts |-> 0, closeTimer |-> FALSE]

Init ==
    /\ connected = FALSE /\ connecting = TRUE /\ reconnecting = FALSE
    /\ transport = None
    /\ tr = [t \in Transports |-> New(Names[1])]
    /\ remaining = None
    /\ shakes = 1 /\ deferred = 0       \* 'auto connect': the constructor calls connect
    /\ timer = FALSE /\ strays = 0 /\ once = FALSE
    /\ heartbeat = FALSE
    /\ attempts = 0 /\ reconnectTimer = FALSE /\ redo = FALSE
    /\ up = TRUE /\ called = 0 /\ left = "no" /\ stuck = FALSE

-----------------------------------------------------------------------------
(* Closing *)

(* transport.close() throws when there is no transport, or a websocket     *)
(* that was never opened.                                                  *)
Unusable(T) ==
    transport = None \/ (T[transport].name = "websocket" /\ T[transport].link = "none")

(* What close() and clearTimeouts() leave of a transport.  A websocket     *)
(* closes later, and the script of a JSONP poll cannot be aborted.         *)
Closed(r) ==
    IF XHR(r.name)
    THEN [r EXCEPT !.open = "false", !.closeTimer = FALSE,
                   !.link = IF r.name = "jsonp-polling" THEN @ ELSE "none"]
    ELSE [r EXCEPT !.closeTimer = FALSE,
                   !.link = IF @ \in {"connecting", "open"} THEN "closing" ELSE @]

(* Socket.reconnect. *)
StartReconnect ==
    /\ reconnecting' = TRUE
    /\ attempts' = 0
    /\ reconnectTimer' = TRUE
    /\ UNCHANGED redo

\* Mutant: a disconnect that was asked for is undone.
ReconnectsAlways(reason) == connected /\ ~reconnecting

(* A connection that was lost is made again, one that was given up is not. *)
Reconnects(reason) == connected /\ reason # "booted" /\ ~reconnecting

\* Mutant: only a socket that is connecting is looked at.
OnDisconnectEarly(T, h, reason) ==
    /\ connecting' = FALSE
    /\ tr' = IF connecting /\ ~Unusable(T) THEN [T EXCEPT ![transport] = Closed(@)] ELSE T
    /\ heartbeat' = h
    /\ UNCHANGED <<connected, loop, transport, remaining>>

(* Socket.onDisconnect, when the caller has made the transports T and the  *)
(* heartbeat timer h.  XHR.close runs Transport.onClose, which calls back  *)
(* into onDisconnect: by then the flags are false and nothing more happens.*)
OnDisconnect(T, h, reason) ==
    /\ connected' = FALSE
    /\ connecting' = FALSE
    /\ IF ~connected /\ ~connecting
       THEN tr' = T /\ heartbeat' = h /\ UNCHANGED loop
       ELSE IF Unusable(T)
       THEN tr' = T /\ heartbeat' = h /\ UNCHANGED loop
       ELSE /\ tr' = [T EXCEPT ![transport] = Closed(@)]
            /\ heartbeat' = (h /\ ~XHR(T[transport].name))
            /\ IF Reconnects(reason)
               THEN StartReconnect
               ELSE UNCHANGED loop
    /\ UNCHANGED <<transport, remaining>>

\* Mutant: a transport that was dropped does not report its end to the socket.
OnCloseIfCurrent(t, T) ==
    LET closed == [T EXCEPT ![t].open = "false", ![t].closeTimer = FALSE,
                            ![t].link = IF @ = "poll" THEN "none" ELSE @]
    IN  IF t = transport
        THEN OnDisconnect(closed, FALSE, "closed")
        ELSE /\ tr' = closed
             /\ heartbeat' = FALSE
             /\ UNCHANGED <<flags, loop, transport, remaining>>

(* Transport.onClose and XHRPolling.onClose: the end of any transport is   *)
(* the end of the socket, whether or not it is the socket's transport.     *)
OnClose(t, T) ==
    LET throws == (connected \/ connecting) /\ Unusable(T)
        aborts == T[t].name = "xhr-polling" /\ ~throws
    IN  OnDisconnect([T EXCEPT ![t].open = "false", ![t].closeTimer = FALSE,
                               ![t].link = IF aborts THEN "none" ELSE @],
                     FALSE, "closed")

-----------------------------------------------------------------------------
(* Connecting *)

(* An object nothing refers to is garbage, and may stand for a new one.    *)
Free(t) ==
    /\ t # transport
    /\ tr[t].link \in {"none", "closed"} /\ tr[t].old \in {"none", "closed"}
    /\ tr[t].posts = 0 /\ ~tr[t].closeTimer

(* Socket.connect, for a caller that leaves connecting as c.               *)
Connect(c) ==
    IF c
    THEN connecting' = c /\ UNCHANGED shakes
    ELSE /\ shakes < MaxShakes
         /\ connecting' = TRUE
         /\ shakes' = shakes + 1

\* Mutant: the option 'connect timeout' is not looked at.
NoConnectTimer(named, n) == timer' = named /\ strays' = n

(* setTimeout(connect timeout), when the handle names a running timer or   *)
(* not (named) and n others run: the handle of the previous one is lost.   *)
SetConnectTimer(named, n) ==
    /\ named => n < MaxTimers
    /\ timer' = TRUE
    /\ strays' = IF named THEN n + 1 ELSE n

(* transport.open(): a websocket starts to connect, beside the one that an *)
(* earlier call made; the others send their first request.                 *)
Opened(r) ==
    IF XHR(r.name)
    THEN [r EXCEPT !.open = "true", !.link = "poll", !.closeTimer = TRUE]
    ELSE [r EXCEPT !.link = "connecting", !.old = r.link]

(* Of the transports T, t is opened as the socket's transport: the         *)
(* callback of ready.  When open is not the method any more the call       *)
(* throws, and no connect timeout is set.  Bound: a transport has at most  *)
(* two websockets.                                                         *)
Open(t, T, named, n) ==
    /\ connecting' = TRUE
    /\ \/ /\ T[t].open = "method" /\ T[t].old = "none"
          /\ tr' = [T EXCEPT ![t] = Opened(@)]
          /\ SetConnectTimer(named, n)
          /\ UNCHANGED stuck
       \/ /\ T[t].open # "method"
          /\ tr' = T
          /\ stuck' = TRUE
          /\ timer' = named /\ strays' = n

(* The inner connect(transports) for the first of names.  The transport    *)
(* before it loses its timeouts, not its connection.  XHRPolling.ready and *)
(* JSONPPolling.ready may defer the open until the page is loaded.         *)
OpenFirst(names, c, named, n) ==
    \E t \in Transports :
        LET T == [x \in Transports |->
                    IF x = t THEN New(names[1])
                    ELSE IF x = transport THEN [tr[x] EXCEPT !.closeTimer = FALSE]
                    ELSE tr[x]]
        IN  /\ Free(t)
            /\ transport' = t
            /\ \/ /\ Open(t, T, named, n)
                  /\ UNCHANGED deferred
               \/ /\ names[1] \in {"xhr-polling", "jsonp-polling"}
                  /\ deferred < MaxDeferred
                  /\ deferred' = deferred + 1
                  /\ tr' = T
                  /\ connecting' = c
                  /\ timer' = named /\ strays' = n
                  /\ UNCHANGED stuck

(* The answer to a handshake: nothing asks whether it is still wanted.     *)
HandshakeOk ==
    /\ up /\ shakes > 0
    /\ shakes' = shakes - 1
    /\ heartbeat' = TRUE
    /\ OpenFirst(Names, connecting, timer, strays)
    /\ once' = TRUE
    /\ UNCHANGED <<connected, loop, remaining, rest>>

(* A handshake that fails leaves connecting as it is.                      *)
HandshakeFails ==
    /\ ~up \/ "handshake" \in Faults
    /\ shakes > 0
    /\ shakes' = shakes - 1
    /\ stuck' = TRUE
    /\ UNCHANGED <<flags, loop, timers, deferred, transport, tr, remaining, heartbeat, rest>>

(* A deferred callback of ready: it opens whatever transport there is now. *)
Ready ==
    /\ deferred > 0
    /\ deferred' = deferred - 1
    /\ Open(transport, tr, timer, strays)
    /\ UNCHANGED <<connected, loop, once, shakes, transport, remaining, heartbeat, rest>>

-----------------------------------------------------------------------------
(* Reconnecting *)

\* Mutant: the flag is left set.
ResetKeepsFlag ==
    /\ reconnectTimer' = FALSE
    /\ UNCHANGED <<reconnecting, attempts, redo>>

(* reset(). *)
Reset ==
    /\ reconnecting' = FALSE
    /\ attempts' = 0
    /\ reconnectTimer' = FALSE
    /\ redo' = FALSE

(* maybeReconnect, called by its timer.  After the last attempt all        *)
(* transports get one more chance (redoTransports), without a timer.       *)
ReconnectTimer ==
    /\ reconnectTimer
    /\ \/ /\ connecting
          /\ UNCHANGED <<flags, loop, shakes, transport, tr>>
       \/ /\ ~connecting /\ attempts < MaxAttempts
          /\ attempts' = attempts + 1
          /\ Connect(FALSE)
          /\ UNCHANGED <<connected, reconnecting, reconnectTimer, redo, transport, tr>>
       \/ /\ ~connecting /\ attempts >= MaxAttempts
          /\ attempts' = attempts + 1
          /\ reconnectTimer' = FALSE
          /\ redo' = TRUE
          /\ \E t \in Transports :
                /\ Free(t)
                /\ transport' = t
                /\ tr' = [tr EXCEPT ![t] = New(Names[1])]
          /\ Connect(FALSE)
          /\ UNCHANGED <<connected, reconnecting>>
    /\ UNCHANGED <<timers, deferred, remaining, heartbeat, stuck, rest>>

\* Mutant: nobody listens to 'connect_failed'.
NoListener == UNCHANGED loop

(* The listener that the last attempt adds to 'connect_failed'. *)
ConnectFailed == IF redo THEN Reset ELSE UNCHANGED loop

(* 'try multiple transports' is off while the socket reconnects, except    *)
(* for the last attempt.                                                   *)
TryMultiple == ~reconnecting \/ redo

After(names, n) ==
    IF \E i \in DOMAIN names : names[i] = n
    THEN LET i == CHOOSE j \in DOMAIN names : names[j] = n
         IN  SubSeq(names, i + 1, Len(names))
    ELSE <<>>

(* The body of a connect timeout, when the handle names a running timer or *)
(* not and n others run.  remainingTransports is never set again, and the  *)
(* transport that timed out is not closed.                                 *)
Timeout(named, n) ==
    LET more == After(IF remaining = None THEN Names ELSE remaining, tr[transport].name)
    IN  \/ /\ connected
           /\ timer' = named /\ strays' = n
           /\ UNCHANGED <<flags, loop, deferred, transport, tr, remaining, stuck>>
        \/ /\ ~connected /\ ~TryMultiple
           /\ connecting' = FALSE
           /\ timer' = named /\ strays' = n
           /\ UNCHANGED <<connected, loop, deferred, transport, tr, remaining, stuck>>
        \/ /\ ~connected /\ TryMultiple /\ more # <<>>
           /\ remaining' = more
           /\ OpenFirst(more, FALSE, named, n)
           /\ UNCHANGED <<connected, loop>>
        \/ /\ ~connected /\ TryMultiple /\ more = <<>>
           /\ remaining' = more
           /\ connecting' = FALSE
           /\ timer' = named /\ strays' = n
           /\ ConnectFailed
           /\ UNCHANGED <<connected, deferred, transport, tr, stuck>>

ConnectTimeout ==
    /\ timer
    /\ Timeout(FALSE, strays)
    /\ UNCHANGED <<once, shakes, heartbeat, rest>>

StrayTimeout ==
    /\ strays > 0
    /\ Timeout(timer, strays - 1)
    /\ UNCHANGED <<once, shakes, heartbeat, rest>>

-----------------------------------------------------------------------------
(* Events of the transports *)

(* Socket.onConnect and the listeners of its 'connect' event: the one that *)
(* clears the connect timeout, and maybeReconnect.                         *)
OnConnect ==
    /\ connected' = TRUE
    /\ connecting' = FALSE
    /\ timer' = (timer /\ ~once)
    /\ once' = FALSE
    /\ IF reconnecting THEN Reset ELSE UNCHANGED loop
    /\ stuck' = FALSE

\* Mutant: every packet is answered by a POST.
HeardAndAnswered(t, p) ==
    [tr EXCEPT ![t].closeTimer = (connected \/ connecting \/ reconnecting),
               ![t].hello = @ \/ p = "connect",
               ![t].posts = IF tr[t].name = "xhr-polling" THEN @ + 1 ELSE @]

(* Transport.onData: the transports after a packet p for t was looked at   *)
(* and before it is handled.                                               *)
Heard(t, p) ==
    [tr EXCEPT ![t].closeTimer = (connected \/ connecting \/ reconnecting),
               ![t].hello = @ \/ p = "connect",
               ![t].posts = IF p = "heartbeat" /\ tr[t].name \in {"xhr-polling", "htmlfile"}
                            THEN @ + 1 ELSE @]

(* After a poll was answered get() makes another one if the transport is  *)
(* open.  The JSONP callback of a closed transport still gets here.        *)
Again(r) ==
    IF r.name \in {"xhr-polling", "jsonp-polling"} /\ r.open # "true"
    THEN [r EXCEPT !.link = "none"] ELSE r

(* Data for the transport t: a message of the websocket, the answer to a   *)
(* poll, a script of the htmlfile.  The server's first packet is "1::".    *)
Data(t, p) ==
    /\ up
    /\ tr[t].link \in {"open", "poll"} \/ tr[t].old = "open"
    /\ p = "connect" <=> ~tr[t].hello
    /\ p = "heartbeat" => tr[t].posts < MaxPosts
    /\ \/ /\ p = "connect" /\ ~connected
          /\ OnConnect
          /\ tr' = [Heard(t, p) EXCEPT ![t] = Again(@)]
          /\ heartbeat' = TRUE
          /\ UNCHANGED <<strays, transport, remaining>>
       \/ /\ p = "disconnect"
          /\ LET T    == Heard(t, p)
                 last == (connected \/ connecting) /\ (t = transport \/ Unusable(T))
             IN  OnDisconnect([T EXCEPT ![t] = IF last /\ @.link = "poll" /\ @.name # "htmlfile"
                                               THEN [@ EXCEPT !.link = "none"] ELSE Again(@)],
                              TRUE, "booted")
          /\ UNCHANGED <<timers, stuck>>
       \/ /\ p # "disconnect" /\ (p = "connect" => connected)
          /\ tr' = [Heard(t, p) EXCEPT ![t] = Again(@)]
          /\ heartbeat' = TRUE
          /\ UNCHANGED <<flags, loop, timers, transport, remaining, stuck>>
    /\ UNCHANGED <<calls, rest>>

(* Transport.onOpen, called by websocket.onopen. *)
OnOpen(r) == [r EXCEPT !.open = "true", !.closeTimer = FALSE]

WebSocketOpens(t) ==
    /\ up
    /\ \/ tr[t].link = "connecting" /\ tr' = [tr EXCEPT ![t] = OnOpen([@ EXCEPT !.link = "open"])]
       \/ tr[t].old = "connecting" /\ tr' = [tr EXCEPT ![t] = OnOpen([@ EXCEPT !.old = "open"])]
    /\ UNCHANGED <<flags, loop, timers, calls, transport, remaining, heartbeat, stuck, rest>>

(* websocket.onclose, at once or after close(). *)
Closes(link) ==
    \/ link \in {"connecting", "closing"}
    \/ link = "open" /\ "websocket" \in Faults

WebSocketCloses(t) ==
    /\ \/ Closes(tr[t].link) /\ OnClose(t, [tr EXCEPT ![t].link = "closed"])
       \/ Closes(tr[t].old) /\ OnClose(t, [tr EXCEPT ![t].old = "closed"])
    /\ UNCHANGED <<timers, calls, stuck, rest>>

(* A poll fails: the answer is not 200, or the script has an error.  The   *)
(* error of an iframe is not looked at.                                    *)
PollFails(t) ==
    /\ ~up \/ "poll" \in Faults
    /\ tr[t].link = "poll" /\ tr[t].name # "htmlfile"
    /\ OnClose(t, [tr EXCEPT ![t].link = "none"])
    /\ UNCHANGED <<timers, calls, stuck, rest>>

(* A POST is answered, or fails.  close() does not abort it. *)
PostOk(t) ==
    /\ up /\ tr[t].posts > 0
    /\ tr' = [tr EXCEPT ![t].posts = @ - 1]
    /\ UNCHANGED <<flags, loop, timers, calls, transport, remaining, heartbeat, stuck, rest>>

PostFails(t) ==
    /\ ~up \/ "post" \in Faults
    /\ tr[t].posts > 0
    /\ OnClose(t, [tr EXCEPT ![t].posts = @ - 1])
    /\ UNCHANGED <<timers, calls, stuck, rest>>

(* The timeout of Transport.setCloseTimeout: Transport.onDisconnect closes *)
(* the transport if it is open.                                            *)
CloseTimeout(t) ==
    /\ tr[t].closeTimer
    /\ LET T == [tr EXCEPT ![t].closeTimer = FALSE]
       IN  IF tr[t].open = "false"
           THEN OnDisconnect(T, heartbeat, "timeout")
           ELSE IF XHR(tr[t].name)
           THEN OnClose(t, [T EXCEPT ![t] = Closed(@)])
           ELSE OnDisconnect([T EXCEPT ![t] = Closed(@)], heartbeat, "timeout")
    /\ UNCHANGED <<timers, calls, stuck, rest>>

(* The heartbeat timeout ends the transport the socket has by then. *)
HeartbeatTimeout ==
    /\ heartbeat
    /\ OnClose(transport, tr)
    /\ UNCHANGED <<timers, calls, stuck, rest>>

(* The server crashes, or the network between them does. *)
ServerDies ==
    /\ up
    /\ up' = FALSE
    /\ UNCHANGED <<flags, loop, timers, calls, transport, tr, remaining, heartbeat, called, left, stuck>>

-----------------------------------------------------------------------------
(* The application *)

(* Nothing is outstanding that could connect the socket again. *)
Dead(r) ==
    \/ r.hello
    \/ r.link \in {"none", "closing", "closed"} /\ r.old \in {"none", "closing", "closed"}

Settled ==
    /\ ~reconnecting /\ shakes = 0 /\ deferred = 0 /\ ~timer /\ strays = 0
    /\ \A t \in Transports : Dead(tr[t])

AppConnect ==
    /\ Connect(connecting)
    /\ left' = "no"
    /\ called < MaxCalls /\ called' = called + 1
    /\ UNCHANGED <<connected, loop, timers, deferred, transport, tr, remaining, heartbeat, up, stuck>>

AppDisconnect ==
    /\ OnDisconnect(tr, heartbeat, "booted")
    /\ left' = IF Settled THEN "settled" ELSE "busy"
    /\ called < MaxCalls /\ called' = called + 1
    /\ UNCHANGED <<timers, calls, up, stuck>>

-----------------------------------------------------------------------------

Packets == {"connect", "heartbeat", "message", "disconnect"}

Event(t) ==
    \/ \E p \in Packets : Data(t, p)
    \/ WebSocketOpens(t) \/ WebSocketCloses(t)
    \/ PollFails(t) \/ PostOk(t) \/ PostFails(t)
    \/ CloseTimeout(t)

Next ==
    \/ HandshakeOk \/ HandshakeFails \/ Ready
    \/ ReconnectTimer \/ ConnectTimeout \/ StrayTimeout \/ HeartbeatTimeout
    \/ \E t \in Transports : Event(t)
    \/ ServerDies
    \/ AppConnect \/ AppDisconnect

Spec == Init /\ [][Next]_vars

(* Timers fire, a handshake is answered, a page gets loaded, and a         *)
(* websocket that is closing or cannot connect reports that it is closed.  *)
(* Nothing ends the connection of the socket's transport, but one the      *)
(* socket has dropped ends some day.                                       *)
Dropped(t) == t # transport \/ tr[t].link \in {"connecting", "closing"}

Fairness ==
    /\ WF_vars(HandshakeOk) /\ WF_vars(HandshakeFails) /\ WF_vars(Ready)
    /\ WF_vars(ReconnectTimer) /\ WF_vars(ConnectTimeout) /\ WF_vars(StrayTimeout)
    /\ WF_vars(HeartbeatTimeout)
    /\ \A t \in Transports :
          WF_vars(CloseTimeout(t)) /\ WF_vars(Dropped(t) /\ (WebSocketCloses(t) \/ PollFails(t)))

FairSpec == Spec /\ Fairness

-----------------------------------------------------------------------------
(* Properties *)

TypeOK ==
    /\ connected \in BOOLEAN /\ connecting \in BOOLEAN /\ reconnecting \in BOOLEAN
    /\ transport \in Transports \cup {None}
    /\ tr \in [Transports -> Fields]
    /\ remaining \in Seq(AllNames) \cup {None}
    /\ shakes \in 0..MaxShakes /\ deferred \in 0..MaxDeferred
    /\ timer \in BOOLEAN /\ strays \in 0..MaxTimers /\ once \in BOOLEAN
    /\ heartbeat \in BOOLEAN
    /\ attempts \in 0..(MaxAttempts + 1) /\ reconnectTimer \in BOOLEAN /\ redo \in BOOLEAN
    /\ up \in BOOLEAN /\ called \in 0..MaxCalls /\ left \in {"no", "settled", "busy"} /\ stuck \in BOOLEAN

(* A connected socket runs the timer that notices a silent server, however *)
(* many transports it has dropped whose events still reach it and clear    *)
(* the timer (Transport.onPacket, Socket.onClose).                         *)
Watched == connected => heartbeat

(* What ends an attempt to connect. *)
Outstanding == shakes > 0 \/ deferred > 0 \/ timer \/ strays > 0

(* A socket that is connecting will be told how it ended: it waits for a   *)
(* handshake, for the page, or for a connect timeout, unless a handshake   *)
(* failed or an open threw (Socket.connect; it refuses to connect again    *)
(* while connecting is set).                                               *)
AttemptEnds == connecting /\ ~connected => Outstanding \/ stuck

(* The loop of Socket.reconnect is never left behind half way: its timer   *)
(* runs, or the last attempt has its connect timeout to come.              *)
LoopAlive == reconnecting => reconnectTimer \/ (redo /\ Outstanding) \/ stuck

(* disconnect() of a socket that has nothing outstanding is final: no      *)
(* timer, late answer or event of a dropped transport connects it again.   *)
StaysAway == left = "settled" => ~connected /\ ~connecting /\ ~reconnecting

(* A socket that has lost its connection gets it back or gives up after    *)
(* its last attempt, unless a handshake failed or an open threw.           *)
ReconnectEnds == reconnecting ~> ~reconnecting \/ stuck

(* When the server is gone the socket notices, and never again believes to *)
(* be connected.                                                           *)
DeadServerNoticed == ~up ~> [](~connected)

=============================================================================
