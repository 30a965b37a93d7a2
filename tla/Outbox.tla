------------------------------- MODULE Outbox -------------------------------
(***************************************************************************)
(* What becomes of a packet the browser's application sends: the buffer of *)
(* Socket, the websocket or the POSTs of the transports, and the renewal   *)
(* of namespaces after a reconnect (source/static/socket.io.js).           *)
(*                                                                         *)
(* A transport that POSTs keeps the order of packets by buffering while a  *)
(* POST is out.  The flag that says so, doBuffer, belongs to the socket:   *)
(* POSTs of older transports, the answer to a heartbeat, which goes past   *)
(* the buffer, and the end of an old websocket set and reset it too.       *)
(*                                                                         *)
(* Abstractions.  Session s uses one transport, and the next one is opened *)
(* when the socket is neither connected nor connecting: attempts that      *)
(* overlap are in ClientSocket.  A packet is its number in the order in    *)
(* which Socket.packet got them; heartbeats are not followed.  A request   *)
(* by XDomainRequest ends like a form, whose failure looks like success.   *)
(***************************************************************************)
EXTENDS Naturals, Sequences

CONSTANTS
    Kinds,          \* the transports the browser may use
    Names,          \* namespaces other than ''
    Posts,          \* POST requests
    MaxSessions, MaxPackets         \* bounds of the model

AllKinds == {"websocket", "xhr-polling", "htmlfile", "jsonp-polling"}

ASSUME KindsAssumption  == Kinds \subseteq AllKinds
ASSUME BoundsAssumption == MaxSessions \in Nat \ {0} /\ MaxPackets \in Nat
ASSUME NamesAssumption  == "" \notin Names

Sessions == 1..MaxSessions

VARIABLES
    connected, open, reconnecting,  \* fields of Socket
    box,            \* Socket.doBuffer, Socket.buffer and the requests, see Boxes
    cur,            \* the session of Socket.transport, 0 before there is one
    kind, link,     \* of every session: its transport, and whether it is open
    failing,        \* the sessions whose requests may fail
    namespaces,     \* the namespaces the application made, in that order
    what,           \* the packets, in the order in which they were accepted
    received,       \* what the server read: <<session, packet>>
    lost,           \* packets of requests that failed
    spoiled,        \* history: sessions with a POST out when another was done with
    dismissed       \* history: namespaces of a connection that was given up, not lost

flags == <<connected, open, reconnecting>>
conns == <<cur, kind, link>>
made  == <<namespaces, what>>
vars  == <<flags, conns, made, box, failing, received, lost, spoiled, dismissed>>

(* wire: the frames given to the websocket of a session.  A POST that is   *)
(* silent is out, and its end will not be told.                            *)
NoPost == [state |-> "free", session |-> 0, body |-> <<>>]

EmptyBox ==
    [doBuffer |-> FALSE, buffer |-> <<>>, wire |-> [s \in Sessions |-> <<>>],
     post |-> [p \in Posts |-> NoPost]]

Init ==
    /\ connected = FALSE /\ open = FALSE /\ reconnecting = FALSE
    /\ box = EmptyBox
    /\ cur = 0
    /\ kind = [s \in Sessions |-> "none"] /\ link = [s \in Sessions |-> "none"]
    /\ failing = {}
    /\ namespaces = <<>> /\ what = <<>>
    /\ received = <<>> /\ lost = {} /\ spoiled = {} /\ dismissed = {}

-----------------------------------------------------------------------------
(* Requests: the box o after a call, when connected is c *)

Entries(q) == {q[i] : i \in DOMAIN q}

FreePosts(o) == {p \in Posts : o.post[p].state = "free"}

\* Mutant: the packets that follow are not buffered.
PostedUnbuffered(o, s, body) ==
    LET new == CHOOSE p \in FreePosts(o) : TRUE
    IN  [o EXCEPT !.post[new] = [state |-> "out", session |-> s, body |-> body]]

(* XHR.post, JSONPPolling.post.  A form takes the iframe of the one before *)
(* it, and nobody hears how that one ended.                                *)
Posted(o, s, body) ==
    LET new == CHOOSE p \in FreePosts(o) : TRUE
        replaced(p) == kind[s] = "jsonp-polling" /\ o.post[p].state = "out" /\ o.post[p].session = s
    IN  [o EXCEPT !.doBuffer = TRUE,
                  !.post = [p \in Posts |->
                              IF p = new THEN [state |-> "out", session |-> s, body |-> body]
                              ELSE IF replaced(p) THEN [o.post[p] EXCEPT !.state = "silent"]
                              ELSE o.post[p]]]

(* Transport.packet and payload, of packets that go together. *)
Transmitted(o, packets) ==
    IF kind[cur] = "websocket" THEN [o EXCEPT !.wire[cur] = @ \o packets]
    ELSE Posted(o, cur, packets)

(* Socket.packet, for one packet after the other. *)
Given(o, c, packets) ==
    IF packets = <<>> \/ ~c \/ o.doBuffer THEN [o EXCEPT !.buffer = @ \o packets]
    ELSE IF kind[cur] = "websocket" THEN Transmitted(o, packets)
    ELSE [Transmitted(o, <<Head(packets)>>) EXCEPT !.buffer = @ \o Tail(packets)]

\* Mutant: the buffer is emptied before it is given to the transport.
SetBufferEmpty(o, c, v) ==
    IF ~v /\ c /\ o.buffer # <<>>
    THEN Transmitted([o EXCEPT !.doBuffer = v, !.buffer = <<>>], <<>>)
    ELSE [o EXCEPT !.doBuffer = v]

\* Mutant: only onConnect flushes.
SetBufferOnly(o, c, v) == [o EXCEPT !.doBuffer = v]

(* Socket.setBuffer: what was buffered goes out as soon as it may. *)
SetBuffer(o, c, v) ==
    IF ~v /\ c /\ o.buffer # <<>>
    THEN [Transmitted([o EXCEPT !.doBuffer = v], o.buffer) EXCEPT !.buffer = <<>>]
    ELSE [o EXCEPT !.doBuffer = v]

(* Bound: an action that may POST waits for a free one. *)
Room(o) == cur # 0 /\ kind[cur] # "websocket" => FreePosts(o) # {}

(* The next packets are the given ones. *)
Make(packets) ==
    /\ Len(what) + Len(packets) <= MaxPackets
    /\ what' = what \o packets

Numbers(packets) == [i \in DOMAIN packets |-> Len(what) + i]

-----------------------------------------------------------------------------
(* The connection *)

Connecting == cur # 0 /\ ~connected /\ link[cur] \in {"opening", "open"}

(* The transport of a new session is opened.  All but a websocket are open *)
(* at once (XHR.open).                                                     *)
Open(k) ==
    /\ cur < MaxSessions
    /\ ~connected /\ ~Connecting
    /\ cur' = cur + 1
    /\ kind' = [kind EXCEPT ![cur + 1] = k]
    /\ IF k = "websocket"
       THEN /\ link' = [link EXCEPT ![cur + 1] = "opening"]
            /\ UNCHANGED <<open, box>>
       ELSE /\ link' = [link EXCEPT ![cur + 1] = "open"]
            /\ open' = TRUE
            /\ box' = [box EXCEPT !.doBuffer = FALSE]
    /\ UNCHANGED <<connected, reconnecting, made, failing, received, lost, spoiled, dismissed>>

(* websocket.onopen. *)
WebSocketOpens ==
    /\ cur # 0 /\ link[cur] = "opening"
    /\ link' = [link EXCEPT ![cur] = "open"]
    /\ open' = TRUE
    /\ box' = SetBuffer(box, connected, FALSE)
    /\ UNCHANGED <<connected, reconnecting, cur, kind, made, failing, received, lost, spoiled, dismissed>>

\* Mutant: namespaces are not connected again.
RenewalsNone == <<>>

(* The connect packets of reset(). *)
Renewals ==
    IF reconnecting THEN [i \in DOMAIN namespaces |-> [type |-> "connect", name |-> namespaces[i]]]
    ELSE <<>>

(* "1::": Socket.onConnect, and maybeReconnect, which listens for it. *)
OnConnect ==
    /\ Connecting /\ link[cur] = "open" /\ Room(box)
    /\ connected' = TRUE
    /\ reconnecting' = FALSE
    /\ dismissed' = IF reconnecting THEN {} ELSE dismissed
    /\ LET flushed == IF box.doBuffer THEN box ELSE SetBuffer(box, TRUE, FALSE)
       IN  box' = Given(flushed, TRUE, Numbers(Renewals))
    /\ Make(Renewals)
    /\ UNCHANGED <<open, conns, namespaces, failing, received, lost, spoiled>>

(* Socket.onDisconnect.  close() ends all but a websocket at once. *)
OnDisconnect(reason) ==
    /\ connected' = FALSE /\ open' = FALSE
    /\ reconnecting' = (reconnecting \/ (connected /\ reason # "booted"))
    /\ dismissed' = IF connected /\ ~reconnecting' THEN Entries(namespaces) ELSE dismissed
    /\ link' = IF ~connected /\ ~Connecting THEN link
               ELSE [link EXCEPT ![cur] = IF kind[cur] = "websocket" THEN "closing" ELSE "closed"]
    /\ UNCHANGED <<cur, kind>>

(* A poll fails or a timer says that the server is silent, or it says "0::". *)
Ends(reason) ==
    /\ connected \/ Connecting
    /\ OnDisconnect(reason)
    /\ UNCHANGED <<made, box, failing, received, lost, spoiled>>

(* websocket.onclose: the current connection ends, and what the frames of  *)
(* this one carried is gone.                                               *)
WebSocketCloses(s) ==
    /\ kind[s] = "websocket" /\ link[s] \in {"opening", "open", "closing"}
    /\ box.wire[s] # <<>> => s \in failing
    /\ LET ended == IF connected \/ Connecting THEN [link EXCEPT ![cur] = "closing"] ELSE link
       IN  link' = [x \in Sessions |->
                      IF x = s THEN "closed"
                      ELSE IF ended[x] = "closing" /\ kind[x] # "websocket" THEN "closed"
                      ELSE ended[x]]
    /\ connected' = FALSE /\ open' = FALSE
    /\ reconnecting' = (reconnecting \/ connected)
    /\ box' = [SetBuffer(box, FALSE, TRUE) EXCEPT !.wire[s] = <<>>]
    /\ lost' = lost \cup Entries(box.wire[s])
    /\ UNCHANGED <<cur, kind, made, failing, received, spoiled, dismissed>>

(* From now on requests of session s may fail. *)
Fail(s) ==
    /\ link[s] # "none" /\ s \notin failing
    /\ failing' = failing \cup {s}
    /\ UNCHANGED <<flags, conns, made, box, received, lost, spoiled, dismissed>>

(* A heartbeat is answered past the buffer, also one in a JSONP script of  *)
(* a transport that was closed.                                            *)
Heartbeat(s) ==
    /\ \/ connected /\ s = cur
       \/ kind[s] = "jsonp-polling" /\ link[s] = "closed"
    /\ kind[s] # "websocket" /\ FreePosts(box) # {}
    /\ box' = Posted(box, s, <<>>)
    /\ spoiled' = spoiled \cup {box'.post[p].session : p \in {x \in Posts : box'.post[x].state = "silent"}}
    /\ UNCHANGED <<flags, conns, made, failing, received, lost, dismissed>>

-----------------------------------------------------------------------------
(* The requests *)

(* The server reads the frames of a websocket one by one. *)
FrameArrives(s) ==
    /\ box.wire[s] # <<>>
    /\ received' = Append(received, <<s, Head(box.wire[s])>>)
    /\ box' = [box EXCEPT !.wire[s] = Tail(@)]
    /\ UNCHANGED <<flags, conns, made, failing, lost, spoiled, dismissed>>

(* It handles the next packet of a POST.  Each POST has its own thread.    *)
PostArrives(p) ==
    /\ box.post[p].body # <<>>
    /\ received' = Append(received, <<box.post[p].session, Head(box.post[p].body)>>)
    /\ box' = [box EXCEPT !.post[p].body = Tail(@)]
    /\ UNCHANGED <<flags, conns, made, failing, lost, spoiled, dismissed>>

\* Mutant: the request that ended is not forgotten.
DoneKept(p) == [box EXCEPT !.post[p].state = "free"]

Done(p) == [box EXCEPT !.post[p] = NoPost]

(* The end of p is told: what was buffered goes to the current transport,  *)
(* though other POSTs may be out.                                          *)
Released(p) ==
    /\ box' = SetBuffer(Done(p), connected, FALSE)
    /\ spoiled' = spoiled \cup {box.post[q].session : q \in {x \in Posts \ {p} : box.post[x].state # "free"}}

(* A POST is answered with 200. *)
PostAnswered(p) ==
    /\ box.post[p].body = <<>>
    /\ \/ box.post[p].state = "out" /\ Released(p)
       \/ box.post[p].state = "silent" /\ box' = Done(p) /\ UNCHANGED spoiled
    /\ UNCHANGED <<flags, conns, made, failing, received, lost, dismissed>>

(* A POST fails, before or after the server handled it.  Forms do not tell *)
(* this from an answer; the others end the current connection.             *)
PostFails(p) ==
    /\ \/ box.post[p].state = "out" /\ box.post[p].session \in failing
       \/ box.post[p].state = "silent"
    /\ lost' = lost \cup Entries(box.post[p].body)
    /\ IF box.post[p].state = "silent"
       THEN box' = Done(p) /\ UNCHANGED <<flags, conns, spoiled, dismissed>>
       ELSE IF kind[box.post[p].session] = "jsonp-polling"
       THEN Released(p) /\ UNCHANGED <<flags, conns, dismissed>>
       ELSE box' = Done(p) /\ OnDisconnect("closed") /\ UNCHANGED spoiled
    /\ UNCHANGED <<made, failing, received>>

-----------------------------------------------------------------------------
(* The application *)

Accept(packets) ==
    /\ Room(box)
    /\ Make(packets)
    /\ box' = Given(box, connected, Numbers(packets))

(* A message, event, ack or farewell of any namespace. *)
Send ==
    /\ Accept(<<[type |-> "message", name |-> ""]>>)
    /\ UNCHANGED <<flags, conns, namespaces, failing, received, lost, spoiled, dismissed>>

(* Socket.of, for a namespace that is new. *)
Of(n) ==
    /\ n \notin Entries(namespaces)
    /\ namespaces' = Append(namespaces, n)
    /\ Accept(<<[type |-> "connect", name |-> n]>>)
    /\ UNCHANGED <<flags, conns, failing, received, lost, spoiled, dismissed>>

(* Socket.disconnect: while a POST is out, or before "1::", its packet is  *)
(* left in the buffer.                                                     *)
Disconnect ==
    /\ connected \/ Connecting
    /\ OnDisconnect("booted")
    /\ IF open THEN Accept(<<[type |-> "disconnect", name |-> ""]>>)
       ELSE UNCHANGED <<what, box>>
    /\ UNCHANGED <<namespaces, failing, received, lost, spoiled>>

-----------------------------------------------------------------------------

Next ==
    \/ \E k \in Kinds : Open(k)
    \/ WebSocketOpens \/ OnConnect
    \/ \E reason \in {"booted", "timeout"} : Ends(reason)
    \/ \E s \in Sessions :
          WebSocketCloses(s) \/ Fail(s) \/ Heartbeat(s) \/ FrameArrives(s)
    \/ \E p \in Posts : PostArrives(p) \/ PostAnswered(p) \/ PostFails(p)
    \/ Send \/ (\E n \in Names : Of(n)) \/ Disconnect

Spec == Init /\ [][Next]_vars

-----------------------------------------------------------------------------
(* Properties *)

TypeOK ==
    /\ connected \in BOOLEAN /\ open \in BOOLEAN /\ reconnecting \in BOOLEAN
    /\ cur \in 0..MaxSessions
    /\ kind \in [Sessions -> Kinds \cup {"none"}]
    /\ link \in [Sessions -> {"none", "opening", "open", "closing", "closed"}]
    /\ what \in Seq([type : {"connect", "message", "disconnect"}, name : Names \cup {""}])
    /\ namespaces \in Seq(Names)
    /\ box \in [doBuffer : BOOLEAN, buffer : Seq(DOMAIN what), wire : [Sessions -> Seq(DOMAIN what)],
                post : [Posts -> [state : {"free", "out", "silent"}, session : 0..MaxSessions,
                                  body : Seq(DOMAIN what)]]]
    /\ \A p \in Posts : box.post[p].state = "free" => box.post[p] = NoPost
    /\ received \in Seq(Sessions \X DOMAIN what)
    /\ failing \subseteq Sessions /\ lost \subseteq DOMAIN what /\ spoiled \subseteq 0..MaxSessions
    /\ dismissed \subseteq Names

(* Where packet n is. *)
Places(n) ==
    {<<"buffer", i>> : i \in {j \in DOMAIN box.buffer : box.buffer[j] = n}}
    \cup (UNION {{<<"wire", s, i>> : i \in {j \in DOMAIN box.wire[s] : box.wire[s][j] = n}} : s \in Sessions})
    \cup (UNION {{<<"post", p, i>> : i \in {j \in DOMAIN box.post[p].body : box.post[p].body[j] = n}} : p \in Posts})
    \cup {<<"received", i>> : i \in {j \in DOMAIN received : received[j][2] = n}}
    \cup {<<"lost">> : x \in {n} \cap lost}

(* A packet is in the buffer, in one request, read by the server or lost   *)
(* with the request that carried it: never in two of these places, so that *)
(* no reconnect, retry or flush sends it twice, and never in none of them. *)
OnePlace == \A n \in DOMAIN what : \E x \in Places(n) : Places(n) = {x}

(* While the socket is connected nothing waits in vain: either packets go  *)
(* to the transport and none is buffered, or a POST is out whose end will  *)
(* be told, whichever transports' events set and reset doBuffer before.    *)
NothingStuck ==
    connected => IF box.doBuffer THEN \E p \in Posts : box.post[p].state = "out"
                 ELSE box.buffer = <<>>

(* The server reads the packets of a session in the order in which the     *)
(* application sent them, unless the end of a POST was told while another  *)
(* was out, as it is when a heartbeat is answered meanwhile.               *)
InOrder ==
    \A i, j \in DOMAIN received :
        i < j /\ received[i][1] = received[j][1] /\ received[i][1] \notin spoiled
            => received[i][2] < received[j][2]

(* Packet n is on its way to session s, or was read from it. *)
Announces(n, s) ==
    \/ n \in Entries(box.buffer) \cup Entries(box.wire[s])
    \/ \E p \in Posts : box.post[p].session = s /\ n \in Entries(box.post[p].body)
    \/ <<s, n>> \in Entries(received)

(* The server of the current session knows, or will know, every namespace  *)
(* of the application: also of one that the browser connected to by itself *)
(* after another was lost.  It may not when requests failed, and does not  *)
(* after a disconnect that was asked for (Socket.reconnect, reset).        *)
Announced ==
    connected /\ cur \notin failing \cup spoiled =>
        \A x \in Entries(namespaces) \ dismissed :
            \E n \in DOMAIN what :
                what[n] = [type |-> "connect", name |-> x] /\ Announces(n, cur)

=============================================================================
