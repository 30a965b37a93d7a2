------------------------------ MODULE Sessions ------------------------------
(***************************************************************************)
(* The life of a session in socketio-netty: who puts it into the store,    *)
(* who replaces it, and who takes it out again.                            *)
(*                                                                         *)
(* A session id is issued by the handshake, which registers the            *)
(* placeholder BlankIO.  From then on three kinds of threads read and      *)
(* write the store, and none of them holds a lock across two accesses:     *)
(*   - the I/O worker of every channel, in messageReceived,                *)
(*     channelDisconnected and exceptionCaught (variables pc, ref, cap);   *)
(*   - the scheduler's clear tasks (ClearTaskSpeed);                       *)
(*   - the scheduler's handshake cleanup.                                  *)
(* Every access to the store is a step of its own, so every interleaving   *)
(* of them is a behaviour.                                                 *)
(*                                                                         *)
(* Abstractions.  A channel carries one HTTP request (every response of    *)
(* the server ends with ChannelFutureListener.CLOSE) or one websocket.  A  *)
(* request body or a frame carries one packet; the content of messages,    *)
(* the queues and what the handler does in its callbacks are left to other *)
(* modules.  Time is left out: a pending task may fire at any moment.      *)
(* Flashsocket is the websocket transport under another name               *)
(* (FlashSocketIO.getId returns "websocket").                              *)
(***************************************************************************)
EXTENDS Naturals, FiniteSets

CONSTANTS
    Sids,       \* session ids (UUIDs drawn by the handshake)
    Chans,      \* TCP connections
    Clients,    \* GenericIO objects
    Tasks,      \* tasks given to SocketIOManager's scheduled executor
    Requests,   \* the requests clients make: records [kind, method]
    None,       \* Java's null
    Blank       \* BlankIO.getInstance()

Streaming == {"websocket", "htmlfile"}
Polling   == {"xhr-polling", "jsonp-polling"}
Kinds     == Streaming \cup Polling

(* "DISCONNECT" is an HTTP request whose URI has the disconnect parameter, *)
(* "OPTIONS" stands for the methods that are neither GET nor POST,         *)
(* "UPGRADE" is a GET that asks for a websocket version netty supports.    *)
AllRequests ==
    [kind : Kinds \ {"websocket"}, method : {"GET", "POST", "DISCONNECT", "OPTIONS"}]
    \cup [kind : {"websocket"}, method : {"GET", "UPGRADE"}]

ASSUME RequestsAssumption == Requests \subseteq AllRequests
ASSUME SentinelAssumption ==
    /\ None \notin Clients \cup Chans \cup Tasks \cup Sids \cup Kinds
    /\ Blank \notin Clients /\ Blank # None
    /\ None \notin [kind : Kinds, method : {"GET", "POST", "DISCONNECT", "OPTIONS", "UPGRADE"},
                    sid : Sids]

VARIABLES
    issued,     \* per session id: "no", "sent" (the client knows it), "registered"
    store,      \* MemoryStore.clients: a client, Blank, or None when the key is absent
    req,        \* per channel: the request it carries (None before there is one)
    link,       \* per channel: none, open, closing (a write with CLOSE), closed, gone
    pc,         \* per channel: where its I/O worker is inside the handler
    ref,        \* per channel: the handler's local variable client
    cap,        \* per channel: the local variable chan of a blocked XhrIO.heartbeat
    uID, id, ctx, open, scheduledFuture,    \* fields of GenericIO
    tstate,     \* per task: done, waiting/expire (cleanup), pending/close/remove (clear),
                \* or threw: it ended with an exception of the handler
    tsid,       \* per task: the session id it was made with
    tref        \* per clear task: its local variable client

chanVars   == <<req, link, pc, ref, cap>>
clientVars == <<uID, id, ctx, open, scheduledFuture>>
taskVars   == <<tstate, tsid, tref>>
vars == <<issued, store, chanVars, clientVars, taskVars>>

RequestOf == [kind : Kinds, method : {"GET", "POST", "DISCONNECT", "OPTIONS", "UPGRADE"},
              sid : Sids]
Links  == {"none", "open", "closing", "closed", "gone"}
PCs    == {"idle", "check", "get", "add", "act", "connect", "remove", "blank", "start",
           "post", "beat", "poll", "arm", "upgrade", "wsadd", "frameadd", "frame"}
TaskStates == {"done", "waiting", "expire", "pending", "close", "remove", "threw"}
Ended      == {"done", "threw"}
Clearing   == {"pending", "close", "remove"}

Init ==
    /\ issued = [s \in Sids |-> "no"]
    /\ store  = [s \in Sids |-> None]
    /\ req    = [k \in Chans |-> None]
    /\ link   = [k \in Chans |-> "none"]
    /\ pc     = [k \in Chans |-> "idle"]
    /\ ref    = [k \in Chans |-> None]
    /\ cap    = [k \in Chans |-> None]
    /\ uID    = [c \in Clients |-> None]
    /\ id     = [c \in Clients |-> None]
    /\ ctx    = [c \in Clients |-> None]
    /\ open   = [c \in Clients |-> FALSE]
    /\ scheduledFuture = [c \in Clients |-> None]
    /\ tstate = [t \in Tasks |-> "done"]
    /\ tsid   = [t \in Tasks |-> None]
    /\ tref   = [t \in Tasks |-> None]

-----------------------------------------------------------------------------
(* Helpers *)

\* MemoryStore.get: BlankIO reads as null.
Get(s) == IF store[s] = Blank THEN None ELSE store[s]

Sid(k) == req[k].sid

\* Objects nobody refers to any more: a new GenericIO is one of them, and so is
\* a new task, or the ended one that only the field about to be overwritten
\* (of client own) still points to.
FreshClients ==
    {c \in Clients : /\ \A s \in Sids : store[s] # c
                     /\ \A k \in Chans : ref[k] # c
                     /\ \A t \in Tasks : tref[t] # c}
FreshTasks(own) ==
    {t \in Tasks : tstate[t] \in Ended
                 /\ \A c \in Clients \ (FreshClients \cup {own}) : scheduledFuture[c] # t}

Goto(k, label) == pc' = [pc EXCEPT ![k] = label]

\* The handler on k returns: its locals are dropped.
Return(k) ==
    /\ Goto(k, "idle")
    /\ ref' = [ref EXCEPT ![k] = None]
    /\ cap' = [cap EXCEPT ![k] = None]

\* channel.write(response).addListener(ChannelFutureListener.CLOSE) on each of S.
Answered(S) ==
    [k \in Chans |-> IF k \in S /\ link[k] = "open" THEN "closing" ELSE link[k]]

\* Channel.close() on each of S, and nothing for one that is closed already.
Closed(S) ==
    [k \in Chans |-> IF k \in S /\ link[k] \in {"open", "closing"} THEN "closed" ELSE link[k]]

IsOpen(k) == link[k] \in {"open", "closing"}

\* The channels XhrIO.sendDirectMessage (JsonpIO's too) writes a whole response to.
DirectTo(c) == IF id[c] \in Polling /\ open[c] THEN {ctx[c]} ELSE {}

\* Mutant: a client of every transport calls itself "websocket".
NewClientWebSocketId(k, c) ==
    /\ uID'  = [uID EXCEPT ![c] = Sid(k)]
    /\ id'   = [id EXCEPT ![c] = "websocket"]
    /\ ctx'  = [ctx EXCEPT ![c] = k]
    /\ open' = [open EXCEPT ![c] = TRUE]
    /\ scheduledFuture' = [scheduledFuture EXCEPT ![c] = None]

\* doNewI0Client: a client of the request's kind, bound to the request's channel.
NewClient(k, c) ==
    /\ uID'  = [uID EXCEPT ![c] = Sid(k)]
    /\ id'   = [id EXCEPT ![c] = req[k].kind]
    /\ ctx'  = [ctx EXCEPT ![c] = k]
    /\ open' = [open EXCEPT ![c] = TRUE]
    /\ scheduledFuture' = [scheduledFuture EXCEPT ![c] = None]

-----------------------------------------------------------------------------
(* Handshake: SocketIOTransportAdapter.handleHandshake.  The response is   *)
(* written before the session is registered.                               *)

HandshakeRespond(s) ==
    /\ issued[s] = "no"
    /\ issued' = [issued EXCEPT ![s] = "sent"]
    /\ UNCHANGED <<store, chanVars, clientVars, taskVars>>

\* Mutant: the placeholder is registered without its cleanup.
HandshakeRegisterNoCleanup(s) ==
    /\ issued[s] = "sent"
    /\ issued' = [issued EXCEPT ![s] = "registered"]
    /\ store' = [store EXCEPT ![s] = Blank]
    /\ UNCHANGED <<chanVars, clientVars, taskVars>>

HandshakeRegister(s) ==
    /\ issued[s] = "sent"
    /\ issued' = [issued EXCEPT ![s] = "registered"]
    /\ store' = [store EXCEPT ![s] = Blank]
    /\ \E t \in FreshTasks(None) :
          /\ tstate' = [tstate EXCEPT ![t] = "waiting"]
          /\ tsid' = [tsid EXCEPT ![t] = s]
    /\ UNCHANGED <<chanVars, clientVars, tref>>

-----------------------------------------------------------------------------
(* HTTP requests: ITransport.doHandle(ctx, HttpRequest, e).                *)

\* A connection is accepted and its request reaches messageReceived.
Request(k, s, r) ==
    /\ link[k] = "none"
    /\ issued[s] # "no"
    /\ req' = [req EXCEPT ![k] = [kind |-> r.kind, method |-> r.method, sid |-> s]]
    /\ link' = [link EXCEPT ![k] = "open"]
    /\ Goto(k, IF r.kind = "websocket" THEN "upgrade" ELSE "check")
    /\ UNCHANGED <<issued, store, ref, cap, clientVars, taskVars>>

CheckExist(k) ==
    /\ pc[k] = "check"
    /\ store[Sid(k)] # None
    /\ Goto(k, "get")
    /\ UNCHANGED <<issued, store, req, link, ref, cap, clientVars, taskVars>>

\* handleInvalidRequest: 403 Forbidden.
RefuseUnknown(k) ==
    /\ pc[k] = "check"
    /\ store[Sid(k)] = None
    /\ link' = Answered({k})
    /\ Return(k)
    /\ UNCHANGED <<issued, store, req, clientVars, taskVars>>

\* Mutant: the client of another transport is used as it is.
GetClientAnyKind(k) ==
    /\ pc[k] = "get"
    /\ LET c == Get(Sid(k)) IN
          /\ ref' = [ref EXCEPT ![k] = c]
          /\ Goto(k, IF req[k].method # "DISCONNECT" /\ c = None THEN "add" ELSE "act")
    /\ UNCHANGED <<issued, store, req, link, cap, clientVars, taskVars>>

\* store.get, then the branches that touch no shared state: null goes to the
\* creation of a client, another kind of transport to its replacement.
GetClient(k) ==
    /\ pc[k] = "get"
    /\ LET c == Get(Sid(k)) IN
          /\ ref' = [ref EXCEPT ![k] = c]
          /\ Goto(k, IF req[k].method = "DISCONNECT" THEN "act"
                     ELSE IF c = None THEN "add"
                     ELSE IF id[c] # req[k].kind THEN "remove"
                     ELSE "act")
    /\ UNCHANGED <<issued, store, req, link, cap, clientVars, taskVars>>

\* ?disconnect: client.disconnect() and return; nothing is written to k.
DisconnectRequest(k) ==
    /\ pc[k] = "act" /\ req[k].method = "DISCONNECT"
    /\ IF ref[k] = None
       THEN UNCHANGED <<link, open>>
       ELSE /\ link' = Closed({ctx[ref[k]]})
            /\ open' = [open EXCEPT ![ref[k]] = FALSE]
    /\ Return(k)
    /\ UNCHANGED <<issued, store, req, uID, id, ctx, scheduledFuture, taskVars>>

AddClient(k) ==
    /\ pc[k] = "add"
    /\ \E c \in FreshClients :
          /\ NewClient(k, c)
          /\ store' = [store EXCEPT ![Sid(k)] = c]
          /\ ref' = [ref EXCEPT ![k] = c]
          /\ Goto(k, IF id'[c] # req[k].kind THEN "remove"
                     ELSE IF req[k].method = "GET" THEN "connect" ELSE "act")
    /\ UNCHANGED <<issued, req, link, cap, taskVars>>

\* The transport switch: remove, add BlankIO, and doHandle from the start.
SwitchRemove(k) ==
    /\ pc[k] = "remove"
    /\ store' = [store EXCEPT ![Sid(k)] = None]
    /\ Goto(k, "blank")
    /\ UNCHANGED <<issued, req, link, ref, cap, clientVars, taskVars>>

SwitchAdd(k) ==
    /\ pc[k] = "blank"
    /\ store' = [store EXCEPT ![Sid(k)] = Blank]
    /\ Goto(k, "check")
    /\ ref' = [ref EXCEPT ![k] = None]
    /\ UNCHANGED <<issued, req, link, cap, clientVars, taskVars>>

\* The first GET: client.connect(null).  A polling client answers its GET.
ConnectNew(k) ==
    /\ pc[k] = "connect"
    /\ link' = Answered(DirectTo(ref[k]))
    /\ open' = [open EXCEPT ![ref[k]] = @ /\ id[ref[k]] \notin Polling]
    /\ Return(k)
    /\ UNCHANGED <<issued, store, req, uID, id, ctx, scheduledFuture, taskVars>>

\* A later GET: client.reconnect(ctx, req), then client.heartbeat.
Reconnect(k) ==
    /\ pc[k] = "act" /\ req[k].method = "GET"
    /\ ctx' = [ctx EXCEPT ![ref[k]] = k]
    /\ open' = [open EXCEPT ![ref[k]] = TRUE]
    /\ Goto(k, "beat")
    /\ UNCHANGED <<issued, store, req, link, ref, cap, uID, id, scheduledFuture, taskVars>>

\* A method that is neither GET nor POST: return without an answer.
OtherMethod(k) ==
    /\ pc[k] = "act" /\ req[k].method = "OPTIONS"
    /\ Return(k)
    /\ UNCHANGED <<issued, store, req, link, clientVars, taskVars>>

PostOnOpen(k) ==
    /\ pc[k] = "act" /\ req[k].method = "POST"
    /\ IsOpen(k)
    /\ Goto(k, "post")
    /\ UNCHANGED <<issued, store, req, link, ref, cap, clientVars, taskVars>>

PostOnClosed(k) ==
    /\ pc[k] = "act" /\ req[k].method = "POST"
    /\ ~IsOpen(k)
    /\ link' = Closed({ctx[ref[k]]})
    /\ open' = [open EXCEPT ![ref[k]] = FALSE]
    /\ Return(k)
    /\ UNCHANGED <<issued, store, req, uID, id, ctx, scheduledFuture, taskVars>>

-----------------------------------------------------------------------------
(* Packets: ITransport.handleContent, for the body of a POST ("post") and  *)
(* for a websocket text frame ("frame").                                   *)

\* What a finished handler still writes to its own channel.
Reply(k) == IF req[k].method = "POST" THEN {k} ELSE {}

\* Types 3, 4, 5 (OnMessage) and 0 (OnDisconnect): the store is left alone.
PacketMessage(k) ==
    /\ pc[k] \in {"post", "frame"}
    /\ link' = Answered(Reply(k))
    /\ Return(k)
    /\ UNCHANGED <<issued, store, req, clientVars, taskVars>>

\* Type 2: client.heartbeat.
PacketHeartbeat(k) ==
    /\ pc[k] \in {"post", "frame"}
    /\ Goto(k, "beat")
    /\ UNCHANGED <<issued, store, req, link, ref, cap, clientVars, taskVars>>

\* Type 1: doPrepareAction of the request's transport; the streaming ones go
\* on to client.heartbeat.
PacketConnect(k) ==
    /\ pc[k] \in {"post", "frame"}
    /\ open' = [open EXCEPT ![ref[k]] = @ /\ id[ref[k]] \notin Polling]
    /\ IF req[k].kind \in Streaming
       THEN /\ link' = Answered(DirectTo(ref[k]))
            /\ Goto(k, "beat")
            /\ UNCHANGED <<ref, cap>>
       ELSE /\ link' = Answered(DirectTo(ref[k]) \cup Reply(k))
            /\ Return(k)
    /\ UNCHANGED <<issued, store, req, uID, id, ctx, scheduledFuture, taskVars>>

-----------------------------------------------------------------------------
(* client.heartbeat and the timers: GenericIO, XhrIO, JsonpIO, HtmlfileIO, *)
(* WebSocketIO.                                                            *)

\* prepareHeartbeat: cancel the task the field scheduledFuture points to.  A
\* task that runs already is only interrupted, and it never waits.
Cancelled(c) ==
    [t \in Tasks |-> IF t = scheduledFuture[c] /\ tstate[t] = "pending"
                     THEN "done" ELSE tstate[t]]

\* A polling client that is not open schedules at once and cancels nothing.
BeatNotOpen(k) ==
    /\ pc[k] = "beat"
    /\ id[ref[k]] \in Polling /\ ~open[ref[k]]
    /\ Goto(k, "arm")
    /\ UNCHANGED <<issued, store, req, link, ref, cap, clientVars, taskVars>>

BeatOnClosed(k) ==
    /\ pc[k] = "beat"
    /\ id[ref[k]] \in Polling /\ open[ref[k]]
    /\ ~IsOpen(ctx[ref[k]])
    /\ tstate' = Cancelled(ref[k])
    /\ open' = [open EXCEPT ![ref[k]] = FALSE]
    /\ Goto(k, "arm")
    /\ UNCHANGED <<issued, store, req, link, ref, cap, uID, id, ctx, scheduledFuture,
                   tsid, tref>>

\* The worker blocks in queue.poll on behalf of the channel it just read.
BeatPoll(k) ==
    /\ pc[k] = "beat"
    /\ id[ref[k]] \in Polling /\ open[ref[k]]
    /\ IsOpen(ctx[ref[k]])
    /\ tstate' = Cancelled(ref[k])
    /\ cap' = [cap EXCEPT ![k] = ctx[ref[k]]]
    /\ Goto(k, "poll")
    /\ UNCHANGED <<issued, store, req, link, ref, clientVars, tsid, tref>>

\* A message came or the poll timed out: write it, then schedule.
PollEnd(k) ==
    /\ pc[k] = "poll"
    /\ link' = Answered({cap[k]})
    /\ Goto(k, "arm")
    /\ UNCHANGED <<issued, store, req, ref, cap, clientVars, taskVars>>

BeatStreaming(k) ==
    /\ pc[k] = "beat"
    /\ id[ref[k]] \in Streaming
    /\ tstate' = Cancelled(ref[k])
    /\ Goto(k, "arm")
    /\ UNCHANGED <<issued, store, req, link, ref, cap, clientVars, tsid, tref>>

\* scheduleClearTask and scheduleRemoveTask: a new task, and the field is
\* overwritten whatever it pointed to.  The handler then returns.
Arm(k) ==
    /\ pc[k] = "arm"
    /\ \E t \in FreshTasks(ref[k]) :
          /\ tstate' = [tstate EXCEPT ![t] = "pending"]
          /\ tsid' = [tsid EXCEPT ![t] = uID[ref[k]]]
          /\ scheduledFuture' = [scheduledFuture EXCEPT ![ref[k]] = t]
    /\ link' = Answered(Reply(k))
    /\ Return(k)
    /\ UNCHANGED <<issued, store, req, uID, id, ctx, open, tref>>

-----------------------------------------------------------------------------
(* Websocket: WebSocketTransport.doHandle.  No checkExist here.            *)

\* handshake and doPrepareClient: a client that is in the store stays there.
WsHandshake(k) ==
    /\ pc[k] = "upgrade" /\ req[k].method = "UPGRADE"
    /\ Goto(k, IF Get(Sid(k)) = None THEN "wsadd" ELSE "idle")
    /\ UNCHANGED <<issued, store, req, link, ref, cap, clientVars, taskVars>>

\* No handshaker for this version: the refusal is written, the channel kept.
WsRefuse(k) ==
    /\ pc[k] = "upgrade" /\ req[k].method = "GET"
    /\ Goto(k, "idle")
    /\ UNCHANGED <<issued, store, req, link, ref, cap, clientVars, taskVars>>

WsAdd(k) ==
    /\ pc[k] = "wsadd"
    /\ \E c \in FreshClients :
          /\ NewClient(k, c)
          /\ store' = [store EXCEPT ![Sid(k)] = c]
    /\ Goto(k, "idle")
    /\ UNCHANGED <<issued, req, link, ref, cap, taskVars>>

IsWebSocket(k) ==
    req[k] # None /\ req[k].kind = "websocket" /\ req[k].method = "UPGRADE"

\* A text frame: initGenericClient reads the store.  Frames already read from
\* the socket are still delivered after a close, until channelDisconnected.
FrameArrives(k) ==
    /\ pc[k] = "idle" /\ IsWebSocket(k)
    /\ link[k] \in {"open", "closing", "closed"}
    /\ LET c == Get(Sid(k)) IN
          /\ ref' = [ref EXCEPT ![k] = c]
          /\ Goto(k, IF c = None THEN "frameadd" ELSE "frame")
    /\ UNCHANGED <<issued, store, req, link, cap, clientVars, taskVars>>

FrameAdd(k) ==
    /\ pc[k] = "frameadd"
    /\ \E c \in FreshClients :
          /\ NewClient(k, c)
          /\ store' = [store EXCEPT ![Sid(k)] = c]
          /\ ref' = [ref EXCEPT ![k] = c]
    /\ Goto(k, "frame")
    /\ UNCHANGED <<issued, req, link, cap, taskVars>>

\* A close frame: handshaker.close answers it and closes the channel.
CloseFrame(k) ==
    /\ pc[k] = "idle" /\ IsWebSocket(k)
    /\ link[k] = "open"
    /\ link' = Answered({k})
    /\ UNCHANGED <<issued, store, req, pc, ref, cap, clientVars, taskVars>>

-----------------------------------------------------------------------------
(* The end of a channel: SocketIOTransportAdapter.channelDisconnected and  *)
(* exceptionCaught.                                                        *)

\* The CLOSE listener of a written response, or the peer.
Close(k) ==
    /\ IsOpen(k)
    /\ link' = Closed({k})
    /\ UNCHANGED <<issued, store, req, pc, ref, cap, clientVars, taskVars>>

\* Mutant: the placeholder is taken for a client.
ReapSessionRaw(k) ==
    IF store[Sid(k)] = None
    THEN Return(k)
    ELSE /\ ref' = [ref EXCEPT ![k] = store[Sid(k)]]
         /\ Goto(k, "arm")
         /\ cap' = [cap EXCEPT ![k] = None]

\* What both callbacks do with the session of the channel, whoever its client
\* is by now: get it, and go on to scheduleRemoveTask.
ReapSession(k) ==
    IF Get(Sid(k)) = None
    THEN Return(k)
    ELSE /\ ref' = [ref EXCEPT ![k] = Get(Sid(k))]
         /\ Goto(k, "arm")
         /\ cap' = [cap EXCEPT ![k] = None]

\* Mutants: the event is delivered while a handler of the channel runs, and
\* "htmlfile" is missing from the list of transports it is meant for.
DisconnectedAnyTime(k) ==
    /\ link[k] = "closed"
    /\ link' = [link EXCEPT ![k] = "gone"]
    /\ IF req[k].kind \in Streaming THEN ReapSession(k) ELSE UNCHANGED <<pc, ref, cap>>
    /\ UNCHANGED <<issued, store, req, clientVars, taskVars>>

DisconnectedWebSocketOnly(k) ==
    /\ link[k] = "closed" /\ pc[k] = "idle"
    /\ link' = [link EXCEPT ![k] = "gone"]
    /\ IF req[k].kind = "websocket" THEN ReapSession(k) ELSE UNCHANGED <<pc, ref, cap>>
    /\ UNCHANGED <<issued, store, req, clientVars, taskVars>>

Disconnected(k) ==
    /\ link[k] = "closed" /\ pc[k] = "idle"
    /\ link' = [link EXCEPT ![k] = "gone"]
    /\ IF req[k].kind \in Streaming THEN ReapSession(k) ELSE UNCHANGED <<pc, ref, cap>>
    /\ UNCHANGED <<issued, store, req, clientVars, taskVars>>

\* An I/O error on an idle channel, or an exception thrown while a packet is
\* handled, e.g. when MainServer.getIOHandler has no handler for the client.
Exception(k) ==
    /\ IsOpen(k)
    /\ pc[k] \in {"idle", "post", "frame"}
    /\ link' = Closed({k})
    /\ ReapSession(k)
    /\ UNCHANGED <<issued, store, req, clientVars, taskVars>>

-----------------------------------------------------------------------------
(* Tasks *)

\* The cleanup of a handshake: if (store.get(uID) == null) ...
Expire(t) ==
    /\ tstate[t] = "waiting"
    /\ tstate' = [tstate EXCEPT ![t] = IF Get(tsid[t]) = None THEN "expire" ELSE "done"]
    /\ UNCHANGED <<issued, store, chanVars, clientVars, tsid, tref>>

\* ... store.remove(uID).
ExpireRemove(t) ==
    /\ tstate[t] = "expire"
    /\ store' = [store EXCEPT ![tsid[t]] = None]
    /\ tstate' = [tstate EXCEPT ![t] = "done"]
    /\ UNCHANGED <<issued, chanVars, clientVars, tsid, tref>>

\* Mutant: the check of isOpen that the older ClearTask makes.
ClearStartIfNotOpen(t) ==
    /\ tstate[t] = "pending"
    /\ LET c == Get(tsid[t]) IN
          IF c = None \/ open[c]
          THEN /\ tstate' = [tstate EXCEPT ![t] = "done"]
               /\ UNCHANGED <<open, tref>>
          ELSE /\ tstate' = [tstate EXCEPT ![t] = "close"]
               /\ tref' = [tref EXCEPT ![t] = c]
               /\ open' = [open EXCEPT ![c] = FALSE]
    /\ UNCHANGED <<issued, store, chanVars, uID, id, ctx, scheduledFuture, tsid>>

\* ClearTaskSpeed.run: get the client of the session and mark it not open ...
ClearStart(t) ==
    /\ tstate[t] = "pending"
    /\ LET c == Get(tsid[t]) IN
          IF c = None
          THEN /\ tstate' = [tstate EXCEPT ![t] = "done"]
               /\ UNCHANGED <<open, tref>>
          ELSE /\ tstate' = [tstate EXCEPT ![t] = "close"]
               /\ tref' = [tref EXCEPT ![t] = c]
               /\ open' = [open EXCEPT ![c] = FALSE]
    /\ UNCHANGED <<issued, store, chanVars, uID, id, ctx, scheduledFuture, tsid>>

\* ... tell the handler: OnDisconnect may throw, which ends the run here, with
\* the client not open and still in the store ...
ClearThrows(t) ==
    /\ tstate[t] = "close"
    /\ tstate' = [tstate EXCEPT ![t] = "threw"]
    /\ tref' = [tref EXCEPT ![t] = None]
    /\ UNCHANGED <<issued, store, chanVars, clientVars, tsid>>

\* ... or return; then client.disconnect() ...
ClearClose(t) ==
    /\ tstate[t] = "close"
    /\ link' = Closed({ctx[tref[t]]})
    /\ open' = [open EXCEPT ![tref[t]] = FALSE]
    /\ tstate' = [tstate EXCEPT ![t] = "remove"]
    /\ UNCHANGED <<issued, store, req, pc, ref, cap, uID, id, ctx, scheduledFuture, tsid, tref>>

\* ... and store.remove(sessionId), whatever the store holds by now.
ClearRemove(t) ==
    /\ tstate[t] = "remove"
    /\ store' = [store EXCEPT ![tsid[t]] = None]
    /\ tstate' = [tstate EXCEPT ![t] = "done"]
    /\ tref' = [tref EXCEPT ![t] = None]
    /\ UNCHANGED <<issued, chanVars, clientVars, tsid>>

-----------------------------------------------------------------------------
HttpStep(k) ==
    \/ CheckExist(k) \/ RefuseUnknown(k) \/ GetClient(k) \/ DisconnectRequest(k)
    \/ AddClient(k) \/ SwitchRemove(k) \/ SwitchAdd(k) \/ ConnectNew(k)
    \/ Reconnect(k) \/ OtherMethod(k) \/ PostOnOpen(k) \/ PostOnClosed(k)

PacketStep(k) == PacketMessage(k) \/ PacketHeartbeat(k) \/ PacketConnect(k)

BeatStep(k) ==
    BeatNotOpen(k) \/ BeatOnClosed(k) \/ BeatPoll(k) \/ PollEnd(k) \/ BeatStreaming(k)
    \/ Arm(k)

WsStep(k) == WsHandshake(k) \/ WsRefuse(k) \/ WsAdd(k) \/ FrameAdd(k)

\* What a worker that is inside a handler does next.
WorkerStep(k) == HttpStep(k) \/ PacketStep(k) \/ BeatStep(k) \/ WsStep(k)

TaskStep(t) ==
    \/ Expire(t) \/ ExpireRemove(t)
    \/ ClearStart(t) \/ ClearThrows(t) \/ ClearClose(t) \/ ClearRemove(t)

Next ==
    \/ \E s \in Sids : HandshakeRespond(s) \/ HandshakeRegister(s)
    \/ \E k \in Chans : \E s \in Sids, r \in Requests : Request(k, s, r)
    \/ \E k \in Chans : WorkerStep(k)
    \/ \E k \in Chans : FrameArrives(k) \/ CloseFrame(k)
    \/ \E k \in Chans : Close(k) \/ Disconnected(k) \/ Exception(k)
    \/ \E t \in Tasks : TaskStep(t)

Spec == Init /\ [][Next]_vars

\* A started handler and a scheduled task go on; a channel with a CLOSE
\* listener closes; channelDisconnected comes after the finitely many frames
\* read before it.  Nothing makes a client send, or close, or fail.
Fairness ==
    /\ \A s \in Sids : WF_vars(HandshakeRegister(s))
    /\ \A k \in Chans : WF_vars(WorkerStep(k))
    /\ \A k \in Chans : WF_vars(link[k] = "closing" /\ Close(k))
    /\ \A k \in Chans : SF_vars(Disconnected(k))
    /\ \A t \in Tasks : WF_vars(TaskStep(t))

FairSpec == Spec /\ Fairness

-----------------------------------------------------------------------------
(* Properties *)

\* The type invariant: every variable of the server holds a value of its Java
\* type, and the locals of the handlers and tasks are clients or null.
TypeOK ==
    /\ issued \in [Sids -> {"no", "sent", "registered"}]
    /\ store \in [Sids -> Clients \cup {None, Blank}]
    /\ req \in [Chans -> RequestOf \cup {None}]
    /\ link \in [Chans -> Links]
    /\ pc \in [Chans -> PCs]
    /\ ref \in [Chans -> Clients \cup {None}]
    /\ cap \in [Chans -> Chans \cup {None}]
    /\ uID \in [Clients -> Sids \cup {None}]
    /\ id \in [Clients -> Kinds \cup {None}]
    /\ ctx \in [Clients -> Chans \cup {None}]
    /\ open \in [Clients -> BOOLEAN]
    /\ scheduledFuture \in [Clients -> Tasks \cup {None}]
    /\ tstate \in [Tasks -> TaskStates]
    /\ tsid \in [Tasks -> Sids \cup {None}]
    /\ tref \in [Tasks -> Clients \cup {None}]

\* The client registered for a session writes to a connection that was opened
\* for this session by the client's own transport, however the session was
\* replaced, switched, removed or re-created in the meantime.
CtxOfSession ==
    \A s \in Sids : store[s] \in Clients =>
        LET c == store[s] IN
        /\ uID[c] = s
        /\ ctx[c] \in Chans
        /\ req[ctx[c]] # None
        /\ req[ctx[c]].sid = s /\ req[ctx[c]].kind = id[c]

\* Client c is on its way out of the store: a handler works on it that is
\* about to schedule a clear task, or the task its field names waits or runs.
RemovalUnderway(c) ==
    \/ \E k \in Chans : pc[k] \in {"beat", "poll", "arm"} /\ ref[k] = c
    \/ \E t \in Tasks : scheduledFuture[c] = t /\ tstate[t] \in Clearing

\* The last task of client c ended with an exception of the handler.
Abandoned(c) == \E t \in Tasks : scheduledFuture[c] = t /\ tstate[t] = "threw"

\* No session is forgotten: a client that ever had a timer, and every
\* streaming client, is on its way out of the store by a task of its own, or
\* still has a channel whose channelDisconnected is to come; or the handler's
\* OnDisconnect threw when it was told.  Cancelled, overwritten and fired
\* timers, switches and double registrations never leave it without.
Reapable ==
    \A s \in Sids : store[s] \in Clients =>
        LET c == store[s] IN
        (id[c] \in Streaming \/ scheduledFuture[c] # None) =>
            \/ RemovalUnderway(c)
            \/ Abandoned(c)
            \/ id[c] \in Streaming /\ link[ctx[c]] # "gone"

\* Every connection made for session s is over.
Quiet(s) == \A k \in Chans : req[k] # None /\ req[k].sid = s => link[k] = "gone"

\* A polling client that was never given a timer: it got its "1::" and its
\* browser never polled.
NeverPolled(s) ==
    store[s] \in Clients /\ id[store[s]] \in Polling /\ scheduledFuture[store[s]] = None

\* A session whose peer has gone away leaves the store, placeholders of a
\* handshake and of a transport switch included, unless it is a polling
\* session that never polled, or the handler threw when it was told.
SessionReaped ==
    \A s \in Sids : <>[]Quiet(s) =>
        <>[](\/ store[s] = None \/ NeverPolled(s)
             \/ store[s] \in Clients /\ Abandoned(store[s]))

\* Every handler comes to its return: the recursion of doHandle that switches
\* the transport ends, although another request may switch the session back
\* between any two of its store accesses.
HandlerReturns == \A k \in Chans : pc[k] # "idle" ~> pc[k] = "idle"

-----------------------------------------------------------------------------
(* The inductive invariant behind CtxOfSession and Reapable.               *)

\* A channel has its request from the moment it is connected.
ReqOK == \A k \in Chans : req[k] = None <=> link[k] = "none"

\* Every client ever made is bound to a channel of its session and kind.
CtxOK ==
    \A c \in Clients : uID[c] # None =>
        /\ ctx[c] \in Chans
        /\ req[ctx[c]] # None
        /\ req[ctx[c]].sid = uID[c] /\ req[ctx[c]].kind = id[c]

StoreOK == \A s \in Sids : store[s] \in Clients => uID[store[s]] = s

\* A handler runs between the connection of its channel and the moment
\* channelDisconnected was delivered; only "arm" may come after that.
BusyOK ==
    \A k \in Chans : /\ pc[k] # "idle" => link[k] # "none"
                     /\ pc[k] \notin {"idle", "arm"} => link[k] # "gone"

\* The client a handler works on is one of the session its channel names.
RefOK ==
    \A k \in Chans :
        /\ ref[k] # None => req[k] # None /\ uID[ref[k]] = Sid(k)
        /\ pc[k] \in {"connect", "post", "frame", "beat", "poll", "arm"} => ref[k] # None
        /\ pc[k] = "act" /\ req[k].method # "DISCONNECT" =>
              ref[k] # None /\ id[ref[k]] = req[k].kind

TaskOK ==
    \A t \in Tasks : /\ tstate[t] \notin Ended => tsid[t] # None
                     /\ tstate[t] \in {"close", "remove"} => tref[t] # None

\* The task a client in use points to is one of its own session, and no other
\* client's: it takes this session out of the store, and who cancels it is a
\* handler that works on this client.
FutureOK ==
    \A c \in Clients \ FreshClients :
        /\ \A t \in Tasks :
              scheduledFuture[c] = t /\ tstate[t] \in Clearing => tsid[t] = uID[c]
        /\ \A d \in Clients \ FreshClients :
              scheduledFuture[c] = scheduledFuture[d] => c = d \/ scheduledFuture[c] = None

IInv == /\ TypeOK /\ ReqOK /\ CtxOK /\ StoreOK /\ BusyOK /\ RefOK /\ TaskOK /\ FutureOK
        /\ Reapable

=============================================================================
