--------------------------- MODULE SessionsProofs ---------------------------
(***************************************************************************)
(* Proofs about Sessions, for any number of sessions, connections, clients *)
(* and tasks: TypeOK, CtxOfSession and Reapable are invariants.            *)
(*                                                                         *)
(* Reapable is not inductive.  That a cancelled timer leaves the session   *)
(* to the handler that cancelled it needs FutureOK (the timer was one of   *)
(* the same session) and RefOK (so is the handler); that channelDisconnec- *)
(* ted finds the session of the client whose channel ended needs CtxOK;    *)
(* that it has not been delivered yet when a client is made needs BusyOK.  *)
(* IInv collects them.                                                     *)
(***************************************************************************)
EXTENDS Sessions, TLAPS

\* What a handler that runs on channel k knows of its request and its session.
OfChannel(k) ==
    /\ req[k] \in RequestOf /\ req[k] # None /\ link[k] # "none"
    /\ req[k].sid \in Sids /\ req[k].kind \in Kinds
    /\ Get(req[k].sid) \in Clients \cup {None}
    /\ Get(req[k].sid) \in Clients => store[req[k].sid] = Get(req[k].sid)
    /\ Get(req[k].sid) = None => store[req[k].sid] \notin Clients

\* What a task that has not ended knows of its session.
OfTask(t) ==
    /\ tsid[t] \in Sids
    /\ Get(tsid[t]) \in Clients \cup {None}
    /\ Get(tsid[t]) \in Clients => store[tsid[t]] = Get(tsid[t])
    /\ Get(tsid[t]) = None => store[tsid[t]] \notin Clients

\* store.get returns a stored client or null, and null only without one.
LEMMA GetLemma ==
    ASSUME TypeOK, NEW s \in Sids
    PROVE  /\ Get(s) \in Clients \cup {None}
           /\ Get(s) \in Clients => store[s] = Get(s)
           /\ Get(s) = None => store[s] \notin Clients
BY SentinelAssumption DEF TypeOK, Get

\* A channel in use has a request, and the request a session.
LEMMA ChannelFacts ==
    ASSUME IInv, NEW k \in Chans, pc[k] # "idle" \/ link[k] # "none" \/ req[k] # None
    PROVE  OfChannel(k)
<1>1. link[k] # "none" /\ req[k] # None
  BY DEF IInv, BusyOK, ReqOK
<1>2. req[k] \in RequestOf /\ req[k].sid \in Sids /\ req[k].kind \in Kinds
  BY <1>1 DEF IInv, TypeOK, RequestOf
<1>. QED  BY <1>1, <1>2, GetLemma DEF OfChannel, IInv

\* A task in use has a session.
LEMMA TaskFacts ==
    ASSUME IInv, NEW t \in Tasks, tstate[t] \notin Ended
    PROVE  OfTask(t)
<1>1. tsid[t] \in Sids
  BY DEF IInv, TypeOK, TaskOK
<1>. QED  BY <1>1, GetLemma DEF OfTask, IInv

-----------------------------------------------------------------------------
LEMMA InitLemma == Init => IInv
BY SentinelAssumption
DEF Init, IInv, TypeOK, ReqOK, CtxOK, StoreOK, BusyOK, RefOK, TaskOK, FutureOK, Reapable,
    Links, PCs, TaskStates, Ended

\* A new connection: nothing refers to its channel yet.
LEMMA RequestLemma ==
    ASSUME IInv, NEW k \in Chans, NEW s \in Sids, NEW r \in Requests, Request(k, s, r)
    PROVE  IInv'
<1> USE SentinelAssumption DEF Request, Sid, Goto, clientVars, taskVars, Streaming, Polling, Kinds
<1>1. r.kind \in Kinds /\ r.method \in {"GET", "POST", "DISCONNECT", "OPTIONS", "UPGRADE"}
  BY RequestsAssumption DEF AllRequests
<1>2. [kind |-> r.kind, method |-> r.method, sid |-> s] \in RequestOf
  BY <1>1 DEF RequestOf
<1>3. [kind |-> r.kind, method |-> r.method, sid |-> s] # None
  BY <1>2 DEF RequestOf
<1>4. TypeOK'
  BY <1>2 DEF IInv, TypeOK, Links, PCs
<1>5. (ReqOK /\ CtxOK /\ StoreOK /\ BusyOK /\ RefOK /\ TaskOK)'
  BY <1>3 DEF IInv, TypeOK, ReqOK, CtxOK, StoreOK, BusyOK, RefOK, TaskOK, Ended
<1>6. FutureOK'
  BY DEF IInv, FutureOK, FreshClients, Clearing
<1>7. Reapable'
  BY DEF IInv, TypeOK, Reapable, RemovalUnderway, Abandoned, Clearing, Ended, CtxOK, StoreOK,
        BusyOK, RefOK
<1>. QED  BY <1>4, <1>5, <1>6, <1>7 DEF IInv

\* The steps of doHandle for an HTTP request keep the invariant.
LEMMA HttpLemma ==
    ASSUME IInv, NEW k \in Chans, HttpStep(k)
    PROVE  IInv'
<1> USE SentinelAssumption
        DEF IInv, TypeOK, RefOK, TaskOK, FreshClients, FreshTasks, Ended, Sid, Goto, Return,
        Answered, Closed, IsOpen, Reply, chanVars, clientVars, taskVars, Streaming, Polling, Kinds
<1>1. CASE CheckExist(k)
  <2>1. OfChannel(k)  BY <1>1, ChannelFacts DEF CheckExist
  <2>2. TypeOK'
    BY <1>1, <2>1 DEF CheckExist, OfChannel, RequestOf, Links, PCs, TaskStates
  <2>3. (ReqOK /\ CtxOK /\ StoreOK /\ BusyOK /\ RefOK /\ TaskOK)'
    BY <1>1, <2>1 DEF CheckExist, OfChannel, ReqOK, CtxOK, StoreOK, BusyOK
  <2>4. FutureOK'
    BY <1>1, <2>1 DEF CheckExist, OfChannel, FutureOK, StoreOK, CtxOK, Clearing
  <2>5. Reapable'
    BY <1>1, <2>1 DEF CheckExist, OfChannel, Reapable, RemovalUnderway, Abandoned, Clearing, Ended,
        ReqOK, CtxOK, StoreOK, BusyOK, FutureOK
  <2>. QED  BY <2>2, <2>3, <2>4, <2>5
<1>2. CASE RefuseUnknown(k)
  <2>1. OfChannel(k)  BY <1>2, ChannelFacts DEF RefuseUnknown
  <2>2. TypeOK'
    BY <1>2, <2>1 DEF RefuseUnknown, OfChannel, RequestOf, Links, PCs, TaskStates
  <2>3. (ReqOK /\ CtxOK /\ StoreOK /\ BusyOK /\ RefOK /\ TaskOK)'
    BY <1>2, <2>1 DEF RefuseUnknown, OfChannel, ReqOK, CtxOK, StoreOK, BusyOK
  <2>4. FutureOK'
    BY <1>2, <2>1 DEF RefuseUnknown, OfChannel, FutureOK, StoreOK, CtxOK, Clearing
  <2>5. Reapable'
    BY <1>2, <2>1 DEF RefuseUnknown, OfChannel, Reapable, RemovalUnderway, Abandoned, Clearing,
        Ended, ReqOK, CtxOK, StoreOK, BusyOK, FutureOK
  <2>. QED  BY <2>2, <2>3, <2>4, <2>5
<1>3. CASE GetClient(k)
  <2>1. OfChannel(k)  BY <1>3, ChannelFacts DEF GetClient
  <2>2. TypeOK'
    BY <1>3, <2>1 DEF GetClient, OfChannel, RequestOf, Links, PCs, TaskStates
  <2>3. (ReqOK /\ CtxOK /\ StoreOK /\ BusyOK /\ RefOK /\ TaskOK)'
    BY <1>3, <2>1 DEF GetClient, OfChannel, ReqOK, CtxOK, StoreOK, BusyOK
  <2>4. FutureOK'
    BY <1>3, <2>1 DEF GetClient, OfChannel, FutureOK, StoreOK, CtxOK, Clearing
  <2>5. Reapable'
    BY <1>3, <2>1 DEF GetClient, OfChannel, Reapable, RemovalUnderway, Abandoned, Clearing, Ended,
        ReqOK, CtxOK, StoreOK, BusyOK, FutureOK
  <2>. QED  BY <2>2, <2>3, <2>4, <2>5
<1>4. CASE DisconnectRequest(k)
  <2>1. OfChannel(k)  BY <1>4, ChannelFacts DEF DisconnectRequest
  <2>2. TypeOK'
    <3>1. CASE ref[k] = None
      BY <1>4, <2>1, <3>1 DEF DisconnectRequest, OfChannel, RequestOf, Links, PCs, TaskStates
    <3>2. CASE ref[k] # None
      <4>1. open' \in [Clients -> BOOLEAN]
        BY <1>4, <2>1, <3>2 DEF DisconnectRequest
      <4>. QED  BY <1>4, <2>1, <3>2, <4>1 DEF DisconnectRequest, OfChannel, RequestOf, Links,
          PCs, TaskStates
    <3>. QED  BY <3>1, <3>2
  <2>3. (ReqOK /\ CtxOK /\ StoreOK /\ BusyOK /\ RefOK /\ TaskOK)'
    BY <1>4, <2>1 DEF DisconnectRequest, OfChannel, ReqOK, CtxOK, StoreOK, BusyOK
  <2>4. FutureOK'
    BY <1>4, <2>1 DEF DisconnectRequest, OfChannel, FutureOK, StoreOK, CtxOK, Clearing
  <2>5. Reapable'
    BY <1>4, <2>1 DEF DisconnectRequest, OfChannel, Reapable, RemovalUnderway, Abandoned, Clearing,
        Ended, ReqOK, CtxOK, StoreOK, BusyOK, FutureOK
  <2>. QED  BY <2>2, <2>3, <2>4, <2>5
<1>5. CASE AddClient(k)
  <2>1. OfChannel(k)  BY <1>5, ChannelFacts DEF AddClient, NewClient
  <2>2. TypeOK'
    BY <1>5, <2>1 DEF AddClient, NewClient, OfChannel, RequestOf, Links, PCs, TaskStates
  <2>3. (ReqOK /\ CtxOK /\ StoreOK /\ BusyOK /\ RefOK /\ TaskOK)'
    BY <1>5, <2>1 DEF AddClient, NewClient, OfChannel, ReqOK, CtxOK, StoreOK, BusyOK
  <2>4. FutureOK'
    BY <1>5, <2>1 DEF AddClient, NewClient, OfChannel, FutureOK, StoreOK, CtxOK, Clearing
  <2>5. Reapable'
    BY <1>5, <2>1 DEF AddClient, NewClient, OfChannel, Reapable, RemovalUnderway, Abandoned,
        Clearing, Ended, ReqOK, CtxOK, StoreOK, BusyOK, FutureOK
  <2>. QED  BY <2>2, <2>3, <2>4, <2>5
<1>6. CASE SwitchRemove(k)
  <2>1. OfChannel(k)  BY <1>6, ChannelFacts DEF SwitchRemove
  <2>2. TypeOK'
    BY <1>6, <2>1 DEF SwitchRemove, OfChannel, RequestOf, Links, PCs, TaskStates
  <2>3. (ReqOK /\ CtxOK /\ StoreOK /\ BusyOK /\ RefOK /\ TaskOK)'
    BY <1>6, <2>1 DEF SwitchRemove, OfChannel, ReqOK, CtxOK, StoreOK, BusyOK
  <2>4. FutureOK'
    BY <1>6, <2>1 DEF SwitchRemove, OfChannel, FutureOK, StoreOK, CtxOK, Clearing
  <2>5. Reapable'
    BY <1>6, <2>1 DEF SwitchRemove, OfChannel, Reapable, RemovalUnderway, Abandoned, Clearing,
        Ended, ReqOK, CtxOK, StoreOK, BusyOK, FutureOK
  <2>. QED  BY <2>2, <2>3, <2>4, <2>5
<1>7. CASE SwitchAdd(k)
  <2>1. OfChannel(k)  BY <1>7, ChannelFacts DEF SwitchAdd
  <2>2. TypeOK'
    BY <1>7, <2>1 DEF SwitchAdd, OfChannel, RequestOf, Links, PCs, TaskStates
  <2>3. (ReqOK /\ CtxOK /\ StoreOK /\ BusyOK /\ RefOK /\ TaskOK)'
    BY <1>7, <2>1 DEF SwitchAdd, OfChannel, ReqOK, CtxOK, StoreOK, BusyOK
  <2>4. FutureOK'
    BY <1>7, <2>1 DEF SwitchAdd, OfChannel, FutureOK, StoreOK, CtxOK, Clearing
  <2>5. Reapable'
    <3>1. ASSUME NEW s \in Sids, store'[s] \in Clients
          PROVE  store'[s] = store[s]
      BY <1>7, <2>1, <3>1 DEF SwitchAdd, OfChannel
    <3>2. ASSUME NEW c \in Clients, RemovalUnderway(c) \/ Abandoned(c)
          PROVE  (RemovalUnderway(c) \/ Abandoned(c))'
      BY <1>7, <2>1, <3>2 DEF SwitchAdd, RemovalUnderway, Abandoned
    <3>. QED  BY <1>7, <2>1, <3>1, <3>2 DEF SwitchAdd, Reapable
  <2>. QED  BY <2>2, <2>3, <2>4, <2>5
<1>8. CASE ConnectNew(k)
  <2>1. OfChannel(k)  BY <1>8, ChannelFacts DEF ConnectNew, DirectTo
  <2>2. TypeOK'
    BY <1>8, <2>1 DEF ConnectNew, DirectTo, OfChannel, RequestOf, Links, PCs, TaskStates
  <2>3. (ReqOK /\ CtxOK /\ StoreOK /\ BusyOK /\ RefOK /\ TaskOK)'
    BY <1>8, <2>1 DEF ConnectNew, DirectTo, OfChannel, ReqOK, CtxOK, StoreOK, BusyOK
  <2>4. FutureOK'
    BY <1>8, <2>1 DEF ConnectNew, DirectTo, OfChannel, FutureOK, StoreOK, CtxOK, Clearing
  <2>5. Reapable'
    BY <1>8, <2>1 DEF ConnectNew, DirectTo, OfChannel, Reapable, RemovalUnderway, Abandoned,
        Clearing, Ended, ReqOK, CtxOK, StoreOK, BusyOK, FutureOK
  <2>. QED  BY <2>2, <2>3, <2>4, <2>5
<1>9. CASE Reconnect(k)
  <2>1. OfChannel(k)  BY <1>9, ChannelFacts DEF Reconnect
  <2>2. TypeOK'
    BY <1>9, <2>1 DEF Reconnect, OfChannel, RequestOf, Links, PCs, TaskStates
  <2>3. (ReqOK /\ CtxOK /\ StoreOK /\ BusyOK /\ RefOK /\ TaskOK)'
    BY <1>9, <2>1 DEF Reconnect, OfChannel, ReqOK, CtxOK, StoreOK, BusyOK
  <2>4. FutureOK'
    BY <1>9, <2>1 DEF Reconnect, OfChannel, FutureOK, StoreOK, CtxOK, Clearing
  <2>5. Reapable'
    BY <1>9, <2>1 DEF Reconnect, OfChannel, Reapable, RemovalUnderway, Abandoned, Clearing, Ended,
        ReqOK, CtxOK, StoreOK, BusyOK, FutureOK
  <2>. QED  BY <2>2, <2>3, <2>4, <2>5
<1>10. CASE OtherMethod(k)
  <2>1. OfChannel(k)  BY <1>10, ChannelFacts DEF OtherMethod
  <2>2. TypeOK'
    BY <1>10, <2>1 DEF OtherMethod, OfChannel, RequestOf, Links, PCs, TaskStates
  <2>3. (ReqOK /\ CtxOK /\ StoreOK /\ BusyOK /\ RefOK /\ TaskOK)'
    BY <1>10, <2>1 DEF OtherMethod, OfChannel, ReqOK, CtxOK, StoreOK, BusyOK
  <2>4. FutureOK'
    BY <1>10, <2>1 DEF OtherMethod, OfChannel, FutureOK, StoreOK, CtxOK, Clearing
  <2>5. Reapable'
    BY <1>10, <2>1 DEF OtherMethod, OfChannel, Reapable, RemovalUnderway, Abandoned, Clearing,
        Ended, ReqOK, CtxOK, StoreOK, BusyOK, FutureOK
  <2>. QED  BY <2>2, <2>3, <2>4, <2>5
<1>11. CASE PostOnOpen(k)
  <2>1. OfChannel(k)  BY <1>11, ChannelFacts DEF PostOnOpen
  <2>2. TypeOK'
    BY <1>11, <2>1 DEF PostOnOpen, OfChannel, RequestOf, Links, PCs, TaskStates
  <2>3. (ReqOK /\ CtxOK /\ StoreOK /\ BusyOK /\ RefOK /\ TaskOK)'
    BY <1>11, <2>1 DEF PostOnOpen, OfChannel, ReqOK, CtxOK, StoreOK, BusyOK
  <2>4. FutureOK'
    BY <1>11, <2>1 DEF PostOnOpen, OfChannel, FutureOK, StoreOK, CtxOK, Clearing
  <2>5. Reapable'
    BY <1>11, <2>1 DEF PostOnOpen, OfChannel, Reapable, RemovalUnderway, Abandoned, Clearing,
        Ended, ReqOK, CtxOK, StoreOK, BusyOK, FutureOK
  <2>. QED  BY <2>2, <2>3, <2>4, <2>5
<1>12. CASE PostOnClosed(k)
  <2>1. OfChannel(k)  BY <1>12, ChannelFacts DEF PostOnClosed
  <2>2. TypeOK'
    BY <1>12, <2>1 DEF PostOnClosed, OfChannel, RequestOf, Links, PCs, TaskStates
  <2>3. (ReqOK /\ CtxOK /\ StoreOK /\ BusyOK /\ RefOK /\ TaskOK)'
    BY <1>12, <2>1 DEF PostOnClosed, OfChannel, ReqOK, CtxOK, StoreOK, BusyOK
  <2>4. FutureOK'
    BY <1>12, <2>1 DEF PostOnClosed, OfChannel, FutureOK, StoreOK, CtxOK, Clearing
  <2>5. Reapable'
    BY <1>12, <2>1 DEF PostOnClosed, OfChannel, Reapable, RemovalUnderway, Abandoned, Clearing,
        Ended, ReqOK, CtxOK, StoreOK, BusyOK, FutureOK
  <2>. QED  BY <2>2, <2>3, <2>4, <2>5
<1>. QED  BY <1>1, <1>2, <1>3, <1>4, <1>5, <1>6, <1>7, <1>8, <1>9, <1>10, <1>11,
    <1>12 DEF HttpStep

\* So do the steps of handleContent.
LEMMA PacketLemma ==
    ASSUME IInv, NEW k \in Chans, PacketStep(k)
    PROVE  IInv'
<1> USE SentinelAssumption
        DEF IInv, TypeOK, RefOK, TaskOK, FreshClients, FreshTasks, Ended, Sid, Goto, Return,
        Answered, Closed, IsOpen, Reply, chanVars, clientVars, taskVars, Streaming, Polling, Kinds
<1>1. CASE PacketMessage(k)
  <2>1. OfChannel(k)  BY <1>1, ChannelFacts DEF PacketMessage
  <2>2. TypeOK'
    BY <1>1, <2>1 DEF PacketMessage, OfChannel, RequestOf, Links, PCs, TaskStates
  <2>3. (ReqOK /\ CtxOK /\ StoreOK /\ BusyOK /\ RefOK /\ TaskOK)'
    BY <1>1, <2>1 DEF PacketMessage, OfChannel, ReqOK, CtxOK, StoreOK, BusyOK
  <2>4. FutureOK'
    BY <1>1, <2>1 DEF PacketMessage, OfChannel, FutureOK, StoreOK, CtxOK, Clearing
  <2>5. Reapable'
    BY <1>1, <2>1 DEF PacketMessage, OfChannel, Reapable, RemovalUnderway, Abandoned, Clearing,
        Ended, ReqOK, CtxOK, StoreOK, BusyOK, FutureOK
  <2>. QED  BY <2>2, <2>3, <2>4, <2>5
<1>2. CASE PacketHeartbeat(k)
  <2>1. OfChannel(k)  BY <1>2, ChannelFacts DEF PacketHeartbeat
  <2>2. TypeOK'
    BY <1>2, <2>1 DEF PacketHeartbeat, OfChannel, RequestOf, Links, PCs, TaskStates
  <2>3. (ReqOK /\ CtxOK /\ StoreOK /\ BusyOK /\ RefOK /\ TaskOK)'
    BY <1>2, <2>1 DEF PacketHeartbeat, OfChannel, ReqOK, CtxOK, StoreOK, BusyOK
  <2>4. FutureOK'
    BY <1>2, <2>1 DEF PacketHeartbeat, OfChannel, FutureOK, StoreOK, CtxOK, Clearing
  <2>5. Reapable'
    BY <1>2, <2>1 DEF PacketHeartbeat, OfChannel, Reapable, RemovalUnderway, Abandoned, Clearing,
        Ended, ReqOK, CtxOK, StoreOK, BusyOK, FutureOK
  <2>. QED  BY <2>2, <2>3, <2>4, <2>5
<1>3. CASE PacketConnect(k)
  <2>1. OfChannel(k)  BY <1>3, ChannelFacts DEF PacketConnect, DirectTo
  <2>2. TypeOK'
    <3>1. open' \in [Clients -> BOOLEAN]
      BY <1>3, <2>1 DEF PacketConnect
    <3>2. CASE req[k].kind \in Streaming
      BY <1>3, <2>1, <3>1, <3>2 DEF PacketConnect, DirectTo, OfChannel, RequestOf, Links, PCs,
          TaskStates
    <3>3. CASE req[k].kind \notin Streaming
      <4>1. /\ link' \in [Chans -> Links]
            /\ pc' \in [Chans -> PCs]
            /\ ref' \in [Chans -> Clients \cup {None}]
            /\ cap' \in [Chans -> Chans \cup {None}]
        BY <1>3, <2>1, <3>3 DEF PacketConnect, Links, PCs
      <4>. QED  BY <1>3, <2>1, <3>1, <3>3, <4>1 DEF PacketConnect
    <3>. QED  BY <3>2, <3>3
  <2>3. (ReqOK /\ CtxOK /\ StoreOK /\ BusyOK /\ RefOK /\ TaskOK)'
    BY <1>3, <2>1 DEF PacketConnect, DirectTo, OfChannel, ReqOK, CtxOK, StoreOK, BusyOK
  <2>4. FutureOK'
    BY <1>3, <2>1 DEF PacketConnect, DirectTo, OfChannel, FutureOK, StoreOK, CtxOK, Clearing
  <2>5. Reapable'
    BY <1>3, <2>1 DEF PacketConnect, DirectTo, OfChannel, Reapable, RemovalUnderway, Abandoned,
        Clearing, Ended, ReqOK, CtxOK, StoreOK, BusyOK, FutureOK
  <2>. QED  BY <2>2, <2>3, <2>4, <2>5
<1>. QED  BY <1>1, <1>2, <1>3 DEF PacketStep

\* So do heartbeat, which cancels a timer, and the scheduling of a new one.
LEMMA BeatLemma ==
    ASSUME IInv, NEW k \in Chans, BeatStep(k)
    PROVE  IInv'
<1> USE SentinelAssumption
        DEF IInv, TypeOK, RefOK, TaskOK, FreshClients, FreshTasks, Ended, Sid, Goto, Return,
        Answered, Closed, IsOpen, Reply, chanVars, clientVars, taskVars, Streaming, Polling, Kinds
<1>1. CASE BeatNotOpen(k)
  <2>1. OfChannel(k)  BY <1>1, ChannelFacts DEF BeatNotOpen, Cancelled
  <2>2. TypeOK'
    BY <1>1, <2>1 DEF BeatNotOpen, Cancelled, OfChannel, RequestOf, Links, PCs, TaskStates
  <2>3. (ReqOK /\ CtxOK /\ StoreOK /\ BusyOK /\ RefOK /\ TaskOK)'
    BY <1>1, <2>1 DEF BeatNotOpen, Cancelled, OfChannel, ReqOK, CtxOK, StoreOK, BusyOK
  <2>4. FutureOK'
    BY <1>1, <2>1 DEF BeatNotOpen, Cancelled, OfChannel, FutureOK, StoreOK, CtxOK, Clearing
  <2>5. Reapable'
    BY <1>1, <2>1 DEF BeatNotOpen, Cancelled, OfChannel, Reapable, RemovalUnderway, Abandoned,
        Clearing, Ended, ReqOK, CtxOK, StoreOK, BusyOK, FutureOK
  <2>. QED  BY <2>2, <2>3, <2>4, <2>5
<1>2. CASE BeatOnClosed(k)
  <2>1. OfChannel(k)  BY <1>2, ChannelFacts DEF BeatOnClosed, Cancelled
  <2>2. TypeOK'
    BY <1>2, <2>1 DEF BeatOnClosed, Cancelled, OfChannel, RequestOf, Links, PCs, TaskStates
  <2>3. (ReqOK /\ CtxOK /\ StoreOK /\ BusyOK /\ RefOK /\ TaskOK)'
    BY <1>2, <2>1 DEF BeatOnClosed, Cancelled, OfChannel, ReqOK, CtxOK, StoreOK, BusyOK
  <2>4. FutureOK'
    BY <1>2, <2>1 DEF BeatOnClosed, Cancelled, OfChannel, FutureOK, StoreOK, CtxOK, Clearing
  <2>5. Reapable'
    BY <1>2, <2>1 DEF BeatOnClosed, Cancelled, OfChannel, Reapable, RemovalUnderway, Abandoned,
        Clearing, Ended, ReqOK, CtxOK, StoreOK, BusyOK, FutureOK
  <2>. QED  BY <2>2, <2>3, <2>4, <2>5
<1>3. CASE BeatPoll(k)
  <2>1. OfChannel(k)  BY <1>3, ChannelFacts DEF BeatPoll, Cancelled
  <2>2. TypeOK'
    BY <1>3, <2>1 DEF BeatPoll, Cancelled, OfChannel, RequestOf, Links, PCs, TaskStates
  <2>3. (ReqOK /\ CtxOK /\ StoreOK /\ BusyOK /\ RefOK /\ TaskOK)'
    BY <1>3, <2>1 DEF BeatPoll, Cancelled, OfChannel, ReqOK, CtxOK, StoreOK, BusyOK
  <2>4. FutureOK'
    BY <1>3, <2>1 DEF BeatPoll, Cancelled, OfChannel, FutureOK, StoreOK, CtxOK, Clearing
  <2>5. Reapable'
    BY <1>3, <2>1 DEF BeatPoll, Cancelled, OfChannel, Reapable, RemovalUnderway, Abandoned,
        Clearing, Ended, ReqOK, CtxOK, StoreOK, BusyOK, FutureOK
  <2>. QED  BY <2>2, <2>3, <2>4, <2>5
<1>4. CASE PollEnd(k)
  <2>1. OfChannel(k)  BY <1>4, ChannelFacts DEF PollEnd
  <2>2. TypeOK'
    BY <1>4, <2>1 DEF PollEnd, OfChannel, RequestOf, Links, PCs, TaskStates
  <2>3. (ReqOK /\ CtxOK /\ StoreOK /\ BusyOK /\ RefOK /\ TaskOK)'
    BY <1>4, <2>1 DEF PollEnd, OfChannel, ReqOK, CtxOK, StoreOK, BusyOK
  <2>4. FutureOK'
    BY <1>4, <2>1 DEF PollEnd, OfChannel, FutureOK, StoreOK, CtxOK, Clearing
  <2>5. Reapable'
    BY <1>4, <2>1 DEF PollEnd, OfChannel, Reapable, RemovalUnderway, Abandoned, Clearing, Ended,
        ReqOK, CtxOK, StoreOK, BusyOK, FutureOK
  <2>. QED  BY <2>2, <2>3, <2>4, <2>5
<1>5. CASE BeatStreaming(k)
  <2>1. OfChannel(k)  BY <1>5, ChannelFacts DEF BeatStreaming, Cancelled
  <2>2. TypeOK'
    BY <1>5, <2>1 DEF BeatStreaming, Cancelled, OfChannel, RequestOf, Links, PCs, TaskStates
  <2>3. (ReqOK /\ CtxOK /\ StoreOK /\ BusyOK /\ RefOK /\ TaskOK)'
    BY <1>5, <2>1 DEF BeatStreaming, Cancelled, OfChannel, ReqOK, CtxOK, StoreOK, BusyOK
  <2>4. FutureOK'
    BY <1>5, <2>1 DEF BeatStreaming, Cancelled, OfChannel, FutureOK, StoreOK, CtxOK, Clearing
  <2>5. Reapable'
    BY <1>5, <2>1 DEF BeatStreaming, Cancelled, OfChannel, Reapable, RemovalUnderway, Abandoned,
        Clearing, Ended, ReqOK, CtxOK, StoreOK, BusyOK, FutureOK
  <2>. QED  BY <2>2, <2>3, <2>4, <2>5
<1>6. CASE Arm(k)
  <2>1. OfChannel(k)  BY <1>6, ChannelFacts DEF Arm
  <2>2. TypeOK'
    BY <1>6, <2>1 DEF Arm, OfChannel, RequestOf, Links, PCs, TaskStates
  <2>3. (ReqOK /\ CtxOK /\ StoreOK /\ BusyOK /\ RefOK /\ TaskOK)'
    BY <1>6, <2>1 DEF Arm, OfChannel, ReqOK, CtxOK, StoreOK, BusyOK
  <2>4. FutureOK'
    BY <1>6, <2>1 DEF Arm, OfChannel, FutureOK, StoreOK, CtxOK, Clearing
  <2>5. Reapable'
    <3>1. PICK t \in Tasks :
            /\ tstate[t] \in Ended
            /\ tstate' = [tstate EXCEPT ![t] = "pending"]
            /\ tsid' = [tsid EXCEPT ![t] = uID[ref[k]]]
            /\ scheduledFuture' = [scheduledFuture EXCEPT ![ref[k]] = t]
            /\ \A c \in Clients \ (FreshClients \cup {ref[k]}) : scheduledFuture[c] # t
      BY <1>6, <2>1 DEF Arm, FreshTasks
    <3>2. PICK d \in Clients : d = ref[k] /\ uID[d] \in Sids
      BY <1>6, <2>1 DEF Arm, OfChannel
    <3>3. tstate'[t] = "pending" /\ tsid'[t] = uID[ref[k]]
      BY <3>1, <3>2
    <3>4. ASSUME NEW c \in Clients, c # d, c \notin FreshClients,
                 RemovalUnderway(c) \/ Abandoned(c)
          PROVE  (RemovalUnderway(c) \/ Abandoned(c))'
      <4>1. scheduledFuture[c] # t /\ scheduledFuture'[c] = scheduledFuture[c]
        BY <3>1, <3>2, <3>4
      <4>2. CASE \E q \in Chans : pc[q] \in {"beat", "poll", "arm"} /\ ref[q] = c
        <5>1. PICK q \in Chans : pc[q] \in {"beat", "poll", "arm"} /\ ref[q] = c
          BY <4>2
        <5>2. q # k
          BY <3>2, <3>4, <5>1
        <5>3. pc'[q] = pc[q] /\ ref'[q] = c
          BY <1>6, <5>1, <5>2 DEF Arm
        <5>. QED  BY <5>1, <5>3 DEF RemovalUnderway
      <4>3. CASE \E u \in Tasks : scheduledFuture[c] = u /\ tstate[u] \in Clearing \cup {"threw"}
        <5>1. PICK u \in Tasks : scheduledFuture[c] = u /\ tstate[u] \in Clearing \cup {"threw"}
          BY <4>3
        <5>2. tstate'[u] = tstate[u] /\ scheduledFuture'[c] = u
          BY <3>1, <4>1, <5>1
        <5>. QED  BY <5>1, <5>2 DEF RemovalUnderway, Abandoned
      <4>. QED  BY <3>4, <4>2, <4>3 DEF RemovalUnderway, Abandoned
    <3>5. ASSUME NEW c \in Clients, ctx[c] \in Chans, link[ctx[c]] # "gone"
          PROVE  link'[ctx[c]] # "gone"
      BY <1>6, <2>1, <3>5 DEF Arm
    <3>6. UNCHANGED <<store, uID, id, ctx>>
      BY <1>6, <2>1 DEF Arm
    <3>7. ASSUME NEW s \in Sids, store[s] \in Clients,
                 id[store[s]] \in Streaming \/ scheduledFuture'[store[s]] # None,
                 store[s] # d
          PROVE  \/ (RemovalUnderway(store[s]) \/ Abandoned(store[s]))'
                 \/ id[store[s]] \in Streaming /\ link'[ctx[store[s]]] # "gone"
      <4>1. ctx[store[s]] \in Chans /\ store[s] \notin FreshClients
        BY <3>7 DEF StoreOK, CtxOK
      <4>2. scheduledFuture'[store[s]] = scheduledFuture[store[s]]
        BY <3>1, <3>2, <3>7, <4>1
      <4>3. store'[s] = store[s]
        BY <3>6
      <4>. QED  BY <3>4, <3>5, <3>7, <4>1, <4>2, <4>3 DEF Reapable
    <3>8. RemovalUnderway(d)'
      <4>1. scheduledFuture'[d] = t
        BY <3>1, <3>2
      <4>. QED  BY <3>3, <4>1 DEF RemovalUnderway, Clearing
    <3>. QED  BY <3>2, <3>3, <3>6, <3>7, <3>8 DEF Reapable
  <2>. QED  BY <2>2, <2>3, <2>4, <2>5
<1>. QED  BY <1>1, <1>2, <1>3, <1>4, <1>5, <1>6 DEF BeatStep

\* So do the websocket's handshake and frames.
LEMMA WsLemma ==
    ASSUME IInv, NEW k \in Chans, WsStep(k) \/ FrameArrives(k) \/ CloseFrame(k)
    PROVE  IInv'
<1> USE SentinelAssumption
        DEF IInv, TypeOK, RefOK, TaskOK, FreshClients, FreshTasks, Ended, Sid, Goto, Return,
        Answered, Closed, IsOpen, Reply, chanVars, clientVars, taskVars, Streaming, Polling, Kinds
<1>1. CASE WsHandshake(k)
  <2>1. OfChannel(k)  BY <1>1, ChannelFacts DEF WsHandshake
  <2>2. TypeOK'
    BY <1>1, <2>1 DEF WsHandshake, OfChannel, RequestOf, Links, PCs, TaskStates
  <2>3. (ReqOK /\ CtxOK /\ StoreOK /\ BusyOK /\ RefOK /\ TaskOK)'
    BY <1>1, <2>1 DEF WsHandshake, OfChannel, ReqOK, CtxOK, StoreOK, BusyOK
  <2>4. FutureOK'
    BY <1>1, <2>1 DEF WsHandshake, OfChannel, FutureOK, StoreOK, CtxOK, Clearing
  <2>5. Reapable'
    BY <1>1, <2>1 DEF WsHandshake, OfChannel, Reapable, RemovalUnderway, Abandoned, Clearing,
        Ended, ReqOK, CtxOK, StoreOK, BusyOK, FutureOK
  <2>. QED  BY <2>2, <2>3, <2>4, <2>5
<1>2. CASE WsRefuse(k)
  <2>1. OfChannel(k)  BY <1>2, ChannelFacts DEF WsRefuse
  <2>2. TypeOK'
    BY <1>2, <2>1 DEF WsRefuse, OfChannel, RequestOf, Links, PCs, TaskStates
  <2>3. (ReqOK /\ CtxOK /\ StoreOK /\ BusyOK /\ RefOK /\ TaskOK)'
    BY <1>2, <2>1 DEF WsRefuse, OfChannel, ReqOK, CtxOK, StoreOK, BusyOK
  <2>4. FutureOK'
    BY <1>2, <2>1 DEF WsRefuse, OfChannel, FutureOK, StoreOK, CtxOK, Clearing
  <2>5. Reapable'
    BY <1>2, <2>1 DEF WsRefuse, OfChannel, Reapable, RemovalUnderway, Abandoned, Clearing, Ended,
        ReqOK, CtxOK, StoreOK, BusyOK, FutureOK
  <2>. QED  BY <2>2, <2>3, <2>4, <2>5
<1>3. CASE WsAdd(k)
  <2>1. OfChannel(k)  BY <1>3, ChannelFacts DEF WsAdd, NewClient
  <2>2. TypeOK'
    BY <1>3, <2>1 DEF WsAdd, NewClient, OfChannel, RequestOf, Links, PCs, TaskStates
  <2>3. (ReqOK /\ CtxOK /\ StoreOK /\ BusyOK /\ RefOK /\ TaskOK)'
    BY <1>3, <2>1 DEF WsAdd, NewClient, OfChannel, ReqOK, CtxOK, StoreOK, BusyOK
  <2>4. FutureOK'
    BY <1>3, <2>1 DEF WsAdd, NewClient, OfChannel, FutureOK, StoreOK, CtxOK, Clearing
  <2>5. Reapable'
    BY <1>3, <2>1 DEF WsAdd, NewClient, OfChannel, Reapable, RemovalUnderway, Abandoned, Clearing,
        Ended, ReqOK, CtxOK, StoreOK, BusyOK, FutureOK
  <2>. QED  BY <2>2, <2>3, <2>4, <2>5
<1>4. CASE FrameAdd(k)
  <2>1. OfChannel(k)  BY <1>4, ChannelFacts DEF FrameAdd, NewClient
  <2>2. TypeOK'
    BY <1>4, <2>1 DEF FrameAdd, NewClient, OfChannel, RequestOf, Links, PCs, TaskStates
  <2>3. (ReqOK /\ CtxOK /\ StoreOK /\ BusyOK /\ RefOK /\ TaskOK)'
    BY <1>4, <2>1 DEF FrameAdd, NewClient, OfChannel, ReqOK, CtxOK, StoreOK, BusyOK
  <2>4. FutureOK'
    BY <1>4, <2>1 DEF FrameAdd, NewClient, OfChannel, FutureOK, StoreOK, CtxOK, Clearing
  <2>5. Reapable'
    BY <1>4, <2>1 DEF FrameAdd, NewClient, OfChannel, Reapable, RemovalUnderway, Abandoned,
        Clearing, Ended, ReqOK, CtxOK, StoreOK, BusyOK, FutureOK
  <2>. QED  BY <2>2, <2>3, <2>4, <2>5
<1>5. CASE FrameArrives(k)
  <2>1. OfChannel(k)  BY <1>5, ChannelFacts DEF FrameArrives, IsWebSocket
  <2>2. TypeOK'
    BY <1>5, <2>1 DEF FrameArrives, IsWebSocket, OfChannel, RequestOf, Links, PCs, TaskStates
  <2>3. (ReqOK /\ CtxOK /\ StoreOK /\ BusyOK /\ RefOK /\ TaskOK)'
    BY <1>5, <2>1 DEF FrameArrives, IsWebSocket, OfChannel, ReqOK, CtxOK, StoreOK, BusyOK
  <2>4. FutureOK'
    BY <1>5, <2>1 DEF FrameArrives, IsWebSocket, OfChannel, FutureOK, StoreOK, CtxOK, Clearing
  <2>5. Reapable'
    BY <1>5, <2>1 DEF FrameArrives, IsWebSocket, OfChannel, Reapable, RemovalUnderway, Abandoned,
        Clearing, Ended, ReqOK, CtxOK, StoreOK, BusyOK, FutureOK
  <2>. QED  BY <2>2, <2>3, <2>4, <2>5
<1>6. CASE CloseFrame(k)
  <2>1. OfChannel(k)  BY <1>6, ChannelFacts DEF CloseFrame, IsWebSocket
  <2>2. TypeOK'
    BY <1>6, <2>1 DEF CloseFrame, IsWebSocket, OfChannel, RequestOf, Links, PCs, TaskStates
  <2>3. (ReqOK /\ CtxOK /\ StoreOK /\ BusyOK /\ RefOK /\ TaskOK)'
    BY <1>6, <2>1 DEF CloseFrame, IsWebSocket, OfChannel, ReqOK, CtxOK, StoreOK, BusyOK
  <2>4. FutureOK'
    BY <1>6, <2>1 DEF CloseFrame, IsWebSocket, OfChannel, FutureOK, StoreOK, CtxOK, Clearing
  <2>5. Reapable'
    BY <1>6, <2>1 DEF CloseFrame, IsWebSocket, OfChannel, Reapable, RemovalUnderway, Abandoned,
        Clearing, Ended, ReqOK, CtxOK, StoreOK, BusyOK, FutureOK
  <2>. QED  BY <2>2, <2>3, <2>4, <2>5
<1>. QED  BY <1>1, <1>2, <1>3, <1>4, <1>5, <1>6 DEF WsStep

\* So do the end of a channel and what the adapter does about it.
LEMMA ChannelLemma ==
    ASSUME IInv, NEW k \in Chans, Close(k) \/ Disconnected(k) \/ Exception(k)
    PROVE  IInv'
<1> USE SentinelAssumption
        DEF IInv, TypeOK, RefOK, TaskOK, FreshClients, FreshTasks, Ended, Sid, Goto, Return,
        Answered, Closed, IsOpen, Reply, chanVars, clientVars, taskVars, Streaming, Polling, Kinds
<1>1. CASE Close(k)
  <2>1. OfChannel(k)  BY <1>1, ChannelFacts DEF Close
  <2>2. TypeOK'
    BY <1>1, <2>1 DEF Close, OfChannel, RequestOf, Links, PCs, TaskStates
  <2>3. (ReqOK /\ CtxOK /\ StoreOK /\ BusyOK /\ RefOK /\ TaskOK)'
    BY <1>1, <2>1 DEF Close, OfChannel, ReqOK, CtxOK, StoreOK, BusyOK
  <2>4. FutureOK'
    BY <1>1, <2>1 DEF Close, OfChannel, FutureOK, StoreOK, CtxOK, Clearing
  <2>5. Reapable'
    BY <1>1, <2>1 DEF Close, OfChannel, Reapable, RemovalUnderway, Abandoned, Clearing, Ended,
        ReqOK, CtxOK, StoreOK, BusyOK, FutureOK
  <2>. QED  BY <2>2, <2>3, <2>4, <2>5
<1>2. CASE Disconnected(k)
  <2>1. OfChannel(k)  BY <1>2, ChannelFacts DEF Disconnected, ReapSession
  <2>2. TypeOK'
    <3>1. link' \in [Chans -> Links]
      BY <1>2, <2>1 DEF Disconnected, Links
    <3>2. pc' \in [Chans -> PCs] /\ ref' \in [Chans -> Clients \cup {None}]
          /\ cap' \in [Chans -> Chans \cup {None}]
      BY <1>2, <2>1 DEF Disconnected, ReapSession, OfChannel, PCs
    <3>. QED  BY <1>2, <2>1, <3>1, <3>2 DEF Disconnected
  <2>3. (ReqOK /\ CtxOK /\ StoreOK /\ BusyOK /\ RefOK /\ TaskOK)'
    BY <1>2, <2>1 DEF Disconnected, ReapSession, OfChannel, ReqOK, CtxOK, StoreOK, BusyOK
  <2>4. FutureOK'
    BY <1>2, <2>1 DEF Disconnected, ReapSession, OfChannel, FutureOK, StoreOK, CtxOK, Clearing
  <2>5. Reapable'
    BY <1>2, <2>1 DEF Disconnected, ReapSession, OfChannel, Reapable, RemovalUnderway, Abandoned,
        Clearing, Ended, ReqOK, CtxOK, StoreOK, BusyOK, FutureOK
  <2>. QED  BY <2>2, <2>3, <2>4, <2>5
<1>3. CASE Exception(k)
  <2>1. OfChannel(k)  BY <1>3, ChannelFacts DEF Exception, ReapSession
  <2>2. TypeOK'
    <3>1. link' \in [Chans -> Links]
      BY <1>3, <2>1 DEF Exception, Links
    <3>2. pc' \in [Chans -> PCs] /\ ref' \in [Chans -> Clients \cup {None}]
          /\ cap' \in [Chans -> Chans \cup {None}]
      BY <1>3, <2>1 DEF Exception, ReapSession, OfChannel, PCs
    <3>. QED  BY <1>3, <2>1, <3>1, <3>2 DEF Exception
  <2>3. (ReqOK /\ CtxOK /\ StoreOK /\ BusyOK /\ RefOK /\ TaskOK)'
    BY <1>3, <2>1 DEF Exception, ReapSession, OfChannel, ReqOK, CtxOK, StoreOK, BusyOK
  <2>4. FutureOK'
    BY <1>3, <2>1 DEF Exception, ReapSession, OfChannel, FutureOK, StoreOK, CtxOK, Clearing
  <2>5. Reapable'
    <3>1. ASSUME NEW c \in Clients, RemovalUnderway(c) \/ Abandoned(c)
          PROVE  (RemovalUnderway(c) \/ Abandoned(c))'
      BY <1>3, <2>1, <3>1 DEF Exception, ReapSession, RemovalUnderway, Abandoned
    <3>2. ASSUME NEW c \in Clients, ctx[c] \in Chans, link[ctx[c]] # "gone"
          PROVE  link'[ctx[c]] # "gone"
      BY <1>3, <2>1, <3>2 DEF Exception
    <3>. QED  BY <1>3, <2>1, <3>1, <3>2 DEF Exception, Reapable, StoreOK, CtxOK
  <2>. QED  BY <2>2, <2>3, <2>4, <2>5
<1>. QED  BY <1>1, <1>2, <1>3

\* So do the two steps of a handshake.
LEMMA HandshakeLemma ==
    ASSUME IInv, NEW s \in Sids, HandshakeRespond(s) \/ HandshakeRegister(s)
    PROVE  IInv'
<1> USE SentinelAssumption
        DEF IInv, TypeOK, RefOK, TaskOK, FreshClients, FreshTasks, Ended, Sid, Goto, Return,
        Answered, Closed, IsOpen, Reply, chanVars, clientVars, taskVars, Streaming, Polling, Kinds
<1>1. CASE HandshakeRespond(s)
  <2>1. TypeOK'
    BY <1>1 DEF HandshakeRespond, RequestOf, Links, PCs, TaskStates
  <2>2. (ReqOK /\ CtxOK /\ StoreOK /\ BusyOK /\ RefOK /\ TaskOK)'
    BY <1>1 DEF HandshakeRespond, ReqOK, CtxOK, StoreOK, BusyOK
  <2>3. FutureOK'
    BY <1>1 DEF HandshakeRespond, FutureOK, StoreOK, CtxOK, Clearing
  <2>4. Reapable'
    BY <1>1 DEF HandshakeRespond, Reapable, RemovalUnderway, Abandoned, Clearing, Ended, ReqOK,
        CtxOK, StoreOK, BusyOK, FutureOK
  <2>. QED  BY <2>1, <2>2, <2>3, <2>4
<1>2. CASE HandshakeRegister(s)
  <2>1. TypeOK'
    BY <1>2 DEF HandshakeRegister, RequestOf, Links, PCs, TaskStates
  <2>2. (ReqOK /\ CtxOK /\ StoreOK /\ BusyOK /\ RefOK /\ TaskOK)'
    BY <1>2 DEF HandshakeRegister, ReqOK, CtxOK, StoreOK, BusyOK
  <2>3. FutureOK'
    BY <1>2 DEF HandshakeRegister, FutureOK, StoreOK, CtxOK, Clearing
  <2>4. Reapable'
    BY <1>2 DEF HandshakeRegister, Reapable, RemovalUnderway, Abandoned, Clearing, Ended, ReqOK,
        CtxOK, StoreOK, BusyOK, FutureOK
  <2>. QED  BY <2>1, <2>2, <2>3, <2>4
<1>. QED  BY <1>1, <1>2

\* So do the tasks: the two steps of the cleanup and the four of ClearTaskSpeed.
LEMMA TaskLemma ==
    ASSUME IInv, NEW t \in Tasks, TaskStep(t)
    PROVE  IInv'
<1> USE SentinelAssumption
        DEF IInv, TypeOK, RefOK, TaskOK, FreshClients, FreshTasks, Ended, Sid, Goto, Return,
        Answered, Closed, IsOpen, Reply, chanVars, clientVars, taskVars, Streaming, Polling, Kinds
<1>1. CASE Expire(t)
  <2>1. OfTask(t)  BY <1>1, TaskFacts DEF Expire
  <2>2. TypeOK'
    BY <1>1, <2>1 DEF Expire, OfTask, RequestOf, Links, PCs, TaskStates
  <2>3. (ReqOK /\ CtxOK /\ StoreOK /\ BusyOK /\ RefOK /\ TaskOK)'
    BY <1>1, <2>1 DEF Expire, OfTask, ReqOK, CtxOK, StoreOK, BusyOK
  <2>4. FutureOK'
    BY <1>1, <2>1 DEF Expire, OfTask, FutureOK, StoreOK, CtxOK, Clearing
  <2>5. Reapable'
    BY <1>1, <2>1 DEF Expire, OfTask, Reapable, RemovalUnderway, Abandoned, Clearing, Ended, ReqOK,
        CtxOK, StoreOK, BusyOK, FutureOK
  <2>. QED  BY <2>2, <2>3, <2>4, <2>5
<1>2. CASE ExpireRemove(t)
  <2>1. OfTask(t)  BY <1>2, TaskFacts DEF ExpireRemove
  <2>2. TypeOK'
    BY <1>2, <2>1 DEF ExpireRemove, OfTask, RequestOf, Links, PCs, TaskStates
  <2>3. (ReqOK /\ CtxOK /\ StoreOK /\ BusyOK /\ RefOK /\ TaskOK)'
    BY <1>2, <2>1 DEF ExpireRemove, OfTask, ReqOK, CtxOK, StoreOK, BusyOK
  <2>4. FutureOK'
    BY <1>2, <2>1 DEF ExpireRemove, OfTask, FutureOK, StoreOK, CtxOK, Clearing
  <2>5. Reapable'
    BY <1>2, <2>1 DEF ExpireRemove, OfTask, Reapable, RemovalUnderway, Abandoned, Clearing, Ended,
        ReqOK, CtxOK, StoreOK, BusyOK, FutureOK
  <2>. QED  BY <2>2, <2>3, <2>4, <2>5
<1>3. CASE ClearStart(t)
  <2>1. OfTask(t)  BY <1>3, TaskFacts DEF ClearStart
  <2>2. TypeOK'
    <3>1. CASE Get(tsid[t]) = None
      BY <1>3, <2>1, <3>1 DEF ClearStart, OfTask, RequestOf, Links, PCs, TaskStates
    <3>2. CASE Get(tsid[t]) # None
      <4>1. open' = [open EXCEPT ![Get(tsid[t])] = FALSE]
        BY <1>3, <2>1, <3>2 DEF ClearStart
      <4>2. open' \in [Clients -> BOOLEAN]
        BY <2>1, <3>2, <4>1 DEF OfTask
      <4>. QED  BY <1>3, <2>1, <3>2, <4>2 DEF ClearStart, OfTask, RequestOf, Links, PCs,
          TaskStates
    <3>. QED  BY <3>1, <3>2
  <2>3. (ReqOK /\ CtxOK /\ StoreOK /\ BusyOK /\ RefOK /\ TaskOK)'
    BY <1>3, <2>1 DEF ClearStart, OfTask, ReqOK, CtxOK, StoreOK, BusyOK
  <2>4. FutureOK'
    BY <1>3, <2>1 DEF ClearStart, OfTask, FutureOK, StoreOK, CtxOK, Clearing
  <2>5. Reapable'
    BY <1>3, <2>1 DEF ClearStart, OfTask, Reapable, RemovalUnderway, Abandoned, Clearing, Ended,
        ReqOK, CtxOK, StoreOK, BusyOK, FutureOK
  <2>. QED  BY <2>2, <2>3, <2>4, <2>5
<1>4. CASE ClearClose(t)
  <2>1. OfTask(t)  BY <1>4, TaskFacts DEF ClearClose
  <2>2. TypeOK'
    BY <1>4, <2>1 DEF ClearClose, OfTask, RequestOf, Links, PCs, TaskStates
  <2>3. (ReqOK /\ CtxOK /\ StoreOK /\ BusyOK /\ RefOK /\ TaskOK)'
    BY <1>4, <2>1 DEF ClearClose, OfTask, ReqOK, CtxOK, StoreOK, BusyOK
  <2>4. FutureOK'
    BY <1>4, <2>1 DEF ClearClose, OfTask, FutureOK, StoreOK, CtxOK, Clearing
  <2>5. Reapable'
    BY <1>4, <2>1 DEF ClearClose, OfTask, Reapable, RemovalUnderway, Abandoned, Clearing, Ended,
        ReqOK, CtxOK, StoreOK, BusyOK, FutureOK
  <2>. QED  BY <2>2, <2>3, <2>4, <2>5
<1>5. CASE ClearRemove(t)
  <2>1. OfTask(t)  BY <1>5, TaskFacts DEF ClearRemove
  <2>2. TypeOK'
    BY <1>5, <2>1 DEF ClearRemove, OfTask, RequestOf, Links, PCs, TaskStates
  <2>3. (ReqOK /\ CtxOK /\ StoreOK /\ BusyOK /\ RefOK /\ TaskOK)'
    BY <1>5, <2>1 DEF ClearRemove, OfTask, ReqOK, CtxOK, StoreOK, BusyOK
  <2>4. FutureOK'
    BY <1>5, <2>1 DEF ClearRemove, OfTask, FutureOK, StoreOK, CtxOK, Clearing
  <2>5. Reapable'
    BY <1>5, <2>1 DEF ClearRemove, OfTask, Reapable, RemovalUnderway, Abandoned, Clearing, Ended,
        ReqOK, CtxOK, StoreOK, BusyOK, FutureOK
  <2>. QED  BY <2>2, <2>3, <2>4, <2>5
<1>6. CASE ClearThrows(t)
  <2>1. OfTask(t)  BY <1>6, TaskFacts DEF ClearThrows
  <2>2. TypeOK'
    BY <1>6, <2>1 DEF ClearThrows, OfTask, RequestOf, Links, PCs, TaskStates
  <2>3. (ReqOK /\ CtxOK /\ StoreOK /\ BusyOK /\ RefOK /\ TaskOK)'
    BY <1>6, <2>1 DEF ClearThrows, OfTask, ReqOK, CtxOK, StoreOK, BusyOK
  <2>4. FutureOK'
    BY <1>6, <2>1 DEF ClearThrows, OfTask, FutureOK, StoreOK, CtxOK, Clearing
  <2>5. Reapable'
    BY <1>6, <2>1 DEF ClearThrows, OfTask, Reapable, RemovalUnderway, Abandoned, Clearing, Ended,
        ReqOK, CtxOK, StoreOK, BusyOK, FutureOK
  <2>. QED  BY <2>2, <2>3, <2>4, <2>5
<1>. QED  BY <1>1, <1>2, <1>3, <1>4, <1>5, <1>6 DEF TaskStep
-----------------------------------------------------------------------------
\* The invariant is inductive.
LEMMA NextLemma == IInv /\ [Next]_vars => IInv'
<1> SUFFICES ASSUME IInv, [Next]_vars PROVE IInv'
  OBVIOUS
<1>1. CASE UNCHANGED vars
  BY <1>1
  DEF vars, chanVars, clientVars, taskVars, IInv, TypeOK, ReqOK, CtxOK, StoreOK, BusyOK, RefOK,
      TaskOK, FutureOK, Reapable, RemovalUnderway, Abandoned, Clearing, FreshClients, Sid
<1>2. CASE Next
  BY <1>2, HandshakeLemma, RequestLemma, HttpLemma, PacketLemma, BeatLemma, WsLemma,
     ChannelLemma, TaskLemma
  DEF Next, WorkerStep
<1>. QED  BY <1>1, <1>2

THEOREM Inductive == Spec => []IInv
BY InitLemma, NextLemma, PTL DEF Spec

\* The type invariant, for every value of the constants.
THEOREM TypeCorrect == Spec => []TypeOK
<1>1. IInv => TypeOK  BY DEF IInv
<1>. QED  BY <1>1, Inductive, PTL

\* A session's client always writes to a connection of that session and kind.
THEOREM ClientOnItsOwnChannel == Spec => []CtxOfSession
<1>1. IInv => CtxOfSession
  BY SentinelAssumption DEF IInv, TypeOK, StoreOK, CtxOK, CtxOfSession
<1>. QED  BY <1>1, Inductive, PTL

\* No session that had a timer, and no streaming session, is ever forgotten, but by a
\* handler whose OnDisconnect threw when the clear task told it (EventClientIO).
THEOREM NoSessionForgotten == Spec => []Reapable
<1>1. IInv => Reapable  BY DEF IInv
<1>. QED  BY <1>1, Inductive, PTL
=============================================================================
