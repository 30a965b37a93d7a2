------------------------- MODULE ClientSocketProofs -------------------------
(***************************************************************************)
(* Proofs about ClientSocket, for any number of transports and timers, any *)
(* list of transport names and any faults: a connected socket runs its     *)
(* heartbeat timer, an attempt to connect has something that ends it, the  *)
(* reconnect loop is never left half way, and disconnect() is final once   *)
(* nothing is outstanding.                                                 *)
(*                                                                         *)
(* None of them is inductive.  LoopState ties the reconnect timer to the   *)
(* loop (a timer that outlived its loop would connect a socket that was    *)
(* told to stay away), HasTransport says that nothing runs before the      *)
(* first transport exists, and Away that what was settled stays settled.   *)
(***************************************************************************)
EXTENDS ClientSocket, TLAPS

LoopState ==
    /\ reconnecting => ~connected
    /\ reconnectTimer => reconnecting /\ attempts <= MaxAttempts
    /\ redo => reconnecting

Unopened(r) == r.link = "none" /\ r.old = "none" /\ r.posts = 0 /\ ~r.closeTimer

HasTransport ==
    transport = None =>
        /\ ~heartbeat /\ ~timer /\ strays = 0 /\ deferred = 0
        /\ \A t \in Transports : Unopened(tr[t])

Away == left = "settled" => Settled /\ ~connected /\ ~connecting

IInv ==
    /\ TypeOK /\ LoopState /\ HasTransport
    /\ Watched /\ AttemptEnds /\ LoopAlive /\ Away

(* The parts of TypeOK that are not about sequences. *)
ControlType ==
    /\ connected \in BOOLEAN /\ connecting \in BOOLEAN /\ reconnecting \in BOOLEAN
    /\ transport \in Transports \cup {None}
    /\ tr \in [Transports -> Fields]
    /\ shakes \in 0..MaxShakes /\ deferred \in 0..MaxDeferred
    /\ timer \in BOOLEAN /\ strays \in 0..MaxTimers /\ once \in BOOLEAN
    /\ heartbeat \in BOOLEAN
    /\ attempts \in 0..(MaxAttempts + 1) /\ reconnectTimer \in BOOLEAN /\ redo \in BOOLEAN
    /\ up \in BOOLEAN /\ called \in 0..MaxCalls /\ left \in {"no", "settled", "busy"}
    /\ stuck \in BOOLEAN

LEMMA BoundsLemma ==
    /\ MaxAttempts \in Nat /\ MaxShakes \in Nat /\ MaxDeferred \in Nat
    /\ MaxTimers \in Nat /\ MaxPosts \in Nat /\ MaxCalls \in Nat
    /\ MaxShakes > 0 /\ None \notin Transports
BY BoundsAssumption, NoneAssumption

LEMMA TypeSplits == TypeOK <=> ControlType /\ remaining \in Seq(AllNames) \cup {None}
BY DEF TypeOK, ControlType

LEMMA TypeSplitsPrimed ==
    TypeOK' <=> ControlType' /\ remaining' \in Seq(AllNames) \cup {None}
BY DEF TypeOK, ControlType

(* IInv without the sequence, which only OpenFirst looks at. *)
CInv ==
    /\ ControlType /\ LoopState /\ HasTransport
    /\ Watched /\ AttemptEnds /\ LoopAlive /\ Away

LEMMA InvSplits == IInv <=> CInv /\ remaining \in Seq(AllNames) \cup {None}
BY TypeSplits DEF IInv, CInv

LEMMA InvSplitsPrimed == IInv' <=> CInv' /\ remaining' \in Seq(AllNames) \cup {None}
BY TypeSplitsPrimed DEF IInv, CInv

-----------------------------------------------------------------------------
(* Records of transports *)

LEMMA NewFacts ==
    ASSUME NEW n \in AllNames
    PROVE  New(n) \in Fields /\ Unopened(New(n)) /\ Dead(New(n))
BY BoundsLemma DEF New, Links, Fields, Unopened, Dead

LEMMA ClosedFacts ==
    ASSUME NEW r \in Fields
    PROVE  Closed(r) \in Fields /\ (Dead(r) => Dead(Closed(r)))
BY DEF Closed, Links, Fields, Dead

LEMMA OpenedFacts ==
    ASSUME NEW r \in Fields
    PROVE  Opened(r) \in Fields
BY DEF Opened, Links, Fields

(* What a transport may become without being able to connect again. *)
Calmer(T) ==
    /\ T \in [Transports -> Fields]
    /\ \A t \in Transports : Dead(tr[t]) => Dead(T[t])

(* One transport changes. *)
LEMMA CalmerOne ==
    ASSUME ControlType, NEW T, Calmer(T), NEW t \in Transports, NEW r \in Fields,
           Dead(T[t]) => Dead(r)
    PROVE  Calmer([T EXCEPT ![t] = r])
BY DEF Calmer, ControlType

-----------------------------------------------------------------------------
(* The end of a connection *)

Ended ==
    /\ connected' = FALSE /\ connecting' = FALSE
    /\ heartbeat' \in BOOLEAN
    /\ Calmer(tr')
    /\ transport = None => tr' = tr /\ heartbeat' = heartbeat
    /\ transport' = transport /\ remaining' = remaining
    /\ UNCHANGED loop \/ (connected /\ StartReconnect)

\* What Socket.onDisconnect does, whoever calls it.
LEMMA OnDisconnectEnds ==
    ASSUME ControlType, NEW T, Calmer(T), NEW h \in BOOLEAN, NEW reason,
           transport = None => T = tr /\ h = heartbeat,
           OnDisconnect(T, h, reason)
    PROVE  Ended
<1>1. CASE (~connected /\ ~connecting) \/ Unusable(T)
  BY <1>1 DEF OnDisconnect, Ended
<1>2. CASE ~(~connected /\ ~connecting) /\ ~Unusable(T)
  <2>1. transport \in Transports /\ transport # None
    BY <1>2 DEF Unusable, ControlType
  <2>2. Closed(T[transport]) \in Fields /\ (Dead(T[transport]) => Dead(Closed(T[transport])))
    BY <2>1, ClosedFacts DEF Calmer
  <2>3. tr' = [T EXCEPT ![transport] = Closed(T[transport])]
    BY <1>2 DEF OnDisconnect
  <2>4. Calmer(tr')
    BY <2>1, <2>2, <2>3, CalmerOne
  <2>5. heartbeat' \in BOOLEAN /\ (UNCHANGED loop \/ (connected /\ StartReconnect))
    BY <1>2 DEF OnDisconnect, Reconnects
  <2>6. connected' = FALSE /\ connecting' = FALSE /\ UNCHANGED <<transport, remaining>>
    BY DEF OnDisconnect
  <2>. QED  BY <2>1, <2>4, <2>5, <2>6 DEF Ended
<1>. QED  BY <1>1, <1>2

\* The same of Transport.onClose.
LEMMA OnCloseEnds ==
    ASSUME ControlType, NEW T, Calmer(T), NEW t \in Transports, transport # None,
           OnClose(t, T)
    PROVE  Ended
<1>. DEFINE aborts == T[t].name = "xhr-polling"
                      /\ ~((connected \/ connecting) /\ Unusable(T))
            r      == [T[t] EXCEPT !.open = "false", !.closeTimer = FALSE,
                                   !.link = IF aborts THEN "none" ELSE @]
<1>1. r \in Fields /\ (Dead(T[t]) => Dead(r))
  BY DEF Calmer, Links, Fields, Dead
<1>2. OnDisconnect([T EXCEPT ![t] = r], FALSE, "closed")
  BY DEF OnClose, Calmer
<1>3. Calmer([T EXCEPT ![t] = r])
  BY <1>1, CalmerOne
<1>. QED  BY <1>2, <1>3, OnDisconnectEnds

\* An end of the connection keeps the invariant, given what it does to left.
LEMMA EndedKeepsUnless ==
    ASSUME IInv, Ended, UNCHANGED <<timers, calls, stuck, up>>,
           called' \in 0..MaxCalls, left' \in {"no", "settled", "busy"}, Away'
    PROVE  IInv'
<1>. USE BoundsLemma DEF timers, calls
<1>1. CInv /\ remaining' \in Seq(AllNames) \cup {None}
  BY InvSplits DEF Ended
<1>2. ControlType'
  <2>1. /\ attempts' \in 0..(MaxAttempts + 1)
        /\ reconnecting' \in BOOLEAN /\ reconnectTimer' \in BOOLEAN /\ redo' \in BOOLEAN
    <3>1. CASE UNCHANGED loop
      BY <1>1, <3>1 DEF CInv, ControlType, loop
    <3>2. CASE StartReconnect
      BY <1>1, <3>2 DEF CInv, ControlType, StartReconnect
    <3>. QED  BY <3>1, <3>2 DEF Ended
  <2>2. tr' \in [Transports -> Fields] /\ transport' \in Transports \cup {None}
    BY <1>1 DEF CInv, ControlType, Ended, Calmer
  <2>3. connected' \in BOOLEAN /\ connecting' \in BOOLEAN /\ heartbeat' \in BOOLEAN
    BY DEF Ended
  <2>. QED  BY <1>1, <2>1, <2>2, <2>3 DEF CInv, ControlType
<1>3. LoopState'
  BY <1>1 DEF CInv, ControlType, LoopState, Ended, loop, StartReconnect
<1>4. HasTransport'
  BY <1>1 DEF CInv, HasTransport, Ended
<1>5. Watched' /\ AttemptEnds'
  BY DEF Watched, AttemptEnds, Ended
<1>6. LoopAlive'
  BY <1>1 DEF CInv, LoopAlive, Outstanding, Ended, loop, StartReconnect
<1>. QED  BY <1>1, <1>2, <1>3, <1>4, <1>5, <1>6, InvSplitsPrimed DEF CInv

LEMMA EndedKeeps ==
    ASSUME IInv, Ended, UNCHANGED <<timers, calls, stuck, rest>>
    PROVE  IInv'
<1>1. CInv
  BY InvSplits
<1>2. Away'
  BY <1>1 DEF CInv, Away, Settled, Ended, Calmer, timers, calls, rest, loop, StartReconnect
<1>3. called' \in 0..MaxCalls /\ left' \in {"no", "settled", "busy"} /\ up' = up
  BY <1>1 DEF CInv, ControlType, rest
<1>. QED  BY <1>2, <1>3, EndedKeepsUnless

-----------------------------------------------------------------------------
(* Opening a transport *)

(* An attempt has something that ends it, whatever the outcome. *)
Pending == timer \/ deferred > 0 \/ stuck

(* What OpenFirst does, called while connecting is c. *)
OpenedFirst(c) ==
    /\ connecting' = TRUE \/ connecting' = c
    /\ tr' \in [Transports -> Fields]
    /\ transport' \in Transports
    /\ timer' \in BOOLEAN /\ strays' \in 0..MaxTimers
    /\ deferred' \in 0..MaxDeferred
    /\ stuck' \in BOOLEAN /\ (stuck => stuck')
    /\ Pending'

LEMMA OpenFacts ==
    ASSUME ControlType, NEW t \in Transports, NEW T \in [Transports -> Fields],
           NEW named \in BOOLEAN, NEW n \in 0..MaxTimers, Open(t, T, named, n)
    PROVE  /\ connecting' = TRUE
           /\ tr' \in [Transports -> Fields]
           /\ timer' \in BOOLEAN /\ strays' \in 0..MaxTimers
           /\ stuck' \in BOOLEAN /\ (stuck => stuck')
           /\ timer' \/ stuck'
<1>. USE BoundsLemma
<1>1. CASE /\ T[t].open = "method" /\ T[t].old = "none"
           /\ tr' = [T EXCEPT ![t] = Opened(@)]
           /\ SetConnectTimer(named, n)
           /\ UNCHANGED stuck
  <2>1. /\ tr' = [T EXCEPT ![t] = Opened(T[t])]
        /\ SetConnectTimer(named, n) /\ stuck' = stuck /\ connecting' = TRUE
    BY <1>1 DEF Open
  <2>2. Opened(T[t]) \in Fields
    BY OpenedFacts
  <2>3. tr' \in [Transports -> Fields]
    BY <2>1, <2>2
  <2>4. timer' = TRUE /\ strays' \in 0..MaxTimers
    BY <2>1 DEF SetConnectTimer
  <2>. QED  BY <2>1, <2>3, <2>4 DEF ControlType
<1>2. CASE tr' = T /\ stuck' = TRUE /\ timer' = named /\ strays' = n
  BY <1>2 DEF Open
<1>. QED  BY <1>1, <1>2 DEF Open

LEMMA OpenFirstFacts ==
    ASSUME ControlType, NEW names \in Seq(AllNames), names # <<>>, NEW c \in BOOLEAN,
           NEW named \in BOOLEAN, NEW n \in 0..MaxTimers,
           OpenFirst(names, c, named, n)
    PROVE  OpenedFirst(c)
<1>. USE BoundsLemma
<1>1. names[1] \in AllNames
  OBVIOUS
<1>. DEFINE TT(t) == [x \in Transports |->
                       IF x = t THEN New(names[1])
                       ELSE IF x = transport THEN [tr[x] EXCEPT !.closeTimer = FALSE]
                       ELSE tr[x]]
<1>2. PICK t \in Transports :
        /\ transport' = t
        /\ \/ /\ Open(t, TT(t), named, n)
              /\ deferred' = deferred
           \/ /\ deferred < MaxDeferred
              /\ deferred' = deferred + 1
              /\ tr' = TT(t)
              /\ connecting' = c
              /\ timer' = named /\ strays' = n
              /\ stuck' = stuck
  BY DEF OpenFirst
<1>3. TT(t) \in [Transports -> Fields]
  <2>1. ASSUME NEW x \in Transports PROVE [tr[x] EXCEPT !.closeTimer = FALSE] \in Fields
    BY DEF ControlType, Links, Fields
  <2>. QED  BY <1>1, <2>1, NewFacts DEF ControlType
<1>4. CASE Open(t, TT(t), named, n) /\ deferred' = deferred
  <2>. HIDE DEF TT
  <2>1. /\ connecting' = TRUE
        /\ tr' \in [Transports -> Fields]
        /\ timer' \in BOOLEAN /\ strays' \in 0..MaxTimers
        /\ stuck' \in BOOLEAN /\ (stuck => stuck')
        /\ timer' \/ stuck'
    BY <1>3, <1>4, OpenFacts
  <2>2. deferred' \in 0..MaxDeferred
    BY <1>4 DEF ControlType
  <2>. QED  BY <1>2, <2>1, <2>2 DEF OpenedFirst, Pending
<1>5. CASE /\ deferred < MaxDeferred
           /\ deferred' = deferred + 1
           /\ tr' = TT(t)
           /\ connecting' = c
           /\ timer' = named /\ strays' = n
           /\ stuck' = stuck
  <2>. HIDE DEF TT
  <2>1. deferred' \in 0..MaxDeferred /\ deferred' > 0
    BY <1>5 DEF ControlType
  <2>. QED  BY <1>2, <1>3, <1>5, <2>1 DEF OpenedFirst, Pending, ControlType
<1>. QED  BY <1>2, <1>4, <1>5

(* A step that opens a transport, or tries to, keeps the invariant. *)
LEMMA OpenedKeeps ==
    ASSUME IInv, NEW c \in BOOLEAN, OpenedFirst(c), left # "settled",
           remaining' \in Seq(AllNames) \cup {None},
           heartbeat => heartbeat', heartbeat' \in BOOLEAN,
           shakes' \in 0..MaxShakes, once' \in BOOLEAN,
           UNCHANGED <<connected, loop, rest>>
    PROVE  IInv'
<1>. USE BoundsLemma DEF loop, rest
<1>1. CInv
  BY InvSplits
<1>2. ControlType'
  BY <1>1 DEF CInv, ControlType, OpenedFirst
<1>3. LoopState' /\ Watched'
  BY <1>1 DEF CInv, LoopState, Watched
<1>4. HasTransport'
  BY DEF OpenedFirst, HasTransport
<1>5. AttemptEnds' /\ Away'
  BY <1>1 DEF CInv, AttemptEnds, Away, Outstanding, Pending, OpenedFirst
<1>6. LoopAlive'
  BY <1>1 DEF CInv, LoopAlive, Outstanding, Pending, OpenedFirst
<1>. QED  BY <1>2, <1>3, <1>4, <1>5, <1>6, InvSplitsPrimed DEF CInv

(* A connect timeout, whichever handle it was set with. *)
LEMMA AfterType ==
    ASSUME NEW names \in Seq(AllNames), NEW n
    PROVE  After(names, n) \in Seq(AllNames)
<1>1. CASE \E i \in DOMAIN names : names[i] = n
  <2>. DEFINE i == CHOOSE j \in DOMAIN names : names[j] = n
  <2>1. i \in 1..Len(names)
    BY <1>1
  <2>. HIDE DEF i
  <2>2. SubSeq(names, i + 1, Len(names)) \in Seq(AllNames)
    BY <2>1
  <2>. QED  BY <1>1, <2>2 DEF After, i
<1>2. CASE ~(\E i \in DOMAIN names : names[i] = n)
  BY <1>2 DEF After
<1>. QED  BY <1>1, <1>2

LEMMA LoopTypeKept ==
    ASSUME ControlType, UNCHANGED loop \/ Reset
    PROVE  /\ attempts' \in 0..(MaxAttempts + 1) /\ reconnecting' \in BOOLEAN
           /\ reconnectTimer' \in BOOLEAN /\ redo' \in BOOLEAN
<1>1. CASE UNCHANGED loop
  BY <1>1 DEF ControlType, loop
<1>2. CASE Reset
  <2>1. attempts' \in 0..(MaxAttempts + 1)
    BY <1>2, BoundsLemma DEF Reset
  <2>2. reconnecting' \in BOOLEAN /\ reconnectTimer' \in BOOLEAN /\ redo' \in BOOLEAN
    BY <1>2 DEF Reset
  <2>. QED  BY <2>1, <2>2
<1>. QED  BY <1>1, <1>2

LEMMA TimeoutKeeps ==
    ASSUME IInv, NEW named \in BOOLEAN, NEW n \in 0..MaxTimers,
           left # "settled", transport # None,
           Timeout(named, n), UNCHANGED <<once, shakes, heartbeat, rest>>
    PROVE  IInv'
<1>. USE BoundsLemma DEF rest
<1>1. CInv /\ remaining \in Seq(AllNames) \cup {None}
  BY InvSplits
<1>. DEFINE more == After(IF remaining = None THEN Names ELSE remaining, tr[transport].name)
<1>2. more \in Seq(AllNames)
  BY <1>1, NamesAssumption, AfterType
<1>3. TypeOK
  BY DEF IInv
<1>. HIDE DEF more
<1>4. CASE connected /\ UNCHANGED <<flags, loop, deferred, transport, tr, remaining, stuck>>
           /\ timer' = named /\ strays' = n
  <2>1. ControlType'
    BY <1>1, <1>4 DEF CInv, ControlType, flags, loop
  <2>2. LoopState' /\ HasTransport' /\ Watched' /\ AttemptEnds' /\ LoopAlive' /\ Away'
    BY <1>1, <1>4 DEF CInv, LoopState, HasTransport, Watched, AttemptEnds, LoopAlive, Away,
                      flags, loop
  <2>. QED  BY <1>1, <1>4, <2>1, <2>2, InvSplitsPrimed DEF CInv
<1>5. CASE /\ ~connected /\ ~TryMultiple /\ connecting' = FALSE
           /\ timer' = named /\ strays' = n
           /\ UNCHANGED <<connected, loop, deferred, transport, tr, remaining, stuck>>
  <2>1. ControlType'
    BY <1>1, <1>5 DEF CInv, ControlType, loop
  <2>2. LoopState' /\ HasTransport' /\ Watched' /\ AttemptEnds' /\ Away'
    BY <1>1, <1>5 DEF CInv, LoopState, HasTransport, Watched, AttemptEnds, Away, loop
  <2>3. LoopAlive'
    BY <1>1, <1>5 DEF CInv, LoopAlive, TryMultiple, loop
  <2>. QED  BY <1>1, <1>5, <2>1, <2>2, <2>3, InvSplitsPrimed DEF CInv
<1>6. CASE /\ more # <<>> /\ remaining' = more
           /\ OpenFirst(more, FALSE, named, n) /\ UNCHANGED <<connected, loop>>
  <2>1. OpenedFirst(FALSE)
    BY <1>1, <1>2, <1>6, OpenFirstFacts DEF CInv
  <2>2. heartbeat \in BOOLEAN /\ shakes \in 0..MaxShakes /\ once \in BOOLEAN
    BY <1>1 DEF CInv, ControlType
  <2>. QED  BY <1>2, <1>6, <2>1, <2>2, OpenedKeeps
<1>7. CASE /\ ~connected /\ remaining' = more /\ connecting' = FALSE
           /\ timer' = named /\ strays' = n
           /\ ConnectFailed
           /\ UNCHANGED <<connected, deferred, transport, tr, stuck>>
  <2>1. UNCHANGED loop \/ Reset
    BY <1>7 DEF ConnectFailed
  <2>2. attempts' \in 0..(MaxAttempts + 1) /\ reconnecting' \in BOOLEAN
        /\ reconnectTimer' \in BOOLEAN /\ redo' \in BOOLEAN
    BY <1>1, <2>1, LoopTypeKept DEF CInv
  <2>3. ControlType'
    BY <1>1, <1>7, <2>2 DEF CInv, ControlType
  <2>4. HasTransport' /\ Watched' /\ AttemptEnds' /\ Away'
    BY <1>1, <1>7 DEF CInv, HasTransport, Watched, AttemptEnds, Away
  <2>5. LoopState'
    BY <1>1, <1>7, <2>1 DEF CInv, LoopState, loop, Reset
  <2>6. LoopAlive'
    BY <1>1, <1>7 DEF CInv, LoopAlive, loop, ConnectFailed, Reset
  <2>. QED  BY <1>2, <1>7, <2>3, <2>4, <2>5, <2>6, InvSplitsPrimed DEF CInv
<1>. QED  BY <1>4, <1>5, <1>6, <1>7 DEF Timeout, more

-----------------------------------------------------------------------------
(* Steps that only move the transports *)

LEMMA QuietKeeps ==
    ASSUME IInv, Calmer(tr'), transport = None => tr' = tr,
           up' \in BOOLEAN, heartbeat' \in BOOLEAN,
           heartbeat' = heartbeat \/ (heartbeat' /\ transport # None),
           UNCHANGED <<flags, loop, timers, calls, transport, remaining, stuck, called, left>>
    PROVE  IInv'
<1>. USE DEF flags, loop, timers, calls
<1>1. CInv /\ remaining' \in Seq(AllNames) \cup {None}
  BY InvSplits
<1>2. ControlType'
  BY <1>1 DEF CInv, ControlType, Calmer
<1>3. LoopState' /\ HasTransport' /\ Watched'
  BY <1>1 DEF CInv, LoopState, HasTransport, Watched
<1>4. AttemptEnds' /\ LoopAlive'
  BY <1>1 DEF CInv, AttemptEnds, LoopAlive, Outstanding
<1>5. Away'
  BY <1>1 DEF CInv, Away, Settled, Calmer
<1>. QED  BY <1>1, <1>2, <1>3, <1>4, <1>5, InvSplitsPrimed DEF CInv

(* Nothing of a transport happens before there is one. *)
LEMMA NotUnopened ==
    ASSUME CInv, NEW t \in Transports, ~Unopened(tr[t])
    PROVE  transport # None
BY DEF CInv, HasTransport

\* What a packet leaves of the transports.
LEMMA HeardFacts ==
    ASSUME CInv, NEW t \in Transports, NEW p,
           p = "heartbeat" => tr[t].posts < MaxPosts
    PROVE  Calmer(Heard(t, p))
<1>. DEFINE r == [tr[t] EXCEPT
                    !.closeTimer = (connected \/ connecting \/ reconnecting),
                    !.hello = @ \/ p = "connect",
                    !.posts = IF p = "heartbeat" /\ tr[t].name \in {"xhr-polling", "htmlfile"}
                              THEN @ + 1 ELSE @]
<1>1. (connected \/ connecting \/ reconnecting) \in BOOLEAN
  OBVIOUS
<1>2. tr[t] \in Fields
  BY DEF CInv, ControlType
<1>3. tr[t].posts \in 0..MaxPosts /\ tr[t].hello \in BOOLEAN /\ (tr[t].hello \/ p = "connect") \in BOOLEAN
  BY <1>2 DEF Links, Fields
<1>4. (IF p = "heartbeat" /\ tr[t].name \in {"xhr-polling", "htmlfile"}
       THEN tr[t].posts + 1 ELSE tr[t].posts) \in 0..MaxPosts
  BY <1>3, BoundsLemma
<1>5. r \in Fields /\ (Dead(tr[t]) => Dead(r))
  BY <1>1, <1>2, <1>3, <1>4 DEF Links, Fields, Dead
<1>6. Heard(t, p) = [tr EXCEPT ![t] = r]
  BY DEF Heard, CInv, ControlType
<1>7. ControlType /\ Calmer(tr)
  BY DEF Calmer, CInv, ControlType
<1>. HIDE DEF r
<1>8. Calmer([tr EXCEPT ![t] = r])
  BY <1>5, <1>7, CalmerOne
<1>. QED  BY <1>6, <1>8

LEMMA AgainFacts ==
    ASSUME NEW r \in Fields
    PROVE  Again(r) \in Fields /\ (Dead(r) => Dead(Again(r)))
BY DEF Again, Links, Fields, Dead

-----------------------------------------------------------------------------
(* One lemma for each group of actions *)

LEMMA InitKeeps == Init => IInv
<1>. SUFFICES ASSUME Init PROVE IInv
  OBVIOUS
<1>1. Names[1] \in AllNames
  BY NamesAssumption
<1>2. TypeOK
  <2>1. tr \in [Transports -> Fields] /\ transport = None /\ remaining = None
    BY <1>1, NewFacts DEF Init
  <2>2. /\ shakes \in 0..MaxShakes /\ deferred \in 0..MaxDeferred /\ strays \in 0..MaxTimers
        /\ attempts \in 0..(MaxAttempts + 1) /\ called \in 0..MaxCalls
    BY BoundsLemma DEF Init
  <2>3. ControlType
    BY <2>1, <2>2 DEF Init, ControlType
  <2>. QED  BY <2>1, <2>3, TypeSplits
<1>3. HasTransport
  BY <1>1, NewFacts DEF Init, HasTransport
<1>4. LoopState /\ Watched /\ AttemptEnds /\ LoopAlive /\ Away
  BY DEF Init, LoopState, Watched, AttemptEnds, Outstanding, LoopAlive, Away
<1>. QED  BY <1>2, <1>3, <1>4 DEF IInv

(* What IInv says of the fields the actions read. *)
LEMMA Typing ==
    ASSUME IInv
    PROVE  CInv /\ ControlType /\ Calmer(tr) /\ remaining \in Seq(AllNames) \cup {None}
BY InvSplits DEF CInv, ControlType, Calmer

LEMMA HandshakeOkKeeps == ASSUME IInv, HandshakeOk PROVE IInv'
<1>1. ControlType /\ CInv /\ remaining' \in Seq(AllNames) \cup {None}
  BY Typing DEF HandshakeOk
<1>2. OpenedFirst(connecting)
  BY <1>1, NamesAssumption, OpenFirstFacts DEF HandshakeOk, ControlType
<1>3. left # "settled"
  BY <1>1 DEF CInv, Away, Settled, HandshakeOk, ControlType
<1>4. shakes' \in 0..MaxShakes /\ connecting \in BOOLEAN
  BY <1>1, BoundsLemma DEF HandshakeOk, ControlType
<1>5. heartbeat' = TRUE /\ once' = TRUE /\ UNCHANGED <<connected, loop, rest>>
  BY DEF HandshakeOk
<1>. QED  BY <1>1, <1>2, <1>3, <1>4, <1>5, OpenedKeeps

LEMMA HandshakeFailsKeeps == ASSUME IInv, HandshakeFails PROVE IInv'
<1>. USE DEF flags, loop, timers, rest
<1>1. CInv /\ remaining' \in Seq(AllNames) \cup {None}
  BY Typing DEF HandshakeFails
<1>2. ControlType'
  BY <1>1, BoundsLemma DEF CInv, ControlType, HandshakeFails
<1>3. LoopState' /\ HasTransport' /\ Watched'
  BY <1>1 DEF CInv, LoopState, HasTransport, Watched, HandshakeFails
<1>4. AttemptEnds' /\ LoopAlive'
  BY DEF AttemptEnds, LoopAlive, HandshakeFails
<1>5. shakes > 0 /\ left' = left /\ shakes \in 0..MaxShakes
  BY <1>1 DEF HandshakeFails, CInv, ControlType
<1>6. Away'
  BY <1>1, <1>5 DEF CInv, Away, Settled
<1>. QED  BY <1>1, <1>2, <1>3, <1>4, <1>6, InvSplitsPrimed DEF CInv

LEMMA ReadyKeeps == ASSUME IInv, Ready PROVE IInv'
<1>1. ControlType /\ CInv /\ Calmer(tr) /\ remaining' \in Seq(AllNames) \cup {None}
  BY Typing DEF Ready
<1>2. transport \in Transports
  BY <1>1 DEF CInv, HasTransport, Ready, ControlType
<1>3. timer \in BOOLEAN /\ strays \in 0..MaxTimers
  BY <1>1 DEF ControlType
<1>4. Open(transport, tr, timer, strays)
  BY DEF Ready
<1>5. /\ connecting' = TRUE
      /\ tr' \in [Transports -> Fields]
      /\ timer' \in BOOLEAN /\ strays' \in 0..MaxTimers
      /\ stuck' \in BOOLEAN /\ (stuck => stuck')
      /\ timer' \/ stuck'
  BY <1>1, <1>2, <1>3, <1>4, OpenFacts DEF Calmer
<1>6. deferred' \in 0..MaxDeferred /\ transport' = transport
  BY <1>1, BoundsLemma DEF Ready, ControlType
<1>7. OpenedFirst(TRUE)
  BY <1>2, <1>5, <1>6 DEF OpenedFirst, Pending
<1>8. left # "settled"
  BY <1>1 DEF CInv, Away, Settled, Ready, ControlType
<1>9. shakes' \in 0..MaxShakes /\ once' \in BOOLEAN /\ heartbeat' \in BOOLEAN
      /\ heartbeat' = heartbeat /\ UNCHANGED <<connected, loop, rest>>
  BY <1>1 DEF Ready, ControlType
<1>. QED  BY <1>1, <1>7, <1>8, <1>9, OpenedKeeps

LEMMA ConnectTimeoutKeeps == ASSUME IInv, ConnectTimeout \/ StrayTimeout PROVE IInv'
<1>1. ControlType /\ CInv
  BY Typing
<1>2. left # "settled" /\ transport # None
  <2>1. timer \/ strays > 0
    BY DEF ConnectTimeout, StrayTimeout
  <2>2. strays \in 0..MaxTimers
    BY <1>1 DEF ControlType
  <2>. QED  BY <1>1, <2>1, <2>2 DEF CInv, Away, Settled, HasTransport
<1>3. CASE ConnectTimeout
  <2>1. strays \in 0..MaxTimers
    BY <1>1 DEF ControlType
  <2>. QED  BY <1>2, <1>3, <2>1, TimeoutKeeps DEF ConnectTimeout
<1>4. CASE StrayTimeout
  <2>1. timer \in BOOLEAN
    BY <1>1 DEF ControlType
  <2>2. strays - 1 \in 0..MaxTimers
    BY <1>1, <1>4, BoundsLemma DEF ControlType, StrayTimeout
  <2>. QED  BY <1>2, <1>4, <2>1, <2>2, TimeoutKeeps DEF StrayTimeout
<1>. QED  BY <1>3, <1>4

LEMMA ReconnectTimerKeeps == ASSUME IInv, ReconnectTimer PROVE IInv'
<1>. USE DEF loop, flags, timers, rest
<1>1. ControlType /\ CInv /\ remaining' \in Seq(AllNames) \cup {None}
  BY Typing DEF ReconnectTimer
<1>2. reconnecting /\ left # "settled" /\ attempts <= MaxAttempts /\ ~connected /\ reconnectTimer
  BY <1>1 DEF CInv, LoopState, Away, Settled, ReconnectTimer
<1>3. CASE connecting /\ UNCHANGED <<flags, loop, shakes, transport, tr>>
  <2>1. ControlType'
    BY <1>1, <1>3 DEF ControlType, ReconnectTimer
  <2>2. LoopState' /\ HasTransport' /\ Watched' /\ AttemptEnds' /\ LoopAlive' /\ Away'
    BY <1>1, <1>2, <1>3 DEF CInv, LoopState, HasTransport, Watched, AttemptEnds, Outstanding,
                            LoopAlive, Away, ReconnectTimer
  <2>. QED  BY <1>1, <2>1, <2>2, InvSplitsPrimed DEF CInv
<1>4. CASE /\ attempts < MaxAttempts /\ attempts' = attempts + 1
           /\ Connect(FALSE)
           /\ UNCHANGED <<connected, reconnecting, reconnectTimer, redo, transport, tr>>
  <2>1. connecting' = TRUE /\ shakes' = shakes + 1 /\ shakes < MaxShakes
    BY <1>4 DEF Connect
  <2>2. shakes' \in 0..MaxShakes /\ shakes' > 0
        /\ attempts' \in 0..(MaxAttempts + 1) /\ attempts' <= MaxAttempts
    BY <1>1, <1>4, <2>1, BoundsLemma DEF ControlType
  <2>3. ControlType'
    BY <1>1, <1>4, <2>1, <2>2 DEF ControlType, ReconnectTimer
  <2>4. LoopState' /\ HasTransport' /\ Watched' /\ AttemptEnds' /\ LoopAlive' /\ Away'
    BY <1>1, <1>2, <1>4, <2>1, <2>2
       DEF CInv, LoopState, HasTransport, Watched, AttemptEnds, Outstanding, LoopAlive, Away,
           ReconnectTimer
  <2>. QED  BY <1>1, <2>3, <2>4, InvSplitsPrimed DEF CInv
<1>5. CASE /\ attempts >= MaxAttempts /\ attempts' = attempts + 1
           /\ reconnectTimer' = FALSE /\ redo' = TRUE
           /\ \E t \in Transports :
                 /\ Free(t)
                 /\ transport' = t
                 /\ tr' = [tr EXCEPT ![t] = New(Names[1])]
           /\ Connect(FALSE)
           /\ UNCHANGED <<connected, reconnecting>>
  <2>1. connecting' = TRUE /\ shakes' = shakes + 1 /\ shakes < MaxShakes
    BY <1>5 DEF Connect
  <2>2. shakes' \in 0..MaxShakes /\ shakes' > 0 /\ attempts' \in 0..(MaxAttempts + 1)
    BY <1>1, <1>2, <1>5, <2>1, BoundsLemma DEF ControlType
  <2>3. Names[1] \in AllNames
    BY NamesAssumption
  <2>4. tr' \in [Transports -> Fields] /\ transport' \in Transports
    BY <1>1, <1>5, <2>3, NewFacts DEF ControlType
  <2>5. ControlType'
    BY <1>1, <1>5, <2>1, <2>2, <2>4 DEF ControlType, ReconnectTimer
  <2>6. HasTransport'
    BY <2>4, BoundsLemma DEF HasTransport
  <2>7. LoopState' /\ Watched' /\ AttemptEnds' /\ LoopAlive' /\ Away'
    BY <1>1, <1>2, <1>5, <2>1, <2>2
       DEF CInv, LoopState, Watched, AttemptEnds, Outstanding, LoopAlive, Away, ReconnectTimer
  <2>. QED  BY <1>1, <2>5, <2>6, <2>7, InvSplitsPrimed DEF CInv
<1>. QED  BY <1>3, <1>4, <1>5 DEF ReconnectTimer

(* A packet: the first one connects the socket, "0::" ends it. *)
LEMMA DataKeeps == ASSUME IInv, NEW t \in Transports, NEW p, Data(t, p) PROVE IInv'
<1>. USE DEF flags, loop, timers, calls, rest
<1>1. ControlType /\ CInv /\ Calmer(tr) /\ remaining \in Seq(AllNames) \cup {None}
  BY Typing
<1>2. transport # None
  <2>1. ~Unopened(tr[t])
    BY DEF Data, Unopened
  <2>. QED  BY <1>1, <2>1, NotUnopened
<1>. DEFINE T == Heard(t, p)
<1>3. Calmer(T)
  BY <1>1, HeardFacts DEF Data
<1>4. T[t] \in Fields
  BY <1>3 DEF Calmer
<1>5. Calmer([T EXCEPT ![t] = Again(T[t])])
  BY <1>1, <1>3, <1>4, AgainFacts, CalmerOne
<1>. HIDE DEF T
<1>6. CASE /\ p = "connect" /\ ~connected
           /\ OnConnect
           /\ tr' = [T EXCEPT ![t] = Again(T[t])]
           /\ heartbeat' = TRUE
           /\ UNCHANGED <<strays, transport, remaining>>
  <2>1. left # "settled"
    BY <1>1, <1>6 DEF Data, CInv, Away, Settled, Dead
  <2>2. connected' = TRUE /\ connecting' = FALSE /\ (UNCHANGED loop \/ Reset)
        /\ reconnecting' = FALSE /\ UNCHANGED <<calls, rest>> /\ once' = FALSE /\ stuck' = FALSE
    BY <1>1, <1>6 DEF OnConnect, Reset, Data, ControlType
  <2>3. timer' \in BOOLEAN
    BY <1>1, <1>6 DEF OnConnect, ControlType
  <2>4. ControlType'
    <3>1. /\ attempts' \in 0..(MaxAttempts + 1) /\ reconnecting' \in BOOLEAN
          /\ reconnectTimer' \in BOOLEAN /\ redo' \in BOOLEAN
      BY <1>1, <2>2, LoopTypeKept
    <3>. QED  BY <1>1, <1>5, <1>6, <2>2, <2>3, <3>1 DEF ControlType, Calmer
  <2>5. LoopState'
    BY <1>1, <2>2 DEF CInv, LoopState, Reset
  <2>6. HasTransport' /\ Watched' /\ AttemptEnds' /\ LoopAlive' /\ Away'
    BY <1>2, <1>6, <2>1, <2>2 DEF HasTransport, Watched, AttemptEnds, LoopAlive, Away
  <2>. QED  BY <1>1, <1>6, <2>4, <2>5, <2>6, InvSplitsPrimed DEF CInv
<1>7. CASE /\ p = "disconnect"
           /\ \E last \in BOOLEAN :
                OnDisconnect([T EXCEPT ![t] = IF last /\ @.link = "poll" /\ @.name # "htmlfile"
                                              THEN [@ EXCEPT !.link = "none"] ELSE Again(@)],
                             TRUE, "booted")
           /\ UNCHANGED <<timers, stuck>>
  <2>1. PICK last \in BOOLEAN :
          OnDisconnect([T EXCEPT ![t] = IF last /\ @.link = "poll" /\ @.name # "htmlfile"
                                        THEN [@ EXCEPT !.link = "none"] ELSE Again(@)],
                       TRUE, "booted")
    BY <1>7
  <2>. DEFINE r == IF last /\ T[t].link = "poll" /\ T[t].name # "htmlfile"
                   THEN [T[t] EXCEPT !.link = "none"] ELSE Again(T[t])
  <2>2. r \in Fields /\ (Dead(T[t]) => Dead(r))
    BY <1>4, AgainFacts DEF Links, Fields, Dead
  <2>3. OnDisconnect([T EXCEPT ![t] = r], TRUE, "booted")
    BY <2>1, <1>3 DEF Calmer
  <2>. HIDE DEF r
  <2>4. Calmer([T EXCEPT ![t] = r])
    BY <1>1, <1>3, <2>2, CalmerOne
  <2>5. Ended
    BY <1>1, <1>2, <2>3, <2>4, OnDisconnectEnds
  <2>. QED  BY <1>7, <2>5, EndedKeeps DEF Data
<1>8. CASE /\ tr' = [T EXCEPT ![t] = Again(T[t])]
           /\ heartbeat' = TRUE
           /\ UNCHANGED <<flags, loop, timers, transport, remaining, stuck>>
  <2>1. UNCHANGED <<calls, called, left>> /\ up' \in BOOLEAN
    BY <1>1 DEF Data, ControlType
  <2>. QED  BY <1>2, <1>5, <1>8, <2>1, QuietKeeps
<1>. QED  BY <1>6, <1>7, <1>8 DEF Data, T

(* The other events of a transport. *)
LEMMA QuietEventKeeps ==
    ASSUME IInv, NEW t \in Transports, WebSocketOpens(t) \/ PostOk(t)
    PROVE  IInv'
<1>1. ControlType /\ CInv /\ Calmer(tr)
  BY Typing
<1>2. tr[t] \in Fields
  BY <1>1 DEF ControlType
<1>3. transport # None
  <2>1. ~Unopened(tr[t])
    BY DEF WebSocketOpens, PostOk, Unopened
  <2>. QED  BY <1>1, <2>1, NotUnopened
<1>4. Calmer(tr')
  <2>1. CASE WebSocketOpens(t)
    <3>1. CASE tr[t].link = "connecting" /\ tr' = [tr EXCEPT ![t] = OnOpen([@ EXCEPT !.link = "open"])]
      <4>. DEFINE r == OnOpen([tr[t] EXCEPT !.link = "open"])
      <4>1. r \in Fields /\ (Dead(tr[t]) => Dead(r))
        BY <1>2, <3>1 DEF OnOpen, Links, Fields, Dead
      <4>2. tr' = [tr EXCEPT ![t] = r]
        BY <1>1, <3>1 DEF ControlType
      <4>. QED  BY <1>1, <4>1, <4>2, CalmerOne
    <3>2. CASE tr[t].old = "connecting" /\ tr' = [tr EXCEPT ![t] = OnOpen([@ EXCEPT !.old = "open"])]
      <4>. DEFINE r == OnOpen([tr[t] EXCEPT !.old = "open"])
      <4>1. r \in Fields /\ (Dead(tr[t]) => Dead(r))
        BY <1>2, <3>2 DEF OnOpen, Links, Fields, Dead
      <4>2. tr' = [tr EXCEPT ![t] = r]
        BY <1>1, <3>2 DEF ControlType
      <4>. QED  BY <1>1, <4>1, <4>2, CalmerOne
    <3>. QED  BY <2>1, <3>1, <3>2 DEF WebSocketOpens
  <2>2. CASE PostOk(t)
    <3>. DEFINE r == [tr[t] EXCEPT !.posts = @ - 1]
    <3>1. tr[t].posts - 1 \in 0..MaxPosts
      BY <1>2, <2>2, BoundsLemma DEF PostOk, Links, Fields
    <3>2. r \in Fields /\ (Dead(tr[t]) => Dead(r))
      BY <1>2, <3>1 DEF Links, Fields, Dead
    <3>3. tr' = [tr EXCEPT ![t] = r]
      BY <1>1, <2>2 DEF PostOk, ControlType
    <3>. QED  BY <1>1, <3>2, <3>3, CalmerOne
  <2>. QED  BY <2>1, <2>2
<1>5. /\ up' \in BOOLEAN /\ heartbeat' = heartbeat /\ heartbeat \in BOOLEAN
      /\ UNCHANGED <<flags, loop, timers, calls, transport, remaining, stuck, called, left>>
  BY <1>1 DEF WebSocketOpens, PostOk, rest, ControlType
<1>. QED  BY <1>3, <1>4, <1>5, QuietKeeps

LEMMA EndKeeps ==
    ASSUME IInv, NEW t \in Transports,
           WebSocketCloses(t) \/ PollFails(t) \/ PostFails(t)
    PROVE  IInv'
<1>1. ControlType /\ CInv /\ Calmer(tr)
  BY Typing
<1>2. tr[t] \in Fields
  BY <1>1 DEF ControlType
<1>3. transport # None
  <2>1. ~Unopened(tr[t])
    BY DEF WebSocketCloses, Closes, PollFails, PostFails, Unopened
  <2>. QED  BY <1>1, <2>1, NotUnopened
<1>4. ASSUME NEW r \in Fields, Dead(tr[t]) => Dead(r), OnClose(t, [tr EXCEPT ![t] = r])
      PROVE  Ended
  <2>1. Calmer([tr EXCEPT ![t] = r])
    BY <1>1, <1>4, CalmerOne
  <2>. QED  BY <1>1, <1>3, <1>4, <2>1, OnCloseEnds
<1>5. ASSUME NEW l \in {"none", "closed"}
      PROVE  /\ [tr[t] EXCEPT !.link = l] \in Fields
             /\ [tr[t] EXCEPT !.old = l] \in Fields
             /\ Dead(tr[t]) => Dead([tr[t] EXCEPT !.link = l])
             /\ Dead(tr[t]) => Dead([tr[t] EXCEPT !.old = l])
  BY <1>2 DEF Links, Fields, Dead
<1>6. CASE WebSocketCloses(t)
  <2>1. \/ OnClose(t, [tr EXCEPT ![t] = [tr[t] EXCEPT !.link = "closed"]])
        \/ OnClose(t, [tr EXCEPT ![t] = [tr[t] EXCEPT !.old = "closed"]])
    BY <1>1, <1>6 DEF WebSocketCloses, ControlType
  <2>2. Ended
    BY <1>4, <1>5, <2>1
  <2>. QED  BY <1>6, <2>2, EndedKeeps DEF WebSocketCloses
<1>7. CASE PollFails(t)
  <2>1. OnClose(t, [tr EXCEPT ![t] = [tr[t] EXCEPT !.link = "none"]])
    BY <1>1, <1>7 DEF PollFails, ControlType
  <2>2. Ended
    BY <1>4, <1>5, <2>1
  <2>. QED  BY <1>7, <2>2, EndedKeeps DEF PollFails
<1>8. CASE PostFails(t)
  <2>1. tr[t].posts - 1 \in 0..MaxPosts
    BY <1>2, <1>8, BoundsLemma DEF PostFails, Links, Fields
  <2>2. [tr[t] EXCEPT !.posts = @ - 1] \in Fields
        /\ (Dead(tr[t]) => Dead([tr[t] EXCEPT !.posts = @ - 1]))
    BY <1>2, <2>1 DEF Links, Fields, Dead
  <2>3. OnClose(t, [tr EXCEPT ![t] = [tr[t] EXCEPT !.posts = @ - 1]])
    BY <1>1, <1>8 DEF PostFails, ControlType
  <2>4. Ended
    BY <1>4, <2>2, <2>3
  <2>. QED  BY <1>8, <2>4, EndedKeeps DEF PostFails
<1>. QED  BY <1>6, <1>7, <1>8

LEMMA CloseTimeoutKeeps ==
    ASSUME IInv, NEW t \in Transports, CloseTimeout(t)
    PROVE  IInv'
<1>1. ControlType /\ CInv /\ Calmer(tr)
  BY Typing
<1>2. tr[t] \in Fields /\ heartbeat \in BOOLEAN
  BY <1>1 DEF ControlType
<1>3. transport # None
  <2>1. ~Unopened(tr[t])
    BY DEF CloseTimeout, Unopened
  <2>. QED  BY <1>1, <2>1, NotUnopened
<1>. DEFINE r == [tr[t] EXCEPT !.closeTimer = FALSE]
<1>4. r \in Fields /\ (Dead(tr[t]) => Dead(r))
  BY <1>2 DEF Links, Fields, Dead
<1>5. Closed(r) \in Fields /\ (Dead(tr[t]) => Dead(Closed(r)))
  BY <1>4, ClosedFacts
<1>6. \/ OnDisconnect([tr EXCEPT ![t] = r], heartbeat, "timeout")
      \/ OnClose(t, [tr EXCEPT ![t] = Closed(r)])
      \/ OnDisconnect([tr EXCEPT ![t] = Closed(r)], heartbeat, "timeout")
  <2>1. [tr EXCEPT ![t].closeTimer = FALSE] = [tr EXCEPT ![t] = r]
    BY <1>1 DEF ControlType
  <2>2. [[tr EXCEPT ![t] = r] EXCEPT ![t] = Closed(@)] = [tr EXCEPT ![t] = Closed(r)]
    BY <1>1 DEF ControlType
  <2>. HIDE DEF r
  <2>. QED  BY <2>1, <2>2 DEF CloseTimeout
<1>. HIDE DEF r
<1>7. Calmer([tr EXCEPT ![t] = r]) /\ Calmer([tr EXCEPT ![t] = Closed(r)])
  BY <1>1, <1>4, <1>5, CalmerOne
<1>8. Ended
  BY <1>1, <1>2, <1>3, <1>6, <1>7, OnDisconnectEnds, OnCloseEnds
<1>. QED  BY <1>8, EndedKeeps DEF CloseTimeout

LEMMA HeartbeatTimeoutKeeps == ASSUME IInv, HeartbeatTimeout PROVE IInv'
<1>1. ControlType /\ CInv /\ Calmer(tr)
  BY Typing
<1>2. transport \in Transports /\ transport # None
  BY <1>1 DEF CInv, HasTransport, HeartbeatTimeout, ControlType
<1>3. Ended
  BY <1>1, <1>2, OnCloseEnds DEF HeartbeatTimeout
<1>. QED  BY <1>3, EndedKeeps DEF HeartbeatTimeout

LEMMA ServerDiesKeeps == ASSUME IInv, ServerDies PROVE IInv'
<1>1. ControlType /\ Calmer(tr)
  BY Typing
<1>2. /\ up' \in BOOLEAN /\ heartbeat' = heartbeat /\ heartbeat \in BOOLEAN /\ tr' = tr
      /\ UNCHANGED <<flags, loop, timers, calls, transport, remaining, stuck, called, left>>
  BY <1>1 DEF ServerDies, ControlType
<1>. QED  BY <1>1, <1>2, QuietKeeps

LEMMA AppConnectKeeps == ASSUME IInv, AppConnect PROVE IInv'
<1>. USE DEF loop, timers
<1>1. CInv /\ remaining' \in Seq(AllNames) \cup {None}
  BY Typing DEF AppConnect
<1>2. connecting' = TRUE /\ shakes' \in 0..MaxShakes /\ (shakes' = shakes \/ shakes' > 0)
      /\ (~connecting => shakes' > 0)
  BY <1>1, BoundsLemma DEF CInv, ControlType, AppConnect, Connect
<1>3. called' \in 0..MaxCalls /\ left' = "no"
  BY <1>1, BoundsLemma DEF CInv, ControlType, AppConnect
<1>4. ControlType'
  BY <1>1, <1>2, <1>3 DEF CInv, ControlType, AppConnect
<1>5. LoopState' /\ HasTransport' /\ Watched' /\ Away'
  BY <1>1, <1>3 DEF CInv, LoopState, HasTransport, Watched, Away, AppConnect
<1>6. AttemptEnds' /\ LoopAlive'
  BY <1>1, <1>2 DEF CInv, AttemptEnds, LoopAlive, Outstanding, AppConnect
<1>. QED  BY <1>1, <1>4, <1>5, <1>6, InvSplitsPrimed DEF CInv

LEMMA AppDisconnectKeeps == ASSUME IInv, AppDisconnect PROVE IInv'
<1>1. ControlType /\ CInv /\ Calmer(tr)
  BY Typing
<1>2. heartbeat \in BOOLEAN /\ OnDisconnect(tr, heartbeat, "booted")
  BY <1>1 DEF ControlType, AppDisconnect
<1>3. Ended
  BY <1>1, <1>2, OnDisconnectEnds
<1>4. UNCHANGED loop
  BY <1>2 DEF OnDisconnect, Reconnects
<1>5. called' \in 0..MaxCalls /\ left' \in {"no", "settled", "busy"}
      /\ (left' = "settled" => Settled) /\ UNCHANGED <<timers, calls, stuck, up>>
  BY <1>1, BoundsLemma DEF AppDisconnect, ControlType
<1>6. Away'
  BY <1>3, <1>4, <1>5 DEF Away, Settled, Ended, Calmer, timers, calls, loop
<1>. QED  BY <1>3, <1>5, <1>6, EndedKeepsUnless

-----------------------------------------------------------------------------
(* The theorems *)

LEMMA StepKeeps == ASSUME IInv, [Next]_vars PROVE IInv'
<1>1. CASE UNCHANGED vars
  <2>1. UNCHANGED <<flags, loop, timers, calls, transport, tr, remaining, heartbeat, stuck, rest>>
    BY <1>1 DEF vars
  <2>2. ControlType /\ Calmer(tr)
    BY Typing
  <2>3. up' \in BOOLEAN /\ heartbeat' \in BOOLEAN /\ UNCHANGED <<called, left>>
    BY <2>1, <2>2 DEF ControlType, rest
  <2>. QED  BY <2>1, <2>2, <2>3, QuietKeeps
<1>2. CASE HandshakeOk
  BY <1>2, HandshakeOkKeeps
<1>3. CASE HandshakeFails
  BY <1>3, HandshakeFailsKeeps
<1>4. CASE Ready
  BY <1>4, ReadyKeeps
<1>5. CASE ReconnectTimer
  BY <1>5, ReconnectTimerKeeps
<1>6. CASE ConnectTimeout \/ StrayTimeout
  BY <1>6, ConnectTimeoutKeeps
<1>7. CASE HeartbeatTimeout
  BY <1>7, HeartbeatTimeoutKeeps
<1>8. ASSUME NEW t \in Transports, Event(t) PROVE IInv'
  BY <1>8, DataKeeps, QuietEventKeeps, EndKeeps, CloseTimeoutKeeps DEF Event
<1>9. CASE ServerDies
  BY <1>9, ServerDiesKeeps
<1>10. CASE AppConnect
  BY <1>10, AppConnectKeeps
<1>11. CASE AppDisconnect
  BY <1>11, AppDisconnectKeeps
<1>. QED  BY <1>1, <1>2, <1>3, <1>4, <1>5, <1>6, <1>7, <1>8, <1>9, <1>10, <1>11 DEF Next

LEMMA InvariantHolds == Spec => []IInv
<1>1. Init => IInv
  BY InitKeeps
<1>2. IInv /\ [Next]_vars => IInv'
  BY StepKeeps
<1>. QED  BY <1>1, <1>2, PTL DEF Spec

(* The fields of the socket, its timers and its transports keep their      *)
(* types, and every counter of pending callbacks stays within its bound    *)
(* (the variables of Socket and Transport in socket.io.js).                *)
THEOREM TypeCorrect == Spec => []TypeOK
<1>1. IInv => TypeOK
  BY DEF IInv
<1>. QED  BY <1>1, InvariantHolds, PTL

(* A connected socket runs the heartbeat timer that notices a silent       *)
(* server, whatever the transports it has dropped still report             *)
(* (Transport.onPacket, Transport.onClose, Socket.onDisconnect).           *)
THEOREM ConnectedIsWatched == Spec => []Watched
<1>1. IInv => Watched
  BY DEF IInv
<1>. QED  BY <1>1, InvariantHolds, PTL

(* A socket that is connecting waits for a handshake, a page load or a     *)
(* connect timeout, unless a handshake failed or an open threw             *)
(* (Socket.connect and its inner connect).                                 *)
THEOREM AttemptHasEnd == Spec => []AttemptEnds
<1>1. IInv => AttemptEnds
  BY DEF IInv
<1>. QED  BY <1>1, InvariantHolds, PTL

(* The loop of Socket.reconnect is never left without the timer or the     *)
(* last attempt that continues it (maybeReconnect, reset).                 *)
THEOREM LoopNeverLeft == Spec => []LoopAlive
<1>1. IInv => LoopAlive
  BY DEF IInv
<1>. QED  BY <1>1, InvariantHolds, PTL

(* disconnect() of a socket with nothing outstanding is final              *)
(* (Socket.disconnect: reason "booted" starts no reconnect loop).          *)
THEOREM DisconnectIsFinal == Spec => []StaysAway
<1>1. IInv => StaysAway
  BY DEF IInv, Away, Settled, StaysAway
<1>. QED  BY <1>1, InvariantHolds, PTL

=============================================================================
