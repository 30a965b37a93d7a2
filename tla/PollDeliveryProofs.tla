-------------------------- MODULE PollDeliveryProofs --------------------------
(***************************************************************************)
(* Proofs about PollDelivery, for any number of connections and messages,  *)
(* both transports, and browsers that do or do not overlap their polls:    *)
(* a message is in one place, and the polling client implements Mailbox.   *)
(*                                                                         *)
(* That a message is dropped only when a poll was cut short rests on       *)
(* HeadOK: the worker about to write is the only one with a claim on its   *)
(* connection, or the connection was spoiled by a second head.             *)
(***************************************************************************)
EXTENDS PollDelivery, TLAPS

\* What Append adds to a sequence.
LEMMA AppendFacts ==
    ASSUME NEW S, NEW q \in Seq(S), NEW x \in S
    PROVE  /\ Append(q, x) \in Seq(S)
           /\ DOMAIN Append(q, x) = DOMAIN q \cup {Len(q) + 1}
           /\ Len(q) + 1 \notin DOMAIN q
           /\ \A i \in DOMAIN q : Append(q, x)[i] = q[i]
           /\ Append(q, x)[Len(q) + 1] = x
OBVIOUS

\* What Head and Tail take from one.
LEMMA TailFacts ==
    ASSUME NEW S, NEW q \in Seq(S), q # <<>>
    PROVE  /\ Head(q) \in S /\ Tail(q) \in Seq(S)
           /\ 1 \in DOMAIN q /\ q[1] = Head(q)
           /\ \A i \in DOMAIN Tail(q) : i \in Nat /\ i + 1 # 1 /\ i + 1 \in DOMAIN q
                                        /\ Tail(q)[i] = q[i + 1]
           /\ \A i \in DOMAIN q : i = 1 \/ (i - 1 \in DOMAIN Tail(q) /\ q[i] = Tail(q)[i - 1])
           /\ \A i, j \in DOMAIN Tail(q) : i + 1 = j + 1 => i = j
OBVIOUS

\* The same, of the sets of their elements.
LEMMA ElementsAppended ==
    ASSUME NEW S, NEW q \in Seq(S), NEW x \in S
    PROVE  {Append(q, x)[i] : i \in DOMAIN Append(q, x)} = {q[i] : i \in DOMAIN q} \cup {x}
BY AppendFacts

LEMMA ElementsTaken ==
    ASSUME NEW S, NEW q \in Seq(S), q # <<>>
    PROVE  {q[i] : i \in DOMAIN q} = {Tail(q)[i] : i \in DOMAIN Tail(q)} \cup {Head(q)}
<1> DEFINE R == {q[i] : i \in DOMAIN q}
           T == {Tail(q)[i] : i \in DOMAIN Tail(q)}
<1>1. ASSUME NEW v \in R PROVE v \in T \cup {Head(q)}
  BY TailFacts
<1>2. ASSUME NEW v \in T \cup {Head(q)} PROVE v \in R
  BY TailFacts
<1>. QED  BY <1>1, <1>2

LEMMA PacketFacts ==
    /\ {Hello, Endpoint, Wrapped, Noop, None} \cap Messages = {}
    /\ Messages \subseteq Items /\ {Hello, Endpoint, Wrapped} \subseteq Items
    /\ None \notin Items /\ Noop \notin Items /\ Noop # None
BY PacketsAssumption, SentinelAssumption, MaxMsgAssumption DEF Messages, Items

LEMMA InitLemma == Init => IInv
<1> SUFFICES ASSUME Init PROVE IInv  OBVIOUS
<1> USE ConnsAssumption, MaxMsgAssumption, PacketFacts DEF Init
<1>1. TypeOK  BY DEF TypeOK
<1>2. OnePlace
  BY DEF OnePlace, OnceIn, Queued, Held, Given, Messages
<1>3. GetOK /\ WorkerOK /\ HeadOK /\ ClosingOK
  BY DEF GetOK, WorkerOK, HeadOK, ClosingOK
<1>. QED  BY <1>1, <1>2, <1>3 DEF IInv

-----------------------------------------------------------------------------
(* Where the messages are. *)

\* A step that moves no message: a worker without one returns, and at most a
\* connect packet is queued or dropped.
MovesNone ==
    /\ sent' = sent /\ received' = received /\ item' = item
    /\ queue' = queue \/ \E x \in {Hello, Endpoint, Wrapped} : queue' = Append(queue, x)
    /\ dropped' = dropped \/ \E x \in {Hello, Endpoint, Wrapped} : dropped' = dropped \cup {x}

LEMMA MovesNoneLemma == ASSUME IInv, MovesNone PROVE OnePlace'
<1> USE PacketFacts DEF IInv, OnePlace
<1>1. /\ Queued' \cap Messages = Queued \cap Messages
      /\ OnceIn(queue)'
  <2>1. CASE queue' = queue
    BY <2>1 DEF Queued, OnceIn
  <2>2. ASSUME NEW x \in {Hello, Endpoint, Wrapped}, queue' = Append(queue, x)
        PROVE  Queued' \cap Messages = Queued \cap Messages /\ OnceIn(queue)'
    <3>1. queue \in Seq(Items) /\ x \in Items /\ x \notin Messages
      BY DEF TypeOK
    <3>. QED  BY <2>2, <3>1, AppendFacts DEF Queued, OnceIn
  <2>. QED  BY <2>1, <2>2 DEF MovesNone
<1>2. Held' = Held /\ Given' = Given /\ OnceIn(item)' /\ OnceIn(received)'
  BY DEF MovesNone, Held, Given, OnceIn
<1>3. dropped' \cap Messages = dropped \cap Messages
  BY DEF MovesNone
<1>4. sent' = sent
  BY DEF MovesNone
<1>. QED  BY <1>1, <1>2, <1>3, <1>4

\* A message is sent.
LEMMA SendLemma == ASSUME IInv, Send PROVE OnePlace'
<1> USE DEF IInv, OnePlace, Send, connVars, browserVars
<1>1. sent \in 0..MaxMsg /\ sent < MaxMsg /\ queue \in Seq(Items)
  BY DEF TypeOK
<1>2. /\ sent + 1 \in Messages /\ sent + 1 \notin 1..sent
      /\ 1..(sent + 1) = 1..sent \cup {sent + 1}
  BY <1>1, MaxMsgAssumption DEF Messages
<1>3. sent + 1 \in Items
  BY <1>2, PacketFacts
<1>4. sent + 1 \notin Queued \cup Held \cup Given \cup dropped
  BY <1>2
<1>5. Queued' = Queued \cup {sent + 1}
  BY <1>1, <1>3, ElementsAppended DEF Queued
<1>6. OnceIn(queue)'
  BY <1>1, <1>3, <1>4, AppendFacts DEF OnceIn, Queued
<1>7. Held' = Held /\ Given' = Given /\ OnceIn(item)' /\ OnceIn(received)' /\ dropped' = dropped
  BY DEF Held, Given, OnceIn
<1>. QED  BY <1>2, <1>4, <1>5, <1>6, <1>7

\* A poll takes the first message of the queue.
LEMMA TakeLemma == ASSUME IInv, NEW k \in Conns, Take(k) PROVE OnePlace'
<1> USE DEF IInv, OnePlace, Take, Goto, browserVars
<1>1. queue \in Seq(Items) /\ item \in [Conns -> Items \cup {Noop, None}] /\ item[k] = None
  BY DEF TypeOK, WorkerOK
<1>2. Queued = Queued' \cup {Head(queue)}
  BY <1>1, ElementsTaken DEF Queued
<1>3. Head(queue) \in Messages => Head(queue) \notin Queued'
  BY <1>1, TailFacts DEF Queued, OnceIn
<1>4. OnceIn(queue)'
  BY <1>1, TailFacts DEF OnceIn
<1>5. Held' \cap Messages = (Held \cup {Head(queue)}) \cap Messages
  BY <1>1, PacketFacts DEF Held
<1>6. OnceIn(item)'
  <2>1. Head(queue) \in Messages => Head(queue) \notin Held
    BY <1>2
  <2>. QED  BY <1>1, <2>1 DEF OnceIn, Held
<1>7. Given' = Given /\ OnceIn(received)' /\ dropped' = dropped /\ sent' = sent
  BY DEF Given, OnceIn
<1>. QED  BY <1>2, <1>3, <1>4, <1>5, <1>6, <1>7

\* A poll that timed out takes the noop.
LEMMA NoopLemma == ASSUME IInv, NEW k \in Conns, TimeOut(k) PROVE OnePlace'
<1> USE DEF IInv, OnePlace, TimeOut, Goto, browserVars
<1>1. item \in [Conns -> Items \cup {Noop, None}] /\ item[k] = None
  BY DEF TypeOK, WorkerOK
<1>2. Held' \cap Messages = Held \cap Messages /\ OnceIn(item)'
  BY <1>1, PacketFacts DEF Held, OnceIn
<1>3. /\ Queued' = Queued /\ Given' = Given /\ OnceIn(queue)' /\ OnceIn(received)'
      /\ dropped' = dropped /\ sent' = sent
  BY DEF Queued, Given, OnceIn
<1>. QED  BY <1>2, <1>3

\* A worker gives its message to the browser, or drops it.
LEMMA BodyLemma == ASSUME IInv, NEW k \in Conns, Body(k) PROVE OnePlace'
<1> DEFINE x == item[k]
<1>1. /\ item \in [Conns -> Items \cup {Noop, None}] /\ received \in Seq(Messages)
      /\ x # None
  BY DEF IInv, TypeOK, WorkerOK, Body
<1>2. x \in Held
  BY DEF Held
<1>3. Queued' = Queued /\ OnceIn(queue)' /\ sent' = sent
  BY DEF IInv, OnePlace, Body, Queued, OnceIn
<1>4. OnceIn(item) /\ OnceIn(received)
  BY DEF IInv, OnePlace
<1>5. item' = [item EXCEPT ![k] = None]
  BY DEF Body, Return
<1>6. /\ Held' \cap Messages = (Held \cap Messages) \ {x}
      /\ OnceIn(item)'
  <2>1. OnceIn(item)'
    BY <1>1, <1>4, <1>5, PacketFacts DEF OnceIn
  <2>2. ASSUME NEW m \in Messages PROVE m \in Held' <=> m \in Held /\ m # x
    BY <1>1, <1>4, <1>5, PacketFacts DEF Held, OnceIn
  <2>. QED  BY <2>1, <2>2
<1>7. x \in Messages => x \notin Queued \cup Given \cup dropped
  BY <1>2 DEF IInv, OnePlace
<1>8. \/ /\ Given' = Given \cup ({x} \cap Messages) /\ OnceIn(received)'
         /\ dropped' = dropped
      \/ /\ Given' = Given /\ OnceIn(received)'
         /\ dropped' \cap Messages = (dropped \cup {x}) \cap Messages
  <2>1. CASE x \in Messages /\ received' = Append(received, x) /\ dropped' = dropped
    <3>1. Given' = Given \cup {x}
      BY <1>1, <2>1, ElementsAppended DEF Given
    <3>2. OnceIn(received)'
      BY <1>1, <1>4, <1>7, <2>1, AppendFacts DEF OnceIn, Given
    <3>. QED  BY <2>1, <3>1, <3>2
  <2>2. CASE received' = received /\ dropped' = dropped /\ x \notin Messages
    BY <1>4, <2>2 DEF Given, OnceIn
  <2>3. CASE received' = received /\ dropped' = (IF x = Noop THEN dropped ELSE dropped \cup {x})
    BY <1>4, <2>3, PacketFacts DEF Given, OnceIn
  <2>. QED  BY <2>1, <2>2, <2>3 DEF Body, Hears
<1>. QED  BY <1>2, <1>3, <1>6, <1>7, <1>8 DEF IInv, OnePlace

-----------------------------------------------------------------------------
(* The control: what is left of the invariant. *)

\* A worker without a message returns.
LEMMA ReturnFacts ==
    ASSUME TypeOK, WorkerOK, NEW k \in Conns, pc[k] # "write"
    PROVE  [item EXCEPT ![k] = None] = item
<1>1. item \in [Conns -> Items \cup {Noop, None}] /\ item[k] = None
  BY DEF TypeOK, WorkerOK
<1>. QED  BY <1>1

\* The types of what the control depends on.
ControlType ==
    /\ open \in BOOLEAN /\ ctx \in Conns
    /\ job \in [Conns -> {"none", "GET"} \cup PostJobs]
    /\ link \in [Conns -> {"none", "open", "closing", "closed"}]
    /\ resp \in [Conns -> {"none", "head", "done", "spoiled"}]
    /\ pc \in [Conns -> {"idle", "reconnect", "beat", "chan", "shut", "take", "write", "direct",
                         "direct write", "direct done", "disconnect"}]
    /\ chan \in [Conns -> Conns \cup {None}]

LEMMA ControlTypeLemma == TypeOK => ControlType
BY DEF TypeOK, ControlType

\* A worker that returns without a change of jobs.
LEMMA ReturnLemma ==
    ASSUME ControlType, item \in [Conns -> Items \cup {Noop, None}], WorkerOK,
           NEW k \in Conns, Return(k), job' = job,
           \A j \in Conns : link'[j] = "none" => link[j] = "none"
    PROVE  WorkerOK'
<1>1. pc'[k] = "idle" /\ item'[k] = None
  BY DEF Return, Goto, ControlType
<1>2. \A j \in Conns \ {k} : pc'[j] = pc[j] /\ item'[j] = item[j] /\ chan'[j] = chan[j]
  BY DEF Return, Goto, ControlType
<1>. QED  BY <1>1, <1>2 DEF WorkerOK

\* A worker that goes on without a message, and without a change of jobs.
LEMMA MoveLemma ==
    ASSUME ControlType, WorkerOK, NEW k \in Conns, NEW label, Goto(k, label),
           pc[k] \notin {"idle", "write"}, label \notin {"reconnect", "take", "write"},
           chan' = chan, item' = item, job' = job,
           \A j \in Conns : link'[j] = "none" => link[j] = "none"
    PROVE  WorkerOK'
<1>1. pc'[k] = label /\ \A j \in Conns \ {k} : pc'[j] = pc[j]
  BY DEF Goto, ControlType
<1>. QED  BY <1>1 DEF WorkerOK

\* The answer to a POST closes no GET.
LEMMA RepliedLemma ==
    ASSUME ControlType, GetOK, ClosingOK, NEW k \in Conns,
           link' = link \/ link' = Replied(k), job' = job, ctx' = ctx, resp' = resp
    PROVE  GetOK' /\ ClosingOK'
<1>1. \A j \in Conns : job[j] = "GET" => link'[j] = link[j]
  BY DEF Replied, ControlType
<1>. QED  BY <1>1 DEF GetOK, ClosingOK

\* Worker j is between queue.poll and its write, and owns connection chan[j].
Writes(j) == pc[j] \in {"take", "write"}

\* A step that starts no writer and no response leaves the heads as they are.
LEMMA HeadLemma ==
    ASSUME HeadOK, resp' = resp,
           \A j \in Conns : Writes(j)' => Writes(j) /\ chan'[j] = chan[j]
    PROVE  HeadOK'
BY DEF HeadOK, Writes

\* The steps of a poll keep the invariant.
LEMMA BeatLemma ==
    ASSUME IInv, NEW k \in Conns, BeatStep(k)
    PROVE  IInv'
<1>. TypeOK /\ OnePlace /\ GetOK /\ WorkerOK /\ HeadOK /\ ClosingOK /\ ControlType
  BY ControlTypeLemma DEF IInv
<1> USE DEF Goto, Return, Replied, IsOpen, browserVars
<1>1. CASE Reconnect(k)
  <2>1. OnePlace'
    <3>1. MovesNone
      BY <1>1, ReturnFacts DEF MovesNone, Reconnect
    <3>. QED  BY <3>1, MovesNoneLemma
  <2>2. TypeOK'
    BY <1>1 DEF Reconnect, TypeOK
  <2>3. GetOK'
    BY <1>1 DEF Reconnect, ControlType, GetOK, WorkerOK
  <2>4. WorkerOK'
    <3>1. /\ pc[k] \notin {"idle", "write"}
          /\ Goto(k, "beat") /\ chan' = chan /\ item' = item /\ job' = job
          /\ \A j \in Conns : link'[j] = "none" => link[j] = "none"
      BY <1>1 DEF Reconnect, ControlType
    <3>. QED  BY <3>1, MoveLemma
  <2>5. HeadOK'
    <3>1. /\ resp' = resp
          /\ \A j \in Conns : Writes(j)' => Writes(j) /\ chan'[j] = chan[j]
      BY <1>1 DEF Reconnect, ControlType, Writes
    <3>. QED  BY <3>1, HeadLemma
  <2>6. ClosingOK'
    <3> SUFFICES ASSUME NEW i \in Conns, job'[i] = "GET", link'[i] = "closing"
                 PROVE  resp'[i] \in {"done", "spoiled"}
      BY DEF ClosingOK
    <3>. QED  BY <1>1 DEF Reconnect, ControlType, HeadOK, GetOK, WorkerOK, ClosingOK
  <2>. QED  BY <2>1, <2>2, <2>3, <2>4, <2>5, <2>6 DEF IInv
<1>2. CASE BeatNotOpen(k)
  <2>1. OnePlace'
    <3>1. MovesNone
      BY <1>2, ReturnFacts DEF MovesNone, BeatNotOpen
    <3>. QED  BY <3>1, MovesNoneLemma
  <2>2. TypeOK'
    BY <1>2 DEF BeatNotOpen, TypeOK
  <2>3. GetOK' /\ ClosingOK'
    <3>1. (link' = link \/ link' = Replied(k)) /\ job' = job /\ ctx' = ctx /\ resp' = resp
      BY <1>2 DEF BeatNotOpen
    <3>. QED  BY <3>1, RepliedLemma
  <2>4. WorkerOK'
    <3>1. Return(k) /\ job' = job /\ \A j \in Conns : link'[j] = "none" => link[j] = "none"
      BY <1>2 DEF BeatNotOpen, ControlType
    <3>. QED  BY <3>1, ReturnLemma DEF TypeOK
  <2>5. HeadOK'
    <3>1. /\ resp' = resp
          /\ \A j \in Conns : Writes(j)' => Writes(j) /\ chan'[j] = chan[j]
      BY <1>2 DEF BeatNotOpen, ControlType, Writes
    <3>. QED  BY <3>1, HeadLemma
  <2>. QED  BY <2>1, <2>2, <2>3, <2>4, <2>5 DEF IInv
<1>3. CASE BeatOpen(k)
  <2>1. OnePlace'
    <3>1. MovesNone
      BY <1>3, ReturnFacts DEF MovesNone, BeatOpen
    <3>. QED  BY <3>1, MovesNoneLemma
  <2>2. TypeOK'
    BY <1>3 DEF BeatOpen, TypeOK
  <2>3. GetOK' /\ ClosingOK'
    <3>1. (link' = link \/ link' = Replied(k)) /\ job' = job /\ ctx' = ctx /\ resp' = resp
      BY <1>3 DEF BeatOpen
    <3>. QED  BY <3>1, RepliedLemma
  <2>4. WorkerOK'
    <3>1. /\ pc[k] \notin {"idle", "write"}
          /\ Goto(k, "chan") /\ chan' = chan /\ item' = item /\ job' = job
          /\ \A j \in Conns : link'[j] = "none" => link[j] = "none"
      BY <1>3 DEF BeatOpen, ControlType
    <3>. QED  BY <3>1, MoveLemma
  <2>5. HeadOK'
    <3>1. /\ resp' = resp
          /\ \A j \in Conns : Writes(j)' => Writes(j) /\ chan'[j] = chan[j]
      BY <1>3 DEF BeatOpen, ControlType, Writes
    <3>. QED  BY <3>1, HeadLemma
  <2>. QED  BY <2>1, <2>2, <2>3, <2>4, <2>5 DEF IInv
<1>4. CASE BeatOnClosed(k)
  <2>1. OnePlace'
    <3>1. MovesNone
      BY <1>4, ReturnFacts DEF MovesNone, BeatOnClosed
    <3>. QED  BY <3>1, MovesNoneLemma
  <2>2. TypeOK'
    BY <1>4 DEF BeatOnClosed, TypeOK
  <2>3. GetOK' /\ ClosingOK'
    <3>1. (link' = link \/ link' = Replied(k)) /\ job' = job /\ ctx' = ctx /\ resp' = resp
      BY <1>4 DEF BeatOnClosed
    <3>. QED  BY <3>1, RepliedLemma
  <2>4. WorkerOK'
    <3>1. /\ pc[k] \notin {"idle", "write"}
          /\ Goto(k, "shut") /\ chan' = chan /\ item' = item /\ job' = job
          /\ \A j \in Conns : link'[j] = "none" => link[j] = "none"
      BY <1>4 DEF BeatOnClosed, ControlType
    <3>. QED  BY <3>1, MoveLemma
  <2>5. HeadOK'
    <3>1. /\ resp' = resp
          /\ \A j \in Conns : Writes(j)' => Writes(j) /\ chan'[j] = chan[j]
      BY <1>4 DEF BeatOnClosed, ControlType, Writes
    <3>. QED  BY <3>1, HeadLemma
  <2>. QED  BY <2>1, <2>2, <2>3, <2>4, <2>5 DEF IInv
<1>5. CASE BeatHead(k)
  <2>1. OnePlace'
    <3>1. MovesNone
      BY <1>5, ReturnFacts DEF MovesNone, BeatHead
    <3>. QED  BY <3>1, MovesNoneLemma
  <2>2. TypeOK'
    BY <1>5 DEF BeatHead, TypeOK
  <2>3. GetOK'
    BY <1>5 DEF BeatHead, ControlType, GetOK, WorkerOK
  <2>4. WorkerOK'
    <3>1. /\ pc'[k] = "take" /\ pc[k] = "chan" /\ chan'[k] = ctx /\ ctx \in Conns
          /\ item' = item /\ job' = job /\ link' = link
          /\ \A j \in Conns \ {k} : pc'[j] = pc[j] /\ chan'[j] = chan[j]
      BY <1>5 DEF BeatHead, ControlType
    <3>. QED  BY <3>1 DEF WorkerOK, GetOK
  <2>5. HeadOK'
    <3>1. /\ ctx \in Conns
          /\ resp'[ctx] = IF resp[ctx] = "none" THEN "head" ELSE "spoiled"
          /\ \A c \in Conns \ {ctx} : resp'[c] = resp[c]
      BY <1>5 DEF BeatHead, ControlType
    <3>2. chan'[k] = ctx /\ \A j \in Conns \ {k} : chan'[j] = chan[j] /\ pc'[j] = pc[j]
      BY <1>5 DEF BeatHead, ControlType
    <3>3. \A j \in Conns : Writes(j) => chan[j] \in Conns /\ resp[chan[j]] # "none"
      BY DEF WorkerOK, HeadOK, Writes
    <3>. QED  BY <3>1, <3>2, <3>3 DEF HeadOK, Writes
  <2>6. ClosingOK'
    <3> SUFFICES ASSUME NEW i \in Conns, job'[i] = "GET", link'[i] = "closing"
                 PROVE  resp'[i] \in {"done", "spoiled"}
      BY DEF ClosingOK
    <3>. QED  BY <1>5 DEF BeatHead, ControlType, HeadOK, GetOK, WorkerOK, ClosingOK
  <2>. QED  BY <2>1, <2>2, <2>3, <2>4, <2>5, <2>6 DEF IInv
<1>6. CASE Take(k)
  <2>1. OnePlace'
    BY <1>6, TakeLemma
  <2>2. TypeOK'
    <3>1. queue' \in Seq(Items) /\ Head(queue) \in Items
      BY <1>6, TailFacts DEF Take, TypeOK
    <3>. QED  BY <1>6, <3>1 DEF Take, TypeOK
  <2>3. GetOK' /\ ClosingOK'
    <3>1. (link' = link \/ link' = Replied(k)) /\ job' = job /\ ctx' = ctx /\ resp' = resp
      BY <1>6 DEF Take
    <3>. QED  BY <3>1, RepliedLemma
  <2>4. WorkerOK'
    <3>1. Head(queue) \in Items /\ item \in [Conns -> Items \cup {Noop, None}]
      BY <1>6, TailFacts DEF Take, TypeOK
    <3>2. Head(queue) # None
      BY <3>1, PacketFacts
    <3>3. /\ item'[k] # None /\ pc'[k] = "write" /\ pc[k] = "take"
          /\ \A j \in Conns \ {k} : pc'[j] = pc[j] /\ item'[j] = item[j]
      BY <1>6, <3>1, <3>2 DEF Take, ControlType
    <3>. QED  BY <1>6, <3>3 DEF Take, WorkerOK
  <2>5. HeadOK'
    <3>1. /\ resp' = resp
          /\ \A j \in Conns : Writes(j)' => Writes(j) /\ chan'[j] = chan[j]
      BY <1>6 DEF Take, ControlType, Writes
    <3>. QED  BY <3>1, HeadLemma
  <2>. QED  BY <2>1, <2>2, <2>3, <2>4, <2>5 DEF IInv
<1>7. CASE TimeOut(k)
  <2>1. OnePlace'
    BY <1>7, NoopLemma
  <2>2. TypeOK'
    BY <1>7 DEF TimeOut, TypeOK
  <2>3. GetOK' /\ ClosingOK'
    <3>1. (link' = link \/ link' = Replied(k)) /\ job' = job /\ ctx' = ctx /\ resp' = resp
      BY <1>7 DEF TimeOut
    <3>. QED  BY <3>1, RepliedLemma
  <2>4. WorkerOK'
    <3>1. item \in [Conns -> Items \cup {Noop, None}]
      BY DEF TypeOK
    <3>2. /\ pc'[k] = "write" /\ pc[k] = "take" /\ item'[k] # None
          /\ chan' = chan /\ job' = job /\ link' = link
          /\ \A j \in Conns \ {k} : pc'[j] = pc[j] /\ item'[j] = item[j]
      BY <1>7, <3>1, PacketFacts DEF TimeOut, ControlType
    <3>. QED  BY <3>2 DEF WorkerOK
  <2>5. HeadOK'
    <3>1. /\ resp' = resp
          /\ \A j \in Conns : Writes(j)' => Writes(j) /\ chan'[j] = chan[j]
      BY <1>7 DEF TimeOut, ControlType, Writes
    <3>. QED  BY <3>1, HeadLemma
  <2>. QED  BY <2>1, <2>2, <2>3, <2>4, <2>5 DEF IInv
<1>8. CASE Body(k)
  <2>1. OnePlace'
    BY <1>8, BodyLemma
  <2>2. TypeOK'
    <3>1. received' \in Seq(Messages) /\ heard' \subseteq Items /\ dropped' \subseteq Items
      <4>1. item[k] \in Items \cup {Noop} /\ received \in Seq(Messages)
        BY <1>8 DEF Body, TypeOK, WorkerOK
      <4>2. item[k] \in Messages => Append(received, item[k]) \in Seq(Messages)
        BY <4>1, AppendFacts
      <4>3. heard \subseteq Items /\ dropped \subseteq Items
        BY DEF TypeOK
      <4>4. Hears(chan[k], item[k])
        BY <1>8 DEF Body
      <4>. QED  BY <4>1, <4>2, <4>3, <4>4 DEF Hears
    <3>2. link' \in [Conns -> {"none", "open", "closing", "closed"}]
      BY <1>8 DEF Body, TypeOK, WorkerOK
    <3>3. resp' \in [Conns -> {"none", "head", "done", "spoiled"}]
      BY <1>8 DEF Body, TypeOK, WorkerOK
    <3>. QED  BY <1>8, <3>1, <3>2, <3>3 DEF Body, TypeOK
  <2>3. GetOK'
    BY <1>8 DEF Body, ControlType, GetOK, WorkerOK
  <2>4. WorkerOK'
    <3>1. Return(k) /\ job' = job /\ \A j \in Conns : link'[j] = "none" => link[j] = "none"
      BY <1>8 DEF Body, ControlType
    <3>. QED  BY <3>1, ReturnLemma DEF TypeOK
  <2>5. HeadOK'
    <3>1. \A j \in Conns : Writes(j)' => j # k /\ Writes(j) /\ chan'[j] = chan[j]
      BY <1>8 DEF Body, ControlType, Writes
    <3>2. /\ chan[k] \in Conns
          /\ resp[chan[k]] = "spoiled" => resp'[chan[k]] = "spoiled"
          /\ \A j \in Conns \ {chan[k]} : resp'[j] = resp[j]
      BY <1>8 DEF Body, ControlType, WorkerOK
    <3>3. \A j \in Conns : Writes(j) /\ j # k =>
             /\ chan[j] \in Conns
             /\ chan[j] = chan[k] => resp[chan[k]] = "spoiled"
      BY <1>8 DEF Body, WorkerOK, HeadOK, Writes
    <3>4. \A j \in Conns : Writes(j) /\ j # k => resp'[chan[j]] = resp[chan[j]]
      BY <3>2, <3>3
    <3>. QED  BY <3>1, <3>4 DEF HeadOK, Writes
  <2>6. ClosingOK'
    <3>1. /\ job' = job /\ chan[k] \in Conns /\ job[chan[k]] = "GET"
          /\ resp[chan[k]] \in {"head", "spoiled"} /\ link[chan[k]] # "none"
      BY <1>8 DEF Body, WorkerOK, HeadOK, GetOK
    <3>2. \A j \in Conns \ {chan[k]} : /\ resp'[j] = resp[j]
                                       /\ job[j] = "GET" => link'[j] = link[j]
      BY <1>8, <3>1 DEF Body, ControlType
    <3>3. link'[chan[k]] = "closing" => resp'[chan[k]] \in {"done", "spoiled"}
      BY <1>8, <3>1 DEF Body, ControlType
    <3>. QED  BY <3>1, <3>2, <3>3 DEF ClosingOK
  <2>. QED  BY <2>1, <2>2, <2>3, <2>4, <2>5, <2>6 DEF IInv
<1>9. CASE BeatShut(k)
  <2>1. OnePlace'
    <3>1. MovesNone
      BY <1>9, ReturnFacts DEF MovesNone, BeatShut
    <3>. QED  BY <3>1, MovesNoneLemma
  <2>2. TypeOK'
    BY <1>9 DEF BeatShut, TypeOK
  <2>3. GetOK' /\ ClosingOK'
    <3>1. (link' = link \/ link' = Replied(k)) /\ job' = job /\ ctx' = ctx /\ resp' = resp
      BY <1>9 DEF BeatShut
    <3>. QED  BY <3>1, RepliedLemma
  <2>4. WorkerOK'
    <3>1. Return(k) /\ job' = job /\ \A j \in Conns : link'[j] = "none" => link[j] = "none"
      BY <1>9 DEF BeatShut, ControlType
    <3>. QED  BY <3>1, ReturnLemma DEF TypeOK
  <2>5. HeadOK'
    <3>1. /\ resp' = resp
          /\ \A j \in Conns : Writes(j)' => Writes(j) /\ chan'[j] = chan[j]
      BY <1>9 DEF BeatShut, ControlType, Writes
    <3>. QED  BY <3>1, HeadLemma
  <2>. QED  BY <2>1, <2>2, <2>3, <2>4, <2>5 DEF IInv
<1>. QED  BY <1>1, <1>2, <1>3, <1>4, <1>5, <1>6, <1>7, <1>8, <1>9 DEF BeatStep

\* So do the steps of a connect packet and of a disconnect.
LEMMA DirectLemma ==
    ASSUME IInv, NEW k \in Conns, DirectStep(k)
    PROVE  IInv'
<1>. TypeOK /\ OnePlace /\ GetOK /\ WorkerOK /\ HeadOK /\ ClosingOK /\ ControlType
  BY ControlTypeLemma DEF IInv
<1> USE DEF Goto, Return, Replied, IsOpen, browserVars
<1>1. CASE DirectOpen(k)
  <2>1. OnePlace'
    <3>1. MovesNone
      BY <1>1, ReturnFacts DEF MovesNone, DirectOpen
    <3>. QED  BY <3>1, MovesNoneLemma
  <2>2. TypeOK'
    BY <1>1 DEF DirectOpen, TypeOK
  <2>3. GetOK' /\ ClosingOK'
    <3>1. (link' = link \/ link' = Replied(k)) /\ job' = job /\ ctx' = ctx /\ resp' = resp
      BY <1>1 DEF DirectOpen
    <3>. QED  BY <3>1, RepliedLemma
  <2>4. WorkerOK'
    <3>1. /\ pc[k] \notin {"idle", "write"}
          /\ Goto(k, "direct write") /\ chan' = chan /\ item' = item /\ job' = job
          /\ \A j \in Conns : link'[j] = "none" => link[j] = "none"
      BY <1>1 DEF DirectOpen, ControlType
    <3>. QED  BY <3>1, MoveLemma
  <2>5. HeadOK'
    <3>1. /\ resp' = resp
          /\ \A j \in Conns : Writes(j)' => Writes(j) /\ chan'[j] = chan[j]
      BY <1>1 DEF DirectOpen, ControlType, Writes
    <3>. QED  BY <3>1, HeadLemma
  <2>. QED  BY <2>1, <2>2, <2>3, <2>4, <2>5 DEF IInv
<1>2. CASE DirectQueued(k)
  <2>1. OnePlace'
    <3>1. MovesNone
      BY <1>2, ReturnFacts DEF MovesNone, DirectQueued, Info
    <3>. QED  BY <3>1, MovesNoneLemma
  <2>2. TypeOK'
    <3>1. queue' \in Seq(Items)
      BY <1>2, PacketFacts, AppendFacts DEF DirectQueued, TypeOK, Info
    <3>. QED  BY <1>2, <3>1 DEF DirectQueued, TypeOK
  <2>3. GetOK' /\ ClosingOK'
    <3>1. (link' = link \/ link' = Replied(k)) /\ job' = job /\ ctx' = ctx /\ resp' = resp
      BY <1>2 DEF DirectQueued
    <3>. QED  BY <3>1, RepliedLemma
  <2>4. WorkerOK'
    <3>1. Return(k) /\ job' = job /\ \A j \in Conns : link'[j] = "none" => link[j] = "none"
      BY <1>2 DEF DirectQueued, ControlType
    <3>. QED  BY <3>1, ReturnLemma DEF TypeOK
  <2>5. HeadOK'
    <3>1. /\ resp' = resp
          /\ \A j \in Conns : Writes(j)' => Writes(j) /\ chan'[j] = chan[j]
      BY <1>2 DEF DirectQueued, ControlType, Writes
    <3>. QED  BY <3>1, HeadLemma
  <2>. QED  BY <2>1, <2>2, <2>3, <2>4, <2>5 DEF IInv
<1>3. CASE DirectWrite(k)
  <2>1. OnePlace'
    <3>1. MovesNone
      BY <1>3, ReturnFacts DEF MovesNone, DirectWrite, Info
    <3>. QED  BY <3>1, MovesNoneLemma
  <2>2. TypeOK'
    <3>1. heard' \subseteq Items /\ dropped' \subseteq Items
      BY <1>3, PacketFacts DEF DirectWrite, TypeOK, Info
    <3>. QED  BY <1>3, <3>1 DEF DirectWrite, TypeOK
  <2>3. GetOK'
    BY <1>3 DEF DirectWrite, ControlType, GetOK, WorkerOK
  <2>4. WorkerOK'
    <3>1. /\ pc[k] \notin {"idle", "write"}
          /\ Goto(k, "direct done") /\ chan' = chan /\ item' = item /\ job' = job
          /\ \A j \in Conns : link'[j] = "none" => link[j] = "none"
      BY <1>3 DEF DirectWrite, ControlType
    <3>. QED  BY <3>1, MoveLemma
  <2>5. HeadOK'
    <3>1. \A j \in Conns : Writes(j)' => Writes(j) /\ chan'[j] = chan[j]
      BY <1>3 DEF DirectWrite, ControlType, Writes
    <3>2. \A j \in Conns : Writes(j) => resp'[chan[j]] \in {resp[chan[j]], "spoiled"}
      BY <1>3 DEF DirectWrite, ControlType, HeadOK, WorkerOK, Writes
    <3>. QED  BY <3>1, <3>2 DEF HeadOK, Writes
  <2>6. ClosingOK'
    <3> SUFFICES ASSUME NEW i \in Conns, job'[i] = "GET", link'[i] = "closing"
                 PROVE  resp'[i] \in {"done", "spoiled"}
      BY DEF ClosingOK
    <3>. QED  BY <1>3 DEF DirectWrite, ControlType, HeadOK, GetOK, WorkerOK, ClosingOK
  <2>. QED  BY <2>1, <2>2, <2>3, <2>4, <2>5, <2>6 DEF IInv
<1>4. CASE DirectLost(k)
  <2>1. OnePlace'
    <3>1. MovesNone
      BY <1>4, ReturnFacts DEF MovesNone, DirectLost, Info
    <3>. QED  BY <3>1, MovesNoneLemma
  <2>2. TypeOK'
    <3>1. heard' \subseteq Items /\ dropped' \subseteq Items
      BY <1>4, PacketFacts DEF DirectLost, TypeOK, Info
    <3>. QED  BY <1>4, <3>1 DEF DirectLost, TypeOK
  <2>3. GetOK'
    BY <1>4 DEF DirectLost, ControlType, GetOK, WorkerOK
  <2>4. WorkerOK'
    <3>1. /\ pc[k] \notin {"idle", "write"}
          /\ Goto(k, "direct done") /\ chan' = chan /\ item' = item /\ job' = job
          /\ \A j \in Conns : link'[j] = "none" => link[j] = "none"
      BY <1>4 DEF DirectLost, ControlType
    <3>. QED  BY <3>1, MoveLemma
  <2>5. HeadOK'
    <3>1. /\ resp' = resp
          /\ \A j \in Conns : Writes(j)' => Writes(j) /\ chan'[j] = chan[j]
      BY <1>4 DEF DirectLost, ControlType, Writes
    <3>. QED  BY <3>1, HeadLemma
  <2>6. ClosingOK'
    <3> SUFFICES ASSUME NEW i \in Conns, job'[i] = "GET", link'[i] = "closing"
                 PROVE  resp'[i] \in {"done", "spoiled"}
      BY DEF ClosingOK
    <3>. QED  BY <1>4 DEF DirectLost, ControlType, HeadOK, GetOK, WorkerOK, ClosingOK
  <2>. QED  BY <2>1, <2>2, <2>3, <2>4, <2>5, <2>6 DEF IInv
<1>5. CASE DirectOnClosed(k)
  <2>1. OnePlace'
    <3>1. MovesNone
      BY <1>5, ReturnFacts DEF MovesNone, DirectOnClosed, Info, Requeued
    <3>. QED  BY <3>1, MovesNoneLemma
  <2>2. TypeOK'
    <3>1. queue' \in Seq(Items)
      BY <1>5, PacketFacts, AppendFacts DEF DirectOnClosed, TypeOK, Info, Requeued
    <3>. QED  BY <1>5, <3>1 DEF DirectOnClosed, TypeOK
  <2>3. GetOK' /\ ClosingOK'
    <3>1. (link' = link \/ link' = Replied(k)) /\ job' = job /\ ctx' = ctx /\ resp' = resp
      BY <1>5 DEF DirectOnClosed
    <3>. QED  BY <3>1, RepliedLemma
  <2>4. WorkerOK'
    <3>1. /\ pc[k] \notin {"idle", "write"}
          /\ Goto(k, "direct done") /\ chan' = chan /\ item' = item /\ job' = job
          /\ \A j \in Conns : link'[j] = "none" => link[j] = "none"
      BY <1>5 DEF DirectOnClosed, ControlType
    <3>. QED  BY <3>1, MoveLemma
  <2>5. HeadOK'
    <3>1. /\ resp' = resp
          /\ \A j \in Conns : Writes(j)' => Writes(j) /\ chan'[j] = chan[j]
      BY <1>5 DEF DirectOnClosed, ControlType, Writes
    <3>. QED  BY <3>1, HeadLemma
  <2>. QED  BY <2>1, <2>2, <2>3, <2>4, <2>5 DEF IInv
<1>6. CASE DirectDone(k)
  <2>1. OnePlace'
    <3>1. MovesNone
      BY <1>6, ReturnFacts DEF MovesNone, DirectDone
    <3>. QED  BY <3>1, MovesNoneLemma
  <2>2. TypeOK'
    BY <1>6 DEF DirectDone, TypeOK
  <2>3. GetOK' /\ ClosingOK'
    <3>1. (link' = link \/ link' = Replied(k)) /\ job' = job /\ ctx' = ctx /\ resp' = resp
      BY <1>6 DEF DirectDone
    <3>. QED  BY <3>1, RepliedLemma
  <2>4. WorkerOK'
    <3>1. Return(k) /\ job' = job /\ \A j \in Conns : link'[j] = "none" => link[j] = "none"
      BY <1>6 DEF DirectDone, ControlType
    <3>. QED  BY <3>1, ReturnLemma DEF TypeOK
  <2>5. HeadOK'
    <3>1. /\ resp' = resp
          /\ \A j \in Conns : Writes(j)' => Writes(j) /\ chan'[j] = chan[j]
      BY <1>6 DEF DirectDone, ControlType, Writes
    <3>. QED  BY <3>1, HeadLemma
  <2>. QED  BY <2>1, <2>2, <2>3, <2>4, <2>5 DEF IInv
<1>7. CASE Disconnect(k)
  <2>1. OnePlace'
    <3>1. MovesNone
      BY <1>7, ReturnFacts DEF MovesNone, Disconnect
    <3>. QED  BY <3>1, MovesNoneLemma
  <2>2. TypeOK'
    BY <1>7 DEF Disconnect, TypeOK
  <2>3. GetOK'
    BY <1>7 DEF Disconnect, ControlType, GetOK, WorkerOK
  <2>4. WorkerOK'
    <3>1. Return(k) /\ job' = job /\ \A j \in Conns : link'[j] = "none" => link[j] = "none"
      BY <1>7 DEF Disconnect, ControlType
    <3>. QED  BY <3>1, ReturnLemma DEF TypeOK
  <2>5. HeadOK'
    <3>1. /\ resp' = resp
          /\ \A j \in Conns : Writes(j)' => Writes(j) /\ chan'[j] = chan[j]
      BY <1>7 DEF Disconnect, ControlType, Writes
    <3>. QED  BY <3>1, HeadLemma
  <2>6. ClosingOK'
    <3> SUFFICES ASSUME NEW i \in Conns, job'[i] = "GET", link'[i] = "closing"
                 PROVE  resp'[i] \in {"done", "spoiled"}
      BY DEF ClosingOK
    <3>. QED  BY <1>7 DEF Disconnect, ControlType, HeadOK, GetOK, WorkerOK, ClosingOK
  <2>. QED  BY <2>1, <2>2, <2>3, <2>4, <2>5, <2>6 DEF IInv
<1>. QED  BY <1>1, <1>2, <1>3, <1>4, <1>5, <1>6, <1>7 DEF DirectStep

\* So do the requests of the browser and the ends of connections.
LEMMA BrowserLemma ==
    ASSUME IInv, NEW k \in Conns, Poll(k) \/ Close(k) \/ Break(k)
    PROVE  IInv'
<1>. TypeOK /\ OnePlace /\ GetOK /\ WorkerOK /\ HeadOK /\ ClosingOK /\ ControlType
  BY ControlTypeLemma DEF IInv
<1> USE DEF Goto, Return, Replied, IsOpen, browserVars
<1>1. CASE Poll(k)
  <2>1. OnePlace'
    <3>1. MovesNone
      BY <1>1, ReturnFacts DEF MovesNone, Poll
    <3>. QED  BY <3>1, MovesNoneLemma
  <2>2. TypeOK'
    BY <1>1 DEF Poll, TypeOK
  <2>3. GetOK'
    <3>1. /\ job'[k] = "GET" /\ link'[k] = "open" /\ ctx' = ctx /\ ctx \in Conns
          /\ \A j \in Conns \ {k} : job'[j] = job[j] /\ link'[j] = link[j]
      BY <1>1 DEF Poll, ControlType
    <3>. QED  BY <3>1 DEF GetOK
  <2>4. WorkerOK'
    <3>1. job'[k] = "GET" /\ \A j \in Conns : job[j] = "GET" => job'[j] = "GET"
      BY <1>1 DEF Poll, ControlType
    <3>2. /\ pc'[k] = "reconnect" /\ chan' = chan /\ item' = item
          /\ link'[k] # "none" /\ \A j \in Conns \ {k} : pc'[j] = pc[j] /\ link'[j] = link[j]
      BY <1>1 DEF Poll, ControlType
    <3>3. pc[k] # "write"
      BY <1>1 DEF Poll, WorkerOK
    <3>. QED  BY <3>1, <3>2, <3>3 DEF WorkerOK
  <2>5. HeadOK'
    <3>1. /\ resp' = resp
          /\ \A j \in Conns : Writes(j)' => Writes(j) /\ chan'[j] = chan[j]
      BY <1>1 DEF Poll, ControlType, Writes
    <3>. QED  BY <3>1, HeadLemma
  <2>6. ClosingOK'
    <3> SUFFICES ASSUME NEW i \in Conns, job'[i] = "GET", link'[i] = "closing"
                 PROVE  resp'[i] \in {"done", "spoiled"}
      BY DEF ClosingOK
    <3>. QED  BY <1>1 DEF Poll, ControlType, HeadOK, GetOK, WorkerOK, ClosingOK
  <2>. QED  BY <2>1, <2>2, <2>3, <2>4, <2>5, <2>6 DEF IInv
<1>2. CASE Close(k)
  <2>1. OnePlace'
    <3>1. MovesNone
      BY <1>2, ReturnFacts DEF MovesNone, Close
    <3>. QED  BY <3>1, MovesNoneLemma
  <2>2. TypeOK'
    BY <1>2 DEF Close, TypeOK
  <2>3. GetOK'
    BY <1>2 DEF Close, ControlType, GetOK, WorkerOK
  <2>4. WorkerOK'
    BY <1>2, PacketFacts DEF Close, TypeOK, GetOK, WorkerOK
  <2>5. HeadOK'
    <3>1. /\ resp' = resp
          /\ \A j \in Conns : Writes(j)' => Writes(j) /\ chan'[j] = chan[j]
      BY <1>2 DEF Close, ControlType, Writes
    <3>. QED  BY <3>1, HeadLemma
  <2>6. ClosingOK'
    <3> SUFFICES ASSUME NEW i \in Conns, job'[i] = "GET", link'[i] = "closing"
                 PROVE  resp'[i] \in {"done", "spoiled"}
      BY DEF ClosingOK
    <3>. QED  BY <1>2 DEF Close, ControlType, HeadOK, GetOK, WorkerOK, ClosingOK
  <2>. QED  BY <2>1, <2>2, <2>3, <2>4, <2>5, <2>6 DEF IInv
<1>3. CASE Break(k)
  <2>1. OnePlace'
    <3>1. MovesNone
      BY <1>3, ReturnFacts DEF MovesNone, Break
    <3>. QED  BY <3>1, MovesNoneLemma
  <2>2. TypeOK'
    BY <1>3 DEF Break, TypeOK
  <2>3. GetOK'
    BY <1>3 DEF Break, ControlType, GetOK, WorkerOK
  <2>4. WorkerOK'
    BY <1>3, PacketFacts DEF Break, TypeOK, GetOK, WorkerOK
  <2>5. HeadOK'
    <3>1. /\ resp' = resp
          /\ \A j \in Conns : Writes(j)' => Writes(j) /\ chan'[j] = chan[j]
      BY <1>3 DEF Break, ControlType, Writes
    <3>. QED  BY <3>1, HeadLemma
  <2>6. ClosingOK'
    <3> SUFFICES ASSUME NEW i \in Conns, job'[i] = "GET", link'[i] = "closing"
                 PROVE  resp'[i] \in {"done", "spoiled"}
      BY DEF ClosingOK
    <3>. QED  BY <1>3 DEF Break, ControlType, HeadOK, GetOK, WorkerOK, ClosingOK
  <2>. QED  BY <2>1, <2>2, <2>3, <2>4, <2>5, <2>6 DEF IInv
<1>. QED  BY <1>1, <1>2, <1>3

\* So does a POST.
LEMMA PostLemma ==
    ASSUME IInv, NEW k \in Conns, NEW p \in Posts, Post(k, p)
    PROVE  IInv'
<1>. TypeOK /\ OnePlace /\ GetOK /\ WorkerOK /\ HeadOK /\ ClosingOK /\ ControlType
  BY ControlTypeLemma DEF IInv
<1> USE DEF Post, Goto, browserVars
<1>1. p \in PostJobs /\ p # "GET"
  BY PostsAssumption DEF PostJobs
<1>2. /\ job' = [job EXCEPT ![k] = p] /\ link' = [link EXCEPT ![k] = "open"]
      /\ link[k] = "none" /\ job[k] # "GET" /\ ctx # k
      /\ resp' = resp /\ chan' = chan /\ item' = item /\ ctx' = ctx
  BY DEF GetOK
<1>3. pc'[k] \in {"beat", "disconnect", "direct"} /\ \A j \in Conns \ {k} : pc'[j] = pc[j]
  BY DEF ControlType
<1>4. OnePlace'
  <2>1. MovesNone  BY DEF MovesNone
  <2>. QED  BY <2>1, MovesNoneLemma
<1>5. TypeOK'
  BY <1>1 DEF TypeOK
<1>6. GetOK'
  BY <1>1, <1>2 DEF GetOK, ControlType
<1>7. WorkerOK'
  <2>1. \A j \in Conns : job[j] = "GET" => job'[j] = "GET"
    BY <1>2 DEF ControlType
  <2>2. link'[k] # "none" /\ \A j \in Conns \ {k} : link'[j] = link[j]
    BY <1>2 DEF ControlType
  <2>3. item[k] = None
    BY <1>2 DEF WorkerOK
  <2>. QED  BY <1>2, <1>3, <2>1, <2>2, <2>3 DEF WorkerOK
<1>8. HeadOK'
  <2>1. \A j \in Conns : Writes(j)' => Writes(j) /\ chan'[j] = chan[j]
    BY <1>2, <1>3 DEF Writes
  <2>. QED  BY <1>2, <2>1, HeadLemma
<1>9. ClosingOK'
  BY <1>1, <1>2 DEF ClosingOK, ControlType
<1>. QED  BY <1>4, <1>5, <1>6, <1>7, <1>8, <1>9 DEF IInv

\* A send touches the queue alone.
LEMMA SendControl == ASSUME IInv, Send PROVE IInv'
<1>. TypeOK /\ OnePlace /\ GetOK /\ WorkerOK /\ HeadOK /\ ClosingOK
  BY DEF IInv
<1> USE DEF Send, connVars, browserVars
<1>1. TypeOK'
  <2>1. sent' \in 0..MaxMsg /\ sent + 1 \in Messages
    <3>1. sent \in 0..MaxMsg /\ sent < MaxMsg /\ sent' = sent + 1  BY DEF TypeOK
    <3>. QED  BY <3>1, MaxMsgAssumption DEF Messages
  <2>2. queue' \in Seq(Items)
    BY <2>1, PacketFacts, AppendFacts DEF TypeOK
  <2>. QED  BY <2>1, <2>2 DEF TypeOK
<1>2. OnePlace'
  BY SendLemma
<1>3. GetOK' /\ WorkerOK' /\ HeadOK' /\ ClosingOK'
  BY DEF GetOK, WorkerOK, HeadOK, ClosingOK
<1>. QED  BY <1>1, <1>2, <1>3 DEF IInv

\* The invariant is inductive.
THEOREM Inductive == Spec => []IInv
<1>1. IInv /\ [Next]_vars => IInv'
  <2> SUFFICES ASSUME IInv, [Next]_vars PROVE IInv'  OBVIOUS
  <2>1. CASE Send  BY <2>1, SendControl
  <2>2. ASSUME NEW k \in Conns, Poll(k) \/ BeatStep(k) \/ DirectStep(k) \/ Close(k) \/ Break(k)
        PROVE  IInv'
    BY <2>2, BeatLemma, DirectLemma, BrowserLemma
  <2>3. ASSUME NEW k \in Conns, NEW p \in Posts, Post(k, p) PROVE IInv'
    BY <2>3, PostLemma
  <2>4. CASE UNCHANGED vars
    <3> USE <2>4 DEF IInv, vars, connVars, browserVars
    <3>1. TypeOK'  BY DEF TypeOK
    <3>2. OnePlace'  BY DEF OnePlace, OnceIn, Queued, Held, Given
    <3>3. GetOK' /\ WorkerOK' /\ HeadOK' /\ ClosingOK'
      BY DEF GetOK, WorkerOK, HeadOK, ClosingOK
    <3>. QED  BY <3>1, <3>2, <3>3
  <2>. QED  BY <2>1, <2>2, <2>3, <2>4 DEF Next
<1>. QED  BY InitLemma, <1>1, PTL DEF Spec

\* In every reachable state each field has a value of its type, and a worker
\* has a connection and a message exactly where its code does.
THEOREM TypeCorrect == Spec => []TypeOK
<1>1. IInv => TypeOK  BY DEF IInv
<1>. QED  BY Inductive, <1>1, PTL

\* No interleaving of the workers duplicates a message, or forgets one: it is
\* in LinkedBlockingQueue, in one worker's hands, received, or dropped.
THEOREM MessageInOnePlace == Spec => []OnePlace
<1>1. IInv => OnePlace  BY DEF IInv
<1>. QED  BY Inductive, <1>1, PTL

-----------------------------------------------------------------------------
(* The polling client implements the mailbox. *)

\* A step that gives no message to the browser and drops none.
Quiet == sent' = sent /\ received' = received /\ dropped' \cap Messages = dropped \cap Messages

\* A poll that was cut short remains so: spoiled is for ever, and nothing is
\* written to a connection that is closed.
LEMMA CutLemma == ASSUME IInv, Next, CutShort PROVE CutShort'
<1>. ControlType /\ GetOK /\ WorkerOK  BY ControlTypeLemma DEF IInv
<1>1. PICK c \in Conns : \/ resp[c] = "spoiled"
                         \/ job[c] = "GET" /\ link[c] = "closed" /\ resp[c] # "done"
  BY DEF CutShort
<1> USE DEF Goto, Return, Replied, IsOpen, connVars, browserVars
<1> DEFINE Q == \/ resp[c] = "spoiled"
                \/ job[c] = "GET" /\ link[c] = "closed" /\ resp[c] # "done"
<1>2. ASSUME NEW k \in Conns, BeatStep(k) PROVE Q'
  <2>1. CASE Reconnect(k)
    BY <1>1, <2>1 DEF Reconnect, ControlType
  <2>2. CASE BeatNotOpen(k)
    BY <1>1, <2>2 DEF BeatNotOpen, ControlType
  <2>3. CASE BeatOpen(k)
    BY <1>1, <2>3 DEF BeatOpen, ControlType
  <2>4. CASE BeatOnClosed(k)
    BY <1>1, <2>4 DEF BeatOnClosed, ControlType
  <2>5. CASE BeatHead(k)
    BY <1>1, <2>5 DEF BeatHead, ControlType
  <2>6. CASE Take(k)
    BY <1>1, <2>6 DEF Take, ControlType
  <2>7. CASE TimeOut(k)
    BY <1>1, <2>7 DEF TimeOut, ControlType
  <2>8. CASE Body(k)
    BY <1>1, <2>8 DEF Body, ControlType
  <2>9. CASE BeatShut(k)
    BY <1>1, <2>9 DEF BeatShut, ControlType
  <2>. QED  BY <1>2, <2>1, <2>2, <2>3, <2>4, <2>5, <2>6, <2>7, <2>8, <2>9 DEF BeatStep
<1>3. ASSUME NEW k \in Conns, DirectStep(k) PROVE Q'
  <2>1. CASE DirectOpen(k)
    BY <1>1, <2>1 DEF DirectOpen, ControlType
  <2>2. CASE DirectQueued(k)
    BY <1>1, <2>2 DEF DirectQueued, ControlType
  <2>3. CASE DirectWrite(k)
    BY <1>1, <2>3 DEF DirectWrite, ControlType
  <2>4. CASE DirectLost(k)
    BY <1>1, <2>4 DEF DirectLost, ControlType
  <2>5. CASE DirectOnClosed(k)
    BY <1>1, <2>5 DEF DirectOnClosed, ControlType
  <2>6. CASE DirectDone(k)
    BY <1>1, <2>6 DEF DirectDone, ControlType
  <2>7. CASE Disconnect(k)
    BY <1>1, <2>7 DEF Disconnect, ControlType
  <2>. QED  BY <1>3, <2>1, <2>2, <2>3, <2>4, <2>5, <2>6, <2>7 DEF DirectStep
<1>4. ASSUME NEW k \in Conns, Poll(k) \/ Close(k) \/ Break(k) PROVE Q'
  <2>1. CASE Poll(k)
    BY <1>1, <2>1 DEF Poll, ControlType
  <2>2. CASE Close(k)
    BY <1>1, <2>2 DEF Close, ControlType
  <2>3. CASE Break(k)
    BY <1>1, <2>3 DEF Break, ControlType
  <2>. QED  BY <1>4, <2>1, <2>2, <2>3
<1>5. ASSUME NEW k \in Conns, NEW p \in Posts, Post(k, p) PROVE Q'
  BY <1>1, <1>5 DEF Post, ControlType, GetOK
<1>6. ASSUME Send PROVE Q'
  <2>1. job' = job /\ link' = link /\ resp' = resp  BY <1>6 DEF Send
  <2>. QED  BY <1>1, <2>1
<1>7. Q'
  BY <1>2, <1>3, <1>4, <1>5, <1>6 DEF Next
<1>. QED  BY <1>7 DEF CutShort

\* The first state is the mailbox's.
LEMMA MailInit == Init => Mail!Init
<1> SUFFICES ASSUME Init PROVE Mail!Init  OBVIOUS
<1>1. ~CutShort  BY DEF Init, CutShort
<1>2. sent = 0 /\ received = <<>> /\ dropped \cap Messages = {}  BY DEF Init
<1>. QED  BY <1>1, <1>2 DEF Mail!Init

\* A worker that has taken a message may hand it over, or give it up if its
\* poll was cut short: the message is still pending.
LEMMA BodyMail ==
    ASSUME IInv, NEW k \in Conns, Body(k), CutShort => CutShort'
    PROVE  \/ Quiet
           \/ \E m \in Mail!Pending : Mail!Deliver(m) \/ Mail!Lose(m)
<1> DEFINE c == chan[k]
           x == item[k]
<1>. TypeOK /\ OnePlace /\ GetOK /\ WorkerOK /\ HeadOK /\ ClosingOK /\ ControlType
  BY ControlTypeLemma DEF IInv
<1>1. /\ pc[k] = "write" /\ sent' = sent /\ job' = job /\ c \in Conns /\ job[c] = "GET"
      /\ Hears(c, x)
  BY DEF Body, WorkerOK
<1>2. CASE x \notin Messages
  BY <1>1, <1>2 DEF Hears, Quiet
<1>3. CASE x \in Messages
  <2>1. x \in Mail!Pending
    <3>1. x \in Held  BY DEF Held
    <3>2. x \in 1..sent /\ x \notin Given \cup dropped  BY <1>3, <3>1 DEF OnePlace
    <3>. QED  BY <3>2 DEF Mail!Pending, Mail!Given, Given
  <2>2. x # Noop  BY <1>3, PacketFacts
  <2>3. CASE link[c] = "open" /\ resp[c] = "head"
    <3>1. received' = Append(received, x) /\ dropped' = dropped
      BY <1>1, <1>3, <2>3 DEF Hears
    <3>2. /\ resp' = [resp EXCEPT ![c] = "done"]
          /\ link' = [Replied(k) EXCEPT ![c] = "closing"]
      BY <1>1, <2>3 DEF Body, Replied, IsOpen, ControlType
    <3>3. \A j \in Conns : job[j] = "GET" /\ j # c => link'[j] = link[j]
      BY <1>1, <3>2 DEF Replied, ControlType
    <3>4. link'[c] = "closing" /\ resp'[c] = "done" /\ \A j \in Conns \ {c} : resp'[j] = resp[j]
      BY <1>1, <3>2 DEF Replied, ControlType
    <3>5. CutShort' = CutShort
      BY <1>1, <2>3, <3>3, <3>4 DEF CutShort
    <3>. QED  BY <1>1, <2>1, <3>1, <3>5 DEF Mail!Deliver
  <2>4. CASE ~(link[c] = "open" /\ resp[c] = "head")
    <3>1. received' = received /\ dropped' = dropped \cup {x}
      BY <1>1, <2>2, <2>4 DEF Hears
    <3>2. resp[c] = "spoiled" \/ (link[c] = "closed" /\ resp[c] # "done")
      BY <1>1, <2>4 DEF HeadOK, GetOK, ClosingOK, ControlType
    <3>3. CutShort
      BY <1>1, <3>2 DEF CutShort
    <3>4. CutShort' = CutShort /\ (dropped \cap Messages)' = (dropped \cap Messages) \cup {x}
      BY <1>3, <3>1, <3>3
    <3>. QED  BY <1>1, <2>1, <3>1, <3>3, <3>4 DEF Mail!Lose
  <2>. QED  BY <2>3, <2>4
<1>. QED  BY <1>2, <1>3

\* The other steps move no message between queue, browser and loss.
LEMMA QuietLemma ==
    ASSUME IInv, Next, ~Send, \A k \in Conns : ~Body(k)
    PROVE  Quiet
<1> USE PacketFacts DEF Quiet, Goto, Return, browserVars
<1>1. ASSUME NEW k \in Conns, BeatStep(k) PROVE Quiet
  BY <1>1 DEF BeatStep, Reconnect, BeatNotOpen, BeatOpen, BeatOnClosed, BeatShut, BeatHead,
              Take, TimeOut
<1>2. ASSUME NEW k \in Conns, DirectStep(k) PROVE Quiet
  BY <1>2 DEF DirectStep, DirectOpen, DirectQueued, DirectWrite, DirectLost,
              DirectOnClosed, DirectDone, Disconnect, Info
<1>3. ASSUME NEW k \in Conns, Poll(k) \/ Close(k) \/ Break(k) PROVE Quiet
  BY <1>3 DEF Poll, Close, Break
<1>4. ASSUME NEW k \in Conns, NEW p \in Posts, Post(k, p) PROVE Quiet
  BY <1>4 DEF Post
<1>. QED  BY <1>1, <1>2, <1>3, <1>4 DEF Next

\* Every step of the workers is one of the mailbox, or none.
LEMMA MailStep ==
    ASSUME IInv, [Next]_vars
    PROVE  [Mail!Next]_(Mail!mailVars)
<1>1. CASE UNCHANGED vars
  BY <1>1 DEF vars, connVars, browserVars, Mail!mailVars, CutShort
<1>2. ASSUME Next PROVE [Mail!Next]_(Mail!mailVars)
  <2>1. CutShort => CutShort'
    BY <1>2, CutLemma
  <2>2. CASE Send
    <3>1. CutShort' = CutShort  BY <2>2 DEF Send, CutShort, connVars
    <3>2. sent' = sent + 1 /\ received' = received /\ dropped' = dropped
      BY <2>2 DEF Send, browserVars
    <3>. QED  BY <3>1, <3>2 DEF Mail!Next, Mail!Accept
  <2>3. CASE Quiet
    <3>1. CASE ~CutShort'
      <4>1. CutShort' = CutShort  BY <2>1, <3>1 DEF CutShort
      <4>. QED  BY <2>3, <4>1 DEF Quiet, Mail!mailVars
    <3>2. CASE CutShort'
      <4>1. CutShort' = TRUE  BY <3>2 DEF CutShort
      <4>. QED  BY <2>3, <4>1 DEF Quiet, Mail!Next, Mail!Cut
    <3>. QED  BY <3>1, <3>2
  <2>4. ASSUME NEW k \in Conns, Body(k) PROVE [Mail!Next]_(Mail!mailVars)
    BY <2>1, <2>3, <2>4, BodyMail DEF Mail!Next
  <2>. QED  BY <1>2, <2>2, <2>3, <2>4, QuietLemma
<1>. QED  BY <1>1, <1>2

\* The polling client keeps the promise of IOClient.send: a message reaches the
\* browser at most once, and is given up only when a poll was cut short.
THEOREM PollDeliversMail == Spec => DeliversMail
BY Inductive, MailInit, MailStep, PTL DEF Spec, DeliversMail, Mail!Spec

=============================================================================
