--------------------------- MODULE PollOrderProofs ---------------------------
(***************************************************************************)
(* A browser that polls on one connection at a time receives messages in   *)
(* the order in which they were sent: for any number of polls, messages    *)
(* and broken connections, and for both transports.                        *)
(*                                                                         *)
(* A poll whose connection broke leaves its worker waiting at the queue,   *)
(* so two workers may hold messages, and the one that took the later       *)
(* message may write first.  Order is kept because only one of them can    *)
(* still be heard: the browser has one connection (OnePoll), and of two    *)
(* workers that write to it one spoiled the response of the other (HeadOK).*)
(***************************************************************************)
EXTENDS PollDeliveryProofs

\* The browser waits on one connection.
OnePoll == \A j, k \in Waiting : j = k

\* Messages are queued in the order of LinkedBlockingQueue.offer ...
QueueSorted ==
    \A i, j \in DOMAIN queue :
        i < j /\ {queue[i], queue[j]} \subseteq Messages => queue[i] < queue[j]

\* ... and what is queued was sent after what was taken from the queue.
QueueLater ==
    \A m \in Queued \cap Messages, n \in (Held \cup Given) \cap Messages : n < m

\* Worker k is about to write a message the browser will read.
Live(k) ==
    /\ pc[k] = "write" /\ item[k] \in Messages
    /\ link[chan[k]] = "open" /\ resp[chan[k]] = "head"

\* That message was sent after all the browser has.
LiveLast == \A k \in Conns : Live(k) => \A n \in Given : n < item[k]

OrderInv == OnePoll /\ QueueSorted /\ QueueLater /\ LiveLast /\ InOrder

LEMMA OrderInit == Init => OrderInv
<1> SUFFICES ASSUME Init PROVE OrderInv  OBVIOUS
<1> USE DEF Init
<1>1. OnePoll /\ QueueSorted /\ InOrder
  BY DEF OnePoll, Waiting, QueueSorted, InOrder
<1>2. QueueLater /\ LiveLast
  BY DEF QueueLater, Queued, LiveLast, Live
<1>. QED  BY <1>1, <1>2 DEF OrderInv

-----------------------------------------------------------------------------
(* The connections. *)

\* No step makes the browser wait on a second connection, if polls do not overlap.
LEMMA OnePollLemma ==
    ASSUME IInv, OnePoll, ~Overlap, [Next]_vars
    PROVE  OnePoll'
<1>. ControlType /\ GetOK /\ WorkerOK
  BY ControlTypeLemma DEF IInv
<1> USE DEF Goto, Return, Replied, IsOpen, browserVars
<1>1. ASSUME NEW k \in Conns, Poll(k) PROVE OnePoll'
  <2>1. Waiting = {} /\ Waiting' \subseteq {k}
    BY <1>1 DEF Poll, Waiting, ControlType
  <2>. QED  BY <2>1 DEF OnePoll
<1>2. ASSUME Waiting' \subseteq Waiting PROVE OnePoll'
  BY <1>2 DEF OnePoll
<1>3. ASSUME NEW k \in Conns, BeatStep(k) PROVE Waiting' \subseteq Waiting
  <2>1. ASSUME job' = job, NEW c \in Conns, NEW w \in {"open", "closing"}, link[c] = w,
               link' = [Replied(k) EXCEPT ![c] = "closing"] \/ link' = Replied(k) \/ link' = link
        PROVE  Waiting' \subseteq Waiting
    BY <2>1 DEF Waiting, ControlType
  <2>2. CASE Body(k)
    BY <2>2 DEF Body, Waiting, ControlType, WorkerOK
  <2>3. CASE ~Body(k)
    BY <1>3, <2>3 DEF BeatStep, Reconnect, BeatNotOpen, BeatOpen, BeatOnClosed, BeatShut,
                      BeatHead, Take, TimeOut, Waiting, ControlType
  <2>. QED  BY <2>2, <2>3
<1>4. ASSUME NEW k \in Conns, DirectStep(k) PROVE Waiting' \subseteq Waiting
  BY <1>4 DEF DirectStep, DirectOpen, DirectQueued, DirectWrite, DirectLost,
              DirectOnClosed, DirectDone, Disconnect, Waiting, ControlType
<1>5. ASSUME NEW k \in Conns, Close(k) \/ Break(k) PROVE Waiting' \subseteq Waiting
  BY <1>5 DEF Close, Break, Waiting, ControlType
<1>6. ASSUME NEW k \in Conns, NEW p \in Posts, Post(k, p) PROVE Waiting' \subseteq Waiting
  <2>1. p # "GET"  BY PostsAssumption DEF PostJobs
  <2>. QED  BY <1>6, <2>1 DEF Post, Waiting, ControlType
<1>7. Send \/ UNCHANGED vars => Waiting' \subseteq Waiting
  BY DEF Send, vars, connVars, Waiting
<1>. QED  BY <1>1, <1>2, <1>3, <1>4, <1>5, <1>6, <1>7 DEF Next

\* Only queue.poll gives a worker something the browser may hear, and of the
\* workers that have it at most one is heard.
LEMMA LiveLemma ==
    ASSUME IInv, Next, NEW j \in Conns, Live(j)', ~Take(j)
    PROVE  Live(j) /\ item'[j] = item[j]
<1>. ControlType /\ GetOK /\ WorkerOK /\ HeadOK /\ TypeOK
  BY ControlTypeLemma DEF IInv
<1>. item \in [Conns -> Items \cup {Noop, None}]
  BY DEF TypeOK
<1> USE DEF Goto, Return, Replied, IsOpen, browserVars, Live
\* A step that leaves worker j alone, and opens no connection and no response.
<1>1. ASSUME pc'[j] = pc[j], item'[j] = item[j], chan'[j] = chan[j],
             \A c \in Conns : job[c] = "GET" /\ link'[c] = "open" => link[c] = "open",
             \A c \in Conns : resp'[c] = "head" => resp[c] = "head"
      PROVE  Live(j) /\ item'[j] = item[j]
  BY <1>1 DEF WorkerOK
<1>2. ASSUME NEW k \in Conns, BeatStep(k) PROVE Live(j) /\ item'[j] = item[j]
  <2>1. CASE Body(k)
    BY <2>1 DEF Body, ControlType, WorkerOK, HeadOK
  <2>2. CASE BeatHead(k)
    BY <2>2 DEF BeatHead, ControlType, WorkerOK, HeadOK
  <2>3. CASE Take(k)
    BY <2>3 DEF Take, ControlType
  <2>4. CASE TimeOut(k)
    BY <2>4, PacketFacts DEF TimeOut, ControlType
  <2>5. CASE Reconnect(k) \/ BeatNotOpen(k) \/ BeatOpen(k) \/ BeatOnClosed(k) \/ BeatShut(k)
    <3> USE <2>5 DEF Reconnect, BeatNotOpen, BeatOpen, BeatOnClosed, BeatShut, ControlType
    <3>1. j # k
      OBVIOUS
    <3>2. pc'[j] = pc[j] /\ item'[j] = item[j] /\ chan'[j] = chan[j] /\ resp' = resp
      BY <3>1
    <3>3. \A c \in Conns : link'[c] = "open" => link[c] = "open"
      OBVIOUS
    <3>. QED  BY <1>1, <3>2, <3>3
  <2>. QED  BY <1>2, <2>1, <2>2, <2>3, <2>4, <2>5 DEF BeatStep
<1>3. ASSUME NEW k \in Conns, DirectStep(k) PROVE Live(j) /\ item'[j] = item[j]
  <2>1. j # k
    BY <1>3 DEF DirectStep, DirectOpen, DirectQueued, DirectWrite, DirectLost,
                DirectOnClosed, DirectDone, Disconnect, ControlType
  <2>2. pc'[j] = pc[j] /\ item'[j] = item[j] /\ chan'[j] = chan[j]
    BY <1>3, <2>1 DEF DirectStep, DirectOpen, DirectQueued, DirectWrite, DirectLost,
                DirectOnClosed, DirectDone, Disconnect, ControlType
  <2>3. CASE DirectWrite(k)
    <3>1. \A c \in Conns : link'[c] = "open" => link[c] = "open"
      BY <2>3 DEF DirectWrite, ControlType
    <3>2. \A c \in Conns : resp'[c] = "head" => resp[c] = "head"
      BY <2>3 DEF DirectWrite, ControlType
    <3>. QED  BY <1>1, <2>2, <3>1, <3>2
  <2>4. CASE DirectOpen(k) \/ DirectQueued(k) \/ DirectLost(k)
    <3>1. /\ \A c \in Conns : link'[c] = "open" => link[c] = "open"
          /\ \A c \in Conns : resp'[c] = "head" => resp[c] = "head"
      BY <2>4 DEF DirectOpen, DirectQueued, DirectLost, ControlType
    <3>. QED  BY <1>1, <2>2, <3>1
  <2>5. CASE DirectOnClosed(k) \/ DirectDone(k) \/ Disconnect(k)
    <3>1. /\ \A c \in Conns : link'[c] = "open" => link[c] = "open"
          /\ \A c \in Conns : resp'[c] = "head" => resp[c] = "head"
      BY <2>5 DEF DirectOnClosed, DirectDone, Disconnect, ControlType
    <3>. QED  BY <1>1, <2>2, <3>1
  <2>. QED  BY <1>3, <2>3, <2>4, <2>5 DEF DirectStep
<1>4. ASSUME NEW k \in Conns, NEW p \in Posts, Post(k, p)
      PROVE  Live(j) /\ item'[j] = item[j]
  <2> USE <1>4 DEF Post, ControlType
  <2>1. j # k
    OBVIOUS
  <2>2. /\ pc'[j] = pc[j] /\ item'[j] = item[j] /\ chan'[j] = chan[j] /\ resp' = resp
        /\ job[k] # "GET" /\ \A c \in Conns \ {k} : link'[c] = link[c]
    BY <2>1 DEF GetOK
  <2>. QED  BY <1>1, <2>2
<1>5. ASSUME NEW k \in Conns, Poll(k) \/ Close(k) \/ Break(k)
      PROVE  Live(j) /\ item'[j] = item[j]
  <2>1. CASE Poll(k)
    <3> USE <2>1 DEF Poll, ControlType
    <3>1. j # k
      OBVIOUS
    <3>2. /\ pc'[j] = pc[j] /\ item'[j] = item[j] /\ chan'[j] = chan[j] /\ resp' = resp
          /\ job[k] # "GET" /\ \A c \in Conns \ {k} : link'[c] = link[c]
      BY <3>1 DEF GetOK
    <3>. QED  BY <1>1, <3>2
  <2>2. CASE Close(k) \/ Break(k)
    <3>1. /\ pc' = pc /\ item' = item /\ chan' = chan /\ resp' = resp
          /\ \A c \in Conns : link'[c] = "open" => link[c] = "open"
      BY <2>2 DEF Close, Break, ControlType
    <3>. QED  BY <1>1, <3>1
  <2>. QED  BY <1>5, <2>1, <2>2
<1>6. CASE Send
  BY <1>6 DEF Send, connVars
<1>. QED  BY <1>2, <1>3, <1>4, <1>5, <1>6 DEF Next

-----------------------------------------------------------------------------
(* The order of the messages. *)

\* The part of the invariant that is about messages.
Ordered == QueueSorted /\ QueueLater /\ LiveLast /\ InOrder

\* A worker without a message, a browser or a timer changes no order.
LEMMA MovesNoneOrder ==
    ASSUME IInv, OrderInv, Next, MovesNone, \A k \in Conns : ~Take(k)
    PROVE  Ordered'
<1> USE PacketFacts
<1>1. QueueSorted' /\ Queued' \cap Messages = Queued \cap Messages
  <2>1. CASE queue' = queue
    BY <2>1 DEF OrderInv, QueueSorted, Queued
  <2>2. ASSUME NEW x \in {Hello, Endpoint, Wrapped}, queue' = Append(queue, x)
        PROVE  QueueSorted' /\ Queued' \cap Messages = Queued \cap Messages
    <3>1. queue \in Seq(Items) /\ x \in Items /\ x \notin Messages
      BY DEF IInv, TypeOK
    <3>. QED  BY <2>2, <3>1, AppendFacts DEF OrderInv, QueueSorted, Queued
  <2>. QED  BY <2>1, <2>2 DEF MovesNone
<1>2. Held' = Held /\ Given' = Given /\ received' = received
  BY DEF MovesNone, Held, Given
<1>3. QueueLater'
  BY <1>1, <1>2 DEF OrderInv, QueueLater
<1>4. LiveLast'
  BY <1>2, LiveLemma DEF OrderInv, LiveLast
<1>5. InOrder'
  BY <1>2 DEF OrderInv, InOrder
<1>. QED  BY <1>1, <1>3, <1>4, <1>5 DEF Ordered

\* What is queued is a message sent last of all.
LEMMA SendOrder == ASSUME IInv, OrderInv, Send PROVE Ordered'
<1>. queue \in Seq(Items) /\ sent \in 0..MaxMsg /\ sent < MaxMsg /\ OnePlace
  BY DEF IInv, TypeOK, Send
<1>1. /\ sent + 1 \in Messages /\ sent + 1 \in Items
      /\ \A m \in (Queued \cup Held \cup Given) \cap Messages : m < sent + 1 /\ m \in Nat
  BY MaxMsgAssumption, PacketFacts DEF Messages, OnePlace
<1>2. queue' = Append(queue, sent + 1) /\ Queued' = Queued \cup {sent + 1}
  BY <1>1, ElementsAppended DEF Send, Queued
<1>3. Held' = Held /\ Given' = Given /\ received' = received
  BY DEF Send, connVars, browserVars, Held, Given
<1>4. QueueSorted'
  <2> SUFFICES ASSUME NEW i \in DOMAIN queue', NEW j \in DOMAIN queue', i < j,
                      queue'[i] \in Messages, queue'[j] \in Messages
               PROVE  queue'[i] < queue'[j]
    BY DEF QueueSorted
  <2>1. i \in DOMAIN queue /\ queue'[i] = queue[i]
    BY <1>1, <1>2
  <2>2. CASE j \in DOMAIN queue
    BY <1>1, <1>2, <2>1, <2>2 DEF OrderInv, QueueSorted
  <2>3. CASE j \notin DOMAIN queue
    <3>1. queue'[j] = sent + 1  BY <1>1, <1>2, <2>3
    <3>. QED  BY <1>1, <2>1, <3>1 DEF Queued
  <2>. QED  BY <2>2, <2>3
<1>5. QueueLater'
  BY <1>1, <1>2, <1>3 DEF OrderInv, QueueLater
<1>6. LiveLast' /\ InOrder'
  BY <1>3 DEF Send, connVars, OrderInv, LiveLast, Live, InOrder
<1>. QED  BY <1>4, <1>5, <1>6 DEF Ordered

\* What a worker takes was sent after all that was taken before.
LEMMA TakeOrder == ASSUME IInv, OrderInv, Next, NEW k \in Conns, Take(k) PROVE Ordered'
<1>1. queue \in Seq(Items) /\ queue # <<>> /\ queue' = Tail(queue) /\ received' = received
  BY DEF IInv, TypeOK, Take, browserVars
<1>2. item' = [item EXCEPT ![k] = Head(queue)] /\ item \in [Conns -> Items \cup {Noop, None}]
  BY DEF IInv, TypeOK, Take
<1>3. Queued = Queued' \cup {Head(queue)}
  BY <1>1, ElementsTaken DEF Queued
<1>4. Held' \subseteq Held \cup {Head(queue)} /\ Given' = Given /\ Given \subseteq Messages
  <2>1. received \in Seq(Messages)  BY DEF IInv, TypeOK
  <2>2. Given \subseteq Messages  BY <2>1 DEF Given
  <2>3. Held' \subseteq Held \cup {Head(queue)}  BY <1>2 DEF Held
  <2>. QED  BY <1>1, <2>2, <2>3 DEF Given
<1>5. /\ 1 \in DOMAIN queue /\ queue[1] = Head(queue)
      /\ \A i \in DOMAIN Tail(queue) : /\ i \in Nat /\ i + 1 \in DOMAIN queue
                                       /\ Tail(queue)[i] = queue[i + 1] /\ 1 < i + 1
  <2>1. \A i \in DOMAIN Tail(queue) : i \in Nat /\ i > 0
    BY <1>1
  <2>. QED  BY <1>1, <2>1, TailFacts
<1>6. QueueSorted'
  <2> SUFFICES ASSUME NEW i \in DOMAIN Tail(queue), NEW j \in DOMAIN Tail(queue), i < j,
                      {Tail(queue)[i], Tail(queue)[j]} \subseteq Messages
               PROVE  Tail(queue)[i] < Tail(queue)[j]
    BY <1>1 DEF QueueSorted
  <2>1. i + 1 < j + 1  BY <1>5
  <2>. QED  BY <1>5, <2>1 DEF OrderInv, QueueSorted
<1>7. \A m \in Queued' \cap Messages : Head(queue) \in Messages => Head(queue) < m
  BY <1>1, <1>5 DEF OrderInv, QueueSorted, Queued
<1>8. QueueLater'
  BY <1>3, <1>4, <1>7 DEF OrderInv, QueueLater
<1>9. LiveLast'
  <2> SUFFICES ASSUME NEW j \in Conns, Live(j)', NEW n \in Given PROVE n < item'[j]
    BY <1>4 DEF LiveLast
  <2>1. CASE j = k
    BY <1>2, <1>3, <1>4, <2>1 DEF Live, OrderInv, QueueLater
  <2>2. CASE j # k
    <3>1. ~Take(j)
      BY <2>2 DEF IInv, TypeOK, Take, Goto
    <3>. QED  BY <3>1, LiveLemma DEF OrderInv, LiveLast
  <2>. QED  BY <2>1, <2>2
<1>10. InOrder'
  BY <1>1 DEF OrderInv, InOrder
<1>. QED  BY <1>6, <1>8, <1>9, <1>10 DEF Ordered

\* A poll that timed out takes no message.
LEMMA NoopOrder == ASSUME IInv, OrderInv, Next, NEW k \in Conns, TimeOut(k) PROVE Ordered'
<1>. /\ item \in [Conns -> Items \cup {Noop, None}]
     /\ received' = received /\ queue' = queue /\ item' = [item EXCEPT ![k] = Noop]
  BY DEF IInv, TypeOK, TimeOut, browserVars
<1>1. Queued' = Queued /\ Given' = Given /\ Held' \cap Messages \subseteq Held
  BY PacketFacts DEF Queued, Given, Held
<1>2. QueueSorted' /\ QueueLater' /\ InOrder'
  BY <1>1 DEF OrderInv, QueueSorted, QueueLater, InOrder
<1>3. \A j \in Conns : ~Take(j)
  BY DEF Take, TimeOut, Goto
<1>4. LiveLast'
  BY <1>1, <1>3, LiveLemma DEF OrderInv, LiveLast
<1>. QED  BY <1>2, <1>4 DEF Ordered

\* What the browser hears was sent after all it has, and no other worker is heard.
LEMMA BodyOrder == ASSUME IInv, OrderInv, Next, NEW k \in Conns, Body(k) PROVE Ordered'
<1>. ControlType /\ WorkerOK /\ HeadOK /\ GetOK
  BY ControlTypeLemma DEF IInv
<1>1. /\ item \in [Conns -> Items \cup {Noop, None}] /\ received \in Seq(Messages)
      /\ queue' = queue /\ pc[k] = "write" /\ item' = [item EXCEPT ![k] = None]
      /\ chan[k] \in Conns /\ job[chan[k]] = "GET"
  BY DEF IInv, TypeOK, Body, Return, WorkerOK
<1>2. Queued' = Queued /\ Held' \cap Messages \subseteq Held
  BY <1>1, PacketFacts DEF Queued, Held
<1>3. \A j \in Conns : ~Take(j)
  <2> SUFFICES ASSUME NEW j \in Conns, Take(j) PROVE FALSE  OBVIOUS
  <2>1. pc'[j] = "write" /\ pc[j] = "take" /\ pc[k] = "write" /\ pc'[k] = "idle"
        /\ pc' = [pc EXCEPT ![j] = "write"]
    BY DEF Take, Goto, Body, Return, ControlType
  <2>. QED  BY <2>1 DEF ControlType
<1>4. CASE received' = received
  <2>1. Given' = Given  BY <1>4 DEF Given
  <2>2. QueueSorted' /\ QueueLater' /\ InOrder'
    BY <1>1, <1>2, <1>4, <2>1 DEF OrderInv, QueueSorted, QueueLater, InOrder
  <2>3. LiveLast'
    BY <1>3, <2>1, LiveLemma DEF OrderInv, LiveLast
  <2>. QED  BY <2>2, <2>3 DEF Ordered
<1>5. CASE received' # received
  <2>1. /\ item[k] \in Messages /\ link[chan[k]] = "open" /\ resp[chan[k]] = "head"
        /\ received' = Append(received, item[k])
    BY <1>5 DEF Body, Hears
  <2>2. Live(k)
    BY <1>1, <2>1 DEF Live
  <2>3. Given' = Given \cup {item[k]}
    BY <1>1, <2>1, ElementsAppended DEF Given
  <2>4. item[k] \in Held
    BY DEF Held
  <2>5. QueueSorted' /\ QueueLater'
    BY <1>1, <1>2, <2>1, <2>3, <2>4 DEF OrderInv, QueueSorted, QueueLater
  <2>6. InOrder'
    <3> SUFFICES ASSUME NEW i \in DOMAIN received', NEW j \in DOMAIN received', i < j
                 PROVE  received'[i] < received'[j]
      BY DEF InOrder
    <3>1. i \in DOMAIN received /\ received'[i] = received[i]
      BY <1>1, <2>1
    <3>2. CASE j \in DOMAIN received
      BY <1>1, <2>1, <3>1, <3>2 DEF OrderInv, InOrder
    <3>3. CASE j \notin DOMAIN received
      <4>1. received'[j] = item[k]  BY <1>1, <2>1, <3>3
      <4>. QED  BY <2>2, <3>1, <4>1 DEF OrderInv, LiveLast, Given
    <3>. QED  BY <3>2, <3>3
  <2>7. LiveLast'
    <3> SUFFICES ASSUME NEW j \in Conns, Live(j)' PROVE FALSE
      BY DEF LiveLast
    <3>1. Live(j)
      BY <1>3, LiveLemma
    <3>2. chan[k] \in Waiting /\ chan[j] \in Waiting
      BY <1>1, <2>1, <3>1 DEF Live, Waiting, WorkerOK
    <3>3. chan[j] = chan[k]
      BY <3>2 DEF OrderInv, OnePoll
    <3>4. j # k
      BY DEF Body, Return, Goto, Live, ControlType
    <3>5. resp[chan[k]] = "spoiled"
      BY <1>1, <3>1, <3>3, <3>4 DEF HeadOK, Live
    <3>. QED  BY <2>1, <3>5
  <2>. QED  BY <2>5, <2>6, <2>7 DEF Ordered
<1>. QED  BY <1>4, <1>5

\* The steps that are none of these move no message.
LEMMA MovesNoneSteps ==
    ASSUME IInv, Next, ~Send, \A k \in Conns : ~Take(k) /\ ~TimeOut(k) /\ ~Body(k)
    PROVE  MovesNone
<1>. TypeOK /\ WorkerOK  BY DEF IInv
<1> USE ReturnFacts DEF MovesNone, Goto, Return, browserVars
<1>1. ASSUME NEW k \in Conns, BeatStep(k) PROVE MovesNone
  BY <1>1 DEF BeatStep, Reconnect, BeatNotOpen, BeatOpen, BeatOnClosed, BeatShut, BeatHead
<1>2. ASSUME NEW k \in Conns, DirectStep(k) PROVE MovesNone
  BY <1>2 DEF DirectStep, DirectOpen, DirectQueued, DirectWrite, DirectLost,
              DirectOnClosed, DirectDone, Disconnect, Info, Requeued
<1>3. ASSUME NEW k \in Conns, Poll(k) \/ Close(k) \/ Break(k) PROVE MovesNone
  BY <1>3 DEF Poll, Close, Break
<1>4. ASSUME NEW k \in Conns, NEW p \in Posts, Post(k, p) PROVE MovesNone
  BY <1>4 DEF Post
<1>. QED  BY <1>1, <1>2, <1>3, <1>4 DEF Next

\* The order of the messages is an invariant, if polls do not overlap.
LEMMA OrderInductive ==
    ASSUME ~Overlap
    PROVE  Spec => []OrderInv
<1>1. IInv /\ OrderInv /\ [Next]_vars => OrderInv'
  <2> SUFFICES ASSUME IInv, OrderInv, [Next]_vars PROVE OrderInv'  OBVIOUS
  <2>1. OnePoll'
    BY OnePollLemma DEF OrderInv
  <2>2. CASE UNCHANGED vars
    <3> USE <2>2 DEF vars, connVars, browserVars, OrderInv
    <3>1. QueueSorted' /\ QueueLater' /\ InOrder'
      BY DEF QueueSorted, QueueLater, InOrder, Queued, Held, Given
    <3>2. LiveLast'
      BY DEF LiveLast, Live, Given
    <3>. QED  BY <2>1, <3>1, <3>2
  <2>3. CASE Next
    <3>1. Ordered'
      BY <2>3, SendOrder, TakeOrder, NoopOrder, BodyOrder, MovesNoneSteps, MovesNoneOrder
    <3>. QED  BY <2>1, <3>1 DEF OrderInv, Ordered
  <2>. QED  BY <2>2, <2>3
<1>. QED  BY OrderInit, Inductive, <1>1, PTL DEF Spec

\* What a browser that does not overlap its polls receives from the queue of
\* EventClientIO is in the order of GenericIO.send, whichever polls break.
THEOREM ReceivedInOrder ==
    ASSUME ~Overlap
    PROVE  Spec => []InOrder
<1>1. OrderInv => InOrder  BY DEF OrderInv
<1>. QED  BY OrderInductive, <1>1, PTL

=============================================================================
