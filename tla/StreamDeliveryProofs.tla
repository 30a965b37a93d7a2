------------------------ MODULE StreamDeliveryProofs ------------------------
(***************************************************************************)
(* Proofs about StreamDelivery, for any number of threads, channels and    *)
(* messages and both transports: a message is in one place, none is left   *)
(* behind in the queue of an open client, one is overtaken only while a    *)
(* thread holds it, and the streaming client implements Mailbox.           *)
(*                                                                         *)
(* OnePlace says that the queue has no message twice, but not that it is   *)
(* in order: the order of what overtakes what rests on Ordered, and that a *)
(* message is dropped only after a cut rests on Reached.                   *)
(***************************************************************************)
EXTENDS StreamDelivery, TLAPS

(* The queue is in order, and what was taken from it is older. *)
Ordered ==
    /\ \A i, j \in DOMAIN queue : i < j => queue[i] < queue[j]
    /\ \A m \in Held \cup Given \cup dropped, n \in Queued : m < n

(* Every channel in use was connected, and a client that is not open was shut. *)
Reached ==
    /\ open \/ shut
    /\ link[ctx] # "none"
    /\ \A t \in Threads : pc[t] = "write" => link[chan[t]] # "none"

IInv == TypeOK /\ OnePlace /\ Ordered /\ NothingLeft /\ Reached

-----------------------------------------------------------------------------
(* Sequences *)

\* What Append adds to a sequence.
LEMMA AppendFacts ==
    ASSUME NEW S, NEW q \in Seq(S), NEW x \in S
    PROVE  /\ Append(q, x) \in Seq(S)
           /\ DOMAIN Append(q, x) = DOMAIN q \cup {Len(q) + 1}
           /\ Len(q) + 1 \notin DOMAIN q
           /\ \A i \in DOMAIN q : Append(q, x)[i] = q[i] /\ i \in Nat /\ i < Len(q) + 1
           /\ Append(q, x)[Len(q) + 1] = x
OBVIOUS

\* What Head and Tail take from one.
LEMMA TailFacts ==
    ASSUME NEW S, NEW q \in Seq(S), q # <<>>
    PROVE  /\ Head(q) \in S /\ Tail(q) \in Seq(S)
           /\ 1 \in DOMAIN q /\ q[1] = Head(q)
           /\ \A i \in DOMAIN Tail(q) : i \in Nat /\ i + 1 # 1 /\ 1 < i + 1
                                        /\ i + 1 \in DOMAIN q /\ Tail(q)[i] = q[i + 1]
           /\ \A i \in DOMAIN q : i = 1 \/ (i - 1 \in DOMAIN Tail(q) /\ q[i] = Tail(q)[i - 1])
           /\ \A i, j \in DOMAIN Tail(q) : /\ i + 1 = j + 1 => i = j
                                           /\ i < j => i + 1 < j + 1
OBVIOUS

\* The same, of the sets of their elements.
LEMMA EntriesAppended ==
    ASSUME NEW S, NEW q \in Seq(S), NEW x \in S
    PROVE  Entries(Append(q, x)) = Entries(q) \cup {x}
BY AppendFacts DEF Entries

LEMMA EntriesTaken ==
    ASSUME NEW S, NEW q \in Seq(S), q # <<>>
    PROVE  Entries(q) = Entries(Tail(q)) \cup {Head(q)}
<1>1. ASSUME NEW v \in Entries(q) PROVE v \in Entries(Tail(q)) \cup {Head(q)}
  BY TailFacts DEF Entries
<1>2. ASSUME NEW v \in Entries(Tail(q)) \cup {Head(q)} PROVE v \in Entries(q)
  BY TailFacts DEF Entries
<1>. QED  BY <1>1, <1>2

-----------------------------------------------------------------------------
(* Where the messages are. *)

MessageVars == <<sent, queue, item, mailVars>>

\* A step that leaves the messages alone.
LEMMA StillLemma ==
    ASSUME OnePlace, Ordered, UNCHANGED MessageVars
    PROVE  OnePlace' /\ Ordered'
BY DEF MessageVars, mailVars, OnePlace, Ordered, Queued, Held, Given, Entries, Once

\* A message is sent.
LEMMA OfferLemma ==
    ASSUME TypeOK, OnePlace, Ordered, NEW t \in Threads, Offer(t)
    PROVE  OnePlace' /\ Ordered'
<1>1. sent \in 0..MaxMsg /\ sent < MaxMsg /\ queue \in Seq(Messages)
  BY DEF TypeOK, Offer
<1>2. /\ sent + 1 \in Messages /\ sent + 1 \notin 1..sent
      /\ 1..(sent + 1) = 1..sent \cup {sent + 1}
      /\ \A m \in 1..sent : m < sent + 1
  BY <1>1, MaxMsgAssumption DEF Messages
<1>3. queue' = Append(queue, sent + 1) /\ sent' = sent + 1
  BY DEF Offer
<1>4. Queued' = Queued \cup {sent + 1}
  BY <1>1, <1>2, <1>3, EntriesAppended DEF Queued
<1>5. /\ Held' = Held /\ Given' = Given /\ dropped' = dropped /\ written' = written
      /\ item' = item
  BY DEF Offer, mailVars, Held, Given, Entries
<1>6. Queued \subseteq 1..sent /\ Held \cup Given \cup dropped \subseteq 1..sent
  BY DEF OnePlace
<1>7. Once(queue)'
  BY <1>1, <1>2, <1>3, <1>6, AppendFacts DEF OnePlace, Once, Queued, Entries
<1>8. OnePlace'
  BY <1>2, <1>3, <1>4, <1>5, <1>6, <1>7 DEF OnePlace, Once
<1>9. \A i, j \in DOMAIN queue' : i < j => queue'[i] < queue'[j]
  <2> SUFFICES ASSUME NEW i \in DOMAIN queue', NEW j \in DOMAIN queue', i < j
               PROVE  queue'[i] < queue'[j]
    OBVIOUS
  <2>1. DOMAIN queue' = DOMAIN queue \cup {Len(queue) + 1} /\ queue'[Len(queue) + 1] = sent + 1
    BY <1>1, <1>2, <1>3, AppendFacts
  <2>2. \A l \in DOMAIN queue : queue'[l] = queue[l] /\ queue[l] \in Queued
    BY <1>1, <1>2, <1>3, AppendFacts DEF Queued, Entries
  <2>3. i # Len(queue) + 1
    BY <1>1, <1>2, <2>1, AppendFacts
  <2>4. CASE j = Len(queue) + 1
    <3>1. i \in DOMAIN queue
      BY <2>1, <2>3
    <3>2. queue'[i] \in 1..sent
      BY <1>6, <2>2, <3>1
    <3>3. queue'[j] = sent + 1
      BY <2>1, <2>4
    <3>. QED  BY <1>2, <3>2, <3>3
  <2>5. CASE j \in DOMAIN queue
    BY <2>1, <2>2, <2>3, <2>5 DEF Ordered
  <2>. QED  BY <2>1, <2>4, <2>5
<1>10. Ordered'
  BY <1>2, <1>4, <1>5, <1>6, <1>9 DEF Ordered
<1>. QED  BY <1>8, <1>10

\* A thread takes the first message of the queue.
LEMMA TakeLemma ==
    ASSUME TypeOK, OnePlace, Ordered, NEW t \in Threads, Poll(t), queue # <<>>
    PROVE  OnePlace' /\ Ordered'
<1> DEFINE m == Head(queue)
<1>1. /\ queue \in Seq(Messages) /\ item \in [Threads -> Messages \cup {None}]
      /\ item[t] = None
  BY DEF TypeOK, Poll
<1>2. queue' = Tail(queue) /\ item' = [item EXCEPT ![t] = m]
  BY DEF Poll
<1>3. Given' = Given /\ dropped' = dropped /\ written' = written /\ sent' = sent
  BY DEF Poll, mailVars, Given, Entries
<1>4. Queued = Queued' \cup {m} /\ m \in Messages /\ m # None
  BY <1>1, <1>2, EntriesTaken, TailFacts, MaxMsgAssumption DEF Queued, Messages
<1>5. m \notin Queued' /\ \A n \in Queued' : m < n
  <2> SUFFICES ASSUME NEW i \in DOMAIN queue' PROVE m < queue'[i]
    BY <1>1, <1>2, <1>4 DEF Queued, Entries, Messages
  <2>1. i + 1 \in DOMAIN queue /\ 1 < i + 1 /\ queue'[i] = queue[i + 1]
        /\ 1 \in DOMAIN queue /\ queue[1] = m
    BY <1>1, <1>2, TailFacts
  <2>. QED  BY <2>1 DEF Ordered
<1>6. Once(queue)' /\ \A i, j \in DOMAIN queue' : i < j => queue'[i] < queue'[j]
  BY <1>1, <1>2, TailFacts DEF OnePlace, Ordered, Once
<1>7. Held' = Held \cup {m}
  BY <1>1, <1>2, <1>4 DEF Held
<1>8. m \notin Held \cup Given \cup dropped
  BY <1>4 DEF OnePlace
<1>9. \A u, v \in Threads : item'[u] = item'[v] /\ item'[u] # None => u = v
  BY <1>1, <1>2, <1>8 DEF OnePlace, Held
<1>10. OnePlace'
  BY <1>3, <1>4, <1>5, <1>6, <1>7, <1>8, <1>9 DEF OnePlace, Once
<1>11. Ordered'
  BY <1>3, <1>4, <1>5, <1>6, <1>7 DEF Ordered
<1>. QED  BY <1>10, <1>11

\* A thread is done with its message: it is written or dropped.
LEMMA DoneLemma ==
    ASSUME TypeOK, OnePlace, Ordered, NEW t \in Threads, item[t] # None,
           item' = [item EXCEPT ![t] = None], sent' = sent, queue' = queue,
           \/ written' = Append(written, item[t]) /\ dropped' = dropped
           \/ Drop(item[t])
    PROVE  OnePlace' /\ Ordered'
<1> DEFINE m == item[t]
<1>1. /\ item \in [Threads -> Messages \cup {None}] /\ m \in Messages
      /\ written \in Seq(Messages)
  BY DEF TypeOK
<1>2. Queued' = Queued
  BY DEF Queued, Entries
<1>3. Held = Held' \cup {m} /\ m \notin Held'
  BY <1>1 DEF Held, OnePlace
<1>4. \A u, v \in Threads : item'[u] = item'[v] /\ item'[u] # None => u = v
  BY <1>1 DEF OnePlace
<1>5. m \notin Queued \cup Given \cup dropped
  BY <1>3 DEF OnePlace
<1>6. \/ Given' = Given \cup {m} /\ dropped' = dropped /\ Once(written)'
      \/ Given' = Given /\ dropped' = dropped \cup {m} /\ Once(written)'
  <2>1. CASE written' = Append(written, m) /\ dropped' = dropped
    <3>1. Given' = Given \cup {m}
      BY <1>1, <2>1, EntriesAppended DEF Given
    <3>2. Once(written)'
      BY <1>1, <1>5, <2>1, AppendFacts DEF OnePlace, Once, Given, Entries
    <3>. QED  BY <2>1, <3>1, <3>2
  <2>2. CASE Drop(m)
    BY <2>2 DEF Drop, Given, Entries, OnePlace, Once
  <2>. QED  BY <2>1, <2>2
<1>7. OnePlace'
  BY <1>2, <1>3, <1>4, <1>5, <1>6 DEF OnePlace, Once
<1>8. Ordered'
  BY <1>2, <1>3, <1>6 DEF Ordered
<1>. QED  BY <1>7, <1>8


-----------------------------------------------------------------------------
(* The control *)

LEMMA InitLemma == Init => IInv
<1> SUFFICES ASSUME Init PROVE IInv  OBVIOUS
<1> USE ThreadsAssumption, ChansAssumption, MaxMsgAssumption DEF Init
<1>1. TypeOK
  <2>1. 0 \in 0..MaxMsg /\ queue \in Seq(Messages) /\ written \in Seq(Messages)
    OBVIOUS
  <2>2. \A t \in Threads : /\ item[t] # None <=> pc[t] \in {"channel", "write"}
                           /\ chan[t] # None <=> pc[t] = "write"
    OBVIOUS
  <2>. QED  BY <2>1, <2>2 DEF TypeOK
<1>2. OnePlace /\ Ordered
  BY DEF OnePlace, Ordered, Queued, Held, Given, Entries, Once
<1>3. NothingLeft /\ Reached
  BY DEF NothingLeft, Reached
<1>. QED  BY <1>1, <1>2, <1>3 DEF IInv

\* The types of what the control depends on.
ControlType ==
    /\ open \in BOOLEAN /\ ctx \in Chans /\ shut \in BOOLEAN /\ revived \in BOOLEAN
    /\ link \in [Chans -> {"none", "open", "broken", "closed"}]
    /\ pc \in [Threads -> {"idle", "connect", "check", "poll", "channel", "write"}]
    /\ chan \in [Threads -> Chans \cup {None}]
    /\ \A t \in Threads : pc[t] = "write" => chan[t] \in Chans

LEMMA ControlTypeLemma == TypeOK => ControlType
BY DEF TypeOK, ControlType

\* A thread of a client that has something in its queue.
Busy == \E t \in Threads : pc[t] \in {"check", "poll", "channel", "write"}

\* A thread goes on to a place in the loop.
LEMMA BusyLemma ==
    ASSUME ControlType, NEW t \in Threads, NEW l \in {"check", "poll", "channel", "write"},
           Goto(t, l)
    PROVE  Busy'
<1>1. pc'[t] = l
  BY DEF ControlType, Goto
<1>. QED  BY <1>1 DEF Busy

\* The steps of a thread.
LEMMA ThreadLemma ==
    ASSUME IInv, NEW t \in Threads, Thread(t)
    PROVE  IInv'
<1>. TypeOK /\ OnePlace /\ Ordered /\ NothingLeft /\ Reached /\ ControlType
  BY ControlTypeLemma DEF IInv
<1>1. CASE Offer(t)
  <2>1. TypeOK'
    BY <1>1, MaxMsgAssumption DEF Offer, Goto, TypeOK, Messages, clientVars, mailVars
  <2>2. OnePlace' /\ Ordered'
    BY <1>1, OfferLemma
  <2>3. NothingLeft'
    BY <1>1, BusyLemma DEF NothingLeft, Busy, Offer
  <2>4. Reached'
    BY <1>1 DEF Reached, Offer, Goto, ControlType, clientVars
  <2>. QED  BY <2>1, <2>2, <2>3, <2>4 DEF IInv
<1>2. CASE Check(t)
  <2>1. TypeOK'
    BY <1>2 DEF Check, Goto, TypeOK, clientVars, mailVars
  <2>2. OnePlace' /\ Ordered'
    BY <1>2, StillLemma DEF Check, MessageVars, mailVars
  <2>3. NothingLeft'
    BY <1>2, BusyLemma DEF NothingLeft, Busy, Check, clientVars
  <2>4. Reached'
    BY <1>2 DEF Reached, Check, Goto, ControlType, clientVars
  <2>. QED  BY <2>1, <2>2, <2>3, <2>4 DEF IInv
<1>3. CASE Poll(t)
  <2>1. TypeOK'
    <3>1. CASE queue = <<>>
      BY <1>3, <3>1 DEF Poll, Goto, TypeOK, clientVars, mailVars
    <3>2. CASE queue # <<>>
      <4>1. Head(queue) \in Messages /\ Tail(queue) \in Seq(Messages) /\ Head(queue) # None
        BY <3>2, TailFacts, MaxMsgAssumption DEF TypeOK, Messages
      <4>2. /\ pc' = [pc EXCEPT ![t] = "channel"] /\ item' = [item EXCEPT ![t] = Head(queue)]
            /\ queue' = Tail(queue) /\ pc[t] = "poll"
        BY <1>3, <3>2 DEF Poll, Goto
      <4>3. \A u \in Threads : /\ item'[u] # None <=> pc'[u] \in {"channel", "write"}
                               /\ chan[u] # None <=> pc'[u] = "write"
        BY <4>1, <4>2 DEF TypeOK
      <4>. QED  BY <1>3, <4>1, <4>2, <4>3 DEF Poll, TypeOK, clientVars, mailVars
    <3>. QED  BY <3>1, <3>2
  <2>2. OnePlace' /\ Ordered'
    <3>1. CASE queue = <<>>
      BY <1>3, <3>1, StillLemma DEF Poll, MessageVars, mailVars
    <3>2. CASE queue # <<>>
      BY <1>3, <3>2, TakeLemma
    <3>. QED  BY <3>1, <3>2
  <2>3. NothingLeft'
    BY <1>3, BusyLemma DEF NothingLeft, Busy, Poll
  <2>4. Reached'
    BY <1>3 DEF Reached, Poll, Goto, ControlType, clientVars
  <2>. QED  BY <2>1, <2>2, <2>3, <2>4 DEF IInv
<1>4. CASE Channel(t)
  <2>1. CASE Kind = "htmlfile" /\ ~open
    <3>1. TypeOK'
      BY <1>4, <2>1 DEF Channel, Again, Drop, Goto, TypeOK, clientVars
    <3>2. OnePlace' /\ Ordered'
      BY <1>4, <2>1, DoneLemma DEF Channel, Again, TypeOK
    <3>3. NothingLeft'
      BY <1>4, <2>1, BusyLemma DEF NothingLeft, Busy, Channel, Again
    <3>4. Reached'
      BY <1>4, <2>1 DEF Reached, Channel, Again, Goto, ControlType, clientVars
    <3>. QED  BY <3>1, <3>2, <3>3, <3>4 DEF IInv
  <2>2. CASE ~(Kind = "htmlfile" /\ ~open)
    <3>1. TypeOK'
      <4>1. /\ pc' = [pc EXCEPT ![t] = "write"] /\ chan' = [chan EXCEPT ![t] = ctx]
            /\ item' = item /\ pc[t] = "channel" /\ ctx \in Chans /\ ctx # None
        BY <1>4, <2>2, ChansAssumption DEF Channel, Goto, TypeOK
      <4>2. \A u \in Threads : /\ item'[u] # None <=> pc'[u] \in {"channel", "write"}
                               /\ chan'[u] # None <=> pc'[u] = "write"
        BY <4>1 DEF TypeOK
      <4>. QED  BY <1>4, <2>2, <4>1, <4>2 DEF Channel, TypeOK, clientVars, mailVars
    <3>2. OnePlace' /\ Ordered'
      BY <1>4, <2>2, StillLemma DEF Channel, MessageVars, mailVars
    <3>3. NothingLeft'
      BY <1>4, <2>2, BusyLemma DEF NothingLeft, Busy, Channel
    <3>4. Reached'
      BY <1>4, <2>2 DEF Reached, Channel, Goto, ControlType, clientVars
    <3>. QED  BY <3>1, <3>2, <3>3, <3>4 DEF IInv
  <2>. QED  BY <2>1, <2>2
<1>5. CASE Write(t)
  <2>1. TypeOK'
    <3>1. item[t] \in Messages
      BY <1>5 DEF Write, TypeOK
    <3>2. written' \in Seq(Messages) /\ dropped' \subseteq Messages
      <4>1. written \in Seq(Messages) /\ dropped \subseteq Messages
        BY DEF TypeOK
      <4>. QED  BY <1>5, <3>1, <4>1, AppendFacts DEF Write, Drop
    <3>. QED  BY <1>5, <3>2 DEF Write, Again, Goto, TypeOK, clientVars
  <2>2. OnePlace' /\ Ordered'
    <3>1. item[t] # None
      BY <1>5 DEF Write, TypeOK
    <3>2. \/ written' = Append(written, item[t]) /\ dropped' = dropped
          \/ Drop(item[t])
      BY <1>5 DEF Write
    <3>. QED  BY <1>5, <3>1, <3>2, DoneLemma DEF Write, Again
  <2>3. NothingLeft'
    BY <1>5, BusyLemma DEF NothingLeft, Busy, Write, Again
  <2>4. Reached'
    BY <1>5 DEF Reached, Write, Again, Goto, ControlType, clientVars
  <2>. QED  BY <2>1, <2>2, <2>3, <2>4 DEF IInv
<1>6. CASE Prepare(t)
  <2>1. TypeOK'
    BY <1>6 DEF Prepare, Goto, TypeOK, clientVars, mailVars
  <2>2. OnePlace' /\ Ordered'
    BY <1>6, StillLemma DEF Prepare, MessageVars, mailVars
  <2>3. NothingLeft'
    <3>1. pc[t] = "idle" /\ \A u \in Threads \ {t} : pc'[u] = pc[u]
      BY <1>6 DEF Prepare, Goto, ControlType
    <3>. QED  BY <1>6, <3>1 DEF NothingLeft, Prepare, clientVars
  <2>4. Reached'
    BY <1>6 DEF Reached, Prepare, Goto, ControlType, clientVars
  <2>. QED  BY <2>1, <2>2, <2>3, <2>4 DEF IInv
<1>. QED  BY <1>1, <1>2, <1>3, <1>4, <1>5, <1>6 DEF Thread

\* The steps of timers and channels, which leave messages and threads alone.
LEMMA ConnectionLemma ==
    ASSUME IInv, Shut \/ \E k \in Chans : Reconnect(k) \/ Close(k) \/ Break(k)
    PROVE  IInv'
<1>. TypeOK /\ OnePlace /\ Ordered /\ NothingLeft /\ Reached /\ ControlType
  BY ControlTypeLemma DEF IInv
<1> USE DEF threadVars
<1>1. UNCHANGED MessageVars
  BY DEF Shut, Reconnect, Close, Break, MessageVars, mailVars
<1>2. OnePlace' /\ Ordered'
  BY <1>1, StillLemma
<1>3. pc' = pc /\ chan' = chan
  BY DEF Shut, Reconnect, Close, Break
<1>4. CASE Shut
  BY <1>2, <1>4 DEF Shut, IInv, TypeOK, NothingLeft, Reached, mailVars
<1>5. ASSUME NEW k \in Chans, Reconnect(k) PROVE IInv'
  <2>1. TypeOK'
    BY <1>5 DEF Reconnect, TypeOK, mailVars
  <2>2. NothingLeft'
    BY <1>5 DEF Reconnect, NothingLeft, ControlType
  <2>3. Reached'
    BY <1>5 DEF Reconnect, Reached, ControlType
  <2>. QED  BY <1>2, <2>1, <2>2, <2>3 DEF IInv
<1>6. ASSUME NEW k \in Chans, Close(k) \/ Break(k) PROVE IInv'
  <2>1. TypeOK'
    BY <1>6 DEF Close, Break, TypeOK, clientVars, mailVars
  <2>2. NothingLeft'
    BY <1>6 DEF Close, Break, NothingLeft, clientVars
  <2>3. Reached'
    BY <1>6 DEF Close, Break, Reached, ControlType, clientVars
  <2>. QED  BY <1>2, <2>1, <2>2, <2>3 DEF IInv
<1>. QED  BY <1>4, <1>5, <1>6

LEMMA NextLemma == IInv /\ [Next]_vars => IInv'
<1> SUFFICES ASSUME IInv, [Next]_vars PROVE IInv'  OBVIOUS
<1>1. ASSUME NEW t \in Threads, Thread(t) PROVE IInv'
  BY <1>1, ThreadLemma
<1>2. CASE Shut \/ \E k \in Chans : Reconnect(k) \/ Close(k) \/ Break(k)
  BY <1>2, ConnectionLemma
<1>3. CASE UNCHANGED vars
  <2>1. OnePlace' /\ Ordered'
    BY <1>3, StillLemma DEF IInv, vars, MessageVars, threadVars
  <2>2. TypeOK' /\ NothingLeft' /\ Reached'
    BY <1>3 DEF IInv, vars, clientVars, threadVars, mailVars, TypeOK, NothingLeft, Reached
  <2>. QED  BY <2>1, <2>2 DEF IInv
<1>. QED  BY <1>1, <1>2, <1>3 DEF Next

LEMMA InvariantLemma == Spec => []IInv
BY InitLemma, NextLemma, PTL DEF Spec

-----------------------------------------------------------------------------
(* Theorems *)

\* Type correctness: a thread has a message exactly between queue.poll and the end
\* of its write, and a channel exactly when it is about to write.
THEOREM TypeCorrect == Spec => []TypeOK
BY InvariantLemma, PTL DEF IInv

\* However many threads drain the queue, a message is queued, held by one thread,
\* delivered or dropped: in one of these places, and once (sendEncoded).
THEOREM MessageInOnePlace == Spec => []OnePlace
BY InvariantLemma, PTL DEF IInv

\* A queue that is not empty has a thread on its way to it, as long as the client
\* has not been shut (the end of sendEncoded's loop against offer).
THEOREM QueueServed == Spec => []NothingLeft
BY InvariantLemma, PTL DEF IInv

\* A message is overtaken only while a thread holds it (queue.poll against write).
THEOREM OvertakenWhenHeld == Spec => []OvertakenInHand
<1>1. OnePlace /\ Ordered /\ TypeOK => OvertakenInHand
  <2> SUFFICES ASSUME OnePlace, Ordered, TypeOK, NEW m \in 1..sent, NEW n \in Given \cup Held,
                      m < n
               PROVE  m \in Held \cup Given \cup dropped
    BY DEF OvertakenInHand
  <2>1. m \notin Queued
    <3> SUFFICES ASSUME m \in Queued PROVE FALSE
      OBVIOUS
    <3>1. n < m
      BY DEF Ordered
    <3>2. m \in Nat /\ n \in Nat
      BY DEF OnePlace, TypeOK
    <3>. QED  BY <3>1, <3>2
  <2>. QED  BY <2>1 DEF OnePlace
<1>. QED  BY <1>1, InvariantLemma, PTL DEF IInv

-----------------------------------------------------------------------------
(* The refinement *)

LEMMA MailInit == Init => Mail!Init
BY DEF Init, Mail!Init, Hurt

LEMMA PendingFacts ==
    ASSUME OnePlace, NEW m \in Held
    PROVE  m \in Mail!Pending
BY DEF OnePlace, Mail!Pending, Mail!Given, Given, Entries

\* A message that is held is given up.
LEMMA DropLemma ==
    ASSUME IInv, NEW t \in Threads, item[t] # None, Drop(item[t]), sent' = sent, Hurt,
           Hurt' = Hurt
    PROVE  Mail!Next
<1>1. item[t] \in Mail!Pending
  BY PendingFacts DEF IInv, Held
<1>2. Mail!Lose(item[t])
  BY <1>1 DEF Mail!Lose, Drop
<1>. QED  BY <1>1, <1>2 DEF Mail!Next

LEMMA MailNext == IInv /\ [Next]_vars => [Mail!Next]_(Mail!mailVars)
<1> SUFFICES ASSUME IInv, [Next]_vars PROVE [Mail!Next]_(Mail!mailVars)  OBVIOUS
<1>. ControlType
  BY ControlTypeLemma DEF IInv
<1>1. ASSUME NEW t \in Threads, Offer(t) PROVE Mail!Accept
  BY <1>1 DEF Offer, Mail!Accept, Hurt, clientVars, mailVars
<1>2. ASSUME NEW t \in Threads, Check(t) \/ Poll(t) \/ Prepare(t)
      PROVE  UNCHANGED Mail!mailVars
  BY <1>2 DEF Check, Poll, Prepare, Mail!mailVars, Hurt, clientVars, mailVars
<1>3. ASSUME NEW t \in Threads, Channel(t) PROVE [Mail!Next]_(Mail!mailVars)
  <2>1. Hurt' = Hurt /\ sent' = sent
    BY <1>3 DEF Channel, Hurt, clientVars
  <2>2. CASE Kind = "htmlfile" /\ ~open
    <3>1. Hurt
      BY <2>2 DEF Hurt, IInv, Reached
    <3>2. item[t] # None /\ Drop(item[t])
      BY <1>3, <2>2 DEF Channel, IInv, TypeOK
    <3>. QED  BY <2>1, <3>1, <3>2, DropLemma
  <2>3. CASE ~(Kind = "htmlfile" /\ ~open)
    BY <1>3, <2>1, <2>3 DEF Channel, Mail!mailVars, mailVars
  <2>. QED  BY <2>2, <2>3
<1>4. ASSUME NEW t \in Threads, Write(t) PROVE Mail!Next
  <2>1. Hurt' = Hurt /\ sent' = sent /\ item[t] # None
    BY <1>4 DEF Write, Hurt, clientVars, IInv, TypeOK
  <2>2. CASE link[chan[t]] = "open"
    <3>1. item[t] \in Mail!Pending
      BY <2>1, PendingFacts DEF IInv, Held
    <3>2. Mail!Deliver(item[t])
      BY <1>4, <2>1, <2>2, <3>1 DEF Write, Mail!Deliver
    <3>. QED  BY <3>1, <3>2 DEF Mail!Next
  <2>3. CASE link[chan[t]] # "open"
    <3>1. Hurt
      BY <1>4, <2>3 DEF Write, Hurt, IInv, Reached, ControlType
    <3>2. Drop(item[t])
      BY <1>4, <2>3 DEF Write
    <3>. QED  BY <2>1, <3>1, <3>2, DropLemma
  <2>. QED  BY <2>2, <2>3
<1>5. CASE Shut
  <2>1. Hurt'
    BY <1>5 DEF Shut, Hurt
  <2>. QED  BY <1>5, <2>1 DEF Shut, Mail!Next, Mail!Cut, mailVars
<1>6. ASSUME NEW k \in Chans, Reconnect(k) PROVE UNCHANGED Mail!mailVars
  <2>1. \A j \in Chans : link'[j] \in {"broken", "closed"} <=> link[j] \in {"broken", "closed"}
    BY <1>6 DEF Reconnect, ControlType
  <2>2. Hurt' = Hurt
    BY <1>6, <2>1 DEF Reconnect, Hurt
  <2>. QED  BY <1>6, <2>2 DEF Reconnect, Mail!mailVars, mailVars
<1>7. ASSUME NEW k \in Chans, Close(k) \/ Break(k) PROVE Mail!Next
  <2>1. link'[k] \in {"broken", "closed"}
    BY <1>7 DEF Close, Break, ControlType
  <2>2. Hurt'
    BY <2>1 DEF Hurt
  <2>. QED  BY <1>7, <2>2 DEF Close, Break, Mail!Next, Mail!Cut, mailVars
<1>8. CASE UNCHANGED vars
  BY <1>8 DEF vars, Mail!mailVars, Hurt, clientVars, mailVars
<1>. QED  BY <1>1, <1>2, <1>3, <1>4, <1>5, <1>6, <1>7, <1>8 DEF Next, Thread, Mail!Next

\* The streaming client implements Mailbox: a message goes to the browser at most
\* once, and is given up only after a channel was cut or the client shut.
THEOREM StreamImplementsMailbox == Spec => DeliversMail
BY MailInit, MailNext, InvariantLemma, PTL DEF Spec, Mail!Spec, DeliversMail

=============================================================================
