-------------------------- MODULE HeartbeatProofs --------------------------
(***************************************************************************)
(* Proofs about Heartbeat, for all times and any number of namespaces: if  *)
(* the times leave room for a beat and its answer, neither end gives up an *)
(* unbroken session while the network works, and both notice in time that  *)
(* it is gone.                                                             *)
(*                                                                         *)
(* Kept rests on Ahead: where the loop of the first namespace is says how  *)
(* far the two timers can have got.  Noticed rests on Behind: once the     *)
(* network is cut something that ends in a clear task, or such a task, is  *)
(* at least as old as the silence.                                         *)
(***************************************************************************)
EXTENDS Heartbeat, TLAPS

Places == {"off", "up", "wait", "down"}

Wait == IF kind \in Streams THEN Interval ELSE PollTime

(* A polling transport has one loop; until an echo ends a poll its waiting *)
(* suspends the clear task, and no task is forgotten.  Only a timer sends  *)
(* into a cut network.                                                     *)
Shape ==
    /\ kind = "polling" => \A l \in Loops \ {First} : at[l] = "off"
    /\ kind # "polling" => forgotten = Off /\ blocked = Off
    /\ kind # "htmlfile" => removal = FALSE
    /\ kind = "polling" /\ ~slipped =>
          /\ forgotten = Off /\ blocked = Off
          /\ at[First] = "wait" => clear = Off
    /\ clear # Off /\ forgotten # Off => clear <= forgotten
    /\ cut => \A l \in Loops : at[l] \in {"off", "wait"}
    /\ ~cut => silent = 0

(* The browser heard from the server when the loop was last down, and the  *)
(* server scheduled its clear task when it began to wait, or ended it.     *)
WatchAhead ==
    /\ at[First] = "up"   => watch <= age[First]
    /\ at[First] = "wait" => watch <= Latency + age[First]
    /\ at[First] = "down" => watch <= Latency + Wait + age[First]

ClearAhead ==
    clear # Off =>
        /\ kind = "websocket" /\ at[First] = "up"   => clear <= Interval + Latency + age[First]
        /\ kind = "websocket" /\ at[First] = "wait" => clear <= age[First]
        /\ kind = "websocket" /\ at[First] = "down" => clear <= Interval + age[First]
        /\ kind = "polling" /\ at[First] = "up"     => clear <= Latency + age[First]
        /\ kind = "polling" /\ at[First] = "down"   => clear <= age[First]

Works == InTime /\ Heartbeats /\ Unbroken /\ ~cut

Ahead == Works => connected /\ stored /\ at[First] # "off" /\ WatchAhead /\ ClearAhead

(* What will remove a polling session that got silent: a poll or a blocked *)
(* worker, which both end in a clear task, or a task.                      *)
PollingEnds ==
    \/ at[First] = "wait" /\ silent <= age[First]
    \/ blocked # Off /\ silent <= blocked
    \/ clear # Off /\ silent <= PollTime + clear
    \/ forgotten # Off /\ silent <= PollTime + forgotten

Behind ==
    /\ cut /\ connected => silent <= watch
    /\ kind = "websocket" /\ began /\ stored => clear # Off /\ silent <= clear
    /\ kind = "htmlfile" /\ began /\ stored => removal = TRUE /\ silent = 0
    /\ kind = "polling" /\ began /\ stored => PollingEnds

IInv == TypeOK /\ Shape /\ Ahead /\ Behind

-----------------------------------------------------------------------------
(* What the leaves need of the types *)

LEMMA Times ==
    /\ Interval \in Nat /\ Timeout \in Nat /\ PollTime \in Nat /\ Latency \in Nat
    /\ Off \notin Nat /\ First \in Loops /\ Asked \subseteq Loops
    /\ Limit \in 0..Timeout /\ Grace \in Nat /\ Wait \in Nat
BY TimesAssumption, LoopsAssumption DEF Limit, Grace, Wait

LEMMA Typing ==
    ASSUME TypeOK
    PROVE  /\ kind = "websocket" \/ kind = "htmlfile" \/ kind = "polling"
           /\ kind \in Streams <=> kind = "websocket" \/ kind = "htmlfile"
           /\ {connected, stored, removal, open, echoing, began, slipped, cut} \subseteq BOOLEAN
           /\ watch \in Nat /\ watch <= Timeout
           /\ clear = Off \/ (clear # Off /\ clear \in Nat /\ clear <= Timeout)
           /\ forgotten = Off \/ (forgotten # Off /\ forgotten \in Nat /\ forgotten <= Timeout)
           /\ blocked = Off \/ (blocked # Off /\ blocked \in Nat /\ blocked <= PollTime)
           /\ \A l \in Loops : at[l] \in Places /\ age[l] \in Nat
           /\ at \in [Loops -> Places] /\ age \in [Loops -> Nat]
           /\ silent \in Nat
<1>. USE TimesAssumption DEF Streams, Places
<1>1. Grace \in Nat
  BY DEF Grace
<1>. QED  BY <1>1 DEF TypeOK

LEMMA GotoFacts ==
    ASSUME TypeOK, NEW l \in Loops, NEW place \in Places, Goto(l, place)
    PROVE  /\ at' \in [Loops -> Places] /\ age' \in [Loops -> Nat]
           /\ at'[l] = place /\ age'[l] = 0
           /\ \A x \in Loops \ {l} : at'[x] = at[x] /\ age'[x] = age[x]
BY DEF TypeOK, Goto, Places

\* A loop that is where it was may stay there as long as before.
LEMMA LongestFacts ==
    ASSUME TypeOK
    PROVE  \A l \in Loops :
              /\ at[l] = "up" \/ at[l] = "down" => Longest(l) = Latency
              /\ at[l] = "wait" => Longest(l) = Wait
              /\ at[l] = "off" => Longest(l) = 0
BY DEF TypeOK, Longest, Wait, Streams

LEMMA LongestFactsPrimed ==
    ASSUME kind' \in Streams \cup {"polling"}, kind' = kind, at' \in [Loops -> Places]
    PROVE  \A l \in Loops :
              /\ at'[l] = "up" \/ at'[l] = "down" => Longest(l)' = Latency
              /\ at'[l] = "wait" => Longest(l)' = Wait
              /\ at'[l] = "off" => Longest(l)' = 0
BY DEF Longest, Wait, Places, Streams

Timers == (0..Timeout) \cup {Off}

(* The types after a step that leaves the loops alone, and after one of a  *)
(* loop.                                                                   *)
LEMMA OtherType ==
    ASSUME TypeOK, UNCHANGED <<kind, at, age, cut, silent>>,
           {connected', stored', removal', open', echoing', began', slipped'} \subseteq BOOLEAN,
           watch' = watch \/ watch' = 0, clear' \in Timers, forgotten' \in Timers,
           blocked' \in (0..PollTime) \cup {Off}
    PROVE  TypeOK'
<1>1. (\A x \in Loops : Longest(x)' = Longest(x)) /\ Grace' = Grace
  BY DEF Longest, Grace
<1>2. watch' \in 0..Timeout
  BY Times DEF TypeOK
<1>. QED  BY <1>1, <1>2 DEF TypeOK, Timers

LEMMA GotoType ==
    ASSUME TypeOK, NEW l \in Loops, NEW place \in Places, Goto(l, place),
           UNCHANGED <<kind, cut, silent>>,
           {connected', stored', removal', open', echoing', began', slipped'} \subseteq BOOLEAN,
           watch' = watch \/ watch' = 0, clear' \in Timers, forgotten' \in Timers,
           blocked' \in (0..PollTime) \cup {Off}
    PROVE  TypeOK'
<1>1. /\ at' \in [Loops -> Places] /\ age' \in [Loops -> Nat]
      /\ at'[l] = place /\ age'[l] = 0
      /\ \A x \in Loops \ {l} : at'[x] = at[x] /\ age'[x] = age[x]
  BY GotoFacts
<1>2. kind' \in Streams \cup {"polling"}
  BY DEF TypeOK
<1>3. \A x \in Loops : age'[x] <= Longest(x)'
  <2>. SUFFICES ASSUME NEW x \in Loops PROVE age'[x] <= Longest(x)'
    OBVIOUS
  <2>1. CASE x = l
    BY <1>1, <1>2, <2>1, LongestFactsPrimed, Times DEF Places
  <2>2. CASE x # l
    <3>1. age[x] <= Longest(x)
      BY DEF TypeOK
    <3>2. Longest(x)' = Longest(x)
      BY <1>1, <1>2, <2>2, LongestFacts, LongestFactsPrimed, Typing DEF Places
    <3>. QED  BY <1>1, <2>2, <3>1, <3>2
  <2>. QED  BY <2>1, <2>2
<1>4. watch' \in 0..Timeout
  BY Times DEF TypeOK
<1>5. silent' \in 0..(Grace' + 1)
  BY DEF TypeOK, Grace
<1>. QED  BY <1>1, <1>2, <1>3, <1>4, <1>5 DEF TypeOK, Timers, Places

(* What the steps keep of the types of the timers and flags. *)
LEMMA OldTypes ==
    ASSUME TypeOK
    PROVE  /\ {connected, stored, removal, open, echoing, began, slipped, cut} \subseteq BOOLEAN
           /\ clear \in Timers /\ forgotten \in Timers /\ 0 \in Timers /\ Off \in Timers
           /\ blocked \in (0..PollTime) \cup {Off}
BY Times DEF TypeOK, Timers

-----------------------------------------------------------------------------
(* The server *)

(* The goal of every step as to Ahead. *)
Going == connected /\ stored /\ at[First] # "off" /\ WatchAhead /\ ClearAhead

LEMMA HeardKeeps == ASSUME IInv, NEW l \in Loops, Heard(l) PROVE IInv'
<1>. USE Times DEF IInv
<1>1. /\ Goto(l, "wait") /\ "wait" \in Places /\ at[l] = "up" /\ clear' = 0 /\ stored
      /\ removal' = (kind = "htmlfile")
      /\ kind = "websocket" \/ kind = "htmlfile"
      /\ UNCHANGED <<kind, connected, watch, stored, forgotten, open, echoing, blocked, slipped,
                     cut, silent>>
  BY DEF Heard, PostEnded, Streams, Places, browser, polls, network
<1>2. TypeOK'
  <2>1. began' = TRUE /\ removal' \in BOOLEAN
    BY <1>1 DEF Heard
  <2>. QED  BY <1>1, <2>1, GotoType, OldTypes
<1>3. /\ at'[l] = "wait" /\ age'[l] = 0
      /\ \A x \in Loops \ {l} : at'[x] = at[x] /\ age'[x] = age[x]
  BY <1>1, GotoFacts
<1>4. ~cut /\ silent = 0 /\ forgotten = Off /\ blocked = Off
  BY <1>1 DEF Shape
<1>5. Shape'
  BY <1>1, <1>4 DEF Shape
<1>6. Ahead'
  <2>. SUFFICES ASSUME Works' PROVE Going'
    BY DEF Ahead, Going
  <2>1. kind = "websocket" /\ Going
    BY <1>1 DEF Ahead, Going, Works, InTime, Unbroken
  <2>2. age[l] <= Latency /\ age[l] \in Nat
    BY <1>1, LongestFacts, Typing DEF TypeOK
  <2>3. WatchAhead'
    BY <1>1, <1>3, <2>1, <2>2, Typing DEF WatchAhead, Wait, Going
  <2>4. ClearAhead'
    BY <1>1, <1>3, <2>1, Typing DEF ClearAhead, Going
  <2>. QED  BY <1>1, <1>3, <2>1, <2>3, <2>4 DEF Going
<1>7. Behind'
  <2>1. kind = "htmlfile" => removal' = TRUE
    BY <1>1
  <2>2. clear' # Off /\ silent' = 0 /\ 0 <= clear' /\ kind' # "polling" /\ ~cut'
    BY <1>1, <1>4
  <2>3. kind' = kind
    BY <1>1
  <2>. QED  BY <2>1, <2>2, <2>3 DEF Behind
<1>. QED  BY <1>2, <1>5, <1>6, <1>7

LEMMA BeatKeeps == ASSUME IInv, NEW l \in Loops, Beat(l) PROVE IInv'
<1>. USE Times DEF IInv
<1>. DEFINE place == IF stored /\ connected /\ ~cut THEN "down" ELSE "off"
<1>1. /\ Goto(l, place) /\ place \in Places /\ at[l] = "wait" /\ age[l] = Interval
      /\ kind = "websocket" \/ kind = "htmlfile"
      /\ UNCHANGED <<kind, connected, watch, stored, clear, forgotten, removal, open, echoing,
                     blocked, began, slipped, cut, silent>>
  BY DEF Beat, Streams, Places, browser, timers, polls, past, network
<1>2. TypeOK'
  BY <1>1, GotoType, OldTypes
<1>3. /\ at'[l] = place /\ age'[l] = 0
      /\ \A x \in Loops \ {l} : at'[x] = at[x] /\ age'[x] = age[x]
  BY <1>1, GotoFacts
<1>4. Shape'
  BY <1>1, <1>3 DEF Shape
<1>5. Ahead'
  <2>. SUFFICES ASSUME Works' PROVE Going'
    BY DEF Ahead, Going
  <2>1. kind = "websocket" /\ ~cut /\ Going
    BY <1>1 DEF Ahead, Going, Works, InTime, Unbroken
  <2>2. at'[l] = "down"
    BY <1>3, <2>1 DEF Going
  <2>3. WatchAhead'
    BY <1>1, <1>3, <2>1, <2>2, Typing DEF WatchAhead, Wait, Going
  <2>4. ClearAhead'
    BY <1>1, <1>3, <2>1, <2>2, Typing DEF ClearAhead, Going
  <2>. QED  BY <1>1, <1>3, <2>1, <2>2, <2>3, <2>4 DEF Going
<1>6. Behind'
  BY <1>1 DEF Behind
<1>. QED  BY <1>2, <1>4, <1>5, <1>6

LEMMA PollKeeps == ASSUME IInv, Poll PROVE IInv'
<1>. USE Times DEF IInv
<1>1. /\ Goto(First, "wait") /\ "wait" \in Places /\ at[First] = "up" /\ clear' = Off
      /\ kind = "polling" /\ began' = TRUE /\ open' = TRUE
      /\ UNCHANGED <<kind, connected, watch, stored, forgotten, removal, echoing, blocked, slipped,
                     cut, silent>>
  BY DEF Poll, Places, browser, network
<1>2. TypeOK'
  BY <1>1, GotoType, OldTypes
<1>3. /\ at'[First] = "wait" /\ age'[First] = 0
      /\ \A x \in Loops \ {First} : at'[x] = at[x] /\ age'[x] = age[x]
  BY <1>1, GotoFacts
<1>4. ~cut /\ silent = 0
  BY <1>1 DEF Shape
<1>5. Shape'
  BY <1>1, <1>3, <1>4 DEF Shape
<1>6. Ahead'
  <2>. SUFFICES ASSUME Works' PROVE Going'
    BY DEF Ahead, Going
  <2>1. Going
    BY <1>1 DEF Ahead, Going, Works, InTime, Unbroken
  <2>2. age[First] <= Latency /\ age[First] \in Nat
    BY <1>1, LongestFacts, Typing DEF TypeOK
  <2>3. WatchAhead'
    BY <1>1, <1>3, <2>1, <2>2, Typing DEF WatchAhead, Going
  <2>4. ClearAhead'
    BY <1>1 DEF ClearAhead
  <2>. QED  BY <1>1, <1>3, <2>1, <2>3, <2>4 DEF Going
<1>7. Behind'
  BY <1>1, <1>3, <1>4 DEF Behind, PollingEnds
<1>. QED  BY <1>2, <1>5, <1>6, <1>7

(* A task takes the place of another one: one of them is at least as old   *)
(* as what kept the session so far, or the age of what ended is silence.   *)
LEMMA ScheduledEnds ==
    ASSUME IInv, kind = "polling", stored, began, Scheduled, silent' = silent,
           \/ PollingEnds /\ at[First] # "wait" /\ blocked = Off
           \/ silent <= PollTime
           \/ clear # Off /\ silent <= PollTime + clear
           \/ forgotten # Off /\ silent <= PollTime + forgotten
    PROVE  PollingEnds'
<1>. USE Times DEF IInv
<1>1. clear' = 0 /\ clear' # Off
  BY DEF Scheduled
<1>2. ASSUME silent <= PollTime PROVE PollingEnds'
  <2>1. silent' <= PollTime + clear'
    BY <1>1, <1>2, Typing
  <2>. QED  BY <1>1, <2>1 DEF PollingEnds
<1>3. ASSUME forgotten # Off, silent <= PollTime + forgotten PROVE PollingEnds'
  BY <1>3 DEF PollingEnds, Scheduled
<1>4. ASSUME clear # Off, silent <= PollTime + clear PROVE PollingEnds'
  <2>1. CASE forgotten = Off
    BY <1>4, <2>1 DEF PollingEnds, Scheduled
  <2>2. CASE forgotten # Off
    <3>1. clear <= forgotten
      BY <1>4, <2>2 DEF Shape
    <3>2. silent <= PollTime + forgotten
      BY <1>4, <2>2, <3>1, Typing
    <3>. QED  BY <1>3, <2>2, <3>2
  <2>. QED  BY <2>1, <2>2
<1>. QED  BY <1>2, <1>3, <1>4 DEF PollingEnds

LEMMA ScheduledTypes ==
    ASSUME TypeOK, Scheduled
    PROVE  clear' \in Timers /\ forgotten' \in Timers
BY OldTypes DEF Scheduled

LEMMA ScheduledOrder ==
    ASSUME IInv, Scheduled
    PROVE  clear' # Off /\ forgotten' # Off => clear' <= forgotten'
BY Times, Typing DEF IInv, Shape, Scheduled

LEMMA PollMissedKeeps == ASSUME IInv, PollMissed PROVE IInv'
<1>. USE Times DEF IInv
<1>1. /\ Goto(First, "off") /\ "off" \in Places /\ at[First] = "up" /\ kind = "polling" /\ stored
      /\ began' = TRUE /\ slipped' = TRUE /\ open' = FALSE /\ echoing' = FALSE /\ Scheduled
      /\ UNCHANGED <<kind, connected, watch, stored, removal, blocked, cut, silent>>
  BY DEF PollMissed, Places, browser, network
<1>2. TypeOK'
  BY <1>1, GotoType, OldTypes, ScheduledTypes
<1>3. at'[First] = "off" /\ \A x \in Loops \ {First} : at'[x] = at[x]
  BY <1>1, GotoFacts
<1>4. ~cut /\ silent = 0
  BY <1>1 DEF Shape
<1>5. Shape'
  BY <1>1, <1>3, <1>4, ScheduledOrder DEF Shape
<1>6. Ahead'
  BY <1>1 DEF Ahead, Works, Unbroken
<1>7. clear' = 0
  BY <1>1 DEF Scheduled
<1>8. Behind'
  BY <1>1, <1>4, <1>7 DEF Behind, PollingEnds
<1>. QED  BY <1>2, <1>5, <1>6, <1>8

LEMMA PollEndsKeeps == ASSUME IInv, PollEnds PROVE IInv'
<1>. USE Times DEF IInv
<1>. DEFINE place == IF connected /\ ~cut THEN "down" ELSE "off"
<1>1. /\ Goto(First, place) /\ place \in Places /\ at[First] = "wait" /\ kind = "polling"
      /\ Scheduled
      /\ UNCHANGED <<kind, connected, watch, stored, removal, open, echoing, blocked, began, slipped,
                     cut, silent>>
  BY DEF PollEnds, Places, browser, polls, past, network
<1>2. TypeOK'
  BY <1>1, GotoType, OldTypes, ScheduledTypes
<1>3. /\ at'[First] = place /\ age'[First] = 0
      /\ \A x \in Loops \ {First} : at'[x] = at[x] /\ age'[x] = age[x]
  BY <1>1, GotoFacts
<1>4. age[First] <= PollTime /\ age[First] \in Nat
  BY <1>1, LongestFacts, Typing DEF TypeOK, Wait
<1>5. Shape'
  BY <1>1, <1>3, ScheduledOrder DEF Shape, Scheduled
<1>6. Ahead'
  <2>. SUFFICES ASSUME Works' PROVE Going'
    BY DEF Ahead, Going
  <2>1. ~cut /\ Going
    BY <1>1 DEF Ahead, Going, Works, InTime, Unbroken
  <2>2. at'[First] = "down" /\ age'[First] = 0
    BY <1>3, <2>1 DEF Going
  <2>3. WatchAhead'
    BY <1>1, <1>4, <2>1, <2>2, Typing DEF WatchAhead, Wait, Going
  <2>4. ClearAhead'
    BY <1>1, <2>2 DEF ClearAhead, Scheduled
  <2>. QED  BY <1>1, <2>1, <2>2, <2>3, <2>4 DEF Going
<1>7. Behind'
  <2>1. stored /\ began => PollingEnds'
    <3>. SUFFICES ASSUME stored, began PROVE PollingEnds'
      OBVIOUS
    <3>1. CASE at[First] = "wait" /\ silent <= age[First]
      BY <1>1, <1>4, <3>1, ScheduledEnds, Typing
    <3>2. CASE blocked # Off /\ silent <= blocked
      BY <1>1, <3>2 DEF PollingEnds
    <3>3. CASE clear # Off /\ silent <= PollTime + clear
      BY <1>1, <3>3, ScheduledEnds
    <3>4. CASE forgotten # Off /\ silent <= PollTime + forgotten
      BY <1>1, <3>4, ScheduledEnds
    <3>. QED  BY <1>1, <3>1, <3>2, <3>3, <3>4 DEF Behind, PollingEnds
  <2>. QED  BY <1>1, <2>1 DEF Behind
<1>. QED  BY <1>2, <1>5, <1>6, <1>7

LEMMA EchoKeeps == ASSUME IInv, Echo PROVE IInv'
<1>. USE Times DEF IInv
<1>1. /\ kind = "polling" /\ connected /\ stored /\ ~cut /\ silent = 0 /\ echoing' = TRUE
      /\ UNCHANGED <<kind, connected, watch, stored, clear, forgotten, removal, open, began, cut,
                     silent>>
  BY DEF Echo, Shape, browser, timers, network
<1>2. CASE at[First] = "wait" /\ blocked' = age[First] /\ Goto(First, "down") /\ slipped' = TRUE
  <2>1. "down" \in Places
    BY DEF Places
  <2>2. age[First] \in 0..PollTime
    BY <1>1, <1>2, LongestFacts, Typing DEF TypeOK, Wait
  <2>3. TypeOK'
    BY <1>1, <1>2, <2>1, <2>2, GotoType, OldTypes
  <2>4. at'[First] = "down" /\ \A x \in Loops \ {First} : at'[x] = at[x]
    BY <1>2, <2>1, GotoFacts
  <2>5. Shape'
    BY <1>1, <1>2, <2>4 DEF Shape
  <2>6. Ahead'
    BY <1>1, <1>2 DEF Ahead, Works, Unbroken
  <2>7. Behind'
    BY <1>1, <1>2, <2>2 DEF Behind, PollingEnds
  <2>. QED  BY <2>3, <2>5, <2>6, <2>7
<1>3. CASE UNCHANGED <<blocked, at, age, slipped>>
  <2>1. TypeOK'
    BY <1>1, <1>3, OtherType, OldTypes
  <2>2. Shape' /\ Behind'
    BY <1>1, <1>3 DEF Shape, Behind, PollingEnds
  <2>3. Ahead'
    BY <1>1, <1>3 DEF Ahead, Works, InTime, Unbroken, WatchAhead, ClearAhead, Wait
  <2>. QED  BY <2>1, <2>2, <2>3
<1>. QED  BY <1>2, <1>3 DEF Echo, loops

LEMMA EchoEndsKeeps == ASSUME IInv, EchoEnds PROVE IInv'
<1>. USE DEF IInv
<1>1. /\ echoing' = FALSE /\ open' = FALSE
      /\ UNCHANGED <<kind, connected, watch, stored, clear, forgotten, removal, blocked, at, age,
                     began, slipped, cut, silent>>
  BY DEF EchoEnds, browser, timers, loops, past, network
<1>2. TypeOK'
  BY <1>1, OtherType, OldTypes
<1>3. Shape' /\ Behind'
  BY <1>1 DEF Shape, Behind, PollingEnds
<1>4. Ahead'
  BY <1>1 DEF Ahead, Works, InTime, Unbroken, WatchAhead, ClearAhead, Wait
<1>. QED  BY <1>2, <1>3, <1>4

LEMMA BlockedEndsKeeps == ASSUME IInv, BlockedEnds PROVE IInv'
<1>. USE Times DEF IInv
<1>1. /\ blocked # Off /\ blocked' = Off /\ Scheduled
      /\ UNCHANGED <<kind, connected, watch, stored, removal, open, echoing, at, age, began, slipped,
                     cut, silent>>
  BY DEF BlockedEnds, browser, loops, past, network
<1>2. kind = "polling" /\ slipped
  BY <1>1, Typing DEF Shape
<1>3. TypeOK'
  BY <1>1, OtherType, OldTypes, ScheduledTypes
<1>4. Shape'
  BY <1>1, <1>2, ScheduledOrder DEF Shape
<1>5. Ahead'
  BY <1>1, <1>2 DEF Ahead, Works, Unbroken
<1>6. Behind'
  <2>1. stored /\ began => PollingEnds'
    <3>. SUFFICES ASSUME stored, began PROVE PollingEnds'
      OBVIOUS
    <3>1. CASE at[First] = "wait" /\ silent <= age[First]
      BY <1>1, <3>1 DEF PollingEnds
    <3>2. CASE blocked # Off /\ silent <= blocked
      <4>1. silent <= PollTime
        BY <3>2, Typing
      <4>. QED  BY <1>1, <1>2, <4>1, ScheduledEnds
    <3>3. CASE clear # Off /\ silent <= PollTime + clear
      BY <1>1, <1>2, <3>3, ScheduledEnds
    <3>4. CASE forgotten # Off /\ silent <= PollTime + forgotten
      BY <1>1, <1>2, <3>4, ScheduledEnds
    <3>. QED  BY <1>2, <3>1, <3>2, <3>3, <3>4 DEF Behind, PollingEnds
  <2>. QED  BY <1>1, <1>2, <2>1 DEF Behind
<1>. QED  BY <1>3, <1>4, <1>5, <1>6

LEMMA LostKeeps ==
    ASSUME IInv, Lost, UNCHANGED <<kind, watch, blocked, silent>>, cut \/ silent' = 0, cut => cut',
           \/ UNCHANGED <<clear, forgotten, removal>>
           \/ clear' = Off /\ forgotten' = Off /\ removal' = FALSE,
           {connected', stored', open', echoing', began', slipped', cut'} \subseteq BOOLEAN,
           slipped' = slipped
    PROVE  TypeOK' /\ Shape'
<1>. USE Times DEF IInv
<1>1. at' \in [Loops -> Places] /\ age' \in [Loops -> Nat]
  BY Typing DEF Lost, Places
<1>2. \A x \in Loops : at'[x] \in {"off", "wait"} /\ (at'[x] = "wait" <=> at[x] = "wait")
  BY Typing DEF Lost
<1>3. kind' \in Streams \cup {"polling"}
  BY DEF TypeOK
<1>4. \A x \in Loops : age'[x] <= Longest(x)'
  <2>. SUFFICES ASSUME NEW x \in Loops PROVE age'[x] <= Longest(x)'
    OBVIOUS
  <2>1. CASE at[x] = "wait"
    <3>1. age'[x] = age[x] /\ at'[x] = "wait" /\ age[x] <= Longest(x)
      BY <2>1 DEF Lost, TypeOK
    <3>2. Longest(x)' = Wait' /\ Longest(x) = Wait /\ Wait' = Wait
      BY <1>1, <1>3, <2>1, <3>1, LongestFacts, LongestFactsPrimed DEF Wait
    <3>. QED  BY <3>1, <3>2
  <2>2. CASE at[x] # "wait"
    <3>1. at'[x] = "off" /\ age'[x] = 0
      BY <2>2 DEF Lost
    <3>. QED  BY <1>1, <1>3, <3>1, LongestFactsPrimed
  <2>. QED  BY <2>1, <2>2
<1>5. /\ watch' \in 0..Timeout /\ clear' \in Timers /\ forgotten' \in Timers
      /\ blocked' \in (0..PollTime) \cup {Off} /\ silent' \in 0..(Grace' + 1)
      /\ removal' \in BOOLEAN
  BY OldTypes DEF TypeOK, Grace
<1>6. TypeOK'
  BY <1>1, <1>3, <1>4, <1>5 DEF TypeOK, Timers, Places
<1>7. Shape'
  BY <1>2 DEF Shape
<1>. QED  BY <1>6, <1>7

(* The heart of Kept: while the network works no timer gets to its end. *)
LEMMA NotDue ==
    ASSUME IInv, Works
    PROVE  /\ watch < Timeout /\ (clear # Off => clear < Timeout)
           /\ forgotten = Off /\ removal = FALSE
<1>. USE Times DEF IInv
<1>1. at[First] # "off" /\ WatchAhead /\ ClearAhead
  BY DEF Ahead
<1>2. /\ at[First] \in {"up", "down"} => age[First] <= Latency
      /\ at[First] = "wait" => age[First] <= Wait
  BY LongestFacts DEF TypeOK
<1>3. /\ Interval + 2 * Latency < Timeout /\ PollTime + 2 * Latency < Timeout
      /\ Wait + 2 * Latency < Timeout
  BY DEF Works, InTime, Wait
<1>4. at[First] \in {"up", "wait", "down"} /\ age[First] \in Nat
  BY <1>1, Typing DEF Places
<1>5. kind = "websocket" \/ (kind = "polling" /\ ~slipped)
  BY DEF Works, Unbroken
<1>6. forgotten = Off /\ removal = FALSE
  BY <1>5 DEF Shape
<1>7. watch < Timeout
  BY <1>1, <1>2, <1>3, <1>4, Typing DEF WatchAhead
<1>8. ASSUME clear # Off PROVE clear < Timeout
  <2>1. CASE kind = "websocket"
    <3>1. Wait = Interval
      BY <2>1 DEF Wait, Streams
    <3>. QED  BY <1>1, <1>2, <1>3, <1>4, <1>8, <2>1, <3>1, Typing DEF ClearAhead
  <2>2. CASE kind = "polling" /\ ~slipped
    <3>1. at[First] # "wait"
      BY <1>8, <2>2 DEF Shape
    <3>. QED  BY <1>1, <1>2, <1>3, <1>4, <1>8, <2>2, <3>1, Typing DEF ClearAhead
  <2>. QED  BY <1>5, <2>1, <2>2
<1>. QED  BY <1>6, <1>7, <1>8

LEMMA ClearKeeps == ASSUME IInv, Clear PROVE IInv'
<1>. USE Times DEF IInv
<1>1. /\ stored' = FALSE /\ clear' = Off /\ forgotten' = Off /\ removal' = FALSE /\ Lost
      /\ removal \/ clear = Timeout \/ forgotten = Timeout
      /\ UNCHANGED <<kind, connected, watch, open, echoing, blocked, began, slipped, cut, silent>>
  BY DEF Clear, browser, polls, past, network
<1>2. TypeOK' /\ Shape'
  <2>1. cut \/ silent' = 0
    BY <1>1 DEF Shape
  <2>2. {connected', stored', open', echoing', began', slipped', cut'} \subseteq BOOLEAN
    BY <1>1, OldTypes
  <2>. QED  BY <1>1, <2>1, <2>2, LostKeeps
<1>3. ~Works
  <2>. SUFFICES ASSUME Works PROVE FALSE
    OBVIOUS
  <2>1. watch < Timeout /\ (clear # Off => clear < Timeout) /\ forgotten = Off /\ ~removal
    BY NotDue
  <2>. QED  BY <1>1, <2>1
<1>4. Ahead'
  BY <1>1, <1>3 DEF Ahead, Works, InTime, Unbroken
<1>5. Behind'
  BY <1>1 DEF Behind
<1>. QED  BY <1>2, <1>4, <1>5

-----------------------------------------------------------------------------
(* The browser *)

LEMMA AnsweredKeeps == ASSUME IInv, NEW l \in Loops, Answered(l) PROVE IInv'
<1>. USE Times DEF IInv
<1>1. /\ Goto(l, "up") /\ "up" \in Places /\ at[l] = "down" /\ watch' = 0
      /\ UNCHANGED <<kind, connected, stored, clear, forgotten, removal, open, echoing, blocked,
                     began, slipped, cut, silent>>
  BY DEF Answered, Places, timers, polls, past, network
<1>2. TypeOK'
  BY <1>1, GotoType, OldTypes
<1>3. /\ at'[l] = "up" /\ age'[l] = 0
      /\ \A x \in Loops \ {l} : at'[x] = at[x] /\ age'[x] = age[x]
  BY <1>1, GotoFacts
<1>4. ~cut /\ silent = 0 /\ (kind = "polling" => l = First)
  BY <1>1 DEF Shape
<1>5. Shape'
  BY <1>1, <1>3, <1>4 DEF Shape
<1>6. age[l] <= Latency /\ age[l] \in Nat
  BY <1>1, LongestFacts, Typing DEF TypeOK
<1>7. Ahead'
  <2>. SUFFICES ASSUME Works' PROVE Going'
    BY DEF Ahead, Going
  <2>1. Going
    BY <1>1 DEF Ahead, Going, Works, InTime, Unbroken
  <2>2. at'[First] # "off" /\ age'[First] \in Nat
    BY <1>3, <2>1, Typing DEF Going
  <2>3. WatchAhead'
    BY <1>1, <2>2 DEF WatchAhead, Wait
  <2>4. ClearAhead'
    BY <1>1, <1>3, <1>4, <1>6, <2>1, Typing DEF ClearAhead, Going
  <2>. QED  BY <1>1, <2>1, <2>2, <2>3, <2>4 DEF Going
<1>8. Behind'
  BY <1>1, <1>3, <1>4, Typing DEF Behind, PollingEnds
<1>. QED  BY <1>2, <1>5, <1>7, <1>8

LEMMA MessageKeeps == ASSUME IInv, Message PROVE IInv'
<1>. USE Times DEF IInv
<1>1. /\ ~cut /\ watch' = 0
      /\ UNCHANGED <<kind, connected, stored, clear, forgotten, removal, open, echoing, blocked, at,
                     age, began, slipped, cut, silent>>
  BY DEF Message, timers, polls, loops, past, network
<1>2. TypeOK'
  BY <1>1, OtherType, OldTypes
<1>3. Shape'
  BY <1>1 DEF Shape
<1>4. Ahead'
  <2>. SUFFICES ASSUME Works' PROVE Going'
    BY DEF Ahead, Going
  <2>1. Going
    BY <1>1 DEF Ahead, Going, Works, InTime, Unbroken
  <2>2. WatchAhead'
    BY <1>1, Typing DEF WatchAhead, Wait
  <2>3. ClearAhead'
    BY <1>1, <2>1 DEF ClearAhead, Going
  <2>. QED  BY <1>1, <2>1, <2>2, <2>3 DEF Going
<1>5. Behind'
  BY <1>1 DEF Behind, PollingEnds
<1>. QED  BY <1>2, <1>3, <1>4, <1>5

LEMMA OfKeeps == ASSUME IInv, NEW l \in Loops, Of(l) PROVE IInv'
<1>. USE Times DEF IInv
<1>1. /\ Goto(l, "up") /\ "up" \in Places /\ at[l] = "off" /\ ~cut
      /\ kind = "websocket" \/ kind = "htmlfile"
      /\ UNCHANGED <<kind, connected, watch, stored, clear, forgotten, removal, open, echoing,
                     blocked, began, slipped, cut, silent>>
  BY DEF Of, Streams, Places, browser, timers, polls, past, network
<1>2. TypeOK'
  BY <1>1, GotoType, OldTypes
<1>3. /\ at'[l] = "up" /\ age'[l] = 0
      /\ \A x \in Loops \ {l} : at'[x] = at[x] /\ age'[x] = age[x]
  BY <1>1, GotoFacts
<1>4. Shape'
  BY <1>1, <1>3 DEF Shape
<1>5. Ahead'
  <2>. SUFFICES ASSUME Works' PROVE Going'
    BY DEF Ahead, Going
  <2>1. Going
    BY <1>1 DEF Ahead, Going, Works, InTime, Unbroken
  <2>2. at'[First] = at[First] /\ age'[First] = age[First]
    BY <1>1, <1>3, <2>1 DEF Going
  <2>3. WatchAhead' /\ ClearAhead'
    BY <1>1, <2>1, <2>2 DEF WatchAhead, ClearAhead, Wait, Going
  <2>. QED  BY <1>1, <2>1, <2>2, <2>3 DEF Going
<1>6. Behind'
  BY <1>1 DEF Behind
<1>. QED  BY <1>2, <1>4, <1>5, <1>6

LEMMA GiveUpKeeps == ASSUME IInv, GiveUp PROVE IInv'
<1>. USE Times DEF IInv
<1>1. /\ connected /\ watch = Limit /\ connected' = FALSE /\ Lost
      /\ UNCHANGED <<kind, watch, stored, clear, forgotten, removal, open, echoing, blocked, began,
                     slipped, cut, silent>>
  BY DEF GiveUp, timers, polls, past, network
<1>2. TypeOK' /\ Shape'
  <2>1. cut \/ silent' = 0
    BY <1>1 DEF Shape
  <2>2. {connected', stored', open', echoing', began', slipped', cut'} \subseteq BOOLEAN
    BY <1>1, OldTypes
  <2>. QED  BY <1>1, <2>1, <2>2, LostKeeps
<1>3. ~Works
  <2>. SUFFICES ASSUME Works PROVE FALSE
    OBVIOUS
  <2>1. Limit = Timeout
    BY DEF Works, Limit
  <2>2. watch < Timeout
    BY NotDue
  <2>. QED  BY <1>1, <2>1, <2>2
<1>4. Ahead'
  BY <1>1, <1>3 DEF Ahead, Works, InTime, Unbroken
<1>5. at[First] = "wait" => at'[First] = "wait" /\ age'[First] = age[First]
  BY <1>1 DEF Lost
<1>6. Behind'
  BY <1>1, <1>5 DEF Behind, PollingEnds
<1>. QED  BY <1>2, <1>4, <1>6

-----------------------------------------------------------------------------
(* The network and the clock *)

LEMMA CutKeeps == ASSUME IInv, Cut PROVE IInv'
<1>. USE Times DEF IInv
<1>1. /\ cut' = TRUE /\ silent = 0 /\ Lost
      /\ UNCHANGED <<kind, connected, watch, stored, clear, forgotten, removal, open, echoing,
                     blocked, began, slipped, silent>>
  BY DEF Cut, Shape, browser, timers, polls, past
<1>2. TypeOK' /\ Shape'
  <2>1. {connected', stored', open', echoing', began', slipped', cut'} \subseteq BOOLEAN
    BY <1>1, OldTypes
  <2>. QED  BY <1>1, <2>1, LostKeeps
<1>3. Ahead'
  BY <1>1 DEF Ahead, Works
<1>4. at[First] = "wait" => at'[First] = "wait" /\ age'[First] = age[First]
  BY <1>1 DEF Lost
<1>5. Behind'
  BY <1>1, <1>4, Typing DEF Behind, PollingEnds
<1>. QED  BY <1>2, <1>3, <1>5

(* A tick makes every timer of a session that is stored a tick older. *)
LEMMA OlderFacts ==
    ASSUME TypeOK, NEW timer \in Timers, stored /\ timer \in Nat => timer < Timeout
    PROVE  /\ Older(timer) \in Timers /\ (Older(timer) = Off <=> timer = Off)
           /\ stored /\ timer # Off => Older(timer) = timer + 1
           /\ ~stored => Older(timer) = timer
BY Times DEF Older, Timers, TypeOK

LEMMA TickKeeps == ASSUME IInv, Tick PROVE IInv'
<1>. USE Times DEF IInv
<1>1. /\ UNCHANGED <<kind, connected, stored, removal, open, echoing, at, began, slipped, cut>>
      /\ connected => watch < Limit
      /\ stored => removal = FALSE
      /\ watch' = (IF connected THEN watch + 1 ELSE watch)
      /\ blocked # Off => blocked < PollTime
      /\ blocked' = (IF blocked = Off THEN Off ELSE blocked + 1)
      /\ silent' = (IF cut /\ silent <= Grace THEN silent + 1 ELSE silent)
  BY Typing DEF Tick, past
<1>2. /\ age' \in [Loops -> Nat]
      /\ \A l \in Loops : /\ at[l] = "off" => age'[l] = age[l]
                          /\ at[l] # "off" => age'[l] = age[l] + 1 /\ age[l] < Longest(l)
  BY Typing DEF Tick
<1>3. /\ clear' \in Timers /\ (clear' = Off <=> clear = Off)
      /\ stored /\ clear # Off => clear' = clear + 1
      /\ ~stored => clear' = clear
  BY OldTypes, OlderFacts DEF Tick
<1>4. /\ forgotten' \in Timers /\ (forgotten' = Off <=> forgotten = Off)
      /\ stored /\ forgotten # Off => forgotten' = forgotten + 1
      /\ ~stored => forgotten' = forgotten
  BY OldTypes, OlderFacts DEF Tick
<1>5. blocked' \in (0..PollTime) \cup {Off} /\ (blocked' = Off <=> blocked = Off)
  BY <1>1, Typing
<1>6. TypeOK'
  <2>1. \A x \in Loops : Longest(x)' = Longest(x) /\ Longest(x) \in Nat
    BY <1>1, Typing, LongestFacts DEF Longest, Places
  <2>2. \A x \in Loops : age'[x] <= Longest(x)'
    BY <1>2, <2>1, Typing DEF TypeOK
  <2>3. watch' \in 0..Timeout
    BY <1>1, Typing
  <2>4. silent' \in 0..(Grace' + 1)
    <3>1. Grace' = Grace /\ silent \in 0..(Grace + 1)
      BY <1>1 DEF Grace, TypeOK
    <3>. QED  BY <1>1, <3>1
  <2>. QED  BY <1>1, <1>2, <1>3, <1>4, <1>5, <2>2, <2>3, <2>4 DEF TypeOK, Timers
<1>7. Shape'
  <2>1. clear' # Off /\ forgotten' # Off => clear' <= forgotten'
    BY <1>3, <1>4, Typing DEF Shape
  <2>. QED  BY <1>1, <1>3, <1>4, <1>5, <2>1 DEF Shape
<1>8. Ahead'
  <2>. SUFFICES ASSUME Works' PROVE Going'
    BY DEF Ahead, Going
  <2>1. Going
    BY <1>1 DEF Ahead, Going, Works, InTime, Unbroken
  <2>2. age'[First] = age[First] + 1 /\ watch' = watch + 1
    BY <1>1, <1>2, <2>1 DEF Going
  <2>3. WatchAhead'
    BY <1>1, <2>1, <2>2, Typing DEF WatchAhead, Wait, Going
  <2>4. ClearAhead'
    BY <1>1, <1>3, <2>1, <2>2, Typing DEF ClearAhead, Going
  <2>. QED  BY <1>1, <2>1, <2>3, <2>4 DEF Going
<1>9. Behind'
  <2>1. silent' <= silent + 1 /\ (at[First] = "wait" => age'[First] = age[First] + 1)
    BY <1>1, <1>2, Typing
  <2>2. (cut /\ connected => silent <= watch)'
    BY <1>1, <2>1, Typing DEF Behind
  <2>3. (kind = "websocket" /\ began /\ stored => clear # Off /\ silent <= clear)'
    BY <1>1, <1>3, <2>1, Typing DEF Behind
  <2>4. (kind = "htmlfile" /\ began /\ stored => removal = TRUE /\ silent = 0)'
    BY <1>1 DEF Behind
  <2>5. (kind = "polling" /\ began /\ stored => PollingEnds)'
    <3>. SUFFICES ASSUME kind = "polling", began, stored PROVE PollingEnds'
      BY <1>1
    <3>1. CASE at[First] = "wait" /\ silent <= age[First]
      BY <1>1, <2>1, <3>1, Typing DEF PollingEnds
    <3>2. CASE blocked # Off /\ silent <= blocked
      BY <1>1, <1>5, <2>1, <3>2, Typing DEF PollingEnds
    <3>3. CASE clear # Off /\ silent <= PollTime + clear
      BY <1>1, <1>3, <2>1, <3>3, Typing DEF PollingEnds
    <3>4. CASE forgotten # Off /\ silent <= PollTime + forgotten
      BY <1>1, <1>4, <2>1, <3>4, Typing DEF PollingEnds
    <3>. QED  BY <3>1, <3>2, <3>3, <3>4 DEF Behind, PollingEnds
  <2>. QED  BY <2>2, <2>3, <2>4, <2>5 DEF Behind
<1>. QED  BY <1>6, <1>7, <1>8, <1>9

-----------------------------------------------------------------------------
(* The theorems *)

LEMMA InitKeeps == ASSUME Init PROVE IInv
<1>. USE Times
<1>1. /\ connected = TRUE /\ stored = TRUE /\ clear = Off /\ forgotten = Off /\ removal = FALSE
      /\ blocked = Off /\ open \in BOOLEAN /\ echoing \in BOOLEAN
      /\ age = [l \in Loops |-> 0] /\ began = FALSE /\ slipped = FALSE /\ cut = FALSE /\ silent = 0
  BY DEF Init
<1>2. kind \in Streams \cup {"polling"} /\ at \in [Loops -> Places]
  BY DEF Init, Places
<1>3. TypeOK
  <2>1. \A l \in Loops : 0 <= Longest(l)
    BY <1>2 DEF Longest, Places, Streams
  <2>2. watch \in 0..Timeout
    BY DEF Init
  <2>3. age \in [Loops -> Nat] /\ \A l \in Loops : age[l] <= Longest(l)
    BY <1>1, <2>1
  <2>4. silent \in 0..(Grace + 1)
    BY <1>1
  <2>. QED  BY <1>1, <1>2, <2>2, <2>3, <2>4 DEF TypeOK, Places
<1>4. Shape
  BY <1>1 DEF Init, Shape, Streams
<1>5. Ahead
  <2>. SUFFICES ASSUME Works PROVE Going
    BY DEF Ahead, Going
  <2>1. CASE kind \in Streams
    <3>1. First \in Asked
      BY <2>1 DEF Works, Unbroken, Streams
    <3>. QED  BY <1>1, <2>1, <3>1 DEF Init, WatchAhead, ClearAhead, Going, Streams
  <2>2. CASE kind = "polling"
    <3>1. at[First] = "down" /\ watch \in 0..Latency
      BY <2>2 DEF Init, Streams
    <3>2. WatchAhead
      BY <1>1, <2>2, <3>1 DEF WatchAhead, Wait, Streams
    <3>. QED  BY <1>1, <3>1, <3>2 DEF ClearAhead, Going
  <2>. QED  BY <1>2, <2>1, <2>2
<1>6. Behind
  BY <1>1 DEF Behind
<1>. QED  BY <1>3, <1>4, <1>5, <1>6 DEF IInv

LEMMA StepKeeps == ASSUME IInv, [Next]_vars PROVE IInv'
<1>1. CASE Next
  BY <1>1, HeardKeeps, BeatKeeps, PollKeeps, PollMissedKeeps, PollEndsKeeps, EchoKeeps,
     EchoEndsKeeps, BlockedEndsKeeps, ClearKeeps, AnsweredKeeps, MessageKeeps, OfKeeps,
     GiveUpKeeps, CutKeeps, TickKeeps DEF Next
<1>2. CASE UNCHANGED vars
  <2>1. UNCHANGED <<kind, connected, watch, stored, clear, forgotten, removal, open, echoing,
                    blocked, at, age, began, slipped, cut, silent>>
    BY <1>2 DEF vars, browser, timers, polls, loops, past, network
  <2>2. TypeOK'
    BY <2>1, OtherType, OldTypes DEF IInv
  <2>3. Shape' /\ Behind'
    BY <2>1 DEF IInv, Shape, Behind, PollingEnds
  <2>4. Ahead'
    BY <2>1 DEF IInv, Ahead, Works, InTime, Unbroken, WatchAhead, ClearAhead, Wait
  <2>. QED  BY <2>2, <2>3, <2>4 DEF IInv
<1>. QED  BY <1>1, <1>2

LEMMA InvariantHolds == Spec => []IInv
BY InitKeeps, StepKeeps, PTL DEF Spec

(* Type correctness of the timed model. *)
THEOREM TypeCorrect == Spec => []TypeOK
<1>1. IInv => TypeOK
  BY DEF IInv
<1>. QED  BY <1>1, InvariantHolds, PTL

(* With times that leave room for a beat and its answer, neither a clear   *)
(* task of the server, one that no field names included, nor the heartbeat *)
(* timeout of the browser ever ends an unbroken session while the network  *)
(* works: a websocket with a namespace, whatever the order of beats and    *)
(* messages, and a polling session as long as no echo ends a poll that     *)
(* waits or makes one find open false.                                     *)
THEOREM WorkingConnectionKept == Spec => []Kept
<1>1. IInv => Kept
  BY DEF IInv, Ahead, Works, Kept
<1>. QED  BY <1>1, InvariantHolds, PTL

(* Whatever the times, a browser that lost the server notices within the   *)
(* heartbeat timeout and a server that lost the browser within Grace.      *)
THEOREM SilenceNoticed == Spec => []Noticed
<1>1. IInv => Noticed
  <2>. SUFFICES ASSUME IInv PROVE Noticed
    OBVIOUS
  <2>. USE Times DEF IInv
  <2>1. silent > 0 => cut
    BY DEF Shape
  <2>2. silent > Timeout => ~connected
    BY <2>1, Typing DEF Behind
  <2>3. at[First] = "wait" => age[First] <= Wait /\ age[First] \in Nat
    BY LongestFacts, Typing DEF TypeOK
  <2>4. ASSUME began, silent > Grace, stored PROVE FALSE
    <3>1. CASE kind = "websocket"
      BY <2>4, <3>1, Typing DEF Behind, Grace
    <3>2. CASE kind = "htmlfile"
      BY <2>4, <3>2, Typing DEF Behind, Grace
    <3>3. CASE kind = "polling"
      <4>1. Wait = PollTime /\ Grace = PollTime + Timeout
        BY <3>3 DEF Wait, Grace, Streams
      <4>. QED  BY <2>3, <2>4, <3>3, <4>1, Typing DEF Behind, PollingEnds
    <3>. QED  BY <3>1, <3>2, <3>3, Typing
  <2>. QED  BY <2>2, <2>4 DEF Noticed
<1>. QED  BY <1>1, InvariantHolds, PTL

=============================================================================
