----------------------------- MODULE Heartbeat -----------------------------
(***************************************************************************)
(* How both ends of a session find out that the other one is gone, and     *)
(* what time they have for it: the 25 s beat and the 60 s clear task of    *)
(* the server, its poll of 20 s, and the browser's heartbeat timeout, all  *)
(* in competition with messages that are on their way.                     *)
(*                                                                         *)
(* What keeps a session alive is a loop.  For a websocket or an htmlfile   *)
(* there is one for each namespace: its connect packet, and later each     *)
(* "2::" of the browser, makes the server schedule the next "2::".  For a  *)
(* polling transport there is one: a GET, its wait, its answer.            *)
(*                                                                         *)
(* Two things break a loop although the network works.  An htmlfile sends  *)
(* its packets up by POST, and the end of a POST is taken for the end of   *)
(* the session.  A polling client has a connect packet echoed on whatever  *)
(* poll it has: the worker of that poll waits on, and open = false, which  *)
(* follows the echo, may undo the reconnect of the next poll.              *)
(*                                                                         *)
(* Abstractions.  Time is counted in ticks.  A timer goes off when it is   *)
(* due, in any order with what happens at the same tick; a message takes   *)
(* at most Latency, and the end of a POST less than a tick.  What a client *)
(* does when its connection ends is in Sessions and ClientSocket.          *)
(***************************************************************************)
EXTENDS Naturals

CONSTANTS
    Loops, First,       \* namespaces other than '', and one of them
    Asked,              \* those opened as soon as the socket is connected
    Interval,           \* option.heartbeat_interval, all in ticks
    Timeout,            \* option.heartbeat_timeout
    PollTime,           \* the wait in XhrIO.heartbeat
    Latency,            \* of a message or request
    Heartbeats,         \* option.heartbeat
    Off                 \* a timer that does not run

ASSUME LoopsAssumption == First \in Loops /\ Asked \subseteq Loops
ASSUME TimesAssumption ==
    /\ Interval \in Nat /\ Timeout \in Nat /\ PollTime \in Nat /\ Latency \in Nat
    /\ Off \notin Nat
ASSUME HeartbeatsAssumption == Heartbeats \in BOOLEAN

VARIABLES
    kind,               \* the transport: "websocket", "htmlfile" or "polling"
    connected, watch,   \* the browser: Socket.connected, age of its heartbeat timer
    stored,             \* the session is in the store
    clear, forgotten,   \* age of the clear task that scheduledFuture names, and of the
                        \* oldest of those it named before
    removal,            \* the task of scheduleRemoveTask is pending
    open,               \* XhrIO.open
    echoing,            \* a worker has written an echo and not set open to false yet
    blocked,            \* how long a worker waits whose poll an echo has ended
    at, age,            \* of every loop: where it is, and for how long
    began,              \* history: IOClient.heartbeat was called
    slipped,            \* history: an echo ended a poll, or a poll found open false
    cut, silent         \* the network is gone, and for how long

browser == <<connected, watch>>
timers  == <<clear, forgotten, removal>>
polls   == <<open, echoing, blocked>>
loops   == <<at, age>>
past    == <<began, slipped>>
network == <<cut, silent>>
vars    == <<kind, browser, stored, timers, polls, loops, past, network>>

Streams == {"websocket", "htmlfile"}

\* Mutant: the timeout in the handshake's answer is multiplied twice.
LimitTwice == 1000 * Timeout

(* The timeout in the handshake's answer: '' stands for none, which the    *)
(* browser multiplies by 1000.                                             *)
Limit == IF Heartbeats THEN Timeout ELSE 0

(* How long a loop may stay where it is. *)
Longest(l) ==
    CASE at[l] \in {"up", "down"} -> Latency
      [] at[l] = "wait" /\ kind \in Streams   -> Interval
      [] at[l] = "wait" /\ kind = "polling"   -> PollTime
      [] at[l] = "off" -> 0

(* "1::" has reached the browser of a stream, which announces its          *)
(* namespaces; that of a polling transport, which answered the first GET,  *)
(* is on its way.                                                          *)
Init ==
    /\ connected = TRUE /\ stored = TRUE
    /\ clear = Off /\ forgotten = Off /\ removal = FALSE
    /\ blocked = Off
    /\ \/ /\ kind \in Streams
          /\ watch = 0
          /\ at = [l \in Loops |-> IF l \in Asked THEN "up" ELSE "off"]
          /\ open = TRUE /\ echoing = FALSE
       \/ /\ kind = "polling"
          /\ watch \in 0..Latency /\ watch <= Limit
          /\ at = [l \in Loops |-> IF l = First THEN "down" ELSE "off"]
          /\ open = TRUE /\ echoing = TRUE
    /\ age = [l \in Loops |-> 0]
    /\ began = FALSE /\ slipped = FALSE /\ cut = FALSE /\ silent = 0

Goto(l, place) ==
    /\ at'  = [at EXCEPT ![l] = place]
    /\ age' = [age EXCEPT ![l] = 0]

(* What is on its way is lost; what waits at the server waits on. *)
Lost ==
    /\ at'  = [l \in Loops |-> IF at[l] = "wait" THEN "wait" ELSE "off"]
    /\ age' = [l \in Loops |-> IF at[l] = "wait" THEN age[l] ELSE 0]

-----------------------------------------------------------------------------
(* The server *)

(* scheduleClearTask: the field names the new task, and the one it named   *)
(* before goes on.                                                         *)
Scheduled ==
    /\ clear' = 0
    /\ forgotten' = IF forgotten = Off THEN clear ELSE forgotten

(* The end of the POST that brought it to an htmlfile makes                *)
(* channelDisconnected schedule a removal; if heartbeat cancelled that of  *)
(* another POST, its own takes the place.                                  *)
PostEnded == removal' = (kind = "htmlfile")

\* Mutant: the clear task of the beat before is neither cancelled nor replaced.
HeardStale(l) ==
    /\ kind \in Streams
    /\ stored /\ at[l] = "up"
    /\ Goto(l, "wait")
    /\ began' = TRUE
    /\ clear' = IF clear = Off THEN 0 ELSE clear
    /\ PostEnded
    /\ UNCHANGED <<kind, browser, stored, forgotten, polls, slipped, network>>

(* A connect packet or a "2::" gets to heartbeat: it cancels the clear     *)
(* task, schedules a new one and the next beat.                            *)
Heard(l) ==
    /\ kind \in Streams
    /\ stored /\ at[l] = "up"
    /\ Goto(l, "wait")
    /\ began' = TRUE
    /\ clear' = 0
    /\ PostEnded
    /\ UNCHANGED <<kind, browser, stored, forgotten, polls, slipped, network>>

\* Mutant: a beat that is sent counts as one that was answered.
BeatCounts(l) ==
    /\ kind \in Streams
    /\ at[l] = "wait" /\ age[l] = Interval
    /\ Goto(l, IF stored /\ connected /\ ~cut THEN "down" ELSE "off")
    /\ clear' = IF clear = Off THEN Off ELSE 0
    /\ UNCHANGED <<kind, browser, stored, forgotten, removal, polls, past, network>>

(* The task that writes "2::". *)
Beat(l) ==
    /\ kind \in Streams
    /\ at[l] = "wait" /\ age[l] = Interval
    /\ Goto(l, IF stored /\ connected /\ ~cut THEN "down" ELSE "off")
    /\ UNCHANGED <<kind, browser, stored, timers, polls, past, network>>

(* A GET: reconnect sets open, heartbeat finds it set, cancels the clear   *)
(* task and waits.                                                         *)
Poll ==
    /\ kind = "polling"
    /\ stored /\ at[First] = "up"
    /\ Goto(First, "wait")
    /\ began' = TRUE
    /\ open' = TRUE
    /\ clear' = Off
    /\ UNCHANGED <<kind, browser, stored, forgotten, removal, echoing, blocked, slipped, network>>

(* A GET between whose reconnect and heartbeat open = false falls: no task *)
(* is cancelled, and the GET gets no response.                             *)
PollMissed ==
    /\ kind = "polling"
    /\ stored /\ at[First] = "up" /\ echoing
    /\ Goto(First, "off")
    /\ began' = TRUE /\ slipped' = TRUE
    /\ open' = FALSE /\ echoing' = FALSE
    /\ Scheduled
    /\ UNCHANGED <<kind, browser, stored, removal, blocked, network>>

(* A poll is answered, with a message or after PollTime with "8::". *)
PollEnds ==
    /\ kind = "polling"
    /\ at[First] = "wait"
    /\ Scheduled
    /\ Goto(First, IF connected /\ ~cut THEN "down" ELSE "off")
    /\ UNCHANGED <<kind, browser, stored, removal, polls, past, network>>

(* A POST with a connect packet: XhrIO.connect writes the echo as another  *)
(* response on the poll that waits, and closes it; when none waits it goes *)
(* into the queue.  Bounds: one echo and one blocked worker at a time.     *)
Echo ==
    /\ kind = "polling"
    /\ connected /\ stored /\ ~cut
    /\ open /\ ~echoing
    /\ echoing' = TRUE
    /\ \/ /\ at[First] = "wait" /\ blocked = Off
          /\ blocked' = age[First]
          /\ Goto(First, "down")
          /\ slipped' = TRUE
       \/ /\ at[First] \in {"up", "down"}
          /\ UNCHANGED <<blocked, loops, slipped>>
    /\ UNCHANGED <<kind, browser, stored, timers, open, began, network>>

(* open = false, after the echo. *)
EchoEnds ==
    /\ echoing
    /\ echoing' = FALSE /\ open' = FALSE
    /\ UNCHANGED <<kind, browser, stored, timers, blocked, loops, past, network>>

(* The worker of a poll that an echo has ended gets a message or "8::",    *)
(* writes it to a closed channel and schedules its clear task.             *)
BlockedEnds ==
    /\ blocked # Off
    /\ blocked' = Off
    /\ Scheduled
    /\ UNCHANGED <<kind, browser, stored, removal, open, echoing, loops, past, network>>

(* ClearTaskSpeed.run: the channel is closed too, and a beat that finds it *)
(* so is not written.                                                      *)
Clear ==
    /\ stored
    /\ removal \/ clear = Timeout \/ forgotten = Timeout
    /\ stored' = FALSE
    /\ clear' = Off /\ forgotten' = Off /\ removal' = FALSE
    /\ Lost
    /\ UNCHANGED <<kind, browser, polls, past, network>>

-----------------------------------------------------------------------------
(* The browser *)

(* setHeartbeatTimeout, for any packet; a "2::" is answered, a poll that   *)
(* is answered is followed by the next one.                                *)
Answered(l) ==
    /\ connected /\ at[l] = "down"
    /\ watch' = 0
    /\ Goto(l, "up")
    /\ UNCHANGED <<kind, connected, stored, timers, polls, past, network>>

(* Another packet: a message, an echo, the "1" that answers a frame.       *)
Message ==
    /\ connected /\ stored /\ ~cut /\ kind \in Streams
    /\ watch' = 0
    /\ UNCHANGED <<kind, connected, stored, timers, polls, loops, past, network>>

(* Socket.of for one more namespace. *)
Of(l) ==
    /\ connected /\ stored /\ ~cut /\ kind \in Streams
    /\ at[l] = "off"
    /\ Goto(l, "up")
    /\ UNCHANGED <<kind, browser, stored, timers, polls, past, network>>

(* The heartbeat timeout: transport.onClose. *)
GiveUp ==
    /\ connected /\ watch = Limit
    /\ connected' = FALSE
    /\ Lost
    /\ UNCHANGED <<kind, watch, stored, timers, polls, past, network>>

-----------------------------------------------------------------------------

(* The network, or the peer, is gone without a word. *)
Cut ==
    /\ ~cut
    /\ cut' = TRUE
    /\ Lost
    /\ UNCHANGED <<kind, browser, stored, timers, polls, past, silent>>

(* What a server that lost its peer may take to notice. *)
Grace == IF kind = "polling" THEN PollTime + Timeout ELSE Timeout

(* A timer after a tick, if the session it is for is there. *)
Older(timer) == IF stored /\ timer # Off THEN timer + 1 ELSE timer

(* Time passes when nothing is due.  Bound: silent is counted as far as a  *)
(* property looks.                                                         *)
Tick ==
    /\ connected => watch < Limit
    /\ stored => ~removal /\ \A timer \in {clear, forgotten} \ {Off} : timer < Timeout
    /\ \A l \in Loops : at[l] # "off" => age[l] < Longest(l)
    /\ blocked # Off => blocked < PollTime
    /\ watch' = IF connected THEN watch + 1 ELSE watch
    /\ clear' = Older(clear) /\ forgotten' = Older(forgotten)
    /\ age' = [l \in Loops |-> IF at[l] = "off" THEN age[l] ELSE age[l] + 1]
    /\ blocked' = IF blocked = Off THEN Off ELSE blocked + 1
    /\ silent' = IF cut /\ silent <= Grace THEN silent + 1 ELSE silent
    /\ UNCHANGED <<kind, connected, stored, removal, open, echoing, at, past, cut>>

Next ==
    \/ \E l \in Loops : Heard(l) \/ Beat(l) \/ Answered(l) \/ Of(l)
    \/ Poll \/ PollMissed \/ PollEnds \/ Echo \/ EchoEnds \/ BlockedEnds
    \/ Clear \/ Message \/ GiveUp \/ Cut \/ Tick

Spec == Init /\ [][Next]_vars

-----------------------------------------------------------------------------
(* Properties *)

TypeOK ==
    /\ kind \in Streams \cup {"polling"}
    /\ {connected, stored, removal, open, echoing, began, slipped, cut} \subseteq BOOLEAN
    /\ watch \in 0..Timeout
    /\ {clear, forgotten} \subseteq (0..Timeout) \cup {Off}
    /\ blocked \in (0..PollTime) \cup {Off}
    /\ at \in [Loops -> {"off", "up", "wait", "down"}]
    /\ age \in [Loops -> Nat]
    /\ \A l \in Loops : age[l] <= Longest(l)
    /\ silent \in 0..(Grace + 1)

(* The times leave room for a beat and its answer. *)
InTime == Interval + 2 * Latency < Timeout /\ PollTime + 2 * Latency < Timeout

(* The sessions whose loop nothing breaks: a websocket with a namespace,   *)
(* and a polling session until an echo ends a poll that waits or its reset *)
(* of open hits the next one.  An htmlfile is not one: its first POST ends *)
(* the session.                                                            *)
Unbroken ==
    \/ kind = "websocket" /\ First \in Asked
    \/ kind = "polling" /\ ~slipped

(* While the network works, neither end gives up an unbroken session: no   *)
(* clear task, named by the field or not, and no heartbeat timeout goes    *)
(* off before the answer that is under way (prepareHeartbeat,              *)
(* scheduleClearTask, setHeartbeatTimeout).                                *)
Kept == InTime /\ Heartbeats /\ Unbroken /\ ~cut => connected /\ stored

(* A browser that has lost the server notices within the heartbeat timeout,*)
(* and a server that has lost the browser within Grace, if heartbeat was   *)
(* called once: a beat of its own, a poll that nobody answered, a blocked  *)
(* worker or a forgotten task never keep a session alive.                  *)
Noticed ==
    /\ silent > Timeout => ~connected
    /\ began /\ silent > Grace => ~stored

(* The protocol text in demo/: the heartbeat timeout is "A number of       *)
(* seconds within which a heartbeat is expected".  While the network works *)
(* the browser hears from the server before it is over.                    *)
HeardInTime == connected /\ ~cut => watch < Limit

=============================================================================
