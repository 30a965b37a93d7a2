----------------------------- MODULE PollDelivery -----------------------------
(***************************************************************************)
(* How a polling client (XhrIO, JsonpIO) gets its messages to the browser. *)
(*                                                                         *)
(* One GenericIO object from its first GET on: the queue its handlers send *)
(* to, the polls that take one message each, and the connect packet that   *)
(* is answered directly, past the queue.  The workers of all connections   *)
(* read and write the fields open and ctx without a lock, so every read of *)
(* a field that the same thread uses later is a step of its own.           *)
(*                                                                         *)
(* Abstractions.  Messages are numbers in the order of LinkedBlockingQueue *)
(* .offer.  A connection carries one request.  GenericIO.reconnect is one  *)
(* step.  Timers and the session store are in module Sessions: here the    *)
(* client stays in use, and a clear task that reaches it is Disconnect.    *)
(* Packets of types 3, 4, 5 reach the application, whose sends are Send.   *)
(***************************************************************************)
EXTENDS Naturals, Sequences, FiniteSets

CONSTANTS
    Kind,       \* the transport of the client
    Conns,      \* connections
    First,      \* the connection of the first GET, which created the client
    MaxMsg,     \* bound: messages the application sends
    Overlap,    \* TRUE: the browser may poll while an earlier poll is open
    Breaks,     \* TRUE: a connection may end before its response is whole
    Posts,      \* bound: the POSTs the browser may make, a subset of PostJobs
    Hello,      \* the packet "1::"
    Endpoint,   \* the packet "1::/namespace"
    Noop,       \* the packet "8::"
    Wrapped,    \* a packet wrapped in io.j[i]('...') before it is wrapped again
    None        \* Java's null

PostJobs == {"CONNECT", "CONNECT_ENDPOINT", "HEARTBEAT", "DISCONNECT"}

ASSUME KindAssumption == Kind \in {"xhr-polling", "jsonp-polling"}
ASSUME ConnsAssumption == First \in Conns /\ None \notin Conns
ASSUME MaxMsgAssumption == MaxMsg \in Nat
ASSUME PostsAssumption == Posts \subseteq PostJobs
ASSUME PacketsAssumption == {Hello, Endpoint, Noop, Wrapped, None} \cap Nat = {}
ASSUME SentinelAssumption ==
    /\ Noop \notin {Hello, Endpoint, Wrapped}
    /\ None \notin {Hello, Endpoint, Wrapped, Noop}

VARIABLES
    sent,       \* messages sent so far
    queue,      \* EventClientIO.queue
    open, ctx,  \* fields of GenericIO
    job,        \* per connection: its request (None before there is one)
    link,       \* per connection: none, open, closing (a write with CLOSE), closed
    resp,       \* per connection: what the browser has of the response
    pc,         \* per connection: where its I/O worker is
    chan, item, \* per connection: the worker's local variables chan and message
    received,   \* the messages that reached the browser, in that order
    heard,      \* the connect packets that reached the browser
    dropped     \* what was written to a connection that could not carry it

connVars == <<job, link, resp, pc, chan, item>>
browserVars == <<received, heard, dropped>>
vars == <<sent, queue, open, ctx, connVars, browserVars>>

Messages == 1..MaxMsg
Items    == Messages \cup {Hello, Endpoint, Wrapped}

Init ==
    /\ sent = 0 /\ queue = <<>>
    /\ open = TRUE /\ ctx = First
    /\ job  = [k \in Conns |-> IF k = First THEN "GET" ELSE "none"]
    /\ link = [k \in Conns |-> IF k = First THEN "open" ELSE "none"]
    /\ resp = [k \in Conns |-> "none"]
    /\ pc   = [k \in Conns |-> IF k = First THEN "direct" ELSE "idle"]
    /\ chan = [k \in Conns |-> None]
    /\ item = [k \in Conns |-> None]
    /\ received = <<>> /\ heard = {} /\ dropped = {}

-----------------------------------------------------------------------------
(* Helpers *)

IsOpen(k) == link[k] \in {"open", "closing"}

Goto(k, label) == pc' = [pc EXCEPT ![k] = label]

\* The handler returns.  A POST is answered on its own connection.
Return(k) ==
    /\ Goto(k, "idle")
    /\ chan' = [chan EXCEPT ![k] = None]
    /\ item' = [item EXCEPT ![k] = None]

Replied(k) ==
    IF job[k] # "GET" /\ link[k] = "open" THEN [link EXCEPT ![k] = "closing"] ELSE link

\* Connections whose browser waits for the response of a GET.
Waiting == {k \in Conns : job[k] = "GET" /\ link[k] # "closed"}

\* What the browser makes of item x written as the body of c's response: it is
\* read when the response is whole and the connection still carries it.
Hears(c, x) ==
    IF link[c] = "open" /\ resp[c] = "head"
    THEN /\ received' = IF x \in Messages THEN Append(received, x) ELSE received
         /\ heard' = IF x \in Messages \/ x = Noop THEN heard ELSE heard \cup {x}
         /\ UNCHANGED dropped
    ELSE /\ dropped' = IF x = Noop THEN dropped ELSE dropped \cup {x}
         /\ UNCHANGED <<received, heard>>

-----------------------------------------------------------------------------
(* Senders: GenericIO.send, sendEncoded of XhrIO and JsonpIO. *)

Send ==
    /\ sent < MaxMsg
    /\ sent' = sent + 1
    /\ queue' = Append(queue, sent + 1)
    /\ UNCHANGED <<open, ctx, connVars, browserVars>>

-----------------------------------------------------------------------------
(* A poll: ITransport.doHandle with GET, then client.heartbeat. *)

Poll(k) ==
    /\ link[k] = "none"
    /\ Overlap \/ Waiting = {}
    /\ job' = [job EXCEPT ![k] = "GET"]
    /\ link' = [link EXCEPT ![k] = "open"]
    /\ Goto(k, "reconnect")
    /\ UNCHANGED <<sent, queue, open, ctx, resp, chan, item, browserVars>>

Reconnect(k) ==
    /\ pc[k] = "reconnect"
    /\ ctx' = k /\ open' = TRUE
    /\ Goto(k, "beat")
    /\ UNCHANGED <<sent, queue, job, link, resp, chan, item, browserVars>>

\* heartbeat: if (!this.open) ... return.
BeatNotOpen(k) ==
    /\ pc[k] = "beat" /\ ~open
    /\ link' = Replied(k)
    /\ Return(k)
    /\ UNCHANGED <<sent, queue, open, ctx, job, resp, browserVars>>

BeatOpen(k) ==
    /\ pc[k] = "beat" /\ open
    /\ Goto(k, "chan")
    /\ UNCHANGED <<sent, queue, open, ctx, job, link, resp, chan, item, browserVars>>

\* if (!chan.isOpen()) ...
BeatOnClosed(k) ==
    /\ pc[k] = "chan" /\ ~IsOpen(ctx)
    /\ Goto(k, "shut")
    /\ UNCHANGED <<sent, queue, open, ctx, job, link, resp, chan, item, browserVars>>

\* ... open = false, even when a poll has called reconnect in the meantime.
BeatShut(k) ==
    /\ pc[k] = "shut"
    /\ open' = FALSE
    /\ link' = Replied(k)
    /\ Return(k)
    /\ UNCHANGED <<sent, queue, ctx, job, resp, browserVars>>

\* Mutant: the head is written without a look at the connection.
BeatHeadUnchecked(k) ==
    /\ pc[k] = "chan"
    /\ chan' = [chan EXCEPT ![k] = ctx]
    /\ resp' = IF IsOpen(ctx)
               THEN [resp EXCEPT ![ctx] = IF @ = "none" THEN "head" ELSE "spoiled"]
               ELSE resp
    /\ Goto(k, "take")
    /\ UNCHANGED <<sent, queue, open, ctx, job, link, item, browserVars>>

\* The head of the response, to whatever connection ctx names by now.
BeatHead(k) ==
    /\ pc[k] = "chan" /\ IsOpen(ctx)
    /\ chan' = [chan EXCEPT ![k] = ctx]
    /\ resp' = [resp EXCEPT ![ctx] = IF @ = "none" THEN "head" ELSE "spoiled"]
    /\ Goto(k, "take")
    /\ UNCHANGED <<sent, queue, open, ctx, job, link, item, browserVars>>

\* Mutant: the message stays in the queue.
TakePeek(k) ==
    /\ pc[k] = "take" /\ queue # <<>>
    /\ item' = [item EXCEPT ![k] = Head(queue)]
    /\ Goto(k, "write")
    /\ UNCHANGED <<sent, queue, open, ctx, job, link, resp, chan, browserVars>>

\* queue.poll(19996 ms) with a message ...
Take(k) ==
    /\ pc[k] = "take" /\ queue # <<>>
    /\ item' = [item EXCEPT ![k] = Head(queue)]
    /\ queue' = Tail(queue)
    /\ Goto(k, "write")
    /\ UNCHANGED <<sent, open, ctx, job, link, resp, chan, browserVars>>

\* Mutant: null is not replaced by the noop.
TimeOutNull(k) ==
    /\ pc[k] = "take" /\ queue = <<>>
    /\ item' = [item EXCEPT ![k] = None]
    /\ Goto(k, "write")
    /\ UNCHANGED <<sent, queue, open, ctx, job, link, resp, chan, browserVars>>

\* ... and without one, when the time is over.
TimeOut(k) ==
    /\ pc[k] = "take" /\ queue = <<>>
    /\ item' = [item EXCEPT ![k] = Noop]
    /\ Goto(k, "write")
    /\ UNCHANGED <<sent, queue, open, ctx, job, link, resp, chan, browserVars>>

\* Mutant: the message of a connection that is gone is queued again.
BodyRequeue(k) ==
    /\ pc[k] = "write"
    /\ LET c == chan[k] IN
          IF IsOpen(c)
          THEN /\ Hears(c, item[k])
               /\ resp' = [resp EXCEPT ![c] = IF @ = "head" THEN "done" ELSE "spoiled"]
               /\ link' = [Replied(k) EXCEPT ![c] = IF @ = "open" THEN "closing" ELSE @]
               /\ UNCHANGED queue
          ELSE /\ queue' = IF item[k] = Noop THEN queue ELSE Append(queue, item[k])
               /\ link' = Replied(k)
               /\ UNCHANGED <<resp, browserVars>>
    /\ Return(k)
    /\ UNCHANGED <<sent, open, ctx, job>>

\* The body, with CLOSE, to the connection of the head, open or not.
Body(k) ==
    /\ pc[k] = "write"
    /\ LET c == chan[k] IN
          /\ Hears(c, item[k])
          /\ resp' = IF IsOpen(c)
                     THEN [resp EXCEPT ![c] = IF @ = "head" THEN "done" ELSE "spoiled"]
                     ELSE resp
          /\ link' = [Replied(k) EXCEPT ![c] = IF @ = "open" THEN "closing" ELSE @]
    /\ Return(k)
    /\ UNCHANGED <<sent, queue, open, ctx, job>>

-----------------------------------------------------------------------------
(* POSTs, and the GET that asks to disconnect. *)

\* The browser posts once it got "1::".  handleContent: packet 1 goes to
\* doPrepareAction, that is client.connect, packet 2 to client.heartbeat.
Post(k, p) ==
    /\ link[k] = "none"
    /\ Hello \in heard \/ p = "DISCONNECT"
    /\ \A j \in Conns : job[j] # p
    /\ job' = [job EXCEPT ![k] = p]
    /\ link' = [link EXCEPT ![k] = "open"]
    /\ Goto(k, CASE p = "HEARTBEAT"  -> "beat"
                 [] p = "DISCONNECT" -> "disconnect"
                 [] OTHER            -> "direct")
    /\ UNCHANGED <<sent, queue, open, ctx, resp, chan, item, browserVars>>

\* connect(message): JsonpIO sends "1::" whatever the packet was.
Info(k) ==
    IF job[k] = "CONNECT_ENDPOINT" /\ Kind = "xhr-polling" THEN Endpoint ELSE Hello

\* JsonpIO._write queues what getTargetFormatMessage returned.
Requeued(x) == IF Kind = "jsonp-polling" THEN Wrapped ELSE x

\* sendDirectMessage: if (this.open) ...
DirectOpen(k) ==
    /\ pc[k] = "direct" /\ open
    /\ Goto(k, "direct write")
    /\ UNCHANGED <<sent, queue, open, ctx, job, link, resp, chan, item, browserVars>>

\* ... else the queue.
DirectQueued(k) ==
    /\ pc[k] = "direct" /\ ~open
    /\ queue' = Append(queue, Info(k))
    /\ link' = Replied(k)
    /\ Return(k)
    /\ UNCHANGED <<sent, open, ctx, job, resp, browserVars>>

\* _write: a whole response with CLOSE, to whatever connection ctx names.
DirectWrite(k) ==
    /\ pc[k] = "direct write" /\ IsOpen(ctx)
    /\ IF link[ctx] = "open" /\ resp[ctx] = "none"
       THEN /\ heard' = heard \cup {Info(k)}
            /\ UNCHANGED dropped
       ELSE /\ dropped' = dropped \cup {Info(k)}
            /\ UNCHANGED heard
    /\ resp' = [resp EXCEPT ![ctx] = IF @ = "none" THEN "done" ELSE "spoiled"]
    /\ link' = [link EXCEPT ![ctx] = "closing"]
    /\ Goto(k, "direct done")
    /\ UNCHANGED <<sent, queue, open, ctx, job, chan, item, received>>

\* The connection ends after isOpen said TRUE: the response is lost.
DirectLost(k) ==
    /\ pc[k] = "direct write" /\ link[ctx] = "open" /\ Breaks
    /\ link' = [link EXCEPT ![ctx] = "closed"]
    /\ dropped' = dropped \cup {Info(k)}
    /\ Goto(k, "direct done")
    /\ UNCHANGED <<sent, queue, open, ctx, job, resp, chan, item, received, heard>>

DirectOnClosed(k) ==
    /\ pc[k] = "direct write" /\ ~IsOpen(ctx)
    /\ queue' = Append(queue, Requeued(Info(k)))
    /\ Goto(k, "direct done")
    /\ UNCHANGED <<sent, open, ctx, job, link, resp, chan, item, browserVars>>

\* open = false, even when a poll has called reconnect in the meantime.
DirectDone(k) ==
    /\ pc[k] = "direct done"
    /\ open' = FALSE
    /\ link' = Replied(k)
    /\ Return(k)
    /\ UNCHANGED <<sent, queue, ctx, job, resp, browserVars>>

\* client.disconnect(), by ?disconnect as here or by a clear task.
Disconnect(k) ==
    /\ pc[k] = "disconnect"
    /\ link' = [link EXCEPT ![ctx] = IF IsOpen(ctx) THEN "closed" ELSE @]
    /\ open' = FALSE
    /\ Return(k)
    /\ UNCHANGED <<sent, queue, ctx, job, resp, browserVars>>

\* The CLOSE listener.
Close(k) ==
    /\ link[k] = "closing"
    /\ link' = [link EXCEPT ![k] = "closed"]
    /\ UNCHANGED <<sent, queue, open, ctx, job, resp, pc, chan, item, browserVars>>

\* The browser, or the network, ends a connection early.
Break(k) ==
    /\ Breaks /\ link[k] = "open"
    /\ link' = [link EXCEPT ![k] = "closed"]
    /\ UNCHANGED <<sent, queue, open, ctx, job, resp, pc, chan, item, browserVars>>

-----------------------------------------------------------------------------
BeatStep(k) ==
    \/ Reconnect(k) \/ BeatNotOpen(k) \/ BeatOpen(k) \/ BeatOnClosed(k) \/ BeatShut(k)
    \/ BeatHead(k) \/ Take(k) \/ TimeOut(k) \/ Body(k)

DirectStep(k) ==
    \/ DirectOpen(k) \/ DirectQueued(k) \/ DirectWrite(k) \/ DirectLost(k)
    \/ DirectOnClosed(k) \/ DirectDone(k) \/ Disconnect(k)

Next ==
    \/ Send
    \/ \E k \in Conns : Poll(k) \/ BeatStep(k) \/ DirectStep(k) \/ Close(k) \/ Break(k)
    \/ \E k \in Conns, p \in Posts : Post(k, p)

Spec == Init /\ [][Next]_vars

\* Workers go on: queue.poll gives up after 19996 ms, and a connection with a
\* CLOSE listener closes.  The browser and the application need do nothing.
Fairness == \A k \in Conns : WF_vars(BeatStep(k) \/ DirectStep(k)) /\ WF_vars(Close(k))

FairSpec == Spec /\ Fairness

-----------------------------------------------------------------------------
(* Properties *)

\* The type invariant: the queue holds messages and connect packets, and a
\* worker has a connection and a message exactly where its code does.
TypeOK ==
    /\ sent \in 0..MaxMsg
    /\ queue \in Seq(Items)
    /\ open \in BOOLEAN /\ ctx \in Conns
    /\ job \in [Conns -> {"none", "GET"} \cup PostJobs]
    /\ link \in [Conns -> {"none", "open", "closing", "closed"}]
    /\ resp \in [Conns -> {"none", "head", "done", "spoiled"}]
    /\ pc \in [Conns -> {"idle", "reconnect", "beat", "chan", "shut", "take", "write",
                         "direct", "direct write", "direct done", "disconnect"}]
    /\ chan \in [Conns -> Conns \cup {None}]
    /\ item \in [Conns -> Items \cup {Noop, None}]
    /\ received \in Seq(Messages)
    /\ heard \subseteq Items /\ dropped \subseteq Items

\* Some poll never got a whole response: its connection ended before, or a
\* second response was written into it.
CutShort ==
    \E k \in Conns : \/ resp[k] = "spoiled"
                     \/ job[k] = "GET" /\ link[k] = "closed" /\ resp[k] # "done"

\* A message sent to a polling client is received at most once, and it is lost
\* only when some poll was cut short: the abstract mailbox.
Mail == INSTANCE Mailbox WITH lost <- dropped \cap Messages, cut <- CutShort

DeliversMail == Mail!Spec

Queued == {queue[i] : i \in DOMAIN queue}
Held   == {item[k] : k \in Conns}
Given  == {received[i] : i \in DOMAIN received}

\* A message occurs once in f.
OnceIn(f) == \A i, j \in DOMAIN f : f[i] = f[j] /\ f[i] \in Messages => i = j

\* No message sent is duplicated or forgotten, by any interleaving of polls
\* that overlap, connect packets, disconnects and broken connections: it is in
\* the queue, in the hands of a worker, received or dropped, once.
OnePlace ==
    /\ (Queued \cup Held \cup Given \cup dropped) \cap Messages = 1..sent
    /\ OnceIn(queue) /\ OnceIn(item) /\ OnceIn(received)
    /\ \A m \in Messages :
          /\ m \in Queued => m \notin Held \cup Given \cup dropped
          /\ m \in Held => m \notin Given \cup dropped
          /\ m \in Given => m \notin dropped

\* A browser that polls on one connection at a time receives messages in the
\* order they were sent in, whatever is lost in between.
InOrder == \A i, j \in DOMAIN received : i < j => received[i] < received[j]

-----------------------------------------------------------------------------
(* The inductive invariant behind OnePlace and DeliversMail. *)

\* The connection the client writes to carries a GET.
GetOK ==
    /\ job[ctx] = "GET"
    /\ \A k \in Conns : job[k] = "GET" => link[k] # "none"

\* A connection without a request has no worker.  A worker has a message only
\* between queue.poll and its write, and the connection it writes to carries a
\* GET.
WorkerOK ==
    \A k \in Conns :
        /\ link[k] = "none" => pc[k] = "idle"
        /\ pc[k] = "reconnect" => job[k] = "GET"
        /\ pc[k] = "write" => item[k] # None
        /\ pc[k] # "write" => item[k] = None
        /\ pc[k] \in {"take", "write"} => chan[k] \in Conns /\ job[chan[k]] = "GET"

\* Two workers that are to write a body to one connection have spoiled it with
\* their second head.
HeadOK ==
    \A k \in Conns : pc[k] \in {"take", "write"} =>
        /\ resp[chan[k]] \in {"head", "spoiled"}
        /\ \A j \in Conns : pc[j] \in {"take", "write"} /\ j # k /\ chan[j] = chan[k]
                               => resp[chan[k]] = "spoiled"

\* A connection is to be closed only after its response was written.
ClosingOK ==
    \A k \in Conns :
        job[k] = "GET" /\ link[k] = "closing" => resp[k] \in {"done", "spoiled"}

IInv == TypeOK /\ OnePlace /\ GetOK /\ WorkerOK /\ HeadOK /\ ClosingOK

=============================================================================
