--------------------------- MODULE StreamDelivery ---------------------------
(***************************************************************************)
(* How a streaming client (WebSocketIO, HtmlfileIO) gets its messages to   *)
(* the browser: every thread that sends puts its message in the queue of   *)
(* the client and then drains the queue, in competition with the others.   *)
(*                                                                         *)
(* The threads hold no lock, and nothing keeps the fields open and ctx, or *)
(* the channel, as they were when a message was taken from the queue.      *)
(*                                                                         *)
(* Abstractions.  Heartbeats bypass the queue and are left out, and so are *)
(* the response header and the padding that prepare writes.  Messages are  *)
(* numbers in the order of LinkedBlockingQueue.offer, the answers to       *)
(* connect packets among them.  A message written to a channel whose peer  *)
(* is there is delivered.  Timers and the session store are in Sessions:   *)
(* here they are Shut and Close.                                           *)
(***************************************************************************)
EXTENDS Naturals, Sequences

CONSTANTS
    Kind,       \* the transport of the client
    Threads,    \* threads that send: I/O workers, threads of the application
    Creator,    \* the worker that made the client
    Chans,      \* channels of the session
    First,      \* the one the client was made for
    MaxMsg,     \* bound: messages
    None        \* Java's null

ASSUME KindAssumption    == Kind \in {"websocket", "htmlfile"}
ASSUME ThreadsAssumption == Creator \in Threads
ASSUME ChansAssumption   == First \in Chans /\ None \notin Chans
ASSUME MaxMsgAssumption  == MaxMsg \in Nat /\ None \notin Nat

VARIABLES
    sent,           \* messages sent so far
    queue,          \* EventClientIO.queue
    open, ctx,      \* fields of GenericIO
    link,           \* per channel: none, open, broken (nobody knows yet), closed
    pc, item, chan, \* per thread: where it is, its variables msg and chan
    written,        \* what went to a channel whose peer was there, in that order
    dropped,        \* what was taken from the queue and reached no peer
    shut,           \* history: open was false once
    revived         \* history: reconnect has set open again

threadVars == <<pc, item, chan>>
mailVars   == <<written, dropped>>
clientVars == <<open, ctx, shut, revived>>
vars       == <<sent, queue, clientVars, link, threadVars, mailVars>>

Messages == 1..MaxMsg

(* The client was made for a GET, whose worker is about to call connect.   *)
Init ==
    /\ sent = 0 /\ queue = <<>>
    /\ open = TRUE /\ ctx = First
    /\ link = [k \in Chans |-> IF k = First THEN "open" ELSE "none"]
    /\ pc   = [t \in Threads |-> IF t = Creator THEN "connect" ELSE "idle"]
    /\ item = [t \in Threads |-> None]
    /\ chan = [t \in Threads |-> None]
    /\ written = <<>> /\ dropped = {}
    /\ shut = FALSE /\ revived = FALSE

Goto(t, label) == pc' = [pc EXCEPT ![t] = label]

-----------------------------------------------------------------------------
(* sendEncoded *)

(* queue.offer: of a message of the application, or of connect. *)
Offer(t) ==
    /\ pc[t] \in {"idle", "connect"}
    /\ sent < MaxMsg
    /\ sent' = sent + 1
    /\ queue' = Append(queue, sent + 1)
    /\ Goto(t, "check")
    /\ UNCHANGED <<clientVars, link, item, chan, mailVars>>

\* Mutant: the channel is looked at, not the client.
CheckChannel(t) ==
    /\ pc[t] = "check"
    /\ Goto(t, IF link[ctx] # "closed" THEN "poll" ELSE "idle")
    /\ UNCHANGED <<sent, queue, clientVars, link, item, chan, mailVars>>

(* if (!this.open) return. *)
Check(t) ==
    /\ pc[t] = "check"
    /\ Goto(t, IF open THEN "poll" ELSE "idle")
    /\ UNCHANGED <<sent, queue, clientVars, link, item, chan, mailVars>>

\* Mutant: the newest message is taken.
PollLast(t) ==
    /\ pc[t] = "poll"
    /\ \/ /\ queue = <<>>
          /\ Goto(t, "idle")
          /\ UNCHANGED <<queue, item>>
       \/ /\ queue # <<>>
          /\ item' = [item EXCEPT ![t] = queue[Len(queue)]]
          /\ queue' = SubSeq(queue, 1, Len(queue) - 1)
          /\ Goto(t, "channel")
    /\ UNCHANGED <<sent, clientVars, link, chan, mailVars>>

\* Mutant: the message is looked at and stays in the queue.
PollPeek(t) ==
    /\ pc[t] = "poll"
    /\ \/ /\ queue = <<>>
          /\ Goto(t, "idle")
          /\ UNCHANGED <<queue, item>>
       \/ /\ queue # <<>>
          /\ item' = [item EXCEPT ![t] = Head(queue)]
          /\ Goto(t, "channel")
          /\ UNCHANGED queue
    /\ UNCHANGED <<sent, clientVars, link, chan, mailVars>>

(* queue.poll; the loop ends when there is nothing left. *)
Poll(t) ==
    /\ pc[t] = "poll"
    /\ \/ /\ queue = <<>>
          /\ Goto(t, "idle")
          /\ UNCHANGED <<queue, item>>
       \/ /\ queue # <<>>
          /\ item' = [item EXCEPT ![t] = Head(queue)]
          /\ queue' = Tail(queue)
          /\ Goto(t, "channel")
    /\ UNCHANGED <<sent, clientVars, link, chan, mailVars>>

\* Mutant: the thread still has the message.
AgainHeld(t) ==
    /\ Goto(t, "poll")
    /\ chan' = [chan EXCEPT ![t] = None]
    /\ UNCHANGED item

(* A thread is done with the message it took. *)
Again(t) ==
    /\ Goto(t, "poll")
    /\ item' = [item EXCEPT ![t] = None]
    /\ chan' = [chan EXCEPT ![t] = None]

Drop(m) == dropped' = dropped \cup {m} /\ UNCHANGED written

(* ctx.getChannel().  __write of htmlfile looks at open once more.         *)
Channel(t) ==
    /\ pc[t] = "channel"
    /\ IF Kind = "htmlfile" /\ ~open
       THEN Again(t) /\ Drop(item[t])
       ELSE /\ chan' = [chan EXCEPT ![t] = ctx]
            /\ Goto(t, "write")
            /\ UNCHANGED <<item, mailVars>>
    /\ UNCHANGED <<sent, queue, clientVars, link>>

\* Mutant: a message for a closed channel is put back to the queue's end.
WriteBack(t) ==
    /\ pc[t] = "write"
    /\ IF link[chan[t]] = "open"
       THEN written' = Append(written, item[t]) /\ UNCHANGED <<queue, dropped>>
       ELSE queue' = Append(queue, item[t]) /\ Drop(item[t])
    /\ Again(t)
    /\ UNCHANGED <<sent, clientVars, link>>

(* if (chan.isOpen()) chan.write(...). *)
Write(t) ==
    /\ pc[t] = "write"
    /\ IF link[chan[t]] = "open"
       THEN written' = Append(written, item[t]) /\ UNCHANGED dropped
       ELSE Drop(item[t])
    /\ Again(t)
    /\ UNCHANGED <<sent, queue, clientVars, link>>

-----------------------------------------------------------------------------
(* The connection *)

(* A connect packet: doPrepareAction, which goes on to connect.            *)
Prepare(t) ==
    /\ pc[t] = "idle"
    /\ Goto(t, "connect")
    /\ UNCHANGED <<sent, queue, clientVars, link, item, chan, mailVars>>

(* Another GET of the session: reconnect.  A second websocket is opened,   *)
(* and the client does not use it (doPrepareClient).                       *)
Reconnect(k) ==
    /\ link[k] = "none"
    /\ link' = [link EXCEPT ![k] = "open"]
    /\ IF Kind = "htmlfile"
       THEN ctx' = k /\ open' = TRUE /\ revived' = (revived \/ ~open)
       ELSE UNCHANGED <<ctx, open, revived>>
    /\ UNCHANGED <<sent, queue, shut, threadVars, mailVars>>

(* setOpen(false) of a clear task, or the end of disconnect(). *)
Shut ==
    /\ open
    /\ open' = FALSE /\ shut' = TRUE
    /\ UNCHANGED <<sent, queue, ctx, revived, link, threadVars, mailVars>>

(* chan.close() of disconnect(), or the browser closes the connection. *)
Close(k) ==
    /\ link[k] \in {"open", "broken"}
    /\ link' = [link EXCEPT ![k] = "closed"]
    /\ UNCHANGED <<sent, queue, clientVars, threadVars, mailVars>>

(* The browser is gone, and the channel is open until that is noticed. *)
Break(k) ==
    /\ link[k] = "open"
    /\ link' = [link EXCEPT ![k] = "broken"]
    /\ UNCHANGED <<sent, queue, clientVars, threadVars, mailVars>>

-----------------------------------------------------------------------------

Thread(t) == Offer(t) \/ Check(t) \/ Poll(t) \/ Channel(t) \/ Write(t) \/ Prepare(t)

Next ==
    \/ \E t \in Threads : Thread(t)
    \/ Shut
    \/ \E k \in Chans : Reconnect(k) \/ Close(k) \/ Break(k)

Spec == Init /\ [][Next]_vars

-----------------------------------------------------------------------------
(* Properties *)

TypeOK ==
    /\ sent \in 0..MaxMsg /\ queue \in Seq(Messages)
    /\ open \in BOOLEAN /\ ctx \in Chans /\ shut \in BOOLEAN /\ revived \in BOOLEAN
    /\ link \in [Chans -> {"none", "open", "broken", "closed"}]
    /\ pc \in [Threads -> {"idle", "connect", "check", "poll", "channel", "write"}]
    /\ item \in [Threads -> Messages \cup {None}]
    /\ chan \in [Threads -> Chans \cup {None}]
    /\ \A t \in Threads : item[t] # None <=> pc[t] \in {"channel", "write"}
    /\ \A t \in Threads : chan[t] # None <=> pc[t] = "write"
    /\ written \in Seq(Messages) /\ dropped \subseteq Messages

Entries(q) == {q[i] : i \in DOMAIN q}
Queued     == Entries(queue)
Held       == {item[t] : t \in Threads} \ {None}
Given      == Entries(written)
Once(f)    == \A i, j \in DOMAIN f : f[i] = f[j] => i = j

(* However many threads drain the queue, a message is in the queue, with   *)
(* one thread, delivered or dropped: in one of these places, and once.     *)
OnePlace ==
    /\ Queued \cup Held \cup Given \cup dropped = 1..sent
    /\ Once(queue) /\ Once(written)
    /\ \A t, u \in Threads : item[t] = item[u] /\ item[t] # None => t = u
    /\ Queued \cap (Held \cup Given \cup dropped) = {}
    /\ Held \cap (Given \cup dropped) = {}
    /\ Given \cap dropped = {}

(* Nothing is left in the queue of a client that is open: when it is not   *)
(* empty a thread is on its way to it, though each leaves the loop without *)
(* a lock.  A message put there while the client was shut may stay after   *)
(* reconnect has opened it again.                                          *)
NothingLeft ==
    queue # <<>> /\ open /\ ~revived =>
        \E t \in Threads : pc[t] \in {"check", "poll", "channel", "write"}

(* A message is overtaken only while a thread has it in its hands, so by   *)
(* what the other threads write meanwhile; the queue keeps the order.      *)
OvertakenInHand ==
    \A m \in 1..sent, n \in Given \cup Held :
        m < n => m \in Held \cup Given \cup dropped

(* It implements Mailbox: a message is given up only when a channel of the *)
(* client was closed or broken, or the client shut.                        *)
Hurt == shut \/ \E k \in Chans : link[k] \in {"broken", "closed"}

Mail == INSTANCE Mailbox WITH received <- written, lost <- dropped, cut <- Hurt

DeliversMail == Mail!Spec

=============================================================================
