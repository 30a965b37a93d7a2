----------------------------- MODULE OutboxProofs -----------------------------
(***************************************************************************)
(* Proofs about Outbox, for any transports, namespaces and POSTs and any   *)
(* number of sessions and packets.  Four invariants, one on the other:     *)
(*   ShapeInv     which requests there are, and that while the connection  *)
(*                is open doBuffer holds packets back only as long as a    *)
(*                POST is out whose end will be told;                      *)
(*   OrderInv     packets in the buffer are later than all that were given *)
(*                to a request, and while doBuffer is off no POST to the   *)
(*                current session is out, or the session is spoiled;       *)
(*   PlaceInv     a packet is at one of the sites it can be at;            *)
(*   AnnounceInv  before a connection the connect packets are buffered,    *)
(*                and after it they are on their way or were read.         *)
(* The lemmas on the operators of Socket and Transport say what each does  *)
(* to a box; the action lemmas cite those and never expand the operators.  *)
(***************************************************************************)
EXTENDS Outbox, TLAPS

-----------------------------------------------------------------------------
(* Sequences of packets. *)

Sorted(q)   == \A i, j \in DOMAIN q : i < j => q[i] < q[j]
Below(A, B) == \A m \in A, n \in B : m < n

LEMMA ConcatFacts ==
    ASSUME NEW S, NEW q \in Seq(S), NEW r \in Seq(S)
    PROVE  /\ q \o r \in Seq(S)
           /\ Len(q \o r) = Len(q) + Len(r)
           /\ \A i \in DOMAIN q : i \in DOMAIN (q \o r) /\ (q \o r)[i] = q[i]
           /\ \A i \in DOMAIN r : Len(q) + i \in DOMAIN (q \o r) /\ (q \o r)[Len(q) + i] = r[i]
           /\ \A i \in DOMAIN (q \o r) : i \in DOMAIN q \/ (i - Len(q) \in DOMAIN r /\ (q \o r)[i] = r[i - Len(q)])
           /\ q \o r = <<>> => q = <<>> /\ r = <<>>
OBVIOUS

LEMMA ConcatEntries ==
    ASSUME NEW S, NEW q \in Seq(S), NEW r \in Seq(S)
    PROVE  Entries(q \o r) = Entries(q) \cup Entries(r)
<1>1. ASSUME NEW x \in Entries(q \o r) PROVE x \in Entries(q) \cup Entries(r)
  <2>1. PICK i \in DOMAIN (q \o r) : x = (q \o r)[i]
    BY DEF Entries
  <2>2. CASE i \in DOMAIN q
    BY <2>1, <2>2, ConcatFacts DEF Entries
  <2>3. CASE i - Len(q) \in DOMAIN r /\ (q \o r)[i] = r[i - Len(q)]
    BY <2>1, <2>3 DEF Entries
  <2>. QED  BY <2>2, <2>3, ConcatFacts
<1>2. ASSUME NEW x \in Entries(q) PROVE x \in Entries(q \o r)
  BY ConcatFacts DEF Entries
<1>3. ASSUME NEW x \in Entries(r) PROVE x \in Entries(q \o r)
  <2>1. PICK i \in DOMAIN r : x = r[i]
    BY DEF Entries
  <2>2. Len(q) + i \in DOMAIN (q \o r) /\ (q \o r)[Len(q) + i] = r[i]
    BY ConcatFacts
  <2>. QED  BY <2>1, <2>2 DEF Entries
<1>. QED  BY <1>1, <1>2, <1>3

LEMMA ConcatSorted ==
    ASSUME NEW q \in Seq(Nat), NEW r \in Seq(Nat),
           Sorted(q), Sorted(r), Below(Entries(q), Entries(r))
    PROVE  Sorted(q \o r)
<1> SUFFICES ASSUME NEW i \in DOMAIN (q \o r), NEW j \in DOMAIN (q \o r), i < j
             PROVE  (q \o r)[i] < (q \o r)[j]
  BY DEF Sorted
<1>1. CASE j \in DOMAIN q
  BY <1>1 DEF Sorted
<1>2. CASE i \in DOMAIN q /\ j \notin DOMAIN q
  <2>1. j - Len(q) \in DOMAIN r /\ (q \o r)[j] = r[j - Len(q)]
    BY <1>2, ConcatFacts
  <2>2. (q \o r)[i] = q[i]
    BY <1>2, ConcatFacts
  <2>. QED  BY <1>2, <2>1, <2>2 DEF Below, Entries
<1>3. CASE i \notin DOMAIN q
  <2>1. /\ i - Len(q) \in DOMAIN r /\ j - Len(q) \in DOMAIN r
        /\ (q \o r)[i] = r[i - Len(q)] /\ (q \o r)[j] = r[j - Len(q)]
    BY <1>3
  <2>2. i - Len(q) < j - Len(q)
    OBVIOUS
  <2>. QED  BY <2>1, <2>2 DEF Sorted
<1>. QED  BY <1>1, <1>2, <1>3

LEMMA HeadTailFacts ==
    ASSUME NEW S, NEW q \in Seq(S), q # <<>>
    PROVE  /\ Head(q) \in S /\ Tail(q) \in Seq(S)
           /\ 1 \in DOMAIN q /\ q[1] = Head(q)
           /\ \A i \in DOMAIN Tail(q) : i \in Nat /\ i > 0 /\ i + 1 \in DOMAIN q /\ Tail(q)[i] = q[i + 1]
           /\ \A i \in DOMAIN q : i = 1 \/ (i - 1 \in DOMAIN Tail(q) /\ q[i] = Tail(q)[i - 1])
           /\ <<Head(q)>> \in Seq(S) /\ <<Head(q)>> \o Tail(q) = q
OBVIOUS

LEMMA TailEntries ==
    ASSUME NEW S, NEW q \in Seq(S), q # <<>>
    PROVE  Entries(q) = Entries(Tail(q)) \cup {Head(q)}
<1>1. ASSUME NEW v \in Entries(q) PROVE v \in Entries(Tail(q)) \cup {Head(q)}
  <2>1. PICK i \in DOMAIN q : v = q[i]
    BY DEF Entries
  <2>2. i = 1 \/ (i - 1 \in DOMAIN Tail(q) /\ q[i] = Tail(q)[i - 1])
    BY HeadTailFacts
  <2>. QED  BY <2>1, <2>2, HeadTailFacts DEF Entries
<1>2. ASSUME NEW v \in Entries(Tail(q)) \cup {Head(q)} PROVE v \in Entries(q)
  <2>1. CASE v = Head(q)
    BY <2>1, HeadTailFacts DEF Entries
  <2>2. CASE v \in Entries(Tail(q))
    <3>1. PICK i \in DOMAIN Tail(q) : v = Tail(q)[i]
      BY <2>2 DEF Entries
    <3>. QED  BY <3>1, HeadTailFacts DEF Entries
  <2>. QED  BY <2>1, <2>2
<1>. QED  BY <1>1, <1>2

LEMMA TailSorted ==
    ASSUME NEW q \in Seq(Nat), q # <<>>, Sorted(q)
    PROVE  Sorted(Tail(q)) /\ Below({Head(q)}, Entries(Tail(q)))
<1>1. /\ 1 \in DOMAIN q /\ q[1] = Head(q)
      /\ \A i \in DOMAIN Tail(q) : i \in Nat /\ i > 0 /\ i + 1 \in DOMAIN q /\ Tail(q)[i] = q[i + 1]
  BY HeadTailFacts
<1>2. Sorted(Tail(q))
  <2> SUFFICES ASSUME NEW i \in DOMAIN Tail(q), NEW j \in DOMAIN Tail(q), i < j
               PROVE  Tail(q)[i] < Tail(q)[j]
    BY DEF Sorted
  <2>1. i + 1 < j + 1  BY <1>1
  <2>. QED  BY <1>1, <2>1 DEF Sorted
<1>3. \A i \in DOMAIN Tail(q) : 1 < i + 1
  BY <1>1
<1>. QED  BY <1>1, <1>2, <1>3 DEF Sorted, Below, Entries

LEMMA SingleFacts ==
    ASSUME NEW S, NEW x \in S
    PROVE  <<x>> \in Seq(S) /\ Entries(<<x>>) = {x}
BY DEF Entries

LEMMA AppendFacts ==
    ASSUME NEW S, NEW q \in Seq(S), NEW x \in S
    PROVE  /\ Append(q, x) \in Seq(S) /\ Entries(Append(q, x)) = Entries(q) \cup {x}
           /\ DOMAIN Append(q, x) = DOMAIN q \cup {Len(q) + 1}
           /\ Append(q, x)[Len(q) + 1] = x /\ \A i \in DOMAIN q : Append(q, x)[i] = q[i] /\ i <= Len(q)
<1>1. /\ Append(q, x) \in Seq(S)
      /\ DOMAIN Append(q, x) = DOMAIN q \cup {Len(q) + 1}
      /\ Append(q, x)[Len(q) + 1] = x /\ \A i \in DOMAIN q : Append(q, x)[i] = q[i] /\ i <= Len(q)
  OBVIOUS
<1>2. Entries(Append(q, x)) = Entries(q) \cup {x}
  BY <1>1 DEF Entries
<1>. QED  BY <1>1, <1>2

LEMMA EntriesFacts ==
    ASSUME NEW S, NEW q \in Seq(S)
    PROVE  Entries(q) \subseteq S /\ (Entries(q) = {} <=> q = <<>>)
<1>1. Entries(q) \subseteq S  BY DEF Entries
<1>2. Entries(q) = {} <=> DOMAIN q = {}  BY DEF Entries
<1>. QED  BY <1>1, <1>2

-----------------------------------------------------------------------------
(* What the operators of Socket and Transport do to a box. *)

PostRec(N) == [state : {"free", "out", "silent"}, session : 0..MaxSessions, body : Seq(1..N)]

\* o is a box of packets up to N.
BoxOK(o, N) ==
    /\ o \in [doBuffer : BOOLEAN, buffer : Seq(1..N), wire : [Sessions -> Seq(1..N)],
              post : [Posts -> PostRec(N)]]
    /\ \A p \in Posts : o.post[p].state = "free" => o.post[p] = NoPost

\* The body q is put in a request of session s, and r is the box then.
PostedTo(o, r, s, q) ==
    /\ r.doBuffer = TRUE /\ r.buffer = o.buffer /\ r.wire = o.wire
    /\ \E new \in FreePosts(o) :
          /\ r.post[new] = [state |-> "out", session |-> s, body |-> q]
          /\ \A p \in Posts \ {new} :
                /\ r.post[p].session = o.post[p].session /\ r.post[p].body = o.post[p].body
                /\ \/ r.post[p].state = o.post[p].state
                   \/ r.post[p].state = "silent" /\ o.post[p].state = "out" /\ o.post[p].session = s

LEMMA PostedShape ==
    ASSUME NEW N \in Nat, NEW o, BoxOK(o, N), FreePosts(o) # {},
           NEW s \in Sessions, NEW q \in Seq(1..N)
    PROVE  BoxOK(Posted(o, s, q), N) /\ PostedTo(o, Posted(o, s, q), s, q)
<1> DEFINE r == Posted(o, s, q)
           new == CHOOSE p \in FreePosts(o) : TRUE
           replaced(p) == kind[s] = "jsonp-polling" /\ o.post[p].state = "out" /\ o.post[p].session = s
           posts == [p \in Posts |-> IF p = new THEN [state |-> "out", session |-> s, body |-> q]
                                     ELSE IF replaced(p) THEN [o.post[p] EXCEPT !.state = "silent"]
                                     ELSE o.post[p]]
<1>1. new \in FreePosts(o)  OBVIOUS
<1>2. new \in Posts  BY <1>1 DEF FreePosts
<1>3. \A p \in Posts : o.post[p] \in PostRec(N)
  BY DEF BoxOK
<1>4. s \in 0..MaxSessions
  BY BoundsAssumption DEF Sessions
<1>5. \A p \in Posts : posts[p] \in PostRec(N)
  <2> SUFFICES ASSUME NEW p \in Posts PROVE posts[p] \in PostRec(N)  OBVIOUS
  <2>1. CASE p = new  BY <1>4, <2>1 DEF PostRec
  <2>2. CASE p # new  BY <1>3, <2>2 DEF PostRec
  <2>. QED  BY <2>1, <2>2
<1>6. posts \in [Posts -> PostRec(N)]
  BY <1>5
<1>7. r = [o EXCEPT !.doBuffer = TRUE, !.post = posts]
  BY DEF Posted
<1>8. /\ r.doBuffer = TRUE /\ r.buffer = o.buffer /\ r.wire = o.wire /\ r.post = posts
      /\ r \in [doBuffer : BOOLEAN, buffer : Seq(1..N), wire : [Sessions -> Seq(1..N)],
                post : [Posts -> PostRec(N)]]
  <2> HIDE DEF posts, r
  <2>. QED  BY <1>6, <1>7 DEF BoxOK
<1>9. \A p \in Posts \ {new} :
         /\ posts[p].session = o.post[p].session /\ posts[p].body = o.post[p].body
         /\ \/ posts[p] = o.post[p]
            \/ posts[p].state = "silent" /\ o.post[p].state = "out" /\ o.post[p].session = s
  <2> SUFFICES ASSUME NEW p \in Posts \ {new}
               PROVE  /\ posts[p].session = o.post[p].session /\ posts[p].body = o.post[p].body
                      /\ \/ posts[p] = o.post[p]
                         \/ posts[p].state = "silent" /\ o.post[p].state = "out" /\ o.post[p].session = s
    OBVIOUS
  <2>. QED  BY <1>3 DEF PostRec
<1>10. posts[new] = [state |-> "out", session |-> s, body |-> q]
  BY <1>2
<1>11. BoxOK(r, N)
  <2> HIDE DEF posts, r, new
  <2>. QED  BY <1>8, <1>9, <1>10 DEF BoxOK
<1>12. PostedTo(o, r, s, q)
  <2> HIDE DEF posts, r, new
  <2>. QED  BY <1>1, <1>8, <1>9, <1>10 DEF PostedTo
<1>. QED  BY <1>11, <1>12

\* The packets q are handed to the current transport, and r is the box then.
Handed(o, r, q) ==
    /\ r.buffer = o.buffer
    /\ \/ /\ kind[cur] = "websocket" /\ r.doBuffer = o.doBuffer /\ r.post = o.post
          /\ r.wire[cur] = o.wire[cur] \o q
          /\ \A s \in Sessions \ {cur} : r.wire[s] = o.wire[s]
       \/ kind[cur] # "websocket" /\ PostedTo(o, r, cur, q)

CanSend(o) == cur \in Sessions /\ (kind[cur] # "websocket" => FreePosts(o) # {})

LEMMA TransmittedShape ==
    ASSUME NEW N \in Nat, NEW o, BoxOK(o, N), NEW q \in Seq(1..N), CanSend(o)
    PROVE  BoxOK(Transmitted(o, q), N) /\ Handed(o, Transmitted(o, q), q)
<1>1. CASE kind[cur] = "websocket"
  <2>1. Transmitted(o, q) = [o EXCEPT !.wire[cur] = @ \o q]
    BY <1>1 DEF Transmitted
  <2>2. o.wire[cur] \o q \in Seq(1..N)
    BY DEF BoxOK, CanSend
  <2>. QED  BY <1>1, <2>1, <2>2 DEF BoxOK, CanSend, Handed
<1>2. CASE kind[cur] # "websocket"
  <2>1. Transmitted(o, q) = Posted(o, cur, q)
    BY <1>2 DEF Transmitted
  <2>2. BoxOK(Posted(o, cur, q), N) /\ PostedTo(o, Posted(o, cur, q), cur, q)
    BY <1>2, PostedShape DEF CanSend
  <2>3. Posted(o, cur, q).buffer = o.buffer
    BY <2>2 DEF PostedTo
  <2>. QED  BY <1>2, <2>1, <2>2, <2>3 DEF Handed
<1>. QED  BY <1>1, <1>2

\* The box o with q in its buffer.
SameBut(o, r) == r.wire = o.wire /\ r.post = o.post

\* setBuffer hands all that is buffered over, by way of m and w.
AllHanded(o, r, N) ==
    \E m, w : /\ BoxOK(m, N) /\ m.doBuffer = FALSE /\ m.buffer = o.buffer /\ SameBut(o, m)
              /\ BoxOK(w, N) /\ Handed(m, w, o.buffer)
              /\ r.buffer = <<>> /\ r.doBuffer = w.doBuffer /\ SameBut(w, r)

\* Socket.packet hands the first packet to a POST, and buffers the others.
FirstHanded(o, r, q, N) ==
    \E w : /\ BoxOK(w, N) /\ Handed(o, w, <<Head(q)>>)
           /\ r.buffer = o.buffer \o Tail(q) /\ r.doBuffer = TRUE /\ SameBut(w, r)

\* What setBuffer and Socket.packet do: keep, or hand over.
LEMMA SetBufferShape ==
    ASSUME NEW N \in Nat, NEW o, BoxOK(o, N), NEW c \in BOOLEAN, NEW v \in BOOLEAN,
           c => CanSend(o)
    PROVE  /\ BoxOK(SetBuffer(o, c, v), N)
           /\ \/ /\ SetBuffer(o, c, v).buffer = o.buffer /\ SetBuffer(o, c, v).doBuffer = v
                 /\ SameBut(o, SetBuffer(o, c, v)) /\ (v \/ ~c \/ o.buffer = <<>>)
              \/ c /\ ~v /\ o.buffer # <<>> /\ AllHanded(o, SetBuffer(o, c, v), N)
<1> DEFINE m == [o EXCEPT !.doBuffer = v]
<1>1. BoxOK(m, N) /\ m.doBuffer = v /\ m.buffer = o.buffer /\ SameBut(o, m)
  BY DEF BoxOK, SameBut
<1>2. CASE ~v /\ c /\ o.buffer # <<>>
  <2> DEFINE w == Transmitted(m, o.buffer)
  <2>1. CanSend(m) /\ o.buffer \in Seq(1..N)
    BY <1>1, <1>2 DEF CanSend, FreePosts, SameBut, BoxOK
  <2>2. BoxOK(w, N) /\ Handed(m, w, o.buffer)
    BY <1>1, <2>1, TransmittedShape
  <2>3. SetBuffer(o, c, v) = [w EXCEPT !.buffer = <<>>]
    BY <1>2 DEF SetBuffer
  <2> HIDE DEF m, w
  <2> DEFINE r == SetBuffer(o, c, v)
  <2> HIDE DEF r
  <2>4. r = [w EXCEPT !.buffer = <<>>] /\ <<>> \in Seq(1..N)
    BY <2>3 DEF r
  <2>5. BoxOK(r, N) /\ r.buffer = <<>> /\ r.doBuffer = w.doBuffer /\ SameBut(w, r)
    BY <2>2, <2>4 DEF BoxOK, SameBut
  <2>6. /\ BoxOK(SetBuffer(o, c, v), N) /\ SetBuffer(o, c, v).buffer = <<>>
        /\ SetBuffer(o, c, v).doBuffer = w.doBuffer /\ SameBut(w, SetBuffer(o, c, v))
    BY <2>5 DEF r
  <2>7. AllHanded(o, SetBuffer(o, c, v), N)
    BY <1>1, <1>2, <2>2, <2>6 DEF AllHanded
  <2>. QED  BY <1>2, <2>6, <2>7
<1>3. CASE ~(~v /\ c /\ o.buffer # <<>>)
  BY <1>1, <1>3 DEF SetBuffer
<1>. QED  BY <1>2, <1>3

LEMMA GivenShape ==
    ASSUME NEW N \in Nat, NEW o, BoxOK(o, N), NEW c \in BOOLEAN, NEW q \in Seq(1..N),
           c /\ ~o.doBuffer => CanSend(o)
    PROVE  /\ BoxOK(Given(o, c, q), N)
           /\ \/ /\ q = <<>> \/ ~c \/ o.doBuffer
                 /\ Given(o, c, q).buffer = o.buffer \o q /\ Given(o, c, q).doBuffer = o.doBuffer
                 /\ SameBut(o, Given(o, c, q))
              \/ /\ q # <<>> /\ c /\ ~o.doBuffer /\ kind[cur] = "websocket"
                 /\ Handed(o, Given(o, c, q), q)
              \/ /\ q # <<>> /\ c /\ ~o.doBuffer /\ kind[cur] # "websocket"
                 /\ FirstHanded(o, Given(o, c, q), q, N)
<1>1. CASE q = <<>> \/ ~c \/ o.doBuffer
  <2>1. Given(o, c, q) = [o EXCEPT !.buffer = @ \o q]
    BY <1>1 DEF Given
  <2>2. o.buffer \o q \in Seq(1..N)
    BY DEF BoxOK
  <2>. QED  BY <1>1, <2>1, <2>2 DEF BoxOK, SameBut
<1>2. CASE q # <<>> /\ c /\ ~o.doBuffer /\ kind[cur] = "websocket"
  BY <1>2, TransmittedShape DEF Given
<1>3. CASE q # <<>> /\ c /\ ~o.doBuffer /\ kind[cur] # "websocket"
  <2> DEFINE w == Transmitted(o, <<Head(q)>>)
  <2>1. <<Head(q)>> \in Seq(1..N) /\ Tail(q) \in Seq(1..N)
    BY <1>3
  <2>2. BoxOK(w, N) /\ Handed(o, w, <<Head(q)>>)
    BY <1>3, <2>1, TransmittedShape
  <2>3. Given(o, c, q) = [w EXCEPT !.buffer = @ \o Tail(q)]
    BY <1>3 DEF Given
  <2> HIDE DEF w
  <2>4. w.buffer = o.buffer /\ w.doBuffer = TRUE
    BY <1>3, <2>2 DEF Handed, PostedTo
  <2>5. o.buffer \o Tail(q) \in Seq(1..N)
    BY <2>1 DEF BoxOK
  <2>6. /\ BoxOK(Given(o, c, q), N)
        /\ Given(o, c, q).buffer = o.buffer \o Tail(q) /\ Given(o, c, q).doBuffer = TRUE
        /\ SameBut(w, Given(o, c, q))
    BY <2>2, <2>3, <2>4, <2>5 DEF BoxOK, SameBut
  <2>7. FirstHanded(o, Given(o, c, q), q, N)
    BY <2>2, <2>6 DEF FirstHanded
  <2>. QED  BY <1>3, <2>6, <2>7
<1>. QED  BY <1>1, <1>2, <1>3

LEMMA DoneShape ==
    ASSUME NEW N \in Nat, BoxOK(box, N), NEW p \in Posts
    PROVE  /\ BoxOK(Done(p), N)
           /\ Done(p).doBuffer = box.doBuffer /\ Done(p).buffer = box.buffer
           /\ Done(p).wire = box.wire /\ Done(p).post[p] = NoPost
           /\ \A q \in Posts \ {p} : Done(p).post[q] = box.post[q]
           /\ p \in FreePosts(Done(p))
<1>1. NoPost \in PostRec(N)
  BY BoundsAssumption DEF NoPost, PostRec
<1>2. Done(p) = [box EXCEPT !.post[p] = NoPost]
  BY DEF Done
<1>3. [box.post EXCEPT ![p] = NoPost] \in [Posts -> PostRec(N)]
  BY <1>1 DEF BoxOK
<1>4. /\ BoxOK(Done(p), N)
      /\ Done(p).doBuffer = box.doBuffer /\ Done(p).buffer = box.buffer
      /\ Done(p).wire = box.wire /\ Done(p).post[p] = NoPost
      /\ \A q \in Posts \ {p} : Done(p).post[q] = box.post[q]
  BY <1>2, <1>3 DEF BoxOK
<1>. QED  BY <1>4 DEF FreePosts, NoPost

LEMMA Widened ==
    ASSUME NEW N \in Nat, NEW M \in Nat, N <= M, NEW o, BoxOK(o, N)
    PROVE  BoxOK(o, M)
<1>1. 1..N \subseteq 1..M  OBVIOUS
<1>2. Seq(1..N) \subseteq Seq(1..M)  BY <1>1
<1>. QED  BY <1>2 DEF BoxOK, PostRec

-----------------------------------------------------------------------------
(* Which requests there are, and who waits for them. *)

\* The frames of o are those of websockets, its POSTs those of other sessions.
Placed(o) ==
    /\ \A s \in Sessions : o.wire[s] # <<>> => kind[s] = "websocket"
    /\ \A p \in Posts : o.post[p].state # "free" =>
          o.post[p].session \in 1..cur /\ kind[o.post[p].session] # "websocket"

\* Packets are buffered only until the end of a POST is told ...
Awaited(o) == o.doBuffer => \E p \in Posts : o.post[p].state = "out"

\* ... and only then, while the socket is connected.
Flushed(o, c) == c /\ ~o.doBuffer => o.buffer = <<>>

\* Sessions are opened one after the other, and the last one is connected.
Opened ==
    /\ connected => cur # 0 /\ link[cur] = "open"
    /\ \A s \in Sessions : (kind[s] = "none" <=> s > cur) /\ (link[s] = "none" <=> s > cur)

ShapeInv ==
    /\ TypeOK
    /\ Opened
    /\ Placed(box)
    /\ cur # 0 /\ link[cur] = "open" => Awaited(box)
    /\ Flushed(box, connected)

LEMMA HandedPlaced ==
    ASSUME NEW N \in Nat, NEW o, BoxOK(o, N), NEW r, BoxOK(r, N), NEW q \in Seq(1..N), CanSend(o),
           Handed(o, r, q), Placed(o)
    PROVE  Placed(r) /\ (Awaited(o) => Awaited(r)) /\ (kind[cur] # "websocket" => Awaited(r))
<1>1. cur \in Sessions /\ cur \in 1..cur
  BY DEF CanSend, Sessions
<1>2. CASE kind[cur] = "websocket"
  BY <1>1, <1>2 DEF Handed, Placed, Awaited
<1>3. CASE kind[cur] # "websocket"
  <2>1. PICK new \in FreePosts(o) :
           /\ r.post[new] = [state |-> "out", session |-> cur, body |-> q]
           /\ \A p \in Posts \ {new} :
                 /\ r.post[p].session = o.post[p].session /\ r.post[p].body = o.post[p].body
                 /\ \/ r.post[p].state = o.post[p].state
                    \/ r.post[p].state = "silent" /\ o.post[p].state = "out" /\ o.post[p].session = cur
    BY <1>3 DEF Handed, PostedTo
  <2>2. new \in Posts /\ r.post[new].state = "out" /\ r.post[new].session = cur
    BY <2>1 DEF FreePosts
  <2>3. Awaited(r)
    BY <2>2 DEF Awaited
  <2>4. r.wire = o.wire
    BY <1>3 DEF Handed, PostedTo
  <2>5. \A p \in Posts : r.post[p].state # "free" =>
           r.post[p].session \in 1..cur /\ kind[r.post[p].session] # "websocket"
    BY <1>1, <1>3, <2>1, <2>2 DEF Placed
  <2>. QED  BY <1>3, <2>3, <2>4, <2>5 DEF Placed
<1>. QED  BY <1>2, <1>3

LEMMA SetBufferPlaced ==
    ASSUME NEW N \in Nat, NEW o, BoxOK(o, N), NEW c \in BOOLEAN, NEW v \in BOOLEAN,
           c => CanSend(o), Placed(o)
    PROVE  /\ Placed(SetBuffer(o, c, v))
           /\ ~v => Awaited(SetBuffer(o, c, v)) /\ Flushed(SetBuffer(o, c, v), c)
<1> DEFINE r == SetBuffer(o, c, v)
<1> HIDE DEF r
<1>1. CASE r.buffer = o.buffer /\ r.doBuffer = v /\ SameBut(o, r) /\ (v \/ ~c \/ o.buffer = <<>>)
  <2>1. Placed(r)  BY <1>1 DEF SameBut, Placed
  <2>2. ~v => Awaited(r) /\ Flushed(r, c)  BY <1>1 DEF Awaited, Flushed
  <2>. QED  BY <2>1, <2>2 DEF r
<1>2. CASE c /\ ~v /\ o.buffer # <<>> /\ AllHanded(o, r, N)
  <2>1. PICK m, w : /\ BoxOK(m, N) /\ m.doBuffer = FALSE /\ m.buffer = o.buffer /\ SameBut(o, m)
                    /\ BoxOK(w, N) /\ Handed(m, w, o.buffer)
                    /\ r.buffer = <<>> /\ r.doBuffer = w.doBuffer /\ SameBut(w, r)
    BY <1>2 DEF AllHanded
  <2>2. CanSend(m) /\ Placed(m) /\ Awaited(m) /\ o.buffer \in Seq(1..N)
    BY <1>2, <2>1 DEF CanSend, FreePosts, SameBut, Placed, Awaited, BoxOK
  <2>3. Placed(w) /\ Awaited(w)
    BY <2>1, <2>2, HandedPlaced
  <2>4. Placed(r) /\ Awaited(r) /\ Flushed(r, c)
    BY <2>1, <2>3 DEF SameBut, Placed, Awaited, Flushed
  <2>. QED  BY <2>4 DEF r
<1>. QED  BY <1>1, <1>2, SetBufferShape DEF r

LEMMA GivenPlaced ==
    ASSUME NEW N \in Nat, NEW o, BoxOK(o, N), NEW c \in BOOLEAN, NEW q \in Seq(1..N),
           c /\ ~o.doBuffer => CanSend(o), Placed(o), Flushed(o, c)
    PROVE  /\ Placed(Given(o, c, q)) /\ Flushed(Given(o, c, q), c)
           /\ Awaited(o) => Awaited(Given(o, c, q))
<1> DEFINE r == Given(o, c, q)
<1> HIDE DEF r
<1>1. CASE /\ q = <<>> \/ ~c \/ o.doBuffer
           /\ r.buffer = o.buffer \o q /\ r.doBuffer = o.doBuffer /\ SameBut(o, r)
  <2>1. Placed(r) /\ (Awaited(o) => Awaited(r))
    BY <1>1 DEF SameBut, Placed, Awaited
  <2>2. Flushed(r, c)
    BY <1>1, ConcatFacts DEF Flushed, BoxOK
  <2>. QED  BY <2>1, <2>2 DEF r
<1>2. CASE q # <<>> /\ c /\ ~o.doBuffer /\ kind[cur] = "websocket" /\ Handed(o, r, q)
  <2>1. BoxOK(r, N)  BY GivenShape DEF r
  <2>2. Placed(r) /\ (Awaited(o) => Awaited(r))  BY <1>2, <2>1, HandedPlaced
  <2>3. r.buffer = o.buffer  BY <1>2 DEF Handed
  <2>. QED  BY <1>2, <2>2, <2>3 DEF r, Flushed
<1>3. CASE q # <<>> /\ c /\ ~o.doBuffer /\ kind[cur] # "websocket" /\ FirstHanded(o, r, q, N)
  <2>1. PICK w : /\ BoxOK(w, N) /\ Handed(o, w, <<Head(q)>>)
                 /\ r.buffer = o.buffer \o Tail(q) /\ r.doBuffer = TRUE /\ SameBut(w, r)
    BY <1>3 DEF FirstHanded
  <2>2. <<Head(q)>> \in Seq(1..N)  BY <1>3
  <2>3. Placed(w) /\ Awaited(w) /\ w.doBuffer = TRUE
    BY <1>3, <2>1, <2>2, HandedPlaced DEF Handed, PostedTo
  <2>4. Placed(r) /\ Flushed(r, c) /\ Awaited(r)
    BY <2>1, <2>3 DEF SameBut, Placed, Awaited, Flushed
  <2>. QED  BY <2>4 DEF r
<1>. QED  BY <1>1, <1>2, <1>3, GivenShape DEF r

-----------------------------------------------------------------------------
(* The types. *)

PacketType == [type : {"connect", "message", "disconnect"}, name : Names \cup {""}]

\* The parts of the type invariant.
ConnType ==
    /\ connected \in BOOLEAN /\ open \in BOOLEAN /\ reconnecting \in BOOLEAN
    /\ cur \in 0..MaxSessions
    /\ kind \in [Sessions -> Kinds \cup {"none"}]
    /\ link \in [Sessions -> {"none", "opening", "open", "closing", "closed"}]

MadeType ==
    /\ what \in Seq(PacketType) /\ namespaces \in Seq(Names)
    /\ dismissed \subseteq Names

ServerType ==
    /\ received \in Seq(Sessions \X (1..Len(what))) /\ lost \subseteq 1..Len(what)
    /\ failing \subseteq Sessions /\ spoiled \subseteq 0..MaxSessions

LEMMA TypeParts ==
    TypeOK <=> ConnType /\ MadeType /\ ServerType /\ BoxOK(box, Len(what))
<1> DEFINE N == Len(what)
<1>1. what \in Seq(PacketType) => DOMAIN what = 1..N
  OBVIOUS
<1>2. ASSUME what \in Seq(PacketType), NEW D, D = 1..N
      PROVE  (box \in [doBuffer : BOOLEAN, buffer : Seq(D), wire : [Sessions -> Seq(D)],
                       post : [Posts -> [state : {"free", "out", "silent"}, session : 0..MaxSessions,
                                         body : Seq(D)]]]
              /\ \A p \in Posts : box.post[p].state = "free" => box.post[p] = NoPost)
             <=> BoxOK(box, N)
  BY <1>2 DEF BoxOK, PostRec
<1> HIDE DEF N
<1>3. ASSUME TypeOK
      PROVE  ConnType /\ MadeType /\ ServerType /\ BoxOK(box, Len(what))
  <2>1. ConnType /\ MadeType
    BY <1>3 DEF TypeOK, ConnType, MadeType, PacketType
  <2>2. what \in Seq(PacketType) /\ DOMAIN what = 1..N
    BY <1>1, <2>1 DEF MadeType
  <2>3. ServerType
    <3>1. Sessions \X DOMAIN what = Sessions \X (1..N)
      BY <2>2
    <3>2. received \in Seq(Sessions \X (1..N))
      BY <1>3, <3>1, Zenon DEF TypeOK
    <3>. QED  BY <1>3, <2>2, <3>2 DEF TypeOK, ServerType, N
  <2>4. BoxOK(box, N)
    BY <1>2, <1>3, <2>2 DEF TypeOK
  <2>. QED  BY <2>1, <2>3, <2>4 DEF N
<1>4. ASSUME ConnType, MadeType, ServerType, BoxOK(box, Len(what))
      PROVE  TypeOK
  <2>1. what \in Seq(PacketType) /\ DOMAIN what = 1..N
    BY <1>1, <1>4 DEF MadeType
  <2>2. /\ box \in [doBuffer : BOOLEAN, buffer : Seq(DOMAIN what), wire : [Sessions -> Seq(DOMAIN what)],
                     post : [Posts -> [state : {"free", "out", "silent"}, session : 0..MaxSessions,
                                       body : Seq(DOMAIN what)]]]
        /\ \A p \in Posts : box.post[p].state = "free" => box.post[p] = NoPost
    BY <1>2, <1>4, <2>1 DEF N
  <2>3. received \in Seq(Sessions \X DOMAIN what) /\ lost \subseteq DOMAIN what
    <3>1. Sessions \X DOMAIN what = Sessions \X (1..N)
      BY <2>1
    <3>2. received \in Seq(Sessions \X (1..N))
      BY <1>4 DEF ServerType, N
    <3>. QED  BY <1>4, <2>1, <3>1, <3>2, Zenon DEF ServerType, N
  <2>. QED  BY <1>4, <2>2, <2>3 DEF TypeOK, ConnType, MadeType, ServerType, PacketType
<1>. QED  BY <1>3, <1>4

LEMMA TypePartsPrime ==
    TypeOK' <=> ConnType' /\ MadeType' /\ ServerType' /\ BoxOK(box', Len(what'))
<1> DEFINE N == Len(what')
<1>1. what' \in Seq(PacketType) => DOMAIN what' = 1..N
  OBVIOUS
<1>2. ASSUME what' \in Seq(PacketType), NEW D, D = 1..N
      PROVE  (box' \in [doBuffer : BOOLEAN, buffer : Seq(D), wire : [Sessions -> Seq(D)],
                       post : [Posts -> [state : {"free", "out", "silent"}, session : 0..MaxSessions,
                                         body : Seq(D)]]]
              /\ \A p \in Posts : box'.post[p].state = "free" => box'.post[p] = NoPost)
             <=> BoxOK(box', N)
  BY <1>2 DEF BoxOK, PostRec
<1> HIDE DEF N
<1>3. ASSUME TypeOK'
      PROVE  ConnType' /\ MadeType' /\ ServerType' /\ BoxOK(box', Len(what'))
  <2>1. ConnType' /\ MadeType'
    BY <1>3 DEF TypeOK, ConnType, MadeType, PacketType
  <2>2. what' \in Seq(PacketType) /\ DOMAIN what' = 1..N
    BY <1>1, <2>1 DEF MadeType
  <2>3. ServerType'
    <3>1. Sessions \X DOMAIN what' = Sessions \X (1..N)
      BY <2>2
    <3>2. received' \in Seq(Sessions \X (1..N))
      BY <1>3, <3>1, Zenon DEF TypeOK
    <3>. QED  BY <1>3, <2>2, <3>2 DEF TypeOK, ServerType, N
  <2>4. BoxOK(box', N)
    BY <1>2, <1>3, <2>2 DEF TypeOK
  <2>. QED  BY <2>1, <2>3, <2>4 DEF N
<1>4. ASSUME ConnType', MadeType', ServerType', BoxOK(box', Len(what'))
      PROVE  TypeOK'
  <2>1. what' \in Seq(PacketType) /\ DOMAIN what' = 1..N
    BY <1>1, <1>4 DEF MadeType
  <2>2. /\ box' \in [doBuffer : BOOLEAN, buffer : Seq(DOMAIN what'), wire : [Sessions -> Seq(DOMAIN what')],
                     post : [Posts -> [state : {"free", "out", "silent"}, session : 0..MaxSessions,
                                       body : Seq(DOMAIN what')]]]
        /\ \A p \in Posts : box'.post[p].state = "free" => box'.post[p] = NoPost
    BY <1>2, <1>4, <2>1 DEF N
  <2>3. received' \in Seq(Sessions \X DOMAIN what') /\ lost' \subseteq DOMAIN what'
    <3>1. Sessions \X DOMAIN what' = Sessions \X (1..N)
      BY <2>1
    <3>2. received' \in Seq(Sessions \X (1..N))
      BY <1>4 DEF ServerType, N
    <3>. QED  BY <1>4, <2>1, <3>1, <3>2, Zenon DEF ServerType, N
  <2>. QED  BY <1>4, <2>2, <2>3 DEF TypeOK, ConnType, MadeType, ServerType, PacketType
<1>. QED  BY <1>3, <1>4

LEMMA LenFacts ==
    ASSUME TypeOK
    PROVE  Len(what) \in Nat /\ BoxOK(box, Len(what))
<1>1. what \in Seq(PacketType)
  BY TypeParts DEF MadeType
<1>. QED  BY <1>1, TypeParts

\* Packets the application makes get the next numbers.
LEMMA MakeFacts ==
    ASSUME TypeOK, NEW packets \in Seq(PacketType), Make(packets)
    PROVE  /\ what' \in Seq(PacketType)
           /\ Len(what) \in Nat /\ Len(what') \in Nat /\ Len(what) <= Len(what')
           /\ Len(what') = Len(what) + Len(packets)
           /\ \A i \in 1..Len(what) : what'[i] = what[i]
           /\ \A i \in 1..Len(packets) : what'[Len(what) + i] = packets[i]
           /\ Numbers(packets) \in Seq(1..Len(what')) /\ Sorted(Numbers(packets))
           /\ Entries(Numbers(packets)) = (Len(what) + 1)..Len(what')
           /\ BoxOK(box, Len(what'))
<1>1. what \in Seq(PacketType) /\ what' = what \o packets
  BY TypeParts DEF Make, MadeType
<1>2. /\ what' \in Seq(PacketType) /\ Len(what) \in Nat /\ Len(packets) \in Nat
      /\ Len(what') = Len(what) + Len(packets)
      /\ \A i \in 1..Len(what) : what'[i] = what[i]
      /\ \A i \in 1..Len(packets) : what'[Len(what) + i] = packets[i]
  BY <1>1
<1>3. Numbers(packets) = [i \in 1..Len(packets) |-> Len(what) + i]
  BY DEF Numbers
<1>4. \A i \in 1..Len(packets) : Len(what) + i \in 1..Len(what')
  BY <1>2
<1>5. Numbers(packets) \in Seq(1..Len(what'))
  BY <1>2, <1>3, <1>4
<1>6. Sorted(Numbers(packets))
  BY <1>2, <1>3 DEF Sorted
<1>7. Entries(Numbers(packets)) = (Len(what) + 1)..Len(what')
  <2>1. ASSUME NEW n \in (Len(what) + 1)..Len(what') PROVE n \in Entries(Numbers(packets))
    <3>1. n - Len(what) \in 1..Len(packets) /\ n = Len(what) + (n - Len(what))
      BY <1>2
    <3>. QED  BY <1>3, <3>1 DEF Entries
  <2>2. ASSUME NEW n \in Entries(Numbers(packets)) PROVE n \in (Len(what) + 1)..Len(what')
    BY <1>2, <1>3 DEF Entries
  <2>. QED  BY <2>1, <2>2
<1>8. BoxOK(box, Len(what'))
  <2>1. Len(what) \in Nat /\ Len(what') \in Nat /\ Len(what) <= Len(what')
    BY <1>2
  <2>. QED  BY <2>1, LenFacts, Widened
<1>. QED  BY <1>2, <1>5, <1>6, <1>7, <1>8

\* What the server has read and what is lost keep their types.
LEMMA ServerTypeKept ==
    ASSUME ServerType, NEW N \in Nat, Len(what) \in Nat, Len(what) <= N, Len(what') = N,
           received' = received, lost' = lost, failing' = failing, spoiled' = spoiled
    PROVE  ServerType'
<1> DEFINE A == Sessions \X (1..Len(what))
           B == Sessions \X (1..N)
<1>1. A \subseteq B  OBVIOUS
<1>2. received \in Seq(B)
  <2>1. received \in Seq(A)
    BY DEF ServerType
  <2> HIDE DEF A, B
  <2>. QED  BY <1>1, <2>1
<1>3. lost \subseteq 1..N
  BY DEF ServerType
<1>. QED  BY <1>2, <1>3 DEF ServerType

LEMMA ShapeInit == Init => ShapeInv
<1> SUFFICES ASSUME Init PROVE ShapeInv  OBVIOUS
<1> USE BoundsAssumption DEF Init
<1>1. what = <<>> /\ Len(what) = 0 /\ what \in Seq(PacketType)
  OBVIOUS
<1>2. box = [doBuffer |-> FALSE, buffer |-> <<>>, wire |-> [s \in Sessions |-> <<>>],
             post |-> [p \in Posts |-> NoPost]]
  BY DEF EmptyBox
<1>3. BoxOK(box, 0)
  <2>1. NoPost \in PostRec(0)
    BY DEF NoPost, PostRec
  <2>2. [p \in Posts |-> NoPost] \in [Posts -> PostRec(0)]
    BY <2>1
  <2>3. <<>> \in Seq(1..0) /\ [s \in Sessions |-> <<>>] \in [Sessions -> Seq(1..0)]
    OBVIOUS
  <2>4. \A p \in Posts : box.post[p] = NoPost
    BY <1>2
  <2>. QED  BY <1>2, <2>2, <2>3, <2>4 DEF BoxOK
<1>4. TypeOK
  <2>1. ConnType
    <3>1. 0 \in 0..MaxSessions
      OBVIOUS
    <3>2. kind = [s \in Sessions |-> "none"] /\ link = [s \in Sessions |-> "none"]
      OBVIOUS
    <3>3. connected = FALSE /\ open = FALSE /\ reconnecting = FALSE /\ cur = 0
      OBVIOUS
    <3> HIDE DEF Init
    <3>. QED  BY <3>1, <3>2, <3>3 DEF ConnType
  <2>2. MadeType /\ ServerType  BY <1>1 DEF MadeType, ServerType
  <2>. QED  BY <1>1, <1>3, <2>1, <2>2, TypeParts
<1>5. Opened
  BY DEF Opened, Sessions
<1>6. Placed(box) /\ Flushed(box, connected)
  BY <1>2 DEF Placed, Flushed, NoPost
<1>. QED  BY <1>4, <1>5, <1>6 DEF ShapeInv

-----------------------------------------------------------------------------
(* Every action keeps the shape. *)

\* An action that opens no session makes box X of the box.
LEMMA ShapeStep ==
    ASSUME NEW X, box' = X, BoxOK(X, Len(what')), Placed(X), kind' = kind, cur' = cur,
           ConnType', MadeType', ServerType', Opened',
           cur # 0 /\ link'[cur] = "open" => Awaited(X),
           Flushed(X, connected')
    PROVE  ShapeInv'
<1>1. TypeOK'
  BY TypePartsPrime
<1>2. Placed(box)'
  BY DEF Placed
<1>3. (cur # 0 /\ link[cur] = "open" => Awaited(box))'
  BY DEF Awaited
<1>4. Flushed(box, connected)'
  BY DEF Flushed
<1>. QED  BY <1>1, <1>2, <1>3, <1>4 DEF ShapeInv

LEMMA ShapeFacts ==
    ASSUME ShapeInv
    PROVE  /\ ConnType /\ MadeType /\ ServerType /\ Opened /\ Placed(box)
           /\ Len(what) \in Nat /\ BoxOK(box, Len(what))
           /\ (cur # 0 /\ link[cur] = "open" => Awaited(box)) /\ Flushed(box, connected)
           /\ (cur # 0 => cur \in Sessions)
           /\ (connected => cur \in Sessions /\ link[cur] = "open")
<1>1. TypeOK /\ ConnType /\ Opened
  BY TypeParts DEF ShapeInv
<1>2. cur # 0 => cur \in Sessions
  BY <1>1, BoundsAssumption DEF ConnType, Sessions
<1>. QED  BY <1>1, <1>2, TypeParts, LenFacts DEF ShapeInv, Opened

\* The connection is given up.
LEMMA DisconnectFacts ==
    ASSUME ShapeInv, NEW reason, OnDisconnect(reason)
    PROVE  /\ ConnType' /\ Opened' /\ kind' = kind /\ cur' = cur
           /\ connected' = FALSE /\ (cur # 0 => link'[cur] # "open")
           /\ dismissed' \subseteq Names
<1>. ConnType /\ MadeType /\ Opened /\ (cur # 0 => cur \in Sessions)
  BY ShapeFacts
<1>1. /\ kind' = kind /\ cur' = cur /\ connected' = FALSE /\ open' = FALSE
      /\ reconnecting' \in BOOLEAN
  BY DEF OnDisconnect, ConnType
<1>2. \/ link' = link /\ ~connected /\ ~Connecting
      \/ /\ cur \in Sessions /\ link[cur] \in {"opening", "open"}
         /\ \E state \in {"closing", "closed"} : link' = [link EXCEPT ![cur] = state]
  BY DEF OnDisconnect, Connecting, Opened
<1>3. link' \in [Sessions -> {"none", "opening", "open", "closing", "closed"}]
  BY <1>2 DEF ConnType
<1>4. \A s \in Sessions : link'[s] = "none" <=> link[s] = "none"
  BY <1>2 DEF ConnType
<1>5. cur # 0 => link'[cur] # "open"
  BY <1>2 DEF ConnType, Connecting
<1>6. dismissed' \subseteq Names
  BY DEF OnDisconnect, MadeType, Entries
<1>. QED  BY <1>1, <1>3, <1>4, <1>5, <1>6 DEF ConnType, Opened

LEMMA OpenShape ==
    ASSUME ShapeInv, NEW k \in Kinds, Open(k)
    PROVE  ShapeInv'
<1>. ConnType /\ MadeType /\ ServerType /\ Opened /\ Placed(box) /\ BoxOK(box, Len(what))
  BY ShapeFacts
<1>1. cur + 1 \in Sessions /\ cur \in Nat /\ cur + 1 \in 0..MaxSessions /\ k # "none"
  BY BoundsAssumption, KindsAssumption DEF Open, ConnType, Sessions, AllKinds
<1>2. /\ connected' = FALSE /\ cur' = cur + 1 /\ kind' = [kind EXCEPT ![cur + 1] = k]
      /\ \E state \in {"opening", "open"} : link' = [link EXCEPT ![cur + 1] = state]
      /\ what' = what /\ namespaces' = namespaces /\ dismissed' = dismissed
      /\ received' = received /\ lost' = lost /\ failing' = failing /\ spoiled' = spoiled
      /\ open' \in BOOLEAN /\ reconnecting' = reconnecting
  BY DEF Open, made, ConnType
<1>3. ConnType'
  BY <1>1, <1>2 DEF ConnType
<1>4. MadeType' /\ ServerType'
  BY <1>2 DEF MadeType, ServerType
<1>5. box' = box \/ box' = [box EXCEPT !.doBuffer = FALSE]
  BY DEF Open
<1>6. BoxOK(box', Len(what')) /\ box'.wire = box.wire /\ box'.post = box.post
  BY <1>2, <1>5 DEF BoxOK
<1>7. Opened'
  BY <1>1, <1>2 DEF Opened, ConnType, Sessions
<1>8. Placed(box)'
  <2>1. kind[cur + 1] = "none" /\ \A s \in 1..cur : s \in 1..(cur + 1) /\ kind'[s] = kind[s]
    BY <1>1, <1>2 DEF Opened, ConnType, Sessions
  <2>2. \A s \in Sessions : s # cur + 1 => kind'[s] = kind[s]
    BY <1>1, <1>2 DEF ConnType
  <2>3. \A s \in Sessions : box.wire[s] # <<>> => s # cur + 1
    BY <2>1 DEF Placed
  <2>. QED  BY <1>2, <1>6, <2>1, <2>2, <2>3 DEF Placed
<1>9. (cur # 0 /\ link[cur] = "open" => Awaited(box))'
  <2>1. k # "websocket" => box'.doBuffer = FALSE
    BY DEF Open, BoxOK
  <2>2. k = "websocket" => link'[cur'] = "opening"
    BY <1>1, <1>2 DEF Open, ConnType
  <2>. QED  BY <2>1, <2>2 DEF Awaited
<1>10. Flushed(box, connected)'
  BY <1>2 DEF Flushed
<1>11. TypeOK'
  BY <1>3, <1>4, <1>6, TypePartsPrime
<1>. QED  BY <1>7, <1>8, <1>9, <1>10, <1>11 DEF ShapeInv

LEMMA WebSocketOpensShape ==
    ASSUME ShapeInv, WebSocketOpens
    PROVE  ShapeInv'
<1>. ConnType /\ MadeType /\ ServerType /\ Opened /\ Placed(box) /\ BoxOK(box, Len(what)) /\ Len(what) \in Nat
  BY ShapeFacts
<1> DEFINE X == SetBuffer(box, FALSE, FALSE)
<1>1. cur \in Sessions /\ connected = FALSE
  BY ShapeFacts DEF WebSocketOpens, ConnType
<1>2. /\ box' = X /\ kind' = kind /\ cur' = cur /\ what' = what /\ connected' = connected
      /\ link' = [link EXCEPT ![cur] = "open"] /\ open' = TRUE /\ reconnecting' = reconnecting
      /\ namespaces' = namespaces /\ dismissed' = dismissed
      /\ received' = received /\ lost' = lost /\ failing' = failing /\ spoiled' = spoiled
  BY <1>1 DEF WebSocketOpens, made
<1>3. BoxOK(X, Len(what)) /\ Placed(X) /\ Awaited(X) /\ Flushed(X, FALSE)
  BY SetBufferShape, SetBufferPlaced
<1>4. ConnType' /\ MadeType' /\ ServerType' /\ Opened'
  <2>1. ConnType'  BY <1>1, <1>2 DEF ConnType
  <2>2. MadeType' /\ ServerType'  BY <1>2 DEF MadeType, ServerType
  <2>3. Opened'  BY <1>1, <1>2 DEF Opened, ConnType, WebSocketOpens
  <2>. QED  BY <2>1, <2>2, <2>3
<1> HIDE DEF X
<1>. QED  BY <1>1, <1>2, <1>3, <1>4, ShapeStep

\* After a flush there is a POST for the packets that follow, or they are buffered.
LEMMA FlushedCanSend ==
    ASSUME NEW N \in Nat, NEW o, BoxOK(o, N), CanSend(o)
    PROVE  ~SetBuffer(o, TRUE, FALSE).doBuffer => CanSend(SetBuffer(o, TRUE, FALSE))
<1> DEFINE r == SetBuffer(o, TRUE, FALSE)
<1> HIDE DEF r
<1>1. SameBut(o, r) \/ AllHanded(o, r, N)
  BY SetBufferShape DEF r
<1>2. CASE SameBut(o, r)
  <2>1. CanSend(r)  BY <1>2 DEF SameBut, CanSend, FreePosts
  <2>. QED  BY <2>1 DEF r
<1>3. CASE AllHanded(o, r, N)
  <2>1. r.doBuffer = TRUE \/ kind[cur] = "websocket"
    BY <1>3 DEF AllHanded, Handed, PostedTo
  <2>2. ~r.doBuffer => CanSend(r)
    BY <2>1 DEF CanSend
  <2>. QED  BY <2>2 DEF r
<1>. QED  BY <1>1, <1>2, <1>3

\* The box when "1::" arrives, before the namespaces are renewed.
Reopened == IF box.doBuffer THEN box ELSE SetBuffer(box, TRUE, FALSE)

LEMMA ReopenedFacts ==
    ASSUME ShapeInv, Connecting, link[cur] = "open", Room(box), NEW N \in Nat, BoxOK(box, N)
    PROVE  /\ BoxOK(Reopened, N) /\ Placed(Reopened) /\ Awaited(Reopened) /\ Flushed(Reopened, TRUE)
           /\ ~Reopened.doBuffer => CanSend(Reopened)
<1>1. CanSend(box) /\ Placed(box) /\ Awaited(box)
  BY ShapeFacts DEF CanSend, Room, Connecting
<1>2. CASE box.doBuffer
  BY <1>1, <1>2 DEF Reopened, Flushed
<1>3. CASE ~box.doBuffer
  <2>1. Reopened = SetBuffer(box, TRUE, FALSE)
    BY <1>3 DEF Reopened
  <2>2. /\ BoxOK(Reopened, N) /\ Placed(Reopened) /\ Awaited(Reopened) /\ Flushed(Reopened, TRUE)
    BY <1>1, <2>1, SetBufferShape, SetBufferPlaced
  <2>. QED  BY <1>1, <2>1, <2>2, FlushedCanSend
<1>. QED  BY <1>2, <1>3

LEMMA RenewalsType ==
    ASSUME MadeType PROVE Renewals \in Seq(PacketType)
<1>1. CASE reconnecting
  <2>1. \A i \in DOMAIN namespaces : [type |-> "connect", name |-> namespaces[i]] \in PacketType
    <3>1. \A i \in DOMAIN namespaces : namespaces[i] \in Names
      BY DEF MadeType
    <3>. QED  BY <3>1 DEF PacketType
  <2>2. Renewals = [i \in 1..Len(namespaces) |-> [type |-> "connect", name |-> namespaces[i]]]
        /\ Len(namespaces) \in Nat
    BY <1>1 DEF Renewals, MadeType
  <2>3. \A i \in 1..Len(namespaces) : Renewals[i] \in PacketType
    BY <2>1, <2>2 DEF MadeType
  <2>. QED  BY <2>2, <2>3
<1>2. CASE ~reconnecting
  BY <1>2 DEF Renewals
<1>. QED  BY <1>1, <1>2

LEMMA OnConnectShape ==
    ASSUME ShapeInv, OnConnect
    PROVE  ShapeInv'
<1>. ConnType /\ MadeType /\ ServerType /\ Opened /\ TypeOK /\ Len(what) \in Nat
  BY ShapeFacts DEF ShapeInv
<1> DEFINE N == Len(what')
           X == Given(Reopened, TRUE, Numbers(Renewals))
<1>1. /\ Connecting /\ link[cur] = "open" /\ Room(box) /\ Make(Renewals) /\ box' = X
      /\ kind' = kind /\ cur' = cur /\ link' = link /\ connected' = TRUE /\ reconnecting' = FALSE
      /\ open' = open /\ namespaces' = namespaces /\ dismissed' \in {dismissed, {}}
      /\ received' = received /\ lost' = lost /\ failing' = failing /\ spoiled' = spoiled
  BY DEF OnConnect, conns, Reopened
<1>2. /\ what' \in Seq(PacketType) /\ N \in Nat /\ Len(what) <= N
      /\ Numbers(Renewals) \in Seq(1..N) /\ BoxOK(box, N)
  BY <1>1, RenewalsType, MakeFacts
<1> HIDE DEF N
<1>3. /\ BoxOK(Reopened, N) /\ Placed(Reopened) /\ Awaited(Reopened) /\ Flushed(Reopened, TRUE)
      /\ ~Reopened.doBuffer => CanSend(Reopened)
  BY <1>1, <1>2, ReopenedFacts
<1>4. BoxOK(X, N) /\ Placed(X) /\ Awaited(X) /\ Flushed(X, TRUE)
  BY <1>2, <1>3, GivenShape, GivenPlaced
<1> HIDE DEF X
<1>5. ConnType' /\ Opened'
  BY <1>1 DEF ConnType, Opened, Connecting
<1>6. MadeType'
  BY <1>1, <1>2 DEF MadeType
<1>7. ServerType'
  BY <1>1, <1>2, ServerTypeKept DEF N
<1>. QED  BY <1>1, <1>4, <1>5, <1>6, <1>7, ShapeStep DEF N

LEMMA EndsShape ==
    ASSUME ShapeInv, NEW reason, Ends(reason)
    PROVE  ShapeInv'
<1>. MadeType /\ ServerType /\ Placed(box) /\ BoxOK(box, Len(what))
  BY ShapeFacts
<1>1. /\ OnDisconnect(reason) /\ box' = box /\ what' = what /\ namespaces' = namespaces
      /\ received' = received /\ lost' = lost /\ failing' = failing /\ spoiled' = spoiled
  BY DEF Ends, made
<1>2. /\ ConnType' /\ Opened' /\ kind' = kind /\ cur' = cur
      /\ connected' = FALSE /\ (cur # 0 => link'[cur] # "open") /\ dismissed' \subseteq Names
  BY <1>1, DisconnectFacts
<1>3. MadeType' /\ ServerType'
  BY <1>1, <1>2 DEF MadeType, ServerType
<1>4. Flushed(box, connected')
  BY <1>2 DEF Flushed
<1>. QED  BY <1>1, <1>2, <1>3, <1>4, ShapeStep

LEMMA WebSocketClosesShape ==
    ASSUME ShapeInv, NEW s \in Sessions, WebSocketCloses(s)
    PROVE  ShapeInv'
<1>. ConnType /\ MadeType /\ ServerType /\ Opened /\ Placed(box) /\ BoxOK(box, Len(what))
  BY ShapeFacts
<1> DEFINE X == [SetBuffer(box, FALSE, TRUE) EXCEPT !.wire[s] = <<>>]
           ended == IF connected \/ Connecting THEN [link EXCEPT ![cur] = "closing"] ELSE link
<1>1. /\ box' = X /\ kind' = kind /\ cur' = cur /\ connected' = FALSE /\ open' = FALSE
      /\ reconnecting' = (reconnecting \/ connected)
      /\ what' = what /\ namespaces' = namespaces /\ dismissed' = dismissed
      /\ received' = received /\ lost' = lost \cup Entries(box.wire[s])
      /\ failing' = failing /\ spoiled' = spoiled
      /\ link' = [x \in Sessions |-> IF x = s THEN "closed"
                                     ELSE IF ended[x] = "closing" /\ kind[x] # "websocket" THEN "closed"
                                     ELSE ended[x]]
      /\ link[s] \in {"opening", "open", "closing"}
  BY DEF WebSocketCloses, made
<1>2. s <= cur /\ cur \in Sessions
  BY <1>1, ShapeFacts DEF Opened, Sessions, ConnType
<1>3. /\ ended \in [Sessions -> {"none", "opening", "open", "closing", "closed"}]
      /\ \A x \in Sessions : ended[x] = "none" <=> link[x] = "none"
      /\ ended[cur] # "open"
  BY <1>2 DEF ConnType, Opened, Connecting
<1> HIDE DEF ended
<1>4. /\ link' \in [Sessions -> {"none", "opening", "open", "closing", "closed"}]
      /\ \A x \in Sessions : link'[x] = "none" <=> link[x] = "none"
      /\ link'[cur] # "open"
  BY <1>1, <1>2, <1>3
<1>5. ConnType' /\ Opened'
  BY <1>1, <1>4 DEF ConnType, Opened
<1>6. Entries(box.wire[s]) \subseteq 1..Len(what)
  BY EntriesFacts DEF BoxOK
<1>7. MadeType' /\ ServerType'
  BY <1>1, <1>6 DEF MadeType, ServerType
<1>8. SetBuffer(box, FALSE, TRUE) = [box EXCEPT !.doBuffer = TRUE]
  BY DEF SetBuffer
<1> DEFINE m == [box EXCEPT !.doBuffer = TRUE]
<1>9. BoxOK(m, Len(what)) /\ m.wire = box.wire /\ m.post = box.post
  BY DEF BoxOK
<1>10. X = [m EXCEPT !.wire[s] = <<>>]
  BY <1>8
<1> HIDE DEF X, m
<1>11. /\ BoxOK(X, Len(what)) /\ X.post = box.post
       /\ \A x \in Sessions : X.wire[x] # <<>> => box.wire[x] # <<>>
  <2>1. <<>> \in Seq(1..Len(what))
    OBVIOUS
  <2>. QED  BY <1>9, <1>10, <2>1 DEF BoxOK
<1>12. Placed(X)
  BY <1>11 DEF Placed
<1>13. Flushed(X, connected')
  BY <1>1 DEF Flushed
<1>. QED  BY <1>1, <1>4, <1>5, <1>7, <1>11, <1>12, <1>13, ShapeStep

LEMMA FailShape ==
    ASSUME ShapeInv, NEW s \in Sessions, Fail(s)
    PROVE  ShapeInv'
<1>. ConnType /\ MadeType /\ ServerType /\ Opened /\ Placed(box) /\ BoxOK(box, Len(what))
  BY ShapeFacts
<1>1. /\ box' = box /\ what' = what /\ connected' = connected /\ link' = link /\ cur' = cur /\ kind' = kind
      /\ open' = open /\ reconnecting' = reconnecting /\ namespaces' = namespaces
      /\ dismissed' = dismissed /\ received' = received /\ lost' = lost /\ spoiled' = spoiled
      /\ failing' = failing \cup {s}
  BY DEF Fail, flags, conns, made
<1>2. ConnType' /\ MadeType' /\ ServerType' /\ Opened'
  BY <1>1 DEF ConnType, MadeType, ServerType, Opened
<1>. QED  BY <1>1, <1>2, ShapeStep, ShapeFacts

LEMMA HeartbeatShape ==
    ASSUME ShapeInv, NEW s \in Sessions, Heartbeat(s)
    PROVE  ShapeInv'
<1>. /\ ConnType /\ MadeType /\ ServerType /\ Opened /\ Placed(box) /\ BoxOK(box, Len(what))
     /\ Len(what) \in Nat
  BY ShapeFacts
<1> DEFINE X == Posted(box, s, <<>>)
<1>1. /\ box' = X /\ what' = what /\ connected' = connected /\ link' = link /\ cur' = cur /\ kind' = kind
      /\ open' = open /\ reconnecting' = reconnecting /\ namespaces' = namespaces
      /\ dismissed' = dismissed /\ received' = received /\ lost' = lost /\ failing' = failing
      /\ spoiled' = spoiled \cup {box'.post[p].session : p \in {x \in Posts : box'.post[x].state = "silent"}}
      /\ FreePosts(box) # {} /\ kind[s] # "websocket"
  BY DEF Heartbeat, flags, conns, made
<1>2. BoxOK(X, Len(what)) /\ PostedTo(box, X, s, <<>>)
  <2>1. <<>> \in Seq(1..Len(what))
    OBVIOUS
  <2>. QED  BY <1>1, <2>1, PostedShape
<1> HIDE DEF X
<1>3. s \in 1..cur
  BY DEF Heartbeat, Opened, Sessions, ConnType
<1>4. PICK new \in FreePosts(box) :
          /\ X.post[new] = [state |-> "out", session |-> s, body |-> <<>>]
          /\ \A p \in Posts \ {new} :
                /\ X.post[p].session = box.post[p].session
                /\ \/ X.post[p].state = box.post[p].state
                   \/ X.post[p].state = "silent" /\ box.post[p].state = "out"
  BY <1>2 DEF PostedTo
<1>5. new \in Posts /\ X.post[new].state = "out" /\ X.post[new].session = s
  BY <1>4 DEF FreePosts
<1>6. X.wire = box.wire /\ X.doBuffer = TRUE
  BY <1>2 DEF PostedTo
<1>7. Placed(X)
  BY <1>1, <1>3, <1>4, <1>5, <1>6 DEF Placed
<1>8. Awaited(X) /\ Flushed(X, connected')
  BY <1>5, <1>6 DEF Awaited, Flushed
<1>9. spoiled' \subseteq 0..MaxSessions
  <2>1. \A p \in Posts : X.post[p].session \in 0..MaxSessions
    BY <1>2 DEF BoxOK, PostRec
  <2>. QED  BY <1>1, <2>1 DEF ServerType
<1>10. ConnType' /\ MadeType' /\ ServerType' /\ Opened'
  BY <1>1, <1>9 DEF ConnType, MadeType, ServerType, Opened
<1>. QED  BY <1>1, <1>2, <1>7, <1>8, <1>10, ShapeStep

\* The server reads packet n of session s.
LEMMA ReadType ==
    ASSUME ServerType, NEW s \in Sessions, NEW n \in 1..Len(what),
           received' = Append(received, <<s, n>>), what' = what,
           failing' = failing, lost' = lost, spoiled' = spoiled
    PROVE  ServerType'
<1> DEFINE A == Sessions \X (1..Len(what))
<1>1. <<s, n>> \in A  OBVIOUS
<1>2. received \in Seq(A)  BY DEF ServerType
<1> HIDE DEF A
<1>3. received' \in Seq(A)  BY <1>1, <1>2
<1>. QED  BY <1>3 DEF A, ServerType

LEMMA FrameArrivesShape ==
    ASSUME ShapeInv, NEW s \in Sessions, FrameArrives(s)
    PROVE  ShapeInv'
<1>. /\ ConnType /\ MadeType /\ ServerType /\ Opened /\ Placed(box) /\ BoxOK(box, Len(what))
     /\ Len(what) \in Nat
  BY ShapeFacts
<1> DEFINE X == [box EXCEPT !.wire[s] = Tail(@)]
<1>1. /\ box' = X /\ what' = what /\ connected' = connected /\ link' = link /\ cur' = cur /\ kind' = kind
      /\ open' = open /\ reconnecting' = reconnecting /\ namespaces' = namespaces
      /\ dismissed' = dismissed /\ lost' = lost /\ failing' = failing /\ spoiled' = spoiled
      /\ received' = Append(received, <<s, Head(box.wire[s])>>) /\ box.wire[s] # <<>>
  BY DEF FrameArrives, flags, conns, made
<1>2. box.wire[s] \in Seq(1..Len(what))
  BY DEF BoxOK
<1>3. Head(box.wire[s]) \in 1..Len(what) /\ Tail(box.wire[s]) \in Seq(1..Len(what))
  BY <1>1, <1>2, HeadTailFacts
<1>4. /\ BoxOK(X, Len(what)) /\ X.post = box.post /\ X.doBuffer = box.doBuffer /\ X.buffer = box.buffer
      /\ \A x \in Sessions : X.wire[x] # <<>> => box.wire[x] # <<>>
  BY <1>1, <1>3 DEF BoxOK
<1> HIDE DEF X
<1>5. Placed(X)  BY <1>4 DEF Placed
<1>6. Flushed(X, connected') /\ (cur # 0 /\ link'[cur] = "open" => Awaited(X))
  BY <1>1, <1>4, ShapeFacts DEF Flushed, Awaited
<1>7. ServerType'  BY <1>1, <1>3, ReadType
<1>8. ConnType' /\ MadeType' /\ Opened'
  BY <1>1 DEF ConnType, MadeType, Opened
<1>. QED  BY <1>1, <1>4, <1>5, <1>6, <1>7, <1>8, ShapeStep

\* A POST that carries packets is out, to a session that there is.
LEMMA PostFacts ==
    ASSUME ShapeInv, NEW p \in Posts
    PROVE  /\ box.post[p] \in PostRec(Len(what))
           /\ box.post[p].body # <<>> => box.post[p].state # "free"
           /\ box.post[p].state # "free" => box.post[p].session \in Sessions
<1>. ConnType /\ Placed(box) /\ BoxOK(box, Len(what))
  BY ShapeFacts
<1>1. box.post[p] \in PostRec(Len(what))
  BY DEF BoxOK
<1>2. box.post[p].body # <<>> => box.post[p].state # "free"
  BY DEF BoxOK, NoPost
<1>3. box.post[p].state # "free" => box.post[p].session \in Sessions
  BY BoundsAssumption DEF Placed, ConnType, Sessions
<1>. QED  BY <1>1, <1>2, <1>3

LEMMA PostArrivesShape ==
    ASSUME ShapeInv, NEW p \in Posts, PostArrives(p)
    PROVE  ShapeInv'
<1>. /\ ConnType /\ MadeType /\ ServerType /\ Opened /\ Placed(box) /\ BoxOK(box, Len(what))
     /\ Len(what) \in Nat
  BY ShapeFacts
<1> DEFINE X == [box EXCEPT !.post[p].body = Tail(@)]
           N == Len(what)
           b == box.post[p].body
<1>1. /\ box' = X /\ what' = what /\ connected' = connected /\ link' = link /\ cur' = cur /\ kind' = kind
      /\ open' = open /\ reconnecting' = reconnecting /\ namespaces' = namespaces
      /\ dismissed' = dismissed /\ lost' = lost /\ failing' = failing /\ spoiled' = spoiled
      /\ received' = Append(received, <<box.post[p].session, Head(b)>>) /\ b # <<>>
  BY DEF PostArrives, flags, conns, made
<1>2. b \in Seq(1..N) /\ box.post[p].session \in Sessions /\ box.post[p].state # "free"
      /\ box.post[p] \in PostRec(N)
  BY <1>1, PostFacts DEF PostRec
<1>3. Head(b) \in 1..N /\ Tail(b) \in Seq(1..N)
  BY <1>1, <1>2, HeadTailFacts
<1> DEFINE r == [box.post[p] EXCEPT !.body = Tail(b)]
<1>4. r \in PostRec(N) /\ r.state = box.post[p].state /\ r.session = box.post[p].session
  BY <1>2, <1>3 DEF PostRec
<1>5. X = [box EXCEPT !.post[p] = r]
  OBVIOUS
<1> HIDE DEF r, X, N
<1>6. /\ X \in [doBuffer : BOOLEAN, buffer : Seq(1..N), wire : [Sessions -> Seq(1..N)],
                post : [Posts -> PostRec(N)]]
      /\ X.doBuffer = box.doBuffer /\ X.buffer = box.buffer /\ X.wire = box.wire
      /\ X.post[p] = r /\ \A q \in Posts \ {p} : X.post[q] = box.post[q]
  BY <1>4, <1>5 DEF BoxOK, N
<1>7. BoxOK(X, N)  BY <1>2, <1>4, <1>6 DEF BoxOK, N
<1>8. Placed(X)
  <2>1. \A q \in Posts : X.post[q].state = box.post[q].state /\ X.post[q].session = box.post[q].session
    BY <1>4, <1>6
  <2>. QED  BY <1>6, <2>1 DEF Placed
<1>9. Flushed(X, connected') /\ (cur # 0 /\ link'[cur] = "open" => Awaited(X))
  <2>1. \A q \in Posts : X.post[q].state = box.post[q].state
    BY <1>4, <1>6
  <2>. QED  BY <1>1, <1>6, <2>1, ShapeFacts DEF Flushed, Awaited
<1>10. ServerType'  BY <1>1, <1>2, <1>3, ReadType DEF N
<1>11. ConnType' /\ MadeType' /\ Opened'
  BY <1>1 DEF ConnType, MadeType, Opened
<1>. QED  BY <1>1, <1>7, <1>8, <1>9, <1>10, <1>11, ShapeStep DEF N

\* The box after the end of p was told, and after it was not.
LEMMA DonePlaced ==
    ASSUME ShapeInv, NEW p \in Posts
    PROVE  /\ BoxOK(Done(p), Len(what)) /\ Placed(Done(p)) /\ Flushed(Done(p), connected)
           /\ box.post[p].state # "out" /\ cur # 0 /\ link[cur] = "open" => Awaited(Done(p))
           /\ connected => CanSend(Done(p))
<1>. Placed(box) /\ BoxOK(box, Len(what)) /\ Len(what) \in Nat /\ (connected => cur \in Sessions)
  BY ShapeFacts
<1>1. /\ BoxOK(Done(p), Len(what))
      /\ Done(p).doBuffer = box.doBuffer /\ Done(p).buffer = box.buffer
      /\ Done(p).wire = box.wire /\ Done(p).post[p] = NoPost
      /\ \A q \in Posts \ {p} : Done(p).post[q] = box.post[q]
      /\ p \in FreePosts(Done(p))
  BY DoneShape
<1>2. Placed(Done(p))  BY <1>1 DEF Placed, NoPost
<1>3. Flushed(Done(p), connected)  BY <1>1, ShapeFacts DEF Flushed
<1>4. box.post[p].state # "out" /\ cur # 0 /\ link[cur] = "open" => Awaited(Done(p))
  <2> SUFFICES ASSUME box.post[p].state # "out", cur # 0, link[cur] = "open", box.doBuffer
               PROVE  \E q \in Posts : Done(p).post[q].state = "out"
    BY <1>1 DEF Awaited
  <2>1. PICK q \in Posts : box.post[q].state = "out"
    BY ShapeFacts DEF Awaited
  <2>. QED  BY <1>1, <2>1
<1>. QED  BY <1>1, <1>2, <1>3, <1>4 DEF CanSend

LEMMA ReleasedFacts ==
    ASSUME ShapeInv, NEW p \in Posts, Released(p)
    PROVE  /\ box' = SetBuffer(Done(p), connected, FALSE)
           /\ BoxOK(box', Len(what)) /\ Placed(box') /\ Awaited(box') /\ Flushed(box', connected)
           /\ spoiled' \subseteq 0..MaxSessions
<1>. ConnType /\ ServerType /\ Len(what) \in Nat /\ BoxOK(box, Len(what))
  BY ShapeFacts
<1>1. /\ box' = SetBuffer(Done(p), connected, FALSE)
      /\ spoiled' = spoiled \cup {box.post[q].session : q \in {x \in Posts \ {p} : box.post[x].state # "free"}}
  BY DEF Released
<1>2. connected \in BOOLEAN /\ BoxOK(Done(p), Len(what)) /\ Placed(Done(p)) /\ (connected => CanSend(Done(p)))
  BY DonePlaced DEF ConnType
<1> DEFINE o == Done(p)
<1> HIDE DEF o
<1>3. BoxOK(box', Len(what)) /\ Placed(box') /\ Awaited(box') /\ Flushed(box', connected)
  <2>1. /\ BoxOK(o, Len(what)) /\ Placed(o) /\ (connected => CanSend(o))
        /\ box' = SetBuffer(o, connected, FALSE)
    BY <1>1, <1>2 DEF o
  <2>2. BoxOK(SetBuffer(o, connected, FALSE), Len(what))
    BY <1>2, <2>1, SetBufferShape
  <2>3. LET r == SetBuffer(o, connected, FALSE) IN Placed(r) /\ Awaited(r) /\ Flushed(r, connected)
    BY <1>2, <2>1, SetBufferPlaced
  <2>. QED  BY <2>1, <2>2, <2>3
<1>4. \A q \in Posts : box.post[q].session \in 0..MaxSessions
  BY DEF BoxOK, PostRec
<1>. QED  BY <1>1, <1>3, <1>4 DEF ServerType

LEMMA PostAnsweredShape ==
    ASSUME ShapeInv, NEW p \in Posts, PostAnswered(p)
    PROVE  ShapeInv'
<1>. ConnType /\ MadeType /\ ServerType /\ Opened
  BY ShapeFacts
<1>1. /\ what' = what /\ connected' = connected /\ link' = link /\ cur' = cur /\ kind' = kind
      /\ open' = open /\ reconnecting' = reconnecting /\ namespaces' = namespaces
      /\ dismissed' = dismissed /\ received' = received /\ lost' = lost /\ failing' = failing
  BY DEF PostAnswered, flags, conns, made
<1>2. ConnType' /\ MadeType' /\ Opened'
  BY <1>1 DEF ConnType, MadeType, Opened
<1>3. CASE Released(p)
  <2>1. ServerType'  BY <1>1, <1>3, ReleasedFacts DEF ServerType
  <2>. QED  BY <1>1, <1>2, <1>3, <2>1, ReleasedFacts, ShapeStep
<1>4. CASE box.post[p].state = "silent" /\ box' = Done(p) /\ spoiled' = spoiled
  <2>1. ServerType'  BY <1>1, <1>4 DEF ServerType
  <2>. QED  BY <1>1, <1>2, <1>4, <2>1, DonePlaced, ShapeStep
<1>. QED  BY <1>3, <1>4 DEF PostAnswered

LEMMA PostFailsShape ==
    ASSUME ShapeInv, NEW p \in Posts, PostFails(p)
    PROVE  ShapeInv'
<1>. ConnType /\ MadeType /\ ServerType /\ Opened /\ Len(what) \in Nat /\ BoxOK(box, Len(what))
  BY ShapeFacts
<1>1. /\ what' = what /\ namespaces' = namespaces /\ received' = received /\ failing' = failing
      /\ lost' = lost \cup Entries(box.post[p].body)
  BY DEF PostFails, made
<1>2. lost' \subseteq 1..Len(what)
  <2>1. box.post[p].body \in Seq(1..Len(what))
    BY PostFacts DEF PostRec
  <2>2. Entries(box.post[p].body) \subseteq 1..Len(what)
    BY <2>1, EntriesFacts
  <2>. QED  BY <1>1, <2>2 DEF ServerType
<1>3. CASE /\ box.post[p].state = "silent" /\ box' = Done(p) /\ spoiled' = spoiled
           /\ UNCHANGED <<flags, conns, dismissed>>
  <2>1. ConnType' /\ MadeType' /\ Opened' /\ ServerType'
    BY <1>1, <1>2, <1>3 DEF ConnType, MadeType, Opened, ServerType, flags, conns
  <2>2. kind' = kind /\ cur' = cur /\ link' = link /\ connected' = connected
    BY <1>3 DEF conns, flags
  <2>. QED  BY <1>1, <1>3, <2>1, <2>2, DonePlaced, ShapeStep
<1>4. CASE Released(p) /\ UNCHANGED <<flags, conns, dismissed>>
  <2>1. ConnType' /\ MadeType' /\ Opened' /\ ServerType'
    BY <1>1, <1>2, <1>4, ReleasedFacts DEF ConnType, MadeType, Opened, ServerType, flags, conns
  <2>2. kind' = kind /\ cur' = cur /\ link' = link /\ connected' = connected
    BY <1>4 DEF conns, flags
  <2>. QED  BY <1>1, <1>4, <2>1, <2>2, ReleasedFacts, ShapeStep
<1>5. CASE box' = Done(p) /\ OnDisconnect("closed") /\ spoiled' = spoiled
  <2>1. /\ ConnType' /\ Opened' /\ kind' = kind /\ cur' = cur
        /\ connected' = FALSE /\ (cur # 0 => link'[cur] # "open") /\ dismissed' \subseteq Names
    BY <1>5, DisconnectFacts
  <2>2. MadeType' /\ ServerType'
    BY <1>1, <1>2, <1>5, <2>1 DEF MadeType, ServerType
  <2>3. Flushed(Done(p), connected')  BY <2>1 DEF Flushed
  <2>. QED  BY <1>1, <1>5, <2>1, <2>2, <2>3, DonePlaced, ShapeStep
<1>. QED  BY <1>3, <1>4, <1>5 DEF PostFails

\* What the application gives to Socket.packet.
LEMMA AcceptFacts ==
    ASSUME ShapeInv, NEW packets \in Seq(PacketType), Accept(packets)
    PROVE  /\ box' = Given(box, connected, Numbers(packets)) /\ Make(packets)
           /\ what' \in Seq(PacketType) /\ Len(what') \in Nat /\ Len(what) <= Len(what')
           /\ connected /\ ~box.doBuffer => CanSend(box)
           /\ BoxOK(box', Len(what')) /\ Placed(box') /\ Flushed(box', connected)
           /\ cur # 0 /\ link[cur] = "open" => Awaited(box')
<1>. ConnType /\ TypeOK /\ Placed(box) /\ Flushed(box, connected) /\ connected \in BOOLEAN
  BY ShapeFacts DEF ShapeInv, ConnType
<1>1. box' = Given(box, connected, Numbers(packets)) /\ Make(packets) /\ Room(box)
  BY DEF Accept
<1>2. /\ what' \in Seq(PacketType) /\ Len(what') \in Nat /\ Len(what) <= Len(what')
      /\ Numbers(packets) \in Seq(1..Len(what')) /\ BoxOK(box, Len(what'))
  BY <1>1, MakeFacts
<1>3. connected => CanSend(box)
  <2>1. connected => cur \in Sessions /\ cur # 0
    BY ShapeFacts DEF Sessions
  <2>. QED  BY <1>1, <2>1 DEF CanSend, Room
<1>4. BoxOK(box', Len(what')) /\ Placed(box') /\ Flushed(box', connected) /\ (Awaited(box) => Awaited(box'))
  BY <1>1, <1>2, <1>3, GivenShape, GivenPlaced
<1>. QED  BY <1>1, <1>2, <1>3, <1>4, ShapeFacts

LEMMA SendShape ==
    ASSUME ShapeInv, Send
    PROVE  ShapeInv'
<1>. ConnType /\ MadeType /\ ServerType /\ Opened /\ Len(what) \in Nat
  BY ShapeFacts
<1> DEFINE packets == <<[type |-> "message", name |-> ""]>>
<1>1. packets \in Seq(PacketType)  BY DEF PacketType
<1>2. /\ Accept(packets) /\ connected' = connected /\ link' = link /\ cur' = cur /\ kind' = kind
      /\ open' = open /\ reconnecting' = reconnecting /\ namespaces' = namespaces
      /\ dismissed' = dismissed /\ received' = received /\ lost' = lost /\ failing' = failing
      /\ spoiled' = spoiled
  BY DEF Send, flags, conns
<1> HIDE DEF packets
<1>3. /\ what' \in Seq(PacketType) /\ Len(what') \in Nat /\ Len(what) <= Len(what')
      /\ BoxOK(box', Len(what')) /\ Placed(box') /\ Flushed(box', connected)
      /\ cur # 0 /\ link[cur] = "open" => Awaited(box')
  BY <1>1, <1>2, AcceptFacts
<1>4. ConnType' /\ MadeType' /\ Opened'
  BY <1>2, <1>3 DEF ConnType, MadeType, Opened
<1>5. ServerType'  BY <1>2, <1>3, ServerTypeKept
<1>. QED  BY <1>2, <1>3, <1>4, <1>5, ShapeStep

LEMMA OfShape ==
    ASSUME ShapeInv, NEW n \in Names, Of(n)
    PROVE  ShapeInv'
<1>. ConnType /\ MadeType /\ ServerType /\ Opened /\ Len(what) \in Nat
  BY ShapeFacts
<1> DEFINE packets == <<[type |-> "connect", name |-> n]>>
<1>1. packets \in Seq(PacketType)
  <2>1. [type |-> "connect", name |-> n] \in PacketType
    BY DEF PacketType
  <2>. QED  BY <2>1, SingleFacts
<1>2. /\ Accept(packets) /\ connected' = connected /\ link' = link /\ cur' = cur /\ kind' = kind
      /\ open' = open /\ reconnecting' = reconnecting /\ namespaces' = Append(namespaces, n)
      /\ dismissed' = dismissed /\ received' = received /\ lost' = lost /\ failing' = failing
      /\ spoiled' = spoiled
  BY DEF Of, flags, conns
<1> HIDE DEF packets
<1>3. /\ what' \in Seq(PacketType) /\ Len(what') \in Nat /\ Len(what) <= Len(what')
      /\ BoxOK(box', Len(what')) /\ Placed(box') /\ Flushed(box', connected)
      /\ cur # 0 /\ link[cur] = "open" => Awaited(box')
  BY <1>1, <1>2, AcceptFacts
<1>4. ConnType' /\ MadeType' /\ Opened'
  BY <1>2, <1>3 DEF ConnType, MadeType, Opened
<1>5. ServerType'  BY <1>2, <1>3, ServerTypeKept
<1>. QED  BY <1>2, <1>3, <1>4, <1>5, ShapeStep

LEMMA DisconnectShape ==
    ASSUME ShapeInv, Disconnect
    PROVE  ShapeInv'
<1>. /\ ConnType /\ MadeType /\ ServerType /\ Opened /\ Len(what) \in Nat
     /\ Placed(box) /\ BoxOK(box, Len(what))
  BY ShapeFacts
<1> DEFINE packets == <<[type |-> "disconnect", name |-> ""]>>
<1>1. packets \in Seq(PacketType)
  <2>1. [type |-> "disconnect", name |-> ""] \in PacketType
    BY DEF PacketType
  <2>. QED  BY <2>1, SingleFacts
<1>2. /\ OnDisconnect("booted") /\ namespaces' = namespaces /\ received' = received /\ lost' = lost
      /\ failing' = failing /\ spoiled' = spoiled
      /\ Accept(packets) \/ (what' = what /\ box' = box)
  BY DEF Disconnect
<1> HIDE DEF packets
<1>3. /\ ConnType' /\ Opened' /\ kind' = kind /\ cur' = cur
      /\ connected' = FALSE /\ (cur # 0 => link'[cur] # "open") /\ dismissed' \subseteq Names
  BY <1>2, DisconnectFacts
<1>4. /\ what' \in Seq(PacketType) /\ Len(what') \in Nat /\ Len(what) <= Len(what')
      /\ BoxOK(box', Len(what')) /\ Placed(box')
  <2>1. CASE Accept(packets)  BY <1>1, <2>1, AcceptFacts
  <2>2. CASE what' = what /\ box' = box  BY <2>2 DEF MadeType
  <2>. QED  BY <1>2, <2>1, <2>2
<1>5. MadeType'  BY <1>2, <1>3, <1>4 DEF MadeType
<1>6. ServerType'  BY <1>2, <1>4, ServerTypeKept
<1>7. Flushed(box', connected')  BY <1>3 DEF Flushed
<1>. QED  BY <1>2, <1>3, <1>4, <1>5, <1>6, <1>7, ShapeStep

LEMMA ShapeNext == ShapeInv /\ [Next]_vars => ShapeInv'
<1> SUFFICES ASSUME ShapeInv, [Next]_vars PROVE ShapeInv'  OBVIOUS
<1>1. CASE UNCHANGED vars
  <2>1. /\ box' = box /\ what' = what /\ connected' = connected /\ link' = link /\ cur' = cur /\ kind' = kind
        /\ open' = open /\ reconnecting' = reconnecting /\ namespaces' = namespaces
        /\ dismissed' = dismissed /\ received' = received /\ lost' = lost /\ spoiled' = spoiled
        /\ failing' = failing
    BY <1>1 DEF vars, flags, conns, made
  <2>2. ConnType' /\ MadeType' /\ ServerType' /\ Opened'
    BY <2>1, ShapeFacts DEF ConnType, MadeType, ServerType, Opened
  <2>. QED  BY <2>1, <2>2, ShapeFacts, ShapeStep
<1>. QED
  BY <1>1, OpenShape, WebSocketOpensShape, OnConnectShape, EndsShape, WebSocketClosesShape, FailShape,
     HeartbeatShape, FrameArrivesShape, PostArrivesShape, PostAnsweredShape, PostFailsShape,
     SendShape, OfShape, DisconnectShape DEF Next

(* A websocket carries frames and the others POSTs, to sessions that there *)
(* are; what is buffered while the connection is open waits for a POST.    *)
THEOREM ShapeInductive == Spec => []ShapeInv
<1>. QED  BY ShapeInit, ShapeNext, PTL DEF Spec

(* Type correctness of the client's outgoing side. *)
THEOREM TypeCorrect == Spec => []TypeOK
<1>1. ShapeInv => TypeOK  BY DEF ShapeInv
<1>. QED  BY <1>1, ShapeInductive, PTL

(* While the socket is connected nothing waits in vain, whatever the       *)
(* events of other transports did to doBuffer.                             *)
THEOREM NothingWaitsInVain == Spec => []NothingStuck
<1>1. ShapeInv => NothingStuck
  BY ShapeFacts DEF NothingStuck, Awaited, Flushed, Opened
<1>. QED  BY <1>1, ShapeInductive, PTL

-----------------------------------------------------------------------------
(* The order of packets. *)

\* Packet n of box o was given to a request, or was read.
Passed(o, n) ==
    \/ \E s \in Sessions : n \in Entries(o.wire[s])
    \/ \E p \in Posts : n \in Entries(o.post[p].body)
    \/ \E s \in Sessions : <<s, n>> \in Entries(received)

\* The packets q are later than those.
Later(o, q) == \A n \in Nat, m \in Entries(q) : Passed(o, n) => n < m

BufferOrder(o) == Sorted(o.buffer) /\ Later(o, o.buffer)

\* The requests of a session outside S carry packets that are later than
\* those the server read from it, and one POST at most carries any.
CarriedOrder(o, S) ==
    /\ \A s \in Sessions : Sorted(o.wire[s])
    /\ \A p \in Posts : Sorted(o.post[p].body)
    /\ \A s \in Sessions \ S, m, n \in Nat :
          <<s, m>> \in Entries(received) /\ n \in Entries(o.wire[s]) => m < n
    /\ \A s \in Sessions \ S, p \in Posts, m, n \in Nat :
          <<s, m>> \in Entries(received) /\ o.post[p].session = s /\ n \in Entries(o.post[p].body) => m < n
    /\ \A p, q \in Posts :
          /\ o.post[p].session = o.post[q].session /\ o.post[p].session \notin S
          /\ o.post[p].body # <<>> /\ o.post[q].body # <<>>
          => p = q

\* No POST to the current session is out, or it is in S.
Quiet(o, S) == \A p \in Posts : o.post[p].state # "free" /\ o.post[p].session = cur => cur \in S
Calm(o, S)  == ~o.doBuffer => Quiet(o, S)

\* Only a websocket takes time to open.
Opening == \A s \in Sessions : link[s] = "opening" => kind[s] = "websocket"

OrderInv ==
    /\ ShapeInv
    /\ Opening
    /\ BufferOrder(box)
    /\ CarriedOrder(box, spoiled)
    /\ Calm(box, spoiled)
    /\ InOrder

LEMMA HandedOrder ==
    ASSUME NEW N \in Nat, NEW o, BoxOK(o, N), NEW r, BoxOK(r, N), NEW q \in Seq(1..N), NEW S,
           CanSend(o), Placed(o), Handed(o, r, q), CarriedOrder(o, S), Quiet(o, S),
           Sorted(q), Later(o, q)
    PROVE  /\ CarriedOrder(r, S)
           /\ \A n \in Nat : Passed(r, n) => Passed(o, n) \/ n \in Entries(q)
           /\ ~r.doBuffer => Quiet(r, S)
<1>0. 1..N \subseteq Nat  OBVIOUS
<1>1. CASE kind[cur] = "websocket"
  <2>1. /\ r.post = o.post /\ r.wire[cur] = o.wire[cur] \o q
        /\ \A s \in Sessions \ {cur} : r.wire[s] = o.wire[s]
    BY <1>1 DEF Handed
  <2>2. cur \in Sessions /\ o.wire[cur] \in Seq(1..N)
    BY DEF CanSend, BoxOK
  <2>3. Entries(r.wire[cur]) = Entries(o.wire[cur]) \cup Entries(q)
    BY <2>1, <2>2, ConcatEntries
  <2>4. \A n \in Nat : Passed(r, n) => Passed(o, n) \/ n \in Entries(q)
    BY <2>1, <2>2, <2>3 DEF Passed
  <2>5. Sorted(r.wire[cur])
    <3>1. o.wire[cur] \in Seq(Nat) /\ q \in Seq(Nat)
      BY <1>0, <2>2
    <3>2. Sorted(o.wire[cur])
      BY <2>2 DEF CarriedOrder
    <3>3. Entries(o.wire[cur]) \subseteq Nat /\ \A n \in Entries(o.wire[cur]) : Passed(o, n)
      BY <2>2, <3>1, EntriesFacts DEF Passed
    <3>4. Below(Entries(o.wire[cur]), Entries(q))
      BY <3>3 DEF Below, Later
    <3>. QED  BY <2>1, <3>1, <3>2, <3>4, ConcatSorted
  <2>6. \A s \in Sessions, m, n \in Nat : <<s, m>> \in Entries(received) /\ n \in Entries(q) => m < n
    BY DEF Later, Passed
  <2>7. \A s \in Sessions : Sorted(r.wire[s])
    BY <2>1, <2>5 DEF CarriedOrder
  <2>8. \A s \in Sessions \ S, m, n \in Nat :
           <<s, m>> \in Entries(received) /\ n \in Entries(r.wire[s]) => m < n
    BY <2>1, <2>3, <2>6 DEF CarriedOrder
  <2>9. CarriedOrder(r, S)
    BY <2>1, <2>7, <2>8 DEF CarriedOrder
  <2>10. Quiet(r, S)
    BY <2>1 DEF Quiet
  <2>. QED  BY <2>4, <2>9, <2>10
<1>2. CASE kind[cur] # "websocket"
  <2>1. r.doBuffer = TRUE /\ r.wire = o.wire
    BY <1>2 DEF Handed, PostedTo
  <2>2. PICK new \in FreePosts(o) :
           /\ r.post[new] = [state |-> "out", session |-> cur, body |-> q]
           /\ \A p \in Posts \ {new} :
                 r.post[p].session = o.post[p].session /\ r.post[p].body = o.post[p].body
    BY <1>2 DEF Handed, PostedTo
  <2>3. new \in Posts /\ r.post[new].session = cur /\ r.post[new].body = q
    BY <2>2 DEF FreePosts
  <2>4. \A n \in Nat : Passed(r, n) => Passed(o, n) \/ n \in Entries(q)
    BY <2>1, <2>2, <2>3 DEF Passed
  <2>5. \A p \in Posts : Sorted(r.post[p].body)
    BY <2>2, <2>3 DEF CarriedOrder
  <2>6. \A s \in Sessions \ S, p \in Posts, m, n \in Nat :
          <<s, m>> \in Entries(received) /\ r.post[p].session = s /\ n \in Entries(r.post[p].body) => m < n
    BY <2>2, <2>3 DEF CarriedOrder, Later, Passed
  <2>7. \A p \in Posts \ {new} : o.post[p].session = cur /\ o.post[p].body # <<>> => cur \in S
    <3>1. \A p \in Posts : o.post[p].body # <<>> => o.post[p].state # "free"
      BY DEF BoxOK, NoPost
    <3>. QED  BY <3>1 DEF Quiet
  <2>8. \A p, t \in Posts :
          /\ r.post[p].session = r.post[t].session /\ r.post[p].session \notin S
          /\ r.post[p].body # <<>> /\ r.post[t].body # <<>>
          => p = t
    BY <2>2, <2>3, <2>7 DEF CarriedOrder
  <2>9. CarriedOrder(r, S)
    BY <2>1, <2>5, <2>6, <2>8 DEF CarriedOrder
  <2>. QED  BY <2>1, <2>4, <2>9
<1>. QED  BY <1>1, <1>2

LEMMA SetBufferOrder ==
    ASSUME NEW N \in Nat, NEW o, BoxOK(o, N), NEW c \in BOOLEAN, NEW v \in BOOLEAN, NEW S,
           c => CanSend(o), Placed(o), BufferOrder(o), CarriedOrder(o, S), ~v => Quiet(o, S)
    PROVE  LET r == SetBuffer(o, c, v) IN BufferOrder(r) /\ CarriedOrder(r, S) /\ Calm(r, S)
<1> DEFINE r == SetBuffer(o, c, v)
<1> HIDE DEF r
<1>1. CASE r.buffer = o.buffer /\ r.doBuffer = v /\ SameBut(o, r)
  <2>1. BufferOrder(r) /\ CarriedOrder(r, S)
    BY <1>1 DEF SameBut, BufferOrder, Later, Passed, CarriedOrder
  <2>2. Calm(r, S)
    BY <1>1 DEF SameBut, Calm, Quiet
  <2>. QED  BY <2>1, <2>2 DEF r
<1>2. CASE c /\ ~v /\ o.buffer # <<>> /\ AllHanded(o, r, N)
  <2>1. PICK m, w : /\ BoxOK(m, N) /\ m.doBuffer = FALSE /\ m.buffer = o.buffer /\ SameBut(o, m)
                    /\ BoxOK(w, N) /\ Handed(m, w, o.buffer)
                    /\ r.buffer = <<>> /\ r.doBuffer = w.doBuffer /\ SameBut(w, r)
    BY <1>2 DEF AllHanded
  <2>2. CanSend(m) /\ Placed(m) /\ o.buffer \in Seq(1..N)
    BY <1>2, <2>1 DEF CanSend, FreePosts, SameBut, Placed, BoxOK
  <2>3. CarriedOrder(m, S) /\ Quiet(m, S) /\ Sorted(o.buffer) /\ Later(m, o.buffer)
    BY <1>2, <2>1 DEF SameBut, CarriedOrder, Quiet, BufferOrder, Later, Passed
  <2>4. CarriedOrder(w, S) /\ (~w.doBuffer => Quiet(w, S))
    BY <2>1, <2>2, <2>3, HandedOrder
  <2>5. CarriedOrder(r, S) /\ Calm(r, S)
    BY <2>1, <2>4 DEF SameBut, CarriedOrder, Calm, Quiet
  <2>6. BufferOrder(r)
    BY <2>1 DEF BufferOrder, Sorted, Later, Entries
  <2>. QED  BY <2>5, <2>6 DEF r
<1>. QED  BY <1>1, <1>2, SetBufferShape DEF r

LEMMA GivenOrder ==
    ASSUME NEW N \in Nat, NEW o, BoxOK(o, N), NEW c \in BOOLEAN, NEW q \in Seq(1..N), NEW S,
           c /\ ~o.doBuffer => CanSend(o), Placed(o), Flushed(o, c),
           BufferOrder(o), CarriedOrder(o, S), Calm(o, S),
           Sorted(q), Later(o, q), Below(Entries(o.buffer), Entries(q))
    PROVE  LET r == Given(o, c, q) IN BufferOrder(r) /\ CarriedOrder(r, S) /\ Calm(r, S)
<1> DEFINE r == Given(o, c, q)
<1> HIDE DEF r
<1>0. 1..N \subseteq Nat /\ o.buffer \in Seq(1..N)
  BY DEF BoxOK
<1>1. CASE r.buffer = o.buffer \o q /\ r.doBuffer = o.doBuffer /\ SameBut(o, r)
  <2>1. Sorted(r.buffer)
    <3>1. o.buffer \in Seq(Nat) /\ q \in Seq(Nat)
      BY <1>0
    <3>2. Sorted(o.buffer)
      BY DEF BufferOrder
    <3>. QED  BY <1>1, <3>1, <3>2, ConcatSorted
  <2>2. Entries(r.buffer) = Entries(o.buffer) \cup Entries(q)
    BY <1>0, <1>1, ConcatEntries
  <2>3. \A n \in Nat : Passed(r, n) <=> Passed(o, n)
    BY <1>1 DEF SameBut, Passed
  <2>4. BufferOrder(r)
    BY <2>1, <2>2, <2>3 DEF BufferOrder, Later
  <2>5. CarriedOrder(r, S) /\ Calm(r, S)
    BY <1>1 DEF SameBut, CarriedOrder, Calm, Quiet
  <2>. QED  BY <2>4, <2>5 DEF r
<1>2. CASE q # <<>> /\ c /\ ~o.doBuffer /\ kind[cur] = "websocket" /\ Handed(o, r, q)
  <2>1. BoxOK(r, N)
    BY GivenShape DEF r
  <2>2. Quiet(o, S) /\ o.buffer = <<>>
    BY <1>2 DEF Calm, Flushed
  <2>3. CarriedOrder(r, S) /\ (~r.doBuffer => Quiet(r, S))
    BY <1>2, <2>1, <2>2, HandedOrder
  <2>4. r.buffer = <<>>
    BY <1>2, <2>2 DEF Handed
  <2>5. BufferOrder(r)
    BY <2>4 DEF BufferOrder, Sorted, Later, Entries
  <2>. QED  BY <2>3, <2>5 DEF r, Calm
<1>3. CASE q # <<>> /\ c /\ ~o.doBuffer /\ kind[cur] # "websocket" /\ FirstHanded(o, r, q, N)
  <2>1. PICK w : /\ BoxOK(w, N) /\ Handed(o, w, <<Head(q)>>)
                 /\ r.buffer = o.buffer \o Tail(q) /\ r.doBuffer = TRUE /\ SameBut(w, r)
    BY <1>3 DEF FirstHanded
  <2>2. Quiet(o, S) /\ o.buffer = <<>>
    BY <1>3 DEF Calm, Flushed
  <2>3. /\ Head(q) \in 1..N /\ <<Head(q)>> \in Seq(1..N) /\ Tail(q) \in Seq(1..N)
        /\ Entries(<<Head(q)>>) = {Head(q)} /\ Sorted(<<Head(q)>>)
    BY <1>3, HeadTailFacts, SingleFacts DEF Sorted
  <2>4. Entries(q) = Entries(Tail(q)) \cup {Head(q)}
    BY <1>3, TailEntries
  <2>5. Later(o, <<Head(q)>>)
    BY <2>3, <2>4 DEF Later
  <2>6. /\ CarriedOrder(w, S)
        /\ \A n \in Nat : Passed(w, n) => Passed(o, n) \/ n \in Entries(<<Head(q)>>)
    BY <1>3, <2>1, <2>2, <2>3, <2>5, HandedOrder
  <2>7. Sorted(Tail(q)) /\ Below({Head(q)}, Entries(Tail(q)))
    <3>1. q \in Seq(Nat)  BY <1>0
    <3>. QED  BY <1>3, <3>1, TailSorted
  <2>8. r.buffer = Tail(q)
    BY <2>1, <2>2, <2>3
  <2>9. BufferOrder(r)
    <3>1. \A n \in Nat : Passed(r, n) => Passed(o, n) \/ n = Head(q)
      BY <2>1, <2>3, <2>6 DEF SameBut, Passed
    <3>2. \A n \in Nat, m \in Entries(Tail(q)) : Passed(r, n) => n < m
      BY <2>4, <2>7, <3>1 DEF Later, Below
    <3>. QED  BY <2>7, <2>8, <3>2 DEF BufferOrder, Later
  <2>10. CarriedOrder(r, S)
    BY <2>1, <2>6 DEF SameBut, CarriedOrder
  <2>11. Calm(r, S)
    BY <2>1 DEF Calm
  <2>. QED  BY <2>9, <2>10, <2>11 DEF r
<1>. QED  BY <1>1, <1>2, <1>3, GivenShape DEF r

LEMMA OrderFacts ==
    ASSUME OrderInv
    PROVE  /\ ShapeInv /\ Opening /\ BufferOrder(box) /\ CarriedOrder(box, spoiled) /\ Calm(box, spoiled) /\ InOrder
           /\ TypeOK /\ ConnType /\ MadeType /\ ServerType /\ Opened /\ Placed(box)
           /\ Len(what) \in Nat /\ BoxOK(box, Len(what)) /\ Flushed(box, connected)
BY ShapeFacts DEF OrderInv, ShapeInv

LEMMA ReadFacts ==
    ASSUME ServerType
    PROVE  /\ \A i \in DOMAIN received :
                 /\ received[i][1] \in Sessions /\ received[i][2] \in 1..Len(what)
                 /\ received[i] = <<received[i][1], received[i][2]>> /\ received[i] \in Entries(received)
           /\ \A s \in Sessions : \A n : <<s, n>> \in Entries(received) => n \in 1..Len(what)
<1> DEFINE A == Sessions \X (1..Len(what))
<1>1. \A i \in DOMAIN received : received[i] \in A
  <2>1. received \in Seq(A)  BY DEF ServerType
  <2> HIDE DEF A
  <2>. QED  BY <2>1
<1>2. \A x \in A : x[1] \in Sessions /\ x[2] \in 1..Len(what) /\ x = <<x[1], x[2]>>
  OBVIOUS
<1>3. Entries(received) \subseteq A
  BY <1>1 DEF Entries
<1>4. \A i \in DOMAIN received : received[i] \in Entries(received)
  BY DEF Entries
<1>5. \A s \in Sessions : \A n : <<s, n>> \in A => n \in 1..Len(what)
  OBVIOUS
<1> HIDE DEF A
<1>. QED  BY <1>1, <1>2, <1>3, <1>4, <1>5

LEMMA PassedBound ==
    ASSUME ServerType, Len(what) \in Nat, NEW o, BoxOK(o, Len(what)), NEW n, Passed(o, n)
    PROVE  n \in 1..Len(what)
<1> DEFINE N == 1..Len(what)
<1>1. \A s \in Sessions : o.wire[s] \in Seq(N)
  BY DEF BoxOK
<1>2. \A p \in Posts : o.post[p].body \in Seq(N)
  BY DEF BoxOK, PostRec
<1>3. \A s \in Sessions : <<s, n>> \in Entries(received) => n \in N
  BY ReadFacts
<1> HIDE DEF N
<1>4. \A s \in Sessions : Entries(o.wire[s]) \subseteq N
  BY <1>1, EntriesFacts
<1>5. \A p \in Posts : Entries(o.post[p].body) \subseteq N
  BY <1>2, EntriesFacts
<1>. QED  BY <1>3, <1>4, <1>5 DEF Passed, N

\* New packets are later than all there are.
LEMMA NumbersLater ==
    ASSUME TypeOK, NEW packets \in Seq(PacketType), Make(packets), NEW o, BoxOK(o, Len(what))
    PROVE  Later(o, Numbers(packets)) /\ Below(Entries(o.buffer), Entries(Numbers(packets)))
<1>1. /\ Entries(Numbers(packets)) = (Len(what) + 1)..Len(what') /\ Len(what) \in Nat /\ Len(what') \in Nat
  BY MakeFacts
<1>2. Entries(o.buffer) \subseteq 1..Len(what)
  BY EntriesFacts DEF BoxOK
<1>3. Below(Entries(o.buffer), Entries(Numbers(packets)))
  BY <1>1, <1>2 DEF Below
<1>4. ServerType  BY TypeParts
<1>5. \A n \in Nat, m \in Entries(Numbers(packets)) : n \in 1..Len(what) => n < m
  BY <1>1
<1>6. Later(o, Numbers(packets))
  BY <1>1, <1>4, <1>5, PassedBound DEF Later
<1>. QED  BY <1>3, <1>6

\* The requests of r carry what those of o carry, or nothing.
LEMMA Thinned ==
    ASSUME NEW o, NEW r, NEW S, BufferOrder(o), CarriedOrder(o, S), r.buffer = o.buffer,
           \A s \in Sessions : r.wire[s] = o.wire[s] \/ r.wire[s] = <<>>,
           \A p \in Posts : \/ r.post[p].body = o.post[p].body /\ r.post[p].session = o.post[p].session
                            \/ r.post[p].body = <<>>
    PROVE  BufferOrder(r) /\ CarriedOrder(r, S)
<1>1. Entries(<<>>) = {} /\ Sorted(<<>>)
  BY DEF Entries, Sorted
<1>2. \A n \in Nat : Passed(r, n) => Passed(o, n)
  BY <1>1 DEF Passed
<1>3. BufferOrder(r)
  BY <1>2 DEF BufferOrder, Later
<1>4. CarriedOrder(r, S)
  BY <1>1 DEF CarriedOrder
<1>. QED  BY <1>3, <1>4

LEMMA MoreSpoiled ==
    ASSUME NEW o, NEW S, NEW T, S \subseteq T, CarriedOrder(o, S)
    PROVE  CarriedOrder(o, T) /\ (Calm(o, S) => Calm(o, T))
BY DEF CarriedOrder, Calm, Quiet

LEMMA OpeningNext ==
    ASSUME OrderInv, [Next]_vars
    PROVE  Opening'
<1>. ConnType /\ Opened /\ Opening  BY OrderFacts
<1>1. ASSUME NEW k \in Kinds, Open(k) PROVE Opening'
  BY <1>1 DEF Open, Opening, ConnType, Opened
<1>2. CASE WebSocketOpens
  BY <1>2 DEF WebSocketOpens, Opening, ConnType
<1>3. ASSUME NEW s \in Sessions, WebSocketCloses(s) PROVE Opening'
  BY <1>3 DEF WebSocketCloses, Opening, ConnType
<1>4. ASSUME NEW reason, OnDisconnect(reason) PROVE Opening'
  BY <1>4 DEF OnDisconnect, Opening, ConnType
<1>5. CASE link' = link /\ kind' = kind
  BY <1>5 DEF Opening
<1>6. ASSUME NEW p \in Posts, PostFails(p) PROVE Opening'
  BY <1>4, <1>5, <1>6 DEF PostFails, conns
<1>. QED
  BY <1>1, <1>2, <1>3, <1>4, <1>5, <1>6
  DEF Next, vars, conns, OnConnect, Ends, Fail, Heartbeat, FrameArrives, PostArrives, PostAnswered, Send, Of,
      Disconnect

\* An action by which the server reads nothing makes box X of the box.
LEMMA OrderStep ==
    ASSUME OrderInv, [Next]_vars, NEW X, NEW S, box' = X, spoiled' = S, received' = received, cur' = cur,
           spoiled \subseteq S, BufferOrder(X), CarriedOrder(X, S), Calm(X, S)
    PROVE  OrderInv'
<1>1. ShapeInv' /\ Opening'
  BY ShapeNext, OpeningNext, OrderFacts
<1>2. BufferOrder(box)' /\ CarriedOrder(box, spoiled)'
  BY DEF BufferOrder, Later, Passed, CarriedOrder
<1>3. Calm(box, spoiled)'
  BY DEF Calm, Quiet
<1>4. InOrder'
  BY OrderFacts DEF InOrder
<1>. QED  BY <1>1, <1>2, <1>3, <1>4 DEF OrderInv

\* The server reads packet n of session s.
LEMMA ReadStep ==
    ASSUME OrderInv, [Next]_vars, NEW s \in Sessions, NEW n \in 1..Len(what),
           received' = Append(received, <<s, n>>), spoiled' = spoiled
    PROVE  /\ Entries(received') = Entries(received) \cup {<<s, n>>}
           /\ (s \notin spoiled => \A m \in Nat : <<s, m>> \in Entries(received) => m < n) => InOrder'
<1> DEFINE A == Sessions \X (1..Len(what))
<1>1. received \in Seq(A) /\ <<s, n>> \in A
  BY OrderFacts DEF ServerType
<1> HIDE DEF A
<1>2. /\ Entries(received') = Entries(received) \cup {<<s, n>>}
      /\ DOMAIN received' = DOMAIN received \cup {Len(received) + 1}
      /\ received'[Len(received) + 1] = <<s, n>>
      /\ \A i \in DOMAIN received : received'[i] = received[i] /\ i <= Len(received)
  BY <1>1, AppendFacts
<1>3. Len(received) \in Nat /\ DOMAIN received \subseteq Nat
  BY <1>1
<1>4. ASSUME s \notin spoiled => \A m \in Nat : <<s, m>> \in Entries(received) => m < n
      PROVE  InOrder'
  <2> SUFFICES ASSUME NEW i \in DOMAIN received', NEW j \in DOMAIN received', i < j,
                      received'[i][1] = received'[j][1], received'[i][1] \notin spoiled
               PROVE  received'[i][2] < received'[j][2]
    BY DEF InOrder
  <2>1. i \in DOMAIN received
    BY <1>2, <1>3
  <2>2. CASE j \in DOMAIN received
    BY <1>2, <2>1, <2>2, OrderFacts DEF InOrder
  <2>3. CASE j = Len(received) + 1
    <3>1. received'[j][1] = s /\ received'[j][2] = n
      BY <1>2, <2>3
    <3>2. /\ received[i][2] \in Nat /\ <<received[i][1], received[i][2]>> \in Entries(received)
          /\ received'[i] = received[i]
      <4>1. ServerType /\ 1..Len(what) \subseteq Nat
        BY OrderFacts
      <4>. QED  BY <1>2, <2>1, <4>1, ReadFacts
    <3>. QED  BY <1>4, <3>1, <3>2
  <2>. QED  BY <1>2, <2>2, <2>3
<1>. QED  BY <1>2, <1>4

LEMMA OpenOrder ==
    ASSUME OrderInv, NEW k \in Kinds, Open(k), [Next]_vars
    PROVE  OrderInv'
<1>. ConnType /\ Placed(box) /\ Opened /\ BoxOK(box, Len(what))  BY OrderFacts
<1>1. /\ cur' = cur + 1 /\ received' = received /\ spoiled' = spoiled
      /\ box' = box \/ box' = [box EXCEPT !.doBuffer = FALSE]
  BY DEF Open
<1>2. box'.buffer = box.buffer /\ box'.wire = box.wire /\ box'.post = box.post
  BY <1>1 DEF BoxOK
<1>3. ShapeInv' /\ Opening'
  BY ShapeNext, OpeningNext, OrderFacts
<1>4. BufferOrder(box)' /\ CarriedOrder(box, spoiled)'
  <2>1. BufferOrder(box) /\ CarriedOrder(box, spoiled)
    BY OrderFacts
  <2>2. \A n \in Nat : Passed(box, n)' <=> Passed(box, n)
    BY <1>1, <1>2 DEF Passed
  <2>3. BufferOrder(box)'
    BY <1>2, <2>1, <2>2 DEF BufferOrder, Later
  <2>4. CarriedOrder(box, spoiled)'
    BY <1>1, <1>2, <2>1 DEF CarriedOrder
  <2>. QED  BY <2>3, <2>4
<1>5. \A p \in Posts : box.post[p].state # "free" => box.post[p].session # cur + 1
  BY DEF Placed, ConnType
<1>6. Calm(box, spoiled)'
  BY <1>1, <1>2, <1>5 DEF Calm, Quiet
<1>7. InOrder'
  BY <1>1, OrderFacts DEF InOrder
<1>. QED  BY <1>3, <1>4, <1>6, <1>7 DEF OrderInv

LEMMA WebSocketOpensOrder ==
    ASSUME OrderInv, WebSocketOpens, [Next]_vars
    PROVE  OrderInv'
<1>. /\ ConnType /\ Placed(box) /\ Opened /\ Opening /\ BoxOK(box, Len(what)) /\ Len(what) \in Nat
     /\ BufferOrder(box) /\ CarriedOrder(box, spoiled)
  BY OrderFacts
<1> DEFINE X == SetBuffer(box, FALSE, FALSE)
<1>1. cur \in Sessions /\ connected = FALSE /\ link[cur] = "opening"
  BY ShapeFacts, OrderFacts DEF WebSocketOpens, ConnType
<1>2. box' = X /\ received' = received /\ spoiled' = spoiled /\ cur' = cur
  BY <1>1 DEF WebSocketOpens
<1>3. Quiet(box, spoiled)
  BY <1>1 DEF Quiet, Opening, Placed
<1>4. BufferOrder(X) /\ CarriedOrder(X, spoiled) /\ Calm(X, spoiled)
  BY <1>3, SetBufferOrder
<1> HIDE DEF X
<1>. QED  BY <1>2, <1>4, OrderStep

LEMMA ReopenedOrder ==
    ASSUME OrderInv, Connecting, link[cur] = "open", Room(box)
    PROVE  BufferOrder(Reopened) /\ CarriedOrder(Reopened, spoiled) /\ Calm(Reopened, spoiled)
<1>. /\ ShapeInv /\ Placed(box) /\ BoxOK(box, Len(what)) /\ Len(what) \in Nat
     /\ BufferOrder(box) /\ CarriedOrder(box, spoiled) /\ Calm(box, spoiled)
  BY OrderFacts
<1>1. CASE box.doBuffer
  BY <1>1 DEF Reopened
<1>2. CASE ~box.doBuffer
  <2>1. Reopened = SetBuffer(box, TRUE, FALSE) /\ Quiet(box, spoiled)
    BY <1>2 DEF Reopened, Calm
  <2>2. CanSend(box)
    BY ShapeFacts DEF CanSend, Room, Connecting
  <2>. QED  BY <2>1, <2>2, SetBufferOrder
<1>. QED  BY <1>1, <1>2

LEMMA OnConnectOrder ==
    ASSUME OrderInv, OnConnect, [Next]_vars
    PROVE  OrderInv'
<1>. /\ ConnType /\ MadeType /\ TypeOK /\ ShapeInv /\ Placed(box) /\ BoxOK(box, Len(what)) /\ Len(what) \in Nat
     /\ BufferOrder(box) /\ CarriedOrder(box, spoiled) /\ Calm(box, spoiled)
  BY OrderFacts
<1> DEFINE N == Len(what')
           q == Numbers(Renewals)
           X == Given(Reopened, TRUE, q)
<1>1. /\ Connecting /\ link[cur] = "open" /\ Room(box) /\ Make(Renewals) /\ box' = X
      /\ received' = received /\ spoiled' = spoiled /\ cur' = cur
  BY DEF OnConnect, conns, Reopened
<1>2. Renewals \in Seq(PacketType)
  BY RenewalsType
<1>3. /\ N \in Nat /\ q \in Seq(1..N) /\ Sorted(q) /\ BoxOK(box, N)
  BY <1>1, <1>2, MakeFacts
<1>4. BoxOK(Reopened, Len(what))
  BY <1>1, ReopenedFacts
<1>5. Later(Reopened, q) /\ Below(Entries(Reopened.buffer), Entries(q))
  BY <1>1, <1>2, <1>4, NumbersLater
<1> HIDE DEF N, q
<1>6. /\ BoxOK(Reopened, N) /\ Placed(Reopened) /\ Flushed(Reopened, TRUE)
      /\ ~Reopened.doBuffer => CanSend(Reopened)
  BY <1>1, <1>3, ReopenedFacts
<1>7. BufferOrder(Reopened) /\ CarriedOrder(Reopened, spoiled) /\ Calm(Reopened, spoiled)
  BY <1>1, ReopenedOrder
<1>8. BufferOrder(X) /\ CarriedOrder(X, spoiled) /\ Calm(X, spoiled)
  BY <1>3, <1>5, <1>6, <1>7, GivenOrder
<1> HIDE DEF X
<1>. QED  BY <1>1, <1>8, OrderStep

LEMMA AcceptOrder ==
    ASSUME OrderInv, NEW packets \in Seq(PacketType), Accept(packets), [Next]_vars,
           received' = received, spoiled' = spoiled, cur' = cur
    PROVE  OrderInv'
<1>. /\ ConnType /\ TypeOK /\ ShapeInv /\ Placed(box) /\ BoxOK(box, Len(what)) /\ Len(what) \in Nat
     /\ BufferOrder(box) /\ CarriedOrder(box, spoiled) /\ Calm(box, spoiled) /\ Flushed(box, connected)
     /\ connected \in BOOLEAN
  BY OrderFacts DEF ConnType
<1> DEFINE N == Len(what')
           q == Numbers(packets)
           X == Given(box, connected, q)
<1>1. box' = X /\ Make(packets) /\ (connected /\ ~box.doBuffer => CanSend(box))
  BY AcceptFacts
<1>2. N \in Nat /\ q \in Seq(1..N) /\ Sorted(q) /\ BoxOK(box, N)
  BY <1>1, MakeFacts
<1>3. Later(box, q) /\ Below(Entries(box.buffer), Entries(q))
  BY <1>1, NumbersLater
<1> HIDE DEF N, q
<1>4. BufferOrder(X) /\ CarriedOrder(X, spoiled) /\ Calm(X, spoiled)
  BY <1>1, <1>2, <1>3, GivenOrder
<1> HIDE DEF X
<1>. QED  BY <1>1, <1>4, OrderStep

LEMMA WebSocketClosesOrder ==
    ASSUME OrderInv, NEW s \in Sessions, WebSocketCloses(s), [Next]_vars
    PROVE  OrderInv'
<1>. BoxOK(box, Len(what))  BY OrderFacts
<1> DEFINE m == [box EXCEPT !.doBuffer = TRUE]
           X == [m EXCEPT !.wire[s] = <<>>]
<1>1. box' = X /\ received' = received /\ spoiled' = spoiled /\ cur' = cur
  <2>1. SetBuffer(box, FALSE, TRUE) = m
    BY DEF SetBuffer
  <2> HIDE DEF m
  <2>. QED  BY <2>1 DEF WebSocketCloses
<1>2. m.wire = box.wire /\ m.post = box.post /\ m.doBuffer = TRUE /\ m.buffer = box.buffer
      /\ BoxOK(m, Len(what))
  BY DEF BoxOK
<1> HIDE DEF m
<1>3. /\ X.post = box.post /\ X.doBuffer = TRUE /\ X.buffer = box.buffer
      /\ \A x \in Sessions : X.wire[x] = box.wire[x] \/ X.wire[x] = <<>>
  BY <1>2 DEF BoxOK
<1> HIDE DEF X
<1>4. BufferOrder(X) /\ CarriedOrder(X, spoiled)
  BY <1>3, OrderFacts, Thinned
<1>5. Calm(X, spoiled)
  BY <1>3 DEF Calm
<1>. QED  BY <1>1, <1>4, <1>5, OrderStep

LEMMA HeartbeatOrder ==
    ASSUME OrderInv, NEW s \in Sessions, Heartbeat(s), [Next]_vars
    PROVE  OrderInv'
<1>. BoxOK(box, Len(what)) /\ Len(what) \in Nat  BY OrderFacts
<1> DEFINE X == Posted(box, s, <<>>)
<1>1. /\ box' = X /\ received' = received /\ spoiled \subseteq spoiled' /\ cur' = cur /\ FreePosts(box) # {}
  BY DEF Heartbeat, conns
<1>2. PostedTo(box, X, s, <<>>)
  <2>1. <<>> \in Seq(1..Len(what))
    OBVIOUS
  <2>. QED  BY <1>1, <2>1, PostedShape
<1> HIDE DEF X
<1>3. /\ X.buffer = box.buffer /\ X.wire = box.wire /\ X.doBuffer = TRUE
      /\ \A p \in Posts : \/ X.post[p].body = box.post[p].body /\ X.post[p].session = box.post[p].session
                          \/ X.post[p].body = <<>>
  BY <1>2 DEF PostedTo
<1>4. BufferOrder(X) /\ CarriedOrder(X, spoiled)
  BY <1>3, OrderFacts, Thinned
<1>5. Calm(X, spoiled')
  BY <1>3 DEF Calm
<1>6. CarriedOrder(X, spoiled')
  BY <1>1, <1>4, MoreSpoiled
<1>. QED  BY <1>1, <1>4, <1>5, <1>6, OrderStep

LEMMA FrameArrivesOrder ==
    ASSUME OrderInv, NEW s \in Sessions, FrameArrives(s), [Next]_vars
    PROVE  OrderInv'
<1>. /\ BoxOK(box, Len(what)) /\ Len(what) \in Nat /\ Placed(box) /\ CarriedOrder(box, spoiled)
     /\ BufferOrder(box) /\ Calm(box, spoiled)
  BY OrderFacts
<1> DEFINE w == box.wire[s]
           n == Head(w)
<1>1. /\ box' = [box EXCEPT !.wire[s] = Tail(@)] /\ w # <<>>
      /\ received' = Append(received, <<s, n>>) /\ spoiled' = spoiled /\ cur' = cur
  BY DEF FrameArrives, conns
<1>2. w \in Seq(1..Len(what)) /\ w \in Seq(Nat)
  <2>1. w \in Seq(1..Len(what)) /\ 1..Len(what) \subseteq Nat
    BY DEF BoxOK
  <2>. QED  BY <2>1
<1>3. n \in 1..Len(what) /\ n \in Nat /\ Entries(w) = Entries(Tail(w)) \cup {n}
  BY <1>1, <1>2, HeadTailFacts, TailEntries
<1>4. Sorted(Tail(w)) /\ Below({n}, Entries(Tail(w)))
  <2>1. Sorted(w)  BY DEF CarriedOrder
  <2>. QED  BY <1>1, <1>2, <2>1, TailSorted
<1>5. /\ box'.buffer = box.buffer /\ box'.post = box.post /\ box'.doBuffer = box.doBuffer
      /\ box'.wire[s] = Tail(w) /\ \A x \in Sessions \ {s} : box'.wire[x] = box.wire[x]
  BY <1>1 DEF BoxOK
<1>6. \A p \in Posts : box.post[p].session = s => box.post[p].body = <<>>
  <2>1. \A p \in Posts : box.post[p].state = "free" => box.post[p].body = <<>>
    BY DEF BoxOK, NoPost
  <2>2. kind[s] = "websocket" /\ \A p \in Posts : box.post[p].state # "free" => kind[box.post[p].session] # "websocket"
    BY <1>1 DEF Placed
  <2>. QED  BY <2>1, <2>2
<1>7. s \notin spoiled => \A m \in Nat : <<s, m>> \in Entries(received) => m < n
  BY <1>3 DEF CarriedOrder
<1> HIDE DEF n, w
<1>8. Entries(received') = Entries(received) \cup {<<s, n>>} /\ InOrder'
  BY <1>1, <1>3, <1>7, ReadStep
<1>9. \A m \in Nat : Passed(box, m)' => Passed(box, m)
  BY <1>3, <1>5, <1>8 DEF Passed, w
<1>10. BufferOrder(box)'
  BY <1>5, <1>9 DEF BufferOrder, Later
<1>11. CarriedOrder(box, spoiled)'
  <2>1. /\ \A x \in Sessions : Sorted(box'.wire[x])
        /\ \A p \in Posts : Sorted(box'.post[p].body)
    BY <1>4, <1>5 DEF CarriedOrder
  <2>2. \A x \in Sessions \ spoiled, m, k \in Nat :
           <<x, m>> \in Entries(received') /\ k \in Entries(box'.wire[x]) => m < k
    BY <1>3, <1>4, <1>5, <1>8 DEF CarriedOrder, Below, w
  <2>3. \A x \in Sessions \ spoiled, p \in Posts, m, k \in Nat :
           <<x, m>> \in Entries(received') /\ box'.post[p].session = x /\ k \in Entries(box'.post[p].body) => m < k
    <3>1. Entries(<<>>) = {}  BY DEF Entries
    <3>. QED  BY <1>5, <1>6, <1>8, <3>1 DEF CarriedOrder
  <2>4. \A p, q \in Posts :
          /\ box'.post[p].session = box'.post[q].session /\ box'.post[p].session \notin spoiled
          /\ box'.post[p].body # <<>> /\ box'.post[q].body # <<>>
          => p = q
    <3>1. CarriedOrder(box, spoiled)  OBVIOUS
    <3>. QED  BY <1>5, <3>1 DEF CarriedOrder
  <2>. QED  BY <1>1, <2>1, <2>2, <2>3, <2>4 DEF CarriedOrder
<1>12. Calm(box, spoiled)'
  BY <1>1, <1>5 DEF Calm, Quiet
<1>13. ShapeInv' /\ Opening'
  BY ShapeNext, OpeningNext, OrderFacts
<1>. QED  BY <1>8, <1>10, <1>11, <1>12, <1>13 DEF OrderInv

LEMMA PostArrivesOrder ==
    ASSUME OrderInv, NEW p \in Posts, PostArrives(p), [Next]_vars
    PROVE  OrderInv'
<1>. /\ BoxOK(box, Len(what)) /\ Len(what) \in Nat /\ Placed(box) /\ CarriedOrder(box, spoiled)
     /\ BufferOrder(box) /\ Calm(box, spoiled) /\ ShapeInv
  BY OrderFacts
<1> DEFINE b == box.post[p].body
           s == box.post[p].session
           n == Head(b)
<1>1. /\ box' = [box EXCEPT !.post[p].body = Tail(@)] /\ b # <<>>
      /\ received' = Append(received, <<s, n>>) /\ spoiled' = spoiled /\ cur' = cur
  BY DEF PostArrives, conns
<1>2. b \in Seq(1..Len(what)) /\ b \in Seq(Nat) /\ s \in Sessions /\ box.post[p].state # "free"
  <2>1. b \in Seq(1..Len(what)) /\ 1..Len(what) \subseteq Nat
    BY PostFacts DEF PostRec
  <2>. QED  BY <1>1, <2>1, PostFacts
<1>3. n \in 1..Len(what) /\ n \in Nat /\ Entries(b) = Entries(Tail(b)) \cup {n}
  BY <1>1, <1>2, HeadTailFacts, TailEntries
<1>4. Sorted(Tail(b)) /\ Below({n}, Entries(Tail(b)))
  <2>1. Sorted(b)  BY DEF CarriedOrder
  <2>. QED  BY <1>1, <1>2, <2>1, TailSorted
<1>5. /\ box'.buffer = box.buffer /\ box'.wire = box.wire /\ box'.doBuffer = box.doBuffer
      /\ box'.post[p].body = Tail(b) /\ box'.post[p].session = s
      /\ box'.post[p].state = box.post[p].state
      /\ \A q \in Posts \ {p} : box'.post[q] = box.post[q]
  <2>1. box.post[p] \in PostRec(Len(what))
    BY PostFacts
  <2>. QED  BY <1>1, <2>1 DEF BoxOK, PostRec
<1>6. /\ box.wire[s] = <<>>
      /\ s \notin spoiled => \A q \in Posts \ {p} : box.post[q].session = s => box.post[q].body = <<>>
  BY <1>1, <1>2 DEF Placed, CarriedOrder
<1>7. s \notin spoiled => \A m \in Nat : <<s, m>> \in Entries(received) => m < n
  BY <1>2, <1>3 DEF CarriedOrder
<1> HIDE DEF n, b, s
<1>8. Entries(received') = Entries(received) \cup {<<s, n>>} /\ InOrder'
  BY <1>1, <1>2, <1>3, <1>7, ReadStep
<1>9. \A m \in Nat : Passed(box, m)' => Passed(box, m)
  <2> SUFFICES ASSUME NEW m \in Nat, Passed(box, m)' PROVE Passed(box, m)  OBVIOUS
  <2>1. CASE \E x \in Sessions : m \in Entries(box'.wire[x])
    BY <1>5, <2>1 DEF Passed
  <2>2. CASE \E q \in Posts : m \in Entries(box'.post[q].body)
    BY <1>3, <1>5, <2>2 DEF Passed, b
  <2>3. CASE \E x \in Sessions : <<x, m>> \in Entries(received')
    BY <1>3, <1>8, <2>3 DEF Passed, b
  <2>. QED  BY <2>1, <2>2, <2>3 DEF Passed
<1>10. BufferOrder(box)'
  BY <1>5, <1>9 DEF BufferOrder, Later
<1>11. CarriedOrder(box, spoiled)'
  <2>0. Entries(<<>>) = {}  BY DEF Entries
  <2>1. /\ \A x \in Sessions : Sorted(box'.wire[x])
        /\ \A q \in Posts : Sorted(box'.post[q].body)
    BY <1>4, <1>5 DEF CarriedOrder
  <2>2. \A x \in Sessions \ spoiled, m, k \in Nat :
           <<x, m>> \in Entries(received') /\ k \in Entries(box'.wire[x]) => m < k
    BY <1>5, <1>6, <1>8, <2>0 DEF CarriedOrder
  <2>3. \A x \in Sessions \ spoiled, q \in Posts, m, k \in Nat :
           <<x, m>> \in Entries(received') /\ box'.post[q].session = x /\ k \in Entries(box'.post[q].body) => m < k
    <3>1. ASSUME NEW m \in Nat, NEW k \in Nat, NEW x \in Sessions \ spoiled, <<x, m>> \in Entries(received'),
                 s = x, k \in Entries(Tail(b))
          PROVE  m < k
      BY <1>2, <1>3, <1>4, <1>8, <3>1 DEF CarriedOrder, Below, b, s
    <3>2. ASSUME NEW m \in Nat, NEW k \in Nat, NEW x \in Sessions \ spoiled, <<x, m>> \in Entries(received'),
                 NEW q \in Posts \ {p}, box.post[q].session = x, k \in Entries(box.post[q].body)
          PROVE  m < k
      <4>1. CASE <<x, m>> \in Entries(received)
        BY <3>2, <4>1 DEF CarriedOrder
      <4>2. CASE <<x, m>> = <<s, n>>
        BY <1>6, <2>0, <3>2, <4>2
      <4>. QED  BY <1>8, <3>2, <4>1, <4>2
    <3>3. ASSUME NEW x \in Sessions \ spoiled, NEW q \in Posts, NEW m \in Nat, NEW k \in Nat,
                 <<x, m>> \in Entries(received'), box'.post[q].session = x, k \in Entries(box'.post[q].body)
          PROVE  m < k
      <4>1. CASE q = p  BY <1>5, <3>1, <3>3, <4>1
      <4>2. CASE q # p  BY <1>5, <3>2, <3>3, <4>2
      <4>. QED  BY <4>1, <4>2
    <3>. QED  BY <3>3
  <2>4. \A q, t \in Posts :
          /\ box'.post[q].session = box'.post[t].session /\ box'.post[q].session \notin spoiled
          /\ box'.post[q].body # <<>> /\ box'.post[t].body # <<>>
          => q = t
    <3>1. \A q \in Posts : box'.post[q].session = box.post[q].session
                           /\ (box'.post[q].body # <<>> => box.post[q].body # <<>>)
      BY <1>1, <1>5 DEF s, b
    <3>. QED  BY <3>1 DEF CarriedOrder
  <2>. QED  BY <1>1, <2>1, <2>2, <2>3, <2>4 DEF CarriedOrder
<1>12. Calm(box, spoiled)'
  <2>1. \A q \in Posts : box'.post[q].session = box.post[q].session /\ box'.post[q].state = box.post[q].state
    BY <1>5 DEF s
  <2>. QED  BY <1>1, <1>5, <2>1 DEF Calm, Quiet
<1>13. ShapeInv' /\ Opening'
  BY ShapeNext, OpeningNext, OrderFacts
<1>. QED  BY <1>8, <1>10, <1>11, <1>12, <1>13 DEF OrderInv

LEMMA DoneOrder ==
    ASSUME OrderInv, NEW p \in Posts
    PROVE  BufferOrder(Done(p)) /\ CarriedOrder(Done(p), spoiled) /\ Calm(Done(p), spoiled)
<1>1. /\ Done(p).doBuffer = box.doBuffer /\ Done(p).buffer = box.buffer
      /\ Done(p).wire = box.wire /\ Done(p).post[p] = NoPost
      /\ \A q \in Posts \ {p} : Done(p).post[q] = box.post[q]
  BY DoneShape, OrderFacts
<1> DEFINE X == Done(p)
<1>2. /\ X.buffer = box.buffer /\ X.wire = box.wire /\ X.doBuffer = box.doBuffer
      /\ \A q \in Posts : \/ X.post[q].body = box.post[q].body /\ X.post[q].session = box.post[q].session
                          \/ X.post[q].body = <<>>
      /\ \A q \in Posts : X.post[q].state # "free" => X.post[q] = box.post[q]
  BY <1>1 DEF NoPost
<1> HIDE DEF X
<1>3. BufferOrder(X) /\ CarriedOrder(X, spoiled)
  BY <1>2, OrderFacts, Thinned
<1>4. Calm(X, spoiled)
  BY <1>2, OrderFacts DEF Calm, Quiet
<1>. QED  BY <1>3, <1>4 DEF X

LEMMA ReleasedOrder ==
    ASSUME OrderInv, NEW p \in Posts, Released(p), [Next]_vars, received' = received, cur' = cur
    PROVE  OrderInv'
<1>. ShapeInv /\ ConnType /\ Len(what) \in Nat /\ BoxOK(box, Len(what))  BY OrderFacts
<1> DEFINE o == Done(p)
           X == SetBuffer(o, connected, FALSE)
<1>1. /\ box' = X
      /\ spoiled' = spoiled \cup {box.post[q].session : q \in {x \in Posts \ {p} : box.post[x].state # "free"}}
  BY DEF Released
<1>2. /\ BoxOK(o, Len(what)) /\ Placed(o) /\ (connected => CanSend(o))
      /\ BufferOrder(o) /\ CarriedOrder(o, spoiled) /\ connected \in BOOLEAN
  BY DonePlaced, DoneOrder DEF ConnType
<1>3. Quiet(o, spoiled')
  <2>1. o.post[p] = NoPost /\ \A q \in Posts \ {p} : o.post[q] = box.post[q]
    BY DoneShape
  <2>. QED  BY <1>1, <2>1 DEF Quiet, NoPost
<1> HIDE DEF o
<1>4. spoiled \subseteq spoiled'
  BY <1>1
<1>5. CarriedOrder(o, spoiled')
  BY <1>2, <1>4, MoreSpoiled
<1>6. BufferOrder(X) /\ CarriedOrder(X, spoiled') /\ Calm(X, spoiled')
  BY <1>2, <1>3, <1>5, SetBufferOrder
<1> HIDE DEF X
<1>. QED  BY <1>1, <1>4, <1>6, OrderStep

LEMMA DoneStepOrder ==
    ASSUME OrderInv, NEW p \in Posts, box' = Done(p), [Next]_vars, received' = received, cur' = cur,
           spoiled' = spoiled
    PROVE  OrderInv'
BY DoneOrder, OrderStep

LEMMA SameBoxOrder ==
    ASSUME OrderInv, box' = box, [Next]_vars, received' = received, cur' = cur, spoiled' = spoiled
    PROVE  OrderInv'
BY OrderFacts, OrderStep

LEMMA OrderNext == OrderInv /\ [Next]_vars => OrderInv'
<1> SUFFICES ASSUME OrderInv, [Next]_vars PROVE OrderInv'  OBVIOUS
<1>1. CASE UNCHANGED vars
  BY <1>1, SameBoxOrder DEF vars, conns
<1>2. ASSUME NEW reason, Ends(reason) PROVE OrderInv'
  BY <1>2, SameBoxOrder DEF Ends, OnDisconnect
<1>3. ASSUME NEW s \in Sessions, Fail(s) PROVE OrderInv'
  BY <1>3, SameBoxOrder DEF Fail, conns
<1>4. ASSUME NEW p \in Posts, PostAnswered(p) PROVE OrderInv'
  BY <1>4, ReleasedOrder, DoneStepOrder DEF PostAnswered, conns
<1>5. ASSUME NEW p \in Posts, PostFails(p) PROVE OrderInv'
  BY <1>5, ReleasedOrder, DoneStepOrder DEF PostFails, conns, OnDisconnect
<1>6. CASE Send
  <2>1. [type |-> "message", name |-> ""] \in PacketType
    BY DEF PacketType
  <2>2. <<[type |-> "message", name |-> ""]>> \in Seq(PacketType)
    BY <2>1, SingleFacts
  <2>. QED  BY <1>6, <2>2, AcceptOrder DEF Send, conns
<1>7. ASSUME NEW n \in Names, Of(n) PROVE OrderInv'
  <2>1. [type |-> "connect", name |-> n] \in PacketType
    BY DEF PacketType
  <2>2. <<[type |-> "connect", name |-> n]>> \in Seq(PacketType)
    BY <2>1, SingleFacts
  <2>. QED  BY <1>7, <2>2, AcceptOrder DEF Of, conns
<1>8. CASE Disconnect
  <2>1. [type |-> "disconnect", name |-> ""] \in PacketType
    BY DEF PacketType
  <2>2. <<[type |-> "disconnect", name |-> ""]>> \in Seq(PacketType)
    BY <2>1, SingleFacts
  <2>3. CASE open
    BY <1>8, <2>2, <2>3, AcceptOrder DEF Disconnect, OnDisconnect
  <2>4. CASE ~open
    BY <1>8, <2>4, SameBoxOrder DEF Disconnect, OnDisconnect
  <2>. QED  BY <2>3, <2>4
<1>. QED
  BY <1>1, <1>2, <1>3, <1>4, <1>5, <1>6, <1>7, <1>8, OpenOrder, WebSocketOpensOrder, OnConnectOrder,
     WebSocketClosesOrder, HeartbeatOrder, FrameArrivesOrder, PostArrivesOrder DEF Next

LEMMA OrderInit == Init => OrderInv
<1> SUFFICES ASSUME Init PROVE OrderInv  OBVIOUS
<1>1. ShapeInv  BY ShapeInit
<1>2. /\ box = [doBuffer |-> FALSE, buffer |-> <<>>, wire |-> [s \in Sessions |-> <<>>],
                post |-> [p \in Posts |-> NoPost]]
      /\ received = <<>> /\ link = [s \in Sessions |-> "none"]
  BY DEF Init, EmptyBox
<1>3. Entries(<<>>) = {} /\ Sorted(<<>>)
  BY DEF Entries, Sorted
<1>4. BufferOrder(box) /\ CarriedOrder(box, spoiled) /\ Calm(box, spoiled)
  BY <1>2, <1>3 DEF BufferOrder, Later, CarriedOrder, Calm, Quiet, NoPost
<1>5. Opening /\ InOrder
  BY <1>2 DEF Opening, InOrder
<1>. QED  BY <1>1, <1>4, <1>5 DEF OrderInv

(* Whatever closes, fails or answers a heartbeat past the buffer, it holds *)
(* packets that are later than those that left it.                         *)
THEOREM OrderInductive == Spec => []OrderInv
<1>. QED  BY OrderInit, OrderNext, PTL DEF Spec

(* The server reads the packets of a session in the order in which the     *)
(* application sent them, unless the end of a POST was told while another  *)
(* was out.                                                                *)
THEOREM ReadInOrder == Spec => []InOrder
<1>1. OrderInv => InOrder  BY DEF OrderInv
<1>. QED  BY <1>1, OrderInductive, PTL

-----------------------------------------------------------------------------
(* Every packet is in one place. *)

AtBuffer  == <<"buffer", 0>>
AtWire(s) == <<"wire", s>>
AtPost(p) == <<"post", p>>
AtServer  == <<"received", 0>>
Nowhere   == <<"lost", 0>>

Sites == {AtBuffer, AtServer, Nowhere} \cup {AtWire(s) : s \in Sessions} \cup {AtPost(p) : p \in Posts}

Read(R) == {x[2] : x \in Entries(R)}

\* The packets at every site, when the box is o, the server read R and L is lost.
Cargo(o, R, L) ==
    [l \in Sites |-> IF l[1] = "buffer" THEN Entries(o.buffer)
                     ELSE IF l[1] = "wire" THEN Entries(o.wire[l[2]])
                     ELSE IF l[1] = "post" THEN Entries(o.post[l[2]].body)
                     ELSE IF l[1] = "received" THEN Read(R)
                     ELSE L]

\* Each of the packets up to N is at one of the sites.
Single(H, N) ==
    /\ \A l \in Sites : H[l] \subseteq 1..N
    /\ \A n \in 1..N : \E l \in Sites : n \in H[l]
    /\ \A l, m \in Sites, n \in 1..N : n \in H[l] /\ n \in H[m] => l = m

ReadOnce == \A i, j \in DOMAIN received : received[i][2] = received[j][2] => i = j

PlaceInv ==
    /\ OrderInv
    /\ Single(Cargo(box, received, lost), Len(what))
    /\ ReadOnce

LEMMA SiteFacts ==
    /\ AtBuffer \in Sites /\ AtServer \in Sites /\ Nowhere \in Sites
    /\ \A s \in Sessions : AtWire(s) \in Sites
    /\ \A p \in Posts : AtPost(p) \in Sites
    /\ AtBuffer # AtServer /\ AtBuffer # Nowhere /\ AtServer # Nowhere
    /\ \A s : AtWire(s) # AtBuffer /\ AtWire(s) # AtServer /\ AtWire(s) # Nowhere
    /\ \A p : AtPost(p) # AtBuffer /\ AtPost(p) # AtServer /\ AtPost(p) # Nowhere
    /\ \A s, p : AtWire(s) # AtPost(p)
    /\ \A s, t : AtWire(s) = AtWire(t) <=> s = t
    /\ \A p, t : AtPost(p) = AtPost(t) <=> p = t
    /\ \A l \in Sites : \/ l = AtBuffer \/ l = AtServer \/ l = Nowhere
                        \/ \E s \in Sessions : l = AtWire(s)
                        \/ \E p \in Posts : l = AtPost(p)
BY DEF Sites, AtBuffer, AtServer, Nowhere, AtWire, AtPost

LEMMA CargoFacts ==
    ASSUME NEW o, NEW R, NEW L
    PROVE  /\ Cargo(o, R, L)[AtBuffer] = Entries(o.buffer)
           /\ \A s \in Sessions : Cargo(o, R, L)[AtWire(s)] = Entries(o.wire[s])
           /\ \A p \in Posts : Cargo(o, R, L)[AtPost(p)] = Entries(o.post[p].body)
           /\ Cargo(o, R, L)[AtServer] = Read(R)
           /\ Cargo(o, R, L)[Nowhere] = L
<1>1. \A l \in Sites : Cargo(o, R, L)[l] = IF l[1] = "buffer" THEN Entries(o.buffer)
                     ELSE IF l[1] = "wire" THEN Entries(o.wire[l[2]])
                     ELSE IF l[1] = "post" THEN Entries(o.post[l[2]].body)
                     ELSE IF l[1] = "received" THEN Read(R)
                     ELSE L
  BY DEF Cargo
<1>2. Cargo(o, R, L)[AtBuffer] = Entries(o.buffer)
  BY <1>1, SiteFacts DEF AtBuffer
<1>3. ASSUME NEW s \in Sessions PROVE Cargo(o, R, L)[AtWire(s)] = Entries(o.wire[s])
  <2>1. AtWire(s) \in Sites  BY SiteFacts
  <2>2. AtWire(s)[1] = "wire" /\ AtWire(s)[2] = s  BY DEF AtWire
  <2>. QED  BY <1>1, <2>1, <2>2
<1>4. ASSUME NEW p \in Posts PROVE Cargo(o, R, L)[AtPost(p)] = Entries(o.post[p].body)
  <2>1. AtPost(p) \in Sites  BY SiteFacts
  <2>2. AtPost(p)[1] = "post" /\ AtPost(p)[2] = p  BY DEF AtPost
  <2>. QED  BY <1>1, <2>1, <2>2
<1>5. Cargo(o, R, L)[AtServer] = Read(R)
  BY <1>1, SiteFacts DEF AtServer
<1>6. Cargo(o, R, L)[Nowhere] = L
  BY <1>1, SiteFacts DEF Nowhere
<1>. QED  BY <1>2, <1>3, <1>4, <1>5, <1>6

\* Packets, and the new ones, move between sites a and b.
Moved(H, G, a, b, N, M) ==
    /\ a \in Sites /\ b \in Sites
    /\ \A l \in Sites \ {a, b} : G[l] = H[l]
    /\ G[a] \cup G[b] = (H[a] \cup H[b]) \cup (N + 1)..M
    /\ a = b \/ G[a] \cap G[b] = {}

LEMMA SingleMoved ==
    ASSUME NEW N \in Nat, NEW M \in Nat, N <= M, NEW H, NEW G, NEW a, NEW b,
           Single(H, N), Moved(H, G, a, b, N, M)
    PROVE  Single(G, M)
<1>. /\ a \in Sites /\ b \in Sites
     /\ \A l \in Sites \ {a, b} : G[l] = H[l]
     /\ G[a] \cup G[b] = (H[a] \cup H[b]) \cup (N + 1)..M
     /\ a = b \/ G[a] \cap G[b] = {}
  BY DEF Moved
<1>1. \A n \in 1..M : n \in 1..N \/ n \in (N + 1)..M
  OBVIOUS
<1>2. \A n \in (N + 1)..M : n \in 1..M /\ n \notin 1..N
  OBVIOUS
<1>3. \A l \in Sites : \A n \in H[l] : n \in 1..N /\ n \in 1..M
  BY DEF Single
<1>4. ASSUME NEW l \in Sites, NEW n \in G[l]
      PROVE  \/ l \in {a, b} /\ n \in (N + 1)..M
             \/ l \in {a, b} /\ (n \in H[a] \/ n \in H[b])
             \/ l \notin {a, b} /\ n \in H[l]
  BY <1>4
<1>5. \A l \in Sites : G[l] \subseteq 1..M
  BY <1>2, <1>3, <1>4
<1>6. \A n \in 1..M : \E l \in Sites : n \in G[l]
  <2> SUFFICES ASSUME NEW n \in 1..M PROVE \E l \in Sites : n \in G[l]  OBVIOUS
  <2>1. CASE n \in (N + 1)..M
    BY <2>1
  <2>2. CASE n \in 1..N
    <3>1. PICK l \in Sites : n \in H[l]
      BY <2>2 DEF Single
    <3>. QED  BY <3>1
  <2>. QED  BY <1>1, <2>1, <2>2
<1>7. \A l, m \in Sites, n \in 1..M : n \in G[l] /\ n \in G[m] => l = m
  <2> SUFFICES ASSUME NEW l \in Sites, NEW m \in Sites, NEW n \in 1..M, n \in G[l], n \in G[m], l # m
               PROVE  FALSE
    OBVIOUS
  <2>1. CASE l \in {a, b} /\ m \in {a, b}
    BY <2>1
  <2>2. CASE ~(l \in {a, b} /\ m \in {a, b})
    <3>1. n \in 1..N /\ (n \in H[l] \/ n \in H[a] \/ n \in H[b])
      BY <1>2, <1>3, <1>4, <2>2
    <3>2. \A k, j \in Sites : n \in H[k] /\ n \in H[j] => k = j
      BY <3>1 DEF Single
    <3>3. n \notin (N + 1)..M
      BY <1>2, <3>1
    <3>. QED  BY <1>4, <2>2, <3>2, <3>3
  <2>. QED  BY <2>1, <2>2
<1>. QED  BY <1>5, <1>6, <1>7 DEF Single

\* The new packets are at site b.
LEMMA SingleAdded ==
    ASSUME NEW N \in Nat, NEW M \in Nat, N <= M, NEW H, NEW G, NEW b \in Sites,
           Single(H, N), \A l \in Sites \ {b} : G[l] = H[l], G[b] = H[b] \cup (N + 1)..M
    PROVE  Single(G, M)
<1>1. Moved(H, G, b, b, N, M)
  BY DEF Moved
<1>. QED  BY <1>1, SingleMoved

LEMMA SameSingle ==
    ASSUME NEW N \in Nat, NEW H, NEW G, Single(H, N), \A l \in Sites : G[l] = H[l]
    PROVE  Single(G, N)
BY DEF Single

\* The cargo differs at the sites X at most.
Same(H, G, X) == \A l \in Sites \ X : G[l] = H[l]

LEMMA CargoSame ==
    ASSUME NEW o, NEW r, NEW R, NEW L, NEW Q, NEW K, NEW X,
           AtBuffer \in X \/ r.buffer = o.buffer,
           \A s \in Sessions : AtWire(s) \in X \/ r.wire[s] = o.wire[s],
           \A p \in Posts : AtPost(p) \in X \/ r.post[p].body = o.post[p].body,
           AtServer \in X \/ Q = R, Nowhere \in X \/ K = L
    PROVE  Same(Cargo(o, R, L), Cargo(r, Q, K), X)
<1> SUFFICES ASSUME NEW l \in Sites \ X PROVE Cargo(r, Q, K)[l] = Cargo(o, R, L)[l]
  BY DEF Same
<1>1. CASE l = AtBuffer
  BY <1>1, CargoFacts
<1>2. CASE l = AtServer
  BY <1>2, CargoFacts
<1>2a. CASE l = Nowhere
  BY <1>2a, CargoFacts
<1>3. ASSUME NEW s \in Sessions, l = AtWire(s)
      PROVE  Cargo(r, Q, K)[l] = Cargo(o, R, L)[l]
  <2>1. Cargo(r, Q, K)[l] = Entries(r.wire[s]) /\ Cargo(o, R, L)[l] = Entries(o.wire[s])
    BY <1>3, CargoFacts
  <2>. QED  BY <1>3, <2>1
<1>4. ASSUME NEW p \in Posts, l = AtPost(p)
      PROVE  Cargo(r, Q, K)[l] = Cargo(o, R, L)[l]
  <2>1. Cargo(r, Q, K)[l] = Entries(r.post[p].body) /\ Cargo(o, R, L)[l] = Entries(o.post[p].body)
    BY <1>4, CargoFacts
  <2>. QED  BY <1>4, <2>1
<1>. QED  BY <1>1, <1>2, <1>2a, <1>3, <1>4, SiteFacts

LEMMA SameCargo ==
    ASSUME NEW o, NEW r, NEW R, NEW L, r.buffer = o.buffer, r.wire = o.wire,
           \A p \in Posts : r.post[p].body = o.post[p].body
    PROVE  \A l \in Sites : Cargo(r, R, L)[l] = Cargo(o, R, L)[l]
<1>1. Same(Cargo(o, R, L), Cargo(r, R, L), {})
  BY CargoSame
<1>. QED  BY <1>1 DEF Same

\* The packets Q are added at one site, which is not the buffer.
Loaded(H, G, Q) ==
    \E b \in Sites \ {AtBuffer} : G[b] = H[b] \cup Q /\ \A l \in Sites \ {b} : G[l] = H[l]

\* What is handed over goes to one site.
LEMMA HandedCargo ==
    ASSUME NEW N \in Nat, NEW o, BoxOK(o, N), NEW r, BoxOK(r, N), NEW q \in Seq(1..N), NEW R, NEW L,
           CanSend(o), Handed(o, r, q)
    PROVE  Loaded(Cargo(o, R, L), Cargo(r, R, L), Entries(q))
<1>1. CASE kind[cur] = "websocket"
  <2>1. /\ r.post = o.post /\ r.wire[cur] = o.wire[cur] \o q /\ r.buffer = o.buffer
        /\ \A s \in Sessions \ {cur} : r.wire[s] = o.wire[s]
    BY <1>1 DEF Handed
  <2>2. cur \in Sessions /\ o.wire[cur] \in Seq(1..N)
    BY DEF CanSend, BoxOK
  <2>3. Entries(r.wire[cur]) = Entries(o.wire[cur]) \cup Entries(q)
    BY <2>1, <2>2, ConcatEntries
  <2>4. Cargo(r, R, L)[AtWire(cur)] = Cargo(o, R, L)[AtWire(cur)] \cup Entries(q)
    BY <2>2, <2>3, CargoFacts
  <2>5. \A l \in Sites \ {AtWire(cur)} : Cargo(r, R, L)[l] = Cargo(o, R, L)[l]
    <3>1. \A s \in Sessions : AtWire(s) \in {AtWire(cur)} \/ r.wire[s] = o.wire[s]
      BY <2>1
    <3>2. Same(Cargo(o, R, L), Cargo(r, R, L), {AtWire(cur)})
      BY <2>1, <3>1, CargoSame
    <3>. QED  BY <3>2 DEF Same
  <2>6. AtWire(cur) \in Sites \ {AtBuffer}
    BY <2>2, SiteFacts
  <2>. QED  BY <2>4, <2>5, <2>6 DEF Loaded
<1>2. CASE kind[cur] # "websocket"
  <2>1. r.wire = o.wire /\ r.buffer = o.buffer
    BY <1>2 DEF Handed, PostedTo
  <2>2. PICK new \in FreePosts(o) :
           /\ r.post[new] = [state |-> "out", session |-> cur, body |-> q]
           /\ \A p \in Posts \ {new} : r.post[p].body = o.post[p].body
    BY <1>2 DEF Handed, PostedTo
  <2>3. new \in Posts /\ r.post[new].body = q /\ o.post[new].body = <<>>
    BY <2>2 DEF FreePosts, BoxOK, NoPost
  <2>4. Cargo(r, R, L)[AtPost(new)] = Cargo(o, R, L)[AtPost(new)] \cup Entries(q)
    <3>1. Entries(<<>>) = {}  BY DEF Entries
    <3>. QED  BY <2>3, <3>1, CargoFacts
  <2>5. \A l \in Sites \ {AtPost(new)} : Cargo(r, R, L)[l] = Cargo(o, R, L)[l]
    <3>1. \A p \in Posts : AtPost(p) \in {AtPost(new)} \/ r.post[p].body = o.post[p].body
      BY <2>2
    <3>2. Same(Cargo(o, R, L), Cargo(r, R, L), {AtPost(new)})
      BY <2>1, <3>1, CargoSame
    <3>. QED  BY <3>2 DEF Same
  <2>6. AtPost(new) \in Sites \ {AtBuffer}
    BY <2>3, SiteFacts
  <2>. QED  BY <2>4, <2>5, <2>6 DEF Loaded
<1>. QED  BY <1>1, <1>2

LEMMA SetBufferCargo ==
    ASSUME NEW N \in Nat, NEW o, BoxOK(o, N), NEW c \in BOOLEAN, NEW v \in BOOLEAN, NEW R, NEW L,
           c => CanSend(o), Single(Cargo(o, R, L), N)
    PROVE  Single(Cargo(SetBuffer(o, c, v), R, L), N)
<1> DEFINE r == SetBuffer(o, c, v)
<1> HIDE DEF r
<1>1. CASE r.buffer = o.buffer /\ SameBut(o, r)
  <2>1. \A l \in Sites : Cargo(r, R, L)[l] = Cargo(o, R, L)[l]
    BY <1>1, SameCargo DEF SameBut
  <2>. QED  BY <2>1, SameSingle DEF r
<1>2. CASE c /\ ~v /\ o.buffer # <<>> /\ AllHanded(o, r, N)
  <2>1. PICK m, w : /\ BoxOK(m, N) /\ m.buffer = o.buffer /\ SameBut(o, m)
                    /\ BoxOK(w, N) /\ Handed(m, w, o.buffer)
                    /\ r.buffer = <<>> /\ SameBut(w, r)
    BY <1>2 DEF AllHanded
  <2>2. CanSend(m) /\ o.buffer \in Seq(1..N)
    BY <1>2, <2>1 DEF CanSend, FreePosts, SameBut, BoxOK
  <2>3. \A l \in Sites : Cargo(m, R, L)[l] = Cargo(o, R, L)[l]
    BY <2>1, SameCargo DEF SameBut
  <2>3a. Loaded(Cargo(m, R, L), Cargo(w, R, L), Entries(o.buffer))
    BY <2>1, <2>2, HandedCargo
  <2>4. PICK b \in Sites \ {AtBuffer} :
           /\ Cargo(w, R, L)[b] = Cargo(m, R, L)[b] \cup Entries(o.buffer)
           /\ \A l \in Sites \ {b} : Cargo(w, R, L)[l] = Cargo(m, R, L)[l]
    BY <2>3a DEF Loaded
  <2>5. \A l \in Sites \ {AtBuffer} : Cargo(r, R, L)[l] = Cargo(w, R, L)[l]
    <3>1. Same(Cargo(w, R, L), Cargo(r, R, L), {AtBuffer})
      BY <2>1, CargoSame DEF SameBut
    <3>. QED  BY <3>1 DEF Same
  <2>6. Cargo(r, R, L)[AtBuffer] = {} /\ Cargo(o, R, L)[AtBuffer] = Entries(o.buffer)
    <3>1. Entries(<<>>) = {}  BY DEF Entries
    <3>. QED  BY <2>1, <3>1, CargoFacts
  <2> DEFINE G == Cargo(r, R, L)
             H == Cargo(o, R, L)
  <2>7. G[b] = H[b] \cup H[AtBuffer] /\ G[AtBuffer] = {} /\ \A l \in Sites \ {b, AtBuffer} : G[l] = H[l]
    BY <2>3, <2>4, <2>5, <2>6
  <2>8. (N + 1)..N = {}  OBVIOUS
  <2> HIDE DEF G, H
  <2>9. Single(G, N)
    <3>1. Moved(H, G, AtBuffer, b, N, N)
      BY <2>7, <2>8, SiteFacts DEF Moved
    <3>2. Single(H, N)
      BY DEF H
    <3>. QED  BY <3>1, <3>2, SingleMoved
  <2>. QED  BY <2>9 DEF G, r
<1>. QED  BY <1>1, <1>2, SetBufferShape DEF r

LEMMA GivenCargo ==
    ASSUME NEW N \in Nat, NEW M \in Nat, N <= M, NEW o, BoxOK(o, M), NEW c \in BOOLEAN,
           NEW q \in Seq(1..M), NEW R, NEW L,
           c /\ ~o.doBuffer => CanSend(o), Flushed(o, c), Single(Cargo(o, R, L), N),
           Sorted(q), Entries(q) = (N + 1)..M
    PROVE  Single(Cargo(Given(o, c, q), R, L), M)
<1> DEFINE r == Given(o, c, q)
           G == Cargo(r, R, L)
           H == Cargo(o, R, L)
<1> HIDE DEF r
<1>1. CASE r.buffer = o.buffer \o q /\ SameBut(o, r)
  <2>1. Entries(r.buffer) = Entries(o.buffer) \cup Entries(q)
    BY <1>1, ConcatEntries DEF BoxOK
  <2>1a. \A l \in Sites \ {AtBuffer} : G[l] = H[l]
    <3>1. Same(H, G, {AtBuffer})
      BY <1>1, CargoSame DEF SameBut
    <3>. QED  BY <3>1 DEF Same
  <2>2. G[AtBuffer] = H[AtBuffer] \cup (N + 1)..M
    BY <2>1, CargoFacts
  <2> HIDE DEF G
  <2>3. Single(G, M)
    <3>1. AtBuffer \in Sites /\ Single(H, N)
      BY SiteFacts
    <3> HIDE DEF H
    <3>. QED  BY <2>1a, <2>2, <3>1, SingleAdded
  <2>. QED  BY <2>3 DEF G, r
<1>2. CASE q # <<>> /\ c /\ ~o.doBuffer /\ kind[cur] = "websocket" /\ Handed(o, r, q)
  <2>1. BoxOK(r, M)
    BY GivenShape DEF r
  <2>1a. Loaded(H, G, Entries(q))
    BY <1>2, <2>1, HandedCargo
  <2>21. Single(H, N)
    OBVIOUS
  <2> HIDE DEF G, H
  <2>2. PICK b \in Sites \ {AtBuffer} :
           G[b] = H[b] \cup Entries(q) /\ \A l \in Sites \ {b} : G[l] = H[l]
    BY <2>1a DEF Loaded
  <2>3. Single(G, M)
    BY <2>2, <2>21, SingleAdded
  <2>. QED  BY <2>3 DEF G, r
<1>3. CASE q # <<>> /\ c /\ ~o.doBuffer /\ kind[cur] # "websocket" /\ FirstHanded(o, r, q, M)
  <2>1. PICK w : /\ BoxOK(w, M) /\ Handed(o, w, <<Head(q)>>)
                 /\ r.buffer = o.buffer \o Tail(q) /\ SameBut(w, r)
    BY <1>3 DEF FirstHanded
  <2>2. /\ Head(q) \in 1..M /\ <<Head(q)>> \in Seq(1..M) /\ Tail(q) \in Seq(1..M)
        /\ Entries(<<Head(q)>>) = {Head(q)}
    BY <1>3, HeadTailFacts, SingleFacts
  <2>3. Entries(q) = Entries(Tail(q)) \cup {Head(q)}
    BY <1>3, TailEntries
  <2>4. Head(q) \notin Entries(Tail(q))
    <3>1. q \in Seq(Nat)
      <4>1. 1..M \subseteq Nat  OBVIOUS
      <4>. QED  BY <4>1
    <3>2. Below({Head(q)}, Entries(Tail(q)))
      BY <1>3, <3>1, TailSorted
    <3>. QED  BY <2>2, <3>2 DEF Below
  <2>5. o.buffer = <<>> /\ r.buffer = Tail(q)
    BY <1>3, <2>1, <2>2 DEF Flushed
  <2>5a. Loaded(H, Cargo(w, R, L), Entries(<<Head(q)>>))
    BY <1>3, <2>1, <2>2, HandedCargo
  <2>6. PICK b \in Sites \ {AtBuffer} :
           /\ Cargo(w, R, L)[b] = H[b] \cup {Head(q)}
           /\ \A l \in Sites \ {b} : Cargo(w, R, L)[l] = H[l]
    BY <2>2, <2>5a DEF Loaded
  <2>7. \A l \in Sites \ {AtBuffer} : G[l] = Cargo(w, R, L)[l]
    <3>1. Same(Cargo(w, R, L), G, {AtBuffer})
      BY <2>1, CargoSame DEF SameBut
    <3>. QED  BY <3>1 DEF Same
  <2>8. G[AtBuffer] = Entries(Tail(q)) /\ H[AtBuffer] = {}
    <3>1. Entries(<<>>) = {}  BY DEF Entries
    <3>2. G[AtBuffer] = Entries(r.buffer) /\ H[AtBuffer] = Entries(o.buffer)
      BY CargoFacts
    <3>. QED  BY <2>5, <3>1, <3>2
  <2>9. H[b] \subseteq 1..N /\ \A n \in Entries(Tail(q)) : n \in (N + 1)..M
    BY <2>3 DEF Single
  <2>10. \A n \in (N + 1)..M : n \notin 1..N
    OBVIOUS
  <2>11. /\ \A l \in Sites \ {AtBuffer, b} : G[l] = H[l]
         /\ G[b] = H[b] \cup {Head(q)}
    BY <2>6, <2>7
  <2> HIDE DEF G, H
  <2>12. Single(G, M)
    <3>1. G[AtBuffer] \cup G[b] = (H[AtBuffer] \cup H[b]) \cup (N + 1)..M
      BY <2>3, <2>8, <2>11
    <3>2. G[AtBuffer] \cap G[b] = {}
      BY <2>4, <2>8, <2>9, <2>10, <2>11
    <3>3. AtBuffer \in Sites /\ Single(H, N)
      BY SiteFacts DEF H
    <3>4. Moved(H, G, AtBuffer, b, N, M)
      BY <2>11, <3>1, <3>2, <3>3 DEF Moved
    <3>. QED  BY <3>3, <3>4, SingleMoved
  <2>. QED  BY <2>12 DEF G, r
<1>. QED  BY <1>1, <1>2, <1>3, GivenShape DEF r

LEMMA PlaceFacts ==
    ASSUME PlaceInv
    PROVE  /\ OrderInv /\ ShapeInv /\ ReadOnce /\ TypeOK /\ ConnType /\ Placed(box)
           /\ BufferOrder(box) /\ CarriedOrder(box, spoiled) /\ Flushed(box, connected)
           /\ Len(what) \in Nat /\ BoxOK(box, Len(what)) /\ Single(Cargo(box, received, lost), Len(what))
BY OrderFacts DEF PlaceInv

\* An action by which the server reads nothing.
LEMMA PlaceStep ==
    ASSUME PlaceInv, [Next]_vars, received' = received,
           Single(Cargo(box', received, lost'), Len(what'))
    PROVE  PlaceInv'
<1>1. OrderInv'
  BY OrderNext, PlaceFacts
<1>2. Single(Cargo(box, received, lost), Len(what))'
  OBVIOUS
<1>3. ReadOnce'
  BY PlaceFacts DEF ReadOnce
<1>. QED  BY <1>1, <1>2, <1>3 DEF PlaceInv

LEMMA SameCargoStep ==
    ASSUME PlaceInv, [Next]_vars, received' = received, lost' = lost, what' = what,
           box'.buffer = box.buffer, box'.wire = box.wire,
           \A p \in Posts : box'.post[p].body = box.post[p].body
    PROVE  PlaceInv'
<1>1. \A l \in Sites : Cargo(box', received, lost)[l] = Cargo(box, received, lost)[l]
  BY SameCargo
<1>2. Single(Cargo(box', received, lost), Len(what))
  BY <1>1, PlaceFacts, SameSingle
<1>. QED  BY <1>2, PlaceStep

LEMMA OpenPlace ==
    ASSUME PlaceInv, NEW k \in Kinds, Open(k), [Next]_vars
    PROVE  PlaceInv'
<1>. BoxOK(box, Len(what))  BY PlaceFacts
<1>1. /\ received' = received /\ lost' = lost /\ what' = what
      /\ box' = box \/ box' = [box EXCEPT !.doBuffer = FALSE]
  BY DEF Open, made
<1>2. box'.buffer = box.buffer /\ box'.wire = box.wire /\ box'.post = box.post
  BY <1>1 DEF BoxOK
<1>. QED  BY <1>1, <1>2, SameCargoStep

LEMMA HeartbeatPlace ==
    ASSUME PlaceInv, NEW s \in Sessions, Heartbeat(s), [Next]_vars
    PROVE  PlaceInv'
<1>. BoxOK(box, Len(what)) /\ Len(what) \in Nat  BY PlaceFacts
<1> DEFINE X == Posted(box, s, <<>>)
<1>1. /\ box' = X /\ received' = received /\ lost' = lost /\ what' = what /\ FreePosts(box) # {}
  BY DEF Heartbeat, made
<1>2. PostedTo(box, X, s, <<>>)
  <2>1. <<>> \in Seq(1..Len(what))
    OBVIOUS
  <2>. QED  BY <1>1, <2>1, PostedShape
<1>3. \A p \in FreePosts(box) : p \in Posts /\ box.post[p].body = <<>>
  BY DEF FreePosts, BoxOK, NoPost
<1> HIDE DEF X
<1>4. X.buffer = box.buffer /\ X.wire = box.wire /\ \A p \in Posts : X.post[p].body = box.post[p].body
  BY <1>2, <1>3 DEF PostedTo
<1>. QED  BY <1>1, <1>4, SameCargoStep

LEMMA WebSocketOpensPlace ==
    ASSUME PlaceInv, WebSocketOpens, [Next]_vars
    PROVE  PlaceInv'
<1>. ConnType /\ BoxOK(box, Len(what)) /\ Len(what) \in Nat /\ Single(Cargo(box, received, lost), Len(what))
  BY PlaceFacts
<1>1. connected = FALSE
  BY ShapeFacts, PlaceFacts DEF WebSocketOpens, ConnType
<1>2. box' = SetBuffer(box, FALSE, FALSE) /\ received' = received /\ lost' = lost /\ what' = what
  BY <1>1 DEF WebSocketOpens, made
<1>3. Single(Cargo(SetBuffer(box, FALSE, FALSE), received, lost), Len(what))
  BY SetBufferCargo
<1>. QED  BY <1>2, <1>3, PlaceStep

LEMMA OnConnectPlace ==
    ASSUME PlaceInv, OnConnect, [Next]_vars
    PROVE  PlaceInv'
<1>. /\ TypeOK /\ ShapeInv /\ BoxOK(box, Len(what)) /\ Len(what) \in Nat /\ MadeType
     /\ Single(Cargo(box, received, lost), Len(what))
  BY PlaceFacts, ShapeFacts
<1> DEFINE N == Len(what')
           q == Numbers(Renewals)
           X == Given(Reopened, TRUE, q)
<1>1. /\ Connecting /\ link[cur] = "open" /\ Room(box) /\ Make(Renewals) /\ box' = X
      /\ received' = received /\ lost' = lost
  BY DEF OnConnect, Reopened
<1>2. Renewals \in Seq(PacketType)
  BY RenewalsType
<1>3. /\ N \in Nat /\ Len(what) <= N /\ q \in Seq(1..N) /\ Sorted(q) /\ BoxOK(box, N)
      /\ Entries(q) = (Len(what) + 1)..N
  BY <1>1, <1>2, MakeFacts
<1> HIDE DEF N, q
<1>4. BoxOK(Reopened, N) /\ Flushed(Reopened, TRUE) /\ (~Reopened.doBuffer => CanSend(Reopened))
  BY <1>1, <1>3, ReopenedFacts
<1>5. Single(Cargo(Reopened, received, lost), Len(what))
  <2>1. CASE box.doBuffer
    BY <2>1 DEF Reopened
  <2>2. CASE ~box.doBuffer
    <3>1. Reopened = SetBuffer(box, TRUE, FALSE)
      BY <2>2 DEF Reopened
    <3>2. CanSend(box)
      BY <1>1, ShapeFacts DEF CanSend, Room, Connecting
    <3>. QED  BY <3>1, <3>2, SetBufferCargo
  <2>. QED  BY <2>1, <2>2
<1>6. Single(Cargo(X, received, lost), N)
  BY <1>3, <1>4, <1>5, GivenCargo
<1> HIDE DEF X
<1>. QED  BY <1>1, <1>6, PlaceStep DEF N

LEMMA AcceptPlace ==
    ASSUME PlaceInv, NEW packets \in Seq(PacketType), Accept(packets), [Next]_vars,
           received' = received, lost' = lost
    PROVE  PlaceInv'
<1>. /\ TypeOK /\ ShapeInv /\ BoxOK(box, Len(what)) /\ Len(what) \in Nat /\ Flushed(box, connected)
     /\ Single(Cargo(box, received, lost), Len(what)) /\ connected \in BOOLEAN
  BY PlaceFacts DEF ConnType
<1> DEFINE N == Len(what')
           q == Numbers(packets)
           X == Given(box, connected, q)
<1>1. box' = X /\ Make(packets) /\ (connected /\ ~box.doBuffer => CanSend(box))
  BY AcceptFacts
<1>2. /\ N \in Nat /\ Len(what) <= N /\ q \in Seq(1..N) /\ Sorted(q) /\ BoxOK(box, N)
      /\ Entries(q) = (Len(what) + 1)..N
  BY <1>1, MakeFacts
<1> HIDE DEF N, q
<1>3. Single(Cargo(X, received, lost), N)
  BY <1>1, <1>2, GivenCargo
<1> HIDE DEF X
<1>. QED  BY <1>1, <1>3, PlaceStep DEF N

\* The packets of request site a are lost.
LEMMA LostCargo ==
    ASSUME NEW N \in Nat, NEW o, NEW r, NEW R, NEW L, NEW Q, NEW a \in Sites \ {Nowhere},
           Single(Cargo(o, R, L), N), Same(Cargo(o, R, L), Cargo(r, R, L), {a}),
           Cargo(o, R, L)[a] = Q, Cargo(r, R, L)[a] = {}
    PROVE  Single(Cargo(r, R, L \cup Q), N)
<1> DEFINE H == Cargo(o, R, L)
           G == Cargo(r, R, L \cup Q)
<1>1. Same(Cargo(r, R, L), G, {Nowhere})
  BY CargoSame
<1>2. G[Nowhere] = L \cup Q /\ H[Nowhere] = L /\ H[a] = Q
  BY CargoFacts
<1>3. G[a] = {} /\ \A l \in Sites \ {a, Nowhere} : G[l] = H[l]
  BY <1>1 DEF Same
<1>4. Nowhere \in Sites /\ a \in Sites /\ Single(H, N) /\ (N + 1)..N = {}
  BY SiteFacts
<1> HIDE DEF H, G
<1>5. /\ G[a] \cup G[Nowhere] = (H[a] \cup H[Nowhere]) \cup (N + 1)..N
      /\ G[a] \cap G[Nowhere] = {}
  BY <1>2, <1>3, <1>4
<1>6. Single(G, N)
  <2>1. \A l \in Sites \ {a, Nowhere} : G[l] = H[l]
    BY <1>3
  <2>2. Moved(H, G, a, Nowhere, N, N)
    BY <1>4, <1>5, <2>1 DEF Moved
  <2>. QED  BY <1>4, <2>2, SingleMoved
<1>. QED  BY <1>6 DEF G

LEMMA WebSocketClosesPlace ==
    ASSUME PlaceInv, NEW s \in Sessions, WebSocketCloses(s), [Next]_vars
    PROVE  PlaceInv'
<1>. BoxOK(box, Len(what)) /\ Len(what) \in Nat  BY PlaceFacts
<1> DEFINE m == [box EXCEPT !.doBuffer = TRUE]
           X == [m EXCEPT !.wire[s] = <<>>]
           Q == Entries(box.wire[s])
<1>1. box' = X /\ received' = received /\ lost' = lost \cup Q /\ what' = what
  <2>1. SetBuffer(box, FALSE, TRUE) = m
    BY DEF SetBuffer
  <2> HIDE DEF m
  <2>. QED  BY <2>1 DEF WebSocketCloses, made
<1>2. m.wire = box.wire /\ m.post = box.post /\ m.buffer = box.buffer /\ BoxOK(m, Len(what))
  BY DEF BoxOK
<1> HIDE DEF m
<1>3. /\ X.post = box.post /\ X.buffer = box.buffer /\ X.wire[s] = <<>>
      /\ \A x \in Sessions \ {s} : X.wire[x] = box.wire[x]
  BY <1>2 DEF BoxOK
<1> HIDE DEF X
<1>4. Same(Cargo(box, received, lost), Cargo(X, received, lost), {AtWire(s)})
  <2>1. \A x \in Sessions : AtWire(x) \in {AtWire(s)} \/ X.wire[x] = box.wire[x]
    BY <1>3
  <2>. QED  BY <1>3, <2>1, CargoSame
<1>5. Cargo(box, received, lost)[AtWire(s)] = Q /\ Cargo(X, received, lost)[AtWire(s)] = {}
  <2>1. Entries(<<>>) = {}  BY DEF Entries
  <2>. QED  BY <1>3, <2>1, CargoFacts
<1>6. AtWire(s) \in Sites \ {Nowhere} /\ Single(Cargo(box, received, lost), Len(what))
  BY SiteFacts, PlaceFacts
<1> HIDE DEF Q
<1>7. Single(Cargo(X, received, lost \cup Q), Len(what))
  BY <1>4, <1>5, <1>6, LostCargo
<1>. QED  BY <1>1, <1>7, PlaceStep

LEMMA DoneCargo ==
    ASSUME PlaceInv, NEW p \in Posts
    PROVE  Single(Cargo(Done(p), received, lost \cup Entries(box.post[p].body)), Len(what))
<1> DEFINE X == Done(p)
           Q == Entries(box.post[p].body)
<1>1. /\ X.buffer = box.buffer /\ X.wire = box.wire /\ X.post[p].body = <<>>
      /\ \A q \in Posts \ {p} : X.post[q] = box.post[q]
  BY DoneShape, PlaceFacts DEF NoPost
<1> HIDE DEF X
<1>2. Same(Cargo(box, received, lost), Cargo(X, received, lost), {AtPost(p)})
  <2>1. \A q \in Posts : AtPost(q) \in {AtPost(p)} \/ X.post[q].body = box.post[q].body
    BY <1>1
  <2>. QED  BY <1>1, <2>1, CargoSame
<1>3. Cargo(box, received, lost)[AtPost(p)] = Q /\ Cargo(X, received, lost)[AtPost(p)] = {}
  <2>1. Entries(<<>>) = {}  BY DEF Entries
  <2>. QED  BY <1>1, <2>1, CargoFacts
<1>4. AtPost(p) \in Sites \ {Nowhere} /\ Single(Cargo(box, received, lost), Len(what)) /\ Len(what) \in Nat
  BY SiteFacts, PlaceFacts
<1> HIDE DEF Q
<1>5. Single(Cargo(X, received, lost \cup Q), Len(what))
  BY <1>2, <1>3, <1>4, LostCargo
<1>. QED  BY <1>5 DEF X, Q

\* The end of POST p is told, or was not to be told.
LEMMA EndedPlace ==
    ASSUME PlaceInv, NEW p \in Posts, [Next]_vars, received' = received, what' = what,
           lost' = lost \cup Entries(box.post[p].body),
           box' = Done(p) \/ Released(p)
    PROVE  PlaceInv'
<1>. ShapeInv /\ ConnType /\ Len(what) \in Nat  BY PlaceFacts
<1> DEFINE o == Done(p)
<1>1. Single(Cargo(o, received, lost'), Len(what))
  BY DoneCargo
<1>2. BoxOK(o, Len(what)) /\ (connected => CanSend(o)) /\ connected \in BOOLEAN
  BY DonePlaced DEF ConnType
<1>3. box' = o \/ box' = SetBuffer(o, connected, FALSE)
  BY DEF Released
<1> HIDE DEF o
<1>4. Single(Cargo(SetBuffer(o, connected, FALSE), received, lost'), Len(what))
  BY <1>1, <1>2, SetBufferCargo
<1>5. Single(Cargo(box', received, lost'), Len(what'))
  BY <1>1, <1>3, <1>4
<1>. QED  BY <1>5, PlaceStep

\* The server reads packet n, which was at site a.
LEMMA ReadPlace ==
    ASSUME PlaceInv, [Next]_vars, NEW s \in Sessions, NEW n \in 1..Len(what), NEW a \in Sites \ {AtServer},
           received' = Append(received, <<s, n>>), lost' = lost, what' = what,
           Same(Cargo(box, received, lost), Cargo(box', received, lost), {a}), NEW Q,
           Cargo(box, received, lost)[a] = Q \cup {n}, Cargo(box', received, lost)[a] = Q, n \notin Q
    PROVE  PlaceInv'
<1> DEFINE N == Len(what)
           H == Cargo(box, received, lost)
           G == Cargo(box', received', lost)
<1>0. OrderInv /\ OrderInv' /\ Single(H, N) /\ N \in Nat /\ ServerType
  BY OrderNext, PlaceFacts, OrderFacts
<1>1. /\ Read(received') = Read(received) \cup {n}
      /\ DOMAIN received' = DOMAIN received \cup {Len(received) + 1}
      /\ received'[Len(received) + 1] = <<s, n>>
      /\ \A i \in DOMAIN received : received'[i] = received[i]
  <2> DEFINE A == Sessions \X (1..Len(what))
  <2>1. received \in Seq(A) /\ <<s, n>> \in A
    BY <1>0 DEF ServerType
  <2> HIDE DEF A
  <2>2. /\ Entries(received') = Entries(received) \cup {<<s, n>>}
        /\ DOMAIN received' = DOMAIN received \cup {Len(received) + 1}
        /\ received'[Len(received) + 1] = <<s, n>>
        /\ \A i \in DOMAIN received : received'[i] = received[i]
    BY <2>1, AppendFacts
  <2>. QED  BY <2>2 DEF Read
<1>2. Same(Cargo(box', received, lost), G, {AtServer})
  BY CargoSame
<1>3. /\ G[AtServer] = H[AtServer] \cup {n} /\ H[AtServer] = Read(received)
      /\ G[a] = Q /\ H[a] = Q \cup {n}
      /\ \A l \in Sites \ {a, AtServer} : G[l] = H[l]
  <2>1. G[AtServer] = Read(received') /\ H[AtServer] = Read(received)
    BY CargoFacts
  <2>2. G[a] = Q
    BY <1>2 DEF Same
  <2>3. \A l \in Sites \ {a, AtServer} : G[l] = H[l]
    BY <1>2 DEF Same
  <2>. QED  BY <1>1, <2>1, <2>2, <2>3
<1> HIDE DEF G, H, N
<1>4. AtServer \in Sites /\ a \in Sites /\ (N + 1)..N = {} /\ n \in 1..N
  BY <1>0, SiteFacts DEF N
<1>5. n \notin H[AtServer]
  BY <1>0, <1>3, <1>4 DEF Single
<1>6. Q \cap H[AtServer] = {}
  <2>1. \A k \in Q : k \in H[a] /\ k \in 1..N
    BY <1>0, <1>3 DEF Single
  <2>. QED  BY <1>0, <1>4, <2>1 DEF Single
<1>7. Single(G, N)
  <2>1. /\ G[a] \cup G[AtServer] = (H[a] \cup H[AtServer]) \cup (N + 1)..N
        /\ G[a] \cap G[AtServer] = {}
    BY <1>3, <1>4, <1>6
  <2>2. \A l \in Sites \ {a, AtServer} : G[l] = H[l]
    BY <1>3
  <2>3. Moved(H, G, a, AtServer, N, N)
    BY <1>4, <2>1, <2>2 DEF Moved
  <2>. QED  BY <1>0, <2>3, SingleMoved
<1>8. Single(Cargo(box, received, lost), Len(what))'
  BY <1>7 DEF G, N
<1>9. ReadOnce'
  <2>1. \A i \in DOMAIN received : received[i][2] # n
    <3>1. \A i \in DOMAIN received : received[i][2] \in Read(received)
      BY DEF Read, Entries
    <3>. QED  BY <1>3, <1>5, <3>1
  <2>. QED  BY <1>1, <2>1, PlaceFacts DEF ReadOnce
<1>. QED  BY <1>0, <1>8, <1>9 DEF PlaceInv

LEMMA FrameArrivesPlace ==
    ASSUME PlaceInv, NEW s \in Sessions, FrameArrives(s), [Next]_vars
    PROVE  PlaceInv'
<1>. BoxOK(box, Len(what)) /\ Len(what) \in Nat /\ CarriedOrder(box, spoiled)
  BY PlaceFacts
<1> DEFINE w == box.wire[s]
           n == Head(w)
           Q == Entries(Tail(w))
<1>1. /\ box' = [box EXCEPT !.wire[s] = Tail(@)] /\ w # <<>>
      /\ received' = Append(received, <<s, n>>) /\ lost' = lost /\ what' = what
  BY DEF FrameArrives, made
<1>2. w \in Seq(1..Len(what)) /\ w \in Seq(Nat)
  <2>1. w \in Seq(1..Len(what)) /\ 1..Len(what) \subseteq Nat
    BY DEF BoxOK
  <2>. QED  BY <2>1
<1>3. n \in 1..Len(what) /\ n \in Nat /\ Entries(w) = Q \cup {n}
  BY <1>1, <1>2, HeadTailFacts, TailEntries
<1>4. n \notin Q
  <2>1. Sorted(w)  BY DEF CarriedOrder
  <2>2. Below({n}, Q)  BY <1>1, <1>2, <2>1, TailSorted
  <2>. QED  BY <1>3, <2>2 DEF Below
<1>5. /\ box'.buffer = box.buffer /\ box'.post = box.post /\ box'.wire[s] = Tail(w)
      /\ \A x \in Sessions \ {s} : box'.wire[x] = box.wire[x]
  BY <1>1 DEF BoxOK
<1>6. Same(Cargo(box, received, lost), Cargo(box', received, lost), {AtWire(s)})
  <2>1. \A x \in Sessions : AtWire(x) \in {AtWire(s)} \/ box'.wire[x] = box.wire[x]
    BY <1>5
  <2>. QED  BY <1>5, <2>1, CargoSame
<1>7. Cargo(box, received, lost)[AtWire(s)] = Q \cup {n} /\ Cargo(box', received, lost)[AtWire(s)] = Q
  BY <1>3, <1>5, CargoFacts
<1>8. AtWire(s) \in Sites \ {AtServer}
  BY SiteFacts
<1> HIDE DEF Q, n
<1>. QED  BY <1>1, <1>3, <1>4, <1>6, <1>7, <1>8, ReadPlace

LEMMA PostArrivesPlace ==
    ASSUME PlaceInv, NEW p \in Posts, PostArrives(p), [Next]_vars
    PROVE  PlaceInv'
<1>. BoxOK(box, Len(what)) /\ Len(what) \in Nat /\ CarriedOrder(box, spoiled) /\ ShapeInv
  BY PlaceFacts
<1> DEFINE b == box.post[p].body
           s == box.post[p].session
           n == Head(b)
           Q == Entries(Tail(b))
<1>1. /\ box' = [box EXCEPT !.post[p].body = Tail(@)] /\ b # <<>>
      /\ received' = Append(received, <<s, n>>) /\ lost' = lost /\ what' = what
  BY DEF PostArrives, made
<1>2. b \in Seq(1..Len(what)) /\ b \in Seq(Nat) /\ s \in Sessions
  <2>1. b \in Seq(1..Len(what)) /\ 1..Len(what) \subseteq Nat
    BY PostFacts DEF PostRec
  <2>. QED  BY <1>1, <2>1, PostFacts
<1>3. n \in 1..Len(what) /\ n \in Nat /\ Entries(b) = Q \cup {n}
  BY <1>1, <1>2, HeadTailFacts, TailEntries
<1>4. n \notin Q
  <2>1. Sorted(b)  BY DEF CarriedOrder
  <2>2. Below({n}, Q)  BY <1>1, <1>2, <2>1, TailSorted
  <2>. QED  BY <1>3, <2>2 DEF Below
<1>5. /\ box'.buffer = box.buffer /\ box'.wire = box.wire /\ box'.post[p].body = Tail(b)
      /\ \A q \in Posts \ {p} : box'.post[q] = box.post[q]
  <2>1. box.post[p] \in PostRec(Len(what))
    BY PostFacts
  <2>. QED  BY <1>1, <2>1 DEF BoxOK, PostRec
<1>6. Same(Cargo(box, received, lost), Cargo(box', received, lost), {AtPost(p)})
  <2>1. \A q \in Posts : AtPost(q) \in {AtPost(p)} \/ box'.post[q].body = box.post[q].body
    BY <1>5
  <2>. QED  BY <1>5, <2>1, CargoSame
<1>7. Cargo(box, received, lost)[AtPost(p)] = Q \cup {n} /\ Cargo(box', received, lost)[AtPost(p)] = Q
  BY <1>3, <1>5, CargoFacts
<1>8. AtPost(p) \in Sites \ {AtServer}
  BY SiteFacts
<1> HIDE DEF Q, n, s
<1>. QED  BY <1>1, <1>2, <1>3, <1>4, <1>6, <1>7, <1>8, ReadPlace

LEMMA PlaceNext == PlaceInv /\ [Next]_vars => PlaceInv'
<1> SUFFICES ASSUME PlaceInv, [Next]_vars PROVE PlaceInv'  OBVIOUS
<1>0. ASSUME box' = box, what' = what, received' = received, lost' = lost PROVE PlaceInv'
  BY <1>0, SameCargoStep
<1>1. CASE UNCHANGED vars
  BY <1>0, <1>1 DEF vars, made
<1>2. ASSUME NEW reason, Ends(reason) PROVE PlaceInv'
  BY <1>0, <1>2 DEF Ends, made
<1>3. ASSUME NEW s \in Sessions, Fail(s) PROVE PlaceInv'
  BY <1>0, <1>3 DEF Fail, made
<1>4. ASSUME NEW p \in Posts, PostAnswered(p) PROVE PlaceInv'
  <2>1. Entries(<<>>) = {}  BY DEF Entries
  <2>2. lost' = lost \cup Entries(box.post[p].body)
    BY <1>4, <2>1 DEF PostAnswered
  <2>. QED  BY <1>4, <2>2, EndedPlace DEF PostAnswered, made
<1>5. ASSUME NEW p \in Posts, PostFails(p) PROVE PlaceInv'
  BY <1>5, EndedPlace DEF PostFails, made
<1>6. CASE Send
  <2>1. [type |-> "message", name |-> ""] \in PacketType
    BY DEF PacketType
  <2>2. <<[type |-> "message", name |-> ""]>> \in Seq(PacketType)
    BY <2>1, SingleFacts
  <2>. QED  BY <1>6, <2>2, AcceptPlace DEF Send
<1>7. ASSUME NEW n \in Names, Of(n) PROVE PlaceInv'
  <2>1. [type |-> "connect", name |-> n] \in PacketType
    BY DEF PacketType
  <2>2. <<[type |-> "connect", name |-> n]>> \in Seq(PacketType)
    BY <2>1, SingleFacts
  <2>. QED  BY <1>7, <2>2, AcceptPlace DEF Of
<1>8. CASE Disconnect
  <2>1. [type |-> "disconnect", name |-> ""] \in PacketType
    BY DEF PacketType
  <2>2. <<[type |-> "disconnect", name |-> ""]>> \in Seq(PacketType)
    BY <2>1, SingleFacts
  <2>3. CASE open
    BY <1>8, <2>2, <2>3, AcceptPlace DEF Disconnect
  <2>4. CASE ~open
    BY <1>0, <1>8, <2>4 DEF Disconnect
  <2>. QED  BY <2>3, <2>4
<1>. QED
  BY <1>1, <1>2, <1>3, <1>4, <1>5, <1>6, <1>7, <1>8, OpenPlace, WebSocketOpensPlace, OnConnectPlace,
     WebSocketClosesPlace, HeartbeatPlace, FrameArrivesPlace, PostArrivesPlace DEF Next

LEMMA PlaceInit == Init => PlaceInv
<1> SUFFICES ASSUME Init PROVE PlaceInv  OBVIOUS
<1>1. OrderInv  BY OrderInit
<1>2. Len(what) = 0 /\ received = <<>> /\ lost = {} /\ box.buffer = <<>>
      /\ (\A s \in Sessions : box.wire[s] = <<>>) /\ (\A p \in Posts : box.post[p].body = <<>>)
  BY DEF Init, EmptyBox, NoPost
<1>3. Entries(<<>>) = {} /\ Read(<<>>) = {}
  BY DEF Entries, Read
<1>4. \A l \in Sites : Cargo(box, received, lost)[l] = {}
  <2> DEFINE H == Cargo(box, received, lost)
  <2>1. /\ H[AtBuffer] = Entries(box.buffer)
        /\ \A s \in Sessions : H[AtWire(s)] = Entries(box.wire[s])
        /\ \A p \in Posts : H[AtPost(p)] = Entries(box.post[p].body)
        /\ H[AtServer] = Read(received) /\ H[Nowhere] = lost
    BY CargoFacts
  <2> HIDE DEF H
  <2>2. \A l \in Sites : H[l] = {}
    BY <1>2, <1>3, <2>1, SiteFacts
  <2>. QED  BY <2>2 DEF H
<1>5. Single(Cargo(box, received, lost), Len(what))
  BY <1>2, <1>4 DEF Single
<1>6. ReadOnce  BY <1>2 DEF ReadOnce
<1>. QED  BY <1>1, <1>5, <1>6 DEF PlaceInv

(* A flush, a renewal or the end of a request moves a packet, and does not *)
(* copy or drop one that is not counted as lost.                           *)
THEOREM PlaceInductive == Spec => []PlaceInv
<1>. QED  BY PlaceInit, PlaceNext, PTL DEF Spec

\* The places of packet n that site l stands for.
Spots(l, n) ==
    IF l[1] = "buffer" THEN {<<"buffer", i>> : i \in {j \in DOMAIN box.buffer : box.buffer[j] = n}}
    ELSE IF l[1] = "wire" THEN {<<"wire", l[2], i>> : i \in {j \in DOMAIN box.wire[l[2]] : box.wire[l[2]][j] = n}}
    ELSE IF l[1] = "post" THEN {<<"post", l[2], i>> : i \in {j \in DOMAIN box.post[l[2]].body : box.post[l[2]].body[j] = n}}
    ELSE IF l[1] = "received" THEN {<<"received", i>> : i \in {j \in DOMAIN received : received[j][2] = n}}
    ELSE {<<"lost">> : x \in {n} \cap lost}

LEMMA SpotsFacts ==
    ASSUME NEW n
    PROVE  /\ Spots(AtBuffer, n) = {<<"buffer", i>> : i \in {j \in DOMAIN box.buffer : box.buffer[j] = n}}
           /\ \A s : Spots(AtWire(s), n) = {<<"wire", s, i>> : i \in {j \in DOMAIN box.wire[s] : box.wire[s][j] = n}}
           /\ \A p : Spots(AtPost(p), n) = {<<"post", p, i>> : i \in {j \in DOMAIN box.post[p].body : box.post[p].body[j] = n}}
           /\ Spots(AtServer, n) = {<<"received", i>> : i \in {j \in DOMAIN received : received[j][2] = n}}
           /\ Spots(Nowhere, n) = {<<"lost">> : x \in {n} \cap lost}
BY DEF Spots, AtBuffer, AtWire, AtPost, AtServer, Nowhere

Index(q, n) == {j \in DOMAIN q : q[j] = n}

LEMMA OneIndex ==
    ASSUME NEW q, NEW n, \A i, j \in DOMAIN q : q[i] = q[j] => i = j
    PROVE  /\ n \in Entries(q) => \E i : Index(q, n) = {i}
           /\ n \notin Entries(q) => Index(q, n) = {}
<1>1. ASSUME n \in Entries(q) PROVE \E i : Index(q, n) = {i}
  <2>1. PICK i \in DOMAIN q : q[i] = n
    BY <1>1 DEF Entries
  <2>2. Index(q, n) = {i}
    BY <2>1 DEF Index
  <2>. QED  BY <2>2
<1>2. n \notin Entries(q) => Index(q, n) = {}
  BY DEF Entries, Index
<1>. QED  BY <1>1, <1>2

\* A site that holds n has one place for it, another site none.
LEMMA OneSpot ==
    ASSUME PlaceInv, NEW n, NEW l \in Sites
    PROVE  /\ n \in Cargo(box, received, lost)[l] => \E x : Spots(l, n) = {x}
           /\ n \notin Cargo(box, received, lost)[l] => Spots(l, n) = {}
<1> DEFINE H == Cargo(box, received, lost)
<1>0. /\ BoxOK(box, Len(what)) /\ Len(what) \in Nat /\ BufferOrder(box) /\ CarriedOrder(box, spoiled) /\ ReadOnce
  BY PlaceFacts
<1>1. ASSUME NEW q \in Seq(1..Len(what)), Sorted(q)
      PROVE  \A i, j \in DOMAIN q : q[i] = q[j] => i = j
  <2> SUFFICES ASSUME NEW i \in DOMAIN q, NEW j \in DOMAIN q, q[i] = q[j], i # j PROVE FALSE
    OBVIOUS
  <2>1. i \in Nat /\ j \in Nat /\ q[i] \in Nat
    BY <1>0
  <2>. QED  BY <1>1, <2>1 DEF Sorted
<1>2. CASE l = AtBuffer
  <2>1. box.buffer \in Seq(1..Len(what)) /\ Sorted(box.buffer)
    BY <1>0 DEF BoxOK, BufferOrder
  <2>2. \A i, j \in DOMAIN box.buffer : box.buffer[i] = box.buffer[j] => i = j
    BY <1>1, <2>1
  <2>3. H[l] = Entries(box.buffer)
    BY <1>2, CargoFacts
  <2>4. Spots(l, n) = {<<"buffer", i>> : i \in {j \in DOMAIN box.buffer : box.buffer[j] = n}}
    BY <1>2, SpotsFacts
  <2>5. (n \in H[l] => \E i : Index(box.buffer, n) = {i}) /\ (n \notin H[l] => Index(box.buffer, n) = {})
    BY <2>2, <2>3, OneIndex
  <2>6. Spots(l, n) = {<<"buffer", i>> : i \in Index(box.buffer, n)}
    BY <2>4 DEF Index
  <2> HIDE DEF H
  <2>7. ASSUME n \in H[l] PROVE \E x : Spots(l, n) = {x}
    <3>1. PICK i : Index(box.buffer, n) = {i}
      BY <2>5, <2>7
    <3>2. Spots(l, n) = {<<"buffer", i>>}
      BY <2>6, <3>1
    <3>. QED  BY <3>2
  <2>8. n \notin H[l] => Spots(l, n) = {}
    BY <2>5, <2>6
  <2>. QED  BY <2>7, <2>8 DEF H
<1>3. ASSUME NEW s \in Sessions, l = AtWire(s)
      PROVE  /\ n \in H[l] => \E x : Spots(l, n) = {x}
             /\ n \notin H[l] => Spots(l, n) = {}
  <2> DEFINE q == box.wire[s]
  <2>1. q \in Seq(1..Len(what)) /\ Sorted(q)
    BY <1>0 DEF BoxOK, CarriedOrder
  <2>2. \A i, j \in DOMAIN q : q[i] = q[j] => i = j
    BY <1>1, <2>1
  <2>3. H[l] = Entries(q)
    BY <1>3, CargoFacts
  <2>4. Spots(l, n) = {<<"wire", s, i>> : i \in {j \in DOMAIN q : q[j] = n}}
    BY <1>3, SpotsFacts
  <2> HIDE DEF H, q
  <2>5. (n \in H[l] => \E i : Index(q, n) = {i}) /\ (n \notin H[l] => Index(q, n) = {})
    <3>1. (n \in Entries(q) => \E i : Index(q, n) = {i}) /\ (n \notin Entries(q) => Index(q, n) = {})
      BY <2>2, OneIndex
    <3>. QED  BY <2>3, <3>1
  <2>6. Spots(l, n) = {<<"wire", s, i>> : i \in Index(q, n)}
    BY <2>4 DEF Index
  <2>7. ASSUME n \in H[l] PROVE \E x : Spots(l, n) = {x}
    <3>1. PICK i : Index(q, n) = {i}
      BY <2>5, <2>7
    <3>2. Spots(l, n) = {<<"wire", s, i>>}
      BY <2>6, <3>1
    <3>. QED  BY <3>2
  <2>8. n \notin H[l] => Spots(l, n) = {}
    BY <2>5, <2>6
  <2>. QED  BY <2>7, <2>8
<1>4. ASSUME NEW p \in Posts, l = AtPost(p)
      PROVE  /\ n \in H[l] => \E x : Spots(l, n) = {x}
             /\ n \notin H[l] => Spots(l, n) = {}
  <2> DEFINE b == box.post[p].body
  <2>1. b \in Seq(1..Len(what)) /\ Sorted(b)
    BY <1>0 DEF BoxOK, CarriedOrder, PostRec
  <2>2. \A i, j \in DOMAIN b : b[i] = b[j] => i = j
    BY <1>1, <2>1
  <2>3. H[l] = Entries(b)
    BY <1>4, CargoFacts
  <2>4. Spots(l, n) = {<<"post", p, i>> : i \in {j \in DOMAIN b : b[j] = n}}
    BY <1>4, SpotsFacts
  <2> HIDE DEF H, b
  <2>5. (n \in H[l] => \E i : Index(b, n) = {i}) /\ (n \notin H[l] => Index(b, n) = {})
    <3>1. (n \in Entries(b) => \E i : Index(b, n) = {i}) /\ (n \notin Entries(b) => Index(b, n) = {})
      BY <2>2, OneIndex
    <3>. QED  BY <2>3, <3>1
  <2>6. Spots(l, n) = {<<"post", p, i>> : i \in Index(b, n)}
    BY <2>4 DEF Index
  <2>7. ASSUME n \in H[l] PROVE \E x : Spots(l, n) = {x}
    <3>1. PICK i : Index(b, n) = {i}
      BY <2>5, <2>7
    <3>2. Spots(l, n) = {<<"post", p, i>>}
      BY <2>6, <3>1
    <3>. QED  BY <3>2
  <2>8. n \notin H[l] => Spots(l, n) = {}
    BY <2>5, <2>6
  <2>. QED  BY <2>7, <2>8
<1>5. CASE l = AtServer
  <2>1. \A i, j \in DOMAIN received : received[i][2] = received[j][2] => i = j
    BY <1>0 DEF ReadOnce
  <2>2. H[l] = Read(received)
    BY <1>5, CargoFacts
  <2>3. Spots(l, n) = {<<"received", i>> : i \in {j \in DOMAIN received : received[j][2] = n}}
    BY <1>5, SpotsFacts
  <2>4. n \in Read(received) <=> \E i \in DOMAIN received : received[i][2] = n
    BY DEF Read, Entries
  <2> DEFINE I == {j \in DOMAIN received : received[j][2] = n}
  <2>5. ASSUME n \in H[l] PROVE \E i : I = {i}
    <3>1. PICK i \in DOMAIN received : received[i][2] = n
      BY <2>2, <2>4, <2>5
    <3>2. I = {i}
      BY <2>1, <3>1
    <3>. QED  BY <3>2
  <2>6. n \notin H[l] => I = {}
    BY <2>2, <2>4
  <2>7. Spots(l, n) = {<<"received", i>> : i \in I}
    BY <2>3
  <2> HIDE DEF H, I
  <2>8. ASSUME n \in H[l] PROVE \E x : Spots(l, n) = {x}
    <3>1. PICK i : I = {i}
      BY <2>5, <2>8
    <3>2. Spots(l, n) = {<<"received", i>>}
      BY <2>7, <3>1
    <3>. QED  BY <3>2
  <2>9. n \notin H[l] => Spots(l, n) = {}
    BY <2>6, <2>7
  <2>. QED  BY <2>8, <2>9 DEF H
<1>6. CASE l = Nowhere
  <2>1. H[l] = lost
    BY <1>6, CargoFacts
  <2>2. Spots(l, n) = {<<"lost">> : x \in {n} \cap lost}
    BY <1>6, SpotsFacts
  <2> HIDE DEF H
  <2>. QED  BY <2>1, <2>2 DEF H
<1>. QED  BY <1>2, <1>3, <1>4, <1>5, <1>6, SiteFacts

LEMMA PlacesSpots ==
    ASSUME NEW n
    PROVE  Places(n) = UNION {Spots(l, n) : l \in Sites}
<1> DEFINE W == UNION {Spots(AtWire(s), n) : s \in Sessions}
           P == UNION {Spots(AtPost(p), n) : p \in Posts}
<1>1. Places(n) = Spots(AtBuffer, n) \cup W \cup P \cup Spots(AtServer, n) \cup Spots(Nowhere, n)
  <2>1. \A s : Spots(AtWire(s), n) = {<<"wire", s, i>> : i \in {j \in DOMAIN box.wire[s] : box.wire[s][j] = n}}
    BY SpotsFacts
  <2>2. \A p : Spots(AtPost(p), n) = {<<"post", p, i>> : i \in {j \in DOMAIN box.post[p].body : box.post[p].body[j] = n}}
    BY SpotsFacts
  <2> DEFINE B  == {<<"buffer", i>> : i \in {j \in DOMAIN box.buffer : box.buffer[j] = n}}
             W2 == UNION {{<<"wire", s, i>> : i \in {j \in DOMAIN box.wire[s] : box.wire[s][j] = n}} : s \in Sessions}
             P2 == UNION {{<<"post", p, i>> : i \in {j \in DOMAIN box.post[p].body : box.post[p].body[j] = n}} : p \in Posts}
             R  == {<<"received", i>> : i \in {j \in DOMAIN received : received[j][2] = n}}
             L  == {<<"lost">> : x \in {n} \cap lost}
  <2>3. W = W2
    BY <2>1
  <2>4. P = P2
    BY <2>2
  <2>5. Spots(AtBuffer, n) = B /\ Spots(AtServer, n) = R /\ Spots(Nowhere, n) = L
    BY SpotsFacts
  <2>6. Places(n) = B \cup W2 \cup P2 \cup R \cup L
    BY DEF Places
  <2> HIDE DEF W, P, B, W2, P2, R, L
  <2>. QED  BY <2>3, <2>4, <2>5, <2>6
<1>2. ASSUME NEW x, NEW l \in Sites, x \in Spots(l, n)
      PROVE  x \in Places(n)
  <2>1. (\A s \in Sessions : Spots(AtWire(s), n) \subseteq W) /\ (\A p \in Posts : Spots(AtPost(p), n) \subseteq P)
    OBVIOUS
  <2> HIDE DEF W, P
  <2>2. CASE l = AtBuffer \/ l = AtServer \/ l = Nowhere
    BY <1>1, <1>2, <2>2
  <2>3. ASSUME NEW s \in Sessions, l = AtWire(s) PROVE x \in Places(n)
    BY <1>1, <1>2, <2>1, <2>3
  <2>4. ASSUME NEW p \in Posts, l = AtPost(p) PROVE x \in Places(n)
    BY <1>1, <1>2, <2>1, <2>4
  <2>. QED  BY <2>2, <2>3, <2>4, SiteFacts
<1>3. ASSUME NEW x \in Places(n) PROVE \E l \in Sites : x \in Spots(l, n)
  <2>1. CASE x \in Spots(AtBuffer, n) \/ x \in Spots(AtServer, n) \/ x \in Spots(Nowhere, n)
    BY <2>1, SiteFacts
  <2>2. CASE x \in W
    BY <2>2, SiteFacts
  <2>3. CASE x \in P
    BY <2>3, SiteFacts
  <2> HIDE DEF W, P
  <2>. QED  BY <1>1, <2>1, <2>2, <2>3
<1>. QED  BY <1>2, <1>3

(* A packet is in the buffer, in one request, read by the server or lost   *)
(* with the request that carried it: never in two of them, nor in none.    *)
THEOREM InOnePlace == Spec => []OnePlace
<1>1. PlaceInv => OnePlace
  <2> SUFFICES ASSUME PlaceInv, NEW n \in DOMAIN what
               PROVE  \E x \in Places(n) : Places(n) = {x}
    BY DEF OnePlace
  <2> DEFINE H == Cargo(box, received, lost)
  <2>1. Single(H, Len(what)) /\ n \in 1..Len(what)
    BY PlaceFacts, ShapeFacts DEF MadeType
  <2>2. PICK l \in Sites : n \in H[l]
    BY <2>1 DEF Single
  <2>3. \A m \in Sites : m # l => n \notin H[m]
    BY <2>1, <2>2 DEF Single
  <2>4. PICK x : Spots(l, n) = {x}
    BY <2>2, OneSpot
  <2>5. \A m \in Sites : m # l => Spots(m, n) = {}
    BY <2>3, OneSpot
  <2>6. Places(n) = {x}
    BY <2>4, <2>5, PlacesSpots
  <2>. QED  BY <2>6
<1>. QED  BY <1>1, PlaceInductive, PTL

-----------------------------------------------------------------------------
(* Every namespace is announced to the server. *)

\* Packet n was given to a request of session s, or read from it.
Sent(o, s, n) ==
    \/ n \in Entries(o.wire[s])
    \/ \E p \in Posts : o.post[p].session = s /\ n \in Entries(o.post[p].body)
    \/ <<s, n>> \in Entries(received)

Bound(o, s, n) == n \in Entries(o.buffer) \/ Sent(o, s, n)

\* What was bound for the current session in box o is so in box r.
Onward(o, r) == \A n : Bound(o, cur, n) => Bound(r, cur, n)

\* The packets q join what was sent to the current session.
Joined(o, r, q) == \A n : Sent(o, cur, n) \/ n \in Entries(q) => Sent(r, cur, n)

LEMMA AnnouncesBound == \A n, s : Announces(n, s) <=> Bound(box, s, n)
BY DEF Announces, Bound, Sent

LEMMA HandedJoined ==
    ASSUME NEW N \in Nat, NEW o, BoxOK(o, N), NEW r, BoxOK(r, N), NEW q \in Seq(1..N),
           CanSend(o), Handed(o, r, q)
    PROVE  Joined(o, r, q)
<1>1. CASE kind[cur] = "websocket"
  <2>1. r.post = o.post /\ r.wire[cur] = o.wire[cur] \o q
    BY <1>1 DEF Handed
  <2>2. o.wire[cur] \in Seq(1..N)
    BY DEF CanSend, BoxOK
  <2>3. Entries(r.wire[cur]) = Entries(o.wire[cur]) \cup Entries(q)
    BY <2>1, <2>2, ConcatEntries
  <2>. QED  BY <2>1, <2>3 DEF Joined, Sent
<1>2. CASE kind[cur] # "websocket"
  <2>1. PICK new \in FreePosts(o) :
           /\ r.wire = o.wire
           /\ r.post[new] = [state |-> "out", session |-> cur, body |-> q]
           /\ \A p \in Posts \ {new} :
                 r.post[p].session = o.post[p].session /\ r.post[p].body = o.post[p].body
    BY <1>2 DEF Handed, PostedTo
  <2>2. /\ new \in Posts /\ r.post[new].session = cur /\ r.post[new].body = q
        /\ o.post[new].body = <<>>
    BY <2>1 DEF FreePosts, BoxOK, NoPost
  <2>3. \A n \in Entries(o.post[new].body) : FALSE
    BY <2>2 DEF Entries
  <2>4. ASSUME NEW n, Sent(o, cur, n) PROVE Sent(r, cur, n)
    BY <2>1, <2>3, <2>4 DEF Sent
  <2>5. ASSUME NEW n \in Entries(q) PROVE Sent(r, cur, n)
    BY <2>2 DEF Sent
  <2>. QED  BY <2>4, <2>5 DEF Joined
<1>. QED  BY <1>1, <1>2

LEMMA SetBufferOnward ==
    ASSUME NEW N \in Nat, NEW o, BoxOK(o, N), NEW c \in BOOLEAN, NEW v \in BOOLEAN, c => CanSend(o)
    PROVE  Onward(o, SetBuffer(o, c, v))
<1> DEFINE r == SetBuffer(o, c, v)
<1> HIDE DEF r
<1>1. CASE r.buffer = o.buffer /\ SameBut(o, r)
  <2>1. Onward(o, r)  BY <1>1 DEF Onward, Bound, Sent, SameBut
  <2>. QED  BY <2>1 DEF r
<1>2. CASE c /\ AllHanded(o, r, N)
  <2>1. PICK m, w : /\ BoxOK(m, N) /\ m.buffer = o.buffer /\ SameBut(o, m)
                    /\ BoxOK(w, N) /\ Handed(m, w, o.buffer) /\ SameBut(w, r)
    BY <1>2 DEF AllHanded
  <2>2. CanSend(m) /\ o.buffer \in Seq(1..N)
    BY <1>2, <2>1 DEF CanSend, FreePosts, SameBut, BoxOK
  <2>3. Joined(m, w, o.buffer)
    BY <2>1, <2>2, HandedJoined
  <2>4. \A n : Sent(o, cur, n) <=> Sent(m, cur, n)
    BY <2>1 DEF Sent, SameBut
  <2>5. \A n : Sent(w, cur, n) <=> Sent(r, cur, n)
    BY <2>1 DEF Sent, SameBut
  <2>6. Onward(o, r)
    BY <2>3, <2>4, <2>5 DEF Onward, Bound, Joined
  <2>. QED  BY <2>6 DEF r
<1>3. (r.buffer = o.buffer /\ SameBut(o, r)) \/ (c /\ AllHanded(o, r, N))
  BY SetBufferShape DEF r
<1>. QED  BY <1>1, <1>2, <1>3

LEMMA GivenOnward ==
    ASSUME NEW N \in Nat, NEW o, BoxOK(o, N), NEW c \in BOOLEAN, NEW q \in Seq(1..N),
           c /\ ~o.doBuffer => CanSend(o)
    PROVE  /\ Onward(o, Given(o, c, q))
           /\ \A n \in Entries(q) : Bound(Given(o, c, q), cur, n)
<1> DEFINE r == Given(o, c, q)
<1> HIDE DEF r
<1>0. o.buffer \in Seq(1..N)
  BY DEF BoxOK
<1>1. CASE r.buffer = o.buffer \o q /\ SameBut(o, r)
  <2>1. Entries(r.buffer) = Entries(o.buffer) \cup Entries(q)
    BY <1>0, <1>1, ConcatEntries
  <2>2. \A n : Sent(o, cur, n) <=> Sent(r, cur, n)
    BY <1>1 DEF Sent, SameBut
  <2>. QED  BY <2>1, <2>2 DEF Onward, Bound, r
<1>2. CASE CanSend(o) /\ Handed(o, r, q) /\ BoxOK(r, N)
  <2>1. Joined(o, r, q) /\ r.buffer = o.buffer
    BY <1>2, HandedJoined DEF Handed
  <2>. QED  BY <2>1 DEF Onward, Bound, Joined, r
<1>3. CASE CanSend(o) /\ q # <<>> /\ FirstHanded(o, r, q, N)
  <2>1. PICK w : /\ BoxOK(w, N) /\ Handed(o, w, <<Head(q)>>)
                 /\ r.buffer = o.buffer \o Tail(q) /\ SameBut(w, r)
    BY <1>3 DEF FirstHanded
  <2>2. <<Head(q)>> \in Seq(1..N) /\ Tail(q) \in Seq(1..N) /\ Head(q) \in 1..N
    BY <1>3, HeadTailFacts
  <2>3. Joined(o, w, <<Head(q)>>)
    BY <1>3, <2>1, <2>2, HandedJoined
  <2>4. Entries(<<Head(q)>>) = {Head(q)} /\ Entries(q) = Entries(Tail(q)) \cup {Head(q)}
    BY <1>3, <2>2, SingleFacts, TailEntries
  <2>5. Entries(r.buffer) = Entries(o.buffer) \cup Entries(Tail(q))
    BY <1>0, <2>1, <2>2, ConcatEntries
  <2>6. \A n : Sent(w, cur, n) <=> Sent(r, cur, n)
    BY <2>1 DEF Sent, SameBut
  <2>. QED  BY <2>3, <2>4, <2>5, <2>6 DEF Onward, Bound, Joined, r
<1>. QED  BY <1>1, <1>2, <1>3, GivenShape DEF r

\* The end of p says nothing of a packet that is bound for the current session.
LEMMA DoneOnward ==
    ASSUME OrderInv, NEW p \in Posts, box.post[p].body = <<>> \/ box.post[p].session # cur
    PROVE  Onward(box, Done(p))
<1>1. /\ Done(p).buffer = box.buffer /\ Done(p).wire = box.wire
      /\ \A q \in Posts \ {p} : Done(p).post[q] = box.post[q]
  BY DoneShape, OrderFacts
<1>2. \A n \in Entries(<<>>) : FALSE
  BY DEF Entries
<1>. QED  BY <1>1, <1>2 DEF Onward, Bound, Sent

-----------------------------------------------------------------------------
(* A POST whose end will not be told is one of a session in S. *)

Silenced(o, S) == \A p \in Posts : o.post[p].state = "silent" => o.post[p].session \in S

LEMMA HandedSilenced ==
    ASSUME NEW o, NEW r, NEW q, NEW S, Handed(o, r, q), Quiet(o, S), Silenced(o, S)
    PROVE  Silenced(r, S)
<1>1. CASE r.post = o.post
  BY <1>1 DEF Silenced
<1>2. CASE PostedTo(o, r, cur, q)
  <2>1. PICK new \in FreePosts(o) :
           /\ r.post[new] = [state |-> "out", session |-> cur, body |-> q]
           /\ \A p \in Posts \ {new} :
                /\ r.post[p].session = o.post[p].session
                /\ \/ r.post[p].state = o.post[p].state
                   \/ r.post[p].state = "silent" /\ o.post[p].state = "out" /\ o.post[p].session = cur
    BY <1>2 DEF PostedTo
  <2>2. ASSUME NEW p \in Posts, r.post[p].state = "silent" PROVE r.post[p].session \in S
    <3>1. p # new  BY <2>1, <2>2
    <3>2. CASE r.post[p].state = o.post[p].state
      BY <2>1, <2>2, <3>1, <3>2 DEF Silenced
    <3>3. CASE o.post[p].state = "out" /\ o.post[p].session = cur
      BY <2>1, <3>1, <3>3 DEF Quiet
    <3>. QED  BY <2>1, <3>1, <3>2, <3>3
  <2>. QED  BY <2>2 DEF Silenced
<1>. QED  BY <1>1, <1>2 DEF Handed

LEMMA SetBufferSilenced ==
    ASSUME NEW N \in Nat, NEW o, BoxOK(o, N), NEW c \in BOOLEAN, NEW v \in BOOLEAN, NEW S,
           c => CanSend(o), ~v => Quiet(o, S), Silenced(o, S)
    PROVE  Silenced(SetBuffer(o, c, v), S)
<1> DEFINE r == SetBuffer(o, c, v)
<1> HIDE DEF r
<1>1. CASE SameBut(o, r)
  <2>1. Silenced(r, S)  BY <1>1 DEF SameBut, Silenced
  <2>. QED  BY <2>1 DEF r
<1>2. CASE ~v /\ AllHanded(o, r, N)
  <2>1. PICK m, w : SameBut(o, m) /\ Handed(m, w, o.buffer) /\ SameBut(w, r)
    BY <1>2 DEF AllHanded
  <2>2. Quiet(m, S) /\ Silenced(m, S)
    BY <1>2, <2>1 DEF SameBut, Quiet, Silenced
  <2>3. Silenced(w, S)
    BY <2>1, <2>2, HandedSilenced
  <2>4. Silenced(r, S)
    BY <2>1, <2>3 DEF SameBut, Silenced
  <2>. QED  BY <2>4 DEF r
<1>. QED  BY <1>1, <1>2, SetBufferShape DEF r

LEMMA GivenSilenced ==
    ASSUME NEW N \in Nat, NEW o, BoxOK(o, N), NEW c \in BOOLEAN, NEW q \in Seq(1..N), NEW S,
           c /\ ~o.doBuffer => CanSend(o), Calm(o, S), Silenced(o, S)
    PROVE  Silenced(Given(o, c, q), S)
<1> DEFINE r == Given(o, c, q)
<1> HIDE DEF r
<1>1. CASE SameBut(o, r)
  <2>1. Silenced(r, S)  BY <1>1 DEF SameBut, Silenced
  <2>. QED  BY <2>1 DEF r
<1>2. CASE ~o.doBuffer /\ Handed(o, r, q)
  <2>1. Silenced(r, S)  BY <1>2, HandedSilenced DEF Calm
  <2>. QED  BY <2>1 DEF r
<1>3. CASE ~o.doBuffer /\ FirstHanded(o, r, q, N)
  <2>1. PICK w : Handed(o, w, <<Head(q)>>) /\ SameBut(w, r)
    BY <1>3 DEF FirstHanded
  <2>2. Silenced(w, S)
    BY <1>3, <2>1, HandedSilenced DEF Calm
  <2>3. Silenced(r, S)
    BY <2>1, <2>2 DEF SameBut, Silenced
  <2>. QED  BY <2>3 DEF r
<1>. QED  BY <1>1, <1>2, <1>3, GivenShape DEF r

LEMMA DoneSilenced ==
    ASSUME OrderInv, NEW p \in Posts, NEW S, Silenced(box, S)
    PROVE  Silenced(Done(p), S)
<1>1. /\ Done(p).post[p] = NoPost /\ \A q \in Posts \ {p} : Done(p).post[q] = box.post[q]
  BY DoneShape, OrderFacts
<1>. QED  BY <1>1 DEF Silenced, NoPost

-----------------------------------------------------------------------------

\* Packet n connects namespace x.
Connects(n, x) == what[n] = [type |-> "connect", name |-> x]

\* Before a first connection, and after one that was given up, the connect
\* packets of the namespaces that were not dismissed are in the buffer.
Promised ==
    ~connected /\ ~reconnecting =>
        \A x \in Entries(namespaces) \ dismissed : \E n \in Entries(box.buffer) : Connects(n, x)

\* While connected they are bound for the current session.
Introduced ==
    connected /\ cur \notin failing \cup spoiled =>
        \A x \in Entries(namespaces) \ dismissed :
            \E n \in 1..Len(what) : Connects(n, x) /\ Bound(box, cur, n)

AnnounceInv ==
    /\ OrderInv
    /\ Silenced(box, spoiled)
    /\ Promised
    /\ Introduced

LEMMA AnnounceFacts ==
    ASSUME AnnounceInv
    PROVE  /\ OrderInv /\ ShapeInv /\ TypeOK /\ ConnType /\ MadeType /\ ServerType /\ Opened /\ Placed(box)
           /\ Len(what) \in Nat /\ BoxOK(box, Len(what)) /\ Calm(box, spoiled) /\ Flushed(box, connected)
           /\ Silenced(box, spoiled) /\ Promised /\ Introduced
           /\ Entries(box.buffer) \subseteq 1..Len(what)
<1>1. OrderInv /\ Silenced(box, spoiled) /\ Promised /\ Introduced
  BY DEF AnnounceInv
<1>2. BoxOK(box, Len(what))
  BY <1>1, OrderFacts
<1>3. Entries(box.buffer) \subseteq 1..Len(what)
  BY <1>2, EntriesFacts DEF BoxOK
<1>. QED  BY <1>1, <1>3, OrderFacts

\* Made packets stay what they are.
Kept == Len(what) \in Nat /\ Len(what') \in Nat /\ Len(what) <= Len(what') /\ \A n \in 1..Len(what) : what'[n] = what[n]

\* What is bound for the current session remains so.
Remains == \A n : Bound(box, cur, n) => Bound(box, cur, n)'

LEMMA OnwardRemains ==
    ASSUME received' = received, cur' = cur, Onward(box, box')
    PROVE  Remains
<1>1. \A n : Bound(box', cur, n) => Bound(box, cur, n)'
  BY DEF Bound, Sent
<1>. QED  BY <1>1 DEF Onward, Remains

\* An action after which the socket is not connected.
GivenUp ==
    ~reconnecting' =>
        ~reconnecting /\ dismissed' = IF connected THEN Entries(namespaces) ELSE dismissed

LEMMA UnconnectedStep ==
    ASSUME AnnounceInv, [Next]_vars, connected' = FALSE, Silenced(box', spoiled'), GivenUp,
           namespaces' = namespaces, Kept, Entries(box.buffer) \subseteq Entries(box'.buffer)
    PROVE  AnnounceInv'
<1>. OrderInv /\ Promised /\ Entries(box.buffer) \subseteq 1..Len(what)
  BY AnnounceFacts
<1>1. OrderInv' /\ Silenced(box, spoiled)'
  BY OrderNext DEF Silenced
<1>2. Introduced'
  BY DEF Introduced
<1>3. Promised'
  <2> SUFFICES ASSUME ~reconnecting', NEW x \in Entries(namespaces) \ dismissed'
               PROVE  \E n \in Entries(box'.buffer) : Connects(n, x)'
    BY DEF Promised
  <2>1. ~reconnecting /\ ~connected /\ dismissed' = dismissed
    BY DEF GivenUp
  <2>2. PICK n \in Entries(box.buffer) : Connects(n, x)
    BY <2>1 DEF Promised
  <2>. QED  BY <2>2 DEF Connects, Kept
<1>. QED  BY <1>1, <1>2, <1>3 DEF AnnounceInv

\* An action that leaves the connection as it is.
Unmoved ==
    /\ connected' = connected /\ reconnecting' = reconnecting /\ cur' = cur
    /\ dismissed' = dismissed /\ failing \subseteq failing' /\ spoiled \subseteq spoiled'

LEMMA UnmovedStep ==
    ASSUME AnnounceInv, [Next]_vars, Unmoved, namespaces' = namespaces, Kept,
           Silenced(box', spoiled'),
           ~connected => Entries(box.buffer) \subseteq Entries(box'.buffer),
           connected /\ cur \notin failing \cup spoiled => Remains
    PROVE  AnnounceInv'
<1>. OrderInv /\ Promised /\ Introduced /\ Entries(box.buffer) \subseteq 1..Len(what)
  BY AnnounceFacts
<1>1. OrderInv' /\ Silenced(box, spoiled)'
  BY OrderNext DEF Silenced
<1>2. Introduced'
  <2> SUFFICES ASSUME connected', cur' \notin failing' \cup spoiled',
                      NEW x \in Entries(namespaces) \ dismissed
               PROVE  \E n \in 1..Len(what') : Connects(n, x)' /\ Bound(box, cur, n)'
    BY DEF Introduced, Unmoved
  <2>1. connected /\ cur \notin failing \cup spoiled
    BY DEF Unmoved
  <2>2. PICK n \in 1..Len(what) : Connects(n, x) /\ Bound(box, cur, n)
    BY <2>1 DEF Introduced
  <2>3. n \in 1..Len(what') /\ Connects(n, x)'
    BY <2>2 DEF Kept, Connects
  <2>. QED  BY <2>1, <2>2, <2>3 DEF Remains
<1>3. Promised'
  BY DEF Promised, Connects, Kept, Unmoved
<1>. QED  BY <1>1, <1>2, <1>3 DEF AnnounceInv

LEMMA OpenAnnounce ==
    ASSUME AnnounceInv, NEW k \in Kinds, Open(k), [Next]_vars
    PROVE  AnnounceInv'
<1>. ConnType /\ BoxOK(box, Len(what)) /\ Len(what) \in Nat /\ Silenced(box, spoiled)  BY AnnounceFacts
<1>1. /\ connected' = FALSE /\ ~connected /\ reconnecting' = reconnecting /\ dismissed' = dismissed
      /\ namespaces' = namespaces /\ what' = what /\ spoiled' = spoiled
      /\ box' = box \/ box' = [box EXCEPT !.doBuffer = FALSE]
  BY DEF Open, made, ConnType
<1>2. box'.buffer = box.buffer /\ box'.post = box.post
  BY <1>1 DEF BoxOK
<1>3. Silenced(box', spoiled') /\ Kept /\ GivenUp
  BY <1>1, <1>2 DEF Silenced, Kept, GivenUp
<1>. QED  BY <1>1, <1>2, <1>3, UnconnectedStep

LEMMA WebSocketOpensAnnounce ==
    ASSUME AnnounceInv, WebSocketOpens, [Next]_vars
    PROVE  AnnounceInv'
<1>. /\ ConnType /\ ShapeInv /\ BoxOK(box, Len(what)) /\ Len(what) \in Nat /\ Silenced(box, spoiled)
  BY AnnounceFacts
<1>1. connected = FALSE
  BY ShapeFacts DEF WebSocketOpens, ConnType
<1>2. /\ box' = SetBuffer(box, FALSE, FALSE) /\ connected' = FALSE /\ reconnecting' = reconnecting
      /\ dismissed' = dismissed /\ namespaces' = namespaces /\ what' = what /\ spoiled' = spoiled
  BY <1>1 DEF WebSocketOpens, made
<1>3. SetBuffer(box, FALSE, FALSE) = [box EXCEPT !.doBuffer = FALSE]
  BY DEF SetBuffer
<1>4. box'.buffer = box.buffer /\ box'.post = box.post
  BY <1>2, <1>3 DEF BoxOK
<1>5. Silenced(box', spoiled') /\ Kept /\ GivenUp
  <2>1. Silenced(box', spoiled')  BY <1>2, <1>4 DEF Silenced
  <2>2. Kept  BY <1>2 DEF Kept
  <2>3. GivenUp  BY <1>1, <1>2 DEF GivenUp
  <2>. QED  BY <2>1, <2>2, <2>3
<1>. QED  BY <1>2, <1>4, <1>5, UnconnectedStep

LEMMA GivenUpFacts ==
    ASSUME AnnounceInv, NEW reason, OnDisconnect(reason)
    PROVE  connected' = FALSE /\ GivenUp
<1>. ConnType  BY AnnounceFacts
<1>1. /\ connected' = FALSE /\ reconnecting' = (reconnecting \/ (connected /\ reason # "booted"))
      /\ dismissed' = IF connected /\ ~reconnecting' THEN Entries(namespaces) ELSE dismissed
  BY DEF OnDisconnect
<1>. QED  BY <1>1 DEF GivenUp

LEMMA EndsAnnounce ==
    ASSUME AnnounceInv, NEW reason, Ends(reason), [Next]_vars
    PROVE  AnnounceInv'
<1>. Len(what) \in Nat /\ Silenced(box, spoiled)  BY AnnounceFacts
<1>1. /\ OnDisconnect(reason) /\ box' = box /\ what' = what /\ namespaces' = namespaces
      /\ spoiled' = spoiled
  BY DEF Ends, made
<1>2. Kept  BY <1>1 DEF Kept
<1>. QED  BY <1>1, <1>2, GivenUpFacts, UnconnectedStep

LEMMA WebSocketClosesAnnounce ==
    ASSUME AnnounceInv, NEW s \in Sessions, WebSocketCloses(s), [Next]_vars
    PROVE  AnnounceInv'
<1>. ConnType /\ BoxOK(box, Len(what)) /\ Len(what) \in Nat /\ Silenced(box, spoiled)  BY AnnounceFacts
<1> DEFINE m == [box EXCEPT !.doBuffer = TRUE]
           X == [m EXCEPT !.wire[s] = <<>>]
<1>1. /\ box' = X /\ connected' = FALSE /\ reconnecting' = (reconnecting \/ connected)
      /\ dismissed' = dismissed /\ namespaces' = namespaces /\ what' = what /\ spoiled' = spoiled
  <2>1. SetBuffer(box, FALSE, TRUE) = m
    BY DEF SetBuffer
  <2> HIDE DEF m
  <2>. QED  BY <2>1 DEF WebSocketCloses, made
<1>2. m.post = box.post /\ m.buffer = box.buffer /\ BoxOK(m, Len(what))
  BY DEF BoxOK
<1> HIDE DEF m
<1>3. X.post = box.post /\ X.buffer = box.buffer
  BY <1>2 DEF BoxOK
<1> HIDE DEF X
<1>4. Silenced(box', spoiled') /\ Kept /\ GivenUp
  <2>1. Silenced(box', spoiled')  BY <1>1, <1>3 DEF Silenced
  <2>2. Kept  BY <1>1 DEF Kept
  <2>3. GivenUp  BY <1>1 DEF GivenUp, ConnType
  <2>. QED  BY <2>1, <2>2, <2>3
<1>. QED  BY <1>1, <1>3, <1>4, UnconnectedStep

LEMMA FailAnnounce ==
    ASSUME AnnounceInv, NEW s \in Sessions, Fail(s), [Next]_vars
    PROVE  AnnounceInv'
<1>. Len(what) \in Nat /\ Silenced(box, spoiled)  BY AnnounceFacts
<1>1. /\ box' = box /\ what' = what /\ namespaces' = namespaces /\ received' = received
      /\ spoiled' = spoiled /\ Unmoved
  BY DEF Fail, flags, conns, made, Unmoved
<1>2. Kept /\ Remains
  BY <1>1 DEF Kept, Remains, Bound, Sent, Unmoved
<1>. QED  BY <1>1, <1>2, UnmovedStep

LEMMA HeartbeatAnnounce ==
    ASSUME AnnounceInv, NEW s \in Sessions, Heartbeat(s), [Next]_vars
    PROVE  AnnounceInv'
<1>. BoxOK(box, Len(what)) /\ Len(what) \in Nat /\ Silenced(box, spoiled)  BY AnnounceFacts
<1> DEFINE X == Posted(box, s, <<>>)
<1>1. /\ box' = X /\ what' = what /\ namespaces' = namespaces /\ received' = received
      /\ Unmoved /\ FreePosts(box) # {}
      /\ spoiled' = spoiled \cup {box'.post[p].session : p \in {x \in Posts : box'.post[x].state = "silent"}}
  BY DEF Heartbeat, flags, conns, made, Unmoved
<1>2. PostedTo(box, X, s, <<>>)
  <2>1. <<>> \in Seq(1..Len(what))
    OBVIOUS
  <2>. QED  BY <1>1, <2>1, PostedShape
<1> HIDE DEF X
<1>3. PICK new \in FreePosts(box) :
          \A p \in Posts \ {new} : X.post[p].session = box.post[p].session /\ X.post[p].body = box.post[p].body
  BY <1>2 DEF PostedTo
<1>4. X.buffer = box.buffer /\ X.wire = box.wire
  BY <1>2 DEF PostedTo
<1>5. \A n \in Entries(box.post[new].body) : FALSE
  <2>1. box.post[new].body = <<>>
    BY <1>3 DEF FreePosts, BoxOK, NoPost
  <2>. QED  BY <2>1 DEF Entries
<1>6. Onward(box, X)
  BY <1>3, <1>4, <1>5 DEF Onward, Bound, Sent
<1>7. Remains
  BY <1>1, <1>6, OnwardRemains DEF Unmoved
<1>8. Silenced(box', spoiled') /\ Kept
  BY <1>1 DEF Silenced, Kept
<1>. QED  BY <1>1, <1>4, <1>7, <1>8, UnmovedStep

LEMMA RenewalFacts ==
    ASSUME MadeType, reconnecting, NEW x \in Entries(namespaces)
    PROVE  \E i \in 1..Len(Renewals) : Renewals[i] = [type |-> "connect", name |-> x]
<1>1. PICK i \in DOMAIN namespaces : x = namespaces[i]
  BY DEF Entries
<1>2. Renewals = [j \in 1..Len(namespaces) |-> [type |-> "connect", name |-> namespaces[j]]]
      /\ Len(namespaces) \in Nat /\ i \in 1..Len(namespaces)
  BY DEF Renewals, MadeType
<1>3. Len(Renewals) = Len(namespaces)
  BY <1>2, RenewalsType
<1>. QED  BY <1>1, <1>2, <1>3

LEMMA OnConnectAnnounce ==
    ASSUME AnnounceInv, OnConnect, [Next]_vars
    PROVE  AnnounceInv'
<1>. /\ OrderInv /\ ConnType /\ MadeType /\ TypeOK /\ ShapeInv /\ BoxOK(box, Len(what)) /\ Len(what) \in Nat
     /\ Silenced(box, spoiled) /\ Calm(box, spoiled) /\ Promised /\ Entries(box.buffer) \subseteq 1..Len(what)
  BY AnnounceFacts
<1> DEFINE N == Len(what')
           q == Numbers(Renewals)
           X == Given(Reopened, TRUE, q)
<1>1. /\ Connecting /\ link[cur] = "open" /\ Room(box) /\ Make(Renewals) /\ box' = X /\ connected' = TRUE
      /\ received' = received /\ spoiled' = spoiled /\ cur' = cur /\ namespaces' = namespaces
      /\ dismissed' = IF reconnecting THEN {} ELSE dismissed
  BY DEF OnConnect, conns, Reopened
<1>2. Renewals \in Seq(PacketType)
  BY RenewalsType
<1>3. /\ N \in Nat /\ q \in Seq(1..N) /\ BoxOK(box, N) /\ Entries(q) = (Len(what) + 1)..N
      /\ N = Len(what) + Len(Renewals) /\ Len(Renewals) \in Nat
      /\ \A i \in 1..Len(what) : what'[i] = what[i]
      /\ \A i \in 1..Len(Renewals) : what'[Len(what) + i] = Renewals[i]
  BY <1>1, <1>2, MakeFacts
<1> HIDE DEF N, q
<1>4. BoxOK(Reopened, N) /\ (~Reopened.doBuffer => CanSend(Reopened))
  BY <1>1, <1>3, ReopenedFacts
<1>5. CanSend(box)
  BY <1>1, ShapeFacts DEF CanSend, Room, Connecting
<1>6. Onward(box, Reopened) /\ Silenced(Reopened, spoiled) /\ Calm(Reopened, spoiled)
  <2>1. CASE box.doBuffer
    BY <2>1 DEF Reopened, Onward
  <2>2. CASE ~box.doBuffer
    <3>1. Reopened = SetBuffer(box, TRUE, FALSE) /\ Quiet(box, spoiled)
      BY <2>2 DEF Reopened, Calm
    <3>2. Onward(box, Reopened)
      BY <1>5, <3>1, SetBufferOnward
    <3>3. Silenced(Reopened, spoiled)
      BY <1>5, <3>1, SetBufferSilenced
    <3>. QED  BY <1>1, <3>2, <3>3, ReopenedOrder
  <2>. QED  BY <2>1, <2>2
<1>7. /\ Onward(Reopened, X) /\ Silenced(X, spoiled)
      /\ \A n \in Entries(q) : Bound(X, cur, n)
  BY <1>3, <1>4, <1>6, GivenOnward, GivenSilenced
<1>8. Silenced(box, spoiled)' /\ Promised'
  BY <1>1, <1>7 DEF Silenced, Promised
<1> HIDE DEF X
<1>9. \A n : Bound(X, cur, n) => Bound(box, cur, n)'
  BY <1>1 DEF Bound, Sent
<1>10. ASSUME NEW x \in Entries(namespaces) \ dismissed'
       PROVE  \E n \in 1..N : Connects(n, x)' /\ Bound(box, cur, n)'
  <2>1. CASE reconnecting
    <3>1. PICK i \in 1..Len(Renewals) : Renewals[i] = [type |-> "connect", name |-> x]
      BY <2>1, RenewalFacts
    <3>2. PICK n \in 1..N : n = Len(what) + i /\ n \in Entries(q)
      <4>1. Len(what) + i \in 1..N /\ Len(what) + i \in (Len(what) + 1)..N
        BY <1>3
      <4>2. Len(what) + i \in Entries(q)
        BY <1>3, <4>1
      <4>. QED  BY <4>1, <4>2
    <3>3. Connects(n, x)'
      BY <1>3, <3>1, <3>2 DEF Connects
    <3>. QED  BY <1>7, <1>9, <3>2, <3>3
  <2>2. CASE ~reconnecting
    <3>1. ~connected /\ x \notin dismissed
      BY <1>1, <1>10, <2>2 DEF Connecting
    <3>2. PICK n \in Entries(box.buffer) : Connects(n, x)
      BY <2>2, <3>1 DEF Promised
    <3>3. n \in 1..Len(what) /\ n \in 1..N
      BY <1>3
    <3>4. Connects(n, x)'
      BY <1>3, <3>2, <3>3 DEF Connects
    <3>5. Bound(X, cur, n)
      BY <1>6, <1>7 DEF Onward, Bound
    <3>. QED  BY <1>9, <3>3, <3>4, <3>5
  <2>. QED  BY <2>1, <2>2
<1>11. Introduced'
  BY <1>1, <1>10 DEF Introduced, N
<1>12. OrderInv'
  BY OrderNext
<1>. QED  BY <1>8, <1>11, <1>12 DEF AnnounceInv

LEMMA FrameArrivesAnnounce ==
    ASSUME AnnounceInv, NEW s \in Sessions, FrameArrives(s), [Next]_vars
    PROVE  AnnounceInv'
<1>. /\ ShapeInv /\ ServerType /\ BoxOK(box, Len(what)) /\ Len(what) \in Nat /\ Silenced(box, spoiled)
  BY AnnounceFacts
<1> DEFINE w == box.wire[s]
           X == [box EXCEPT !.wire[s] = Tail(@)]
<1>1. /\ box' = X /\ what' = what /\ namespaces' = namespaces /\ spoiled' = spoiled /\ Unmoved
      /\ received' = Append(received, <<s, Head(w)>>) /\ w # <<>>
  BY DEF FrameArrives, flags, conns, made, Unmoved
<1>2. w \in Seq(1..Len(what))
  BY DEF BoxOK
<1>3. Head(w) \in 1..Len(what) /\ Entries(w) = Entries(Tail(w)) \cup {Head(w)}
  BY <1>1, <1>2, HeadTailFacts, TailEntries
<1>4. /\ X.post = box.post /\ X.buffer = box.buffer /\ X.wire[s] = Tail(w)
      /\ \A x \in Sessions \ {s} : X.wire[x] = box.wire[x]
  BY DEF BoxOK
<1> HIDE DEF X, w
<1>5. Entries(received') = Entries(received) \cup {<<s, Head(w)>>}
  <2> DEFINE A == Sessions \X (1..Len(what))
             e == <<s, Head(w)>>
  <2>1. e \in A
    BY <1>3
  <2>2. received \in Seq(A) /\ received' = Append(received, e)
    BY <1>1 DEF ServerType
  <2> HIDE DEF A, e
  <2>3. Entries(received') = Entries(received) \cup {e}
    BY <2>1, <2>2, AppendFacts
  <2>. QED  BY <2>3 DEF e
<1>6. connected => Remains
  <2> SUFFICES ASSUME connected, NEW n, Bound(box, cur, n) PROVE Bound(box, cur, n)'
    BY DEF Remains
  <2>1. cur \in Sessions /\ cur' = cur
    BY <1>1, ShapeFacts DEF Unmoved
  <2>2. CASE n \in Entries(box.wire[cur])
    <3>1. CASE cur = s
      BY <1>1, <1>3, <1>4, <1>5, <2>1, <2>2, <3>1 DEF Bound, Sent, w
    <3>2. CASE cur # s
      BY <1>1, <1>4, <2>1, <2>2, <3>2 DEF Bound, Sent
    <3>. QED  BY <3>1, <3>2
  <2>3. CASE n \notin Entries(box.wire[cur])
    BY <1>1, <1>4, <1>5, <2>1, <2>3 DEF Bound, Sent
  <2>. QED  BY <2>2, <2>3
<1>7. Silenced(box', spoiled') /\ Kept
  BY <1>1, <1>4 DEF Silenced, Kept
<1>. QED  BY <1>1, <1>4, <1>6, <1>7, UnmovedStep

LEMMA PostArrivesAnnounce ==
    ASSUME AnnounceInv, NEW p \in Posts, PostArrives(p), [Next]_vars
    PROVE  AnnounceInv'
<1>. /\ ShapeInv /\ ServerType /\ BoxOK(box, Len(what)) /\ Len(what) \in Nat /\ Silenced(box, spoiled)
  BY AnnounceFacts
<1> DEFINE b == box.post[p].body
           s == box.post[p].session
           X == [box EXCEPT !.post[p].body = Tail(@)]
           r == [box.post[p] EXCEPT !.body = Tail(b)]
<1>1. /\ box' = X /\ what' = what /\ namespaces' = namespaces /\ spoiled' = spoiled /\ Unmoved
      /\ received' = Append(received, <<s, Head(b)>>) /\ b # <<>>
  BY DEF PostArrives, flags, conns, made, Unmoved
<1>2. b \in Seq(1..Len(what)) /\ s \in Sessions /\ box.post[p] \in PostRec(Len(what))
  BY <1>1, PostFacts DEF PostRec
<1>3. Head(b) \in 1..Len(what) /\ Entries(b) = Entries(Tail(b)) \cup {Head(b)}
  BY <1>1, <1>2, HeadTailFacts, TailEntries
<1>4. r.state = box.post[p].state /\ r.session = s /\ r.body = Tail(b)
  BY <1>2 DEF PostRec
<1>5. X = [box EXCEPT !.post[p] = r]
  OBVIOUS
<1> HIDE DEF r, X
<1>6. /\ X.buffer = box.buffer /\ X.wire = box.wire
      /\ X.post[p] = r /\ \A y \in Posts \ {p} : X.post[y] = box.post[y]
  BY <1>5 DEF BoxOK
<1>7. Entries(received') = Entries(received) \cup {<<s, Head(b)>>}
  <2> DEFINE A == Sessions \X (1..Len(what))
             e == <<s, Head(b)>>
  <2>1. e \in A
    BY <1>2, <1>3
  <2>2. received \in Seq(A) /\ received' = Append(received, e)
    BY <1>1 DEF ServerType
  <2> HIDE DEF A, e
  <2>3. Entries(received') = Entries(received) \cup {e}
    BY <2>1, <2>2, AppendFacts
  <2>. QED  BY <2>3 DEF e
<1>8. Remains
  <2> SUFFICES ASSUME NEW n, Bound(box, cur, n) PROVE Bound(box, cur, n)'
    BY DEF Remains
  <2>1. cur' = cur
    BY <1>1 DEF Unmoved
  <2>2. CASE s = cur /\ n \in Entries(b)
    <3>1. CASE n = Head(b)
      BY <1>7, <2>1, <2>2, <3>1 DEF Bound, Sent
    <3>2. CASE n \in Entries(Tail(b))
      BY <1>1, <1>4, <1>6, <2>1, <2>2, <3>2 DEF Bound, Sent
    <3>. QED  BY <1>3, <2>2, <3>1, <3>2
  <2>3. CASE ~(s = cur /\ n \in Entries(b))
    BY <1>1, <1>6, <1>7, <2>1, <2>3 DEF Bound, Sent
  <2>. QED  BY <2>2, <2>3
<1>9. Silenced(box', spoiled')
  <2>1. \A y \in Posts : X.post[y].state = box.post[y].state /\ X.post[y].session = box.post[y].session
    BY <1>4, <1>6
  <2>. QED  BY <1>1, <2>1 DEF Silenced
<1>10. Kept
  BY <1>1 DEF Kept
<1>. QED  BY <1>1, <1>6, <1>8, <1>9, <1>10, UnmovedStep

\* No packet to the current session is lost with p, or it may be.
Harmless(p) == box.post[p].body = <<>> \/ box.post[p].session # cur \/ cur \in failing \cup spoiled

LEMMA DoneAnnounce ==
    ASSUME AnnounceInv, [Next]_vars, NEW p \in Posts, box' = Done(p), Harmless(p), Unmoved,
           what' = what, namespaces' = namespaces, received' = received
    PROVE  AnnounceInv'
<1>. OrderInv /\ BoxOK(box, Len(what)) /\ Len(what) \in Nat /\ Silenced(box, spoiled)
  BY AnnounceFacts
<1>1. Silenced(box', spoiled') /\ Kept
  <2>1. Silenced(box, spoiled')  BY DEF Silenced, Unmoved
  <2>. QED  BY <2>1, DoneSilenced DEF Kept
<1>2. cur \notin failing \cup spoiled => Remains
  BY DoneOnward, OnwardRemains DEF Harmless, Unmoved
<1>3. box'.buffer = box.buffer
  BY DoneShape
<1>. QED  BY <1>1, <1>2, <1>3, UnmovedStep

LEMMA ReleasedAnnounce ==
    ASSUME AnnounceInv, [Next]_vars, NEW p \in Posts, Released(p), Harmless(p), Unmoved,
           what' = what, namespaces' = namespaces, received' = received
    PROVE  AnnounceInv'
<1>. /\ OrderInv /\ ShapeInv /\ ConnType /\ BoxOK(box, Len(what)) /\ Len(what) \in Nat
     /\ Silenced(box, spoiled)
  BY AnnounceFacts
<1> DEFINE o == Done(p)
           X == SetBuffer(o, connected, FALSE)
<1>1. /\ box' = X
      /\ spoiled' = spoiled \cup {box.post[q].session : q \in {x \in Posts \ {p} : box.post[x].state # "free"}}
  BY DEF Released
<1>2. BoxOK(o, Len(what)) /\ (connected => CanSend(o)) /\ connected \in BOOLEAN
  BY DonePlaced DEF ConnType
<1>3. Quiet(o, spoiled')
  <2>1. o.post[p] = NoPost /\ \A q \in Posts \ {p} : o.post[q] = box.post[q]
    BY DoneShape
  <2>. QED  BY <1>1, <2>1 DEF Quiet, NoPost
<1>4. Silenced(o, spoiled')
  <2>1. Silenced(box, spoiled')  BY DEF Silenced, Unmoved
  <2>. QED  BY <2>1, DoneSilenced
<1>5. o.buffer = box.buffer
  BY DoneShape
<1>6. cur \notin failing \cup spoiled => Onward(box, o)
  BY DoneOnward DEF Harmless
<1> HIDE DEF o
<1>7. Silenced(X, spoiled') /\ Onward(o, X)
  BY <1>2, <1>3, <1>4, SetBufferSilenced, SetBufferOnward
<1>8. ~connected => X.buffer = box.buffer
  <2>1. ~connected => X = [o EXCEPT !.doBuffer = FALSE]
    BY DEF SetBuffer
  <2>. QED  BY <1>2, <1>5, <2>1 DEF BoxOK
<1> HIDE DEF X
<1>9. cur \notin failing \cup spoiled => Remains
  <2>1. cur \notin failing \cup spoiled => Onward(box, X)
    BY <1>6, <1>7 DEF Onward
  <2>. QED  BY <1>1, <2>1, OnwardRemains DEF Unmoved
<1>10. Kept
  BY DEF Kept
<1>. QED  BY <1>1, <1>7, <1>8, <1>9, <1>10, UnmovedStep

LEMMA PostAnsweredAnnounce ==
    ASSUME AnnounceInv, NEW p \in Posts, PostAnswered(p), [Next]_vars
    PROVE  AnnounceInv'
<1>1. /\ what' = what /\ namespaces' = namespaces /\ received' = received /\ Harmless(p)
      /\ connected' = connected /\ reconnecting' = reconnecting /\ cur' = cur
      /\ dismissed' = dismissed /\ failing' = failing
  BY DEF PostAnswered, flags, conns, made, Harmless
<1>2. CASE Released(p)
  <2>1. Unmoved  BY <1>1, <1>2 DEF Released, Unmoved
  <2>. QED  BY <1>1, <1>2, <2>1, ReleasedAnnounce
<1>3. CASE box' = Done(p) /\ spoiled' = spoiled
  <2>1. Unmoved  BY <1>1, <1>3 DEF Unmoved
  <2>. QED  BY <1>1, <1>3, <2>1, DoneAnnounce
<1>. QED  BY <1>2, <1>3 DEF PostAnswered

LEMMA PostFailsAnnounce ==
    ASSUME AnnounceInv, NEW p \in Posts, PostFails(p), [Next]_vars
    PROVE  AnnounceInv'
<1>. /\ OrderInv /\ BoxOK(box, Len(what)) /\ Len(what) \in Nat /\ Silenced(box, spoiled)
  BY AnnounceFacts
<1>1. what' = what /\ namespaces' = namespaces /\ received' = received /\ failing' = failing
  BY DEF PostFails, made
<1>2. Harmless(p)
  BY DEF PostFails, Harmless, Silenced
<1>3. CASE box' = Done(p) /\ UNCHANGED <<flags, conns, spoiled, dismissed>>
  <2>1. Unmoved  BY <1>1, <1>3 DEF Unmoved, flags, conns
  <2>. QED  BY <1>1, <1>2, <1>3, <2>1, DoneAnnounce
<1>4. CASE Released(p) /\ UNCHANGED <<flags, conns, dismissed>>
  <2>1. Unmoved  BY <1>1, <1>4 DEF Released, Unmoved, flags, conns
  <2>. QED  BY <1>1, <1>2, <1>4, <2>1, ReleasedAnnounce
<1>5. CASE box' = Done(p) /\ OnDisconnect("closed") /\ spoiled' = spoiled
  <2>1. connected' = FALSE /\ GivenUp
    BY <1>5, GivenUpFacts
  <2>2. Silenced(box', spoiled')
    BY <1>5, DoneSilenced
  <2>3. box'.buffer = box.buffer
    BY <1>5, DoneShape
  <2>4. Kept
    BY <1>1 DEF Kept
  <2>. QED  BY <1>1, <2>1, <2>2, <2>3, <2>4, UnconnectedStep
<1>. QED  BY <1>3, <1>4, <1>5 DEF PostFails

\* What the application gives is bound for the current session, or buffered.
LEMMA AcceptAnnounces ==
    ASSUME AnnounceInv, NEW packets \in Seq(PacketType), Accept(packets)
    PROVE  /\ Kept /\ Onward(box, box') /\ Silenced(box', spoiled)
           /\ Entries(box.buffer) \subseteq Entries(box'.buffer)
           /\ \A n \in Entries(Numbers(packets)) : Bound(box', cur, n)
           /\ ~connected => Entries(Numbers(packets)) \subseteq Entries(box'.buffer)
<1>. /\ ShapeInv /\ TypeOK /\ ConnType /\ Len(what) \in Nat /\ Silenced(box, spoiled) /\ Calm(box, spoiled)
     /\ connected \in BOOLEAN
  BY AnnounceFacts DEF ConnType
<1> DEFINE N == Len(what')
           q == Numbers(packets)
           X == Given(box, connected, q)
<1>1. box' = X /\ Make(packets) /\ (connected /\ ~box.doBuffer => CanSend(box))
  BY AcceptFacts
<1>2. N \in Nat /\ q \in Seq(1..N) /\ BoxOK(box, N) /\ Kept
  BY <1>1, MakeFacts DEF Kept
<1> HIDE DEF N, q
<1>3. Onward(box, X) /\ \A n \in Entries(q) : Bound(X, cur, n)
  BY <1>1, <1>2, GivenOnward
<1>4. Silenced(X, spoiled)
  BY <1>1, <1>2, GivenSilenced
<1>5. box.buffer \in Seq(1..N)
  BY <1>2 DEF BoxOK
<1> HIDE DEF X
<1>6. \/ X.buffer = box.buffer \o q
      \/ connected /\ X.buffer = box.buffer
      \/ connected /\ q # <<>> /\ X.buffer = box.buffer \o Tail(q)
  <2>1. \/ X.buffer = box.buffer \o q
        \/ connected /\ Handed(box, X, q)
        \/ connected /\ q # <<>> /\ FirstHanded(box, X, q, N)
    <3>1. \/ Given(box, connected, q).buffer = box.buffer \o q
          \/ connected /\ Handed(box, Given(box, connected, q), q)
          \/ connected /\ q # <<>> /\ FirstHanded(box, Given(box, connected, q), q, N)
      BY <1>1, <1>2, GivenShape
    <3>. QED  BY <3>1 DEF X
  <2>. QED  BY <2>1 DEF Handed, FirstHanded
<1>7. /\ Entries(box.buffer) \subseteq Entries(X.buffer)
      /\ ~connected => Entries(q) \subseteq Entries(X.buffer)
  <2>1. CASE X.buffer = box.buffer \o q
    BY <1>2, <1>5, <2>1, ConcatEntries
  <2>2. CASE connected /\ X.buffer = box.buffer
    BY <2>2
  <2>3. CASE connected /\ q # <<>> /\ X.buffer = box.buffer \o Tail(q)
    <3>1. Tail(q) \in Seq(1..N)
      BY <1>2, <2>3, HeadTailFacts
    <3>2. Entries(X.buffer) = Entries(box.buffer) \cup Entries(Tail(q))
      BY <1>5, <2>3, <3>1, ConcatEntries
    <3>. QED  BY <2>3, <3>2
  <2>. QED  BY <1>6, <2>1, <2>2, <2>3
<1>. QED  BY <1>1, <1>2, <1>3, <1>4, <1>7 DEF q

LEMMA SendAnnounce ==
    ASSUME AnnounceInv, Send, [Next]_vars
    PROVE  AnnounceInv'
<1> DEFINE packets == <<[type |-> "message", name |-> ""]>>
<1>1. packets \in Seq(PacketType)
  <2>1. [type |-> "message", name |-> ""] \in PacketType
    BY DEF PacketType
  <2>. QED  BY <2>1, SingleFacts
<1>2. /\ Accept(packets) /\ namespaces' = namespaces /\ received' = received /\ spoiled' = spoiled
      /\ Unmoved
  BY DEF Send, flags, conns, Unmoved
<1> HIDE DEF packets
<1>3. /\ Kept /\ Onward(box, box') /\ Silenced(box', spoiled')
      /\ Entries(box.buffer) \subseteq Entries(box'.buffer)
  BY <1>1, <1>2, AcceptAnnounces
<1>4. Remains
  BY <1>2, <1>3, OnwardRemains DEF Unmoved
<1>. QED  BY <1>2, <1>3, <1>4, UnmovedStep

LEMMA OfAnnounce ==
    ASSUME AnnounceInv, NEW x \in Names, Of(x), [Next]_vars
    PROVE  AnnounceInv'
<1>. /\ OrderInv /\ TypeOK /\ ShapeInv /\ MadeType /\ Len(what) \in Nat /\ Promised /\ Introduced
     /\ Entries(box.buffer) \subseteq 1..Len(what)
  BY AnnounceFacts
<1> DEFINE packet  == [type |-> "connect", name |-> x]
           packets == <<packet>>
<1>1. packets \in Seq(PacketType) /\ Len(packets) = 1 /\ packets[1] = packet
  <2>1. packet \in PacketType
    BY DEF PacketType
  <2> HIDE DEF packet
  <2>. QED  BY <2>1, SingleFacts
<1>2. /\ Accept(packets) /\ namespaces' = Append(namespaces, x) /\ received' = received /\ spoiled' = spoiled
      /\ failing' = failing /\ connected' = connected /\ reconnecting' = reconnecting /\ cur' = cur
      /\ dismissed' = dismissed
  BY DEF Of, flags, conns
<1> HIDE DEF packets
<1>3. /\ Kept /\ Onward(box, box') /\ Silenced(box', spoiled')
      /\ Entries(box.buffer) \subseteq Entries(box'.buffer)
      /\ \A n \in Entries(Numbers(packets)) : Bound(box', cur, n)
      /\ ~connected => Entries(Numbers(packets)) \subseteq Entries(box'.buffer)
  BY <1>1, <1>2, AcceptAnnounces
<1>4. PICK n0 \in 1..Len(what') : n0 \in Entries(Numbers(packets)) /\ what'[n0] = packet
  <2>1. Make(packets)
    BY <1>2 DEF Accept
  <2>2. /\ Len(what') = Len(what) + Len(packets) /\ Entries(Numbers(packets)) = (Len(what) + 1)..Len(what')
        /\ \A i \in 1..Len(packets) : what'[Len(what) + i] = packets[i]
    BY <1>1, <2>1, MakeFacts
  <2> HIDE DEF packet
  <2>. QED  BY <1>1, <2>2
<1>5. Entries(namespaces') = Entries(namespaces) \cup {x}
  BY <1>2, AppendFacts DEF MadeType
<1>6. \A n : Bound(box', cur, n) => Bound(box, cur, n)'
  BY <1>2 DEF Bound, Sent
<1>7. Connects(n0, x)'
  BY <1>4 DEF Connects
<1>8. \A n \in 1..Len(what) : \A y : Connects(n, y) => Connects(n, y)' /\ n \in 1..Len(what')
  BY <1>3 DEF Connects, Kept
<1> HIDE DEF packet
<1>9. Introduced'
  <2> SUFFICES ASSUME connected, cur \notin failing \cup spoiled, NEW y \in Entries(namespaces') \ dismissed
               PROVE  \E n \in 1..Len(what') : Connects(n, y)' /\ Bound(box, cur, n)'
    BY <1>2 DEF Introduced
  <2>1. CASE y = x
    BY <1>3, <1>4, <1>6, <1>7, <2>1
  <2>2. CASE y \in Entries(namespaces)
    <3>1. PICK n \in 1..Len(what) : Connects(n, y) /\ Bound(box, cur, n)
      BY <2>2 DEF Introduced
    <3>. QED  BY <1>3, <1>6, <1>8, <3>1 DEF Onward
  <2>. QED  BY <1>5, <2>1, <2>2
<1>10. Promised'
  <2> SUFFICES ASSUME ~connected, ~reconnecting, NEW y \in Entries(namespaces') \ dismissed
               PROVE  \E n \in Entries(box'.buffer) : Connects(n, y)'
    BY <1>2 DEF Promised
  <2>1. CASE y = x
    BY <1>3, <1>4, <1>7, <2>1
  <2>2. CASE y \in Entries(namespaces)
    <3>1. PICK n \in Entries(box.buffer) : Connects(n, y)
      BY <2>2 DEF Promised
    <3>. QED  BY <1>3, <1>8, <3>1
  <2>. QED  BY <1>5, <2>1, <2>2
<1>11. OrderInv' /\ Silenced(box, spoiled)'
  BY <1>3, OrderNext DEF Silenced
<1>. QED  BY <1>9, <1>10, <1>11 DEF AnnounceInv

LEMMA DisconnectAnnounce ==
    ASSUME AnnounceInv, Disconnect, [Next]_vars
    PROVE  AnnounceInv'
<1>. Len(what) \in Nat /\ Silenced(box, spoiled)  BY AnnounceFacts
<1> DEFINE packets == <<[type |-> "disconnect", name |-> ""]>>
<1>1. packets \in Seq(PacketType)
  <2>1. [type |-> "disconnect", name |-> ""] \in PacketType
    BY DEF PacketType
  <2>. QED  BY <2>1, SingleFacts
<1>2. /\ OnDisconnect("booted") /\ namespaces' = namespaces /\ spoiled' = spoiled
      /\ Accept(packets) \/ (what' = what /\ box' = box)
  BY DEF Disconnect
<1> HIDE DEF packets
<1>3. connected' = FALSE /\ GivenUp
  BY <1>2, GivenUpFacts
<1>4. CASE Accept(packets)
  BY <1>1, <1>2, <1>3, <1>4, AcceptAnnounces, UnconnectedStep
<1>5. CASE what' = what /\ box' = box
  <2>1. Kept  BY <1>5 DEF Kept
  <2>2. Silenced(box', spoiled')  BY <1>2, <1>5 DEF Silenced
  <2>. QED  BY <1>2, <1>3, <1>5, <2>1, <2>2, UnconnectedStep
<1>. QED  BY <1>2, <1>4, <1>5

LEMMA AnnounceNext == AnnounceInv /\ [Next]_vars => AnnounceInv'
<1> SUFFICES ASSUME AnnounceInv, [Next]_vars PROVE AnnounceInv'  OBVIOUS
<1>1. CASE UNCHANGED vars
  <2>1. /\ box' = box /\ what' = what /\ namespaces' = namespaces /\ received' = received
        /\ spoiled' = spoiled /\ Unmoved
    BY <1>1 DEF vars, flags, conns, made, Unmoved
  <2>2. Kept /\ Remains
    BY <2>1, AnnounceFacts DEF Kept, Remains, Bound, Sent, Unmoved
  <2>. QED  BY <2>1, <2>2, AnnounceFacts, UnmovedStep
<1>. QED
  BY <1>1, OpenAnnounce, WebSocketOpensAnnounce, OnConnectAnnounce, EndsAnnounce, WebSocketClosesAnnounce,
     FailAnnounce, HeartbeatAnnounce, FrameArrivesAnnounce, PostArrivesAnnounce, PostAnsweredAnnounce,
     PostFailsAnnounce, SendAnnounce, OfAnnounce, DisconnectAnnounce DEF Next

LEMMA AnnounceInit == Init => AnnounceInv
<1> SUFFICES ASSUME Init PROVE AnnounceInv  OBVIOUS
<1>1. OrderInv  BY OrderInit
<1>2. \A p \in Posts : box.post[p].state = "free"
  BY DEF Init, EmptyBox, NoPost
<1>3. namespaces = <<>> /\ Entries(<<>>) = {} /\ connected = FALSE
  BY DEF Init, Entries
<1>. QED  BY <1>1, <1>2, <1>3 DEF AnnounceInv, Silenced, Promised, Introduced

(* What the next theorem rests on: a connect packet that is not in the     *)
(* buffer was given to a request, and only the end of the session, a       *)
(* request that fails or a form nobody hears of can take it away.          *)
THEOREM AnnounceInductive == Spec => []AnnounceInv
<1>. QED  BY AnnounceInit, AnnounceNext, PTL DEF Spec

(* While the browser is connected, every namespace of the application is   *)
(* connected or will be: its connect packet is in the buffer, under way to *)
(* the server of this session or was read by it, unless requests of the    *)
(* session fail or the application gave the connection up.                 *)
THEOREM EveryNamespaceAnnounced == Spec => []Announced
<1>1. AnnounceInv => Announced
  <2> SUFFICES ASSUME AnnounceInv PROVE Announced  OBVIOUS
  <2>1. Introduced /\ DOMAIN what = 1..Len(what)
    BY AnnounceFacts DEF MadeType
  <2>. QED  BY <2>1, AnnouncesBound DEF Announced, Introduced, Connects
<1>. QED  BY <1>1, AnnounceInductive, PTL

=============================================================================
