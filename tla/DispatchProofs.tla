---------------------------- MODULE DispatchProofs ----------------------------
(***************************************************************************)
(* Proofs about Dispatch: its six invariants, for any namespaces, handlers *)
(* and texts and any number of messages, and that the server reads from a  *)
(* request what the browser encoded.                                       *)
(*                                                                         *)
(* First the encoding.  FlattenSeq and Split are recursive functions; what *)
(* they compute is shown by the least, or the greatest, index at which the *)
(* claim would fail.  Layout says where the packets are in a body.  Then   *)
(* the steps, by what they do to Line, the headers the server has still to *)
(* see: a step of the browser appends to it, Handle takes its first, a     *)
(* request leaves it as it is, and an abort or a request to a session that *)
(* is gone loses some.  The invariants, each on those before it:           *)
(*   Sound         the types, whole packets, and SplitExact;               *)
(*   Asked         nobody names a namespace that was not opened;           *)
(*   Heard(e)      until the session's namespace is e, the one the browser *)
(*                 opens, every message waits behind a connect;            *)
(*   Answered(e)   an id stands for one message, wherever it is;           *)
(*   Pairing(e)    which handlers the clear tasks of a websocket may hold. *)
(***************************************************************************)
EXTENDS Dispatch, Integers, WellFoundedInduction, FiniteSetTheorems, SequenceTheorems, TLAPS

-----------------------------------------------------------------------------
(* Sequences defined by recursion.  A claim about all n is shown by looking *)
(* at the least n, or the greatest, for which it would fail.                *)

LEMMA Least ==
    ASSUME NEW T \in SUBSET Nat, T # {}
    PROVE  \E m \in T : \A n \in T : m <= n
<1>1. \A m, n \in Nat : m < n => <<m, n>> \in OpToRel(<, Nat)
  BY DEF OpToRel
<1>2. PICK m \in T : \A n \in T : ~(<<n, m>> \in OpToRel(<, Nat))
  BY NatLessThanWellFounded, WFMin
<1>3. \A n \in T : n \in Nat /\ m \in Nat /\ ~(n < m)
  BY <1>1, <1>2
<1>4. \A n \in T : m <= n
  BY <1>3
<1>. QED  BY <1>4

LEMMA Greatest ==
    ASSUME NEW b \in Nat, NEW T \in SUBSET (0..b), T # {}
    PROVE  \E m \in T : \A n \in T : n <= m
<1> DEFINE U == {k \in Nat : k <= b /\ b - k \in T}
<1>1. U # {}
  <2>1. PICK n \in T : TRUE  OBVIOUS
  <2>2. n \in 0..b /\ b - n \in Nat /\ b - (b - n) = n  BY <2>1
  <2>3. b - n \in U  BY <2>1, <2>2
  <2>. QED  BY <2>3
<1>2. PICK k \in U : \A j \in U : k <= j
  BY <1>1, Least
<1>3. b - k \in T  OBVIOUS
<1>4. ASSUME NEW n \in T PROVE n <= b - k
  <2>1. n \in 0..b /\ b - n \in Nat /\ b - (b - n) = n  OBVIOUS
  <2>2. b - n \in U  BY <2>1
  <2>3. k <= b - n  BY <1>2, <2>2
  <2>. QED  BY <2>1, <2>3
<1>. QED  BY <1>3, <1>4

-----------------------------------------------------------------------------
(* FlattenSeq *)

\* The concatenation of the first i of seqs.
Flat(seqs) ==
    CHOOSE f : f = [i \in 1..Len(seqs) |-> IF i = 1 THEN seqs[i] ELSE f[i-1] \o seqs[i]]

LEMMA FlattenIsFlat ==
    ASSUME NEW seqs, Len(seqs) # 0
    PROVE  FlattenSeq(seqs) = Flat(seqs)[Len(seqs)]
BY DEF FlattenSeq, Flat

\* f does that for the first k.
Flats(seqs, k, f, S) ==
    /\ f \in [1..k -> Seq(S)]
    /\ \A i \in 1..k : f[i] = IF i = 1 THEN seqs[i] ELSE f[i-1] \o seqs[i]

LEMMA FlatStep ==
    ASSUME NEW S, NEW seqs \in Seq(Seq(S)), NEW k \in 1..Len(seqs), NEW f, Flats(seqs, k - 1, f, S)
    PROVE  \E g : Flats(seqs, k, g, S)
<1> DEFINE new == IF k = 1 THEN seqs[1] ELSE f[k-1] \o seqs[k]
           g == [i \in 1..k |-> IF i = k THEN new ELSE f[i]]
<1>1. k \in Nat /\ k >= 1 /\ k - 1 \in Nat /\ seqs[k] \in Seq(S) /\ seqs[1] \in Seq(S)
  OBVIOUS
<1>2. new \in Seq(S)
  <2>1. CASE k = 1  BY <1>1, <2>1
  <2>2. CASE k # 1
    <3>1. f[k-1] \in Seq(S)  BY <1>1, <2>2 DEF Flats
    <3>. QED  BY <1>1, <2>2, <3>1
  <2>. QED  BY <2>1, <2>2
<1> HIDE DEF new
<1>3. \A i \in 1..k-1 : f[i] \in Seq(S) /\ i \in 1..k /\ i # k
  BY <1>1 DEF Flats
<1>4. g \in [1..k -> Seq(S)]
  BY <1>1, <1>2, <1>3
<1>5. ASSUME NEW i \in 1..k PROVE g[i] = IF i = 1 THEN seqs[i] ELSE g[i-1] \o seqs[i]
  <2>1. CASE i # k
    <3>1. i \in 1..k-1 /\ (i # 1 => i - 1 \in 1..k /\ i - 1 # k)  BY <1>1, <2>1
    <3>2. f[i] = IF i = 1 THEN seqs[i] ELSE f[i-1] \o seqs[i]  BY <3>1 DEF Flats
    <3>. QED  BY <2>1, <3>1, <3>2
  <2>2. CASE i = k
    <3>1. k # 1 => k - 1 \in 1..k /\ k - 1 # k  BY <1>1
    <3>2. g[i] = IF k = 1 THEN seqs[1] ELSE f[k-1] \o seqs[k]  BY <2>2 DEF new
    <3>. QED  BY <2>2, <3>1, <3>2
  <2>. QED  BY <2>1, <2>2
<1>6. Flats(seqs, k, g, S)
  BY <1>4, <1>5 DEF Flats
<1> HIDE DEF g
<1>. QED  BY <1>6

LEMMA FlatExists ==
    ASSUME NEW S, NEW seqs \in Seq(Seq(S))
    PROVE  \A k \in 0..Len(seqs) : \E f : Flats(seqs, k, f, S)
<1> DEFINE Bad == {k \in 0..Len(seqs) : ~\E f : Flats(seqs, k, f, S)}
<1>1. Len(seqs) \in Nat  OBVIOUS
<1> SUFFICES Bad = {}  OBVIOUS
<1>2. SUFFICES ASSUME Bad # {} PROVE FALSE  OBVIOUS
<1>3. PICK k \in Bad : \A n \in Bad : k <= n
  <2>1. Bad \in SUBSET Nat  BY <1>1
  <2> HIDE DEF Bad
  <2>. QED  BY <1>2, <2>1, Least
<1>4. k # 0
  <2>1. Flats(seqs, 0, <<>>, S)  BY DEF Flats
  <2>. QED  BY <1>3, <2>1
<1>5. k \in 1..Len(seqs) /\ k - 1 \in 0..Len(seqs) /\ ~(k <= k - 1)
  BY <1>1, <1>3, <1>4
<1>6. k - 1 \notin Bad
  BY <1>3, <1>5
<1>7. PICK f : Flats(seqs, k - 1, f, S)
  BY <1>5, <1>6
<1>8. \E g : Flats(seqs, k, g, S)
  BY <1>5, <1>7, FlatStep
<1>. QED  BY <1>3, <1>8

LEMMA FlatFacts ==
    ASSUME NEW S, NEW seqs \in Seq(Seq(S))
    PROVE  Flats(seqs, Len(seqs), Flat(seqs), S)
<1> DEFINE n == Len(seqs)
           New(f) == [i \in 1..n |-> IF i = 1 THEN seqs[i] ELSE f[i-1] \o seqs[i]]
<1>1. n \in Nat  OBVIOUS
<1>2. PICK f : Flats(seqs, n, f, S)
  BY <1>1, FlatExists
<1>3. f = New(f)
  BY <1>2 DEF Flats
<1>4. Flat(seqs) = New(Flat(seqs))
  BY <1>3 DEF Flat
<1>5. Flat(seqs) = f
  <2> DEFINE h == Flat(seqs)
             Bad == {i \in 1..n : h[i] # f[i]}
  <2>0. DOMAIN h = 1..n /\ DOMAIN f = 1..n /\ h = [i \in 1..n |-> h[i]] /\ f = [i \in 1..n |-> f[i]]
    BY <1>2, <1>4 DEF Flats
  <2>1. \A i \in 1..n : h[i] = IF i = 1 THEN seqs[i] ELSE h[i-1] \o seqs[i]
    BY <1>4
  <2>2. \A i \in 1..n : f[i] = IF i = 1 THEN seqs[i] ELSE f[i-1] \o seqs[i]
    BY <1>2 DEF Flats
  <2> HIDE DEF h
  <2>3. Bad = {}
    <3> SUFFICES ASSUME Bad # {} PROVE FALSE  OBVIOUS
    <3>1. PICK i \in Bad : \A j \in Bad : i <= j
      <4>1. Bad \in SUBSET Nat  BY <1>1
      <4> HIDE DEF Bad
      <4>. QED  BY <4>1, Least
    <3>2. i # 1  BY <2>1, <2>2, <3>1
    <3>3. i \in 1..n /\ i - 1 \in 1..n /\ ~(i <= i - 1)  BY <1>1, <3>1, <3>2
    <3>4. h[i-1] = f[i-1]  BY <3>1, <3>3
    <3>. QED  BY <2>1, <2>2, <3>1, <3>2, <3>3, <3>4
  <2>4. \A i \in 1..n : h[i] = f[i]  BY <2>3
  <2>. QED  BY <2>0, <2>4 DEF h
<1>. QED  BY <1>2, <1>5

-----------------------------------------------------------------------------
(* Where the packets are in an encoded payload. *)

\* s is q, and r behind it.
Joined(s, q, r) ==
    /\ Len(s) = Len(q) + Len(r)
    /\ \A i \in 1..Len(q) : s[i] = q[i]
    /\ \A i \in 1..Len(r) : s[Len(q) + i] = r[i]

LEMMA ConcatFacts ==
    ASSUME NEW S, NEW q \in Seq(S), NEW r \in Seq(S)
    PROVE  q \o r \in Seq(S) /\ Joined(q \o r, q, r)
BY DEF Joined

LEMMA LenFacts ==
    ASSUME NEW S, NEW q \in Seq(S)
    PROVE  /\ Len(q) \in Nat /\ DOMAIN q = 1..Len(q)
           /\ \A i \in 1..Len(q) : q[i] \in S
OBVIOUS

\* What is concatenated comes to stand one behind the other.
LEMMA FlatPrefix ==
    ASSUME NEW S, NEW seqs \in Seq(Seq(S)), NEW f, Flats(seqs, Len(seqs), f, S), Len(seqs) # 0
    PROVE  \A k \in 1..Len(seqs) : /\ Len(f[k]) <= Len(f[Len(seqs)])
                                   /\ \A i \in 1..Len(f[k]) : f[Len(seqs)][i] = f[k][i]
<1> DEFINE n == Len(seqs)
           Good(k) == Len(f[k]) <= Len(f[n]) /\ \A i \in 1..Len(f[k]) : f[n][i] = f[k][i]
           Bad == {k \in 1..n : ~Good(k)}
<1>1. n \in Nat /\ n >= 1  OBVIOUS
<1>2. \A k \in 1..n : f[k] \in Seq(S) /\ Len(f[k]) \in Nat
  <2>1. \A k \in 1..n : f[k] \in Seq(S)  BY DEF Flats
  <2>. QED  BY <2>1, LenFacts
<1>3. Good(n)  BY <1>1, <1>2
<1>4. ASSUME NEW k \in 1..n, k # n, Good(k + 1) PROVE Good(k)
  <2>1. k + 1 \in 1..n /\ k + 1 # 1 /\ (k + 1) - 1 = k  BY <1>1, <1>4
  <2>2. f[k+1] = f[k] \o seqs[k+1]  BY <2>1 DEF Flats
  <2>3. f[k] \in Seq(S) /\ seqs[k+1] \in Seq(S)  BY <1>2, <2>1
  <2> DEFINE q == f[k]
             r == seqs[k+1]
  <2>4. q \in Seq(S) /\ r \in Seq(S) /\ f[k+1] = q \o r  BY <2>2, <2>3
  <2> HIDE DEF q, r
  <2>5. Len(f[k+1]) = Len(q) + Len(r) /\ \A i \in 1..Len(q) : f[k+1][i] = q[i]
    BY <2>4, ConcatFacts DEF Joined
  <2>6. Len(q) \in Nat /\ Len(r) \in Nat /\ Len(f[n]) \in Nat  BY <1>1, <1>2, <2>4, LenFacts
  <2>7. Len(q) <= Len(f[k+1]) /\ Len(f[k+1]) <= Len(f[n])  BY <1>4, <2>5, <2>6
  <2>8. \A i \in 1..Len(q) : f[n][i] = q[i]
    <3> SUFFICES ASSUME NEW i \in 1..Len(q) PROVE f[n][i] = q[i]  OBVIOUS
    <3>1. i \in 1..Len(f[k+1])  BY <2>5, <2>6
    <3>. QED  BY <1>4, <2>5, <3>1
  <2>9. Len(q) <= Len(f[n])
    <3>1. Len(f[k+1]) \in Nat  BY <1>2, <2>1
    <3>. QED  BY <2>6, <2>7, <3>1
  <2>. QED  BY <2>8, <2>9 DEF q
<1> HIDE DEF Good
<1> SUFFICES Bad = {}  BY DEF Good
<1> SUFFICES ASSUME Bad # {} PROVE FALSE  OBVIOUS
<1>5. PICK k \in Bad : \A j \in Bad : j <= k
  <2>1. Bad \in SUBSET (0..n)  BY <1>1
  <2> HIDE DEF Bad
  <2>. QED  BY <1>1, <2>1, Greatest
<1>6. k \in 1..n /\ k # n /\ ~Good(k)  BY <1>3, <1>5
<1>7. k + 1 \in 1..n /\ ~(k + 1 <= k)  BY <1>1, <1>6
<1>8. Good(k + 1)  BY <1>5, <1>7
<1>. QED  BY <1>4, <1>6, <1>8

Sep    == <<"sep">>
Digits == <<"digits">>

\* c is made of a frame and a packet, for each of the packets ps; E[k] is where the
\* k-th ends.
Layout(c, E, ps) ==
    /\ E \in [0..Len(ps) -> 0..Len(c)] /\ E[0] = 0 /\ E[Len(ps)] = Len(c)
    /\ \A k \in 1..Len(ps) :
          /\ E[k] = E[k-1] + 3 + Len(ps[k])
          /\ c[E[k-1] + 1] = Sep /\ c[E[k-1] + 2] = Digits /\ c[E[k-1] + 3] = Sep
          /\ \A i \in 1..Len(ps[k]) : c[E[k-1] + 3 + i] = ps[k][i]

LEMMA FrameFacts ==
    ASSUME NEW S, Sep \in S, Digits \in S
    PROVE  Frame \in Seq(S) /\ Len(Frame) = 3 /\ Frame[1] = Sep /\ Frame[2] = Digits /\ Frame[3] = Sep
BY DEF Frame, Sep, Digits

LEMMA EncodeLayout ==
    ASSUME NEW S, Sep \in S, Digits \in S,
           NEW ps \in Seq(Seq(S)), Len(ps) # 0, Len(ps) # 1
    PROVE  EncodePayload(ps) \in Seq(S) /\ \E E : Layout(EncodePayload(ps), E, ps)
<1> DEFINE n == Len(ps)
           seqs == [i \in DOMAIN ps |-> Frame \o ps[i]]
           f == Flat(seqs)
           E == [k \in 0..n |-> IF k = 0 THEN 0 ELSE Len(f[k])]
<1>1. n \in Nat /\ n >= 1 /\ DOMAIN ps = 1..n /\ \A i \in 1..n : ps[i] \in Seq(S) /\ Len(ps[i]) \in Nat
  OBVIOUS
<1>2. Frame \in Seq(S) /\ Len(Frame) = 3 /\ Frame[1] = Sep /\ Frame[2] = Digits /\ Frame[3] = Sep
  BY FrameFacts
<1>3. \A i \in 1..n : seqs[i] \in Seq(S) /\ seqs[i] = Frame \o ps[i]
  BY <1>1, <1>2, ConcatFacts
<1>4. seqs \in Seq(Seq(S)) /\ Len(seqs) = n
  BY <1>1, <1>3
<1>5. \A i \in 1..n : /\ Len(seqs[i]) = 3 + Len(ps[i])
                      /\ seqs[i][1] = Sep /\ seqs[i][2] = Digits /\ seqs[i][3] = Sep
                      /\ \A j \in 1..Len(ps[i]) : seqs[i][3 + j] = ps[i][j]
  <2> SUFFICES ASSUME NEW i \in 1..n
      PROVE  /\ Len(seqs[i]) = 3 + Len(ps[i])
             /\ seqs[i][1] = Sep /\ seqs[i][2] = Digits /\ seqs[i][3] = Sep
             /\ \A j \in 1..Len(ps[i]) : seqs[i][3 + j] = ps[i][j]
    OBVIOUS
  <2> DEFINE p == ps[i]
  <2>1. p \in Seq(S) /\ seqs[i] = Frame \o p  BY <1>1, <1>3
  <2> HIDE DEF p, seqs
  <2>2. /\ Len(Frame \o p) = 3 + Len(p)
        /\ \A j \in 1..3 : (Frame \o p)[j] = Frame[j]
        /\ \A j \in 1..Len(p) : (Frame \o p)[3 + j] = p[j]
    <3>1. Joined(Frame \o p, Frame, p)  BY <1>2, <2>1, ConcatFacts
    <3>. QED  BY <1>2, <3>1 DEF Joined
  <2>3. 1 \in 1..3 /\ 2 \in 1..3 /\ 3 \in 1..3  OBVIOUS
  <2>. QED  BY <1>2, <2>1, <2>2, <2>3 DEF p
<1> HIDE DEF seqs
<1>6. Flats(seqs, n, f, S)
  BY <1>4, FlatFacts
<1>7. EncodePayload(ps) = f[n]
  BY <1>4, FlattenIsFlat DEF EncodePayload, seqs
<1> HIDE DEF f
<1>8. \A k \in 1..n : f[k] \in Seq(S) /\ Len(f[k]) \in Nat
  <2>1. \A k \in 1..n : f[k] \in Seq(S)  BY <1>6 DEF Flats
  <2>. QED  BY <2>1, LenFacts
<1>9. \A k \in 1..n : Len(f[k]) <= Len(f[n]) /\ \A i \in 1..Len(f[k]) : f[n][i] = f[k][i]
  <2> HIDE DEF n
  <2>1. Len(seqs) # 0 /\ Flats(seqs, Len(seqs), f, S)  BY <1>1, <1>4, <1>6
  <2>2. \A k \in 1..Len(seqs) : /\ Len(f[k]) <= Len(f[Len(seqs)])
                                /\ \A i \in 1..Len(f[k]) : f[Len(seqs)][i] = f[k][i]
    BY <1>4, <2>1, FlatPrefix
  <2>. QED  BY <1>4, <2>2
<1>10. E \in [0..n -> 0..Len(f[n])] /\ E[0] = 0 /\ E[n] = Len(f[n]) /\ \A k \in 1..n : E[k] = Len(f[k])
  <2>1. \A k \in 0..n : (IF k = 0 THEN 0 ELSE Len(f[k])) \in 0..Len(f[n])  BY <1>1, <1>8, <1>9
  <2>. QED  BY <1>1, <2>1
<1> HIDE DEF E
\* The k-th packet was put behind what there was, E[k-1] long.
<1>11. ASSUME NEW k \in 1..n
       PROVE  /\ Len(f[k]) = E[k-1] + Len(seqs[k])
              /\ \A i \in 1..Len(seqs[k]) : f[k][E[k-1] + i] = seqs[k][i]
  <2>1. CASE k = 1
    <3>1. f[1] = seqs[1]
      <4>1. 1 \in 1..n  BY <1>1
      <4>. QED  BY <1>6, <4>1 DEF Flats
    <3>2. E[k-1] = 0  BY <1>10, <2>1
    <3>3. seqs[1] \in Seq(S)  BY <1>1, <1>3
    <3>4. Len(seqs[1]) \in Nat  BY <3>3, LenFacts
    <3>. QED  BY <2>1, <3>1, <3>2, <3>4
  <2>2. CASE k # 1
    <3>1. k - 1 \in 1..n  BY <1>1, <2>2
    <3>2. f[k] = f[k-1] \o seqs[k]  BY <1>6, <2>2 DEF Flats
    <3>3. f[k-1] \in Seq(S) /\ seqs[k] \in Seq(S) /\ E[k-1] = Len(f[k-1])  BY <1>3, <1>8, <1>10, <3>1
    <3> DEFINE q == f[k-1]
               r == seqs[k]
    <3>4. q \in Seq(S) /\ r \in Seq(S) /\ f[k] = q \o r /\ E[k-1] = Len(q)  BY <3>2, <3>3
    <3> HIDE DEF q, r
    <3>5. Len(f[k]) = E[k-1] + Len(r) /\ \A i \in 1..Len(r) : f[k][E[k-1] + i] = r[i]
      BY <3>4, ConcatFacts DEF Joined
    <3>. QED  BY <3>5 DEF r
  <2>. QED  BY <2>1, <2>2
<1>12. ASSUME NEW k \in 1..n
       PROVE  /\ E[k] = E[k-1] + 3 + Len(ps[k])
              /\ f[n][E[k-1] + 1] = Sep /\ f[n][E[k-1] + 2] = Digits /\ f[n][E[k-1] + 3] = Sep
              /\ \A i \in 1..Len(ps[k]) : f[n][E[k-1] + 3 + i] = ps[k][i]
  <2> DEFINE e == E[k-1]
             l == Len(ps[k])
  <2>1. e \in Nat /\ l \in Nat /\ E[k] = Len(f[k])
    <3>1. k - 1 \in 0..n /\ k \in 1..n /\ Len(f[n]) \in Nat /\ l \in Nat  BY <1>1, <1>8
    <3>2. e \in 0..Len(f[n]) /\ E[k] = Len(f[k])  BY <1>10, <3>1
    <3> HIDE DEF e, l
    <3>. QED  BY <3>1, <3>2
  <2>2. Len(seqs[k]) = 3 + l /\ Len(f[k]) = e + Len(seqs[k])
    BY <1>5, <1>11
  <2>3. \A i \in 1..Len(seqs[k]) : f[k][e + i] = seqs[k][i]
    BY <1>11
  <2>4. seqs[k][1] = Sep /\ seqs[k][2] = Digits /\ seqs[k][3] = Sep /\ \A i \in 1..l : seqs[k][3 + i] = ps[k][i]
    BY <1>5
  <2>5. \A i \in 1..Len(f[k]) : f[n][i] = f[k][i]
    BY <1>9
  <2> HIDE DEF e, l
  <2>6. \A i \in 1..3 + l : f[n][e + i] = seqs[k][i]
    <3> SUFFICES ASSUME NEW i \in 1..3 + l PROVE f[n][e + i] = seqs[k][i]  OBVIOUS
    <3>1. e + i \in 1..Len(f[k])  BY <2>1, <2>2
    <3>. QED  BY <2>2, <2>3, <2>5, <3>1
  <2>7. 1 \in 1..3 + l /\ 2 \in 1..3 + l /\ 3 \in 1..3 + l  BY <2>1
  <2>8. \A i \in 1..l : f[n][e + 3 + i] = ps[k][i]
    <3> SUFFICES ASSUME NEW i \in 1..l PROVE f[n][e + 3 + i] = ps[k][i]  OBVIOUS
    <3>1. 3 + i \in 1..3 + l /\ e + 3 + i = e + (3 + i)  BY <2>1
    <3>. QED  BY <2>4, <2>6, <3>1
  <2>9. E[k] = e + 3 + l
    BY <2>1, <2>2
  <2>10. f[n][e + 1] = Sep /\ f[n][e + 2] = Digits /\ f[n][e + 3] = Sep
    BY <2>4, <2>6, <2>7
  <2>. QED  BY <2>8, <2>9, <2>10 DEF e, l
<1>13. Layout(f[n], E, ps)
  BY <1>10, <1>12 DEF Layout
<1>. QED  BY <1>1, <1>7, <1>8, <1>13

-----------------------------------------------------------------------------
(* Split *)

\* The operators of Split's LET, with content c.
Part(c, i, j) == IF i > j THEN <<>> ELSE <<SubSeq(c, i, j)>>
Matches(c, i) == {m \in i..Len(c) : MatchEnd(c, m) # 0}
First(ms)     == CHOOSE m \in ms : \A j \in ms : m <= j
Rest(c, g, i) ==
    IF Matches(c, i) = {} THEN Part(c, i, Len(c))
    ELSE Part(c, i, First(Matches(c, i)) - 1) \o g[MatchEnd(c, First(Matches(c, i))) + 1]
From(c) == CHOOSE g : g = [i \in 1..Len(c) + 1 |-> Rest(c, g, i)]

LEMMA SplitIsFrom ==
    ASSUME NEW c
    PROVE  Split(c) = From(c)[1]
BY DEF Split, From, Rest, Part, First, Matches

LEMMA SegmentFacts ==
    ASSUME NEW S, NEW c \in Seq(S), NEW a \in Nat, NEW p \in Seq(S), a + Len(p) <= Len(c),
           \A i \in 1..Len(p) : c[a + i] = p[i]
    PROVE  SubSeq(c, a + 1, a + Len(p)) = p
<1> DEFINE n == Len(p)
           s == SubSeq(c, a + 1, a + n)
<1>1. n \in Nat /\ Len(c) \in Nat  OBVIOUS
<1>2. \A i \in a + 1..a + n : i \in 1..Len(c)  BY <1>1
<1>3. \A i \in a + 1..a + n : c[i] \in S  BY <1>2, LenFacts
<1>4. s \in Seq(S) /\ Len(s) = n /\ \A i \in 1..n : s[i] = c[a + i]
  <2>1. a + 1 \in Int /\ a + n \in Int  BY <1>1
  <2>2. /\ s \in Seq(S)
        /\ Len(s) = IF a + 1 <= a + n THEN (a + n) - (a + 1) + 1 ELSE 0
        /\ \A i \in 1..(a + n) - (a + 1) + 1 : s[i] = c[(a + 1) + i - 1]
    <3> HIDE DEF n
    <3>. QED  BY <1>3, <2>1, SubSeqProperties
  <2>3. (a + n) - (a + 1) + 1 = n /\ \A i \in 1..n : (a + 1) + i - 1 = a + i  BY <1>1
  <2> HIDE DEF s, n
  <2>4. a + 1 <= a + n <=> n # 0  BY <1>1
  <2>5. Len(s) = n  BY <1>1, <2>2, <2>3, <2>4
  <2>. QED  BY <2>2, <2>3, <2>5
<1>5. \A i \in 1..n : s[i] = p[i]
  BY <1>4
<1> HIDE DEF s
<1>. QED  BY <1>1, <1>4, <1>5, SeqEqual DEF s

\* The frame's expression matches at m.
Match(c, m) == m + 2 <= Len(c) /\ c[m] = Sep /\ c[m + 1] = Digits /\ c[m + 2] = Sep

LEMMA MatchFacts ==
    ASSUME NEW S, Sep \in S, Digits \in S, NEW c \in Seq(S), NEW m \in 1..Len(c)
    PROVE  MatchEnd(c, m) = IF Match(c, m) THEN m + 2 ELSE 0
<1>1. Frame \in Seq(S) /\ Len(Frame) = 3 /\ Frame[1] = Sep /\ Frame[2] = Digits /\ Frame[3] = Sep
  BY FrameFacts
<1>2. Len(c) \in Nat /\ m \in Nat /\ m >= 1  OBVIOUS
<1>3. ASSUME m + 2 <= Len(c) PROVE SubSeq(c, m, m + 2) = Frame <=> Match(c, m)
  <2>1. ASSUME Match(c, m) PROVE SubSeq(c, m, m + 2) = Frame
    <3>1. m - 1 \in Nat /\ (m - 1) + 3 = m + 2 /\ (m - 1) + 1 = m /\ (m - 1) + 2 = m + 1  BY <1>2
    <3>2. \A i \in 1..3 : i = 1 \/ i = 2 \/ i = 3  OBVIOUS
    <3>3. \A i \in 1..3 : c[(m - 1) + i] = Frame[i]
      BY <1>1, <2>1, <3>1, <3>2 DEF Match
    <3>4. (m - 1) + Len(Frame) <= Len(c) /\ \A i \in 1..Len(Frame) : c[(m - 1) + i] = Frame[i]
      BY <1>1, <1>3, <3>1, <3>3
    <3>5. SubSeq(c, (m - 1) + 1, (m - 1) + Len(Frame)) = Frame
      BY <1>1, <3>1, <3>4, SegmentFacts
    <3>. QED  BY <1>1, <3>1, <3>5
  <2>2. ASSUME SubSeq(c, m, m + 2) = Frame PROVE Match(c, m)
    <3>1. \A i \in m..m + 2 : c[i] \in S
      <4>1. \A i \in m..m + 2 : i \in 1..Len(c)  BY <1>2, <1>3
      <4>. QED  BY <4>1, LenFacts
    <3>2. m \in Int /\ m + 2 \in Int  BY <1>2
    <3>3. \A i \in 1..(m + 2) - m + 1 : SubSeq(c, m, m + 2)[i] = c[m + i - 1]
      BY <3>1, <3>2, SubSeqProperties
    <3>4. /\ 1 \in 1..(m + 2) - m + 1 /\ 2 \in 1..(m + 2) - m + 1 /\ 3 \in 1..(m + 2) - m + 1
          /\ m + 1 - 1 = m /\ m + 2 - 1 = m + 1 /\ m + 3 - 1 = m + 2
      BY <1>2
    <3>5. Frame[1] = c[m] /\ Frame[2] = c[m + 1] /\ Frame[3] = c[m + 2]
      BY <2>2, <3>3, <3>4
    <3>. QED  BY <1>1, <1>3, <3>5 DEF Match
  <2>. QED  BY <2>1, <2>2
<1>. QED  BY <1>3 DEF MatchEnd, Match

LEMMA FirstFacts ==
    ASSUME NEW S, Sep \in S, Digits \in S, NEW c \in Seq(S), NEW i \in 1..Len(c) + 1, Matches(c, i) # {},
           NEW m, m = First(Matches(c, i))
    PROVE  /\ m \in i..Len(c) /\ MatchEnd(c, m) = m + 2 /\ m + 2 <= Len(c)
           /\ \A j \in i..m - 1 : MatchEnd(c, j) = 0
<1>1. Len(c) \in Nat /\ i \in Nat /\ i >= 1  OBVIOUS
<1>2. Matches(c, i) \in SUBSET Nat  BY <1>1 DEF Matches
<1>3. \E n \in Matches(c, i) : \A j \in Matches(c, i) : n <= j
  BY <1>2, Least
<1>4. m \in Matches(c, i) /\ \A j \in Matches(c, i) : m <= j
  BY <1>3 DEF First
<1>5. m \in i..Len(c) /\ m \in 1..Len(c) /\ m \in Nat /\ MatchEnd(c, m) # 0
  BY <1>1, <1>4 DEF Matches
<1>6. MatchEnd(c, m) = IF Match(c, m) THEN m + 2 ELSE 0
  BY <1>5, MatchFacts
<1>7. MatchEnd(c, m) = m + 2 /\ m + 2 <= Len(c)
  BY <1>5, <1>6 DEF Match
<1>8. ASSUME NEW j \in i..m - 1 PROVE MatchEnd(c, j) = 0
  <2>1. j \in i..Len(c) /\ ~(m <= j)  BY <1>1, <1>5
  <2>2. j \notin Matches(c, i)  BY <1>4, <2>1
  <2>. QED  BY <2>1, <2>2 DEF Matches
<1>. QED  BY <1>5, <1>7, <1>8

\* g does what From has to from k on.
Splits(c, k, g, S) ==
    /\ g \in [k..Len(c) + 1 -> Seq(Seq(S))]
    /\ \A i \in k..Len(c) + 1 : g[i] = Rest(c, g, i)

LEMMA PartType ==
    ASSUME NEW S, NEW c \in Seq(S), NEW i \in 1..Len(c) + 1, NEW j \in 0..Len(c)
    PROVE  Part(c, i, j) \in Seq(Seq(S))
<1>1. Len(c) \in Nat /\ i \in Int /\ j \in Int  OBVIOUS
<1>2. \A k \in i..j : k \in 1..Len(c)  BY <1>1
<1>3. \A k \in i..j : c[k] \in S  BY <1>2, LenFacts
<1>4. SubSeq(c, i, j) \in Seq(S)  BY <1>1, <1>3, SubSeqProperties
<1>. QED  BY <1>4 DEF Part

LEMMA RestFacts ==
    ASSUME NEW S, Sep \in S, Digits \in S, NEW c \in Seq(S), NEW i \in 1..Len(c) + 1,
           NEW f, \A j \in i + 1..Len(c) + 1 : f[j] \in Seq(Seq(S)),
           NEW g, \A j \in i + 1..Len(c) + 1 : g[j] = f[j]
    PROVE  Rest(c, f, i) \in Seq(Seq(S)) /\ Rest(c, g, i) = Rest(c, f, i)
<1>1. Len(c) \in Nat /\ i \in Nat /\ i >= 1  OBVIOUS
<1>2. CASE Matches(c, i) = {}
  <2>1. Len(c) \in 0..Len(c)  BY <1>1
  <2>2. Part(c, i, Len(c)) \in Seq(Seq(S))  BY <2>1, PartType
  <2>. QED  BY <1>2, <2>2 DEF Rest
<1>3. CASE Matches(c, i) # {}
  <2> DEFINE m == First(Matches(c, i))
             e == MatchEnd(c, m) + 1
  <2>1. m \in i..Len(c) /\ MatchEnd(c, m) = m + 2 /\ m + 2 <= Len(c)
    BY <1>3, FirstFacts
  <2>2. Rest(c, f, i) = Part(c, i, m - 1) \o f[e] /\ Rest(c, g, i) = Part(c, i, m - 1) \o g[e]
    BY <1>3 DEF Rest
  <2>3. e = m + 3 BY <1>1, <2>1
  <2> HIDE DEF m, e
  <2>4. e \in i + 1..Len(c) + 1 /\ m - 1 \in 0..Len(c)
    BY <1>1, <2>1, <2>3
  <2>5. f[e] \in Seq(Seq(S)) /\ g[e] = f[e] /\ Part(c, i, m - 1) \in Seq(Seq(S))
    BY <2>4, PartType
  <2> DEFINE q == Part(c, i, m - 1)
             r == f[e]
             T == Seq(S)
  <2>6. q \in Seq(T) /\ r \in Seq(T)  BY <2>5
  <2> HIDE DEF q, r, T
  <2>7. q \o r \in Seq(T)  BY <2>6, ConcatFacts
  <2>. QED  BY <2>2, <2>5, <2>7 DEF q, r, T
<1>. QED  BY <1>2, <1>3

LEMMA SplitsStep ==
    ASSUME NEW S, Sep \in S, Digits \in S, NEW c \in Seq(S), NEW k \in 1..Len(c) + 1,
           NEW f, Splits(c, k + 1, f, S)
    PROVE  \E g : Splits(c, k, g, S)
<1> DEFINE n == Len(c) + 1
           new == Rest(c, f, k)
           g == [i \in k..n |-> IF i = k THEN new ELSE f[i]]
<1>1. Len(c) \in Nat /\ k \in Nat /\ k >= 1 /\ k <= n  OBVIOUS
<1>2. \A j \in k + 1..n : f[j] \in Seq(Seq(S))  BY DEF Splits
<1>3. new \in Seq(Seq(S))  BY <1>2, RestFacts
<1> HIDE DEF new
<1>4. \A j \in k + 1..n : j \in k..n /\ j # k  BY <1>1
<1>5. \A j \in k + 1..n : g[j] = f[j]  BY <1>4
<1>6. g[k] = new  BY <1>1
<1>7. g \in [k..n -> Seq(Seq(S))]
  <2>1. \A i \in k..n : i # k => i \in k + 1..n  BY <1>1
  <2>. QED  BY <1>2, <1>3, <2>1
<1> HIDE DEF g
<1>8. ASSUME NEW i \in k..n PROVE g[i] = Rest(c, g, i)
  <2>1. i \in 1..Len(c) + 1 /\ \A j \in i + 1..Len(c) + 1 : j \in k + 1..n  BY <1>1
  <2>2. \A j \in i + 1..Len(c) + 1 : f[j] \in Seq(Seq(S)) /\ g[j] = f[j]  BY <1>2, <1>5, <2>1
  <2>3. Rest(c, g, i) = Rest(c, f, i)  BY <2>1, <2>2, RestFacts
  <2>4. CASE i = k  BY <1>6, <2>3, <2>4 DEF new
  <2>5. CASE i # k
    <3>1. i \in k + 1..n  BY <1>1, <2>5
    <3>2. f[i] = Rest(c, f, i)  BY <3>1 DEF Splits
    <3>. QED  BY <1>5, <2>3, <3>1, <3>2
  <2>. QED  BY <2>4, <2>5
<1>9. Splits(c, k, g, S)  BY <1>7, <1>8 DEF Splits
<1>. QED  BY <1>9

LEMMA SplitsExists ==
    ASSUME NEW S, Sep \in S, Digits \in S, NEW c \in Seq(S)
    PROVE  \E g : Splits(c, 1, g, S)
<1> DEFINE n == Len(c) + 1
           Bad == {k \in 1..n : ~\E g : Splits(c, k, g, S)}
<1>1. Len(c) \in Nat /\ n \in Nat /\ 1 \in 1..n  OBVIOUS
<1> SUFFICES ASSUME Bad # {} PROVE FALSE
  BY <1>1
<1>2. PICK k \in Bad : \A j \in Bad : j <= k
  <2>1. Bad \in SUBSET (0..n)  BY <1>1
  <2> HIDE DEF Bad
  <2>. QED  BY <1>1, <2>1, Greatest
<1>3. k \in 1..n /\ k \in Nat /\ ~(k + 1 <= k)  BY <1>1, <1>2
<1>4. \E f : Splits(c, k + 1, f, S)
  <2>1. CASE k = n
    <3>1. k + 1..n = {}  BY <1>3, <2>1
    <3>2. Splits(c, k + 1, <<>>, S)  BY <3>1 DEF Splits
    <3>. QED  BY <3>2
  <2>2. CASE k # n
    <3>1. k + 1 \in 1..n  BY <1>1, <1>3, <2>2
    <3>2. k + 1 \notin Bad  BY <1>2, <1>3
    <3>. QED  BY <3>1, <3>2
  <2>. QED  BY <2>1, <2>2
<1>5. \E g : Splits(c, k, g, S)
  BY <1>3, <1>4, SplitsStep
<1>. QED  BY <1>2, <1>5

LEMMA FromFacts ==
    ASSUME NEW S, Sep \in S, Digits \in S, NEW c \in Seq(S)
    PROVE  \A i \in 1..Len(c) + 1 : From(c)[i] = Rest(c, From(c), i)
<1> DEFINE New(g) == [i \in 1..Len(c) + 1 |-> Rest(c, g, i)]
<1>1. PICK g : Splits(c, 1, g, S)
  BY SplitsExists
<1>2. g = New(g)
  BY <1>1 DEF Splits
<1>3. From(c) = New(From(c))
  BY <1>2 DEF From
<1>. QED  BY <1>3

-----------------------------------------------------------------------------
(* Split undoes EncodePayload. *)

\* Packets that are not empty and do not look like a frame.
Plain(ps) == \A k \in 1..Len(ps) : ps[k] # <<>> /\ ~Framelike(ps[k])

LEMMA LayoutFacts ==
    ASSUME NEW S, NEW c \in Seq(S), NEW ps \in Seq(Seq(S)), NEW E, Layout(c, E, ps), NEW k \in 1..Len(ps)
    PROVE  /\ Len(c) \in Nat /\ Len(ps) \in Nat /\ ps[k] \in Seq(S) /\ Len(ps[k]) \in Nat
           /\ E[k-1] \in 0..Len(c) /\ E[k] \in 0..Len(c) /\ E[k] = E[k-1] + 3 + Len(ps[k])
<1>1. Len(c) \in Nat /\ Len(ps) \in Nat /\ ps[k] \in Seq(S)  BY LenFacts
<1>2. k - 1 \in 0..Len(ps) /\ k \in 0..Len(ps)  BY <1>1
<1>3. Len(ps[k]) \in Nat  BY <1>1, LenFacts
<1>4. E[k] = E[k-1] + 3 + Len(ps[k])  BY DEF Layout
<1>5. E \in [0..Len(ps) -> 0..Len(c)]  BY DEF Layout
<1>. QED  BY <1>1, <1>2, <1>3, <1>4, <1>5

\* The same as bounds.
LEMMA SpanFacts ==
    ASSUME NEW S, NEW c \in Seq(S), NEW ps \in Seq(Seq(S)), NEW E, Layout(c, E, ps), NEW k \in 1..Len(ps)
    PROVE  /\ Len(c) \in Nat /\ Len(ps) \in Nat /\ ps[k] \in Seq(S) /\ Len(ps[k]) \in Nat
           /\ E[k-1] \in Nat /\ E[k] \in Nat /\ E[k] = E[k-1] + 3 + Len(ps[k])
           /\ E[k] <= Len(c) /\ E[k-1] + 3 + Len(ps[k]) <= Len(c)
<1>1. /\ Len(c) \in Nat /\ Len(ps) \in Nat /\ ps[k] \in Seq(S) /\ Len(ps[k]) \in Nat
      /\ E[k-1] \in 0..Len(c) /\ E[k] \in 0..Len(c) /\ E[k] = E[k-1] + 3 + Len(ps[k])
  BY LayoutFacts
<1>. QED  BY <1>1

\* The expression matches at the frame of a packet ...
LEMMA FrameMatches ==
    ASSUME NEW S, Sep \in S, Digits \in S, NEW c \in Seq(S), NEW ps \in Seq(Seq(S)),
           NEW E, Layout(c, E, ps), NEW k \in 1..Len(ps)
    PROVE  E[k-1] + 1 \in 1..Len(c) /\ MatchEnd(c, E[k-1] + 1) = E[k-1] + 3
<1> DEFINE e == E[k-1]
           l == Len(ps[k])
<1>1. Len(c) \in Nat /\ e \in Nat /\ l \in Nat /\ e + 3 + l <= Len(c)
  BY SpanFacts
<1>2. c[e + 1] = Sep /\ c[e + 2] = Digits /\ c[e + 3] = Sep
  BY DEF Layout
<1> HIDE DEF e, l
<1>3. e + 1 \in 1..Len(c) /\ (e + 1) + 2 <= Len(c) /\ (e + 1) + 1 = e + 2 /\ (e + 1) + 2 = e + 3
  BY <1>1
<1>4. Match(c, e + 1)  BY <1>2, <1>3 DEF Match
<1>5. MatchEnd(c, e + 1) = (e + 1) + 2  BY <1>3, <1>4, MatchFacts
<1>. QED  BY <1>3, <1>5 DEF e

\* ... and nowhere in the packet.
LEMMA PacketMatchless ==
    ASSUME NEW S, Sep \in S, Digits \in S, NEW c \in Seq(S), NEW ps \in Seq(Seq(S)), Plain(ps),
           NEW E, Layout(c, E, ps), NEW k \in 1..Len(ps), NEW m \in E[k-1] + 4..E[k]
    PROVE  m \in 1..Len(c) /\ MatchEnd(c, m) = 0
<1> DEFINE e == E[k-1]
           p == ps[k]
           l == Len(ps[k])
           i == m - (e + 3)
<1>1. Len(c) \in Nat /\ e \in Nat /\ l \in Nat /\ e + 3 + l <= Len(c) /\ E[k] = e + 3 + l /\ Len(ps) \in Nat
  BY SpanFacts
<1>2. m \in 1..Len(c) /\ i \in 1..l /\ m = e + 3 + i
  <2>1. m \in e + 4..E[k]  OBVIOUS
  <2> HIDE DEF e, l
  <2>. QED  BY <1>1, <2>1
<1>3. \A j \in 1..l : c[e + 3 + j] = p[j]
  BY DEF Layout
<1>4. ~Framelike(p)
  BY DEF Plain
<1>a. l = Len(p)  OBVIOUS
<1> HIDE DEF e, l, i, p
<1>5. Sep # Digits  BY DEF Sep, Digits
<1> SUFFICES ASSUME Match(c, m) PROVE FALSE
  BY <1>2, MatchFacts
<1>6. c[m] = Sep /\ c[m + 1] = Digits /\ m + 2 <= Len(c)
  BY DEF Match
<1>7. CASE i < l
  <2>1. i + 1 \in 1..l /\ m + 1 = e + 3 + (i + 1) /\ i \in 1..l - 1  BY <1>1, <1>2, <1>7
  <2>2. p[i] = Sep /\ p[i + 1] = Digits  BY <1>2, <1>3, <1>6, <2>1
  <2>. QED  BY <1>4, <1>a, <2>1, <2>2 DEF Framelike, Sep, Digits
<1>8. CASE i = l
  <2>1. m = E[k]  BY <1>1, <1>2, <1>8
  <2>2. k # Len(ps)
    <3>1. E[Len(ps)] = Len(c)  BY DEF Layout
    <3>. QED  BY <1>1, <1>6, <2>1, <3>1
  <2>3. k + 1 \in 1..Len(ps) /\ (k + 1) - 1 = k  BY <1>1, <2>2
  <2>4. c[E[k] + 1] = Sep  BY <2>3 DEF Layout
  <2>. QED  BY <1>5, <1>6, <2>1, <2>4
<1>. QED  BY <1>1, <1>2, <1>7, <1>8

\* The packets from the k-th on.
Onward(ps, k) == [j \in 1..Len(ps) - k + 1 |-> ps[k + j - 1]]

LEMMA SplitLast ==
    ASSUME NEW S, Sep \in S, Digits \in S, NEW c \in Seq(S), NEW ps \in Seq(Seq(S)), ps # <<>>, Plain(ps),
           NEW E, Layout(c, E, ps)
    PROVE  From(c)[E[Len(ps) - 1] + 4] = Onward(ps, Len(ps))
<1> DEFINE k == Len(ps)
           e == E[k-1]
           p == ps[k]
           l == Len(p)
<1>1. Len(ps) \in Nat /\ k \in 1..Len(ps)  OBVIOUS
<1>2. Len(c) \in Nat /\ e \in Nat /\ l \in Nat /\ E[k] = e + 3 + l /\ p \in Seq(S)
  BY <1>1, LayoutFacts
<1>3. E[k] = Len(c) /\ \A i \in 1..l : c[e + 3 + i] = p[i]
  BY <1>1 DEF Layout
<1>4. p # <<>>  BY <1>1 DEF Plain
<1>5. l >= 1  BY <1>2, <1>4
<1>6. \A m \in e + 4..E[k] : MatchEnd(c, m) = 0
  BY <1>1, PacketMatchless
<1>7. Onward(ps, k) = <<p>>
  <2>1. Len(ps) - k + 1 = 1 /\ \A j \in 1..1 : k + j - 1 = k  BY <1>1
  <2>2. Onward(ps, k) = [j \in 1..1 |-> p]  BY <2>1 DEF Onward
  <2>. QED  BY <2>2
<1> HIDE DEF k, e, p, l
<1>8. Matches(c, e + 4) = {}
  BY <1>3, <1>6 DEF Matches
<1>9. e + 4 \in 1..Len(c) + 1 /\ ~(e + 4 > Len(c)) /\ (e + 3) + 1 = e + 4 /\ (e + 3) + l = Len(c) /\ e + 3 \in Nat
  BY <1>2, <1>3, <1>5
<1>10. SubSeq(c, (e + 3) + 1, (e + 3) + l) = p
  <2>1. (e + 3) + Len(p) <= Len(c)  BY <1>9, <1>2 DEF l
  <2>2. \A i \in 1..Len(p) : c[(e + 3) + i] = p[i]  BY <1>3 DEF l
  <2>. QED  BY <1>2, <1>9, <2>1, <2>2, SegmentFacts DEF l
<1>11. Part(c, e + 4, Len(c)) = <<p>>
  BY <1>9, <1>10 DEF Part
<1>12. From(c)[e + 4] = Rest(c, From(c), e + 4)
  BY <1>9, FromFacts
<1>. QED  BY <1>7, <1>8, <1>11, <1>12 DEF Rest, k, e

\* The first match from i on is at m, if there is none in between.
LEMMA FirstIs ==
    ASSUME NEW S, Sep \in S, Digits \in S, NEW c \in Seq(S), NEW i \in 1..Len(c) + 1,
           NEW m \in i..Len(c), MatchEnd(c, m) # 0, \A j \in i..m - 1 : MatchEnd(c, j) = 0
    PROVE  Matches(c, i) # {} /\ First(Matches(c, i)) = m
<1>1. m \in Matches(c, i)  BY DEF Matches
<1>2. Len(c) \in Nat /\ i \in Nat  OBVIOUS
<1> DEFINE f == First(Matches(c, i))
<1>3. f \in i..Len(c) /\ MatchEnd(c, f) = f + 2 /\ \A j \in i..f - 1 : MatchEnd(c, j) = 0
  <2>1. Matches(c, i) # {}  BY <1>1
  <2>. QED  BY <2>1, FirstFacts
<1> HIDE DEF f
<1>4. MatchEnd(c, f) # 0  BY <1>2, <1>3
<1>5. ~(f < m)  BY <1>2, <1>3, <1>4
<1>6. ~(m < f)  BY <1>2, <1>3
<1>7. f = m  BY <1>2, <1>3, <1>5, <1>6
<1>. QED  BY <1>1, <1>7 DEF f

LEMMA SplitNext ==
    ASSUME NEW S, Sep \in S, Digits \in S, NEW c \in Seq(S), NEW ps \in Seq(Seq(S)), Plain(ps),
           NEW E, Layout(c, E, ps), NEW k \in 1..Len(ps), k # Len(ps),
           From(c)[E[k] + 4] = Onward(ps, k + 1)
    PROVE  From(c)[E[k-1] + 4] = Onward(ps, k)
<1> DEFINE e == E[k-1]
           p == ps[k]
           l == Len(p)
           i == e + 4
           m == E[k] + 1
<1>1. Len(ps) \in Nat /\ k + 1 \in 1..Len(ps) /\ (k + 1) - 1 = k  OBVIOUS
<1>2. Len(c) \in Nat /\ e \in Nat /\ l \in Nat /\ E[k] = e + 3 + l /\ p \in Seq(S) /\ E[k] <= Len(c)
  BY SpanFacts
<1>3. \A j \in 1..l : c[e + 3 + j] = p[j]
  BY DEF Layout
<1>4. l >= 1
  <2>1. p # <<>>  BY DEF Plain
  <2>. QED  BY <1>2, <2>1
<1>5. \A j \in i..E[k] : MatchEnd(c, j) = 0
  BY PacketMatchless
<1>6. m \in 1..Len(c) /\ MatchEnd(c, m) = E[k] + 3
  <2> DEFINE j == k + 1
  <2>1. j \in 1..Len(ps) /\ E[j-1] = E[k]  BY <1>1
  <2> HIDE DEF j
  <2>2. E[j-1] + 1 \in 1..Len(c) /\ MatchEnd(c, E[j-1] + 1) = E[j-1] + 3  BY <2>1, FrameMatches
  <2>. QED  BY <2>1, <2>2
<1> DEFINE r == Onward(ps, k + 1)
           s == Onward(ps, k)
<1>7. Len(ps) - (k + 1) + 1 = Len(ps) - k /\ \A j \in 1..Len(ps) - k : (k + 1) + j - 1 = k + j /\ k + j \in 1..Len(ps)
  BY <1>1
<1>8. r = [j \in 1..Len(ps) - k |-> ps[k + j]]
  BY <1>7 DEF Onward
<1>9. s = [j \in 1..Len(ps) - k + 1 |-> ps[k + j - 1]]
  BY DEF Onward
<1> HIDE DEF e, p, l, r, s
<1>10. i \in 1..Len(c) + 1 /\ m \in i..Len(c) /\ m - 1 = E[k] /\ MatchEnd(c, m) # 0
  BY <1>2, <1>4, <1>6
<1>11. Matches(c, i) # {} /\ First(Matches(c, i)) = m
  BY <1>5, <1>10, FirstIs
<1>12. From(c)[i] = Rest(c, From(c), i)
  BY <1>10, FromFacts
<1>13. From(c)[i] = Part(c, i, m - 1) \o r
  <2>1. MatchEnd(c, m) + 1 = E[k] + 4  BY <1>2, <1>6
  <2>2. From(c)[MatchEnd(c, m) + 1] = r  BY <2>1 DEF r
  <2>. QED  BY <1>11, <1>12, <2>2 DEF Rest
<1>14. Part(c, i, m - 1) = <<p>>
  <2>1. ~(i > m - 1) /\ (e + 3) + 1 = i /\ (e + 3) + Len(p) = m - 1 /\ e + 3 \in Nat /\ (e + 3) + Len(p) <= Len(c)
    BY <1>2, <1>4, <1>10 DEF l
  <2>2. \A j \in 1..Len(p) : c[(e + 3) + j] = p[j]  BY <1>3 DEF l
  <2>3. SubSeq(c, (e + 3) + 1, (e + 3) + Len(p)) = p  BY <1>2, <2>1, <2>2, SegmentFacts
  <2>. QED  BY <2>1, <2>3 DEF Part
<1>15. <<p>> \o r = s
  <2> DEFINE T == Seq(S)
  <2>1. p \in T /\ \A j \in 1..Len(ps) : ps[j] \in T  BY <1>2, LenFacts
  <2> HIDE DEF T
  <2>2. r \in Seq(T) /\ Len(r) = Len(ps) - k
    <3> DEFINE d == Len(ps) - k
    <3>1. \A j \in 1..d : ps[k + j] \in T  BY <1>7, <2>1
    <3>2. d \in Nat /\ r = [j \in 1..d |-> ps[k + j]]  BY <1>1, <1>8
    <3> HIDE DEF d, r
    <3>3. r \in Seq(T) /\ Len(r) = d  BY <3>1, <3>2
    <3>. QED  BY <3>3 DEF d
  <2>3. s \in Seq(T) /\ Len(s) = Len(ps) - k + 1
    <3>1. \A j \in 1..Len(ps) - k + 1 : k + j - 1 \in 1..Len(ps)  BY <1>1
    <3>2. \A j \in 1..Len(ps) - k + 1 : ps[k + j - 1] \in T  BY <2>1, <3>1
    <3>. QED  BY <1>1, <1>9, <3>2
  <2> DEFINE q == <<p>>
             t == q \o r
  <2>4. q \in Seq(T) /\ Len(q) = 1 /\ q[1] = p  BY <2>1
  <2> HIDE DEF q
  <2>5. t \in Seq(T) /\ Joined(t, q, r)  BY <2>2, <2>4, ConcatFacts
  <2> HIDE DEF t
  <2>6. Len(t) = Len(s)  BY <1>1, <2>2, <2>3, <2>4, <2>5 DEF Joined
  <2>7. t[1] = p /\ \A j \in 1..Len(ps) - k : t[1 + j] = ps[k + j]
    <3>1. \A j \in 1..Len(q) : t[j] = q[j]  BY <2>5 DEF Joined
    <3>2. \A j \in 1..Len(r) : t[Len(q) + j] = r[j]  BY <2>5 DEF Joined
    <3>3. t[1] = p  BY <2>4, <3>1
    <3>4. \A j \in 1..Len(ps) - k : t[1 + j] = r[j]  BY <2>2, <2>4, <3>2
    <3>. QED  BY <1>8, <3>3, <3>4
  <2>8. s[1] = p
    <3>1. 1 \in 1..Len(ps) - k + 1 /\ k + 1 - 1 = k  BY <1>1
    <3>. QED  BY <1>9, <3>1 DEF p
  <2>9. ASSUME NEW j \in 1..Len(s) PROVE t[j] = s[j]
    <3>1. CASE j = 1  BY <2>7, <2>8, <3>1
    <3>2. CASE j # 1
      <4>1. j - 1 \in 1..Len(ps) - k /\ 1 + (j - 1) = j /\ k + (j - 1) = k + j - 1  BY <1>1, <2>3, <3>2
      <4>2. s[j] = ps[k + j - 1]  BY <1>9, <2>3
      <4>. QED  BY <2>7, <4>1, <4>2
    <3>. QED  BY <3>1, <3>2
  <2>10. t = s  BY <2>3, <2>5, <2>6, <2>9, SeqEqual
  <2>. QED  BY <2>10 DEF t, q
<1>. QED  BY <1>13, <1>14, <1>15 DEF e, s

LEMMA SplitLayout ==
    ASSUME NEW S, Sep \in S, Digits \in S, NEW c \in Seq(S), NEW ps \in Seq(Seq(S)), ps # <<>>, Plain(ps),
           NEW E, Layout(c, E, ps)
    PROVE  Split(c) = ps
<1> DEFINE n == Len(ps)
           Good(k) == From(c)[E[k-1] + 4] = Onward(ps, k)
           Bad == {k \in 1..n : ~Good(k)}
<1>1. n \in Nat /\ 1 \in 1..n /\ n \in 1..n  OBVIOUS
<1>2. Good(n)  BY SplitLast
<1>3. ASSUME NEW k \in 1..n, k # n, Good(k + 1) PROVE Good(k)
  <2>1. (k + 1) - 1 = k  BY <1>1
  <2>. QED  BY <1>3, <2>1, SplitNext
<1> HIDE DEF Good
<1>4. Bad = {}
  <2> SUFFICES ASSUME Bad # {} PROVE FALSE  OBVIOUS
  <2>1. PICK k \in Bad : \A j \in Bad : j <= k
    <3>1. Bad \in SUBSET (0..n)  BY <1>1
    <3> HIDE DEF Bad, n
    <3>. QED  BY <1>1, <3>1, Greatest
  <2>2. k # n /\ k \in 1..n /\ ~Good(k)  BY <1>2, <2>1
  <2>3. k + 1 \in 1..n /\ ~(k + 1 <= k)  BY <1>1, <2>2
  <2>4. Good(k + 1)  BY <2>1, <2>3
  <2>. QED  BY <1>3, <2>2, <2>4
<1>5. Good(1)  BY <1>1, <1>4
<1>6. 1 - 1 = 0 /\ E[0] = 0 /\ 0 + 4 = 4 /\ 0 + 3 = 3 /\ 0 + 1 = 1  BY DEF Layout
<1>7. From(c)[4] = Onward(ps, 1)  BY <1>5, <1>6 DEF Good
<1>8. 1 \in 1..Len(c) /\ MatchEnd(c, 1) = 3
  BY <1>1, <1>6, FrameMatches
<1>9. Matches(c, 1) # {} /\ First(Matches(c, 1)) = 1
  <2>1. Len(c) \in Nat  OBVIOUS
  <2>2. 1 \in 1..Len(c) + 1 /\ 1..1 - 1 = {}  BY <2>1
  <2>. QED  BY <1>8, <2>2, FirstIs
<1>10. From(c)[1] = Part(c, 1, 0) \o Onward(ps, 1)
  <2>1. 1 \in 1..Len(c) + 1 /\ 1 - 1 = 0 /\ 3 + 1 = 4  BY <1>8
  <2>2. From(c)[1] = Rest(c, From(c), 1)  BY <2>1, FromFacts
  <2>. QED  BY <1>7, <1>8, <1>9, <2>1, <2>2 DEF Rest
<1>11. Part(c, 1, 0) = <<>>  BY DEF Part
<1>12. Onward(ps, 1) = ps
  <2>1. Len(ps) - 1 + 1 = Len(ps) /\ \A j \in 1..Len(ps) : 1 + j - 1 = j  BY <1>1
  <2>2. Onward(ps, 1) = [j \in 1..Len(ps) |-> ps[j]]  BY <2>1 DEF Onward
  <2>. QED  BY <2>2
<1>13. <<>> \o ps = ps  BY ConcatEmptySeq
<1>. QED  BY <1>10, <1>11, <1>12, <1>13, SplitIsFrom

-----------------------------------------------------------------------------
(* Trim, and with it what handleContent makes of a request. *)

Space == <<"space">>

\* Trim cuts c off behind its L-th token.
CutAt(c, L) ==
    /\ L \in 1..Len(c) /\ Trim(c) = SubSeq(c, 1, L)
    /\ c[L] # Space /\ \A j \in L + 1..Len(c) : c[j] = Space

LEMMA TrimFacts ==
    ASSUME NEW S, NEW c \in Seq(S), c # <<>>, c[1] # Space
    PROVE  \E L : CutAt(c, L)
<1> DEFINE V == Visible(c)
           a == CHOOSE i \in V : \A j \in V : i <= j
           L == CHOOSE i \in V : \A j \in V : j <= i
<1>1. Len(c) \in Nat /\ DOMAIN c = 1..Len(c) /\ 1 \in 1..Len(c)  OBVIOUS
<1>2. V = {i \in 1..Len(c) : c[i] # Space}  BY <1>1 DEF Visible, Space
<1>3. 1 \in V /\ V \in SUBSET (0..Len(c)) /\ V \in SUBSET Nat  BY <1>1, <1>2
<1>4. Trim(c) = SubSeq(c, a, L)  BY <1>3 DEF Trim
<1> HIDE DEF V
<1>5. \E i \in V : \A j \in V : i <= j  BY <1>3, Least
<1>6. \E i \in V : \A j \in V : j <= i  BY <1>1, <1>3, Greatest
<1>7. a \in V /\ \A j \in V : a <= j  BY <1>5
<1>8. L \in V /\ \A j \in V : j <= L  BY <1>6
<1> HIDE DEF a, L
<1>9. a = 1
  <2>1. a <= 1 /\ a \in 1..Len(c)  BY <1>2, <1>3, <1>7
  <2>. QED  BY <1>1, <2>1
<1>10. L \in 1..Len(c) /\ c[L] # Space  BY <1>2, <1>8
<1>11. ASSUME NEW j \in L + 1..Len(c) PROVE c[j] = Space
  <2>1. j \in 1..Len(c) /\ ~(j <= L)  BY <1>1, <1>10
  <2>. QED  BY <1>2, <1>8, <2>1
<1>12. CutAt(c, L)  BY <1>4, <1>9, <1>10, <1>11 DEF CutAt
<1>. QED  BY <1>12

LEMMA PrefixFacts ==
    ASSUME NEW S, NEW c \in Seq(S), NEW L \in 0..Len(c)
    PROVE  /\ SubSeq(c, 1, L) \in Seq(S) /\ Len(SubSeq(c, 1, L)) = L
           /\ \A i \in 1..L : SubSeq(c, 1, L)[i] = c[i]
<1> DEFINE s == SubSeq(c, 1, L)
<1>1. Len(c) \in Nat /\ L \in Nat /\ \A i \in 1..L : i \in 1..Len(c)  OBVIOUS
<1>2. \A i \in 1..L : c[i] \in S  BY <1>1, LenFacts
<1>3. 1 \in Int /\ L \in Int  BY <1>1
<1>4. /\ s \in Seq(S) /\ Len(s) = IF 1 <= L THEN L - 1 + 1 ELSE 0
      /\ \A i \in 1..L - 1 + 1 : s[i] = c[1 + i - 1]
  BY <1>2, <1>3, SubSeqProperties
<1>5. L - 1 + 1 = L /\ \A i \in 1..L : 1 + i - 1 = i  BY <1>1
<1> HIDE DEF s
<1>6. s \in Seq(S) /\ Len(s) = L /\ \A i \in 1..L : s[i] = c[i]  BY <1>1, <1>4, <1>5
<1>. QED  BY <1>6 DEF s

\* What Trim leaves of a packet.
LEMMA TrimmedFacts ==
    ASSUME NEW S, NEW c \in Seq(S), c # <<>>, c[1] # Space, NEW L, CutAt(c, L)
    PROVE  /\ Trim(c) \in Seq(S) /\ Len(Trim(c)) = L /\ Trim(c) # <<>>
           /\ \A i \in 1..L : Trim(c)[i] = c[i]
           /\ ~Framelike(c) => ~Framelike(Trim(c))
<1> DEFINE t == Trim(c)
<1>1. Len(c) \in Nat /\ L \in 1..Len(c) /\ L \in 0..Len(c) /\ Trim(c) = SubSeq(c, 1, L)
  BY DEF CutAt
<1>2. t \in Seq(S) /\ Len(t) = L /\ \A i \in 1..L : t[i] = c[i]
  BY <1>1, PrefixFacts
<1> HIDE DEF t
<1>3. t # <<>>  BY <1>1, <1>2
<1>4. ASSUME Framelike(t) PROVE Framelike(c)
  <2>1. PICK i \in 1..L - 1 : t[i] = <<"sep">> /\ t[i + 1] = <<"digits">>
    BY <1>2, <1>4 DEF Framelike
  <2>2. i \in 1..L /\ i + 1 \in 1..L /\ i \in 1..Len(c) - 1  BY <1>1, <2>1
  <2>3. c[i] = <<"sep">> /\ c[i + 1] = <<"digits">>  BY <1>2, <2>1, <2>2
  <2>. QED  BY <2>2, <2>3 DEF Framelike
<1>. QED  BY <1>2, <1>3, <1>4 DEF t

\* Every packet begins with its header.
Headed(ps) == \A k \in 1..Len(ps) : ps[k][1] # Space /\ ps[k][1] # Sep

\* The packets of a body, as its trimmed text has them.
LastTrimmed(ps) == [ps EXCEPT ![Len(ps)] = Trim(@)]

LEMMA LastTrimmedFacts ==
    ASSUME NEW S, NEW ps \in Seq(Seq(S)), ps # <<>>, Plain(ps), Headed(ps)
    PROVE  /\ LastTrimmed(ps) \in Seq(Seq(S)) /\ Len(LastTrimmed(ps)) = Len(ps)
           /\ Plain(LastTrimmed(ps))
           /\ \A k \in 1..Len(ps) : k # Len(ps) => LastTrimmed(ps)[k] = ps[k]
           /\ LastTrimmed(ps)[Len(ps)] = Trim(ps[Len(ps)])
<1> DEFINE n == Len(ps)
           p == ps[n]
           t == Trim(p)
           qs == LastTrimmed(ps)
<1>1. n \in Nat /\ n \in 1..n /\ p \in Seq(S)  BY LenFacts
<1>2. p # <<>> /\ ~Framelike(p) /\ p[1] # Space  BY <1>1 DEF Plain, Headed
<1>3. \E L : CutAt(p, L)  BY <1>1, <1>2, TrimFacts
<1>4. t \in Seq(S) /\ t # <<>> /\ ~Framelike(t)  BY <1>1, <1>2, <1>3, TrimmedFacts
<1>5. qs = [ps EXCEPT ![n] = t]  BY DEF LastTrimmed
<1> HIDE DEF t, qs, n, p
<1>6. n = Len(ps)  BY DEF n
<1>7. qs \in Seq(Seq(S)) /\ Len(qs) = n /\ \A k \in 1..n : qs[k] = IF k = n THEN t ELSE ps[k]
  BY <1>1, <1>4, <1>5, <1>6
<1>8. Plain(qs)
  BY <1>4, <1>6, <1>7 DEF Plain
<1>. QED  BY <1>1, <1>6, <1>7, <1>8 DEF qs, t, p

\* The white space at the end of a body is that at the end of its last packet.
LEMMA LayoutTrim ==
    ASSUME NEW S, NEW c \in Seq(S), NEW ps \in Seq(Seq(S)), ps # <<>>, Plain(ps), Headed(ps),
           NEW E, Layout(c, E, ps)
    PROVE  Trim(c) \in Seq(S) /\ Trim(c)[1] = Sep /\ \E F : Layout(Trim(c), F, LastTrimmed(ps))
<1> DEFINE n == Len(ps)
           p == ps[n]
           e == E[n-1] + 3
           qs == LastTrimmed(ps)
           t == Trim(c)
<1>1. n \in Nat /\ n \in 1..n /\ 1 \in 1..n /\ p \in Seq(S)  BY LenFacts
<1>2. Len(c) \in Nat /\ E[n-1] \in Nat /\ Len(p) \in Nat /\ E[n-1] + 3 + Len(p) = Len(c)
  <2>1. E[n] = Len(c)  BY DEF Layout
  <2>. QED  BY <1>1, <2>1, LayoutFacts
<1>3. p # <<>> /\ ~Framelike(p) /\ p[1] # Space  BY <1>1 DEF Plain, Headed
<1>4. \A i \in 1..Len(p) : c[e + i] = p[i]  BY <1>1 DEF Layout
<1>5. c[1] = Sep
  <2>1. 1 - 1 = 0 /\ E[0] = 0 /\ 0 + 1 = 1  BY DEF Layout
  <2>2. c[E[1-1] + 1] = Sep  BY <1>1 DEF Layout
  <2>. QED  BY <2>1, <2>2
<1>6. Sep # Space  BY DEF Sep, Space
<1>7. e \in Nat /\ e >= 3 /\ e + Len(p) = Len(c)  BY <1>2
<1>8. \A k \in 0..n : k # n => E[k] \in Nat /\ E[k] + 3 <= e
  <2> DEFINE Bad == {k \in 0..n : k # n /\ ~(E[k] \in Nat /\ E[k] + 3 <= e)}
  <2> SUFFICES ASSUME Bad # {} PROVE FALSE  OBVIOUS
  <2>1. PICK k \in Bad : \A j \in Bad : j <= k
    <3>1. Bad \in SUBSET (0..n)  BY <1>1
    <3> HIDE DEF Bad, n
    <3>. QED  BY <1>1, <3>1, Greatest
  <2>2. k \in 0..n /\ k # n  BY <2>1
  <2>3. k # n - 1
    <3>1. k = n - 1 => E[k] = E[n-1]  OBVIOUS
    <3>. QED  BY <1>2, <2>1, <3>1
  <2>4. k + 1 \in 0..n /\ k + 1 \in 1..n /\ k + 1 # n /\ ~(k + 1 <= k) /\ (k + 1) - 1 = k  BY <1>1, <2>2, <2>3
  <2>5. E[k+1] \in Nat /\ E[k+1] + 3 <= e  BY <2>1, <2>4
  <2> DEFINE j == k + 1
  <2>6. j \in 1..n /\ E[j] \in Nat /\ E[j] + 3 <= e /\ E[j-1] = E[k]  BY <2>4, <2>5
  <2> HIDE DEF j, Bad
  <2> HIDE DEF e, n
  <2>7. Len(ps[j]) \in Nat /\ E[j-1] \in Nat /\ E[j] = E[j-1] + 3 + Len(ps[j])  BY <2>6, SpanFacts DEF n
  <2>8. E[k] \in Nat /\ E[k] + 3 <= e
    <3> DEFINE x == E[k]
               y == E[j]
               l == Len(ps[j])
    <3>1. x \in Nat /\ y = x + 3 + l /\ y + 3 <= e /\ l \in Nat /\ e \in Nat  BY <1>7, <2>6, <2>7
    <3> HIDE DEF x, y, l
    <3>2. x + 3 <= e  BY <3>1
    <3>. QED  BY <3>1, <3>2 DEF x
  <2>. QED  BY <2>1, <2>2, <2>8 DEF Bad
<1>9. e = E[n-1] + 3  OBVIOUS
<1> HIDE DEF e, p, t, qs
<1>10. c # <<>> /\ c[1] # Space
  BY <1>2, <1>5, <1>6, <1>7
<1>11. PICK L : CutAt(c, L)
  BY <1>10, TrimFacts
<1>12. t \in Seq(S) /\ Len(t) = L /\ \A i \in 1..L : t[i] = c[i]
  BY <1>10, <1>11, TrimmedFacts DEF t
<1>13. PICK l : CutAt(p, l)
  BY <1>1, <1>3, TrimFacts
<1>14. Trim(p) \in Seq(S) /\ Len(Trim(p)) = l /\ \A i \in 1..l : Trim(p)[i] = p[i]
  BY <1>1, <1>3, <1>13, TrimmedFacts
<1>15. l \in 1..Len(p) /\ p[l] # Space /\ \A i \in l + 1..Len(p) : p[i] = Space
  BY <1>13 DEF CutAt
<1>16. L \in 1..Len(c) /\ c[L] # Space /\ \A i \in L + 1..Len(c) : c[i] = Space
  BY <1>11 DEF CutAt
<1>17. L = e + l
  <2> DEFINE m == Len(p)
             k == Len(c)
  <2>1. e \in Nat /\ m \in Nat /\ k \in Nat /\ e + m = k /\ l \in 1..m /\ L \in 1..k /\ e >= 3
    BY <1>2, <1>7, <1>15, <1>16
  <2>2. /\ p[l] # Space /\ \A i \in l + 1..m : p[i] = Space
        /\ c[L] # Space /\ \A i \in L + 1..k : c[i] = Space
        /\ \A i \in 1..m : c[e + i] = p[i]
    BY <1>4, <1>15, <1>16
  <2> HIDE DEF m, k
  <2>3. e + l \in 1..k /\ c[e + l] = p[l]  BY <2>1, <2>2
  <2>4. ~(L < e + l)
    <3>1. L < e + l => e + l \in L + 1..k  BY <2>1, <2>3
    <3>. QED  BY <2>2, <2>3, <3>1
  <2>5. ~(e + l < L)
    <3> SUFFICES ASSUME e + l < L PROVE FALSE  OBVIOUS
    <3> DEFINE i == L - e
    <3>1. i \in l + 1..m /\ i \in 1..m /\ e + i = L  BY <2>1
    <3> HIDE DEF i
    <3>2. p[i] = Space /\ c[e + i] = p[i]  BY <2>2, <3>1
    <3>. QED  BY <2>2, <3>1, <3>2
  <2>. QED  BY <2>1, <2>4, <2>5
<1>18. Len(qs) = n /\ qs[n] = Trim(p) /\ \A k \in 1..n : k # n => qs[k] = ps[k]
  BY LastTrimmedFacts DEF qs, p
<1> DEFINE F == [k \in 0..n |-> IF k = n THEN L ELSE E[k]]
<1>19. F[n] = L /\ \A k \in 0..n : k # n => F[k] = E[k]
  BY <1>1
<1>20. F \in [0..n -> 0..L]
  <2>1. \A k \in 0..n : k # n => E[k] \in 0..L  BY <1>7, <1>8, <1>15, <1>17
  <2>2. L \in 0..L  BY <1>2, <1>16
  <2>. QED  BY <2>1, <2>2
<1> HIDE DEF F
<1>21. ASSUME NEW k \in 1..n, k # n
       PROVE  /\ F[k] = F[k-1] + 3 + Len(qs[k])
              /\ t[F[k-1] + 1] = Sep /\ t[F[k-1] + 2] = Digits /\ t[F[k-1] + 3] = Sep
              /\ \A i \in 1..Len(qs[k]) : t[F[k-1] + 3 + i] = qs[k][i]
  <2> DEFINE d == E[k-1]
             q == ps[k]
  <2>1. k \in 0..n /\ k - 1 \in 0..n /\ k - 1 # n  BY <1>1, <1>21
  <2>2. F[k] = E[k] /\ F[k-1] = d /\ qs[k] = q  BY <1>18, <1>19, <1>21, <2>1
  <2>3. /\ E[k] = d + 3 + Len(q) /\ c[d + 1] = Sep /\ c[d + 2] = Digits /\ c[d + 3] = Sep
        /\ \A i \in 1..Len(q) : c[d + 3 + i] = q[i]
    BY DEF Layout
  <2>4. d \in Nat /\ E[k] \in Nat /\ E[k] + 3 <= e /\ Len(q) \in Nat  BY <1>8, <1>21, <2>1, LayoutFacts
  <2> HIDE DEF d, q
  <2>5. \A i \in 1..3 + Len(q) : d + i \in 1..L  BY <1>7, <1>15, <1>17, <2>3, <2>4
  <2>6. 1 \in 1..3 + Len(q) /\ 2 \in 1..3 + Len(q) /\ 3 \in 1..3 + Len(q)  BY <2>4
  <2>7. t[d + 1] = Sep /\ t[d + 2] = Digits /\ t[d + 3] = Sep  BY <1>12, <2>3, <2>5, <2>6
  <2>8. ASSUME NEW i \in 1..Len(q) PROVE t[d + 3 + i] = q[i]
    <3>1. 3 + i \in 1..3 + Len(q) /\ d + 3 + i = d + (3 + i)  BY <2>4
    <3>. QED  BY <1>12, <2>3, <2>5, <3>1
  <2>. QED  BY <2>2, <2>3, <2>7, <2>8
<1>22. /\ F[n] = F[n-1] + 3 + Len(qs[n])
       /\ t[F[n-1] + 1] = Sep /\ t[F[n-1] + 2] = Digits /\ t[F[n-1] + 3] = Sep
       /\ \A i \in 1..Len(qs[n]) : t[F[n-1] + 3 + i] = qs[n][i]
  <2> DEFINE d == E[n-1]
  <2>1. n - 1 \in 0..n /\ n - 1 # n  BY <1>1
  <2>2. F[n-1] = d  BY <1>19, <2>1
  <2>3. c[d + 1] = Sep /\ c[d + 2] = Digits /\ c[d + 3] = Sep  BY <1>1 DEF Layout
  <2>4. d \in Nat /\ e = d + 3  BY <1>2, <1>9
  <2> HIDE DEF d, n
  <2>5. d + 1 \in 1..L /\ d + 2 \in 1..L /\ d + 3 \in 1..L  BY <1>15, <1>17, <2>4
  <2>6. t[d + 1] = Sep /\ t[d + 2] = Digits /\ t[d + 3] = Sep  BY <1>12, <2>3, <2>5
  <2>7. L = d + 3 + l  BY <1>17, <2>4
  <2>8. ASSUME NEW i \in 1..l PROVE t[d + 3 + i] = Trim(p)[i]
    <3>1. e + i \in 1..L /\ i \in 1..Len(p) /\ d + 3 + i = e + i  BY <1>2, <1>7, <1>15, <1>17, <2>4
    <3>. QED  BY <1>4, <1>12, <1>14, <3>1
  <2>. QED  BY <1>14, <1>18, <1>19, <2>2, <2>6, <2>7, <2>8
<1>23. F[0] = 0
  <2>1. E[0] = 0  BY DEF Layout
  <2>2. 0 \in 0..n /\ 0 # n  BY <1>1
  <2>. QED  BY <1>19, <2>1, <2>2
<1>24. Layout(t, F, qs)
  <2>1. ASSUME NEW k \in 1..n
        PROVE  /\ F[k] = F[k-1] + 3 + Len(qs[k])
               /\ t[F[k-1] + 1] = Sep /\ t[F[k-1] + 2] = Digits /\ t[F[k-1] + 3] = Sep
               /\ \A i \in 1..Len(qs[k]) : t[F[k-1] + 3 + i] = qs[k][i]
    BY <1>21, <1>22
  <2> HIDE DEF n
  <2>. QED  BY <1>12, <1>18, <1>19, <1>20, <1>23, <2>1 DEF Layout
<1>25. t[1] = Sep
  <2>1. 1 \in 1..L  BY <1>2, <1>16
  <2>. QED  BY <1>5, <1>12, <2>1
<1>. QED  BY <1>12, <1>24, <1>25 DEF t, qs

(* What handleContent reads from a request is what the browser encoded, packet *)
(* by packet and in order, but for the white space at the end of the last one: *)
(* for any number of packets with separators, digits and white space in them.  *)
THEOREM PayloadRead ==
    ASSUME NEW S, Sep \in S, Digits \in S, NEW ps \in Seq(Seq(S)), ps # <<>>, Plain(ps), Headed(ps)
    PROVE  Contents(EncodePayload(ps)) = LastTrimmed(ps)
<1>1. CASE Len(ps) = 1
  <2> DEFINE p == ps[1]
             t == Trim(p)
  <2>1. p \in Seq(S) /\ p # <<>> /\ ~Framelike(p) /\ p[1] # Space /\ p[1] # Sep
    BY <1>1, LenFacts DEF Plain, Headed
  <2>2. PICK L : CutAt(p, L)  BY <2>1, TrimFacts
  <2>3. t \in Seq(S) /\ Len(t) = L /\ \A i \in 1..L : t[i] = p[i]  BY <2>1, <2>2, TrimmedFacts
  <2>4. 1 \in 1..L  BY <2>2 DEF CutAt
  <2>5. t[1] # <<"sep">>  BY <2>1, <2>3, <2>4 DEF Sep
  <2>6. EncodePayload(ps) = p  BY <1>1 DEF EncodePayload
  <2>7. Contents(EncodePayload(ps)) = <<t>>  BY <2>5, <2>6 DEF Contents
  <2>8. LastTrimmed(ps) = <<t>>
    <3> DEFINE qs == LastTrimmed(ps)
    <3>1. qs \in Seq(Seq(S)) /\ Len(qs) = 1 /\ qs[1] = t  BY <1>1, LastTrimmedFacts
    <3> HIDE DEF qs, t
    <3>. QED  BY <3>1 DEF qs
  <2>. QED  BY <2>7, <2>8
<1>2. CASE Len(ps) # 1
  <2> DEFINE c == EncodePayload(ps)
             t == Trim(c)
             qs == LastTrimmed(ps)
  <2>1. Len(ps) # 0  OBVIOUS
  <2>2. c \in Seq(S) /\ \E E : Layout(c, E, ps)  BY <1>2, <2>1, EncodeLayout
  <2>3. t \in Seq(S) /\ t[1] = Sep /\ \E F : Layout(t, F, qs)  BY <2>2, LayoutTrim
  <2>4. qs \in Seq(Seq(S)) /\ Len(qs) = Len(ps) /\ Plain(qs)  BY LastTrimmedFacts
  <2>5. Contents(c) = IF t # <<>> /\ t[1] = Sep THEN Split(t) ELSE <<t>>  BY DEF Contents, Sep
  <2> HIDE DEF c, t, qs
  <2>6. qs # <<>>  BY <2>1, <2>4
  <2>7. Split(t) = qs  BY <2>3, <2>4, <2>6, SplitLayout
  <2>8. t # <<>>
    <3>1. PICK F : Layout(t, F, qs)  BY <2>3
    <3>2. Len(qs) \in Nat /\ Len(qs) \in 1..Len(qs)  BY <2>4, <2>6
    <3>3. F[Len(qs) - 1] + 1 \in 1..Len(t)  BY <2>3, <2>4, <3>1, <3>2, FrameMatches
    <3>. QED  BY <2>3, <3>3
  <2>. QED  BY <2>3, <2>5, <2>7, <2>8 DEF c, qs
<1>. QED  BY <1>1, <1>2

-----------------------------------------------------------------------------
(* Packets. *)

\* What the browser writes: a message has a serial number.
Sent    == {h \in Headers : h.type = "event" => h.serial # 0}
Heads   == {<<"head", h>> : h \in Sent}
Letters == Tokens \cup Heads

\* A header, then text that does not look like a frame.
Wells ==
    {p \in Seq(Letters) : /\ p # <<>> /\ p[1] \in Heads
                          /\ \A i \in 2..Len(p) : p[i] \in Tokens
                          /\ ~Framelike(p)}

HeadOf(p) == p[1][2]

LEMMA LetterFacts ==
    /\ Sep \in Letters /\ Digits \in Letters
    /\ \A x \in Heads : x # Sep /\ x # Space /\ x # Digits /\ x[2] \in Sent /\ x[2] \in Headers /\ Len(x) = 2
BY DEF Letters, Tokens, Heads, Sent, Sep, Digits, Space

LEMMA WellFacts ==
    ASSUME NEW p \in Wells
    PROVE  /\ p \in Seq(Letters) /\ p # <<>> /\ ~Framelike(p) /\ Len(p) \in Nat /\ 1 \in 1..Len(p)
           /\ p[1] \in Heads /\ p[1] # Sep /\ p[1] # Space /\ HeadOf(p) \in Sent
           /\ Piece(p)
<1>1. p \in Seq(Letters) /\ p # <<>> /\ ~Framelike(p) /\ p[1] \in Heads /\ \A i \in 2..Len(p) : p[i] \in Tokens
  BY DEF Wells
<1>2. Len(p) \in Nat /\ 1 \in 1..Len(p) /\ DOMAIN p = 1..Len(p)  BY <1>1
<1>3. p[1] # Sep /\ p[1] # Space /\ p[1][2] \in Sent /\ p[1][2] \in Headers /\ Len(p[1]) = 2  BY <1>1, LetterFacts
<1>4. \A i \in DOMAIN p \ {1} : p[i] \in Tokens
  <2>1. \A i \in DOMAIN p \ {1} : i \in 2..Len(p)  BY <1>2
  <2>. QED  BY <1>1, <2>1
<1>. QED  BY <1>1, <1>2, <1>3, <1>4 DEF HeadOf, Piece

LEMMA PacketWell ==
    ASSUME NEW type \in {"connect", "event", "heartbeat", "disconnect"}, NEW e \in Spaces,
           NEW id \in 0..Len(Texts), NEW n \in 0..Len(Texts), NEW data \in Seq(Tokens), ~Framelike(data),
           type = "event" => n # 0
    PROVE  /\ Packet(type, e, id, n, data) \in Wells
           /\ HeadOf(Packet(type, e, id, n, data)) = [type |-> type, endpoint |-> e, id |-> id, serial |-> n]
<1> DEFINE h == [type |-> type, endpoint |-> e, id |-> id, serial |-> n]
           x == <<"head", h>>
           q == <<x>>
           p == q \o data
<1>1. h \in Sent  BY DEF Headers, Sent
<1>2. x \in Heads /\ x[2] = h  BY <1>1 DEF Heads
<1>3. Packet(type, e, id, n, data) = p  BY DEF Packet, Header
<1> HIDE DEF h
<1> HIDE DEF x
<1>4. data \in Seq(Letters) /\ q \in Seq(Letters) /\ Len(q) = 1 /\ q[1] = x
  BY <1>2, SeqMonotonic DEF Letters
<1> HIDE DEF q
<1>5. p \in Seq(Letters) /\ Joined(p, q, data)  BY <1>4, ConcatFacts
<1>6. Len(data) \in Nat  BY <1>4, LenFacts
<1>7. Len(p) = 1 + Len(data) /\ p[1] = x /\ \A i \in 1..Len(data) : p[1 + i] = data[i]
  <2>1. 1 \in 1..1  OBVIOUS
  <2>. QED  BY <1>4, <1>5, <2>1 DEF Joined
<1> HIDE DEF p
<1>8. \A i \in 2..Len(p) : p[i] = data[i - 1] /\ i - 1 \in 1..Len(data)
  <2> SUFFICES ASSUME NEW i \in 2..Len(p) PROVE p[i] = data[i - 1] /\ i - 1 \in 1..Len(data)  OBVIOUS
  <2>1. i - 1 \in 1..Len(data) /\ 1 + (i - 1) = i  BY <1>6, <1>7
  <2>. QED  BY <1>7, <2>1
<1>9. \A i \in 2..Len(p) : p[i] \in Tokens  BY <1>8, LenFacts
<1>10. ~Framelike(p)
  <2> SUFFICES ASSUME NEW i \in 1..Len(p) - 1, p[i] = Sep, p[i + 1] = Digits PROVE FALSE
    BY DEF Framelike, Sep, Digits
  <2>1. i # 1  BY <1>2, <1>7, LetterFacts
  <2>2. i \in 2..Len(p) /\ i + 1 \in 2..Len(p) /\ i - 1 \in 1..Len(data) - 1 /\ (i + 1) - 1 = (i - 1) + 1
    BY <1>6, <1>7, <2>1
  <2>3. data[i - 1] = Sep /\ data[(i - 1) + 1] = Digits  BY <1>8, <2>2
  <2>. QED  BY <2>2, <2>3 DEF Framelike, Sep, Digits
<1>11. p # <<>>  BY <1>6, <1>7
<1>12. p \in Wells  BY <1>2, <1>5, <1>7, <1>9, <1>10, <1>11 DEF Wells
<1>13. HeadOf(p) = h  BY <1>2, <1>7 DEF HeadOf
<1>. QED  BY <1>3, <1>12, <1>13 DEF h

LEMMA TextFacts ==
    ASSUME NEW n \in 1..Len(Texts)
    PROVE  Texts[n] \in Seq(Tokens) /\ ~Framelike(Texts[n])
BY TextsAssumption, LenFacts

LEMMA NothingFacts == <<>> \in Seq(Tokens) /\ ~Framelike(<<>>)
<1>1. Len(<<>>) = 0 /\ 1..0 - 1 = {}  OBVIOUS
<1>. QED  BY <1>1 DEF Framelike

LEMMA TrimWell ==
    ASSUME NEW p \in Wells
    PROVE  Trim(p) \in Wells /\ HeadOf(Trim(p)) = HeadOf(p)
<1> DEFINE t == Trim(p)
<1>1. p \in Seq(Letters) /\ p # <<>> /\ ~Framelike(p) /\ p[1] # Space /\ p[1] \in Heads
  BY WellFacts
<1>2. PICK L : CutAt(p, L)  BY <1>1, TrimFacts
<1>3. t \in Seq(Letters) /\ Len(t) = L /\ t # <<>> /\ ~Framelike(t) /\ \A i \in 1..L : t[i] = p[i]
  BY <1>1, <1>2, TrimmedFacts
<1>4. L \in 1..Len(p) /\ Len(p) \in Nat  BY <1>1, <1>2, LenFacts DEF CutAt
<1>5. 1 \in 1..L /\ \A i \in 2..L : i \in 1..L /\ i \in 2..Len(p)  BY <1>4
<1>6. \A i \in 2..Len(p) : p[i] \in Tokens  BY DEF Wells
<1> HIDE DEF t
<1>7. t[1] = p[1] /\ \A i \in 2..Len(t) : t[i] \in Tokens  BY <1>3, <1>5, <1>6
<1>8. t \in Wells  BY <1>1, <1>3, <1>7 DEF Wells
<1>. QED  BY <1>7, <1>8 DEF t, HeadOf

-----------------------------------------------------------------------------
(* The line of headers the server has still to see. *)

HeadsIn(q) == [i \in 1..Len(q) |-> HeadOf(q[i])]

\* What the worker has read and what waits in the browser, behind the request being
\* handled.
Later == HeadsIn(arrived) \o HeadsIn(up)
Line  == HeadsIn(work) \o Later

LEMMA HeadsFacts ==
    ASSUME NEW q \in Seq(Wells)
    PROVE  HeadsIn(q) \in Seq(Sent) /\ Len(HeadsIn(q)) = Len(q)
<1>1. Len(q) \in Nat /\ \A i \in 1..Len(q) : HeadOf(q[i]) \in Sent  BY LenFacts, WellFacts
<1>. QED  BY <1>1 DEF HeadsIn

LEMMA HeadsAppend ==
    ASSUME NEW q \in Seq(Wells), NEW p \in Wells
    PROVE  Append(q, p) \in Seq(Wells) /\ HeadsIn(Append(q, p)) = Append(HeadsIn(q), HeadOf(p))
<1> DEFINE r == Append(q, p)
           n == Len(q)
<1>1. n \in Nat /\ r \in Seq(Wells) /\ Len(r) = n + 1 /\ \A i \in 1..n + 1 : r[i] = IF i = n + 1 THEN p ELSE q[i]
  BY AppendProperties
<1>2. HeadsIn(q) \in Seq(Sent) /\ Len(HeadsIn(q)) = n /\ HeadOf(p) \in Sent  BY HeadsFacts, WellFacts
<1>3. HeadsIn(q) = [i \in 1..n |-> HeadOf(q[i])]  BY DEF HeadsIn
<1> DEFINE s == HeadsIn(q)
           h == HeadOf(p)
           t == Append(s, h)
           u == HeadsIn(r)
<1>4. u = [i \in 1..n + 1 |-> HeadOf(r[i])] /\ u \in Seq(Sent) /\ Len(u) = n + 1
  BY <1>1, HeadsFacts DEF HeadsIn
<1>5. s \in Seq(Sent) /\ Len(s) = n /\ h \in Sent /\ s = [i \in 1..n |-> HeadOf(q[i])] /\ h = HeadOf(p)
  BY <1>2, <1>3
<1> HIDE DEF u, s, h, r, n
<1>6. t \in Seq(Sent) /\ Len(t) = n + 1 /\ t[n + 1] = h /\ \A i \in 1..n : t[i] = s[i]
  <2> DEFINE A == Sent
  <2>1. s \in Seq(A) /\ h \in A  BY <1>5
  <2> HIDE DEF A
  <2>2. t \in Seq(A) /\ Len(t) = Len(s) + 1 /\ \A i \in 1..Len(s) : t[i] = s[i]
    BY <2>1, AppendProperties
  <2>3. t[Len(s) + 1] = h  BY <2>1, AppendProperties
  <2>. QED  BY <1>5, <2>2, <2>3 DEF A
<1>7. \A i \in 1..n + 1 : u[i] = t[i]
  <2> SUFFICES ASSUME NEW i \in 1..n + 1 PROVE u[i] = t[i]  OBVIOUS
  <2>1. CASE i = n + 1  BY <1>1, <1>4, <1>5, <1>6, <2>1
  <2>2. CASE i # n + 1
    <3>1. i \in 1..n  BY <1>1, <2>2
    <3>. QED  BY <1>1, <1>4, <1>5, <1>6, <2>2, <3>1
  <2>. QED  BY <2>1, <2>2
<1>8. u = t  BY <1>4, <1>6, <1>7, SeqEqual
<1>. QED  BY <1>1, <1>8 DEF u, s, h, r

LEMMA SuffixFacts ==
    ASSUME NEW S, NEW q \in Seq(S), NEW n \in 0..Len(q)
    PROVE  /\ SubSeq(q, n + 1, Len(q)) \in Seq(S) /\ Len(SubSeq(q, n + 1, Len(q))) = Len(q) - n
           /\ \A i \in 1..Len(q) - n : SubSeq(q, n + 1, Len(q))[i] = q[n + i]
<1> DEFINE s == SubSeq(q, n + 1, Len(q))
           l == Len(q)
<1>1. l \in Nat /\ n \in Nat /\ n <= l /\ \A i \in n + 1..l : i \in 1..l  OBVIOUS
<1>2. \A i \in n + 1..l : q[i] \in S  BY <1>1, LenFacts
<1>3. n + 1 \in Int /\ l \in Int  BY <1>1
<1>4. /\ s \in Seq(S) /\ Len(s) = IF n + 1 <= l THEN l - (n + 1) + 1 ELSE 0
      /\ \A i \in 1..l - (n + 1) + 1 : s[i] = q[(n + 1) + i - 1]
  <2> HIDE DEF l
  <2>1. s = SubSeq(q, n + 1, l)  BY DEF l
  <2>. QED  BY <1>2, <1>3, <2>1, SubSeqProperties
<1> HIDE DEF s, l
<1>5. l - (n + 1) + 1 = l - n /\ \A i \in 1..l - n : (n + 1) + i - 1 = n + i  BY <1>1
<1>6. s \in Seq(S) /\ Len(s) = l - n /\ \A i \in 1..l - n : s[i] = q[n + i]  BY <1>1, <1>4, <1>5
<1>. QED  BY <1>6 DEF s, l

LEMMA TailFacts ==
    ASSUME NEW S, NEW q \in Seq(S), q # <<>>
    PROVE  /\ Tail(q) \in Seq(S) /\ Len(Tail(q)) = Len(q) - 1 /\ Len(q) >= 1
           /\ \A i \in 1..Len(q) - 1 : Tail(q)[i] = q[i + 1]
<1>1. Tail(q) \in Seq(S) /\ Len(Tail(q)) = Len(q) - 1 /\ \A i \in 1..Len(Tail(q)) : Tail(q)[i] = q[i + 1]
  BY HeadTailProperties
<1>2. Len(q) \in Nat /\ Len(q) # 0  OBVIOUS
<1>. QED  BY <1>1, <1>2

\* What a browser encoded, and what the server makes of it.
LEMMA ContentsFacts ==
    ASSUME NEW ps \in Seq(Wells), ps # <<>>, NEW w, w = Contents(EncodePayload(ps))
    PROVE  /\ w \in Seq(Wells) /\ Len(w) = Len(ps) /\ HeadsIn(w) = HeadsIn(ps)
           /\ \A i \in 1..Len(ps) : w[i] = ps[i] \/ (i = Len(w) /\ w[i] = Trim(ps[i]))
<1> DEFINE n == Len(ps)
<1>1. n \in Nat /\ n \in 1..n /\ \A k \in 1..n : ps[k] \in Wells  BY LenFacts
<1>2. \A k \in 1..n : ps[k] \in Seq(Letters) /\ ps[k] # <<>> /\ ~Framelike(ps[k]) /\ ps[k][1] # Sep /\ ps[k][1] # Space
  BY <1>1, WellFacts
<1>3. ps \in Seq(Seq(Letters))  BY <1>1, <1>2
<1>4. Plain(ps) /\ Headed(ps)  BY <1>2 DEF Plain, Headed
<1>5. w = LastTrimmed(ps)
  BY <1>3, <1>4, PayloadRead, LetterFacts
<1>6. Len(w) = n /\ w[n] = Trim(ps[n]) /\ (\A k \in 1..n : k # n => w[k] = ps[k]) /\ w \in Seq(Seq(Letters))
  BY <1>3, <1>4, <1>5, LastTrimmedFacts
<1>7. \A k \in 1..n : w[k] \in Wells /\ HeadOf(w[k]) = HeadOf(ps[k])
  <2> SUFFICES ASSUME NEW k \in 1..n PROVE w[k] \in Wells /\ HeadOf(w[k]) = HeadOf(ps[k])  OBVIOUS
  <2>1. CASE k # n  BY <1>1, <1>6, <2>1
  <2>2. CASE k = n  BY <1>1, <1>6, <2>2, TrimWell
  <2>. QED  BY <2>1, <2>2
<1>8. w \in Seq(Wells)
  <2> DEFINE A == Wells
  <2>1. w \in [1..n -> A]  BY <1>6, <1>7
  <2>2. n \in Nat  BY <1>1
  <2> HIDE DEF A, n
  <2>3. w \in Seq(A)  BY <2>1, <2>2
  <2>. QED  BY <2>3 DEF A
<1>9. HeadsIn(w) = HeadsIn(ps)
  BY <1>6, <1>7 DEF HeadsIn
<1>10. \A i \in 1..n : w[i] = ps[i] \/ (i = Len(w) /\ w[i] = Trim(ps[i]))
  BY <1>6
<1>. QED  BY <1>6, <1>8, <1>9, <1>10

LEMMA HeadsTail ==
    ASSUME NEW q \in Seq(Wells), q # <<>>
    PROVE  HeadsIn(Tail(q)) = Tail(HeadsIn(q)) /\ HeadsIn(q) # <<>> /\ HeadsIn(q)[1] = HeadOf(q[1])
<1> DEFINE n == Len(q)
           t == Tail(q)
           u == HeadsIn(t)
           h == HeadsIn(q)
           v == Tail(h)
<1>1. t \in Seq(Wells) /\ Len(t) = n - 1 /\ n >= 1 /\ n \in Nat /\ \A i \in 1..n - 1 : t[i] = q[i + 1]
  BY TailFacts, LenFacts
<1>2. h = [i \in 1..n |-> HeadOf(q[i])]  BY DEF HeadsIn
<1>3. h \in Seq(Sent) /\ Len(h) = n  BY HeadsFacts
<1> HIDE DEF n, t
<1>4. u = [i \in 1..n - 1 |-> HeadOf(t[i])] /\ u \in Seq(Sent) /\ Len(u) = n - 1
  BY <1>1, HeadsFacts DEF HeadsIn
<1> HIDE DEF u, h
<1>5. h # <<>>  BY <1>1, <1>3
<1>6. v \in Seq(Sent) /\ Len(v) = n - 1 /\ \A i \in 1..n - 1 : v[i] = h[i + 1]
  BY <1>3, <1>5, TailFacts
<1> HIDE DEF v
<1>7. \A i \in 1..n - 1 : u[i] = v[i]
  <2> SUFFICES ASSUME NEW i \in 1..n - 1 PROVE u[i] = v[i]  OBVIOUS
  <2>1. i + 1 \in 1..n  BY <1>1
  <2>. QED  BY <1>1, <1>2, <1>4, <1>6, <2>1
<1>8. u = v  BY <1>4, <1>6, <1>7, SeqEqual
<1>9. h[1] = HeadOf(q[1])
  <2>1. 1 \in 1..n  BY <1>1
  <2>. QED  BY <1>2, <2>1
<1>. QED  BY <1>5, <1>8, <1>9 DEF u, v, h, t

LEMMA HeadsSplit ==
    ASSUME NEW q \in Seq(Wells), NEW n \in 0..Len(q)
    PROVE  HeadsIn(SubSeq(q, 1, n)) \o HeadsIn(SubSeq(q, n + 1, Len(q))) = HeadsIn(q)
<1> DEFINE l == Len(q)
           a == SubSeq(q, 1, n)
           b == SubSeq(q, n + 1, l)
           x == HeadsIn(a)
           y == HeadsIn(b)
           z == x \o y
           h == HeadsIn(q)
<1>1. l \in Nat /\ n \in Nat /\ n <= l  OBVIOUS
<1>2. a \in Seq(Wells) /\ Len(a) = n /\ \A i \in 1..n : a[i] = q[i]  BY PrefixFacts
<1>3. b \in Seq(Wells) /\ Len(b) = l - n /\ \A i \in 1..l - n : b[i] = q[n + i]  BY SuffixFacts
<1>4. h = [i \in 1..l |-> HeadOf(q[i])] /\ h \in Seq(Sent) /\ Len(h) = l  BY HeadsFacts DEF HeadsIn
<1> HIDE DEF a, b, h, l
<1>5. x = [i \in 1..n |-> HeadOf(a[i])] /\ x \in Seq(Sent) /\ Len(x) = n
  BY <1>2, HeadsFacts DEF HeadsIn
<1>6. y = [i \in 1..l - n |-> HeadOf(b[i])] /\ y \in Seq(Sent) /\ Len(y) = l - n
  BY <1>3, HeadsFacts DEF HeadsIn
<1> HIDE DEF x, y
<1>7. z \in Seq(Sent) /\ Joined(z, x, y)  BY <1>5, <1>6, ConcatFacts
<1> HIDE DEF z
<1>8. Len(z) = l  BY <1>1, <1>5, <1>6, <1>7 DEF Joined
<1>9. ASSUME NEW i \in 1..l PROVE z[i] = h[i]
  <2>1. CASE i \in 1..n
    <3>1. z[i] = x[i]  BY <1>5, <1>7, <2>1 DEF Joined
    <3>. QED  BY <1>2, <1>4, <1>5, <2>1, <3>1
  <2>2. CASE i \notin 1..n
    <3> DEFINE j == i - n
    <3>1. j \in 1..l - n /\ n + j = i  BY <1>1, <2>2
    <3> HIDE DEF j
    <3>2. z[n + j] = y[j]  BY <1>5, <1>6, <1>7, <3>1 DEF Joined
    <3>3. y[j] = HeadOf(q[n + j])  BY <1>3, <1>6, <3>1
    <3>. QED  BY <1>4, <3>1, <3>2, <3>3
  <2>. QED  BY <2>1, <2>2
<1>10. z = h  BY <1>4, <1>7, <1>8, <1>9, SeqEqual
<1>. QED  BY <1>10 DEF z, x, y, a, b, h, l

-----------------------------------------------------------------------------
(* What a step does to the line. *)

In(s) == {s[i] : i \in 1..Len(s)}

LEMMA InAppend ==
    ASSUME NEW S, NEW s \in Seq(S), NEW x \in S
    PROVE  Append(s, x) \in Seq(S) /\ In(Append(s, x)) = In(s) \cup {x}
<1> DEFINE t == Append(s, x)
           n == Len(s)
<1>1. /\ n \in Nat /\ t \in Seq(S) /\ Len(t) = n + 1
      /\ \A i \in 1..n + 1 : t[i] = IF i = n + 1 THEN x ELSE s[i]
  BY AppendProperties
<1>2. In(t) = {t[i] : i \in 1..n + 1} /\ In(s) = {s[i] : i \in 1..n}  BY <1>1 DEF In
<1> HIDE DEF t, n
<1>3. \A i \in 1..n : i \in 1..n + 1 /\ i # n + 1  BY <1>1
<1>4. n + 1 \in 1..n + 1 /\ t[n + 1] = x  BY <1>1
<1>5. \A i \in 1..n : t[i] = s[i]  BY <1>1, <1>3
<1>6. \A i \in 1..n + 1 : i \in 1..n \/ i = n + 1  BY <1>1
<1>7. In(t) \subseteq In(s) \cup {x}  BY <1>2, <1>4, <1>5, <1>6
<1>8. In(s) \subseteq In(t)  BY <1>2, <1>3, <1>5
<1>9. x \in In(t)  BY <1>2, <1>4
<1>. QED  BY <1>1, <1>7, <1>8, <1>9 DEF t

LEMMA InTail ==
    ASSUME NEW S, NEW s \in Seq(S), s # <<>>
    PROVE  Tail(s) \in Seq(S) /\ s[1] \in S /\ In(s) = In(Tail(s)) \cup {s[1]}
<1> DEFINE t == Tail(s)
           n == Len(s)
<1>1. t \in Seq(S) /\ Len(t) = n - 1 /\ n >= 1 /\ n \in Nat /\ \A i \in 1..n - 1 : t[i] = s[i + 1]
  BY TailFacts, LenFacts
<1>2. In(t) = {t[i] : i \in 1..n - 1} /\ In(s) = {s[i] : i \in 1..n}  BY <1>1 DEF In
<1>3. s[1] \in S  BY LenFacts, <1>1
<1> HIDE DEF t, n
<1>4. 1 \in 1..n /\ \A i \in 1..n - 1 : i + 1 \in 1..n  BY <1>1
<1>5. In(t) \cup {s[1]} \subseteq In(s)  BY <1>1, <1>2, <1>4
<1>6. In(s) \subseteq In(t) \cup {s[1]}
  <2> SUFFICES ASSUME NEW i \in 1..n, i # 1 PROVE s[i] \in In(t)  BY <1>2
  <2> DEFINE j == i - 1
  <2>1. j \in 1..n - 1 /\ j + 1 = i  BY <1>1
  <2> HIDE DEF j
  <2>2. t[j] = s[i]  BY <1>1, <2>1
  <2>. QED  BY <1>2, <2>1, <2>2
<1>. QED  BY <1>1, <1>3, <1>5, <1>6 DEF t

LEMMA InConcat ==
    ASSUME NEW S, NEW s \in Seq(S), NEW t \in Seq(S)
    PROVE  s \o t \in Seq(S) /\ In(t) \subseteq In(s \o t)
<1> DEFINE u == s \o t
           n == Len(s)
           m == Len(t)
<1>1. u \in Seq(S) /\ Joined(u, s, t) /\ n \in Nat /\ m \in Nat  BY ConcatFacts, LenFacts
<1> HIDE DEF u
<1>2. Len(u) = n + m /\ \A i \in 1..m : u[n + i] = t[i]  BY <1>1 DEF Joined
<1>3. In(u) = {u[i] : i \in 1..n + m} /\ In(t) = {t[i] : i \in 1..m}  BY <1>2 DEF In
<1> HIDE DEF n, m
<1>4. \A i \in 1..m : n + i \in 1..n + m  BY <1>1
<1>5. In(t) \subseteq In(u)  BY <1>2, <1>3, <1>4
<1>. QED  BY <1>1, <1>5 DEF u

LEMMA AppendConcat ==
    ASSUME NEW S, NEW s \in Seq(S), NEW t \in Seq(S), NEW x \in S
    PROVE  s \o Append(t, x) = Append(s \o t, x)
<1> DEFINE q == <<x>>
           u == s \o t
<1>1. q \in Seq(S) /\ u \in Seq(S)  BY ConcatFacts
<1>2. Append(t, x) = t \o q /\ Append(u, x) = u \o q  BY <1>1, AppendIsConcat
<1>3. s \o (t \o q) = (s \o t) \o q
  <2> HIDE DEF q
  <2>. QED  BY <1>1, ConcatAssociative
<1>. QED  BY <1>2, <1>3

LEMMA TailConcat ==
    ASSUME NEW S, NEW s \in Seq(S), NEW t \in Seq(S), s # <<>>
    PROVE  Tail(s \o t) = Tail(s) \o t /\ s \o t # <<>> /\ (s \o t)[1] = s[1]
<1> DEFINE a == Tail(s)
           u == s \o t
           v == a \o t
           w == Tail(u)
           n == Len(s)
           m == Len(t)
<1>1. n \in Nat /\ m \in Nat /\ n >= 1 /\ a \in Seq(S) /\ Len(a) = n - 1 /\ \A i \in 1..n - 1 : a[i] = s[i + 1]
  BY TailFacts, LenFacts
<1>2. u \in Seq(S) /\ Joined(u, s, t)  BY ConcatFacts
<1> HIDE DEF a, u, n
<1>3. n = Len(s)  BY DEF n
<1>4. v \in Seq(S) /\ Joined(v, a, t)  BY <1>1, ConcatFacts
<1>5. /\ Len(u) = n + m /\ (\A i \in 1..n : u[i] = s[i]) /\ \A i \in 1..m : u[n + i] = t[i]
  BY <1>2, <1>3 DEF Joined
<1> HIDE DEF v
<1>6. /\ Len(v) = n - 1 + m /\ (\A i \in 1..n - 1 : v[i] = a[i]) /\ \A i \in 1..m : v[n - 1 + i] = t[i]
  BY <1>1, <1>4 DEF Joined
<1> HIDE DEF m
<1>7. u # <<>>  BY <1>1, <1>5
<1>8. w \in Seq(S) /\ Len(w) = n + m - 1 /\ \A i \in 1..n + m - 1 : w[i] = u[i + 1]
  <2>1. w \in Seq(S) /\ Len(w) = Len(u) - 1 /\ \A i \in 1..Len(u) - 1 : w[i] = u[i + 1]
    BY <1>2, <1>7, TailFacts
  <2>2. Len(u) - 1 = n + m - 1  BY <1>1, <1>5
  <2> HIDE DEF w
  <2>. QED  BY <2>1, <2>2
<1> HIDE DEF w
<1>9. ASSUME NEW i \in 1..n + m - 1 PROVE w[i] = v[i]
  <2>1. CASE i <= n - 1
    <3> DEFINE j == i + 1
    <3>1. i \in 1..n - 1 /\ j \in 1..n  BY <1>1, <2>1
    <3> HIDE DEF j
    <3>2. u[j] = s[j] /\ v[i] = a[i]  BY <1>5, <1>6, <3>1
    <3>. QED  BY <1>1, <1>8, <3>1, <3>2 DEF j
  <2>2. CASE ~(i <= n - 1)
    <3> DEFINE k == i - (n - 1)
    <3>1. k \in 1..m /\ n + k = i + 1 /\ n - 1 + k = i  BY <1>1, <2>2
    <3> HIDE DEF k
    <3>2. u[n + k] = t[k] /\ v[n - 1 + k] = t[k]  BY <1>5, <1>6, <3>1
    <3>. QED  BY <1>8, <3>1, <3>2
  <2>. QED  BY <2>1, <2>2
<1>10. w = v
  <2>1. Len(w) = Len(v) /\ \A i \in 1..Len(w) : w[i] = v[i]  BY <1>1, <1>6, <1>8, <1>9
  <2>. QED  BY <1>4, <1>8, <2>1, SeqEqual
<1>11. u[1] = s[1]
  <2>1. 1 \in 1..n  BY <1>1
  <2>. QED  BY <1>5, <2>1
<1>. QED  BY <1>7, <1>10, <1>11 DEF u, v, w, a

\* Before a message or a disconnect there is a connect.
Led(s)  == \A i \in 1..Len(s) : s[i].type \in {"event", "disconnect"} =>
                                \E j \in 1..i - 1 : s[j].type = "connect"
Asks(s) == \E h \in In(s) : h.type = "connect"

LEMMA LedAppend ==
    ASSUME NEW S, NEW s \in Seq(S), NEW x \in S, Led(s),
           x.type \notin {"event", "disconnect"} \/ Asks(s)
    PROVE  Led(Append(s, x))
<1> DEFINE t == Append(s, x)
           n == Len(s)
<1>1. n \in Nat /\ Len(t) = n + 1 /\ \A i \in 1..n + 1 : t[i] = IF i = n + 1 THEN x ELSE s[i]
  BY AppendProperties
<1> HIDE DEF t
<1> SUFFICES ASSUME NEW i \in 1..n + 1, t[i].type \in {"event", "disconnect"}
             PROVE  \E j \in 1..i - 1 : t[j].type = "connect"
  BY <1>1 DEF Led, t
<1>2. \E j \in 1..i - 1 : j \in 1..n /\ s[j].type = "connect"
  <2>1. CASE i = n + 1
    <3>1. Asks(s)  BY <1>1, <2>1
    <3>2. PICK j \in 1..n : s[j].type = "connect"  BY <3>1 DEF Asks, In
    <3> HIDE DEF n
    <3>3. j \in 1..i - 1  BY <1>1, <2>1
    <3>. QED  BY <3>2, <3>3
  <2>2. CASE i # n + 1
    <3>1. i \in 1..n  BY <1>1, <2>2
    <3>2. s[i].type \in {"event", "disconnect"}  BY <1>1, <2>2
    <3>3. PICK j \in 1..i - 1 : s[j].type = "connect"  BY <3>1, <3>2 DEF Led
    <3> HIDE DEF n
    <3>4. j \in 1..n  BY <1>1, <3>1
    <3>. QED  BY <3>3, <3>4
  <2>. QED  BY <2>1, <2>2
<1>3. PICK j \in 1..i - 1 : j \in 1..n /\ s[j].type = "connect"  BY <1>2
<1> HIDE DEF n
<1>4. j \in 1..n + 1 /\ j # n + 1  BY <1>1, <1>3
<1>5. t[j] = s[j]  BY <1>1, <1>4
<1>. QED  BY <1>3, <1>5

LEMMA LedTail ==
    ASSUME NEW S, NEW s \in Seq(S), s # <<>>, Led(s)
    PROVE  /\ s[1].type \notin {"event", "disconnect"}
           /\ s[1].type # "connect" => Led(Tail(s))
<1> DEFINE t == Tail(s)
           n == Len(s)
<1>1. Len(t) = n - 1 /\ n >= 1 /\ n \in Nat /\ \A i \in 1..n - 1 : t[i] = s[i + 1]
  BY TailFacts, LenFacts
<1>2. s[1].type \notin {"event", "disconnect"}
  <2>1. 1 \in 1..n /\ 1..1 - 1 = {}  BY <1>1
  <2>. QED  BY <2>1 DEF Led
<1>3. ASSUME s[1].type # "connect" PROVE Led(t)
  <2> HIDE DEF t
  <2> SUFFICES ASSUME NEW i \in 1..n - 1, t[i].type \in {"event", "disconnect"}
               PROVE  \E j \in 1..i - 1 : t[j].type = "connect"
    BY <1>1 DEF Led
  <2> DEFINE k == i + 1
  <2>1. k \in 1..n /\ i \in Nat /\ k = i + 1  BY <1>1
  <2>2. t[i] = s[k]  BY <1>1
  <2> HIDE DEF k
  <2>3. PICK m \in 1..k - 1 : s[m].type = "connect"  BY <2>1, <2>2 DEF Led
  <2> HIDE DEF n
  <2>4. m # 1  BY <1>3, <2>3
  <2> DEFINE j == m - 1
  <2>5. j \in 1..i - 1 /\ j \in 1..n - 1 /\ j + 1 = m  BY <1>1, <2>1, <2>4
  <2> HIDE DEF j
  <2>6. t[j] = s[m]  BY <1>1, <2>5
  <2>. QED  BY <2>3, <2>5, <2>6
<1>. QED  BY <1>2, <1>3

-----------------------------------------------------------------------------
(* Types. *)

Callees == Handlers \cup {Nobody}

Queues ==
    /\ up \in Seq(Wells) /\ arrived \in Seq(Wells)
    /\ body \in Seq(Wells) /\ work \in Seq(Wells)

Tasks    == [older : SUBSET Callees, future : SUBSET Callees]
Channels == {"open", "shut", "gone"}

\* Stronger than TypeOK: the packets are whole, the ids are not more than the
\* messages that were sent, and a frame has one packet.
Typed ==
    /\ opens \subseteq Endpoints /\ spaces \subseteq Spaces
    /\ kind \in {"websocket", "polling"}
    /\ acks \in [Spaces -> SUBSET (Ids \X Ids)]
    /\ ackPackets \in [Spaces -> Nat]
    /\ \A e \in Spaces : ackPackets[e] <= serial
    /\ Queues
    /\ kind = "websocket" => Len(work) <= 1
    /\ down \subseteq Downs
    /\ namespace \in Seq(Spaces) /\ using \in 1..Len(namespace)
    /\ poll \subseteq Callees \X (1..Len(namespace))
    /\ clear \in Tasks
    /\ met \subseteq Handlers /\ parted \subseteq Handlers
    /\ heard \subseteq Spaces \X Handlers \X (1..Len(namespace))
    /\ serial \in 0..Len(Texts)
    /\ stored \in BOOLEAN /\ ending \in BOOLEAN /\ crossed \in BOOLEAN
    /\ channel \in Channels

LEMMA LineFacts ==
    ASSUME Queues
    PROVE  /\ Line \in Seq(Sent) /\ Later \in Seq(Sent)
           /\ HeadsIn(work) \in Seq(Sent) /\ HeadsIn(arrived) \in Seq(Sent) /\ HeadsIn(up) \in Seq(Sent)
           /\ work = <<>> => Line = Later
           /\ arrived = <<>> => Later = HeadsIn(up)
<1> DEFINE A == Sent
           x == HeadsIn(work)
           v == HeadsIn(arrived)
           y == HeadsIn(up)
           z == Later
<1>1. x \in Seq(A) /\ v \in Seq(A) /\ y \in Seq(A) /\ Len(x) = Len(work) /\ Len(v) = Len(arrived)
  BY HeadsFacts DEF Queues
<1>2. Line = x \o z /\ z = v \o y  BY DEF Line, Later
<1>3. (work = <<>> => x = <<>>) /\ (arrived = <<>> => v = <<>>)  BY <1>1
<1> HIDE DEF x, v, y, z, A
<1>4. z \in Seq(A)  BY <1>1, <1>2, ConcatFacts
<1>5. Line \in Seq(A)  BY <1>1, <1>2, <1>4, ConcatFacts
<1>6. work = <<>> => Line = z  BY <1>2, <1>3, <1>4, ConcatEmptySeq
<1>7. arrived = <<>> => z = y  BY <1>1, <1>2, <1>3, ConcatEmptySeq
<1>. QED  BY <1>1, <1>4, <1>5, <1>6, <1>7 DEF A, x, v, y, z

\* The browser writes a packet.
LEMMA PutLine ==
    ASSUME Queues, NEW p \in Wells, Put(p), UNCHANGED <<arrived, work, body>>
    PROVE  Queues' /\ Line' = Append(Line, HeadOf(p))
<1> DEFINE A == Sent
           x == HeadsIn(work)
           v == HeadsIn(arrived)
           y == HeadsIn(up)
           z == Later
           h == HeadOf(p)
<1>1. up \in Seq(Wells) /\ up' = Append(up, p)  BY DEF Put, Queues
<1>2. up' \in Seq(Wells) /\ HeadsIn(up') = Append(y, h)  BY <1>1, HeadsAppend
<1>3. Queues'  BY <1>2 DEF Queues
<1>4. x \in Seq(A) /\ v \in Seq(A) /\ y \in Seq(A) /\ z \in Seq(A)  BY LineFacts
<1>5. h \in A  BY WellFacts
<1>6. Line = x \o z /\ z = v \o y  BY DEF Line, Later
<1>7. Line' = x \o (v \o Append(y, h))  BY <1>2 DEF Line, Later
<1> HIDE DEF x, v, y, z, h, A
<1>8. v \o Append(y, h) = Append(z, h)  BY <1>4, <1>5, <1>6, AppendConcat
<1>9. x \o Append(z, h) = Append(x \o z, h)  BY <1>4, <1>5, AppendConcat
<1>10. Line' = Append(Line, h)  BY <1>6, <1>7, <1>8, <1>9
<1>. QED  BY <1>3, <1>10 DEF h

\* What handleContent has handled, and what an abort drops.
LEMMA HandledLine ==
    ASSUME Queues, work # <<>>, work' = Tail(work), UNCHANGED <<arrived, up>>
    PROVE  /\ work' \in Seq(Wells)
           /\ Line # <<>> /\ Line[1] = HeadOf(work[1]) /\ Line' = Tail(Line)
<1> DEFINE A == Sent
           x == HeadsIn(work)
           y == Later
<1>1. work \in Seq(Wells) /\ work' = Tail(work)  BY DEF Queues
<1>2. x # <<>> /\ x[1] = HeadOf(work[1]) /\ HeadsIn(work') = Tail(x)  BY <1>1, HeadsTail
<1>3. work' \in Seq(Wells)
  <2> DEFINE W == Wells
  <2>1. work \in Seq(W) /\ work' = Tail(work)  BY <1>1
  <2> HIDE DEF W
  <2>2. work' \in Seq(W)  BY <2>1, TailFacts
  <2>. QED  BY <2>2 DEF W
<1>4. x \in Seq(A) /\ y \in Seq(A)  BY LineFacts
<1>5. Line = x \o y  BY DEF Line
<1>6. Line' = Tail(x) \o y
  <2>1. Later' = y  BY DEF Later
  <2>. QED  BY <1>2, <2>1 DEF Line
<1> HIDE DEF x, y, A
<1>7. Line # <<>> /\ Line[1] = x[1] /\ Line' = Tail(Line)  BY <1>2, <1>4, <1>5, <1>6, TailConcat
<1>. QED  BY <1>1, <1>2, <1>3, <1>7

LEMMA NoHeads == HeadsIn(<<>>) = <<>>
<1>1. <<>> \in Seq(Wells) /\ Len(<<>>) = 0  OBVIOUS
<1>2. HeadsIn(<<>>) \in Seq(Sent) /\ Len(HeadsIn(<<>>)) = 0  BY <1>1, HeadsFacts
<1>. QED  BY <1>2

LEMMA DroppedLine ==
    ASSUME Queues, work' = <<>>, UNCHANGED <<arrived, up>>
    PROVE  In(Line') \subseteq In(Line)
<1> DEFINE A == Sent
           x == HeadsIn(work)
           y == Later
<1>1. x \in Seq(A) /\ y \in Seq(A)  BY LineFacts
<1>2. Line = x \o y  BY DEF Line
<1>3. Line' = y
  <2>1. Line' = <<>> \o y
    <3>1. Later' = y  BY DEF Later
    <3>. QED  BY <3>1, NoHeads DEF Line
  <2> HIDE DEF y, A
  <2>. QED  BY <1>1, <2>1, ConcatEmptySeq
<1> HIDE DEF x, y, A
<1>. QED  BY <1>1, <1>2, <1>3, InConcat

\* What a request takes out of the browser, the worker has read, or the server has
\* forgotten the session.
LEMMA TransmitLine ==
    ASSUME Queues, Transmit
    PROVE  /\ Queues' /\ In(Line') \subseteq In(Line)
           /\ kind = "websocket" \/ stored => Line' = Line
           /\ work = <<>> /\ UNCHANGED <<work, body>>
           /\ kind = "websocket" => channel = "open"
<1> DEFINE A == Sent
           y == HeadsIn(up)
<1>1. /\ up # <<>> /\ work = <<>> /\ arrived = <<>> /\ UNCHANGED <<work, body>>
      /\ up \in Seq(Wells) /\ work \in Seq(Wells) /\ body \in Seq(Wells)
      /\ kind = "websocket" => channel = "open"
  BY DEF Transmit, Queues, request
<1>2. PICK n \in (IF kind = "websocket" THEN 1..Len(up) ELSE {1, Len(up)}) :
        /\ up' = SubSeq(up, n + 1, Len(up))
        /\ arrived' = IF kind = "polling" /\ ~stored THEN <<>> ELSE SubSeq(up, 1, n)
  BY DEF Transmit
<1> DEFINE a == SubSeq(up, 1, n)
           b == SubSeq(up, n + 1, Len(up))
           x == HeadsIn(a)
           z == HeadsIn(b)
<1>3. n \in 0..Len(up)
  <2>1. Len(up) \in Nat /\ Len(up) # 0  BY <1>1
  <2>. QED  BY <2>1
<1>4. a \in Seq(Wells) /\ b \in Seq(Wells)  BY <1>1, <1>3, PrefixFacts, SuffixFacts
<1>5. x \o z = y  BY <1>1, <1>3, HeadsSplit
<1>6. x \in Seq(A) /\ z \in Seq(A) /\ y \in Seq(A)  BY <1>1, <1>4, HeadsFacts
<1>7. Line = y  BY <1>1, LineFacts
<1>8. up' = b /\ HeadsIn(up') = z  BY <1>2
<1>9. Line' = <<>> \o (HeadsIn(arrived') \o z)  BY <1>1, <1>8, NoHeads DEF Line, Later
<1>10. CASE ~(kind = "polling" /\ ~stored)
  <2>1. arrived' = a  BY <1>2, <1>10
  <2>2. Queues'  BY <1>1, <1>4, <1>8, <2>1 DEF Queues
  <2>3. Line' = <<>> \o y  BY <1>5, <1>9, <2>1
  <2> HIDE DEF y, A, a, b, x, z
  <2>4. Line' = Line  BY <1>6, <1>7, <2>3, ConcatEmptySeq
  <2>. QED  BY <1>1, <2>2, <2>4
<1>11. CASE kind = "polling" /\ ~stored
  <2>1. arrived' = <<>>  BY <1>2, <1>11
  <2>2. Queues'
    <3>1. <<>> \in Seq(Wells)  OBVIOUS
    <3>. QED  BY <1>1, <1>4, <1>8, <2>1, <3>1 DEF Queues
  <2>3. Line' = <<>> \o (<<>> \o z)  BY <1>9, <2>1, NoHeads
  <2> HIDE DEF y, A, a, b, x, z
  <2>4. Line' = z  BY <1>6, <2>3, ConcatEmptySeq
  <2>5. In(z) \subseteq In(y)  BY <1>5, <1>6, InConcat
  <2>. QED  BY <1>1, <1>7, <1>11, <2>2, <2>4, <2>5
<1>. QED  BY <1>10, <1>11

\* handleContent finds in a frame, or in a body, the packets that were encoded.
LEMMA BeginLine ==
    ASSUME Queues, kind \in {"websocket", "polling"}, Begin
    PROVE  /\ Queues' /\ SplitExact' /\ Line' = Line
           /\ work = <<>> /\ arrived # <<>> /\ UNCHANGED <<kind, up>>
           /\ kind = "websocket" => Len(work') = 1
<1> DEFINE A == Sent
           y == HeadsIn(up)
           v == HeadsIn(arrived)
<1>1. /\ arrived # <<>> /\ work = <<>> /\ UNCHANGED <<kind, up>>
      /\ up \in Seq(Wells) /\ arrived \in Seq(Wells)
  BY DEF Begin, Queues, browser, fixed
<1>2. PICK n \in {IF kind = "websocket" THEN 1 ELSE Len(arrived)} :
        /\ work' = Contents(EncodePayload(SubSeq(arrived, 1, n)))
        /\ body' = SubSeq(arrived, 1, n)
        /\ arrived' = SubSeq(arrived, n + 1, Len(arrived))
  BY DEF Begin
<1> DEFINE a == SubSeq(arrived, 1, n)
           b == SubSeq(arrived, n + 1, Len(arrived))
           x == HeadsIn(a)
           z == HeadsIn(b)
<1>3. n \in 0..Len(arrived) /\ n # 0 /\ n \in Nat /\ (kind = "websocket" => n = 1)
  <2>1. Len(arrived) \in Nat /\ Len(arrived) # 0  BY <1>1
  <2>. QED  BY <2>1
<1>4. a \in Seq(Wells) /\ Len(a) = n /\ b \in Seq(Wells)  BY <1>1, <1>3, PrefixFacts, SuffixFacts
<1>5. x \o z = v  BY <1>1, <1>3, HeadsSplit
<1>6. x \in Seq(A) /\ z \in Seq(A) /\ y \in Seq(A) /\ v \in Seq(A)  BY <1>1, <1>4, HeadsFacts
<1>7. Line = v \o y  BY <1>1, LineFacts DEF Later
<1>8. a # <<>>  BY <1>3, <1>4
<1>9. work' = Contents(EncodePayload(a)) /\ body' = a /\ arrived' = b  BY <1>2
<1>10. Line' = HeadsIn(work') \o (z \o y)  BY <1>1, <1>9 DEF Line, Later
<1> HIDE DEF a, b, v, y, z, A
<1>11. PICK w : w = Contents(EncodePayload(a))  OBVIOUS
<1>12. /\ w \in Seq(Wells) /\ Len(w) = Len(a) /\ HeadsIn(w) = HeadsIn(a)
       /\ \A i \in 1..Len(a) : w[i] = a[i] \/ (i = Len(w) /\ w[i] = Trim(a[i]))
  BY <1>4, <1>8, <1>11, ContentsFacts
<1>13. work' = w  BY <1>9, <1>11
<1>14. HeadsIn(work') = x  BY <1>12, <1>13
<1> HIDE DEF x
<1>15. Line' = x \o (z \o y)  BY <1>10, <1>14
<1>16. x \o (z \o y) = (x \o z) \o y  BY <1>6, ConcatAssociative
<1>17. Line' = Line  BY <1>5, <1>7, <1>15, <1>16
<1>18. Queues'  BY <1>1, <1>4, <1>9, <1>12, <1>13 DEF Queues
<1>19. SplitExact'
  <2>1. DOMAIN w = 1..Len(a)
    <3> DEFINE W == Wells
    <3>1. w \in Seq(W) /\ Len(w) = Len(a)  BY <1>12
    <3> HIDE DEF W
    <3>2. DOMAIN w = 1..Len(w)  BY <3>1, LenProperties
    <3>. QED  BY <3>1, <3>2
  <2>2. Len(w) = Len(a) /\ \A i \in DOMAIN w : w[i] = a[i] \/ (i = Len(w) /\ w[i] = Trim(a[i]))
    BY <1>12, <2>1
  <2>. QED  BY <1>9, <1>13, <2>2 DEF SplitExact
<1>20. kind = "websocket" => Len(work') = 1  BY <1>3, <1>4, <1>12, <1>13
<1>. QED  BY <1>1, <1>17, <1>18, <1>19, <1>20

\* The packets still to handle, and those that were encoded, advance together.
LEMMA HandledExact ==
    ASSUME Queues, SplitExact, work # <<>>, NEW ts, Handled(ts)
    PROVE  body' \in Seq(Wells) /\ SplitExact'
<1> DEFINE w == Tail(work)
           b == SubSeq(body, 1 + 1, Len(body))
           n == Len(work)
<1>1. work \in Seq(Wells) /\ body \in Seq(Wells) /\ Len(body) = n  BY DEF Queues, SplitExact
<1>2. work' = w /\ body' = b
  <2>1. 1 + 1 = 2  OBVIOUS
  <2>. QED  BY <2>1 DEF Handled
<1>3. /\ w \in Seq(Wells) /\ Len(w) = n - 1 /\ n >= 1 /\ n \in Nat /\ \A i \in 1..n - 1 : w[i] = work[i + 1]
  BY <1>1, TailFacts, LenFacts
<1>4. 1 \in 0..Len(body)  BY <1>1, <1>3
<1>5. b \in Seq(Wells) /\ Len(b) = Len(body) - 1 /\ \A i \in 1..Len(body) - 1 : b[i] = body[1 + i]
  BY <1>1, <1>4, SuffixFacts
<1>6. \A i \in 1..n : work[i] = body[i] \/ (i = n /\ work[i] = Trim(body[i]))
  BY <1>1 DEF SplitExact
<1> HIDE DEF n, w, b
<1>7. DOMAIN w = 1..n - 1 /\ Len(b) = n - 1  BY <1>1, <1>3, <1>5
<1>8. \A i \in 1..n - 1 : w[i] = b[i] \/ (i = n - 1 /\ w[i] = Trim(b[i]))
  <2> SUFFICES ASSUME NEW i \in 1..n - 1 PROVE w[i] = b[i] \/ (i = n - 1 /\ w[i] = Trim(b[i]))  OBVIOUS
  <2> DEFINE k == i + 1
  <2>1. k \in 1..n /\ k = i + 1 /\ 1 + i = k /\ (k = n => i = n - 1)  BY <1>3
  <2>2. w[i] = work[k]  BY <1>3
  <2>3. b[i] = body[k]  BY <1>1, <1>5, <2>1
  <2> HIDE DEF k
  <2>. QED  BY <1>6, <2>1, <2>2, <2>3
<1>9. SplitExact'  BY <1>2, <1>3, <1>7, <1>8 DEF SplitExact
<1>. QED  BY <1>2, <1>5, <1>9

LEMMA Unhandled ==
    ASSUME Queues, SplitExact, work' = <<>>, body' = <<>>, UNCHANGED <<arrived, up>>
    PROVE  Queues' /\ SplitExact'
<1>1. Queues'
  <2>1. <<>> \in Seq(Wells)  OBVIOUS
  <2>. QED  BY <2>1 DEF Queues
<1>2. SplitExact'
  <2>1. Len(<<>>) = Len(<<>>) /\ DOMAIN <<>> = {}  OBVIOUS
  <2>. QED  BY <2>1 DEF SplitExact
<1>. QED  BY <1>1, <1>2

Heading(type, e, id, n) == [type |-> type, endpoint |-> e, id |-> id, serial |-> n]

LEMMA BarePacket ==
    ASSUME NEW type \in {"connect", "heartbeat", "disconnect"}, NEW e \in Spaces, NEW n \in 0..Len(Texts)
    PROVE  /\ Packet(type, e, 0, n, <<>>) \in Wells
           /\ HeadOf(Packet(type, e, 0, n, <<>>)) = Heading(type, e, 0, n)
<1> DEFINE data == <<>>
<1>1. data \in Seq(Tokens) /\ ~Framelike(data)  BY NothingFacts
<1>2. 0 \in 0..Len(Texts)  BY TextsAssumption
<1>3. type \in {"connect", "event", "heartbeat", "disconnect"} /\ type # "event"  OBVIOUS
<1> HIDE DEF data
<1>4. /\ Packet(type, e, 0, n, data) \in Wells
      /\ HeadOf(Packet(type, e, 0, n, data)) = Heading(type, e, 0, n)
  BY <1>1, <1>2, <1>3, PacketWell DEF Heading
<1>. QED  BY <1>4 DEF data

\* Socket.of writes a connect packet when the namespace is new.
LEMMA OfLine ==
    ASSUME Typed, NEW e \in Spaces, Of(e), UNCHANGED <<arrived, work, body>>
    PROVE  /\ Queues' /\ spaces' = spaces \cup {e}
           /\ e \in spaces \cup {Root} => Line' = Line
           /\ e \notin spaces \cup {Root} => Line' = Append(Line, Heading("connect", e, 0, 0))
<1>1. Queues /\ spaces' = spaces \cup {e}  BY DEF Typed, Of
<1>2. CASE e \in spaces \cup {Root}
  <2>1. up' = up  BY <1>2 DEF Of
  <2>. QED  BY <1>1, <1>2, <2>1 DEF Queues, Line, Later
<1>3. CASE e \notin spaces \cup {Root}
  <2>1. PICK p : p = Packet("connect", e, 0, 0, <<>>)  OBVIOUS
  <2>2. 0 \in 0..Len(Texts)  BY TextsAssumption
  <2>3. p \in Wells /\ HeadOf(p) = Heading("connect", e, 0, 0)
    BY <2>1, <2>2, BarePacket
  <2>4. Put(p)  BY <1>3, <2>1 DEF Of, Connecting
  <2>. QED  BY <1>1, <1>3, <2>3, <2>4, PutLine
<1>. QED  BY <1>2, <1>3

LEMMA OpenLine ==
    ASSUME Typed, NEW e \in Endpoints, Open(e)
    PROVE  /\ Queues' /\ spaces' = spaces \cup {e} /\ e \in opens \ spaces
           /\ e \in spaces \cup {Root} => Line' = Line
           /\ e \notin spaces \cup {Root} => Line' = Append(Line, Heading("connect", e, 0, 0))
<1>1. Of(e) /\ e \in Spaces /\ UNCHANGED <<arrived, work, body>> /\ e \in opens \ spaces
  BY DEF Open, Spaces, request
<1>. QED  BY <1>1, OfLine

LEMMA SendsFacts ==
    ASSUME Typed, NEW e \in Endpoints, Sends(e)
    PROVE  /\ e \in spaces \cap opens /\ e \in Spaces /\ serial' = serial + 1 /\ serial \in Nat
           /\ serial' \in 1..Len(Texts) /\ serial' \in 0..Len(Texts) /\ Len(Texts) \in Nat
           /\ UNCHANGED <<arrived, work, body, spaces>>
<1>1. Len(Texts) \in Nat /\ serial \in 0..Len(Texts)  BY TextsAssumption DEF Typed
<1>2. /\ e \in spaces \cap opens /\ serial < Len(Texts) /\ serial' = serial + 1
      /\ UNCHANGED <<arrived, work, body, spaces>>
  BY DEF Sends, request
<1>. QED  BY <1>1, <1>2 DEF Spaces

LEMMA EmitLine ==
    ASSUME Typed, NEW e \in Endpoints, Emit(e)
    PROVE  Queues' /\ Line' = Append(Line, Heading("event", e, 0, serial'))
<1>1. /\ e \in Spaces /\ serial' \in 1..Len(Texts) /\ serial' \in 0..Len(Texts) /\ 0 \in 0..Len(Texts)
      /\ UNCHANGED <<arrived, work, body>>
  BY SendsFacts DEF Emit
<1>2. PICK n : n = serial'  OBVIOUS
<1>3. PICK p : p = Packet("event", e, 0, n, Texts[n])  OBVIOUS
<1>4. n \in 1..Len(Texts) /\ n \in 0..Len(Texts) /\ n # 0  BY <1>1, <1>2
<1>5. Texts[n] \in Seq(Tokens) /\ ~Framelike(Texts[n])  BY <1>4, TextFacts
<1>6. p \in Wells /\ HeadOf(p) = Heading("event", e, 0, n)
  BY <1>1, <1>3, <1>4, <1>5, PacketWell DEF Heading
<1>7. Put(p)  BY <1>2, <1>3 DEF Emit
<1>8. Queues  BY DEF Typed
<1>. QED  BY <1>1, <1>2, <1>6, <1>7, <1>8, PutLine

\* The id a callback is kept under is new, and the message has it.
LEMMA EmitWithAckLine ==
    ASSUME Typed, NEW e \in Endpoints, EmitWithAck(e), NEW id, id = ackPackets[e] + 1
    PROVE  /\ Queues' /\ Line' = Append(Line, Heading("event", e, id, serial'))
           /\ id \in Ids /\ serial' \in Ids /\ id <= serial'
           /\ ackPackets' = [ackPackets EXCEPT ![e] = id]
           /\ acks' = [acks EXCEPT ![e] = {a \in acks[e] : a[1] # id} \cup {<<id, serial'>>}]
<1>1. /\ e \in Spaces /\ serial' = serial + 1 /\ serial \in Nat
      /\ serial' \in 1..Len(Texts) /\ serial' \in 0..Len(Texts) /\ Len(Texts) \in Nat
      /\ UNCHANGED <<arrived, work, body>>
  BY SendsFacts DEF EmitWithAck
<1>2. ackPackets[e] \in Nat /\ ackPackets[e] <= serial  BY <1>1 DEF Typed
<1>3. id \in 1..Len(Texts) /\ id \in 0..Len(Texts) /\ id <= serial'  BY <1>1, <1>2
<1>4. PICK n : n = serial'  OBVIOUS
<1>5. PICK p : p = Packet("event", e, id, n, Texts[n])  OBVIOUS
<1>6. n \in 1..Len(Texts) /\ n \in 0..Len(Texts) /\ n # 0  BY <1>1, <1>4
<1>7. Texts[n] \in Seq(Tokens) /\ ~Framelike(Texts[n])  BY <1>6, TextFacts
<1>8. p \in Wells /\ HeadOf(p) = Heading("event", e, id, n)
  BY <1>1, <1>3, <1>5, <1>6, <1>7, PacketWell DEF Heading
<1>9. Put(p)  BY <1>4, <1>5 DEF EmitWithAck
<1>10. Queues  BY DEF Typed
<1>11. Queues' /\ Line' = Append(Line, Heading("event", e, id, serial'))
  BY <1>1, <1>4, <1>8, <1>9, <1>10, PutLine
<1>12. /\ ackPackets' = [ackPackets EXCEPT ![e] = id]
       /\ acks' = [acks EXCEPT ![e] = {a \in acks[e] : a[1] # id} \cup {<<id, serial'>>}]
  BY DEF EmitWithAck
<1>. QED  BY <1>1, <1>3, <1>11, <1>12 DEF Ids

LEMMA LeaveLine ==
    ASSUME Typed, NEW e \in Endpoints, Leave(e)
    PROVE  Queues' /\ Line' = Append(Line, Heading("disconnect", e, 0, serial'))
<1>1. e \in Spaces /\ serial' \in 0..Len(Texts) /\ 0 \in 0..Len(Texts) /\ UNCHANGED <<arrived, work, body>>
  BY SendsFacts DEF Leave
<1>2. PICK n : n = serial'  OBVIOUS
<1>3. PICK p : p = Packet("disconnect", e, 0, n, <<>>)  OBVIOUS
<1>4. p \in Wells /\ HeadOf(p) = Heading("disconnect", e, 0, n)
  BY <1>1, <1>2, <1>3, BarePacket
<1>5. Put(p)  BY <1>2, <1>3 DEF Leave
<1>6. Queues  BY DEF Typed
<1>. QED  BY <1>1, <1>2, <1>4, <1>5, <1>6, PutLine

LEMMA ReceiveLine ==
    ASSUME Typed, NEW p \in down, Receive(p)
    PROVE  /\ Queues' /\ p \in Downs /\ p.endpoint \in Spaces
           /\ \/ p.type = "heartbeat" /\ spaces' = spaces
                 /\ Line' = Append(Line, Heading("heartbeat", Root, 0, 0))
              \/ /\ p.type # "heartbeat" /\ spaces' = spaces \cup {p.endpoint}
                 /\ \/ Line' = Line
                    \/ /\ p.endpoint \notin spaces \cup {Root}
                       /\ Line' = Append(Line, Heading("connect", p.endpoint, 0, 0))
                 /\ p.endpoint \in spaces \cup {Root} => Line' = Line
                 /\ p.endpoint \notin spaces \cup {Root} =>
                    Line' = Append(Line, Heading("connect", p.endpoint, 0, 0))
<1>1. p \in Downs /\ Queues  BY DEF Typed
<1>2. p.endpoint \in Spaces  BY <1>1 DEF Downs
<1>3. UNCHANGED <<arrived, work, body>>  BY DEF Receive, request
<1>4. CASE p.type = "heartbeat"
  <2>1. PICK q : q = Packet("heartbeat", Root, 0, 0, <<>>)  OBVIOUS
  <2>2. Put(q) /\ spaces' = spaces  BY <1>4, <2>1 DEF Receive
  <2>3. Root \in Spaces /\ 0 \in 0..Len(Texts)  BY TextsAssumption DEF Spaces
  <2>4. q \in Wells /\ HeadOf(q) = Heading("heartbeat", Root, 0, 0)
    BY <2>1, <2>3, BarePacket
  <2>. QED  BY <1>1, <1>2, <1>3, <1>4, <2>2, <2>4, PutLine
<1>5. CASE p.type # "heartbeat"
  <2>1. Of(p.endpoint)  BY <1>5 DEF Receive
  <2>. QED  BY <1>1, <1>2, <1>3, <1>5, <2>1, OfLine
<1>. QED  BY <1>4, <1>5

\* What handleContent does with a packet, to the packets.
LEMMA HandleLine ==
    ASSUME Queues, SplitExact, work # <<>>, NEW ts, Handled(ts) \/ Abort(ts), UNCHANGED <<arrived, up>>
    PROVE  /\ Queues' /\ SplitExact' /\ In(Line') \subseteq In(Line)
           /\ Line # <<>> /\ Line[1] = HeadOf(work[1]) /\ HeadOf(work[1]) \in In(Line)
           /\ HeadOf(work[1]) \in Sent
           /\ Len(work) <= 1 => work' = <<>> /\ Line' = Tail(Line)
           /\ kind = "websocket" /\ Len(work) <= 1 => Len(work') <= 1
<1> DEFINE A == Sent
           x == HeadsIn(work)
           y == Later
           h == HeadOf(work[1])
<1>1. Line # <<>> /\ Line[1] = h /\ Line \in Seq(A)
  <2>1. work \in Seq(Wells)  BY DEF Queues
  <2>2. x # <<>> /\ x[1] = h  BY <2>1, HeadsTail
  <2>3. x \in Seq(A) /\ y \in Seq(A)  BY LineFacts
  <2>4. Line = x \o y  BY DEF Line
  <2> HIDE DEF x, y, h, A
  <2>. QED  BY <2>2, <2>3, <2>4, TailConcat, ConcatFacts
<1>2. h \in A /\ In(Line) = In(Tail(Line)) \cup {h}
  <2> HIDE DEF h, A
  <2>. QED  BY <1>1, InTail
<1>3. work' = Tail(work) \/ work' = <<>>  BY DEF Handled, Abort
<1>4. Len(work) <= 1 => Tail(work) = <<>> /\ Len(<<>>) <= 1
  <2> DEFINE W == Wells
  <2>1. work \in Seq(W)  BY DEF Queues
  <2> HIDE DEF W
  <2>2. Tail(work) \in Seq(W) /\ Len(Tail(work)) = Len(work) - 1 /\ Len(work) >= 1 /\ Len(work) \in Nat
    BY <2>1, TailFacts, LenFacts
  <2>. QED  BY <2>2
<1>5. Len(work) <= 1 => work' = <<>> /\ Line' = Tail(Line) /\ Len(work') <= 1
  <2> SUFFICES ASSUME Len(work) <= 1 PROVE work' = <<>> /\ Line' = Tail(Line) /\ Len(work') <= 1  OBVIOUS
  <2>1. work' = Tail(work) /\ work' = <<>> /\ Len(work') <= 1  BY <1>3, <1>4
  <2>. QED  BY <2>1, HandledLine
<1>6. CASE Handled(ts)
  <2>1. work' \in Seq(Wells) /\ Line' = Tail(Line)  BY <1>6, HandledLine DEF Handled
  <2>2. body' \in Seq(Wells) /\ SplitExact'  BY <1>6, HandledExact
  <2>3. Queues'  BY <2>1, <2>2 DEF Queues
  <2>. QED  BY <1>1, <1>2, <1>5, <2>1, <2>2, <2>3
<1>7. CASE Abort(ts)
  <2>1. work' = <<>> /\ body' = <<>>  BY <1>7 DEF Abort
  <2>2. Queues' /\ SplitExact'  BY <2>1, Unhandled
  <2>3. In(Line') \subseteq In(Line)  BY <2>1, DroppedLine
  <2>. QED  BY <1>1, <1>2, <1>5, <2>2, <2>3
<1>. QED  BY <1>6, <1>7

-----------------------------------------------------------------------------
(* The types, and the packets of a request, at every step. *)

LEMMA TaskFacts ==
    ASSUME NEW ts \in Tasks, NEW h \in Callees
    PROVE  Scheduled(ts, h) \in Tasks /\ Cancelled(ts) \in Tasks
BY DEF Tasks, Scheduled, Cancelled

LEMMA CalleeFacts == \A e : GetIOHandler(e) \in Callees /\ (GetIOHandler(e) # Nobody => GetIOHandler(e) \in Handlers)
BY DEF GetIOHandler, Callees

LEMMA BeatFacts ==
    ASSUME Typed, NEW h \in Callees
    PROVE  Beat(h) \in Tasks
<1>1. clear \in Tasks  BY DEF Typed
<1>. QED  BY <1>1, TaskFacts DEF Beat

LEMMA CaughtFacts ==
    ASSUME Typed, NEW ts \in Tasks, NEW e, Caught(ts, e)
    PROVE  clear' \in Tasks /\ channel' \in Channels
<1>1. GetIOHandler(e) \in Callees /\ stored \in BOOLEAN  BY CalleeFacts DEF Typed
<1>2. PICK h : h = GetIOHandler(e)  OBVIOUS
<1>3. Scheduled(ts, h) \in Tasks /\ Scheduled(Scheduled(ts, h), h) \in Tasks  BY <1>1, <1>2, TaskFacts
<1>4. clear' = ts \/ clear' = Scheduled(ts, h) \/ clear' = Scheduled(Scheduled(ts, h), h)
  BY <1>1, <1>2 DEF Caught
<1>. QED  BY <1>3, <1>4 DEF Caught, Channels

LEMMA DoneFacts ==
    ASSUME Typed, NEW ts \in Tasks, Handled(ts) \/ Abort(ts)
    PROVE  clear' \in Tasks /\ channel' \in Channels
<1>1. CASE Handled(ts)  BY <1>1 DEF Handled, Typed
<1>2. CASE Abort(ts)
  <2>1. PICK e : e = namespace'[Latest]  OBVIOUS
  <2>2. Caught(ts, e)  BY <1>2, <2>1 DEF Abort
  <2>. QED  BY <2>2, CaughtFacts
<1>. QED  BY <1>1, <1>2

LEMMA SpaceFacts ==
    ASSUME Typed
    PROVE  /\ Latest \in Nat /\ 1 \in 1..Latest /\ using \in 1..Latest /\ Latest \in 1..Latest
           /\ Here \in Spaces /\ namespace[Latest] \in Spaces
           /\ \A i \in 1..Latest : namespace[i] \in Spaces
           /\ Root \in Spaces
<1>1. namespace \in Seq(Spaces) /\ using \in 1..Len(namespace)  BY DEF Typed
<1>2. Len(namespace) \in Nat /\ \A i \in 1..Len(namespace) : namespace[i] \in Spaces  BY <1>1, LenFacts
<1>. QED  BY <1>1, <1>2 DEF Latest, Here, Spaces

\* A client is made anew: the ones before it keep their namespaces.
LEMMA MadeFacts ==
    ASSUME Typed, Made
    PROVE  /\ namespace' \in Seq(Spaces) /\ Len(namespace') = Latest + 1 /\ namespace'[Latest + 1] = Root
           /\ \A i \in 1..Latest : namespace'[i] = namespace[i]
           /\ stored' = TRUE /\ UNCHANGED channel
           /\ clear' \in Tasks
<1>1. namespace \in Seq(Spaces) /\ Root \in Spaces /\ Latest = Len(namespace) /\ Latest \in Nat
  BY SpaceFacts DEF Typed, Latest
<1>2. namespace' = Append(namespace, Root) /\ stored' = TRUE /\ UNCHANGED channel  BY DEF Made
<1>3. clear' \in Tasks  BY DEF Made, Typed, Tasks
<1>4. /\ namespace' \in Seq(Spaces) /\ Len(namespace') = Latest + 1 /\ namespace'[Latest + 1] = Root
      /\ \A i \in 1..Latest : namespace'[i] = namespace[i]
  BY <1>1, <1>2, AppendProperties
<1>. QED  BY <1>2, <1>3, <1>4

\* What is said of the clients there were holds when there are more.
LEMMA GrownFacts ==
    ASSUME Typed, Len(namespace') \in Nat, Len(namespace') >= Latest
    PROVE  /\ using \in 1..Len(namespace') /\ Len(namespace') \in 1..Len(namespace')
           /\ poll \subseteq Callees \X (1..Len(namespace'))
           /\ heard \subseteq Spaces \X Handlers \X (1..Len(namespace'))
<1>1. \A i \in 1..Latest : i \in 1..Len(namespace')  BY SpaceFacts
<1>2. using \in 1..Latest /\ poll \subseteq Callees \X (1..Latest) /\ heard \subseteq Spaces \X Handlers \X (1..Latest)
  BY SpaceFacts DEF Typed, Latest
<1>3. Len(namespace') \in 1..Len(namespace')  BY SpaceFacts
<1>. QED  BY <1>1, <1>2, <1>3

Sound == Typed /\ SplitExact

LEMMA SoundInit == Init => Sound
<1> SUFFICES ASSUME Init PROVE Sound  OBVIOUS
<1>1. <<>> \in Seq(Wells)  OBVIOUS
<1>2. Queues  BY <1>1 DEF Init, Queues
<1>3. SplitExact
  <2>1. Len(<<>>) = Len(<<>>) /\ DOMAIN <<>> = {}  OBVIOUS
  <2>. QED  BY <2>1 DEF SplitExact, Init
<1>4. 0 \in 0..Len(Texts)  BY TextsAssumption
<1>5. acks \in [Spaces -> SUBSET (Ids \X Ids)] /\ ackPackets \in [Spaces -> Nat] /\ \A e \in Spaces : ackPackets[e] <= serial
  BY DEF Init
<1>6. down \subseteq Downs  BY DEF Init, Downs, Spaces
<1>7. opens \subseteq Endpoints /\ kind \in {"websocket", "polling"}
  BY BrowsersAssumption DEF Init
<1>8. namespace \in Seq(Spaces) /\ using \in 1..Len(namespace)
  <2>1. Root \in Spaces  BY DEF Spaces
  <2>2. namespace = <<Root>> /\ using = 1  BY DEF Init
  <2> DEFINE S == Spaces
  <2>3. Root \in S  BY <2>1
  <2> HIDE DEF S
  <2>4. <<Root>> \in Seq(S) /\ Len(<<Root>>) = 1 /\ 1 \in 1..1  BY <2>3
  <2>. QED  BY <2>2, <2>4 DEF S
<1>9. Len(work) <= 1
  <2>1. Len(<<>>) = 0  OBVIOUS
  <2>. QED  BY <2>1 DEF Init
<1>10. clear \in Tasks /\ channel \in Channels  BY DEF Init, Tasks, Channels
<1>11. Typed
  BY <1>2, <1>4, <1>5, <1>6, <1>7, <1>8, <1>9, <1>10 DEF Init, Typed
<1>. QED  BY <1>3, <1>11 DEF Sound

LEMMA SoundBrowser ==
    ASSUME Sound, NEW e \in Endpoints, Open(e) \/ Emit(e) \/ EmitWithAck(e) \/ Leave(e)
    PROVE  Sound'
<1> USE DEF Sound
<1>1. e \in Spaces  BY DEF Spaces
<1>2. CASE Open(e)
  <2>1. Queues' /\ spaces' = spaces \cup {e}  BY <1>2, OpenLine
  <2>2. UNCHANGED <<fixed, acks, ackPackets, serial, down, session, request, tasks, calls, crossed>>
    BY <1>2 DEF Open
  <2>3. Typed'  BY <1>1, <2>1, <2>2 DEF Typed, fixed, session, request, tasks, calls
  <2>4. SplitExact'  BY <2>2 DEF SplitExact, request
  <2>. QED  BY <2>3, <2>4
<1>3. ASSUME Sends(e), Queues', acks' \in [Spaces -> SUBSET (Ids \X Ids)], ackPackets' \in [Spaces -> Nat],
             \A s \in Spaces : ackPackets'[s] <= serial'
      PROVE  Sound'
  <2>1. serial' \in 0..Len(Texts)  BY <1>3, SendsFacts
  <2>2. UNCHANGED <<fixed, spaces, down, session, request, tasks, calls, crossed>>
    BY <1>3 DEF Sends
  <2>3. Typed'  BY <1>3, <2>1, <2>2 DEF Typed, fixed, session, request, tasks, calls
  <2>4. SplitExact'  BY <2>2 DEF SplitExact, request
  <2>. QED  BY <2>3, <2>4
<1>4. CASE Emit(e) \/ Leave(e)
  <2>1. Queues'  BY <1>4, EmitLine, LeaveLine
  <2>2. Sends(e) /\ UNCHANGED <<acks, ackPackets>>  BY <1>4 DEF Emit, Leave
  <2>3. serial' = serial + 1 /\ serial \in Nat  BY <2>2, SendsFacts
  <2>4. \A s \in Spaces : ackPackets[s] \in Nat /\ ackPackets[s] <= serial  BY DEF Typed
  <2>5. \A s \in Spaces : ackPackets'[s] <= serial'  BY <2>2, <2>3, <2>4
  <2>6. acks' \in [Spaces -> SUBSET (Ids \X Ids)] /\ ackPackets' \in [Spaces -> Nat]  BY <2>2 DEF Typed
  <2>. QED  BY <1>3, <2>1, <2>2, <2>5, <2>6
<1>5. CASE EmitWithAck(e)
  <2>1. PICK id : id = ackPackets[e] + 1  OBVIOUS
  <2>2. /\ Queues' /\ id \in Ids /\ serial' \in Ids /\ id <= serial'
        /\ ackPackets' = [ackPackets EXCEPT ![e] = id]
        /\ acks' = [acks EXCEPT ![e] = {a \in acks[e] : a[1] # id} \cup {<<id, serial'>>}]
    BY <1>5, <2>1, EmitWithAckLine
  <2>3. Sends(e)  BY <1>5 DEF EmitWithAck
  <2>4. serial' = serial + 1 /\ serial \in Nat  BY <2>3, SendsFacts
  <2>5. /\ acks \in [Spaces -> SUBSET (Ids \X Ids)] /\ ackPackets \in [Spaces -> Nat]
        /\ \A s \in Spaces : ackPackets[s] <= serial
    BY DEF Typed
  <2>6. acks' \in [Spaces -> SUBSET (Ids \X Ids)]
    <3>1. {a \in acks[e] : a[1] # id} \cup {<<id, serial'>>} \in SUBSET (Ids \X Ids)  BY <1>1, <2>2, <2>5
    <3>. QED  BY <2>2, <2>5, <3>1
  <2>7. id \in Nat  BY <2>2 DEF Ids
  <2>8. ackPackets' \in [Spaces -> Nat]  BY <2>2, <2>5, <2>7
  <2>9. ASSUME NEW s \in Spaces PROVE ackPackets'[s] <= serial'
    <3>1. ackPackets[s] \in Nat /\ ackPackets[s] <= serial  BY <2>5
    <3>2. ackPackets'[s] = IF s = e THEN id ELSE ackPackets[s]  BY <2>2, <2>5
    <3>. QED  BY <2>2, <2>4, <2>7, <3>1, <3>2
  <2>. QED  BY <1>3, <2>2, <2>3, <2>6, <2>8, <2>9
<1>. QED  BY <1>2, <1>4, <1>5

LEMMA SoundReceive ==
    ASSUME Sound, NEW p \in down, Receive(p)
    PROVE  Sound'
<1> USE DEF Sound
<1>1. Queues' /\ p \in Downs /\ p.endpoint \in Spaces /\ spaces' \subseteq spaces \cup {p.endpoint}
  BY ReceiveLine
<1>2. UNCHANGED <<fixed, ackPackets, serial, session, request, tasks, calls>>
  BY DEF Receive
<1>3. down' \subseteq down  BY DEF Receive
<1>4. acks' \in [Spaces -> SUBSET (Ids \X Ids)] /\ crossed' \in BOOLEAN
  <2>0. acks \in [Spaces -> SUBSET (Ids \X Ids)] /\ crossed \in BOOLEAN  BY DEF Typed
  <2>1. CASE p.type = "ack"
    <3> DEFINE found == {a \in acks[p.endpoint] : a[1] = p.id}
    <3>1. acks' = [acks EXCEPT ![p.endpoint] = acks[p.endpoint] \ found]  BY <2>1 DEF Receive, Called
    <3>2. crossed' = (crossed \/ \E a \in found : a[2] # p.answers)  BY <2>1 DEF Receive, Called
    <3> HIDE DEF found
    <3>3. acks[p.endpoint] \ found \in SUBSET (Ids \X Ids)  BY <1>1, <2>0
    <3>4. acks' \in [Spaces -> SUBSET (Ids \X Ids)]  BY <2>0, <3>1, <3>3
    <3>. QED  BY <3>2, <3>4
  <2>2. CASE p.type # "ack"  BY <2>0, <2>2 DEF Receive
  <2>. QED  BY <2>1, <2>2
<1>5. Typed'  BY <1>1, <1>2, <1>3, <1>4 DEF Typed, fixed, session, request, tasks, calls
<1>6. SplitExact'  BY <1>2 DEF SplitExact, request
<1>. QED  BY <1>5, <1>6

LEMMA SoundTransmit ==
    ASSUME Sound, Transmit
    PROVE  Sound'
<1> USE DEF Sound
<1>1. Queues' /\ UNCHANGED <<work, body>>
  <2>1. Queues  BY DEF Typed
  <2>. QED  BY <2>1, TransmitLine
<1>2. UNCHANGED <<fixed, spaces, acks, ackPackets, serial, down, session, request, tasks, calls, crossed>>
  BY DEF Transmit
<1>3. Typed'  BY <1>1, <1>2 DEF Typed, fixed, session, request, tasks, calls
<1>4. SplitExact'  BY <1>1 DEF SplitExact
<1>. QED  BY <1>3, <1>4

LEMMA SoundBegin ==
    ASSUME Sound, Begin
    PROVE  Sound'
<1> USE DEF Sound
<1>1. Queues' /\ SplitExact' /\ (kind' = "websocket" => Len(work') <= 1)
  <2>1. Queues /\ kind \in {"websocket", "polling"}  BY DEF Typed
  <2>2. /\ Queues' /\ SplitExact' /\ UNCHANGED kind
        /\ kind = "websocket" => Len(work') = 1
    BY <2>1, BeginLine
  <2>3. kind = "websocket" => Len(work') <= 1
    <3>1. 1 <= 1  OBVIOUS
    <3>. QED  BY <2>2, <3>1
  <2>. QED  BY <2>2, <2>3
<1>2. UNCHANGED <<fixed, browser, down, poll, ending, calls, crossed>>
  BY DEF Begin
<1>3. using' = Len(namespace')  BY DEF Begin
<1>4. /\ namespace' \in Seq(Spaces) /\ Len(namespace') \in Nat /\ Len(namespace') >= Latest
      /\ stored' \in BOOLEAN /\ UNCHANGED channel /\ clear' \in Tasks
  <2>1. CASE UNCHANGED <<session, clear>>
    BY <2>1, SpaceFacts DEF session, Typed, Latest
  <2>2. CASE Made
    <3>1. Latest \in Nat  BY SpaceFacts
    <3>. QED  BY <2>2, <3>1, MadeFacts
  <2>. QED  BY <2>1, <2>2 DEF Begin
<1>5. /\ using' \in 1..Len(namespace')
      /\ poll \subseteq Callees \X (1..Len(namespace'))
      /\ heard \subseteq Spaces \X Handlers \X (1..Len(namespace'))
  BY <1>3, <1>4, GrownFacts
<1>6. Typed'  BY <1>1, <1>2, <1>4, <1>5 DEF Typed, fixed, browser, calls
<1>. QED  BY <1>1, <1>6

\* The steps of the server that no packet of the browser brings about.
Aside ==
    \/ \E from \in Handlers : Overhear(from)
    \/ Poll \/ PollLate \/ PollEnds
    \/ ChannelDisconnected \/ ExceptionCaught
    \/ \E h \in Callees : Clear(h)
    \/ ClearEnds

LEMMA AsideFacts ==
    ASSUME Aside
    PROVE  UNCHANGED <<fixed, browser, arrived, request, heard, met, crossed>>
BY DEF Aside, Overhear, Poll, PollLate, PollEnds, ChannelDisconnected, ExceptionCaught, Clear, ClearEnds,
       calls

LEMMA SoundAside ==
    ASSUME Sound, Aside
    PROVE  Sound'
<1> USE DEF Sound
<1>1. clear \in Tasks /\ poll \subseteq Callees \X (1..Latest) /\ Queues  BY DEF Typed, Latest
<1>2. ASSUME down' \subseteq Downs, clear' \in Tasks, stored' \in BOOLEAN, ending' \in BOOLEAN, channel' \in Channels,
             parted' \subseteq Handlers, poll' \subseteq Callees \X (1..Len(namespace')),
             namespace' = namespace \/ (namespace' \in Seq(Spaces) /\ Len(namespace') = Latest + 1)
      PROVE  Sound'
  <2>1. UNCHANGED <<fixed, browser, arrived, request, heard, met, crossed>>  BY AsideFacts
  <2>2. Queues' /\ SplitExact'  BY <1>1, <2>1 DEF Queues, SplitExact, browser, request
  <2>3. Len(namespace') \in Nat /\ Len(namespace') >= Latest /\ namespace' \in Seq(Spaces)
    <3>1. Latest \in Nat /\ Latest = Len(namespace) /\ namespace \in Seq(Spaces)
      BY SpaceFacts DEF Latest, Typed
    <3>2. CASE namespace' = namespace  BY <3>1, <3>2
    <3>3. CASE namespace' \in Seq(Spaces) /\ Len(namespace') = Latest + 1  BY <3>1, <3>3
    <3>. QED  BY <1>2, <3>2, <3>3
  <2>4. using \in 1..Len(namespace') /\ heard \subseteq Spaces \X Handlers \X (1..Len(namespace'))
    BY <2>3, GrownFacts
  <2>5. Typed'  BY <1>2, <2>1, <2>2, <2>3, <2>4 DEF Typed, fixed, browser, request
  <2>. QED  BY <2>2, <2>5
<1>3. /\ down \subseteq Downs /\ stored \in BOOLEAN /\ ending \in BOOLEAN /\ channel \in Channels
      /\ parted \subseteq Handlers /\ Latest \in 1..Latest /\ namespace[Latest] \in Spaces /\ Root \in Spaces
      /\ poll \subseteq Callees \X (1..Len(namespace))
  BY SpaceFacts DEF Typed
<1>4. ASSUME NEW from \in Handlers, Overhear(from) PROVE Sound'
  <2>1. Broadcast(from) \subseteq Downs  BY <1>3 DEF Broadcast, Wrapped, Downs
  <2>2. down' \subseteq Downs  BY <1>3, <1>4, <2>1 DEF Overhear, Written
  <2>3. UNCHANGED <<session, tasks, calls>>  BY <1>4 DEF Overhear
  <2>. QED  BY <1>1, <1>2, <1>3, <2>2, <2>3 DEF session, tasks, calls
<1>5. CASE Poll
  <2>1. UNCHANGED <<down, session, ending, calls>>  BY <1>5 DEF Poll
  <2>2. PICK h : h = GetIOHandler(namespace[Latest])  OBVIOUS
  <2>3. poll' = {<<h, Latest>>} /\ clear' = Cancelled(clear)  BY <1>5, <2>2 DEF Poll
  <2>4. poll' \subseteq Callees \X (1..Latest) /\ clear' \in Tasks
    BY <1>1, <1>3, <2>2, <2>3, CalleeFacts, TaskFacts
  <2>5. namespace' = namespace /\ Latest = Len(namespace)  BY <2>1 DEF session, Latest
  <2>. QED  BY <1>2, <1>3, <2>1, <2>4, <2>5 DEF session, calls
<1>6. CASE PollLate
  <2>1. Made /\ UNCHANGED <<poll, ending, calls>>  BY <1>6 DEF PollLate
  <2>2. down' = down \cup {[type |-> "connect", endpoint |-> Root]}  BY <1>6 DEF PollLate
  <2>3. down' \subseteq Downs  BY <1>3, <2>2 DEF Downs
  <2>4. /\ namespace' \in Seq(Spaces) /\ Len(namespace') = Latest + 1 /\ stored' = TRUE /\ UNCHANGED channel
        /\ clear' \in Tasks
    BY <2>1, MadeFacts
  <2>5. poll \subseteq Callees \X (1..Len(namespace'))
    <3>1. Latest \in Nat  BY SpaceFacts
    <3>. QED  BY <2>4, <3>1, GrownFacts
  <2>. QED  BY <1>2, <1>3, <2>1, <2>3, <2>4, <2>5 DEF calls
<1>7. CASE PollEnds
  <2>1. UNCHANGED <<down, session, ending, calls>> /\ poll' = {}  BY <1>7 DEF PollEnds
  <2>2. PICK p \in poll : clear' = IF p[2] = Latest THEN Scheduled(clear, p[1])
                                   ELSE [clear EXCEPT !.older = clear.older \cup {p[1]}]
    BY <1>7 DEF PollEnds
  <2>3. p[1] \in Callees  BY <1>1
  <2>4. Scheduled(clear, p[1]) \in Tasks /\ [clear EXCEPT !.older = clear.older \cup {p[1]}] \in Tasks
    <3>1. Scheduled(clear, p[1]) \in Tasks  BY <1>1, <2>3, TaskFacts
    <3>. QED  BY <1>1, <2>3, <3>1 DEF Tasks
  <2>5. clear' \in Tasks  BY <2>2, <2>4
  <2>. QED  BY <1>2, <1>3, <2>1, <2>5 DEF session, calls
<1>8. CASE ChannelDisconnected
  <2>1. UNCHANGED <<down, namespace, stored, poll, ending, calls>> /\ channel' = "gone"
    BY <1>8 DEF ChannelDisconnected
  <2>2. Scheduled(clear, GetIOHandler(namespace[Latest])) \in Tasks  BY <1>1, CalleeFacts, TaskFacts
  <2>3. clear' \in Tasks  BY <1>1, <1>8, <2>2 DEF ChannelDisconnected
  <2>. QED  BY <1>2, <1>3, <2>1, <2>3 DEF calls, Channels
<1>9. CASE ExceptionCaught
  <2>1. UNCHANGED <<down, namespace, stored, poll, ending, calls>>  BY <1>9 DEF ExceptionCaught
  <2>2. PICK e : e = namespace[Latest]  OBVIOUS
  <2>3. Caught(clear, e)  BY <1>9, <2>2 DEF ExceptionCaught
  <2>4. clear' \in Tasks /\ channel' \in Channels  BY <1>1, <2>3, CaughtFacts
  <2>. QED  BY <1>2, <1>3, <2>1, <2>4 DEF calls
<1>10. ASSUME NEW h \in Callees, Clear(h) PROVE Sound'
  <2>1. clear' \in Tasks
    <3>1. \/ clear' = [clear EXCEPT !.future = {}]
          \/ \E others \in SUBSET {h} : clear' = [clear EXCEPT !.older = (clear.older \ {h}) \cup others]
      BY <1>10 DEF Clear
    <3>2. \A others \in SUBSET {h} : (clear.older \ {h}) \cup others \in SUBSET Callees  BY <1>1 DEF Tasks
    <3>. QED  BY <1>1, <3>1, <3>2 DEF Tasks
  <2>2. ending' \in BOOLEAN /\ parted' \subseteq Handlers
    BY <1>3, <1>10 DEF Clear, Callees
  <2>3. UNCHANGED <<down, session, poll>>
    BY <1>10 DEF Clear
  <2>. QED  BY <1>2, <1>3, <2>1, <2>2, <2>3 DEF session
<1>11. CASE ClearEnds
  <2>1. UNCHANGED <<down, namespace, poll, clear, calls>> /\ ending' \in BOOLEAN /\ stored' = FALSE
    BY <1>11 DEF ClearEnds
  <2>2. channel' \in Channels  BY <1>3, <1>11 DEF ClearEnds, Channels
  <2>. QED  BY <1>1, <1>2, <1>3, <2>1, <2>2 DEF calls
<1>. QED  BY <1>4, <1>5, <1>6, <1>7, <1>8, <1>9, <1>10, <1>11 DEF Aside

\* What every one of handleContent's branches does.
LEMMA HandleFacts ==
    ASSUME Sound, Handle, NEW head, head = HeadOf(work[1])
    PROVE  /\ work # <<>>
           /\ UNCHANGED <<fixed, browser, stored, arrived, using, poll, ending, crossed>>
           /\ \/ head.type = "event"      /\ OnMessage(head)
              \/ head.type = "connect"    /\ OnConnect(head)
              \/ head.type = "heartbeat"  /\ OnHeartbeat(head)
              \/ head.type = "disconnect" /\ OnDisconnect(head)
           /\ Queues' /\ SplitExact' /\ clear' \in Tasks /\ channel' \in Channels
           /\ In(Line') \subseteq In(Line) /\ Line # <<>> /\ Line[1] = head /\ head \in In(Line)
           /\ head \in Sent /\ head.endpoint \in Spaces
           /\ kind = "websocket" => work' = <<>> /\ Line' = Tail(Line) /\ Len(work') <= 1
<1> USE DEF Sound
<1>1. work # <<>> /\ UNCHANGED <<fixed, browser, stored, arrived, using, poll, ending, crossed>>
  BY DEF Handle
<1>2. \/ head.type = "event"      /\ OnMessage(head)
      \/ head.type = "connect"    /\ OnConnect(head)
      \/ head.type = "heartbeat"  /\ OnHeartbeat(head)
      \/ head.type = "disconnect" /\ OnDisconnect(head)
  BY DEF Handle, HeadOf
<1>3. clear \in Tasks /\ Queues /\ (kind = "websocket" => Len(work) <= 1)  BY DEF Typed
<1>4. \A e : Beat(GetIOHandler(e)) \in Tasks  BY CalleeFacts, BeatFacts
<1>5. PICK ts \in Tasks : Handled(ts) \/ Abort(ts)
  <2>1. CASE OnMessage(head)  BY <1>3, <2>1 DEF OnMessage
  <2>2. CASE OnDisconnect(head)  BY <1>3, <2>2 DEF OnDisconnect
  <2>3. CASE OnConnect(head)
    <3>1. PICK t : t = Beat(HeartbeatFor(head.endpoint))  OBVIOUS
    <3>2. Handled(t) \/ Abort(t)  BY <2>3, <3>1 DEF OnConnect
    <3>. QED  BY <1>4, <3>1, <3>2 DEF HeartbeatFor
  <2>4. CASE OnHeartbeat(head)
    <3>1. PICK t : t = Beat(GetIOHandler(Here))  OBVIOUS
    <3>2. Handled(t) \/ Abort(t)  BY <2>4, <3>1 DEF OnHeartbeat
    <3>. QED  BY <1>4, <3>1, <3>2
  <2>. QED  BY <1>2, <2>1, <2>2, <2>3, <2>4
<1>6. clear' \in Tasks /\ channel' \in Channels  BY <1>5, DoneFacts
<1>7. /\ Queues' /\ SplitExact' /\ In(Line') \subseteq In(Line)
      /\ Line # <<>> /\ Line[1] = head /\ head \in In(Line) /\ head \in Sent
      /\ kind = "websocket" => work' = <<>> /\ Line' = Tail(Line) /\ Len(work') <= 1
  <2>1. UNCHANGED <<arrived, up>>  BY <1>1 DEF browser
  <2>. QED  BY <1>1, <1>3, <1>5, <2>1, HandleLine
<1>8. head.endpoint \in Spaces  BY <1>7 DEF Sent, Headers
<1>. QED  BY <1>1, <1>2, <1>6, <1>7, <1>8

\* A connect packet names its sender's client.
LEMMA NamedFacts ==
    ASSUME Typed, NEW e \in Spaces, namespace' = [namespace EXCEPT ![using] = e]
    PROVE  /\ namespace' \in Seq(Spaces) /\ Len(namespace') = Latest /\ namespace'[using] = e
           /\ \A i \in 1..Latest : namespace'[i] = IF i = using THEN e ELSE namespace[i]
<1>1. namespace \in Seq(Spaces) /\ using \in 1..Len(namespace) /\ Latest = Len(namespace) /\ Latest \in Nat
  BY SpaceFacts DEF Typed, Latest
<1> DEFINE S == Spaces
<1>2. namespace \in Seq(S) /\ e \in S  BY <1>1
<1> HIDE DEF S
<1>3. /\ namespace' \in Seq(S) /\ Len(namespace') = Len(namespace)
      /\ \A i \in 1..Len(namespace) : namespace'[i] = IF i = using THEN e ELSE namespace[i]
  BY <1>1, <1>2, ExceptSeq
<1>. QED  BY <1>1, <1>3 DEF S

LEMMA SoundHandle ==
    ASSUME Sound, Handle
    PROVE  Sound'
<1>1. PICK head : head = HeadOf(work[1])  OBVIOUS
<1>2. /\ UNCHANGED <<fixed, browser, stored, arrived, using, poll, ending, crossed>>
      /\ \/ head.type = "event"      /\ OnMessage(head)
         \/ head.type = "connect"    /\ OnConnect(head)
         \/ head.type = "heartbeat"  /\ OnHeartbeat(head)
         \/ head.type = "disconnect" /\ OnDisconnect(head)
      /\ Queues' /\ SplitExact' /\ clear' \in Tasks /\ channel' \in Channels
      /\ head \in Sent /\ head.endpoint \in Spaces
      /\ kind = "websocket" => Len(work') <= 1
  BY <1>1, HandleFacts
<1> DEFINE Hearings == Spaces \X Handlers \X (1..Latest)
<1>3. /\ down \subseteq Downs /\ using \in 1..Latest /\ Latest = Len(namespace) /\ namespace \in Seq(Spaces)
      /\ Here \in Spaces /\ namespace[Latest] \in Spaces
      /\ met \subseteq Handlers /\ parted \subseteq Handlers /\ heard \subseteq Hearings
  BY SpaceFacts DEF Sound, Typed, Latest
<1>4. ASSUME down' \subseteq Downs, namespace' \in Seq(Spaces), Len(namespace') = Latest, met' \subseteq Handlers,
             parted' \subseteq Handlers, heard' \subseteq Hearings
      PROVE  Sound'
  <2>1. using' \in 1..Len(namespace') /\ poll' \subseteq Callees \X (1..Len(namespace'))
    BY <1>2, <1>3, <1>4 DEF Sound, Typed
  <2>2. Typed'  BY <1>2, <1>4, <2>1 DEF Sound, Typed, fixed, browser
  <2>. QED  BY <1>2, <2>2 DEF Sound
<1>5. namespace'[using] \in Spaces => Answer \subseteq Downs  BY DEF Answer, Downs
<1>6. Beats \subseteq Downs  BY DEF Beats, Downs, Spaces
<1>7. \A s : Written(s) \subseteq s  BY DEF Written
<1>8. CASE head.type = "event" /\ OnMessage(head)
  <2>1. UNCHANGED <<namespace, met, parted>>  BY <1>8 DEF OnMessage
  <2>2. AckNotify(head) \subseteq Downs
    <3>1. head.id # 0 => head.id \in Ids /\ head.serial \in Ids
      <4>1. head.id \in 0..Len(Texts) /\ head.serial \in 0..Len(Texts) /\ head.serial # 0
        BY <1>2, <1>8 DEF Sent, Headers
      <4>2. Len(Texts) \in Nat  BY TextsAssumption
      <4>. QED  BY <4>1, <4>2 DEF Ids
    <3>. QED  BY <1>3, <3>1 DEF AckNotify, Downs
  <2>3. Broadcast(Here) \subseteq Downs  BY <1>3 DEF Broadcast, Wrapped, Downs
  <2>4. PICK h : h = GetIOHandler(Here)  OBVIOUS
  <2>5. CASE h = Nobody
    <3>1. UNCHANGED <<down, heard>>  BY <1>8, <2>4, <2>5 DEF OnMessage
    <3>. QED  BY <1>3, <1>4, <2>1, <3>1
  <2>6. CASE h # Nobody
    <3>1. /\ heard' = heard \cup {<<head.endpoint, h, using>>}
          /\ \E answers \in {{}, AckNotify(head)}, told \in {{}, Broadcast(Here)} :
                 down' = down \cup Written(answers \cup told \cup Answer)
      BY <1>8, <2>4, <2>6 DEF OnMessage
    <3>2. PICK answers \in {{}, AckNotify(head)}, told \in {{}, Broadcast(Here)} :
                 down' = down \cup Written(answers \cup told \cup Answer)
      BY <3>1
    <3>3. told \subseteq Downs /\ answers \subseteq Downs  BY <2>2, <2>3, <3>2
    <3>4. Answer \subseteq Downs  BY <1>3, <1>5, <2>1 DEF Here
    <3>5. PICK new : new = answers \cup told \cup Answer  OBVIOUS
    <3>6. down' \subseteq Downs  BY <1>3, <1>7, <3>2, <3>3, <3>4, <3>5
    <3>7. h \in Handlers  BY <2>4, <2>6, CalleeFacts
    <3>8. heard' \subseteq Hearings  BY <1>2, <1>3, <3>1, <3>7
    <3> HIDE DEF Hearings
    <3>. QED  BY <1>3, <1>4, <2>1, <3>6, <3>8
  <2>. QED  BY <2>5, <2>6
<1>9. CASE head.type = "connect" /\ OnConnect(head)
  <2>1. namespace' = [namespace EXCEPT ![using] = head.endpoint] /\ UNCHANGED <<heard, parted>>
    BY <1>9 DEF OnConnect
  <2>2. namespace' \in Seq(Spaces) /\ Len(namespace') = Latest /\ namespace'[using] = head.endpoint
    BY <1>2, <2>1, NamedFacts DEF Sound
  <2>3. PICK h : h = GetIOHandler(head.endpoint)  OBVIOUS
  <2>4. PICK new : new = {[type |-> "connect", endpoint |-> head.endpoint]} \cup Beats
                         \cup (IF h = Nobody THEN {} ELSE Answer)
    OBVIOUS
  <2>5. down' = down \cup Written(new)  BY <1>9, <2>3, <2>4 DEF OnConnect
  <2>6. Answer \subseteq Downs  BY <1>2, <1>5, <2>2
  <2>7. [type |-> "connect", endpoint |-> head.endpoint] \in Downs  BY <1>2 DEF Downs
  <2>8. new \subseteq Downs  BY <1>6, <2>4, <2>6, <2>7
  <2>9. down' \subseteq Downs  BY <1>3, <1>7, <2>5, <2>8
  <2>10. met' = met \/ (h # Nobody /\ met' = met \cup {h})  BY <1>9, <2>3 DEF OnConnect
  <2>11. met' \subseteq Handlers  BY <1>3, <2>3, <2>10, CalleeFacts
  <2>. QED  BY <1>3, <1>4, <2>1, <2>2, <2>9, <2>11
<1>10. CASE head.type = "heartbeat" /\ OnHeartbeat(head)
  <2>1. UNCHANGED <<namespace, calls>> /\ down' = down \cup Written(Beats \cup Answer)  BY <1>10 DEF OnHeartbeat
  <2>2. Answer \subseteq Downs  BY <1>3, <1>5, <2>1 DEF Here
  <2>3. down' \subseteq Downs
    <3>1. Written(Beats \cup Answer) \subseteq Beats \cup Answer  BY <1>7
    <3>. QED  BY <1>3, <1>6, <2>1, <2>2, <3>1
  <2>. QED  BY <1>3, <1>4, <2>1, <2>3 DEF calls
<1>11. CASE head.type = "disconnect" /\ OnDisconnect(head)
  <2>1. UNCHANGED <<namespace, met>>  BY <1>11 DEF OnDisconnect
  <2>2. PICK h : h = GetIOHandler(Here)  OBVIOUS
  <2>3. CASE h = Nobody
    <3>1. UNCHANGED <<down, heard, parted>>  BY <1>11, <2>2, <2>3 DEF OnDisconnect
    <3>. QED  BY <1>3, <1>4, <2>1, <3>1
  <2>4. CASE h # Nobody
    <3>1. /\ heard' = heard \cup {<<head.endpoint, h, using>>} /\ parted' = parted \cup {h}
          /\ down' \subseteq down \cup {[type |-> "disconnect", endpoint |-> head.endpoint]}
      BY <1>11, <2>2, <2>4 DEF OnDisconnect, Written
    <3>2. [type |-> "disconnect", endpoint |-> head.endpoint] \in Downs  BY <1>2 DEF Downs
    <3>3. h \in Handlers  BY <2>2, <2>4, CalleeFacts
    <3>4. heard' \subseteq Hearings  BY <1>2, <1>3, <3>1, <3>3
    <3> HIDE DEF Hearings
    <3>. QED  BY <1>3, <1>4, <2>1, <3>1, <3>2, <3>3, <3>4
  <2>. QED  BY <2>3, <2>4
<1>. QED  BY <1>2, <1>8, <1>9, <1>10, <1>11

\* The steps of a behaviour, with those of the server put together.
LEMMA Steps ==
    ASSUME [Next]_vars
    PROVE  \/ \E e \in Endpoints : Open(e) \/ Emit(e) \/ EmitWithAck(e) \/ Leave(e)
           \/ \E p \in down : Receive(p)
           \/ Transmit \/ Begin \/ Handle \/ Aside
           \/ UNCHANGED vars
BY DEF Next, Aside, Callees

LEMMA SoundStep == Sound /\ [Next]_vars => Sound'
<1> SUFFICES ASSUME Sound, [Next]_vars PROVE Sound'  OBVIOUS
<1>1. CASE UNCHANGED vars
  <2>1. SplitExact'  BY <1>1 DEF vars, SplitExact, Sound, request
  <2>2. Queues'  BY <1>1 DEF vars, Queues, Sound, Typed, browser, request
  <2>3. Typed'  BY <1>1, <2>2 DEF vars, Typed, Sound, fixed, browser, session, request, tasks, calls
  <2>. QED  BY <2>1, <2>3 DEF Sound
<1>. QED
  BY <1>1, Steps, SoundBrowser, SoundReceive, SoundTransmit, SoundBegin, SoundHandle, SoundAside

LEMMA AlwaysSound == Spec => []Sound
BY SoundInit, SoundStep, PTL DEF Spec

(* Every variable keeps its type, for any namespaces, handlers and messages: *)
(* what handleContent is about to handle always begins with the header of    *)
(* one packet (parser.encodePayload, ITransport.getSplitResults).            *)
THEOREM TypeCorrect == Spec => []TypeOK
<1>1. Sound => TypeOK
  <2> SUFFICES ASSUME Sound PROVE TypeOK  OBVIOUS
  <2>1. Typed /\ Queues /\ Len(Texts) \in Nat  BY TextsAssumption DEF Sound, Typed
  <2>2. ASSUME NEW q \in Seq(Wells) PROVE \A i \in DOMAIN q : Piece(q[i])
    <3>1. \A i \in DOMAIN q : q[i] \in Wells  BY LenFacts
    <3>. QED  BY <3>1, WellFacts
  <2>3. \A i \in DOMAIN up : Piece(up[i])  BY <2>1, <2>2 DEF Queues
  <2>4. \A i \in DOMAIN arrived : Piece(arrived[i])  BY <2>1, <2>2 DEF Queues
  <2>5. \A i \in DOMAIN body : Piece(body[i])  BY <2>1, <2>2 DEF Queues
  <2>6. \A i \in DOMAIN work : Piece(work[i])  BY <2>1, <2>2 DEF Queues
  <2>7. DOMAIN namespace = 1..Len(namespace)  BY <2>1 DEF Typed
  <2>8. \A e \in Spaces : acks[e] \subseteq Ids \X Ids /\ ackPackets[e] \in 0..Len(Texts)
    <3> SUFFICES ASSUME NEW e \in Spaces PROVE acks[e] \subseteq Ids \X Ids /\ ackPackets[e] \in 0..Len(Texts)
      OBVIOUS
    <3>1. /\ acks[e] \in SUBSET (Ids \X Ids) /\ ackPackets[e] \in Nat /\ ackPackets[e] <= serial
          /\ serial \in 0..Len(Texts)
      BY <2>1 DEF Typed
    <3>. QED  BY <2>1, <3>1
  <2>. QED  BY <2>1, <2>3, <2>4, <2>5, <2>6, <2>7, <2>8 DEF TypeOK, Typed, Callees, Tasks, Channels
<1>. QED  BY <1>1, AlwaysSound, PTL

(* The packets of a request are handled as they were encoded, each once and   *)
(* in order, whatever separators, digits and white space the messages hold,   *)
(* for requests of any number of packets (encodePayload's frame against       *)
(* handleContent's trim and regular expression): PayloadRead, carried through *)
(* every step of the session.                                                 *)
THEOREM SplitExactAlways == Spec => []SplitExact
<1>1. Sound => SplitExact  BY DEF Sound
<1>. QED  BY <1>1, AlwaysSound, PTL

-----------------------------------------------------------------------------
(* The namespaces of a session. *)

LEMMA LineAppend ==
    ASSUME Queues, NEW x, Line' = Append(Line, x)
    PROVE  In(Line') = In(Line) \cup {x}
<1> DEFINE A == Sent
           S == A \cup {x}
<1>1. Line \in Seq(A)  BY LineFacts
<1> HIDE DEF A
<1>2. Line \in Seq(S) /\ x \in S  BY <1>1, SeqMonotonic
<1> HIDE DEF S
<1>. QED  BY <1>2, InAppend

LEMMA RootFacts ==
    ASSUME NEW e \in Endpoints
    PROVE  e # Root /\ e \in Spaces /\ Root \in Spaces
BY SpacesAssumption DEF Spaces

\* Nobody names a namespace the application does not open, the packets on their way
\* in either direction included; heartbeats are a websocket's.
Asked ==
    /\ spaces \subseteq opens \cup {Root}
    /\ \A i \in 1..Latest : namespace[i] \in opens \cup {Root}
    /\ \A p \in down : /\ p.endpoint \in opens \cup {Root}
                       /\ p.type = "heartbeat" => kind = "websocket"
    /\ \A h \in In(Line) : IF h.type = "heartbeat" THEN kind = "websocket" ELSE h.endpoint \in opens

\* Nothing is on its way to the server.
LEMMA EmptyLine ==
    ASSUME Init
    PROVE  Line = <<>> /\ In(Line) = {} /\ Queues
<1>1. <<>> \in Seq(Wells) /\ Len(<<>>) = 0  OBVIOUS
<1>2. Queues  BY <1>1 DEF Init, Queues
<1>3. Line = HeadsIn(up) /\ up = <<>>  BY <1>2, LineFacts DEF Init
<1>4. Line = <<>>  BY <1>3, NoHeads
<1>5. In(<<>>) = {}
  <2>1. 1..Len(<<>>) = {}  OBVIOUS
  <2>. QED  BY <2>1 DEF In
<1>. QED  BY <1>2, <1>4, <1>5

\* The steps that leave the packets on their way to the server alone.
LEMMA SameLine ==
    ASSUME UNCHANGED <<work, arrived, up>>
    PROVE  Line' = Line
BY DEF Line, Later

LEMMA AskedInit == Init => Asked
<1> SUFFICES ASSUME Init PROVE Asked  OBVIOUS
<1>1. In(Line) = {}  BY EmptyLine
<1>2. Latest = 1 /\ namespace[1] = Root  BY DEF Init, Latest
<1>3. \A i \in 1..Latest : namespace[i] = Root  BY <1>2
<1>. QED  BY <1>1, <1>3 DEF Init, Asked

LEMMA AskedBrowser ==
    ASSUME Sound, Asked, NEW e \in Endpoints, Open(e) \/ Emit(e) \/ EmitWithAck(e) \/ Leave(e)
    PROVE  Asked'
<1>1. Queues  BY DEF Sound, Typed
<1>2. ASSUME NEW x, x.endpoint = e, x.type # "heartbeat", In(Line') \subseteq In(Line) \cup {x}, e \in opens,
             spaces' \subseteq spaces \cup {e}, UNCHANGED <<opens, kind, namespace, down>>
      PROVE  Asked'
  BY <1>2 DEF Asked, Latest
<1>3. CASE Open(e)
  <2>1. spaces' = spaces \cup {e} /\ e \in opens \ spaces
        /\ (Line' = Line \/ Line' = Append(Line, Heading("connect", e, 0, 0)))
    BY <1>3, OpenLine DEF Sound
  <2>2. PICK x : x = Heading("connect", e, 0, 0)  OBVIOUS
  <2>3. In(Line') \subseteq In(Line) \cup {x}  BY <1>1, <2>1, <2>2, LineAppend
  <2>4. UNCHANGED <<opens, kind, namespace, down>>  BY <1>3 DEF Open, fixed, session
  <2>. QED  BY <1>2, <2>1, <2>2, <2>3, <2>4 DEF Heading
<1>4. ASSUME Sends(e), NEW x, x.endpoint = e, x.type # "heartbeat", Line' = Append(Line, x) PROVE Asked'
  <2>1. e \in opens /\ spaces' = spaces /\ UNCHANGED <<opens, kind, namespace, down>>
    BY <1>4 DEF Sends, fixed, session
  <2>2. In(Line') \subseteq In(Line) \cup {x}  BY <1>1, <1>4, LineAppend
  <2>. QED  BY <1>2, <1>4, <2>1, <2>2
<1>5. CASE Emit(e)
  <2>1. Sends(e) /\ Line' = Append(Line, Heading("event", e, 0, serial'))  BY <1>5, EmitLine DEF Emit, Sound
  <2>2. PICK x : x = Heading("event", e, 0, serial')  OBVIOUS
  <2>. QED  BY <1>4, <2>1, <2>2 DEF Heading
<1>6. CASE EmitWithAck(e)
  <2>1. PICK id : id = ackPackets[e] + 1  OBVIOUS
  <2>2. Sends(e) /\ Line' = Append(Line, Heading("event", e, id, serial'))
    BY <1>6, <2>1, EmitWithAckLine DEF EmitWithAck, Sound
  <2>3. PICK x : x = Heading("event", e, id, serial')  OBVIOUS
  <2>. QED  BY <1>4, <2>2, <2>3 DEF Heading
<1>7. CASE Leave(e)
  <2>1. Sends(e) /\ Line' = Append(Line, Heading("disconnect", e, 0, serial'))  BY <1>7, LeaveLine DEF Leave, Sound
  <2>2. PICK x : x = Heading("disconnect", e, 0, serial')  OBVIOUS
  <2>. QED  BY <1>4, <2>1, <2>2 DEF Heading
<1>. QED  BY <1>3, <1>5, <1>6, <1>7

LEMMA AskedReceive ==
    ASSUME Sound, Asked, NEW p \in down, Receive(p)
    PROVE  Asked'
<1>1. Queues  BY DEF Sound, Typed
<1>2. p.endpoint \in opens \cup {Root} /\ UNCHANGED <<opens, kind, namespace>> /\ down' \subseteq down
  BY DEF Asked, Receive, fixed, session
<1>3. \/ p.type = "heartbeat" /\ spaces' = spaces
         /\ Line' = Append(Line, Heading("heartbeat", Root, 0, 0))
      \/ /\ p.type # "heartbeat" /\ spaces' = spaces \cup {p.endpoint}
         /\ \/ Line' = Line
            \/ /\ p.endpoint \notin spaces \cup {Root}
               /\ Line' = Append(Line, Heading("connect", p.endpoint, 0, 0))
  BY ReceiveLine DEF Sound
<1>4. CASE p.type = "heartbeat"
  <2>1. PICK x : x = Heading("heartbeat", Root, 0, 0)  OBVIOUS
  <2>2. In(Line') = In(Line) \cup {x}  BY <1>1, <1>3, <1>4, <2>1, LineAppend
  <2>3. x.type = "heartbeat" /\ kind = "websocket"  BY <1>4, <2>1 DEF Heading, Asked
  <2>4. spaces' = spaces  BY <1>3, <1>4
  <2>. QED  BY <1>2, <2>2, <2>3, <2>4 DEF Asked, Latest
<1>5. CASE p.type # "heartbeat" /\ Line' = Line
  <2>1. spaces' = spaces \cup {p.endpoint}  BY <1>3, <1>5
  <2>. QED  BY <1>2, <1>5, <2>1 DEF Asked, Latest
<1>6. CASE p.type # "heartbeat" /\ Line' # Line
  <2>1. PICK x : x = Heading("connect", p.endpoint, 0, 0)  OBVIOUS
  <2>2. In(Line') = In(Line) \cup {x} /\ p.endpoint \in opens  BY <1>1, <1>2, <1>3, <1>6, <2>1, LineAppend
  <2>3. x.endpoint = p.endpoint /\ x.type = "connect"  BY <2>1 DEF Heading
  <2>4. spaces' = spaces \cup {p.endpoint}  BY <1>3, <1>6
  <2>. QED  BY <1>2, <2>2, <2>3, <2>4 DEF Asked, Latest
<1>. QED  BY <1>4, <1>5, <1>6

\* The clients are called by namespaces that were asked for.
LEMMA HomeFacts ==
    ASSUME Sound, Asked
    PROVE  /\ Here \in opens \cup {Root} /\ namespace[Latest] \in opens \cup {Root}
           /\ \A from : \A p \in Broadcast(from) : p.type = "event" /\ p.endpoint \in opens \cup {Root}
<1>1. using \in 1..Latest /\ Latest \in 1..Latest  BY SpaceFacts DEF Sound
<1>2. Here \in opens \cup {Root} /\ namespace[Latest] \in opens \cup {Root}  BY <1>1 DEF Asked, Here
<1>. QED  BY <1>2 DEF Broadcast, Wrapped

LEMMA AskedHandle ==
    ASSUME Sound, Asked, Handle
    PROVE  Asked'
<1> DEFINE Home == opens \cup {Root}
<1>1. PICK head : head = HeadOf(work[1])  OBVIOUS
<1>2. /\ UNCHANGED <<fixed, browser>>
      /\ \/ head.type = "event"      /\ OnMessage(head)
         \/ head.type = "connect"    /\ OnConnect(head)
         \/ head.type = "heartbeat"  /\ OnHeartbeat(head)
         \/ head.type = "disconnect" /\ OnDisconnect(head)
      /\ In(Line') \subseteq In(Line) /\ head \in In(Line) /\ head.endpoint \in Spaces
  BY <1>1, HandleFacts
<1>3. head.type # "heartbeat" => head.endpoint \in Home  BY <1>2 DEF Asked
<1>4. UNCHANGED <<opens, kind, spaces>>  BY <1>2 DEF fixed, browser
<1>5. ASSUME \A i \in 1..Latest' : namespace'[i] \in Home, NEW new, down' \subseteq down \cup new,
             \A p \in new : p.endpoint \in Home /\ (p.type = "heartbeat" => kind = "websocket")
      PROVE  Asked'
  BY <1>2, <1>4, <1>5 DEF Asked
<1>6. Here \in Home /\ \A i \in 1..Latest : namespace[i] \in Home  BY HomeFacts DEF Asked
<1>7. \A from : \A p \in Broadcast(from) : p.type = "event" /\ p.endpoint \in Home  BY HomeFacts
<1>8. \A p \in Beats : p.endpoint = Root /\ kind = "websocket"  BY DEF Beats
<1>9. \A p \in Answer : p.endpoint = namespace'[using] /\ kind = "websocket"  BY DEF Answer
<1>10. \A s : Written(s) \subseteq s  BY DEF Written
<1> HIDE DEF Home
<1>11. CASE head.type = "event" /\ OnMessage(head)
  <2>1. UNCHANGED namespace /\ namespace'[using] \in Home /\ Latest' = Latest
    BY <1>6, <1>11 DEF OnMessage, Here, Latest
  <2>2. PICK new : new = AckNotify(head) \cup Broadcast(Here) \cup Answer  OBVIOUS
  <2>3. down' \subseteq down \cup new
    <3>1. \/ down' = down
          \/ \E answers \in {{}, AckNotify(head)}, told \in {{}, Broadcast(Here)} :
                 down' = down \cup Written(answers \cup told \cup Answer)
      BY <1>11 DEF OnMessage
    <3>2. \A answers \in {{}, AckNotify(head)}, told \in {{}, Broadcast(Here)} : answers \cup told \cup Answer \subseteq new
      BY <2>2
    <3>. QED  BY <1>10, <3>1, <3>2
  <2>4. \A p \in AckNotify(head) : p.endpoint = Here /\ p.type = "ack"  BY DEF AckNotify
  <2>5. \A p \in new : p.endpoint \in Home /\ (p.type = "heartbeat" => kind = "websocket")
    BY <1>6, <1>7, <1>9, <2>1, <2>2, <2>4
  <2>. QED  BY <1>5, <1>6, <2>1, <2>3, <2>5
<1>12. CASE head.type = "connect" /\ OnConnect(head)
  <2>1. namespace' = [namespace EXCEPT ![using] = head.endpoint]  BY <1>12 DEF OnConnect
  <2>2. /\ namespace'[using] = head.endpoint /\ Latest' = Latest
        /\ \A i \in 1..Latest : namespace'[i] = IF i = using THEN head.endpoint ELSE namespace[i]
    BY <1>2, <2>1, NamedFacts DEF Sound, Latest
  <2>3. \A i \in 1..Latest' : namespace'[i] \in Home  BY <1>3, <1>6, <1>12, <2>2
  <2>4. PICK new : new = {[type |-> "connect", endpoint |-> head.endpoint]} \cup Beats \cup Answer  OBVIOUS
  <2>5. down' \subseteq down \cup new
    <3>1. PICK h : h = GetIOHandler(head.endpoint)  OBVIOUS
    <3>2. PICK part : part = {[type |-> "connect", endpoint |-> head.endpoint]} \cup Beats
                             \cup (IF h = Nobody THEN {} ELSE Answer)
      OBVIOUS
    <3>3. down' = down \cup Written(part)  BY <1>12, <3>1, <3>2 DEF OnConnect
    <3>. QED  BY <1>10, <2>4, <3>2, <3>3
  <2>6. head.endpoint \in Home  BY <1>3, <1>12
  <2>7. \A p \in new : p.endpoint \in Home /\ (p.type = "heartbeat" => kind = "websocket")
    <3>1. \A p \in {[type |-> "connect", endpoint |-> head.endpoint]} :
             p.endpoint = head.endpoint /\ p.type = "connect"
      OBVIOUS
    <3>2. Root \in Home  BY DEF Home
    <3>. QED  BY <1>8, <1>9, <2>2, <2>4, <2>6, <3>1, <3>2
  <2>. QED  BY <1>5, <2>3, <2>5, <2>7
<1>13. CASE head.type = "heartbeat" /\ OnHeartbeat(head)
  <2>1. UNCHANGED namespace /\ namespace'[using] \in Home /\ Latest' = Latest
    BY <1>6, <1>13 DEF OnHeartbeat, Here, Latest
  <2>2. PICK new : new = Beats \cup Answer  OBVIOUS
  <2>3. down' \subseteq down \cup new  BY <1>10, <1>13, <2>2 DEF OnHeartbeat
  <2>4. Root \in Home  BY DEF Home
  <2>5. \A p \in new : p.endpoint \in Home /\ (p.type = "heartbeat" => kind = "websocket")
    BY <1>8, <1>9, <2>1, <2>2, <2>4
  <2>. QED  BY <1>5, <1>6, <2>1, <2>3, <2>5
<1>14. CASE head.type = "disconnect" /\ OnDisconnect(head)
  <2>1. UNCHANGED namespace /\ Latest' = Latest  BY <1>14 DEF OnDisconnect, Latest
  <2>2. PICK new : new = {[type |-> "disconnect", endpoint |-> head.endpoint]}  OBVIOUS
  <2>3. down' \subseteq down \cup new  BY <1>10, <1>14, <2>2 DEF OnDisconnect
  <2>4. \A p \in new : p.endpoint = head.endpoint /\ p.type = "disconnect"  BY <2>2
  <2>. QED  BY <1>3, <1>5, <1>6, <1>14, <2>1, <2>3, <2>4
<1>. QED  BY <1>2, <1>11, <1>12, <1>13, <1>14

\* A request begun, with a client made for it or not.
LEMMA AskedBegin ==
    ASSUME Sound, Asked, Begin
    PROVE  Asked'
<1>1. Line' = Line  BY BeginLine DEF Sound, Typed
<1>2. UNCHANGED <<opens, kind, spaces, down>>  BY DEF Begin, fixed, browser
<1>3. \A i \in 1..Latest' : namespace'[i] \in opens \cup {Root}
  <2>1. CASE UNCHANGED <<session, clear>>  BY <2>1 DEF session, Asked, Latest
  <2>2. CASE Made
    <3>1. /\ Latest \in Nat /\ Latest' = Latest + 1 /\ namespace'[Latest + 1] = Root
          /\ \A i \in 1..Latest : namespace'[i] = namespace[i]
      BY <2>2, SpaceFacts, MadeFacts DEF Sound, Latest
    <3>2. \A i \in 1..Latest' : i \in 1..Latest \/ i = Latest + 1  BY <3>1
    <3>. QED  BY <3>1, <3>2 DEF Asked
  <2>. QED  BY <2>1, <2>2 DEF Begin
<1>. QED  BY <1>1, <1>2, <1>3 DEF Asked

LEMMA AskedAside ==
    ASSUME Sound, Asked, Aside
    PROVE  Asked'
<1>1. UNCHANGED <<opens, kind, spaces>> /\ Line' = Line
  <2>1. UNCHANGED <<fixed, browser, arrived, request>>  BY AsideFacts
  <2>. QED  BY <2>1, SameLine DEF fixed, browser, request
<1>2. ASSUME \A i \in 1..Latest' : namespace'[i] \in opens \cup {Root}, NEW new, down' \subseteq down \cup new,
             \A p \in new : p.endpoint \in opens \cup {Root} /\ p.type # "heartbeat"
      PROVE  Asked'
  BY <1>1, <1>2 DEF Asked
<1>3. \A i \in 1..Latest : namespace[i] \in opens \cup {Root}  BY DEF Asked
<1>4. ASSUME NEW from \in Handlers, Overhear(from) PROVE Asked'
  <2>1. PICK new : new = Broadcast(from)  OBVIOUS
  <2>2. UNCHANGED namespace /\ Latest' = Latest /\ down' \subseteq down \cup new
    BY <1>4, <2>1 DEF Overhear, session, Latest, Written
  <2>3. \A p \in new : p.type = "event" /\ p.endpoint \in opens \cup {Root}  BY <2>1, HomeFacts
  <2>. QED  BY <1>2, <1>3, <2>2, <2>3
<1>5. CASE PollLate
  <2>1. /\ Latest \in Nat /\ Latest' = Latest + 1 /\ namespace'[Latest + 1] = Root
        /\ \A i \in 1..Latest : namespace'[i] = namespace[i]
    BY <1>5, SpaceFacts, MadeFacts DEF Sound, Latest, PollLate
  <2>2. \A i \in 1..Latest' : i \in 1..Latest \/ i = Latest + 1  BY <2>1
  <2>3. \A i \in 1..Latest' : namespace'[i] \in opens \cup {Root}  BY <1>3, <2>1, <2>2
  <2>4. PICK new : new = {[type |-> "connect", endpoint |-> Root]}  OBVIOUS
  <2>5. down' \subseteq down \cup new /\ \A p \in new : p.endpoint = Root /\ p.type = "connect"
    BY <1>5, <2>4 DEF PollLate
  <2>. QED  BY <1>2, <2>3, <2>5
<1>6. CASE Poll \/ PollEnds \/ ChannelDisconnected \/ ExceptionCaught \/ (\E h \in Callees : Clear(h)) \/ ClearEnds
  <2>1. UNCHANGED <<namespace, down>>
    BY <1>6 DEF Poll, PollEnds, ChannelDisconnected, ExceptionCaught, Clear, ClearEnds, session
  <2>. QED  BY <1>1, <2>1 DEF Asked, Latest
<1>. QED  BY <1>4, <1>5, <1>6 DEF Aside

LEMMA AskedStep == Sound /\ Asked /\ [Next]_vars => Asked'
<1> SUFFICES ASSUME Sound, Asked, [Next]_vars PROVE Asked'  OBVIOUS
<1>1. CASE Transmit
  <2>1. In(Line') \subseteq In(Line)  BY <1>1, TransmitLine DEF Sound, Typed
  <2>2. UNCHANGED <<opens, kind, spaces, namespace, down>>  BY <1>1 DEF Transmit, fixed, session
  <2>. QED  BY <2>1, <2>2 DEF Asked, Latest
<1>2. CASE UNCHANGED vars
  <2>1. Line' = Line  BY <1>2, SameLine DEF vars, browser, request
  <2>. QED  BY <1>2, <2>1 DEF Asked, Latest, vars, fixed, browser, session
<1>. QED
  BY <1>1, <1>2, Steps, AskedBrowser, AskedReceive, AskedBegin, AskedHandle, AskedAside

(* No packet makes a browser open a namespace its application did not ask for, *)
(* however many namespaces the application and the other browsers open: a      *)
(* broadcast reaches a client under a namespace it announced, and a client     *)
(* made anew is called by the root's (GenericIO.send, Socket.of).              *)
THEOREM NoStrangerAlways == Spec => []NoStranger
<1>1. Asked => NoStranger  BY DEF Asked, NoStranger
<1>. QED  BY <1>1, AlwaysSound, AskedInit, AskedStep, PTL DEF Spec

-----------------------------------------------------------------------------
(* A browser that opens one namespace. *)

\* The next packet is for the client the session began with.
Original == using = 1 /\ (work # <<>> \/ (Latest = 1 /\ stored))

\* Until the namespace of that client is the one the browser opens, every message for
\* it waits behind a connect.
Heard(e) ==
    /\ \A x \in heard : x[2] = x[1] \/ (x[2] = Root /\ x[3] > 1)
    /\ Original => namespace[1] = e \/ (Led(Line) /\ (e \in spaces => Asks(Line)))

LEMMA OriginalSame ==
    ASSUME UNCHANGED <<work, using, stored, namespace>>
    PROVE  Original' = Original
BY DEF Original, Latest

LEMMA GrownLine ==
    ASSUME Queues, NEW x, x \in Sent, Line' = Append(Line, x)
    PROVE  /\ In(Line') = In(Line) \cup {x} /\ (Asks(Line) => Asks(Line'))
           /\ x.type = "connect" => Asks(Line')
           /\ Led(Line) /\ (x.type \notin {"event", "disconnect"} \/ Asks(Line)) => Led(Line')
<1> DEFINE A == Sent
<1>1. Line \in Seq(A) /\ x \in A  BY LineFacts
<1>2. In(Line') = In(Line) \cup {x}  BY LineAppend
<1>3. (Asks(Line) => Asks(Line')) /\ (x.type = "connect" => Asks(Line'))  BY <1>2 DEF Asks
<1> HIDE DEF A
<1>4. Led(Line) /\ (x.type \notin {"event", "disconnect"} \/ Asks(Line)) => Led(Line')
  BY <1>1, LedAppend
<1>. QED  BY <1>2, <1>3, <1>4

LEMMA HeadingSent ==
    ASSUME NEW type \in {"connect", "event", "heartbeat", "disconnect"}, NEW e \in Spaces,
           NEW id \in 0..Len(Texts), NEW n \in 0..Len(Texts), type = "event" => n # 0
    PROVE  /\ Heading(type, e, id, n) \in Sent /\ Heading(type, e, id, n).type = type
           /\ Heading(type, e, id, n).endpoint = e
           /\ Heading(type, e, id, n).id = id /\ Heading(type, e, id, n).serial = n
BY DEF Heading, Sent, Headers

LEMMA HeardBrowser ==
    ASSUME Sound, Asked, NEW e \in Endpoints, opens = {e}, Heard(e),
           NEW f \in Endpoints, Open(f) \/ Emit(f) \/ EmitWithAck(f) \/ Leave(f)
    PROVE  Heard(e)'
<1>1. Queues /\ 0 \in 0..Len(Texts) /\ Len(Texts) \in Nat  BY TextsAssumption DEF Sound, Typed
<1>2. e # Root /\ e \in Spaces  BY RootFacts
<1>3. CASE Open(f)
  <2>1. f = e /\ e \notin spaces \cup {Root} /\ UNCHANGED <<heard, stored, work, using, namespace>>
    BY <1>2, <1>3 DEF Open, calls, session, request
  <2>2. Line' = Append(Line, Heading("connect", e, 0, 0))  BY <1>3, <2>1, OpenLine DEF Sound
  <2>3. PICK x : x = Heading("connect", e, 0, 0)  OBVIOUS
  <2>4. x \in Sent /\ x.type = "connect"  BY <1>1, <1>2, <2>3, HeadingSent
  <2>5. Asks(Line') /\ (Led(Line) => Led(Line'))  BY <1>1, <2>2, <2>3, <2>4, GrownLine
  <2>. QED  BY <2>1, <2>5, OriginalSame DEF Heard
<1>4. ASSUME Sends(f), NEW x, x \in Sent, Line' = Append(Line, x) PROVE Heard(e)'
  <2>1. e \in spaces /\ UNCHANGED <<heard, stored, work, using, namespace, spaces>>
    BY <1>4 DEF Sends, calls, session, request
  <2>2. (Asks(Line) => Asks(Line')) /\ (Led(Line) /\ Asks(Line) => Led(Line'))  BY <1>1, <1>4, GrownLine
  <2>. QED  BY <2>1, <2>2, OriginalSame DEF Heard
<1>5. Sends(f)  => f \in Spaces /\ serial' \in 0..Len(Texts) /\ serial' # 0
  <2>1. Sends(f) => f \in Spaces /\ serial' \in 1..Len(Texts)  BY SendsFacts DEF Sound
  <2>. QED  BY <1>1, <2>1
<1>6. CASE Emit(f)
  <2>1. Sends(f) /\ Line' = Append(Line, Heading("event", f, 0, serial'))  BY <1>6, EmitLine DEF Emit, Sound
  <2>2. PICK n : n = serial'  OBVIOUS
  <2>3. PICK x : x = Heading("event", f, 0, n)  OBVIOUS
  <2>4. x \in Sent  BY <1>1, <1>5, <2>1, <2>2, <2>3, HeadingSent
  <2>. QED  BY <1>4, <2>1, <2>2, <2>3, <2>4
<1>7. CASE EmitWithAck(f)
  <2>1. PICK id : id = ackPackets[f] + 1  OBVIOUS
  <2>2. Sends(f) /\ Line' = Append(Line, Heading("event", f, id, serial')) /\ id \in Ids
    BY <1>7, <2>1, EmitWithAckLine DEF EmitWithAck, Sound
  <2>3. PICK n : n = serial'  OBVIOUS
  <2>4. PICK x : x = Heading("event", f, id, n)  OBVIOUS
  <2>5. id \in 0..Len(Texts)  BY <1>1, <2>2 DEF Ids
  <2>6. x \in Sent  BY <1>5, <2>2, <2>3, <2>4, <2>5, HeadingSent
  <2>. QED  BY <1>4, <2>2, <2>3, <2>4, <2>6
<1>8. CASE Leave(f)
  <2>1. Sends(f) /\ Line' = Append(Line, Heading("disconnect", f, 0, serial'))  BY <1>8, LeaveLine DEF Leave, Sound
  <2>2. PICK n : n = serial'  OBVIOUS
  <2>3. PICK x : x = Heading("disconnect", f, 0, n)  OBVIOUS
  <2>4. x \in Sent  BY <1>1, <1>5, <2>1, <2>2, <2>3, HeadingSent
  <2>. QED  BY <1>4, <2>1, <2>2, <2>3, <2>4
<1>. QED  BY <1>3, <1>6, <1>7, <1>8

LEMMA HeardReceive ==
    ASSUME Sound, Asked, NEW e \in Endpoints, opens = {e}, Heard(e), NEW p \in down, Receive(p)
    PROVE  Heard(e)'
<1>1. Queues /\ 0 \in 0..Len(Texts)  BY TextsAssumption DEF Sound, Typed
<1>2. e # Root /\ e \in Spaces /\ Root \in Spaces  BY RootFacts
<1>3. p.endpoint \in {e, Root} /\ UNCHANGED <<heard, stored, work, using, namespace>> /\ Original' = Original
  BY OriginalSame DEF Asked, Receive, calls, session, request
<1>4. CASE p.type = "heartbeat"
  <2>1. spaces' = spaces /\ Line' = Append(Line, Heading("heartbeat", Root, 0, 0))
    BY <1>4, ReceiveLine DEF Sound
  <2>2. PICK x : x = Heading("heartbeat", Root, 0, 0)  OBVIOUS
  <2>3. x \in Sent /\ x.type = "heartbeat"  BY <1>1, <1>2, <2>2, HeadingSent
  <2>4. (Asks(Line) => Asks(Line')) /\ (Led(Line) => Led(Line'))  BY <1>1, <2>1, <2>2, <2>3, GrownLine
  <2>. QED  BY <1>3, <2>1, <2>4 DEF Heard
<1>5. CASE p.type # "heartbeat"
  <2>1. /\ spaces' = spaces \cup {p.endpoint}
        /\ p.endpoint \in spaces \cup {Root} => Line' = Line
        /\ p.endpoint \notin spaces \cup {Root} => Line' = Append(Line, Heading("connect", p.endpoint, 0, 0))
    BY <1>5, ReceiveLine DEF Sound
  <2>2. CASE p.endpoint \in spaces \cup {Root}
    <3>1. Line' = Line /\ (e \in spaces' => e \in spaces)  BY <1>2, <1>3, <2>1, <2>2
    <3>. QED  BY <1>3, <3>1 DEF Heard
  <2>3. CASE p.endpoint \notin spaces \cup {Root}
    <3>1. Line' = Append(Line, Heading("connect", e, 0, 0))  BY <1>3, <2>1, <2>3
    <3>2. PICK x : x = Heading("connect", e, 0, 0)  OBVIOUS
    <3>3. x \in Sent /\ x.type = "connect"  BY <1>1, <1>2, <3>2, HeadingSent
    <3>4. Asks(Line') /\ (Led(Line) => Led(Line'))  BY <1>1, <3>1, <3>2, <3>3, GrownLine
    <3>. QED  BY <1>3, <3>4 DEF Heard
  <2>. QED  BY <2>2, <2>3
<1>. QED  BY <1>4, <1>5

\* A message is heard under the namespace the browser opened, or as the root's by a
\* client made anew.
LEMMA HeardNamespace ==
    ASSUME Sound, Asked, NEW e \in Endpoints, opens = {e}, Heard(e), Handle,
           NEW head, head = HeadOf(work[1]), head.type \in {"event", "disconnect"}
    PROVE  /\ head.endpoint = e
           /\ using = 1 => namespace[1] = e
           /\ Here = e \/ (Here = Root /\ using > 1)
<1> DEFINE A == Sent
<1>1. head \in In(Line) /\ Line # <<>> /\ Line[1] = head /\ work # <<>>  BY HandleFacts
<1>2. head.endpoint = e  BY <1>1 DEF Asked
<1>3. Line \in Seq(A)  BY LineFacts DEF Sound, Typed
<1> HIDE DEF A
<1>4. ~Led(Line)  BY <1>1, <1>3, LedTail
<1>5. using = 1 => namespace[1] = e  BY <1>1, <1>4 DEF Heard, Original
<1>6. Here \in {e, Root} /\ using \in 1..Latest /\ Latest \in Nat  BY HomeFacts, SpaceFacts DEF Sound
<1>7. using = 1 \/ using > 1  BY <1>6
<1>. QED  BY <1>2, <1>5, <1>6, <1>7 DEF Here

LEMMA HeardHandle ==
    ASSUME Sound, Asked, NEW e \in Endpoints, opens = {e}, Heard(e), Handle
    PROVE  Heard(e)'
<1>1. PICK head : head = HeadOf(work[1])  OBVIOUS
<1>2. /\ work # <<>> /\ UNCHANGED <<fixed, browser, stored, using>>
      /\ \/ head.type = "event"      /\ OnMessage(head)
         \/ head.type = "connect"    /\ OnConnect(head)
         \/ head.type = "heartbeat"  /\ OnHeartbeat(head)
         \/ head.type = "disconnect" /\ OnDisconnect(head)
      /\ head \in In(Line) /\ Line # <<>> /\ Line[1] = head /\ head.endpoint \in Spaces
      /\ kind = "websocket" => Line' = Tail(Line)
  BY <1>1, HandleFacts
<1>3. \A x \in heard : x[2] = x[1] \/ (x[2] = Root /\ x[3] > 1)  BY DEF Heard
<1>4. Original' => using = 1  BY <1>2 DEF Original
<1>5. using = 1 => Original  BY <1>2 DEF Original
<1>6. CASE head.type \in {"event", "disconnect"}
  <2>1. head.endpoint = e /\ (using = 1 => namespace[1] = e) /\ (Here = e \/ (Here = Root /\ using > 1))
    BY <1>1, <1>6, HeardNamespace
  <2>2. UNCHANGED namespace /\ (heard' = heard \/ (GetIOHandler(Here) # Nobody /\ heard' = heard \cup {<<e, GetIOHandler(Here), using>>}))
    BY <1>2, <1>6, <2>1 DEF OnMessage, OnDisconnect
  <2>3. GetIOHandler(Here) # Nobody => GetIOHandler(Here) = Here  BY DEF GetIOHandler
  <2>4. \A x \in heard' : x[2] = x[1] \/ (x[2] = Root /\ x[3] > 1)
    <3>1. CASE heard' = heard  BY <1>3, <3>1
    <3>2. CASE GetIOHandler(Here) # Nobody /\ heard' = heard \cup {<<e, Here, using>>}
      <4>1. ASSUME NEW x, x = <<e, Here, using>> PROVE x[2] = x[1] \/ (x[2] = Root /\ x[3] > 1)
        <5>1. x[1] = e /\ x[2] = Here /\ x[3] = using  BY <4>1
        <5>. QED  BY <2>1, <5>1
      <4>. QED  BY <1>3, <3>2, <4>1
    <3>. QED  BY <2>2, <2>3, <3>1, <3>2
  <2>. QED  BY <1>4, <2>1, <2>2, <2>4 DEF Heard
<1>7. CASE head.type = "connect" /\ OnConnect(head)
  <2>1. head.endpoint = e  BY <1>2, <1>7 DEF Asked
  <2>2. namespace' = [namespace EXCEPT ![using] = e] /\ heard' = heard  BY <1>7, <2>1 DEF OnConnect
  <2>3. namespace'[using] = e  BY <1>2, <2>1, <2>2, NamedFacts DEF Sound
  <2>. QED  BY <1>3, <1>4, <2>2, <2>3 DEF Heard
<1>8. CASE head.type = "heartbeat" /\ OnHeartbeat(head)
  <2>1. namespace' = namespace /\ heard' = heard /\ spaces' = spaces  BY <1>2, <1>8 DEF OnHeartbeat, calls, browser
  <2>2. kind = "websocket"  BY <1>2, <1>8 DEF Asked
  <2>3. Line' = Tail(Line)  BY <1>2, <2>2
  <2>4. PICK A : A = Sent  OBVIOUS
  <2>5. Line \in Seq(A)  BY <2>4, LineFacts DEF Sound, Typed
  <2>6. Led(Line) => Led(Line')  BY <1>2, <1>8, <2>3, <2>5, LedTail
  <2>7. In(Line) = In(Line') \cup {head}  BY <1>2, <2>3, <2>5, InTail
  <2>8. Asks(Line) => Asks(Line')  BY <1>8, <2>7 DEF Asks
  <2>. QED  BY <1>3, <1>4, <1>5, <2>1, <2>6, <2>8 DEF Heard
<1>. QED  BY <1>2, <1>6, <1>7, <1>8

LEMMA HeardBegin ==
    ASSUME Sound, Asked, NEW e \in Endpoints, opens = {e}, Heard(e), Begin
    PROVE  Heard(e)'
<1>1. Line' = Line  BY BeginLine DEF Sound, Typed
<1>2. UNCHANGED <<spaces, heard>> /\ using' = Len(namespace')  BY DEF Begin, browser, calls
<1>3. using \in 1..Latest /\ Latest \in Nat  BY SpaceFacts DEF Sound
<1>4. CASE stored /\ UNCHANGED <<session, clear>>
  <2>1. namespace' = namespace /\ using' = Latest  BY <1>2, <1>4 DEF session, Latest
  <2>2. using' = 1 => using = 1 /\ Latest = 1  BY <1>3, <2>1
  <2>3. Original' => Original  BY <1>4, <2>2 DEF Original
  <2>. QED  BY <1>1, <1>2, <2>1, <2>3 DEF Heard
<1>5. CASE Made
  <2>1. using' = Latest + 1  BY <1>2, <1>5, MadeFacts DEF Sound
  <2>2. ~Original'  BY <1>3, <2>1 DEF Original
  <2>. QED  BY <1>2, <2>2 DEF Heard
<1>. QED  BY <1>4, <1>5 DEF Begin

LEMMA HeardAside ==
    ASSUME Sound, NEW e \in Endpoints, Heard(e), Aside
    PROVE  Heard(e)'
<1>1. UNCHANGED <<spaces, heard, work, using>> /\ Line' = Line
  <2>1. UNCHANGED <<browser, arrived, request, heard>>  BY AsideFacts
  <2>. QED  BY <2>1, SameLine DEF browser, request
<1>2. Latest \in Nat /\ 1 \in 1..Latest  BY SpaceFacts DEF Sound
<1>3. (Original' => Original) /\ namespace'[1] = namespace[1]
  <2>1. CASE PollLate
    <3>1. Latest' = Latest + 1 /\ namespace'[1] = namespace[1]
      BY <1>2, <2>1, MadeFacts DEF Sound, PollLate, Latest
    <3>2. Latest' # 1  BY <1>2, <3>1
    <3>. QED  BY <1>1, <3>1, <3>2 DEF Original
  <2>2. CASE \/ \E from \in Handlers : Overhear(from)
             \/ Poll \/ PollEnds \/ ChannelDisconnected \/ ExceptionCaught \/ (\E h \in Callees : Clear(h))
             \/ ClearEnds
    <3>1. namespace' = namespace
      BY <2>2 DEF Overhear, Poll, PollEnds, ChannelDisconnected, ExceptionCaught, Clear, ClearEnds, session
    <3>2. ~ClearEnds => stored' = stored
      BY <2>2 DEF Overhear, Poll, PollEnds, ChannelDisconnected, ExceptionCaught, Clear, session
    <3>3. ClearEnds => stored' = FALSE  BY DEF ClearEnds
    <3>4. stored' => stored  BY <3>2, <3>3
    <3>. QED  BY <1>1, <3>1, <3>4 DEF Original, Latest
  <2>. QED  BY <2>1, <2>2 DEF Aside
<1>. QED  BY <1>1, <1>3 DEF Heard

LEMMA HeardStep ==
    ASSUME Sound, Asked, NEW e \in Endpoints, opens = {e}, Heard(e), [Next]_vars
    PROVE  Heard(e)'
<1>1. CASE Transmit
  <2>1. UNCHANGED <<heard, stored, namespace, spaces, using, work>> /\ work = <<>>
    BY <1>1, TransmitLine DEF Transmit, calls, session, request, Sound, Typed
  <2>2. stored => Line' = Line  BY <1>1, TransmitLine DEF Sound, Typed
  <2>3. (Original' => Original) /\ (Original => stored)  BY <2>1, OriginalSame DEF Original
  <2>. QED  BY <2>1, <2>2, <2>3 DEF Heard
<1>2. CASE UNCHANGED vars
  <2>1. Line' = Line /\ UNCHANGED <<heard, stored, namespace, spaces, using, work>>
    BY <1>2, SameLine DEF vars, browser, request, session, calls
  <2>. QED  BY <2>1, OriginalSame DEF Heard
<1>. QED
  BY <1>1, <1>2, Steps, HeardBrowser, HeardReceive, HeardBegin, HeardHandle, HeardAside

Right == \A e \in Endpoints : opens = {e} => Heard(e)

LEMMA RightInit == Init => Right
<1> SUFFICES ASSUME Init, NEW e \in Endpoints PROVE Heard(e)  BY DEF Right
<1>1. Line = <<>>  BY EmptyLine
<1>2. Led(<<>>)
  <2>1. 1..Len(<<>>) = {}  OBVIOUS
  <2>. QED  BY <2>1 DEF Led
<1>. QED  BY <1>1, <1>2 DEF Init, Heard

LEMMA OpensFixed == [Next]_vars => UNCHANGED <<opens, kind>>
<1> SUFFICES ASSUME [Next]_vars PROVE UNCHANGED fixed  BY DEF fixed
<1>1. Aside => UNCHANGED fixed  BY AsideFacts
<1>. QED
  BY <1>1, Steps DEF vars, Open, Emit, EmitWithAck, Leave, Sends, Receive, Transmit, Begin, Handle

LEMMA RightStep == Sound /\ Asked /\ Right /\ [Next]_vars => Right'
<1> SUFFICES ASSUME Sound, Asked, Right, [Next]_vars, NEW e \in Endpoints, opens' = {e} PROVE Heard(e)'
  BY DEF Right
<1>1. opens = {e}  BY OpensFixed
<1>. QED  BY <1>1, HeardStep DEF Right

(* A browser that opens one namespace is heard by the handler of that            *)
(* namespace, for any number of messages, whatever the browsers of other         *)
(* namespaces broadcast; the one other handler that may hear it is the root's,   *)
(* and only through a client that was made for packets read before a clear task  *)
(* took the session away (client.namespace against the endpoint in the packet,   *)
(* initGenericClient against ClearTaskSpeed).                                    *)
THEOREM RightHandlerAlways == Spec => []RightHandler
<1>1. Right => RightHandler  BY DEF Right, RightHandler, Single, Heard
<1>. QED  BY <1>1, AlwaysSound, AskedInit, AskedStep, RightInit, RightStep, PTL DEF Spec

-----------------------------------------------------------------------------
(* Which message an answer is for. *)

\* An id, with the serial number of the message it stands for: in a message on its
\* way, in an answer on its way back, and where the callback waits.
Marks(e) ==
    {m \in Ids \X Ids :
        \/ \E h \in In(Line) : h.type = "event" /\ h.id = m[1] /\ h.serial = m[2]
        \/ \E p \in down : p.type = "ack" /\ p.id = m[1] /\ p.answers = m[2]
        \/ m \in acks[e]}

Answered(e) ==
    /\ ~crossed
    /\ \A m, n \in Marks(e) : m[1] = n[1] => m[2] = n[2]
    /\ \A m \in Marks(e) : m[1] <= ackPackets[e]
    /\ \A p \in down : p.type = "ack" => p.endpoint \in {e, Root}
    /\ acks[Root] = {}

\* A step that makes no new mark.
LEMMA AnsweredFewer ==
    ASSUME NEW e, Answered(e), acks'[e] \subseteq acks[e], acks'[Root] \subseteq acks[Root], ackPackets'[e] = ackPackets[e], crossed' = FALSE,
           \A h \in In(Line') : h.type = "event" /\ h.id # 0 => h \in In(Line),
           \A p \in down' : p.type = "ack" =>
              \/ p \in down
              \/ /\ p.endpoint \in {e, Root}
                 /\ \E h \in In(Line) : h.type = "event" /\ h.id = p.id /\ h.serial = p.answers
    PROVE  Answered(e)'
<1>1. 0 \notin Ids  BY DEF Ids
<1>2. ASSUME NEW m \in Marks(e)' PROVE m \in Marks(e)
  <2>1. m \in Ids \X Ids /\ m[1] \in Ids /\ m[1] # 0  BY <1>1 DEF Marks
  <2>2. \/ \E h \in In(Line') : h.type = "event" /\ h.id = m[1] /\ h.serial = m[2]
        \/ \E p \in down' : p.type = "ack" /\ p.id = m[1] /\ p.answers = m[2]
        \/ m \in acks'[e]
    BY DEF Marks
  <2>3. CASE \E h \in In(Line') : h.type = "event" /\ h.id = m[1] /\ h.serial = m[2]
    <3>1. PICK h \in In(Line') : h.type = "event" /\ h.id = m[1] /\ h.serial = m[2]  BY <2>3
    <3>2. h \in In(Line)  BY <2>1, <3>1
    <3>. QED  BY <2>1, <3>1, <3>2 DEF Marks
  <2>4. CASE \E p \in down' : p.type = "ack" /\ p.id = m[1] /\ p.answers = m[2]
    <3>1. PICK p \in down' : p.type = "ack" /\ p.id = m[1] /\ p.answers = m[2]  BY <2>4
    <3>2. \/ p \in down
          \/ \E h \in In(Line) : h.type = "event" /\ h.id = p.id /\ h.serial = p.answers
      BY <3>1
    <3>. QED  BY <2>1, <3>1, <3>2 DEF Marks
  <2>5. CASE m \in acks'[e]
    <3>1. m \in acks[e]  BY <2>5
    <3>. QED  BY <2>1, <3>1 DEF Marks
  <2>. QED  BY <2>2, <2>3, <2>4, <2>5
<1>3. Marks(e)' \subseteq Marks(e)  BY <1>2
<1>4. \A p \in down' : p.type = "ack" => p.endpoint \in {e, Root}  BY DEF Answered
<1>5. acks'[Root] = {}  BY DEF Answered
<1>. QED  BY <1>3, <1>4, <1>5 DEF Answered

LEMMA AnsweredBrowser ==
    ASSUME Sound, NEW e \in Endpoints, opens = {e}, Answered(e),
           NEW f \in Endpoints, Open(f) \/ Emit(f) \/ EmitWithAck(f) \/ Leave(f)
    PROVE  Answered(e)'
<1>1. Queues  BY DEF Sound, Typed
<1>2. ~crossed /\ (\A p \in down : p.type = "ack" => p.endpoint \in {e, Root}) /\ acks[Root] = {}  BY DEF Answered
<1>3. ASSUME NEW x, x.type # "event" \/ x.id = 0, In(Line') \subseteq In(Line) \cup {x},
             UNCHANGED <<acks, ackPackets, crossed, down>>
      PROVE  Answered(e)'
  <2>1. \A h \in In(Line') : h.type = "event" /\ h.id # 0 => h \in In(Line)  BY <1>3
  <2>2. crossed' = FALSE /\ acks' = acks /\ ackPackets'[e] = ackPackets[e] /\ down' = down
    <3>1. crossed = FALSE
      <4>1. crossed \in BOOLEAN  BY DEF Sound, Typed
      <4>. QED  BY <1>2, <4>1
    <3>. QED  BY <1>3, <3>1
  <2>. QED  BY <2>1, <2>2, AnsweredFewer
<1>4. CASE Open(f)
  <2>1. PICK x : x = Heading("connect", f, 0, 0)  OBVIOUS
  <2>2. Line' = Line \/ Line' = Append(Line, x)  BY <1>4, <2>1, OpenLine DEF Sound
  <2>3. In(Line') \subseteq In(Line) \cup {x} /\ x.type = "connect"  BY <1>1, <2>1, <2>2, LineAppend DEF Heading
  <2>4. UNCHANGED <<acks, ackPackets, crossed, down>>  BY <1>4 DEF Open
  <2>. QED  BY <1>3, <2>3, <2>4
<1>5. CASE Emit(f)
  <2>1. PICK x : x = Heading("event", f, 0, serial')  OBVIOUS
  <2>2. Line' = Append(Line, x)  BY <1>5, <2>1, EmitLine DEF Sound
  <2>3. In(Line') \subseteq In(Line) \cup {x} /\ x.id = 0  BY <1>1, <2>1, <2>2, LineAppend DEF Heading
  <2>4. UNCHANGED <<acks, ackPackets, crossed, down>>  BY <1>5 DEF Emit, Sends
  <2>. QED  BY <1>3, <2>3, <2>4
<1>6. CASE Leave(f)
  <2>1. PICK x : x = Heading("disconnect", f, 0, serial')  OBVIOUS
  <2>2. Line' = Append(Line, x)  BY <1>6, <2>1, LeaveLine DEF Sound
  <2>3. In(Line') \subseteq In(Line) \cup {x} /\ x.id = 0  BY <1>1, <2>1, <2>2, LineAppend DEF Heading
  <2>4. UNCHANGED <<acks, ackPackets, crossed, down>>  BY <1>6 DEF Leave, Sends
  <2>. QED  BY <1>3, <2>3, <2>4
<1>7. CASE EmitWithAck(f)
  <2>1. f = e /\ UNCHANGED <<crossed, down>>  BY <1>7 DEF EmitWithAck, Sends
  <2>2. PICK id : id = ackPackets[e] + 1  OBVIOUS
  <2>3. PICK n : n = serial'  OBVIOUS
  <2>4. PICK x : x = Heading("event", e, id, n)  OBVIOUS
  <2>5. /\ Line' = Append(Line, x) /\ id \in Ids /\ n \in Ids
        /\ ackPackets' = [ackPackets EXCEPT ![e] = id]
        /\ acks' = [acks EXCEPT ![e] = {a \in acks[e] : a[1] # id} \cup {<<id, n>>}]
    BY <1>7, <2>1, <2>2, <2>3, <2>4, EmitWithAckLine DEF Sound
  <2>6. e \in Spaces /\ acks \in [Spaces -> SUBSET (Ids \X Ids)] /\ ackPackets \in [Spaces -> Nat]
    BY RootFacts DEF Sound, Typed
  <2>7. /\ acks'[e] \subseteq acks[e] \cup {<<id, n>>} /\ ackPackets'[e] = id /\ ackPackets[e] \in Nat
        /\ acks'[Root] = acks[Root]
    BY <2>5, <2>6, RootFacts
  <2>8. In(Line') = In(Line) \cup {x} /\ x.id = id /\ x.serial = n  BY <1>1, <2>4, <2>5, LineAppend DEF Heading
  <2>9. Marks(e)' \subseteq Marks(e) \cup {<<id, n>>}
    <3> SUFFICES ASSUME NEW m \in Marks(e)' PROVE m \in Marks(e) \/ m = <<id, n>>  OBVIOUS
    <3>1. m \in Ids \X Ids  BY DEF Marks
    <3>2. \/ \E h \in In(Line') : h.type = "event" /\ h.id = m[1] /\ h.serial = m[2]
          \/ \E p \in down' : p.type = "ack" /\ p.id = m[1] /\ p.answers = m[2]
          \/ m \in acks'[e]
      BY DEF Marks
    <3>3. m = <<m[1], m[2]>>  BY <3>1
    <3>4. CASE \E h \in In(Line') : h.type = "event" /\ h.id = m[1] /\ h.serial = m[2]
      <4>1. PICK h \in In(Line') : h.type = "event" /\ h.id = m[1] /\ h.serial = m[2]  BY <3>4
      <4>2. CASE h = x  BY <2>8, <3>3, <4>1, <4>2
      <4>3. CASE h \in In(Line)  BY <3>1, <4>1, <4>3 DEF Marks
      <4>. QED  BY <2>8, <4>2, <4>3
    <3>5. CASE \E p \in down' : p.type = "ack" /\ p.id = m[1] /\ p.answers = m[2]
      BY <2>1, <3>1, <3>5 DEF Marks
    <3>6. CASE m \in acks'[e]
      BY <2>7, <3>1, <3>6 DEF Marks
    <3>. QED  BY <3>2, <3>4, <3>5, <3>6
  <2>10. \A m \in Marks(e) : m[1] \in Nat /\ m[1] <= ackPackets[e]
    BY DEF Answered, Marks, Ids
  <2>11. \A m \in Marks(e) : m[1] # id /\ m[1] <= id  BY <2>2, <2>7, <2>10
  <2>12. \A m \in Marks(e)' : m[1] <= ackPackets'[e]
    <3>1. id <= id  BY <2>2, <2>7
    <3>. QED  BY <2>7, <2>9, <2>11, <3>1
  <2>13. \A m, k \in Marks(e)' : m[1] = k[1] => m[2] = k[2]
    BY <2>9, <2>11 DEF Answered
  <2>. QED  BY <1>2, <2>1, <2>7, <2>12, <2>13 DEF Answered
<1>. QED  BY <1>4, <1>5, <1>6, <1>7

LEMMA AnsweredReceive ==
    ASSUME Sound, NEW e \in Endpoints, opens = {e}, Answered(e), NEW p \in down, Receive(p)
    PROVE  Answered(e)'
<1>1. /\ Queues /\ acks \in [Spaces -> SUBSET (Ids \X Ids)] /\ crossed \in BOOLEAN
      /\ e \in Spaces /\ Root \in Spaces /\ e # Root
  BY RootFacts DEF Sound, Typed
<1>2. crossed = FALSE /\ acks[Root] = {}  BY <1>1 DEF Answered
<1>3. p \in Downs  BY DEF Sound, Typed
<1>4. \A h \in In(Line') : h.type = "event" /\ h.id # 0 => h \in In(Line)
  <2>1. PICK x : x = Heading("heartbeat", Root, 0, 0)  OBVIOUS
  <2>2. PICK y : y = Heading("connect", p.endpoint, 0, 0)  OBVIOUS
  <2>3. Line' = Line \/ Line' = Append(Line, x) \/ Line' = Append(Line, y)
    BY <2>1, <2>2, ReceiveLine DEF Sound
  <2>4. In(Line') \subseteq In(Line) \cup {x, y}  BY <1>1, <2>3, LineAppend
  <2>5. x.id = 0 /\ y.id = 0  BY <2>1, <2>2 DEF Heading
  <2>. QED  BY <2>4, <2>5
<1>5. crossed' = FALSE /\ acks'[e] \subseteq acks[e] /\ acks'[Root] \subseteq acks[Root]
  <2>1. CASE p.type = "ack"
    <3>1. p.id \in Ids /\ p.answers \in Ids /\ p.endpoint \in {e, Root}  BY <1>3, <2>1 DEF Answered, Downs
    <3>2. PICK m : m = <<p.id, p.answers>>  OBVIOUS
    <3>3. m \in Marks(e)  BY <2>1, <3>1, <3>2 DEF Marks
    <3>4. PICK found : found = {a \in acks[p.endpoint] : a[1] = p.id}  OBVIOUS
    <3>5. /\ acks' = [acks EXCEPT ![p.endpoint] = acks[p.endpoint] \ found]
          /\ crossed' = (crossed \/ \E a \in found : a[2] # p.answers)
      BY <2>1, <3>4 DEF Receive, Called
    <3>6. ASSUME NEW a \in found PROVE a[2] = p.answers
      <4>1. p.endpoint = e  BY <1>2, <3>1, <3>4
      <4>2. a \in Marks(e) /\ a[1] = p.id  BY <1>1, <3>4, <4>1 DEF Marks
      <4>. QED  BY <3>2, <3>3, <4>2 DEF Answered
    <3>7. crossed' = FALSE  BY <1>2, <3>5, <3>6
    <3>. QED  BY <1>1, <3>1, <3>5, <3>7
  <2>2. CASE p.type # "ack"  BY <1>2, <2>2 DEF Receive
  <2>. QED  BY <2>1, <2>2
<1>6. down' \subseteq down /\ ackPackets' = ackPackets  BY DEF Receive
<1>. QED  BY <1>4, <1>5, <1>6, AnsweredFewer

LEMMA AnsweredHandle ==
    ASSUME Sound, Asked, NEW e \in Endpoints, opens = {e}, Answered(e), Handle
    PROVE  Answered(e)'
<1>0. \A s : Written(s) \subseteq s  BY DEF Written
<1>1. PICK head : head = HeadOf(work[1])  OBVIOUS
<1>2. /\ UNCHANGED <<fixed, browser, crossed>>
      /\ \/ head.type = "event"      /\ OnMessage(head)
         \/ head.type = "connect"    /\ OnConnect(head)
         \/ head.type = "heartbeat"  /\ OnHeartbeat(head)
         \/ head.type = "disconnect" /\ OnDisconnect(head)
      /\ In(Line') \subseteq In(Line) /\ head \in In(Line)
  BY <1>1, HandleFacts
<1>3. crossed' = FALSE /\ acks' = acks /\ ackPackets' = ackPackets
  <2>1. crossed \in BOOLEAN /\ ~crossed  BY DEF Sound, Typed, Answered
  <2>. QED  BY <1>2, <2>1 DEF browser
<1>4. \A h \in In(Line') : h.type = "event" /\ h.id # 0 => h \in In(Line)  BY <1>2
<1>5. \A p \in Answer \cup Beats : p.type # "ack"  BY DEF Answer, Beats
<1>6. \A p \in down' : p.type = "ack" =>
              \/ p \in down
              \/ /\ p.endpoint \in {e, Root}
                 /\ \E h \in In(Line) : h.type = "event" /\ h.id = p.id /\ h.serial = p.answers
  <2>1. CASE head.type = "event" /\ OnMessage(head)
    <3>1. Here \in {e, Root}  BY HomeFacts
    <3>2. \A p \in Broadcast(Here) : p.type # "ack"  BY HomeFacts
    <3>3. \A p \in AckNotify(head) : p.endpoint \in {e, Root} /\ p.id = head.id /\ p.answers = head.serial
      BY <3>1 DEF AckNotify
    <3>4. PICK new : new = AckNotify(head) \cup Broadcast(Here) \cup Answer  OBVIOUS
    <3>5. down' \subseteq down \cup new
      <4>1. \/ down' = down
            \/ \E answers \in {{}, AckNotify(head)}, told \in {{}, Broadcast(Here)} :
                   down' = down \cup Written(answers \cup told \cup Answer)
        BY <2>1 DEF OnMessage
      <4>2. \A answers \in {{}, AckNotify(head)}, told \in {{}, Broadcast(Here)} :
               answers \cup told \cup Answer \subseteq new
        BY <3>4
      <4>. QED  BY <1>0, <4>1, <4>2
    <3> SUFFICES ASSUME NEW p \in down', p.type = "ack", p \notin down
                 PROVE  /\ p.endpoint \in {e, Root}
                        /\ \E h \in In(Line) : h.type = "event" /\ h.id = p.id /\ h.serial = p.answers
      OBVIOUS
    <3>6. p \in AckNotify(head)  BY <1>5, <3>2, <3>4, <3>5
    <3>. QED  BY <1>2, <2>1, <3>3, <3>6
  <2>2. CASE head.type = "connect" /\ OnConnect(head)
    <3>1. PICK h : h = GetIOHandler(head.endpoint)  OBVIOUS
    <3>2. PICK new : new = {[type |-> "connect", endpoint |-> head.endpoint]} \cup Beats
                           \cup (IF h = Nobody THEN {} ELSE Answer)
      OBVIOUS
    <3>3. down' = down \cup Written(new)  BY <2>2, <3>1, <3>2 DEF OnConnect
    <3>4. \A p \in {[type |-> "connect", endpoint |-> head.endpoint]} : p.type # "ack"  OBVIOUS
    <3>5. \A p \in new : p.type # "ack"  BY <1>5, <3>2, <3>4
    <3>. QED  BY <1>0, <3>3, <3>5
  <2>3. CASE head.type = "heartbeat" /\ OnHeartbeat(head)
    <3>1. PICK new : new = Beats \cup Answer  OBVIOUS
    <3>2. down' = down \cup Written(new)  BY <2>3, <3>1 DEF OnHeartbeat
    <3>. QED  BY <1>0, <1>5, <3>1, <3>2
  <2>4. CASE head.type = "disconnect" /\ OnDisconnect(head)
    <3>1. PICK new : new = {[type |-> "disconnect", endpoint |-> head.endpoint]}  OBVIOUS
    <3>2. down' \subseteq down \cup new  BY <1>0, <2>4, <3>1 DEF OnDisconnect
    <3>3. \A p \in new : p.type # "ack"  BY <3>1
    <3>. QED  BY <3>2, <3>3
  <2>. QED  BY <1>2, <2>1, <2>2, <2>3, <2>4
<1>. QED  BY <1>3, <1>4, <1>6, AnsweredFewer

LEMMA AnsweredStep ==
    ASSUME Sound, Asked, NEW e \in Endpoints, opens = {e}, Answered(e), [Next]_vars
    PROVE  Answered(e)'
<1>1. crossed = FALSE
  <2>1. crossed \in BOOLEAN /\ ~crossed  BY DEF Sound, Typed, Answered
  <2>. QED  BY <2>1
<1>2. ASSUME In(Line') \subseteq In(Line), UNCHANGED <<acks, ackPackets, crossed>>,
             \A p \in down' : p.type = "ack" => p \in down
      PROVE  Answered(e)'
  BY <1>1, <1>2, AnsweredFewer
<1>3. CASE Transmit
  <2>1. In(Line') \subseteq In(Line)  BY <1>3, TransmitLine DEF Sound, Typed
  <2>2. UNCHANGED <<acks, ackPackets, crossed, down>>  BY <1>3 DEF Transmit
  <2>. QED  BY <1>2, <2>1, <2>2
<1>4. CASE Begin
  <2>1. Line' = Line  BY <1>4, BeginLine DEF Sound, Typed
  <2>2. UNCHANGED <<acks, ackPackets, crossed, down>>  BY <1>4 DEF Begin, browser
  <2>. QED  BY <1>2, <2>1, <2>2
<1>5. CASE Aside
  <2>1. UNCHANGED <<acks, ackPackets, crossed>> /\ Line' = Line
    <3>1. UNCHANGED <<browser, arrived, request, crossed>>  BY <1>5, AsideFacts
    <3>. QED  BY <3>1, SameLine DEF browser, request
  <2>2. \A p \in down' : p.type = "ack" => p \in down
    <3>1. ASSUME NEW from \in Handlers, Overhear(from) PROVE \A p \in down' : p.type = "ack" => p \in down
      <4>1. PICK new : new = Broadcast(from)  OBVIOUS
      <4>2. down' \subseteq down \cup new  BY <3>1, <4>1 DEF Overhear, Written
      <4>3. \A p \in new : p.type = "event"  BY <4>1, HomeFacts
      <4>. QED  BY <4>2, <4>3
    <3>2. PollLate => \A p \in down' : p.type = "ack" => p \in down
      <4>1. \A p \in {[type |-> "connect", endpoint |-> Root]} : p.type # "ack"  OBVIOUS
      <4>. QED  BY <4>1 DEF PollLate
    <3>3. CASE Poll \/ PollEnds \/ ChannelDisconnected \/ ExceptionCaught \/ (\E h \in Callees : Clear(h)) \/ ClearEnds
      <4>1. down' = down
        BY <3>3 DEF Poll, PollEnds, ChannelDisconnected, ExceptionCaught, Clear, ClearEnds
      <4>. QED  BY <4>1
    <3>. QED  BY <1>5, <3>1, <3>2, <3>3 DEF Aside
  <2>. QED  BY <1>2, <2>1, <2>2
<1>6. CASE UNCHANGED vars
  <2>1. Line' = Line /\ UNCHANGED <<acks, ackPackets, crossed, down>>
    BY <1>6, SameLine DEF vars, browser, request
  <2>. QED  BY <1>2, <2>1
<1>. QED
  BY <1>3, <1>4, <1>5, <1>6, Steps, AnsweredBrowser, AnsweredReceive, AnsweredHandle

Acks == \A e \in Endpoints : opens = {e} => Answered(e)

LEMMA AcksInit == Init => Acks
<1> SUFFICES ASSUME Init, NEW e \in Endpoints PROVE Answered(e)  BY DEF Acks
<1>1. In(Line) = {} /\ e \in Spaces /\ Root \in Spaces  BY EmptyLine, RootFacts
<1>2. acks[e] = {} /\ acks[Root] = {} /\ (\A p \in down : p.type # "ack") /\ ~crossed  BY <1>1 DEF Init
<1>3. Marks(e) = {}  BY <1>1, <1>2 DEF Marks
<1>. QED  BY <1>2, <1>3 DEF Answered

LEMMA AcksStep == Sound /\ Asked /\ Acks /\ [Next]_vars => Acks'
<1> SUFFICES ASSUME Sound, Asked, Acks, [Next]_vars, NEW e \in Endpoints, opens' = {e}
             PROVE  Answered(e)'
  BY DEF Acks
<1>1. opens = {e}  BY OpensFixed
<1>. QED  BY <1>1, AnsweredStep DEF Acks

(* A callback is called with the answer to the message it was passed with, for *)
(* any number of messages and in whatever order the answers arrive, when the   *)
(* browser opens one namespace (ackPackets and acks against ackNotify's id).   *)
THEOREM AckRightAlways == Spec => []AckRight
<1>1. Acks => AckRight  BY DEF Acks, AckRight, Single, Answered
<1>. QED
  BY <1>1, AlwaysSound, AskedInit, AskedStep, AcksInit, AcksStep, PTL DEF Spec

-----------------------------------------------------------------------------
(* Connect and disconnect of a websocket's handler. *)

Due == clear.older \cup clear.future

\* No connect packet was handled yet, and nothing threatens the session: there is no
\* clear task, and no heartbeat that would make one.
Unmet(e) ==
    /\ Latest = 1 /\ namespace[1] # e
    /\ stored /\ ~ending /\ channel = "open" /\ Due = {}
    /\ \A h \in In(Line) : h.type # "heartbeat"
    /\ \A p \in down : p.type # "heartbeat"

\* Nothing more will be handled.
Closed == channel = "gone" /\ arrived = <<>> /\ work = <<>>

\* Every task that may remove the session is for the handler of its namespace.
Served(e) ==
    /\ Latest = 1 /\ namespace[1] = e
    /\ stored /\ ~ending /\ Due \subseteq {GetIOHandler(e)}

Pairing(e) ==
    /\ poll = {}
    /\ met \subseteq {GetIOHandler(e)} \ {Nobody}
    /\ GetIOHandler(e) # Nobody /\ met = {} => Unmet(e) \/ Closed
    /\ met # {} => GetIOHandler(e) \in parted \/ Served(e)

LEMMA DueFacts ==
    ASSUME NEW ts \in Tasks, NEW h
    PROVE  /\ Scheduled(ts, h).older \cup Scheduled(ts, h).future = ts.older \cup ts.future \cup {h}
           /\ Scheduled(Cancelled(ts), h).older \cup Scheduled(Cancelled(ts), h).future = ts.older \cup {h}
           /\ Scheduled(Scheduled(ts, h), h).older \cup Scheduled(Scheduled(ts, h), h).future
                = ts.older \cup ts.future \cup {h}
BY DEF Tasks, Scheduled, Cancelled

\* An exception adds tasks for the handler of the client in the store.
LEMMA CaughtDue ==
    ASSUME NEW ts \in Tasks, stored \in BOOLEAN, NEW e, Caught(ts, e)
    PROVE  Due' \subseteq ts.older \cup ts.future \cup {GetIOHandler(e)} /\ channel' = "gone"
<1>1. PICK h : h = GetIOHandler(e)  OBVIOUS
<1>2. clear' = ts \/ clear' = Scheduled(ts, h) \/ clear' = Scheduled(Scheduled(ts, h), h)
  BY <1>1 DEF Caught
<1>3. channel' = "gone"  BY DEF Caught
<1>. QED  BY <1>1, <1>2, <1>3, DueFacts DEF Due

\* A packet handled for the session's namespace, whether its handler throws or not.
LEMMA DoneDue ==
    ASSUME Sound, NEW e, namespace'[Latest] = e, NEW ts \in Tasks, ts.older \cup ts.future \subseteq {GetIOHandler(e)},
           Handled(ts) \/ Abort(ts)
    PROVE  Due' \subseteq {GetIOHandler(e)}
<1>1. CASE Handled(ts)  BY <1>1 DEF Handled, Due
<1>2. CASE Abort(ts)
  <2>1. Caught(ts, e) /\ stored \in BOOLEAN  BY <1>2 DEF Abort, Sound, Typed
  <2>. QED  BY <2>1, CaughtDue
<1>. QED  BY <1>1, <1>2

\* A step of the browser, before which no heartbeat has come down.
LEMMA PairingBrowser ==
    ASSUME NEW e, Pairing(e),
           UNCHANGED <<poll, met, stored, ending, parted, namespace, clear, channel, work, arrived>>,
           down' \subseteq down,
           Unmet(e) => \A h \in In(Line') : h \in In(Line) \/ h.type # "heartbeat"
    PROVE  Pairing(e)'
<1>1. Unmet(e) => Unmet(e)'  BY DEF Unmet, Due, Latest
<1>2. (Closed => Closed') /\ (Served(e) => Served(e)')  BY DEF Closed, Served, Due, Latest
<1>. QED  BY <1>1, <1>2 DEF Pairing

LEMMA PairingBrowserSteps ==
    ASSUME Sound, NEW e \in Endpoints, Pairing(e),
           \/ \E f \in Endpoints : Open(f) \/ Emit(f) \/ EmitWithAck(f) \/ Leave(f)
           \/ \E p \in down : Receive(p)
    PROVE  Pairing(e)'
<1>1. Queues  BY DEF Sound, Typed
<1>2. /\ UNCHANGED <<poll, met, stored, ending, parted, namespace, clear, channel, work, arrived>>
      /\ down' \subseteq down
  BY DEF Open, Emit, EmitWithAck, Leave, Sends, Receive, tasks, calls, session, request
<1>3. ASSUME NEW x, x.type # "heartbeat", Line' = Line \/ Line' = Append(Line, x) PROVE Pairing(e)'
  <2>1. In(Line') \subseteq In(Line) \cup {x}  BY <1>1, <1>3, LineAppend
  <2>. QED  BY <1>2, <1>3, <2>1, PairingBrowser
<1>4. ASSUME NEW f \in Endpoints, Open(f) PROVE Pairing(e)'
  <2>1. PICK x : x = Heading("connect", f, 0, 0)  OBVIOUS
  <2>2. Line' = Line \/ Line' = Append(Line, x)  BY <1>4, <2>1, OpenLine DEF Sound
  <2>3. x.type # "heartbeat"  BY <2>1 DEF Heading
  <2>. QED  BY <1>3, <2>2, <2>3
<1>5. ASSUME NEW f \in Endpoints, Emit(f) PROVE Pairing(e)'
  <2>1. PICK x : x = Heading("event", f, 0, serial')  OBVIOUS
  <2>2. Line' = Append(Line, x)  BY <1>5, <2>1, EmitLine DEF Sound
  <2>3. x.type # "heartbeat"  BY <2>1 DEF Heading
  <2>. QED  BY <1>3, <2>2, <2>3
<1>6. ASSUME NEW f \in Endpoints, EmitWithAck(f) PROVE Pairing(e)'
  <2>1. PICK id : id = ackPackets[f] + 1  OBVIOUS
  <2>2. PICK x : x = Heading("event", f, id, serial')  OBVIOUS
  <2>3. Line' = Append(Line, x)  BY <1>6, <2>1, <2>2, EmitWithAckLine DEF Sound
  <2>4. x.type # "heartbeat"  BY <2>2 DEF Heading
  <2>. QED  BY <1>3, <2>3, <2>4
<1>7. ASSUME NEW f \in Endpoints, Leave(f) PROVE Pairing(e)'
  <2>1. PICK x : x = Heading("disconnect", f, 0, serial')  OBVIOUS
  <2>2. Line' = Append(Line, x)  BY <1>7, <2>1, LeaveLine DEF Sound
  <2>3. x.type # "heartbeat"  BY <2>1 DEF Heading
  <2>. QED  BY <1>3, <2>2, <2>3
<1>8. ASSUME NEW p \in down, Receive(p) PROVE Pairing(e)'
  <2>1. CASE p.type = "heartbeat"
    <3>1. ~Unmet(e)  BY <1>8, <2>1 DEF Unmet
    <3>. QED  BY <1>2, <3>1, PairingBrowser
  <2>2. CASE p.type # "heartbeat"
    <3>1. PICK x : x = Heading("connect", p.endpoint, 0, 0)  OBVIOUS
    <3>2. Line' = Line \/ Line' = Append(Line, x)  BY <1>8, <2>2, <3>1, ReceiveLine DEF Sound
    <3>3. x.type # "heartbeat"  BY <3>1 DEF Heading
    <3>. QED  BY <1>3, <3>2, <3>3
  <2>. QED  BY <2>1, <2>2
<1>. QED  BY <1>4, <1>5, <1>6, <1>7, <1>8

\* The first packet that is handled is the connect; those after it leave the session
\* with the handler that saw it.
LEMMA PairingHandle ==
    ASSUME Sound, Asked, NEW e \in Endpoints, opens = {e}, Heard(e), kind = "websocket", Pairing(e), Handle
    PROVE  Pairing(e)'
<1>1. PICK head : head = HeadOf(work[1])  OBVIOUS
<1>2. /\ work # <<>> /\ UNCHANGED <<stored, poll, ending, using>>
      /\ \/ head.type = "event"      /\ OnMessage(head)
         \/ head.type = "connect"    /\ OnConnect(head)
         \/ head.type = "heartbeat"  /\ OnHeartbeat(head)
         \/ head.type = "disconnect" /\ OnDisconnect(head)
      /\ head \in In(Line) /\ Line # <<>> /\ Line[1] = head /\ head.endpoint \in Spaces
  BY <1>1, HandleFacts
<1>3. clear \in Tasks /\ Latest \in Nat /\ using \in 1..Latest  BY SpaceFacts DEF Sound, Typed
<1>4. PICK g : g = GetIOHandler(e)  OBVIOUS
<1>5. Beat(g) \in Tasks /\ Beat(g).older \cup Beat(g).future = clear.older \cup {g}
  <2>1. Beat(g) \in Tasks  BY <1>4, CalleeFacts, BeatFacts DEF Sound
  <2>. QED  BY <1>3, <2>1, DueFacts DEF Beat
<1>6. head.type = "connect" => head.endpoint = e  BY <1>2 DEF Asked
<1>7. /\ head.type = "connect" => met' = IF g = Nobody THEN met ELSE met \cup {g}
      /\ head.type # "connect" => met' = met
  BY <1>2, <1>4, <1>6 DEF OnMessage, OnConnect, OnHeartbeat, OnDisconnect, calls
<1>8. parted \subseteq parted'  BY <1>2 DEF OnMessage, OnConnect, OnHeartbeat, OnDisconnect, calls
<1>9. poll' = {} /\ met' \subseteq {g} \ {Nobody}  BY <1>2, <1>4, <1>7 DEF Pairing
\* The session is with its handler once the packet is handled.
<1>10. ASSUME Latest = 1, stored, ~ending, namespace[1] = e \/ head.type = "connect", Due \subseteq {g}
       PROVE  Served(e)'
  <2>1. using = 1  BY <1>3, <1>10
  <2>2. Latest' = 1 /\ namespace'[1] = e
    <3>1. CASE head.type = "connect"
      <4>1. namespace' = [namespace EXCEPT ![using] = e]  BY <1>2, <1>6, <3>1 DEF OnConnect
      <4>. QED  BY <1>2, <1>6, <1>10, <2>1, <3>1, <4>1, NamedFacts DEF Sound, Latest
    <3>2. CASE head.type # "connect"
      <4>1. UNCHANGED namespace  BY <1>2, <3>2 DEF OnMessage, OnHeartbeat, OnDisconnect
      <4>. QED  BY <1>10, <3>2, <4>1 DEF Latest
    <3>. QED  BY <3>1, <3>2
  <2>3. clear.older \cup clear.future \subseteq {g} /\ Beat(g).older \cup Beat(g).future \subseteq {g}
    BY <1>5, <1>10 DEF Due
  <2>4. PICK ts \in {clear, Beat(g)} : Handled(ts) \/ Abort(ts)
    <3>1. CASE OnMessage(head) \/ OnDisconnect(head)  BY <3>1 DEF OnMessage, OnDisconnect
    <3>2. CASE head.type = "connect" /\ OnConnect(head)
      <4>1. HeartbeatFor(head.endpoint) = g  BY <1>4, <1>6, <3>2 DEF HeartbeatFor
      <4>. QED  BY <3>2, <4>1 DEF OnConnect
    <3>3. CASE head.type = "heartbeat" /\ OnHeartbeat(head)
      <4>1. GetIOHandler(Here) = g  BY <1>4, <1>10, <2>1, <3>3 DEF Here
      <4>. QED  BY <3>3, <4>1 DEF OnHeartbeat
    <3>. QED  BY <1>2, <3>1, <3>2, <3>3
  <2>5. Due' \subseteq {g}
    <3>1. ts \in Tasks /\ ts.older \cup ts.future \subseteq {g}  BY <1>3, <1>5, <2>3, <2>4
    <3>. QED  BY <1>4, <1>10, <2>2, <2>4, <3>1, DoneDue
  <2>. QED  BY <1>2, <1>4, <1>10, <2>2, <2>5 DEF Served
<1>11. CASE met = {} /\ g # Nobody
  <2>1. Unmet(e)  BY <1>2, <1>4, <1>11 DEF Pairing, Closed
  <2>2. head.type = "connect"
    <3>1. using = 1 /\ namespace[1] # e  BY <1>3, <2>1 DEF Unmet
    <3>2. Led(Line)  BY <1>2, <3>1 DEF Heard, Original
    <3>3. PICK A : A = Sent  OBVIOUS
    <3>4. Line \in Seq(A)  BY <3>3, LineFacts DEF Sound, Typed
    <3>5. head.type \notin {"event", "disconnect"}  BY <1>2, <3>2, <3>4, LedTail
    <3>6. head.type # "heartbeat"  BY <1>2, <2>1 DEF Unmet
    <3>. QED  BY <1>2, <3>5, <3>6
  <2>3. Served(e)'  BY <1>10, <2>1, <2>2 DEF Unmet
  <2>4. met' = {g}  BY <1>7, <1>11, <2>2
  <2>. QED  BY <1>4, <1>9, <2>3, <2>4 DEF Pairing
<1>12. CASE met # {}
  <2>1. g \in parted \/ Served(e)  BY <1>4, <1>12 DEF Pairing
  <2>2. Served(e) => Served(e)'  BY <1>4, <1>10 DEF Served
  <2>3. met' # {}  BY <1>7, <1>12
  <2>. QED  BY <1>4, <1>8, <1>9, <2>1, <2>2, <2>3 DEF Pairing
<1>13. CASE g = Nobody
  <2>1. met' = {}  BY <1>9, <1>13
  <2>. QED  BY <1>4, <1>9, <1>13, <2>1 DEF Pairing
<1>. QED  BY <1>11, <1>12, <1>13

\* The other steps of the server: the tasks they make are for the session's handler,
\* and the channel that ends before a connect packet ends the session unmet.
LEMMA PairingAside ==
    ASSUME Sound, Asked, NEW e \in Endpoints, kind = "websocket", Pairing(e), Aside
    PROVE  Pairing(e)'
<1>1. clear \in Tasks /\ stored \in BOOLEAN /\ ending \in BOOLEAN  BY DEF Sound, Typed
<1>2. UNCHANGED <<met, work, arrived>> /\ Line' = Line
  <2>1. UNCHANGED <<browser, arrived, request, met>>  BY AsideFacts
  <2>. QED  BY <2>1, SameLine DEF browser, request
<1>3. PICK g : g = GetIOHandler(e)  OBVIOUS
<1>4. ~Poll /\ ~PollLate /\ ~PollEnds  BY DEF Poll, PollLate, PollEnds, Pairing
<1>5. ASSUME NEW from \in Handlers, Overhear(from) PROVE Pairing(e)'
  <2>1. PICK new : new = Broadcast(from)  OBVIOUS
  <2>2. down' \subseteq down \cup new  BY <1>5, <2>1 DEF Overhear, Written
  <2>3. \A p \in new : p.type = "event"  BY <2>1, HomeFacts
  <2>4. UNCHANGED <<poll, stored, ending, parted, namespace, clear, channel>>
    BY <1>5 DEF Overhear, session, tasks, calls
  <2>5. Unmet(e) => Unmet(e)'  BY <1>2, <2>2, <2>3, <2>4 DEF Unmet, Due, Latest
  <2>6. (Closed => Closed') /\ (Served(e) => Served(e)')  BY <1>2, <2>4 DEF Closed, Served, Due, Latest
  <2>. QED  BY <1>2, <2>4, <2>5, <2>6 DEF Pairing
<1>6. CASE ChannelDisconnected \/ ExceptionCaught
  <2>1. UNCHANGED <<poll, stored, ending, parted, namespace>> /\ arrived = <<>> /\ work = <<>>
    BY <1>6 DEF ChannelDisconnected, ExceptionCaught, calls
  <2>2. PICK h : h = GetIOHandler(namespace[Latest])  OBVIOUS
  <2>3. channel' = "gone" /\ Due' \subseteq Due \cup {h}
    <3>1. CASE ChannelDisconnected
      <4>1. channel' = "gone" /\ (clear' = Scheduled(clear, h) \/ clear' = clear)
        BY <2>2, <3>1 DEF ChannelDisconnected
      <4>. QED  BY <1>1, <4>1, DueFacts DEF Due
    <3>2. CASE ExceptionCaught
      <4>1. PICK c : c = namespace[Latest]  OBVIOUS
      <4>2. Caught(clear, c)  BY <3>2, <4>1 DEF ExceptionCaught
      <4>. QED  BY <1>1, <2>2, <4>1, <4>2, CaughtDue DEF Due
    <3>. QED  BY <1>6, <3>1, <3>2
  <2>4. Closed'  BY <1>2, <2>1, <2>3 DEF Closed
  <2>5. Served(e) => Served(e)'
    <3> SUFFICES ASSUME Served(e) PROVE Served(e)'  OBVIOUS
    <3>1. h = g  BY <1>3, <2>2 DEF Served
    <3>. QED  BY <1>3, <2>1, <2>3, <3>1 DEF Served, Latest
  <2>. QED  BY <1>2, <2>1, <2>4, <2>5 DEF Pairing
<1>7. ASSUME NEW h \in Callees, Clear(h) PROVE Pairing(e)'
  <2>1. h \in Due  BY <1>7 DEF Clear, Due
  <2>2. UNCHANGED <<poll, stored, namespace, channel>>  BY <1>7 DEF Clear, session
  <2>3. ~Unmet(e) /\ (Closed => Closed')  BY <1>2, <2>1, <2>2 DEF Unmet, Closed
  <2>4. parted \subseteq parted'  BY <1>7 DEF Clear
  <2>5. met # {} => g \in parted'
    <3> SUFFICES ASSUME met # {}, g \notin parted PROVE g \in parted'  BY <2>4
    <3>1. Served(e) /\ g # Nobody  BY <1>3 DEF Pairing
    <3>2. h = g /\ stored  BY <1>3, <2>1, <3>1 DEF Served
    <3>. QED  BY <1>7, <3>1, <3>2 DEF Clear
  <2>. QED  BY <1>2, <1>3, <2>2, <2>3, <2>5 DEF Pairing
<1>8. CASE ClearEnds
  <2>1. ~Unmet(e) /\ ~Served(e)  BY <1>8 DEF ClearEnds, Unmet, Served
  <2>2. UNCHANGED <<poll, parted>> /\ (channel = "gone" => channel' = "gone")  BY <1>8 DEF ClearEnds, calls
  <2>3. Closed => Closed'  BY <1>2, <2>2 DEF Closed
  <2>. QED  BY <1>2, <2>1, <2>2, <2>3 DEF Pairing
<1>. QED  BY <1>4, <1>5, <1>6, <1>7, <1>8 DEF Aside

LEMMA PairingStep ==
    ASSUME Sound, Asked, NEW e \in Endpoints, opens = {e}, Heard(e), kind = "websocket", Pairing(e), [Next]_vars
    PROVE  Pairing(e)'
<1>1. CASE Transmit
  <2>1. In(Line') \subseteq In(Line) /\ channel = "open"  BY <1>1, TransmitLine DEF Sound, Typed
  <2>2. UNCHANGED <<poll, met, stored, ending, parted, namespace, clear, channel, down>>
    BY <1>1 DEF Transmit, session, tasks, calls
  <2>3. ~Closed  BY <2>1 DEF Closed
  <2>4. (Unmet(e) => Unmet(e)') /\ (Served(e) => Served(e)')
    BY <2>1, <2>2 DEF Unmet, Served, Due, Latest
  <2>. QED  BY <2>2, <2>3, <2>4 DEF Pairing
<1>2. CASE Begin
  <2>1. Line' = Line  BY <1>2, BeginLine DEF Sound, Typed
  <2>2. UNCHANGED <<poll, met, ending, parted, down>> /\ ~Closed  BY <1>2 DEF Begin, calls, Closed
  <2>3. stored => UNCHANGED <<namespace, stored, channel, clear>>
    BY <1>2 DEF Begin, session
  <2>4. (Unmet(e) => Unmet(e)') /\ (Served(e) => Served(e)')
    BY <2>1, <2>2, <2>3 DEF Unmet, Served, Due, Latest
  <2>. QED  BY <2>2, <2>4 DEF Pairing
<1>3. CASE UNCHANGED vars
  <2>1. /\ Line' = Line
        /\ UNCHANGED <<poll, met, stored, ending, parted, namespace, clear, channel, work, arrived, down>>
    BY <1>3, SameLine DEF vars, browser, request, session, tasks, calls
  <2>. QED  BY <2>1, PairingBrowser
<1>. QED
  BY <1>1, <1>2, <1>3, Steps, PairingBrowserSteps, PairingHandle, PairingAside

Pairs == \A e \in Endpoints : opens = {e} /\ kind = "websocket" => Pairing(e)

LEMMA PairsInit == Init => Pairs
<1> SUFFICES ASSUME Init, NEW e \in Endpoints, kind = "websocket" PROVE Pairing(e)  BY DEF Pairs
<1>1. In(Line) = {} /\ e # Root  BY EmptyLine, RootFacts
<1>2. Due = {} /\ Latest = 1 /\ namespace[1] # e  BY <1>1 DEF Init, Due, Latest
<1>3. \A p \in down : p.type # "heartbeat"  BY DEF Init
<1>4. Unmet(e)  BY <1>1, <1>2, <1>3 DEF Init, Unmet
<1>. QED  BY <1>4 DEF Init, Pairing

LEMMA PairsStep == Sound /\ Asked /\ Right /\ Pairs /\ [Next]_vars => Pairs'
<1> SUFFICES ASSUME Sound, Asked, Right, Pairs, [Next]_vars, NEW e \in Endpoints, opens' = {e}, kind' = "websocket"
             PROVE  Pairing(e)'
  BY DEF Pairs
<1>1. opens = {e} /\ kind = "websocket"  BY OpensFixed
<1>. QED  BY <1>1, PairingStep DEF Pairs, Right

(* A handler that saw the one namespace of a websocket session connect has seen *)
(* it disconnect once the session is gone, however it came to be gone: by a     *)
(* clear task of a heartbeat, by the end of the channel, or after an exception  *)
(* (the handler captured by the clear task against the one OnConnect was called *)
(* on).                                                                         *)
THEOREM PairedAlways == Spec => []Paired
<1>1. Pairs => Paired
  <2> SUFFICES ASSUME Pairs, kind = "websocket", NEW e \in Endpoints, opens = {e}, ~stored PROVE met \subseteq parted
    BY DEF Paired, Single
  <2>. QED  BY DEF Pairs, Pairing, Served
<1>. QED
  BY <1>1, AlwaysSound, AskedInit, AskedStep, RightInit, RightStep, PairsInit, PairsStep, PTL DEF Spec
=============================================================================
