---------------------------- MODULE StreamProofs ----------------------------
(***************************************************************************)
(* Both ways a stream takes to the client, for every body the provider may *)
(* send, every cut of it into pieces, every limit and every set of blocks  *)
(* and argument texts:                                                     *)
(*   - the framer finds the same events however the bytes are cut, and     *)
(*     never holds more than its limit;                                    *)
(*   - the relays pass on and count what they should (RelaysExact);        *)
(*   - the client's tool calls are those the translator checked, the       *)
(*     stream implements ChatStream, and it is billed as shown.            *)
(*                                                                         *)
(* Framer and relays work through a piece by a fold or a recursion: each   *)
(* is first shown to be well defined and to go step by step, then what     *)
(* a step keeps is counted up along the piece.  The translator's invariant *)
(* has a part about tool calls, which only three kinds of event touch, and *)
(* a part about the generator's control.  It says nothing of what the      *)
(* framer holds: which events Push finds is left open, as what they say is.*)
(***************************************************************************)
EXTENDS MCStreams, SharedLemmas

-----------------------------------------------------------------------------
(***************************************************************************)
(* The framer.                                                             *)
(***************************************************************************)

\* A boundary of the given width at place i.
IsMark(p, i, w) ==
  \/ w = 2 /\ i \in 1 .. Len(p) - 1 /\ p[i] = "lf" /\ p[i + 1] = "lf"
  \/ w = 4 /\ i \in 1 .. Len(p) - 3 /\ p[i] = "cr" /\ p[i + 1] = "lf" /\ p[i + 2] = "cr" /\ p[i + 3] = "lf"

\* The boundaries are the marks.
LEMMA BoundariesAre ==
  ASSUME NEW p \in Seq(Bytes)
  PROVE  /\ \A b \in Boundaries(p) : b.at \in Nat /\ IsMark(p, b.at, b.width) /\ b = [at |-> b.at, width |-> b.width]
         /\ \A i, w : IsMark(p, i, w) => [at |-> i, width |-> w] \in Boundaries(p)
<1> DEFINE two == <<"lf", "lf">>
           four == <<"cr", "lf", "cr", "lf">>
           found(mark) == {[at |-> i, width |-> Len(mark)] :
                             i \in {k \in 1 .. Len(p) + 1 - Len(mark) :
                                      SubSeq(p, k, k + Len(mark) - 1) = mark}}
<1>1. Boundaries(p) = found(two) \cup found(four)
  BY DEF Boundaries
<1>2. Len(p) \in Nat /\ Len(two) = 2 /\ Len(four) = 4
  OBVIOUS
<1>3. ASSUME NEW k \in 1 .. Len(p) - 1
      PROVE  SubSeq(p, k, k + 1) = two <=> p[k] = "lf" /\ p[k + 1] = "lf"
  <2> DEFINE q == SubSeq(p, k, k + 1)
  <2>1. k \in 1 .. Len(p) /\ k + 1 \in 1 .. Len(p)
    BY <1>2
  <2>2. q = [i \in 1 .. 2 |-> p[k + i - 1]]
    BY <1>2, <2>1
  <2>3. q \in Seq(Bytes) /\ Len(q) = 2 /\ q[1] = p[k] /\ q[2] = p[k + 1]
    BY <1>2, <2>1, <2>2
  <2> HIDE DEF q
  <2>4. q = two <=> q[1] = "lf" /\ q[2] = "lf"
    BY <2>3
  <2> QED BY <2>3, <2>4 DEF q
<1>4. ASSUME NEW k \in 1 .. Len(p) - 3
      PROVE  SubSeq(p, k, k + 3) = four
               <=> p[k] = "cr" /\ p[k + 1] = "lf" /\ p[k + 2] = "cr" /\ p[k + 3] = "lf"
  <2> DEFINE q == SubSeq(p, k, k + 3)
  <2>1. k \in 1 .. Len(p) /\ k + 3 \in 1 .. Len(p)
    BY <1>2
  <2>2. q = [i \in 1 .. 4 |-> p[k + i - 1]]
    BY <1>2, <2>1
  <2>3. q \in Seq(Bytes) /\ Len(q) = 4
        /\ q[1] = p[k] /\ q[2] = p[k + 1] /\ q[3] = p[k + 2] /\ q[4] = p[k + 3]
    BY <1>2, <2>1, <2>2
  <2> HIDE DEF q
  <2>4. q = four <=> q[1] = "cr" /\ q[2] = "lf" /\ q[3] = "cr" /\ q[4] = "lf"
    BY <2>3
  <2> QED BY <2>3, <2>4 DEF q
<1>5. found(two) = {[at |-> i, width |-> 2] : i \in {k \in 1 .. Len(p) - 1 : SubSeq(p, k, k + 1) = two}}
  <2>1. Len(p) + 1 - 2 = Len(p) - 1 /\ \A k \in 1 .. Len(p) - 1 : k + 2 - 1 = k + 1
    BY <1>2
  <2> QED BY <1>2, <2>1
<1>6. found(four) = {[at |-> i, width |-> 4] : i \in {k \in 1 .. Len(p) - 3 : SubSeq(p, k, k + 3) = four}}
  <2>1. Len(p) + 1 - 4 = Len(p) - 3 /\ \A k \in 1 .. Len(p) - 3 : k + 4 - 1 = k + 3
    BY <1>2
  <2> QED BY <1>2, <2>1
<1> HIDE DEF found, two, four
<1>7. ASSUME NEW b \in Boundaries(p)
      PROVE  b.at \in Nat /\ IsMark(p, b.at, b.width) /\ b = [at |-> b.at, width |-> b.width]
  <2>1. CASE b \in found(two)
    <3>1. PICK i \in 1 .. Len(p) - 1 : b = [at |-> i, width |-> 2] /\ SubSeq(p, i, i + 1) = two
      BY <1>5, <2>1
    <3>2. p[i] = "lf" /\ p[i + 1] = "lf"
      BY <1>3, <3>1
    <3> QED BY <3>1, <3>2 DEF IsMark
  <2>2. CASE b \in found(four)
    <3>1. PICK i \in 1 .. Len(p) - 3 : b = [at |-> i, width |-> 4] /\ SubSeq(p, i, i + 3) = four
      BY <1>6, <2>2
    <3>2. p[i] = "cr" /\ p[i + 1] = "lf" /\ p[i + 2] = "cr" /\ p[i + 3] = "lf"
      BY <1>4, <3>1
    <3> QED BY <3>1, <3>2 DEF IsMark
  <2> QED BY <1>1, <2>1, <2>2
<1>8. ASSUME NEW i, NEW w, IsMark(p, i, w) PROVE [at |-> i, width |-> w] \in Boundaries(p)
  <2>1. CASE w = 2 /\ i \in 1 .. Len(p) - 1 /\ p[i] = "lf" /\ p[i + 1] = "lf"
    BY <1>1, <1>3, <1>5, <2>1
  <2>2. CASE w = 4 /\ i \in 1 .. Len(p) - 3 /\ p[i] = "cr" /\ p[i + 1] = "lf"
             /\ p[i + 2] = "cr" /\ p[i + 3] = "lf"
    BY <1>1, <1>4, <1>6, <2>2
  <2> QED BY <1>8, <2>1, <2>2 DEF IsMark
<1> QED BY <1>7, <1>8

\* What push drains first, and what it leaves.
First(p) == CHOOSE b \in Boundaries(p) : \A c \in Boundaries(p) : b.at <= c.at
Frame(p) == SubSeq(p, 1, First(p).at - 1)
After(p) == SubSeq(p, First(p).at + First(p).width, Len(p))

\* Where there is a boundary there is a first.
LEMMA FirstIs ==
  ASSUME NEW p \in Seq(Bytes), Boundaries(p) # {}
  PROVE  /\ First(p) \in Boundaries(p) /\ \A c \in Boundaries(p) : First(p).at <= c.at
         /\ IsMark(p, First(p).at, First(p).width)
         /\ First(p).at \in 1 .. Len(p) /\ First(p).width \in {2, 4}
         /\ First(p).at + First(p).width <= Len(p) + 1
<1> DEFINE T == {b.at : b \in Boundaries(p)}
<1>1. T \in SUBSET Nat /\ T # {}
  BY BoundariesAre
<1> HIDE DEF T
<1>2. PICK m \in T : \A n \in T : m <= n
  BY <1>1, LeastOf
<1>3. PICK b \in Boundaries(p) : m = b.at
  BY <1>2 DEF T
<1>4. \A c \in Boundaries(p) : b.at <= c.at
  BY <1>2, <1>3 DEF T
<1>5. First(p) \in Boundaries(p) /\ \A c \in Boundaries(p) : First(p).at <= c.at
  BY <1>3, <1>4 DEF First
<1>6. IsMark(p, First(p).at, First(p).width)
  BY <1>5, BoundariesAre
<1> HIDE <1>6
<1> QED BY <1>5, <1>6 DEF IsMark

\* A frame is drained with its boundary, so that less is left.
LEMMA AfterIs ==
  ASSUME NEW p \in Seq(Bytes), Boundaries(p) # {}
  PROVE  /\ Frame(p) \in Seq(Bytes) /\ Len(Frame(p)) = First(p).at - 1
         /\ After(p) \in Seq(Bytes) /\ Len(After(p)) < Len(p)
         /\ Len(After(p)) = Len(p) - (First(p).at + First(p).width) + 1
<1>1. First(p).at \in 1 .. Len(p) /\ First(p).width \in {2, 4}
      /\ First(p).at + First(p).width <= Len(p) + 1
  BY FirstIs
<1>2. Frame(p) \in Seq(Bytes) /\ Len(Frame(p)) = First(p).at - 1
  <2>1. First(p).at - 1 \in 0 .. Len(p)
    BY <1>1
  <2> QED BY <2>1 DEF Frame
<1>3. /\ After(p) \in Seq(Bytes)
      /\ Len(After(p)) = Len(p) - (First(p).at + First(p).width) + 1
  <2> DEFINE from == First(p).at + First(p).width
  <2>1. from \in 1 .. Len(p) + 1
    BY <1>1
  <2> HIDE DEF from
  <2>2. SubSeq(p, from, Len(p)) \in Seq(Bytes) /\ Len(SubSeq(p, from, Len(p))) = Len(p) - from + 1
    BY <2>1
  <2> QED BY <2>2 DEF After, from
<1> QED BY <1>1, <1>2, <1>3

Drained == [ok : BOOLEAN, events : Seq(Seq(Bytes)), rest : Seq(Bytes)]

\* A frame drained off.
Drawn(p, d) == [d EXCEPT !.events = IF Contains(Frame(p), "x") THEN <<Frame(p)>> \o @ ELSE @]

\* Drain is what its definition says.
LEMMA DrainIs ==
  /\ Drain \in [Seq(Bytes) -> Drained]
  /\ \A p \in Seq(Bytes) :
       Drain[p] = IF Boundaries(p) = {} THEN [ok |-> TRUE, events |-> <<>>, rest |-> p]
                  ELSE IF Contains(Frame(p), "bad")
                    THEN [ok |-> FALSE, events |-> <<>>, rest |-> After(p)]
                  ELSE Drawn(p, Drain[After(p)])
<1> DEFINE S == Seq(Bytes)
           size == [p \in S |-> Len(p)]
           stop == [p \in S |-> Boundaries(p) = {} \/ Contains(Frame(p), "bad")]
           base == [p \in S |-> IF Boundaries(p) = {}
                                  THEN [ok |-> TRUE, events |-> <<>>, rest |-> p]
                                  ELSE [ok |-> FALSE, events |-> <<>>,
                                        rest |-> IF Contains(Frame(p), "bad") THEN After(p) ELSE p]]
           next == [p \in S |-> IF Boundaries(p) = {} THEN p ELSE After(p)]
           step == [p \in S |-> [d \in Drained |-> IF Boundaries(p) = {} THEN d ELSE Drawn(p, d)]]
           Body(h, p) == IF Boundaries(p) = {} THEN [ok |-> TRUE, events |-> <<>>, rest |-> p]
                         ELSE IF Contains(Frame(p), "bad")
                           THEN [ok |-> FALSE, events |-> <<>>, rest |-> After(p)]
                         ELSE Drawn(p, h[After(p)])
           IsIt(h) == h = [p \in S |-> Body(h, p)]
<1>1. \A p \in S, d \in Drained : Boundaries(p) # {} => Drawn(p, d) \in Drained
  <2> SUFFICES ASSUME NEW p \in S, NEW d \in Drained, Boundaries(p) # {} PROVE Drawn(p, d) \in Drained
    OBVIOUS
  <2>1. Frame(p) \in Seq(Bytes)
    BY AfterIs
  <2>2. <<Frame(p)>> \o d.events \in Seq(Seq(Bytes))
    BY <2>1 DEF Drained
  <2> QED BY <2>2 DEF Drained, Drawn
<1>2. /\ size \in [S -> Nat] /\ stop \in [S -> BOOLEAN] /\ next \in [S -> S]
      /\ base \in [S -> Drained] /\ step \in [S -> [Drained -> Drained]]
  <2>1. size \in [S -> Nat]
    OBVIOUS
  <2>2. stop \in [S -> BOOLEAN]
    BY Zenon
  <2>3. next \in [S -> S]
    BY AfterIs
  <2>4. base \in [S -> Drained]
    <3>1. <<>> \in Seq(Seq(Bytes))
      OBVIOUS
    <3>2. \A p \in S : Boundaries(p) # {} => After(p) \in S
      BY AfterIs
    <3>3. ASSUME NEW p \in S PROVE base[p] \in Drained
      BY <3>1, <3>2 DEF Drained
    <3> HIDE DEF base
    <3>4. DOMAIN base = S /\ base = [p \in S |-> base[p]]
      BY DEF base
    <3> QED BY <3>3, <3>4
  <2>5. step \in [S -> [Drained -> Drained]]
    <3> HIDE DEF S
    <3> QED BY <1>1
  <2> QED BY <2>1, <2>2, <2>3, <2>4, <2>5
<1>3. Shrinks(S, size, stop, next)
  <2> SUFFICES ASSUME NEW p \in S, ~stop[p] PROVE size[next[p]] < size[p]
    BY DEF Shrinks
  <2>1. Boundaries(p) # {}
    OBVIOUS
  <2>2. next[p] = After(p) /\ After(p) \in S /\ Len(After(p)) < Len(p)
    BY <2>1, AfterIs
  <2> QED BY <2>2
<1> HIDE DEF size, stop, base, next, step
<1>4. PICK h \in [S -> Drained] : \A p \in S : Recurs(h, p, stop, base, next, step)
  BY <1>2, <1>3, RecursionExists
<1>6. \A p \in S : h[p] = Body(h, p)
  <2> SUFFICES ASSUME NEW p \in S PROVE h[p] = Body(h, p)
    OBVIOUS
  <2>1. h[p] = IF stop[p] THEN base[p] ELSE step[p][h[next[p]]]
    BY <1>4 DEF Recurs
  <2>2. CASE Boundaries(p) = {}
    BY <2>1, <2>2 DEF stop, base
  <2>3. CASE Boundaries(p) # {} /\ Contains(Frame(p), "bad")
    BY <2>1, <2>3 DEF stop, base
  <2>4. CASE Boundaries(p) # {} /\ ~Contains(Frame(p), "bad")
    <3>1. ~stop[p] /\ next[p] = After(p) /\ After(p) \in S
      BY <2>4, AfterIs DEF stop, next
    <3>2. h[After(p)] \in Drained
      BY <3>1
    <3>3. step[p][h[After(p)]] = Drawn(p, h[After(p)])
      BY <2>4, <3>2 DEF step
    <3> QED BY <2>1, <2>4, <3>1, <3>3
  <2> QED BY <2>2, <2>3, <2>4
<1>7. IsIt(h)
  <2>1. h = [p \in S |-> h[p]]
    OBVIOUS
  <2> HIDE DEF Body
  <2> QED BY <1>6, <2>1
<1>8. Drain = CHOOSE d : IsIt(d)
  BY DEF Drain, Frame, After, First, Drawn
<1>9. IsIt(Drain)
  <2> HIDE DEF IsIt
  <2> QED BY <1>7, <1>8
<1>10. \A p \in S : Drain[p] = Body(Drain, p)
  <2> HIDE DEF Body
  <2> QED BY <1>9
<1>11. ASSUME NEW q \in S PROVE Drain[q] = h[q]
  <2> SUFFICES ASSUME Drain[q] # h[q] PROVE FALSE
    OBVIOUS
  <2> DEFINE T == {Len(p) : p \in {x \in S : Drain[x] # h[x]}}
  <2>1. T \in SUBSET Nat /\ T # {}
    <3>1. \A x \in S : Len(x) \in Nat
      OBVIOUS
    <3>2. Len(q) \in T
      OBVIOUS
    <3> HIDE DEF S
    <3> QED BY <3>1, <3>2
  <2>2. PICK m \in T : \A k \in T : m <= k
    <3> HIDE DEF T
    <3> QED BY <2>1, LeastOf
  <2>3. PICK p \in S : m = Len(p) /\ Drain[p] # h[p]
    BY <2>2
  <2>4. Boundaries(p) # {} /\ Drain[After(p)] # h[After(p)]
    BY <1>6, <1>10, <2>3
  <2>5. After(p) \in S /\ Len(After(p)) < Len(p) /\ Len(After(p)) \in Nat /\ Len(p) \in Nat
    BY <2>4, AfterIs
  <2>6. Len(After(p)) \in T
    BY <2>4, <2>5
  <2> HIDE DEF T
  <2> QED BY <2>2, <2>3, <2>5, <2>6
<1>12. Drain \in [S -> Drained]
  <2>1. Drain = [p \in S |-> Drain[p]]
    <3> HIDE DEF Body
    <3> QED BY <1>9
  <2> QED BY <1>11, <2>1
<1> QED BY <1>10, <1>12

\* Marks of the whole up to one of its front are the front's: marks cannot overlap.
LEMMA Marks ==
  ASSUME NEW a \in Seq(Bytes), NEW b \in Seq(Bytes), NEW i \in Int, NEW w \in {2, 4}, IsMark(a, i, w)
  PROVE  /\ IsMark(a \o b, i, w)
         /\ \A j \in Int, v \in {2, 4} :
              IsMark(a \o b, j, v) /\ j <= i => (j = i /\ v = w) \/ IsMark(a, j, v)
<1> DEFINE p == a \o b
<1>1. /\ p \in Seq(Bytes) /\ Len(p) = Len(a) + Len(b) /\ Len(a) \in Nat /\ Len(b) \in Nat
      /\ \A k \in 1 .. Len(a) : p[k] = a[k]
  OBVIOUS
<1> HIDE DEF p
<1>2. i >= 1 /\ i + w <= Len(a) + 1
  BY <1>1 DEF IsMark
<1>3. IsMark(p, i, w)
  <2>1. CASE w = 2
    <3>1. i \in 1 .. Len(a) - 1 /\ a[i] = "lf" /\ a[i + 1] = "lf"
      BY <2>1 DEF IsMark
    <3>2. i \in 1 .. Len(p) - 1 /\ i \in 1 .. Len(a) /\ i + 1 \in 1 .. Len(a)
      BY <1>1, <3>1
    <3> QED BY <1>1, <2>1, <3>1, <3>2 DEF IsMark
  <2>2. CASE w = 4
    <3>1. i \in 1 .. Len(a) - 3 /\ a[i] = "cr" /\ a[i + 1] = "lf" /\ a[i + 2] = "cr" /\ a[i + 3] = "lf"
      BY <2>2 DEF IsMark
    <3>2. /\ i \in 1 .. Len(p) - 3 /\ i \in 1 .. Len(a) /\ i + 1 \in 1 .. Len(a)
          /\ i + 2 \in 1 .. Len(a) /\ i + 3 \in 1 .. Len(a)
      BY <1>1, <3>1
    <3> QED BY <1>1, <2>2, <3>1, <3>2 DEF IsMark
  <2> QED BY <2>1, <2>2
<1>4. ASSUME NEW j \in Int, NEW v \in {2, 4}, IsMark(p, j, v), j <= i
      PROVE  (j = i /\ v = w) \/ IsMark(a, j, v)
  <2>1. CASE j + v <= Len(a) + 1
    <3>1. CASE v = 2
      <4>1. j \in 1 .. Len(p) - 1 /\ p[j] = "lf" /\ p[j + 1] = "lf"
        BY <1>4, <3>1 DEF IsMark
      <4>2. j \in 1 .. Len(a) - 1 /\ j \in 1 .. Len(a) /\ j + 1 \in 1 .. Len(a)
        BY <1>1, <2>1, <3>1, <4>1
      <4> QED BY <1>1, <3>1, <4>1, <4>2 DEF IsMark
    <3>2. CASE v = 4
      <4>1. j \in 1 .. Len(p) - 3 /\ p[j] = "cr" /\ p[j + 1] = "lf" /\ p[j + 2] = "cr"
            /\ p[j + 3] = "lf"
        BY <1>4, <3>2 DEF IsMark
      <4>2. /\ j \in 1 .. Len(a) - 3 /\ j \in 1 .. Len(a) /\ j + 1 \in 1 .. Len(a)
            /\ j + 2 \in 1 .. Len(a) /\ j + 3 \in 1 .. Len(a)
        BY <1>1, <2>1, <3>2, <4>1
      <4> QED BY <1>1, <3>2, <4>1, <4>2 DEF IsMark
    <3> QED BY <3>1, <3>2
  <2>2. CASE j = i
    BY <1>1, <1>3, <1>4, <2>2 DEF IsMark
  <2>3. CASE j < i /\ ~ (j + v <= Len(a) + 1)
    <3>1. v = 4 /\ w = 2 /\ i = j + 1
      BY <1>1, <1>2, <2>3
    <3>2. p[j + 2] = "cr"
      BY <1>4, <3>1 DEF IsMark
    <3>3. p[i + 1] = "lf"
      BY <1>3, <3>1 DEF IsMark
    <3>4. i + 1 = j + 2
      BY <3>1
    <3> QED BY <3>2, <3>3, <3>4
  <2> QED BY <1>1, <1>4, <2>1, <2>2, <2>3
<1> QED BY <1>3, <1>4 DEF p

\* What comes later does not move the first boundary.
LEMMA FirstStays ==
  ASSUME NEW a \in Seq(Bytes), NEW b \in Seq(Bytes), Boundaries(a) # {}
  PROVE  /\ a \o b \in Seq(Bytes) /\ Boundaries(a \o b) # {}
         /\ Frame(a \o b) = Frame(a) /\ After(a \o b) = After(a) \o b
<1> DEFINE p == a \o b
           f == First(a)
           g == First(p)
<1>1. /\ p \in Seq(Bytes) /\ Len(p) = Len(a) + Len(b) /\ Len(a) \in Nat /\ Len(b) \in Nat
      /\ \A i \in 1 .. Len(a) : p[i] = a[i]
  OBVIOUS
<1> HIDE DEF p
<1>2. /\ IsMark(a, f.at, f.width) /\ f.at \in 1 .. Len(a) /\ f.width \in {2, 4}
      /\ f.at + f.width <= Len(a) + 1 /\ f \in Boundaries(a) /\ \A c \in Boundaries(a) : f.at <= c.at
  BY FirstIs
<1>12. f.at \in Int
  BY <1>2
<1>3. IsMark(p, f.at, f.width)
  BY <1>2, <1>12, Marks DEF p
<1>4. f = [at |-> f.at, width |-> f.width] /\ f \in Boundaries(p)
  <2>1. f = [at |-> f.at, width |-> f.width]
    BY <1>2, BoundariesAre
  <2>2. [at |-> f.at, width |-> f.width] \in Boundaries(p)
    BY <1>1, <1>3, BoundariesAre
  <2> QED BY <2>1, <2>2
<1>5. Boundaries(p) # {}
  BY <1>4
<1>6. g.at <= f.at /\ IsMark(p, g.at, g.width) /\ g.at \in 1 .. Len(p) /\ g.width \in {2, 4}
  BY <1>1, <1>4, <1>5, FirstIs
<1> HIDE DEF f, g
<1>7. (g.at = f.at /\ g.width = f.width) \/ IsMark(a, g.at, g.width)
  <2>1. g.at \in Int
    BY <1>6
  <2> QED BY <1>2, <1>6, <1>12, <2>1, Marks DEF p
<1>8. g.at = f.at
  <2>1. IsMark(a, g.at, g.width) => f.at <= g.at
    <3> SUFFICES ASSUME IsMark(a, g.at, g.width) PROVE f.at <= g.at
      OBVIOUS
    <3>1. [at |-> g.at, width |-> g.width] \in Boundaries(a)
      BY BoundariesAre
    <3>2. [at |-> g.at, width |-> g.width].at = g.at
      OBVIOUS
    <3> QED BY <1>2, <3>1, <3>2
  <2> QED BY <1>1, <1>2, <1>6, <1>7, <2>1
<1>9. g.width = f.width
  BY <1>3, <1>6, <1>8 DEF IsMark
<1>10. SubSeq(p, 1, f.at - 1) = SubSeq(a, 1, f.at - 1)
  BY <1>1, <1>2
<1>11. SubSeq(p, f.at + f.width, Len(p)) = SubSeq(a, f.at + f.width, Len(a)) \o b
  <2>1. f.at + f.width \in 1 .. Len(a) + 1
    BY <1>2
  <2> QED BY <2>1, TailOfConcat DEF p
<1> QED BY <1>1, <1>5, <1>8, <1>9, <1>10, <1>11 DEF Frame, After, p, f, g

\* Drained at once or one after the other.
Joined(d, e) == [e EXCEPT !.events = d.events \o @]

LEMMA DrainJoins ==
  ASSUME NEW a \in Seq(Bytes), NEW b \in Seq(Bytes), Drain[a].ok
  PROVE  Drain[a \o b] = Joined(Drain[a], Drain[Drain[a].rest \o b])
<1> DEFINE Fine(x) == Drain[x].ok => Drain[x \o b] = Joined(Drain[x], Drain[Drain[x].rest \o b])
           T == {Len(x) : x \in {y \in Seq(Bytes) : ~Fine(y)}}
<1>1. SUFFICES ASSUME ~Fine(a) PROVE FALSE
  OBVIOUS
<1> HIDE DEF Fine
<1>2. T \in SUBSET Nat /\ T # {}
  <2>1. \A x \in Seq(Bytes) : Len(x) \in Nat
    OBVIOUS
  <2>2. Len(a) \in T
    BY <1>1
  <2> QED BY <2>1, <2>2
<1>3. PICK m \in T : \A k \in T : m <= k
  <2> HIDE DEF T
  <2> QED BY <1>2, LeastOf
<1>4. PICK x \in Seq(Bytes) : m = Len(x) /\ ~Fine(x)
  BY <1>3
<1>5. \A y \in Seq(Bytes) : Len(y) < Len(x) => Fine(y)
  <2> SUFFICES ASSUME NEW y \in Seq(Bytes), Len(y) < Len(x), ~Fine(y) PROVE FALSE
    OBVIOUS
  <2>1. Len(y) \in T /\ Len(y) \in Nat /\ Len(x) \in Nat
    OBVIOUS
  <2> HIDE DEF T
  <2> QED BY <1>3, <1>4, <2>1
<1>6. Drain[x].ok /\ Drain[x \o b] # Joined(Drain[x], Drain[Drain[x].rest \o b])
  BY <1>4 DEF Fine
<1> HIDE DEF T
<1>7. CASE Boundaries(x) = {}
  <2>1. Drain[x] = [ok |-> TRUE, events |-> <<>>, rest |-> x]
    BY <1>7, DrainIs
  <2>2. Drain[x].rest = x /\ Drain[x].events = <<>>
    BY <2>1
  <2>5. x \o b \in Seq(Bytes)
    OBVIOUS
  <2>3. Drain[x \o b] \in Drained
    BY <2>5, DrainIs
  <2>4. Joined(Drain[x], Drain[x \o b]) = Drain[x \o b]
    <3>1. <<>> \o Drain[x \o b].events = Drain[x \o b].events
      BY <2>3 DEF Drained
    <3> QED BY <2>2, <2>3, <3>1 DEF Joined, Drained
  <2> QED BY <1>6, <2>2, <2>4
<1>8. CASE Boundaries(x) # {}
  <2> DEFINE y == After(x)
             d == Drain[y]
             e == Drain[d.rest \o b]
  <2>1. y \in Seq(Bytes) /\ Len(y) < Len(x) /\ Frame(x) \in Seq(Bytes)
    BY <1>8, AfterIs
  <2>2. x \o b \in Seq(Bytes) /\ Boundaries(x \o b) # {} /\ Frame(x \o b) = Frame(x)
        /\ After(x \o b) = y \o b
    BY <1>8, FirstStays
  <2>3. ~Contains(Frame(x), "bad") /\ Drain[x] = Drawn(x, d)
    BY <1>6, <1>8, DrainIs
  <2>4. d \in Drained /\ e \in Drained /\ d.rest \in Seq(Bytes)
    <3>1. d \in Drained
      BY <2>1, DrainIs
    <3>2. d.rest \o b \in Seq(Bytes) /\ d.rest \in Seq(Bytes)
      BY <3>1 DEF Drained
    <3> QED BY <3>1, <3>2, DrainIs
  <2> HIDE DEF y, d
  <2>5. d.ok /\ Drain[x].rest = d.rest
    BY <1>6, <2>3, <2>4 DEF Drawn, Drained
  <2>6. Drain[y \o b] = Joined(d, e)
    BY <1>5, <2>1, <2>5 DEF Fine, d
  <2>7. Drain[x \o b] = Drawn(x \o b, Joined(d, e))
    BY <2>2, <2>3, <2>6, DrainIs
  <2> HIDE DEF e
  <2>8. Drawn(x \o b, Joined(d, e)) = Joined(Drawn(x, d), e)
    <3> DEFINE front == IF Contains(Frame(x), "x") THEN <<Frame(x)>> ELSE <<>>
    <3>1. front \in Seq(Seq(Bytes)) /\ d.events \in Seq(Seq(Bytes)) /\ e.events \in Seq(Seq(Bytes))
      BY <2>1, <2>4 DEF Drained
    <3>2. Drawn(x, d) = [ok |-> d.ok, events |-> front \o d.events, rest |-> d.rest]
      <4>1. d.events = <<>> \o d.events
        BY <3>1, ConcatEmptySeq
      <4>2. Drawn(x, d) = [d EXCEPT !.events = front \o d.events]
        BY <4>1 DEF Drawn
      <4> HIDE DEF front
      <4> QED BY <2>4, <4>2 DEF Drained
    <3>3. Joined(d, e) = [ok |-> e.ok, events |-> d.events \o e.events, rest |-> e.rest]
      <4>1. Joined(d, e) = [e EXCEPT !.events = d.events \o e.events]
        BY DEF Joined
      <4> QED BY <2>4, <4>1 DEF Drained
    <3>4. Drawn(x \o b, Joined(d, e)) = [ok |-> e.ok, events |-> front \o (d.events \o e.events), rest |-> e.rest]
      <4> DEFINE both == d.events \o e.events
                 j == [ok |-> e.ok, events |-> both, rest |-> e.rest]
      <4>1. both \in Seq(Seq(Bytes))
        BY <3>1, ConcatProperties
      <4> HIDE DEF both
      <4>2. both = <<>> \o both
        BY <4>1, ConcatEmptySeq
      <4>3. Drawn(x \o b, j) = [j EXCEPT !.events = front \o both]
        BY <2>2, <4>2 DEF Drawn
      <4> HIDE DEF front
      <4> QED BY <3>3, <4>3 DEF both
    <3>5. front \o (d.events \o e.events) = (front \o d.events) \o e.events
      <4> HIDE DEF front
      <4> DEFINE S == Seq(Bytes)
                 one == d.events
                 other == e.events
      <4>1. front \in Seq(S) /\ one \in Seq(S) /\ other \in Seq(S)
        BY <3>1
      <4> HIDE DEF S, one, other
      <4>2. (front \o one) \o other = front \o (one \o other)
        BY <4>1, ConcatAssociative
      <4> QED BY <4>2 DEF one, other
    <3> HIDE DEF front
    <3>6. Joined(Drawn(x, d), e) = [ok |-> e.ok, events |-> (front \o d.events) \o e.events, rest |-> e.rest]
      <4> DEFINE q == Drawn(x, d)
                 all == q.events \o e.events
      <4>1. Joined(q, e) = [e EXCEPT !.events = all]
        BY DEF Joined
      <4>2. q.events = front \o d.events
        BY <3>2
      <4> HIDE DEF all, q
      <4>3. Joined(q, e) = [ok |-> e.ok, events |-> all, rest |-> e.rest]
        BY <2>4, <4>1 DEF Drained
      <4> QED BY <4>2, <4>3 DEF all, q
    <3> QED BY <3>4, <3>5, <3>6, Zenon
  <2>9. Drain[Drain[x].rest \o b] = e
    BY <2>5 DEF e
  <2> QED BY <1>6, <2>3, <2>7, <2>8, <2>9
<1> QED BY <1>7, <1>8

\* What is left when nothing was wrong has no boundary.
LEMMA NoneLeft ==
  ASSUME NEW a \in Seq(Bytes), Drain[a].ok
  PROVE  Boundaries(Drain[a].rest) = {}
<1> DEFINE Fine(x) == Drain[x].ok => Boundaries(Drain[x].rest) = {}
           T == {Len(x) : x \in {y \in Seq(Bytes) : ~Fine(y)}}
<1>1. SUFFICES ASSUME ~Fine(a) PROVE FALSE
  OBVIOUS
<1> HIDE DEF Fine
<1>2. T \in SUBSET Nat /\ T # {}
  <2>1. \A x \in Seq(Bytes) : Len(x) \in Nat
    OBVIOUS
  <2>2. Len(a) \in T
    BY <1>1
  <2> QED BY <2>1, <2>2
<1>3. PICK m \in T : \A k \in T : m <= k
  <2> HIDE DEF T
  <2> QED BY <1>2, LeastOf
<1>4. PICK x \in Seq(Bytes) : m = Len(x) /\ ~Fine(x)
  BY <1>3
<1>5. \A y \in Seq(Bytes) : Len(y) < Len(x) => Fine(y)
  <2> SUFFICES ASSUME NEW y \in Seq(Bytes), Len(y) < Len(x), ~Fine(y) PROVE FALSE
    OBVIOUS
  <2>1. Len(y) \in T /\ Len(y) \in Nat /\ Len(x) \in Nat
    OBVIOUS
  <2> HIDE DEF T
  <2> QED BY <1>3, <1>4, <2>1
<1> HIDE DEF T
<1>6. Drain[x].ok /\ Boundaries(Drain[x].rest) # {}
  BY <1>4 DEF Fine
<1>7. CASE Boundaries(x) = {}
  BY <1>6, <1>7, DrainIs
<1>8. CASE Boundaries(x) # {}
  <2>1. After(x) \in Seq(Bytes) /\ Len(After(x)) < Len(x)
    BY <1>8, AfterIs
  <2>2. ~Contains(Frame(x), "bad") /\ Drain[x] = Drawn(x, Drain[After(x)])
    BY <1>6, <1>8, DrainIs
  <2>3. Drain[After(x)] \in Drained
    BY <2>1, DrainIs
  <2>4. Drain[After(x)].ok /\ Drain[x].rest = Drain[After(x)].rest
    BY <1>6, <2>2, <2>3 DEF Drawn, Drained
  <2> QED BY <1>5, <1>6, <2>1, <2>4 DEF Fine
<1> QED BY <1>7, <1>8

\* What a push gives.
Each == [ok : BOOLEAN, events : Seq(Seq(Bytes)), pending : Seq(Bytes)]

\* What push leaves is within the limit and has no boundary.
LEMMA PushType ==
  ASSUME NEW held \in Seq(Bytes), NEW bytes \in Seq(Bytes)
  PROVE  LET r == Push(held, bytes)
         IN  r \in Each /\ (r.ok => Len(r.pending) <= MaxPendingFrame /\ Boundaries(r.pending) = {})
<1>1. held \o bytes \in Seq(Bytes)
  BY ConcatProperties
<1> DEFINE d == Drain[held \o bytes]
<1>2. d \in Drained /\ (d.ok => Boundaries(d.rest) = {})
  BY <1>1, DrainIs, NoneLeft
<1> HIDE DEF d
<1> DEFINE fits == d.ok /\ Len(d.rest) <= MaxPendingFrame
           r == Push(held, bytes)
<1>3. r = [ok |-> fits, events |-> d.events, pending |-> d.rest]
  BY DEF Push, d
<1>4. fits \in BOOLEAN /\ (fits => d.ok /\ Len(d.rest) <= MaxPendingFrame)
  BY Zenon
<1> HIDE DEF fits, r
<1> QED BY <1>2, <1>3, <1>4 DEF Drained, Each, r

\* A byte of PushEach.
EachOne(done, byte) ==
  LET r == Push(done.pending, <<byte>>)
  IN  [ok      |-> done.ok /\ r.ok,
       events  |-> done.events \o r.events,
       pending |-> r.pending]

\* A byte keeps the types.
LEMMA EachType ==
  ASSUME NEW done \in Each, NEW byte \in Bytes
  PROVE  EachOne(done, byte) \in Each
<1> DEFINE r == Push(done.pending, <<byte>>)
<1>1. done.pending \in Seq(Bytes) /\ <<byte>> \in Seq(Bytes) /\ done.events \in Seq(Seq(Bytes))
  BY DEF Each
<1>2. r \in Each
  BY <1>1, PushType
<1> HIDE DEF r
<1>3. done.events \o r.events \in Seq(Seq(Bytes))
  BY <1>1, <1>2, ConcatProperties DEF Each
<1>4. (done.ok /\ r.ok) \in BOOLEAN
  BY Zenon
<1> QED BY <1>2, <1>3, <1>4 DEF EachOne, Each, r

\* Byte by byte.
EachSteps(held, bytes) ==
  \E f \in [0 .. Len(bytes) -> Each] :
    /\ f[0] = [ok |-> TRUE, events |-> <<>>, pending |-> held]
    /\ \A k \in 1 .. Len(bytes) : f[k] = EachOne(f[k - 1], bytes[k])
    /\ PushEach(held, bytes) = f[Len(bytes)]

\* PushEach goes byte by byte.
LEMMA EachFold ==
  ASSUME NEW held \in Seq(Bytes), NEW bytes \in Seq(Bytes)
  PROVE  EachSteps(held, bytes)
<1> DEFINE n == Len(bytes)
           start == [ok |-> TRUE, events |-> <<>>, pending |-> held]
           step == [k \in 1 .. n |-> [r \in Each |-> EachOne(r, bytes[k])]]
           Body(h, s) == IF s = {} THEN start
                         ELSE EachOne(h[s \ {Max(s)}], bytes[Max(s)])
           IsIt(h) == h = [s \in SUBSET DOMAIN bytes |-> Body(h, s)]
           it == CHOOSE h : IsIt(h)
<1>1. n \in Nat /\ DOMAIN bytes = 1 .. n
  OBVIOUS
<1>2. \A k \in 1 .. n : \A r \in Each : EachOne(r, bytes[k]) \in Each
  BY EachType
<1>3. step \in [1 .. n -> [Each -> Each]]
  BY <1>2
<1>13. \A k \in 1 .. n : \A r \in Each : step[k][r] = EachOne(r, bytes[k])
  OBVIOUS
<1>4. PushEach(held, bytes) = it[DOMAIN bytes]
  BY DEF PushEach, EachOne, FoldLeft, MapThenFoldSet
<1>14. start \in Each
  <2>1. <<>> \in Seq(Seq(Bytes))
    OBVIOUS
  <2> QED BY <2>1 DEF Each
<1> HIDE DEF n, step
<1>5. PICK h \in [SUBSET (1 .. n) -> Each] : IsFold(h, n, start, step)
  BY <1>1, <1>3, <1>14, FoldExists
<1>6. ASSUME NEW s \in SUBSET (1 .. n), s # {}
      PROVE  h[s] = EachOne(h[s \ {Max(s)}], bytes[Max(s)])
  <2>1. Max(s) \in 1 .. n /\ s \ {Max(s)} \in SUBSET (1 .. n)
    BY <1>1, <1>6, FromTheEnd
  <2>2. h[s] = step[Max(s)][h[s \ {Max(s)}]]
    BY <1>5, <1>6 DEF IsFold
  <2>3. h[s \ {Max(s)}] \in Each
    BY <1>5, <2>1
  <2> QED BY <1>13, <2>1, <2>2, <2>3
<1>7. IsIt(h)
  <2>1. \A s \in SUBSET DOMAIN bytes : h[s] = Body(h, s)
    BY <1>1, <1>5, <1>6 DEF IsFold
  <2>2. h = [s \in SUBSET DOMAIN bytes |-> h[s]]
    BY <1>1, <1>5
  <2> HIDE DEF Body
  <2> QED BY <2>1, <2>2
<1>8. IsIt(it)
  BY <1>7
<1> HIDE DEF it
<1>9. it[1 .. 0] = start /\ \A k \in 1 .. n : it[1 .. k] = EachOne(it[1 .. k - 1], bytes[k])
  <2>1. ASSUME NEW s \in SUBSET (1 .. n) PROVE it[s] = Body(it, s)
    <3> HIDE DEF Body
    <3> QED BY <1>1, <1>8
  <2>2. it[1 .. 0] = start
    BY <1>1, <2>1, UpTo
  <2>3. ASSUME NEW k \in 1 .. n PROVE it[1 .. k] = EachOne(it[1 .. k - 1], bytes[k])
    <3>1. /\ 1 .. k \in SUBSET (1 .. n) /\ 1 .. k # {}
          /\ Max(1 .. k) = k /\ (1 .. k) \ {k} = 1 .. k - 1
      BY <1>1, UpTo
    <3>2. it[1 .. k] = Body(it, 1 .. k)
      BY <2>1, <3>1
    <3> QED BY <3>1, <3>2
  <2> QED BY <2>2, <2>3
<1>10. FoldsUp(it, Each, n, start, step)
  <2>1. it[{}] = start
    <3>1. 1 .. 0 = {}
      OBVIOUS
    <3> QED BY <1>9, <3>1
  <2> QED BY <1>13, <1>9, <2>1 DEF FoldsUp
<1>11. PICK f \in [0 .. n -> Each] : IsTrace(f, n, start, step) /\ f[n] = it[1 .. n]
  BY <1>1, <1>3, <1>10, <1>14, TraceOf
<1>12. ASSUME NEW k \in 1 .. n PROVE f[k] = EachOne(f[k - 1], bytes[k])
  <2>1. f[k - 1] \in Each
    BY <1>1, <1>11
  <2>2. f[k] = step[k][f[k - 1]]
    BY <1>11 DEF IsTrace
  <2> QED BY <1>13, <2>1, <2>2
<1> QED BY <1>1, <1>4, <1>11, <1>12 DEF n, IsTrace, EachSteps

\* Bytes are put together in any order of the steps.
LEMMA BytesAssociate ==
  ASSUME NEW a \in Seq(Bytes), NEW b \in Seq(Bytes), NEW c \in Seq(Bytes)
  PROVE  (a \o b) \o c = a \o (b \o c)
BY ConcatAssociative

\* If the bytes pass one at a time they pass at once, with the same events and
\* the same rest.
LEMMA EachIsPush ==
  ASSUME NEW held \in Seq(Bytes), NEW bytes \in Seq(Bytes),
         Boundaries(held) = {}, Len(held) <= MaxPendingFrame, PushEach(held, bytes).ok
  PROVE  /\ Push(held, bytes).ok
         /\ Push(held, bytes).events = PushEach(held, bytes).events
         /\ Push(held, bytes).pending = PushEach(held, bytes).pending
<1> DEFINE n == Len(bytes)
           upTo(k) == held \o SubSeq(bytes, 1, k)
           As(d, e) == /\ d.ok /\ d.events = e.events /\ d.rest = e.pending
                       /\ Len(e.pending) <= MaxPendingFrame
<1>1. PICK f \in [0 .. n -> Each] :
        /\ f[0] = [ok |-> TRUE, events |-> <<>>, pending |-> held]
        /\ \A k \in 1 .. n : f[k] = EachOne(f[k - 1], bytes[k])
        /\ PushEach(held, bytes) = f[n]
  BY EachFold DEF EachSteps
<1> DEFINE Good == {k \in 0 .. n : f[k].ok => As(Drain[upTo(k)], f[k])}
<1>2. n \in Nat /\ n \in 0 .. n
  OBVIOUS
<1>3. upTo(0) = held /\ upTo(n) = held \o bytes /\ \A k \in 0 .. n : upTo(k) \in Seq(Bytes)
  <2>1. SubSeq(bytes, 1, 0) = <<>> /\ SubSeq(bytes, 1, n) = bytes
        /\ \A k \in 0 .. n : SubSeq(bytes, 1, k) \in Seq(Bytes)
    OBVIOUS
  <2> QED BY <2>1, ConcatProperties, ConcatEmptySeq
<1>4. ASSUME NEW k \in 1 .. n
      PROVE  upTo(k) = upTo(k - 1) \o <<bytes[k]>> /\ <<bytes[k]>> \in Seq(Bytes) /\ k - 1 \in 0 .. n
             /\ k \in 0 .. n
  <2> DEFINE front == SubSeq(bytes, 1, k - 1)
             one == <<bytes[k]>>
  <2>1. front \in Seq(Bytes) /\ one \in Seq(Bytes)
    OBVIOUS
  <2>2. SubSeq(bytes, 1, k) = front \o one
    OBVIOUS
  <2> HIDE DEF front, one
  <2>3. (held \o front) \o one = held \o (front \o one)
    <3>1. held \in Seq(Bytes)
      OBVIOUS
    <3> QED BY ONLY <2>1, <3>1, BytesAssociate
  <2> QED BY <2>1, <2>2, <2>3 DEF front, one
<1> HIDE DEF n, upTo, As
<1>5. 0 \in Good
  <2>1. Drain[held] = [ok |-> TRUE, events |-> <<>>, rest |-> held]
    BY DrainIs
  <2> QED BY <1>1, <1>2, <1>3, <2>1 DEF As
<1>6. ASSUME NEW j \in 0 .. n - 1, j \in Good PROVE j + 1 \in Good
  <2> DEFINE k == j + 1
             one == <<bytes[k]>>
             e == f[j]
             r == Push(e.pending, one)
             d == Drain[upTo(j)]
  <2>1. k \in 1 .. n /\ k \in 0 .. n /\ j \in 0 .. n /\ k - 1 = j
    BY <1>2
  <2>2. e \in Each /\ f[k] = EachOne(e, bytes[k]) /\ one \in Seq(Bytes) /\ upTo(k) = upTo(j) \o one
        /\ upTo(j) \in Seq(Bytes)
    BY <1>1, <1>3, <1>4, <2>1
  <2>3. e.ok => As(d, e)
    BY <1>6
  <2> HIDE DEF k, one, e, d
  <2> DEFINE o == e.ok /\ r.ok
             all == e.events \o r.events
  <2>4. f[k] = [ok |-> o, events |-> all, pending |-> r.pending]
    BY <2>2 DEF EachOne, one
  <2> HIDE DEF o, all, r
  <2> SUFFICES ASSUME f[k].ok PROVE As(Drain[upTo(k)], f[k])
    BY <2>1 DEF k
  <2>5. e.ok /\ r.ok /\ As(d, e)
    <3>1. o
      BY <2>4
    <3> QED BY <2>3, <3>1 DEF o
  <2>6. /\ f[k].events = e.events \o r.events /\ f[k].pending = r.pending
    <3>1. f[k].events = all /\ f[k].pending = r.pending
      BY <2>4
    <3> QED BY <3>1 DEF all
  <2>7. e.pending \in Seq(Bytes) /\ d \in Drained /\ d.ok /\ d.events = e.events /\ d.rest = e.pending
    BY <2>2, <2>5, DrainIs DEF Each, As, d
  <2>8. Drain[upTo(k)] = Joined(d, Drain[e.pending \o one])
    BY <2>2, <2>7, DrainJoins DEF d
  <2> DEFINE t == Drain[e.pending \o one]
  <2>9. t \in Drained
    <3>1. e.pending \o one \in Seq(Bytes)
      BY <2>2, <2>7, ConcatProperties
    <3> QED BY <3>1, DrainIs
  <2> HIDE DEF t
  <2>10. r.ok = (t.ok /\ Len(t.rest) <= MaxPendingFrame) /\ r.events = t.events /\ r.pending = t.rest
    BY DEF Push, t, r
  <2>11. /\ Drain[upTo(k)].ok = t.ok /\ Drain[upTo(k)].rest = t.rest
         /\ Drain[upTo(k)].events = d.events \o t.events
    BY <2>8, <2>9 DEF Joined, Drained, t
  <2> QED BY <2>5, <2>6, <2>7, <2>10, <2>11 DEF As
<1>7. n \in Good
  <2>1. Good \in SUBSET (0 .. n)
    OBVIOUS
  <2> HIDE DEF Good
  <2>2. 0 .. n \subseteq Good
    BY <1>2, <1>5, <1>6, <2>1, Counting
  <2> QED BY <1>2, <2>2
<1>8. As(Drain[held \o bytes], PushEach(held, bytes))
  BY <1>1, <1>3, <1>7
<1> QED BY <1>8 DEF As, Push

\* What the framer holds while the generator relays.
FramerInv ==
  /\ pending \in Seq(Bytes) /\ due \in Nat
  /\ at = "relaying" => Len(pending) <= MaxPendingFrame /\ Boundaries(pending) = {}

LEMMA InitFramerInv == Init => FramerInv
<1> SUFFICES ASSUME Init PROVE FramerInv
  OBVIOUS
<1>1. pending = <<>> /\ due = 0
  BY DEF Init
<1>2. Boundaries(<<>>) = {}
  <2>1. <<>> \in Seq(Bytes) /\ Len(<<>>) = 0
    OBVIOUS
  <2>2. \A i, w : ~IsMark(<<>>, i, w)
    BY <2>1 DEF IsMark
  <2> QED BY <2>1, <2>2, BoundariesAre
<1> QED BY <1>1, <1>2, MaxPendingFrameAssumption DEF FramerInv, MaxPendingFrameAssumption

\* The translator leaves the framer alone; when it fails the loop is left.
LEMMA TranslateKeepsFramer ==
  ASSUME FramerInv, Translate
  PROVE  FramerInv'
<1>1. /\ pending' = pending
      /\ \/ at' # "relaying" /\ due' = 0
         \/ at' = at /\ due > 0 /\ due' = due - 1
  <2>1. ASSUME Refuse PROVE pending' = pending /\ at' # "relaying" /\ due' = 0
    BY <2>1 DEF Refuse, FailWith
  <2>2. ASSUME Translating, Forward PROVE pending' = pending /\ at' = at /\ due > 0 /\ due' = due - 1
    BY <2>2 DEF Translating, Forward
  <2>3. ASSUME PassOn PROVE Translating /\ Forward
    BY <2>3 DEF PassOn
  <2>4. CASE BeforeStart \/ Malformed \/ PassOn
    BY <2>1, <2>2, <2>3, <2>4 DEF BeforeStart, Malformed
  <2>5. CASE MessageStop
    <3>1. Refuse \/ (pending' = pending /\ at' = "finishing" /\ due' = 0)
      BY <2>5 DEF MessageStop
    <3> QED BY <2>1, <3>1
  <2>6. ASSUME NEW n \in InputReports, MessageStart(n) PROVE Refuse \/ (Translating /\ Forward)
    BY <2>6 DEF MessageStart
  <2>7. ASSUME NEW reason, NEW n, MessageDelta(reason, n) PROVE Translating /\ Forward
    BY <2>7 DEF MessageDelta
  <2>8. ASSUME NEW b \in Blocks, BlockEvent(b) PROVE Refuse \/ (Translating /\ Forward)
    <3>1. ASSUME ToolStart(b) PROVE Refuse \/ (Translating /\ Forward)
      BY <3>1 DEF ToolStart
    <3>2. ASSUME ThinkingStart(b) PROVE Refuse \/ (Translating /\ Forward)
      BY <3>2 DEF ThinkingStart
    <3>3. ASSUME ThinkingDelta(b) PROVE Refuse \/ (Translating /\ Forward)
      BY <2>3, <3>3 DEF ThinkingDelta
    <3>4. ASSUME BlockStop(b) PROVE Refuse \/ (Translating /\ Forward)
      BY <2>3, <3>4 DEF BlockStop, EndTool
    <3>5. ASSUME NEW part \in Parts, ArgumentsDelta(b, part) PROVE Refuse \/ (Translating /\ Forward)
      BY <3>5 DEF ArgumentsDelta
    <3> QED BY <2>8, <3>1, <3>2, <3>3, <3>4, <3>5 DEF BlockEvent
  <2> QED BY <2>1, <2>2, <2>4, <2>5, <2>6, <2>7, <2>8 DEF Translate
<1> QED BY <1>1 DEF FramerInv

LEMMA NextFramerInv == FramerInv /\ [Next]_vars => FramerInv'
<1> SUFFICES ASSUME FramerInv, [Next]_vars PROVE FramerInv'
  OBVIOUS
<1>1. ASSUME NEW bytes \in Chunks, Receive(bytes) PROVE FramerInv'
  <2> DEFINE push == Push(pending, bytes)
  <2>1. pending \in Seq(Bytes) /\ bytes \in Seq(Bytes)
    BY ChunksAssumption DEF FramerInv, ChunksAssumption
  <2>2. push \in Each /\ (push.ok => Len(push.pending) <= MaxPendingFrame /\ Boundaries(push.pending) = {})
    BY <2>1, PushType
  <2>3. Len(push.events) \in Nat /\ push.pending \in Seq(Bytes)
    BY <2>2 DEF Each
  <2> HIDE DEF push
  <2>4. \/ push.ok /\ pending' = push.pending /\ due' = Len(push.events)
        \/ pending' = push.pending /\ due' = 0 /\ at' = "ending"
    BY <1>1 DEF Receive, FailWith, push
  <2> QED BY <2>2, <2>3, <2>4 DEF FramerInv
<1>2. CASE BodyEnds \/ Finish \/ End \/ Drop \/ UNCHANGED vars
  BY <1>2 DEF FramerInv, BodyEnds, Finish, End, Drop, vars, framer_vars
<1>3. CASE Translate
  BY <1>3, TranslateKeepsFramer
<1> QED BY <1>1, <1>2, <1>3 DEF Next

\* A piece that would pass byte by byte passes, with the same events.
LEMMA ReceiveIsEach ==
  ASSUME FramerInv, NEW bytes \in Chunks, Receive(bytes), PushEach(pending, bytes).ok
  PROVE  /\ at' = "relaying" /\ pending' = PushEach(pending, bytes).pending
         /\ due' = Len(PushEach(pending, bytes).events)
<1> DEFINE push == Push(pending, bytes)
           each == PushEach(pending, bytes)
<1>1. at = "relaying"
  BY DEF Receive
<1>2. /\ pending \in Seq(Bytes) /\ bytes \in Seq(Bytes)
      /\ Len(pending) <= MaxPendingFrame /\ Boundaries(pending) = {}
  BY <1>1, ChunksAssumption DEF FramerInv, ChunksAssumption
<1>3. push.ok /\ push.events = each.events /\ push.pending = each.pending
  BY <1>2, EachIsPush
<1> HIDE DEF each, push
<1>4. push.ok /\ pending' = push.pending /\ due' = Len(push.events) /\ at' = at
  BY <1>3 DEF Receive, push
<1> QED BY <1>1, <1>3, <1>4 DEF each

-----------------------------------------------------------------------------
(***************************************************************************)
(* The relays.                                                             *)
(***************************************************************************)

\* What a stream's lines have reported so far.
Counts == [in : Relay!Tokens, out : Relay!Tokens]
NoCounts == [in |-> 0, out |-> 0]

\* c[k] is what the first k lines give.
CountsUpTo(c, lines, n) ==
  /\ c[0] = NoCounts
  /\ \A k \in 1 .. n : c[k] = Relay!Reported(lines[k], c[k - 1])

\* A line's counts are counts.
LEMMA ReportedType ==
  ASSUME NEW line \in Lines, NEW c \in Counts
  PROVE  Relay!Reported(line, c) \in Counts
BY LinesAssumption DEF LinesAssumption, Relay!LinesSensible, Counts, Relay!Reported

\* No counts are counts, and a count is a number.
LEMMA NoCountsTyped == NoCounts \in Counts /\ 0 \in Relay!Tokens /\ Relay!Tokens \subseteq Nat
BY LinesAssumption DEF LinesAssumption, Relay!LinesSensible, Relay!Tokens, NoCounts, Counts

\* What each line does to the counts.
ReportStep(lines) == [k \in 1 .. Len(lines) |-> [c \in Counts |-> Relay!Reported(lines[k], c)]]

\* Counts can be read line by line.
LEMMA CountsExist ==
  ASSUME NEW lines \in Seq(Lines)
  PROVE  \E c \in [0 .. Len(lines) -> Counts] : CountsUpTo(c, lines, Len(lines))
<1> DEFINE n == Len(lines)
           step == ReportStep(lines)
<1>1. n \in Nat /\ NoCounts \in Counts /\ step \in [1 .. n -> [Counts -> Counts]]
  BY NoCountsTyped, ReportedType DEF ReportStep
<1>3. \A k \in 1 .. n : step[k] = [c \in Counts |-> Relay!Reported(lines[k], c)]
  BY DEF ReportStep
<1> HIDE DEF n, step
<1>2. PICK c \in [0 .. n -> Counts] : IsTrace(c, n, NoCounts, step)
  BY <1>1, TraceExists
<1>4. ASSUME NEW k \in 1 .. n PROVE c[k] = Relay!Reported(lines[k], c[k - 1])
  <2>1. k - 1 \in 0 .. n
    BY <1>1
  <2> QED BY <1>2, <1>3, <2>1 DEF IsTrace
<1> QED BY <1>2, <1>4 DEF n, CountsUpTo, IsTrace

\* A fold over lines reads them line by line.
LEMMA CountsFold ==
  ASSUME NEW lines \in Seq(Lines), NEW c \in [0 .. Len(lines) -> Counts],
         CountsUpTo(c, lines, Len(lines))
  PROVE  FoldLeft(LAMBDA d, line : Relay!Reported(line, d), NoCounts, lines) = c[Len(lines)]
<1> DEFINE n == Len(lines)
           step == ReportStep(lines)
           Body(h, s) == IF s = {} THEN NoCounts
                         ELSE Relay!Reported(lines[Max(s)], h[s \ {Max(s)}])
           IsIt(h) == h = [s \in SUBSET DOMAIN lines |-> Body(h, s)]
           it == CHOOSE h : IsIt(h)
<1>1. /\ n \in Nat /\ DOMAIN lines = 1 .. n
      /\ NoCounts \in Counts /\ step \in [1 .. n -> [Counts -> Counts]]
  BY NoCountsTyped, ReportedType DEF ReportStep
<1>2. \A k \in 1 .. n : step[k] = [d \in Counts |-> Relay!Reported(lines[k], d)]
  BY DEF ReportStep
<1>3. FoldLeft(LAMBDA d, line : Relay!Reported(line, d), NoCounts, lines) = it[DOMAIN lines]
  BY DEF FoldLeft, MapThenFoldSet
<1> HIDE DEF n, step
<1>4. PICK h \in [SUBSET (1 .. n) -> Counts] : IsFold(h, n, NoCounts, step)
  BY <1>1, FoldExists
<1>5. ASSUME NEW s \in SUBSET (1 .. n), s # {}
      PROVE  h[s] = Relay!Reported(lines[Max(s)], h[s \ {Max(s)}])
  <2>1. Max(s) \in 1 .. n /\ s \ {Max(s)} \in SUBSET (1 .. n)
    BY <1>1, <1>5, FromTheEnd
  <2>2. h[s] = step[Max(s)][h[s \ {Max(s)}]]
    BY <1>4, <1>5 DEF IsFold
  <2>3. h[s \ {Max(s)}] \in Counts
    BY <1>4, <2>1
  <2> QED BY <1>2, <2>1, <2>2, <2>3
<1>6. IsIt(h)
  <2>1. \A s \in SUBSET DOMAIN lines : h[s] = Body(h, s)
    BY <1>1, <1>4, <1>5 DEF IsFold
  <2>2. h = [s \in SUBSET DOMAIN lines |-> h[s]]
    BY <1>1, <1>4
  <2> HIDE DEF Body
  <2> QED BY <2>1, <2>2
<1>7. IsIt(it)
  BY <1>6
<1> HIDE DEF it
<1>8. it[1 .. 0] = NoCounts /\ \A k \in 1 .. n : it[1 .. k] = Relay!Reported(lines[k], it[1 .. k - 1])
  <2>1. ASSUME NEW s \in SUBSET (1 .. n) PROVE it[s] = Body(it, s)
    <3> HIDE DEF Body
    <3> QED BY <1>1, <1>7
  <2>2. it[1 .. 0] = NoCounts
    BY <1>1, <2>1, UpTo
  <2>3. ASSUME NEW k \in 1 .. n PROVE it[1 .. k] = Relay!Reported(lines[k], it[1 .. k - 1])
    <3>1. /\ 1 .. k \in SUBSET (1 .. n) /\ 1 .. k # {}
          /\ Max(1 .. k) = k /\ (1 .. k) \ {k} = 1 .. k - 1
      BY <1>1, UpTo
    <3>2. it[1 .. k] = Body(it, 1 .. k)
      BY <2>1, <3>1
    <3> QED BY <3>1, <3>2
  <2> QED BY <2>2, <2>3
<1> DEFINE Good == {k \in 0 .. n : it[1 .. k] = c[k]}
<1>9. ASSUME NEW k \in 0 .. n - 1, k \in Good PROVE k + 1 \in Good
  <2>1. k + 1 \in 1 .. n /\ (k + 1) - 1 = k /\ k + 1 \in 0 .. n
    BY <1>1
  <2> QED BY <1>8, <1>9, <2>1 DEF CountsUpTo, n
<1>10. n \in Good
  <2>1. 0 \in Good /\ Good \in SUBSET (0 .. n)
    BY <1>1, <1>8 DEF CountsUpTo
  <2> HIDE DEF Good
  <2>2. 0 .. n \subseteq Good
    BY <1>1, <1>9, <2>1, Counting
  <2> QED BY <1>1, <2>2
<1> QED BY <1>1, <1>3, <1>10 DEF n

\* What lines give, up to the n-th.
Given(lines, n) ==
  FoldLeft(LAMBDA d, line : Relay!Reported(line, d), NoCounts, SubSeq(lines, 1, n))

\* Line by line.
LEMMA GivenIs ==
  ASSUME NEW lines \in Seq(Lines)
  PROVE  /\ Given(lines, 0) = NoCounts
         /\ \A n \in 1 .. Len(lines) : Given(lines, n) = Relay!Reported(lines[n], Given(lines, n - 1))
         /\ \A n \in 0 .. Len(lines) : Given(lines, n) \in Counts
<1>1. PICK c \in [0 .. Len(lines) -> Counts] : CountsUpTo(c, lines, Len(lines))
  BY CountsExist
<1>2. ASSUME NEW n \in 0 .. Len(lines) PROVE Given(lines, n) = c[n]
  <2> DEFINE front == SubSeq(lines, 1, n)
             d == [k \in 0 .. n |-> c[k]]
  <2>1. front \in Seq(Lines) /\ Len(front) = n /\ \A k \in 1 .. n : front[k] = lines[k]
    OBVIOUS
  <2>2. d \in [0 .. Len(front) -> Counts] /\ d[0] = NoCounts /\ d[n] = c[n]
    BY <1>1, <2>1 DEF CountsUpTo
  <2>3. ASSUME NEW k \in 1 .. n PROVE d[k] = Relay!Reported(front[k], d[k - 1])
    <3>1. k \in 1 .. Len(lines) /\ k \in 0 .. n /\ k - 1 \in 0 .. n
      OBVIOUS
    <3>2. d[k] = c[k] /\ d[k - 1] = c[k - 1] /\ front[k] = lines[k]
      BY <2>1, <3>1
    <3>3. c[k] = Relay!Reported(lines[k], c[k - 1])
      BY <1>1, <3>1 DEF CountsUpTo
    <3> QED BY <3>2, <3>3
  <2> HIDE DEF d, front
  <2>4. CountsUpTo(d, front, Len(front))
    BY <2>1, <2>2, <2>3 DEF CountsUpTo
  <2>5. FoldLeft(LAMBDA e, line : Relay!Reported(line, e), NoCounts, front) = d[Len(front)]
    BY <2>1, <2>2, <2>4, CountsFold
  <2> QED BY <2>1, <2>2, <2>5 DEF Given, front
<1>3. ASSUME NEW n \in 1 .. Len(lines)
      PROVE  Given(lines, n) = Relay!Reported(lines[n], Given(lines, n - 1))
  <2>1. n \in 0 .. Len(lines) /\ n - 1 \in 0 .. Len(lines)
    OBVIOUS
  <2> QED BY <1>1, <1>2, <2>1 DEF CountsUpTo
<1>4. 0 \in 0 .. Len(lines)
  OBVIOUS
<1> QED BY <1>1, <1>2, <1>3, <1>4 DEF CountsUpTo

\* Later lines do not change what earlier ones gave.
LEMMA GivenStays ==
  ASSUME NEW lines \in Seq(Lines), NEW more \in Seq(Lines), NEW n \in 0 .. Len(lines)
  PROVE  Given(lines \o more, n) = Given(lines, n)
<1>1. SubSeq(lines \o more, 1, n) = SubSeq(lines, 1, n)
  OBVIOUS
<1> QED BY <1>1 DEF Given

-----------------------------------------------------------------------------
\* Parts of lines.
Segments == [n : Nat, from : 1 .. 3, to : 1 .. 3]

\* What the native relay holds while it reads a piece.
Sniffs == [input : Relay!Tokens, output : Relay!Tokens, buffer : Seq(Segments)]

\* The cast leaves counts as they are.
LEMMA CastKeeps ==
  ASSUME NEW c \in Counts
  PROVE  Relay!AsU32(c.in) = c.in /\ Relay!AsU32(c.out) = c.out
<1>1. TokenModulus \in Nat \ {0}
  BY LinesAssumption DEF Relay!LinesSensible
<1>2. c.in \in 0 .. TokenModulus - 1 /\ c.out \in 0 .. TokenModulus - 1
  BY DEF Counts, Relay!Tokens
<1>3. \A n \in 0 .. TokenModulus - 1 : n % TokenModulus = n
  BY <1>1
<1> QED BY <1>2, <1>3 DEF Relay!AsU32

\* A segment keeps the types.
LEMMA SniffType ==
  ASSUME NEW lines \in Seq(Lines), NEW s \in Segments, s.n \in 1 .. Len(lines), NEW r \in Sniffs
  PROVE  Relay!SniffSegment(lines, s, r) \in Sniffs
<1>1. Append(r.buffer, s) \in Seq(Segments) /\ <<>> \in Seq(Segments)
  BY DEF Sniffs
<1>2. lines[s.n] \in Lines /\ [in |-> r.input, out |-> r.output] \in Counts
  BY DEF Sniffs, Counts
<1>3. Relay!Reported(lines[s.n], [in |-> r.input, out |-> r.output]) \in Counts
  BY <1>2, ReportedType
<1> DEFINE c == Relay!Reported(lines[s.n], [in |-> r.input, out |-> r.output])
<1>4. Relay!AsU32(c.in) = c.in /\ Relay!AsU32(c.out) = c.out
  BY <1>3, CastKeeps
<1> QED BY <1>1, <1>3, <1>4 DEF Relay!SniffSegment, Sniffs, Counts

\* A piece read by the native relay, and by the chat relay below.
SniffAll(lines, piece, start) == FoldLeft(LAMBDA r, s : Relay!SniffSegment(lines, s, r), start, piece)

\* Segment by segment.
SniffSteps(lines, piece, start) ==
  \E f \in [0 .. Len(piece) -> Sniffs] :
    /\ f[0] = start
    /\ \A k \in 1 .. Len(piece) : f[k] = Relay!SniffSegment(lines, piece[k], f[k - 1])
    /\ SniffAll(lines, piece, start) = f[Len(piece)]

LEMMA SniffFold ==
  ASSUME NEW lines \in Seq(Lines), NEW piece \in Seq(Segments),
         \A i \in 1 .. Len(piece) : piece[i].n \in 1 .. Len(lines),
         NEW start \in Sniffs
  PROVE  SniffSteps(lines, piece, start)
<1> DEFINE n == Len(piece)
           step == [k \in 1 .. n |-> [r \in Sniffs |-> Relay!SniffSegment(lines, piece[k], r)]]
           Body(h, s) == IF s = {} THEN start
                         ELSE Relay!SniffSegment(lines, piece[Max(s)], h[s \ {Max(s)}])
           IsIt(h) == h = [s \in SUBSET DOMAIN piece |-> Body(h, s)]
           it == CHOOSE h : IsIt(h)
<1>1. n \in Nat /\ DOMAIN piece = 1 .. n
  OBVIOUS
<1>2. \A k \in 1 .. n : \A r \in Sniffs : Relay!SniffSegment(lines, piece[k], r) \in Sniffs
  BY SniffType
<1>3. step \in [1 .. n -> [Sniffs -> Sniffs]]
  BY <1>2
<1>13. \A k \in 1 .. n : \A r \in Sniffs : step[k][r] = Relay!SniffSegment(lines, piece[k], r)
  OBVIOUS
<1>4. SniffAll(lines, piece, start) = it[DOMAIN piece]
  BY DEF SniffAll, FoldLeft, MapThenFoldSet
<1> HIDE DEF n, step
<1>5. PICK h \in [SUBSET (1 .. n) -> Sniffs] : IsFold(h, n, start, step)
  BY <1>1, <1>3, FoldExists
<1>6. ASSUME NEW s \in SUBSET (1 .. n), s # {}
      PROVE  h[s] = Relay!SniffSegment(lines, piece[Max(s)], h[s \ {Max(s)}])
  <2>1. Max(s) \in 1 .. n /\ s \ {Max(s)} \in SUBSET (1 .. n)
    BY <1>1, <1>6, FromTheEnd
  <2>2. h[s] = step[Max(s)][h[s \ {Max(s)}]]
    BY <1>5, <1>6 DEF IsFold
  <2>3. h[s \ {Max(s)}] \in Sniffs
    BY <1>5, <2>1
  <2> QED BY <1>13, <2>1, <2>2, <2>3
<1>7. IsIt(h)
  <2>1. \A s \in SUBSET DOMAIN piece : h[s] = Body(h, s)
    BY <1>1, <1>5, <1>6 DEF IsFold
  <2>2. h = [s \in SUBSET DOMAIN piece |-> h[s]]
    BY <1>1, <1>5
  <2> HIDE DEF Body
  <2> QED BY <2>1, <2>2
<1>8. IsIt(it)
  BY <1>7
<1> HIDE DEF it
<1>9. it[1 .. 0] = start
      /\ \A k \in 1 .. n : it[1 .. k] = Relay!SniffSegment(lines, piece[k], it[1 .. k - 1])
  <2>1. ASSUME NEW s \in SUBSET (1 .. n) PROVE it[s] = Body(it, s)
    <3> HIDE DEF Body
    <3> QED BY <1>1, <1>8
  <2>2. it[1 .. 0] = start
    BY <1>1, <2>1, UpTo
  <2>3. ASSUME NEW k \in 1 .. n PROVE it[1 .. k] = Relay!SniffSegment(lines, piece[k], it[1 .. k - 1])
    <3>1. /\ 1 .. k \in SUBSET (1 .. n) /\ 1 .. k # {}
          /\ Max(1 .. k) = k /\ (1 .. k) \ {k} = 1 .. k - 1
      BY <1>1, UpTo
    <3>2. it[1 .. k] = Body(it, 1 .. k)
      BY <2>1, <3>1
    <3> QED BY <3>1, <3>2
  <2> QED BY <2>2, <2>3
<1>10. FoldsUp(it, Sniffs, n, start, step)
  <2>1. it[{}] = start
    <3>1. 1 .. 0 = {}
      OBVIOUS
    <3> QED BY <1>9, <3>1
  <2> QED BY <1>13, <1>9, <2>1 DEF FoldsUp
<1>11. PICK f \in [0 .. n -> Sniffs] : IsTrace(f, n, start, step) /\ f[n] = it[1 .. n]
  BY <1>1, <1>3, <1>10, TraceOf
<1>12. ASSUME NEW k \in 1 .. n PROVE f[k] = Relay!SniffSegment(lines, piece[k], f[k - 1])
  <2>1. f[k - 1] \in Sniffs
    BY <1>1, <1>11
  <2>2. f[k] = step[k][f[k - 1]]
    BY <1>11 DEF IsTrace
  <2> QED BY <1>13, <2>1, <2>2
<1> QED BY <1>1, <1>4, <1>11, <1>12 DEF n, IsTrace, SniffSteps

\* What the chat relay has after some of a piece.
Relays == [input : Relay!Tokens, output : Relay!Tokens, shown : Seq(Segments), done : BOOLEAN]

\* A segment keeps the types.
LEMMA RelayType ==
  ASSUME NEW lines \in Seq(Lines), NEW s \in Segments, s.n \in 1 .. Len(lines), NEW r \in Relays
  PROVE  Relay!RelayLine(lines, s, r) \in Relays
<1>1. Append(r.shown, s) \in Seq(Segments) /\ Append(r.shown, Relay!Done) \in Seq(Segments)
  BY DEF Relays, Relay!Done, Relay!Segment, Segments
<1>2. lines[s.n] \in Lines /\ [in |-> r.input, out |-> r.output] \in Counts
  BY DEF Relays, Counts
<1>3. Relay!Reported(lines[s.n], [in |-> r.input, out |-> r.output]) \in Counts
  BY <1>2, ReportedType
<1> QED BY <1>1, <1>3 DEF Relay!RelayLine, Relays, Counts

\* A piece relayed by the chat relay.
RelayAll(lines, piece, start) == FoldLeft(LAMBDA r, s : Relay!RelayLine(lines, s, r), start, piece)

\* Segment by segment.
RelaySteps(lines, piece, start) ==
  \E f \in [0 .. Len(piece) -> Relays] :
    /\ f[0] = start
    /\ \A k \in 1 .. Len(piece) : f[k] = Relay!RelayLine(lines, piece[k], f[k - 1])
    /\ RelayAll(lines, piece, start) = f[Len(piece)]

LEMMA RelayFold ==
  ASSUME NEW lines \in Seq(Lines), NEW piece \in Seq(Segments),
         \A i \in 1 .. Len(piece) : piece[i].n \in 1 .. Len(lines),
         NEW start \in Relays
  PROVE  RelaySteps(lines, piece, start)
<1> DEFINE n == Len(piece)
           step == [k \in 1 .. n |-> [r \in Relays |-> Relay!RelayLine(lines, piece[k], r)]]
           Body(h, s) == IF s = {} THEN start
                         ELSE Relay!RelayLine(lines, piece[Max(s)], h[s \ {Max(s)}])
           IsIt(h) == h = [s \in SUBSET DOMAIN piece |-> Body(h, s)]
           it == CHOOSE h : IsIt(h)
<1>1. n \in Nat /\ DOMAIN piece = 1 .. n
  OBVIOUS
<1>2. \A k \in 1 .. n : \A r \in Relays : Relay!RelayLine(lines, piece[k], r) \in Relays
  BY RelayType
<1>3. step \in [1 .. n -> [Relays -> Relays]]
  BY <1>2
<1>13. \A k \in 1 .. n : \A r \in Relays : step[k][r] = Relay!RelayLine(lines, piece[k], r)
  OBVIOUS
<1>4. RelayAll(lines, piece, start) = it[DOMAIN piece]
  BY DEF RelayAll, FoldLeft, MapThenFoldSet
<1> HIDE DEF n, step
<1>5. PICK h \in [SUBSET (1 .. n) -> Relays] : IsFold(h, n, start, step)
  BY <1>1, <1>3, FoldExists
<1>6. ASSUME NEW s \in SUBSET (1 .. n), s # {}
      PROVE  h[s] = Relay!RelayLine(lines, piece[Max(s)], h[s \ {Max(s)}])
  <2>1. Max(s) \in 1 .. n /\ s \ {Max(s)} \in SUBSET (1 .. n)
    BY <1>1, <1>6, FromTheEnd
  <2>2. h[s] = step[Max(s)][h[s \ {Max(s)}]]
    BY <1>5, <1>6 DEF IsFold
  <2>3. h[s \ {Max(s)}] \in Relays
    BY <1>5, <2>1
  <2> QED BY <1>13, <2>1, <2>2, <2>3
<1>7. IsIt(h)
  <2>1. \A s \in SUBSET DOMAIN piece : h[s] = Body(h, s)
    BY <1>1, <1>5, <1>6 DEF IsFold
  <2>2. h = [s \in SUBSET DOMAIN piece |-> h[s]]
    BY <1>1, <1>5
  <2> HIDE DEF Body
  <2> QED BY <2>1, <2>2
<1>8. IsIt(it)
  BY <1>7
<1> HIDE DEF it
<1>9. it[1 .. 0] = start
      /\ \A k \in 1 .. n : it[1 .. k] = Relay!RelayLine(lines, piece[k], it[1 .. k - 1])
  <2>1. ASSUME NEW s \in SUBSET (1 .. n) PROVE it[s] = Body(it, s)
    <3> HIDE DEF Body
    <3> QED BY <1>1, <1>8
  <2>2. it[1 .. 0] = start
    BY <1>1, <2>1, UpTo
  <2>3. ASSUME NEW k \in 1 .. n PROVE it[1 .. k] = Relay!RelayLine(lines, piece[k], it[1 .. k - 1])
    <3>1. /\ 1 .. k \in SUBSET (1 .. n) /\ 1 .. k # {}
          /\ Max(1 .. k) = k /\ (1 .. k) \ {k} = 1 .. k - 1
      BY <1>1, UpTo
    <3>2. it[1 .. k] = Body(it, 1 .. k)
      BY <2>1, <3>1
    <3> QED BY <3>1, <3>2
  <2> QED BY <2>2, <2>3
<1>10. FoldsUp(it, Relays, n, start, step)
  <2>1. it[{}] = start
    <3>1. 1 .. 0 = {}
      OBVIOUS
    <3> QED BY <1>9, <3>1
  <2> QED BY <1>13, <1>9, <2>1 DEF FoldsUp
<1>11. PICK f \in [0 .. n -> Relays] : IsTrace(f, n, start, step) /\ f[n] = it[1 .. n]
  BY <1>1, <1>3, <1>10, TraceOf
<1>12. ASSUME NEW k \in 1 .. n PROVE f[k] = Relay!RelayLine(lines, piece[k], f[k - 1])
  <2>1. f[k - 1] \in Relays
    BY <1>1, <1>11
  <2>2. f[k] = step[k][f[k - 1]]
    BY <1>11 DEF IsTrace
  <2> QED BY <1>13, <2>1, <2>2
<1> QED BY <1>1, <1>4, <1>11, <1>12 DEF n, IsTrace, RelaySteps

\* The counts a relay has.
Tally(r) == [in |-> r.input, out |-> r.output]

\* Only usage lines report anything.
LEMMA ReportedNothing ==
  ASSUME NEW line \in Lines, line.kind # "usage", NEW c \in Counts
  PROVE  Relay!Reported(line, c) = c
BY LinesAssumption DEF LinesAssumption, Relay!LinesSensible, Counts, Relay!Reported

\* A segment that completes a line reads the line's counts, whether it was
\* begun in this piece or not.
LEMMA SniffOne ==
  ASSUME NEW lines \in Seq(Lines), NEW s \in Segments, s.n \in 1 .. Len(lines), NEW r \in Sniffs,
         Tally(r) = Given(lines, s.n - 1),
         IF r.buffer = <<>> THEN s.from = 1 ELSE r.buffer[1].from = 1
  PROVE  LET u == Relay!SniffSegment(lines, s, r)
         IN  IF s.to = 3 THEN u.buffer = <<>> /\ Tally(u) = Given(lines, s.n)
             ELSE u.buffer = Append(r.buffer, s) /\ Tally(u) = Tally(r)
<1> DEFINE held == Append(r.buffer, s)
<1>1. held[1].from = 1
  BY DEF Sniffs
<1>2. lines[s.n] \in Lines /\ Tally(r) \in Counts
  BY DEF Sniffs, Counts, Tally
<1>3. Given(lines, s.n) = Relay!Reported(lines[s.n], Tally(r))
  BY GivenIs
<1>4. Relay!Reported(lines[s.n], Tally(r)) \in Counts
  BY <1>2, ReportedType
<1>5. lines[s.n].kind # "usage" => Given(lines, s.n) = Tally(r)
  BY <1>2, <1>3, ReportedNothing
<1> DEFINE c == Relay!Reported(lines[s.n], Tally(r))
           u == Relay!SniffSegment(lines, s, r)
<1>9. Relay!AsU32(c.in) = c.in /\ Relay!AsU32(c.out) = c.out
  BY <1>4, CastKeeps
<1> HIDE DEF held
<1>6. u = IF s.to < 3
            THEN [r EXCEPT !.buffer = held]
            ELSE [buffer |-> <<>>,
                  input  |-> IF lines[s.n].kind = "usage" THEN c.in ELSE r.input,
                  output |-> IF lines[s.n].kind = "usage" THEN c.out ELSE r.output]
  BY <1>1, <1>9 DEF Relay!SniffSegment, held, Tally
<1> HIDE DEF c, u
<1>7. CASE s.to = 3
  <2>1. u.buffer = <<>>
    BY <1>6, <1>7
  <2>2. CASE lines[s.n].kind = "usage"
    <3>1. u.input = c.in /\ u.output = c.out
      BY <1>6, <1>7, <2>2
    <3> QED BY <2>1, <3>1, <1>3, <1>4, <1>7 DEF Tally, Counts, c, u
  <2>3. CASE lines[s.n].kind # "usage"
    <3>1. u.input = r.input /\ u.output = r.output
      BY <1>6, <1>7, <2>3
    <3> QED BY <2>1, <2>3, <3>1, <1>5, <1>7 DEF Tally, u
  <2> QED BY <2>2, <2>3
<1>8. CASE s.to # 3
  <2>1. s.to < 3
    BY <1>8 DEF Segments
  <2>2. u = [r EXCEPT !.buffer = held]
    BY <1>6, <2>1
  <2>3. u.buffer = held /\ u.input = r.input /\ u.output = r.output
    BY <2>2 DEF Sniffs
  <2> QED BY <1>8, <2>3 DEF Tally, u, held
<1> QED BY <1>7, <1>8

\* The segments of a piece: those of as many lines as it touches, whole but
\* for the first, if it was begun, and the last, if the piece ends in it.
IsPiece(piece, before, b, to) ==
  /\ piece \in Seq(Segments) /\ Len(piece) >= 1
  /\ \A i \in 1 .. Len(piece) :
       piece[i] = [n    |-> before + i,
                   from |-> IF i = 1 /\ b < 3 THEN b + 1 ELSE 1,
                   to   |-> IF i = Len(piece) THEN to ELSE 3]
  /\ Len(piece) = 1 /\ b < 3 => b < to

\* What Piece puts together is a piece.
LEMMA PieceIs ==
  ASSUME provided \in Seq(Lines), begun \in 1 .. 3, provided = <<>> => begun = 3,
         NEW count \in Nat, NEW to \in 1 .. 3, count = 0 => begun < to
  PROVE  /\ Relay!WholeLines \in 0 .. Len(provided)
         /\ IsPiece(Relay!Piece(count, to), Relay!WholeLines, begun, to)
         /\ Relay!WholeLines + Len(Relay!Piece(count, to)) = Len(provided) + count
<1> DEFINE first == Len(provided)
           last == first + count
           W == Relay!WholeLines
           p == Relay!Piece(count, to)
           whole == [i \in 1 .. count |->
                       Relay!Segment(first + i, 1, IF first + i = last THEN to ELSE 3)]
           head == Relay!Segment(first, begun + 1, IF count = 0 THEN to ELSE 3)
<1>1. first \in Nat /\ (begun < 3 => first >= 1)
  <2>1. first = 0 => provided = <<>>
    OBVIOUS
  <2> QED BY <2>1
<1>2. whole \in Seq(Segments) /\ Len(whole) = count
      /\ \A i \in 1 .. count :
           whole[i] = [n |-> first + i, from |-> 1, to |-> IF i = count THEN to ELSE 3]
  <2>1. ASSUME NEW i \in 1 .. count
        PROVE  /\ whole[i] = [n |-> first + i, from |-> 1, to |-> IF i = count THEN to ELSE 3]
               /\ whole[i] \in Segments
    <3>1. first + i = last <=> i = count
      BY <1>1
    <3> QED BY <1>1, <3>1 DEF Relay!Segment, Segments
  <2>2. whole \in [1 .. count -> Segments]
    BY <2>1
  <2> HIDE DEF whole
  <2> QED BY <2>1, <2>2
<1>5. whole \in Seq(Segments) /\ Len(whole) = count
  <2> HIDE DEF whole
  <2> QED BY <1>2
<1>3. CASE begun = 3
  <2>1. p = whole /\ W = first /\ count >= 1
    BY <1>2, <1>3 DEF Relay!Piece, Relay!WholeLines
  <2> HIDE DEF p, whole, W
  <2>5. Len(p) = count /\ p \in Seq(Segments)
    BY <1>5, <2>1
  <2>6. W \in 0 .. first /\ W + count = first + count /\ count >= 1
    <3> HIDE DEF first
    <3> QED BY <1>1, <2>1
  <2>2. W \in 0 .. Len(provided) /\ W + Len(p) = Len(provided) + count /\ p \in Seq(Segments)
        /\ Len(p) >= 1
    BY ONLY <2>5, <2>6 DEF first
  <2>3. \A i \in 1 .. Len(p) :
          p[i] = [n    |-> W + i,
                  from |-> IF i = 1 /\ begun < 3 THEN begun + 1 ELSE 1,
                  to   |-> IF i = Len(p) THEN to ELSE 3]
    BY <1>2, <1>3, <2>1
  <2>4. IsPiece(p, W, begun, to)
    BY <1>3, <2>2, <2>3 DEF IsPiece
  <2> QED BY <2>2, <2>4 DEF p, W
<1>4. CASE begun < 3
  <2>1. p = <<head>> \o whole /\ W = first - 1
    BY <1>4 DEF Relay!Piece, Relay!WholeLines
  <2>2. head \in Segments
        /\ head = [n |-> first, from |-> begun + 1, to |-> IF count = 0 THEN to ELSE 3]
    BY <1>1, <1>4 DEF Segments, Relay!Segment
  <2> HIDE DEF p, whole, W, head
  <2>3. p \in Seq(Segments) /\ Len(p) = count + 1 /\ p[1] = head
        /\ \A i \in 2 .. count + 1 : p[i] = whole[i - 1]
    BY <1>2, <2>1, <2>2
  <2>4. ASSUME NEW i \in 1 .. Len(p)
        PROVE  p[i] = [n    |-> W + i,
                       from |-> IF i = 1 /\ begun < 3 THEN begun + 1 ELSE 1,
                       to   |-> IF i = Len(p) THEN to ELSE 3]
    <3>1. CASE i = 1
      BY <1>1, <1>4, <2>1, <2>2, <2>3, <3>1
    <3>2. CASE i # 1
      <4>1. i \in 2 .. count + 1 /\ i - 1 \in 1 .. count
        BY <2>3, <3>2
      <4>2. p[i] = [n |-> first + (i - 1), from |-> 1, to |-> IF i - 1 = count THEN to ELSE 3]
        BY <1>2, <2>3, <4>1
      <4>3. first + (i - 1) = W + i /\ (i - 1 = count <=> i = Len(p))
        BY <1>1, <2>1, <2>3, <4>1
      <4> QED BY <3>2, <4>2, <4>3
    <3> QED BY <3>1, <3>2
  <2>5. Len(p) = 1 => begun < to
    <3>1. Len(p) = count + 1
      BY <2>3
    <3>2. count + 1 = 1 => count = 0
      OBVIOUS
    <3> QED BY <3>1, <3>2
  <2>7. Len(p) = count + 1
    BY <2>3
  <2>8. W \in 0 .. first /\ W + (count + 1) = first + count /\ count + 1 >= 1
    <3> HIDE DEF first
    <3> QED BY <1>1, <1>4, <2>1
  <2>6. W \in 0 .. Len(provided) /\ W + Len(p) = Len(provided) + count /\ Len(p) >= 1
    BY ONLY <2>7, <2>8 DEF first
  <2>9. IsPiece(p, W, begun, to)
    BY <2>3, <2>4, <2>5, <2>6 DEF IsPiece
  <2> QED BY <2>6, <2>9 DEF p, W
<1> QED BY <1>3, <1>4

\* The buffer holds what has arrived of the line begun, and nothing else.
HoldsRest(buf, before, b) ==
  IF b = 3 THEN buf = <<>>
  ELSE /\ buf # <<>> /\ buf[1].from = 1
       /\ \A i \in 1 .. Len(buf) : buf[i].n = before + 1 /\ buf[i].to <= b

\* A piece read by the native relay: the counts are those of the whole lines.
LEMMA SniffPiece ==
  ASSUME NEW lines \in Seq(Lines), NEW before \in Nat, NEW b \in 1 .. 3, NEW to \in 1 .. 3,
         NEW piece, IsPiece(piece, before, b, to), Len(lines) = before + Len(piece),
         NEW start \in Sniffs, Tally(start) = Given(lines, before), HoldsRest(start.buffer, before, b)
  PROVE  LET r == SniffAll(lines, piece, start)
             n == IF to = 3 THEN Len(lines) ELSE Len(lines) - 1
         IN  r \in Sniffs /\ Tally(r) = Given(lines, n) /\ HoldsRest(r.buffer, n, to)
<1> DEFINE p == Len(piece)
           r == SniffAll(lines, piece, start)
<1>1. piece \in Seq(Segments) /\ p \in Nat \ {0}
  BY DEF IsPiece
<1>2. ASSUME NEW i \in 1 .. p
      PROVE  piece[i] \in Segments /\ piece[i].n = before + i /\ before + i \in 1 .. Len(lines)
             /\ (i # 1 \/ b = 3 => piece[i].from = 1)
             /\ (i # p => piece[i].to = 3) /\ piece[p].to = to
  <2>1. piece[i] \in Segments /\ before + i \in 1 .. Len(lines) /\ p \in 1 .. Len(piece)
    BY <1>1
  <2>2. piece[i] = [n    |-> before + i,
                    from |-> IF i = 1 /\ b < 3 THEN b + 1 ELSE 1,
                    to   |-> IF i = p THEN to ELSE 3]
    BY DEF IsPiece
  <2>3. piece[p].to = to
    <3>1. piece[p] = [n    |-> before + p,
                      from |-> IF p = 1 /\ b < 3 THEN b + 1 ELSE 1,
                      to   |-> IF p = Len(piece) THEN to ELSE 3]
      BY <2>1 DEF IsPiece
    <3> QED BY <3>1
  <2> QED BY <2>1, <2>2, <2>3
<1>12. \A i \in 1 .. Len(piece) : piece[i].n \in 1 .. Len(lines)
  BY <1>2
<1>3. PICK f \in [0 .. p -> Sniffs] :
        /\ f[0] = start
        /\ \A k \in 1 .. p : f[k] = Relay!SniffSegment(lines, piece[k], f[k - 1])
        /\ r = f[p]
  <2>1. SniffSteps(lines, piece, start)
    BY <1>1, <1>12, SniffFold
  <2> QED BY <2>1 DEF SniffSteps
<1> HIDE DEF p, r
<1> DEFINE Good == {i \in 0 .. p - 1 : /\ Tally(f[i]) = Given(lines, before + i)
                                       /\ IF i = 0 THEN HoldsRest(f[i].buffer, before, b)
                                          ELSE f[i].buffer = <<>>}
\* what a segment finds, whether the line was begun or not
<1>4. ASSUME NEW i \in 1 .. p, i - 1 \in Good
      PROVE  LET s == piece[i] u == f[i] IN
             IF s.to = 3 THEN u.buffer = <<>> /\ Tally(u) = Given(lines, s.n)
             ELSE u.buffer = Append(f[i - 1].buffer, s) /\ Tally(u) = Tally(f[i - 1])
  <2>1. i - 1 \in 0 .. p /\ f[i - 1] \in Sniffs /\ (i - 1 = 0 <=> i = 1)
    BY <1>1, <1>3
  <2>2. Tally(f[i - 1]) = Given(lines, piece[i].n - 1)
    <3>1. before + (i - 1) = (before + i) - 1
      BY <1>1
    <3> QED BY <1>2, <1>4, <3>1
  <2>3. IF f[i - 1].buffer = <<>> THEN piece[i].from = 1 ELSE f[i - 1].buffer[1].from = 1
    <3>1. CASE i = 1
      BY <1>2, <1>4, <2>1, <3>1 DEF HoldsRest
    <3>2. CASE i # 1
      BY <1>2, <1>4, <2>1, <3>2
    <3> QED BY <3>1, <3>2
  <2>4. piece[i] \in Segments /\ piece[i].n \in 1 .. Len(lines)
    BY <1>2
  <2>5. LET u == Relay!SniffSegment(lines, piece[i], f[i - 1])
        IN  IF piece[i].to = 3 THEN u.buffer = <<>> /\ Tally(u) = Given(lines, piece[i].n)
            ELSE u.buffer = Append(f[i - 1].buffer, piece[i]) /\ Tally(u) = Tally(f[i - 1])
    BY <2>1, <2>2, <2>3, <2>4, SniffOne
  <2> QED BY <1>3, <2>5
<1>5. 0 .. p - 1 \subseteq Good
  <2>1. p - 1 \in Nat /\ 0 \in Good /\ Good \in SUBSET (0 .. p - 1)
    <3>1. before + 0 = before /\ 0 \in 0 .. p - 1
      BY <1>1
    <3> QED BY <1>1, <1>3, <3>1
  <2>2. ASSUME NEW k \in 0 .. (p - 1) - 1, k \in Good PROVE k + 1 \in Good
    <3>1. k + 1 \in 1 .. p /\ (k + 1) - 1 = k /\ k + 1 \in 0 .. p - 1 /\ k + 1 # p /\ k + 1 # 0
      BY <1>1
    <3>2. piece[k + 1].to = 3 /\ piece[k + 1].n = before + (k + 1)
      BY <1>2, <3>1
    <3> HIDE DEF Good
    <3>3. f[k + 1].buffer = <<>> /\ Tally(f[k + 1]) = Given(lines, before + (k + 1))
      BY <1>4, <2>2, <3>1, <3>2
    <3> QED BY <3>1, <3>3 DEF Good
  <2> HIDE DEF Good
  <2> QED BY <2>1, <2>2, Counting
<1>6. p \in 1 .. p /\ p - 1 \in 0 .. p - 1 /\ p - 1 \in 0 .. p /\ p \in 0 .. p /\ (p - 1 = 0 <=> p = 1)
      /\ before + p = Len(lines) /\ before + (p - 1) = Len(lines) - 1
  BY <1>1 DEF p
<1>7. p - 1 \in Good
  BY <1>5, <1>6
<1>8. IF to = 3 THEN r.buffer = <<>> /\ Tally(r) = Given(lines, Len(lines))
      ELSE r.buffer = Append(f[p - 1].buffer, piece[p]) /\ Tally(r) = Given(lines, Len(lines) - 1)
  <2> HIDE DEF Good
  <2>1. piece[p].n = Len(lines) /\ piece[p].to = to
    BY <1>2, <1>6
  <2>2. Tally(f[p - 1]) = Given(lines, Len(lines) - 1)
    BY <1>6, <1>7 DEF Good
  <2> QED BY <1>3, <1>4, <1>6, <1>7, <2>1, <2>2
<1>9. CASE to = 3
  BY <1>3, <1>6, <1>8, <1>9 DEF HoldsRest, r
<1>10. CASE to # 3
  <2> DEFINE old == f[p - 1].buffer
  <2>1. old \in Seq(Segments) /\ piece[p] \in Segments /\ piece[p].n = Len(lines) /\ piece[p].to = to
        /\ r.buffer = Append(old, piece[p])
    BY <1>2, <1>3, <1>6, <1>8, <1>10 DEF Sniffs
  <2>2. old = <<>> => piece[p].from = 1
    BY <1>2, <1>6, <1>7 DEF HoldsRest
  <2>3. old # <<>> => old[1].from = 1 /\ \A i \in 1 .. Len(old) : old[i].n = Len(lines) /\ old[i].to <= to
    <3> SUFFICES ASSUME old # <<>> PROVE old[1].from = 1 /\ \A i \in 1 .. Len(old) : old[i].n = Len(lines) /\ old[i].to <= to
      OBVIOUS
    <3>1. p = 1 /\ HoldsRest(old, before, b) /\ before + 1 = Len(lines)
      BY <1>6, <1>7
    <3>2. b < 3 /\ b < to
      BY <3>1 DEF HoldsRest, IsPiece, p
    <3> HIDE DEF old
    <3>3. ASSUME NEW i \in 1 .. Len(old) PROVE old[i].n = Len(lines) /\ old[i].to <= to
      <4>1. old[i] \in Segments
        BY <2>1
      <4>2. old[i].n = before + 1 /\ old[i].to <= b
        BY <3>1, <3>2 DEF HoldsRest
      <4>3. old[i].to \in Int
        BY <4>1 DEF Segments
      <4> QED BY <3>1, <3>2, <4>2, <4>3
    <3> QED BY <2>1, <3>1, <3>2, <3>3 DEF HoldsRest
  <2> HIDE DEF old
  <2>4. Append(old, piece[p]) # <<>> /\ Append(old, piece[p])[1].from = 1
        /\ \A i \in 1 .. Len(Append(old, piece[p])) :
             Append(old, piece[p])[i].n = Len(lines) /\ Append(old, piece[p])[i].to <= to
    BY <2>1, <2>2, <2>3
  <2>5. (Len(lines) - 1) + 1 = Len(lines)
    OBVIOUS
  <2>6. HoldsRest(r.buffer, Len(lines) - 1, to)
    BY <1>10, <2>1, <2>4, <2>5 DEF HoldsRest
  <2> QED BY <1>3, <1>6, <1>8, <1>10, <2>6 DEF r
<1> QED BY <1>9, <1>10 DEF r

-----------------------------------------------------------------------------
(* The chat relay. *)

\* Lines in their order and once each, none after the m-th, and [DONE] behind
\* them if the stream is done.
Shows(list, m, done) ==
  LET k == IF done THEN Len(list) - 1 ELSE Len(list)
  IN  /\ done => Len(list) >= 1 /\ list[Len(list)] = Relay!Done
      /\ \A i \in 1 .. k : list[i].n \in 1 .. m /\ list[i].from <= list[i].to
      /\ \A i, j \in 1 .. k : i < j => list[i].n < list[j].n

\* A segment keeps what is shown in order.
LEMMA RelayOneShows ==
  ASSUME NEW lines, NEW s \in Segments, s.from <= s.to, NEW r \in Relays, NEW m \in Nat,
         m <= s.n, s.from = 1 => m < s.n, Shows(r.shown, m, r.done)
  PROVE  LET u == Relay!RelayLine(lines, s, r) IN Shows(u.shown, s.n, u.done)
<1> DEFINE u == Relay!RelayLine(lines, s, r)
<1>1. r.shown \in Seq(Segments) /\ Len(r.shown) \in Nat /\ m \in Nat /\ s.n \in Nat
  BY DEF Relays, Segments
<1>2. Shows(r.shown, s.n, r.done)
  BY <1>1 DEF Shows, Relays
<1>3. CASE u.shown = r.shown /\ u.done = r.done
  BY <1>2, <1>3
<1>4. CASE u.shown = Append(r.shown, s) /\ ~r.done /\ ~u.done /\ s.from = 1
  <2>1. Len(u.shown) = Len(r.shown) + 1 /\ u.shown[Len(r.shown) + 1] = s
        /\ \A i \in 1 .. Len(r.shown) : u.shown[i] = r.shown[i]
    BY <1>1, <1>4
  <2>2. \A i \in 1 .. Len(r.shown) : r.shown[i].n \in 1 .. m /\ r.shown[i].from <= r.shown[i].to
    BY <1>4 DEF Shows
  <2>3. \A i, j \in 1 .. Len(r.shown) : i < j => r.shown[i].n < r.shown[j].n
    BY <1>4 DEF Shows
  <2>4. s.n \in 1 .. s.n /\ m < s.n
    BY <1>1, <1>4
  <2>5. ASSUME NEW i \in 1 .. Len(r.shown) + 1
        PROVE  u.shown[i].n \in 1 .. s.n /\ u.shown[i].from <= u.shown[i].to
    <3>1. CASE i = Len(r.shown) + 1
      BY <2>1, <2>4, <3>1
    <3>2. CASE i # Len(r.shown) + 1
      <4>1. i \in 1 .. Len(r.shown)
        BY <1>1, <3>2
      <4> QED BY <1>1, <2>1, <2>2, <2>4, <4>1
    <3> QED BY <3>1, <3>2
  <2>6. ASSUME NEW i \in 1 .. Len(r.shown) + 1, NEW j \in 1 .. Len(r.shown) + 1, i < j
        PROVE  u.shown[i].n < u.shown[j].n
    <3>1. i \in 1 .. Len(r.shown)
      BY <1>1, <2>6
    <3>2. CASE j = Len(r.shown) + 1
      <4>1. u.shown[i] = r.shown[i] /\ u.shown[j] = s /\ r.shown[i].n \in 1 .. m
        BY <2>1, <2>2, <3>1, <3>2
      <4> QED BY <1>1, <2>4, <4>1
    <3>3. CASE j # Len(r.shown) + 1
      <4>1. j \in 1 .. Len(r.shown)
        BY <1>1, <3>3
      <4> QED BY <2>1, <2>3, <2>6, <3>1, <4>1
    <3> QED BY <3>2, <3>3
  <2> HIDE DEF u
  <2> QED BY <1>4, <2>1, <2>5, <2>6 DEF Shows, u
<1>5. CASE u.shown = Append(r.shown, Relay!Done) /\ ~r.done /\ u.done
  <2>1. Len(u.shown) = Len(r.shown) + 1 /\ u.shown[Len(r.shown) + 1] = Relay!Done
        /\ \A i \in 1 .. Len(r.shown) : u.shown[i] = r.shown[i]
    BY <1>1, <1>5
  <2>2. Len(u.shown) - 1 = Len(r.shown) /\ Len(u.shown) >= 1
    BY <1>1, <2>1
  <2> HIDE DEF u
  <2> QED BY <1>2, <1>5, <2>1, <2>2 DEF Shows, u
<1>6. r.done \in BOOLEAN /\ (s.from = 1 \/ s.from > 1)
  BY DEF Relays, Segments
<1>7. \/ u = r
      \/ u = [r EXCEPT !.shown = Append(@, s)] /\ ~r.done /\ ~ (s.from > 1)
      \/ u = [r EXCEPT !.done = TRUE, !.shown = Append(@, Relay!Done)] /\ ~r.done
      \/ \E a, b : u = [r EXCEPT !.shown = Append(@, s), !.input = a, !.output = b] /\ ~r.done /\ ~ (s.from > 1)
  BY DEF Relay!RelayLine
<1> HIDE DEF u
<1> QED BY <1>3, <1>4, <1>5, <1>6, <1>7 DEF Relays, u

\* The number of lines before the first [DONE] among the first m.
Ends(lines, m) == {n \in 1 .. m : lines[n].kind = "done"}
Before(lines, m) == IF Ends(lines, m) = {} THEN m ELSE Min(Ends(lines, m)) - 1

\* The next line is before the first [DONE], is it, or comes after.
LEMMA BeforeIs ==
  ASSUME NEW lines, NEW m \in Nat
  PROVE  /\ Before(lines, m) \in 0 .. m
         /\ \A n \in 1 .. Before(lines, m) : lines[n].kind # "done"
         /\ Ends(lines, m) # {} => Before(lines, m + 1) = Before(lines, m)
         /\ Ends(lines, m) = {} /\ lines[m + 1].kind = "done" => Before(lines, m + 1) = m
         /\ Ends(lines, m) = {} /\ lines[m + 1].kind # "done" => Before(lines, m + 1) = m + 1
<1>1. Ends(lines, m + 1) = Ends(lines, m) \cup (IF lines[m + 1].kind = "done" THEN {m + 1} ELSE {})
  BY DEF Ends
<1>2. ASSUME NEW S \in SUBSET Nat, S # {}
      PROVE  Min(S) \in S /\ \A x \in S : Min(S) <= x
  BY <1>2, LeastOf DEF Min
<1>3. ASSUME Ends(lines, m) # {}
      PROVE  /\ Min(Ends(lines, m)) \in 1 .. m /\ lines[Min(Ends(lines, m))].kind = "done"
             /\ \A n \in 1 .. Min(Ends(lines, m)) - 1 : lines[n].kind # "done"
             /\ Min(Ends(lines, m + 1)) = Min(Ends(lines, m))
  <2> DEFINE a == Min(Ends(lines, m))
             b == Min(Ends(lines, m + 1))
  <2>1. Ends(lines, m) \in SUBSET Nat /\ Ends(lines, m + 1) \in SUBSET Nat /\ Ends(lines, m + 1) # {}
    BY <1>1, <1>3 DEF Ends
  <2>2. a \in Ends(lines, m) /\ \A x \in Ends(lines, m) : a <= x
    BY <1>2, <1>3, <2>1
  <2>3. b \in Ends(lines, m + 1) /\ \A x \in Ends(lines, m + 1) : b <= x
    BY <1>2, <2>1
  <2> HIDE DEF a, b
  <2>4. a \in 1 .. m /\ lines[a].kind = "done"
    BY <2>2 DEF Ends
  <2>5. ASSUME NEW n \in 1 .. a - 1 PROVE lines[n].kind # "done"
    <3>1. n \in 1 .. m /\ ~ (a <= n)
      BY <2>4
    <3> QED BY <2>2, <3>1 DEF Ends
  <2>6. b <= a /\ b \in Nat
    BY <1>1, <2>1, <2>2, <2>3
  <2>7. b \in Ends(lines, m)
    BY <2>3, <2>4, <2>6 DEF Ends
  <2>8. a = b
    BY <2>2, <2>4, <2>6, <2>7
  <2> QED BY <2>4, <2>5, <2>8 DEF a, b
<1>4. ASSUME Ends(lines, m) = {}
      PROVE  \A n \in 1 .. m : lines[n].kind # "done"
  BY <1>4 DEF Ends
<1>5. Ends(lines, m) = {} /\ lines[m + 1].kind = "done" => Min(Ends(lines, m + 1)) = m + 1
  <2> SUFFICES ASSUME Ends(lines, m) = {}, lines[m + 1].kind = "done"
               PROVE  Min(Ends(lines, m + 1)) = m + 1
    OBVIOUS
  <2>1. Ends(lines, m + 1) = {m + 1}
    BY <1>1
  <2>2. Min(Ends(lines, m + 1)) \in Ends(lines, m + 1)
    BY <1>2, <2>1
  <2> QED BY <2>1, <2>2
<1>6. Ends(lines, m + 1) = {} <=> Ends(lines, m) = {} /\ lines[m + 1].kind # "done"
  BY <1>1
<1>7. CASE Ends(lines, m) = {}
  BY <1>4, <1>5, <1>6, <1>7 DEF Before
<1>8. CASE Ends(lines, m) # {}
  BY <1>3, <1>6, <1>8 DEF Before
<1> QED BY <1>7, <1>8

\* What whole lines are relayed to.
Exact(lines, m, r) ==
  /\ r.done <=> Ends(lines, m) # {}
  /\ Tally(r) = Given(lines, Before(lines, m))
  /\ {s.n : s \in Range(r.shown)} \ {0} = {n \in 1 .. Before(lines, m) : lines[n].kind # "other"}

\* A whole line keeps what is relayed exact.
LEMMA RelayOneExact ==
  ASSUME NEW lines \in Seq(Lines), NEW m \in Nat, m + 1 <= Len(lines), NEW r \in Relays,
         Exact(lines, m, r), NEW s \in Segments, s.n = m + 1, s.from = 1, s.to = 3
  PROVE  Exact(lines, m + 1, Relay!RelayLine(lines, s, r))
<1> DEFINE u == Relay!RelayLine(lines, s, r)
           shownOf(q) == {t.n : t \in Range(q.shown)}
<1>1. m + 1 \in 1 .. Len(lines) /\ (m + 1) - 1 = m /\ lines[m + 1] \in Lines
  OBVIOUS
<1>2. Given(lines, m + 1) = Relay!Reported(lines[m + 1], Given(lines, m)) /\ Given(lines, m) \in Counts
  <2>1. m \in 0 .. Len(lines)
    BY <1>1
  <2> QED BY <1>1, <2>1, GivenIs
<1>3. Ends(lines, m + 1) # {} <=> Ends(lines, m) # {} \/ lines[m + 1].kind = "done"
  BY DEF Ends
<1>4. r.shown \in Seq(Segments) /\ r.done \in BOOLEAN
  BY DEF Relays
<1>5. ASSUME NEW t \in Segments, NEW list, list = Append(r.shown, t)
      PROVE  {x.n : x \in Range(list)} = shownOf(r) \cup {t.n}
  <2>1. Range(list) = Range(r.shown) \cup {t}
    <3>1. Len(list) = Len(r.shown) + 1 /\ list \in Seq(Segments) /\ list[Len(r.shown) + 1] = t
          /\ \A i \in 1 .. Len(r.shown) : list[i] = r.shown[i]
      BY <1>4, <1>5
    <3>2. DOMAIN list = 1 .. Len(r.shown) \cup {Len(r.shown) + 1} /\ DOMAIN r.shown = 1 .. Len(r.shown)
      <4>1. /\ DOMAIN list = 1 .. Len(list) /\ DOMAIN r.shown = 1 .. Len(r.shown)
            /\ Len(r.shown) \in Nat
        BY <1>4, <3>1, LenProperties
      <4>2. 1 .. Len(r.shown) + 1 = 1 .. Len(r.shown) \cup {Len(r.shown) + 1}
        BY <4>1
      <4> QED BY <3>1, <4>1, <4>2
    <3> QED BY <3>1, <3>2 DEF Range
  <2> QED BY <2>1
<1>6. CASE Ends(lines, m) # {}
  <2>1. u = r
    BY <1>6 DEF Exact, Relay!RelayLine
  <2>2. Before(lines, m + 1) = Before(lines, m)
    BY <1>6, BeforeIs
  <2> QED BY <1>3, <1>6, <2>1, <2>2 DEF Exact
<1>7. CASE Ends(lines, m) = {} /\ lines[m + 1].kind = "done"
  <2>1. Before(lines, m + 1) = m /\ Before(lines, m) = m
    BY <1>7, BeforeIs DEF Before
  <2>2. u = [r EXCEPT !.done = TRUE, !.shown = Append(@, Relay!Done)]
    BY <1>7 DEF Exact, Relay!RelayLine
  <2>3. u.done /\ u.shown = Append(r.shown, Relay!Done) /\ Tally(u) = Tally(r)
    BY <2>2 DEF Relays, Tally
  <2>4. Relay!Done \in Segments /\ Relay!Done.n = 0
    BY DEF Relay!Done, Relay!Segment, Segments
  <2> HIDE DEF u
  <2>5. shownOf(u) = shownOf(r) \cup {0}
    BY <1>5, <2>3, <2>4
  <2> QED BY <1>3, <1>7, <2>1, <2>3, <2>5 DEF Exact, u
<1>8. CASE Ends(lines, m) = {} /\ lines[m + 1].kind # "done"
  <2>1. Before(lines, m + 1) = m + 1 /\ Before(lines, m) = m /\ ~r.done /\ Tally(r) = Given(lines, m)
    BY <1>8, BeforeIs DEF Before, Exact
  <2>2. shownOf(r) \ {0} = {n \in 1 .. m : lines[n].kind # "other"}
    BY <2>1 DEF Exact
  <2>3. CASE lines[m + 1].kind = "other"
    <3>1. u = r
      BY <2>3 DEF Relay!RelayLine
    <3>2. Given(lines, m + 1) = Given(lines, m)
      BY <1>1, <1>2, <2>3, ReportedNothing
    <3>3. {n \in 1 .. m + 1 : lines[n].kind # "other"} = {n \in 1 .. m : lines[n].kind # "other"}
      BY <2>3
    <3> QED BY <1>3, <1>8, <2>1, <2>2, <3>1, <3>2, <3>3 DEF Exact
  <2>4. CASE lines[m + 1].kind # "other"
    <3> DEFINE c == Relay!Reported(lines[m + 1], Tally(r))
    <3>1. u = [r EXCEPT !.shown = Append(@, s), !.input = c.in, !.output = c.out]
      BY <1>8, <2>1, <2>4 DEF Relay!RelayLine, Tally
    <3>2. c \in Counts /\ c = Given(lines, m + 1)
      BY <1>1, <1>2, <2>1, ReportedType
    <3> HIDE DEF c
    <3>3. u.shown = Append(r.shown, s) /\ u.done = r.done /\ Tally(u) = c
      BY <3>1, <3>2 DEF Relays, Tally, Counts
    <3> HIDE DEF u
    <3>4. shownOf(u) = shownOf(r) \cup {m + 1}
      BY <1>5, <3>3
    <3>5. {n \in 1 .. m + 1 : lines[n].kind # "other"} = {n \in 1 .. m : lines[n].kind # "other"} \cup {m + 1}
      BY <2>4
    <3>6. shownOf(u) \ {0} = (shownOf(r) \ {0}) \cup {m + 1}
      <4>1. m + 1 # 0
        OBVIOUS
      <4> HIDE DEF shownOf
      <4> QED BY <3>4, <4>1
    <3> QED BY <1>3, <1>8, <2>1, <2>2, <3>2, <3>3, <3>5, <3>6 DEF Exact, u
  <2> QED BY <2>3, <2>4
<1> QED BY <1>6, <1>7, <1>8

\* The segments of a piece, part by part.
LEMMA PieceOrdered ==
  ASSUME NEW before \in Nat, NEW b \in 1 .. 3, NEW to \in 1 .. 3, NEW piece, IsPiece(piece, before, b, to)
  PROVE  \A i \in 1 .. Len(piece) :
           /\ piece[i].n = before + i
           /\ piece[i].from = IF i = 1 /\ b < 3 THEN b + 1 ELSE 1
           /\ piece[i].to = IF i = Len(piece) THEN to ELSE 3
           /\ piece[i].from <= piece[i].to
<1> SUFFICES ASSUME NEW i \in 1 .. Len(piece)
             PROVE  /\ piece[i].n = before + i
                    /\ piece[i].from = IF i = 1 /\ b < 3 THEN b + 1 ELSE 1
                    /\ piece[i].to = IF i = Len(piece) THEN to ELSE 3
                    /\ piece[i].from <= piece[i].to
  OBVIOUS
<1>1. /\ piece[i].n = before + i
      /\ piece[i].from = IF i = 1 /\ b < 3 THEN b + 1 ELSE 1
      /\ piece[i].to = IF i = Len(piece) THEN to ELSE 3
  <2>1. piece[i] = [n    |-> before + i,
                    from |-> IF i = 1 /\ b < 3 THEN b + 1 ELSE 1,
                    to   |-> IF i = Len(piece) THEN to ELSE 3]
    BY DEF IsPiece
  <2> QED BY <2>1
<1>2. piece[i].from <= piece[i].to
  <2>1. CASE i = 1 /\ b < 3
    <3>1. b < (IF i = Len(piece) THEN to ELSE 3)
      BY <2>1 DEF IsPiece
    <3>2. piece[i].from = b + 1 /\ piece[i].to = IF i = Len(piece) THEN to ELSE 3
      BY <1>1, <2>1
    <3> QED BY <3>1, <3>2
  <2>2. CASE ~ (i = 1 /\ b < 3)
    BY <1>1, <2>2
  <2> QED BY <2>1, <2>2
<1> QED BY <1>1, <1>2

\* A piece passed on by the chat relay: in order whatever it is, and exact if
\* it is of whole lines.
LEMMA RelayPieceIs ==
  ASSUME NEW lines \in Seq(Lines), NEW before \in Nat, NEW b \in 1 .. 3, NEW to \in 1 .. 3,
         NEW piece, IsPiece(piece, before, b, to), Len(lines) = before + Len(piece),
         NEW start \in Relays, Shows(start.shown, IF b < 3 THEN before + 1 ELSE before, start.done)
  PROVE  LET r == RelayAll(lines, piece, start)
         IN  /\ r \in Relays /\ Shows(r.shown, Len(lines), r.done)
             /\ b = 3 /\ to = 3 /\ Exact(lines, before, start) => Exact(lines, Len(lines), r)
<1> DEFINE p == Len(piece)
           r == RelayAll(lines, piece, start)
           upTo(i) == IF i = 0 /\ b < 3 THEN before + 1 ELSE before + i
<1>1. piece \in Seq(Segments) /\ p \in Nat \ {0} /\ before + p = Len(lines)
  BY DEF IsPiece
<1>2. ASSUME NEW i \in 1 .. p
      PROVE  /\ piece[i] \in Segments /\ before + i \in 1 .. Len(lines)
             /\ piece[i].n = before + i
             /\ piece[i].from = IF i = 1 /\ b < 3 THEN b + 1 ELSE 1
             /\ piece[i].to = IF i = p THEN to ELSE 3
             /\ piece[i].from <= piece[i].to
  BY <1>1, PieceOrdered
<1>3. \A i \in 1 .. Len(piece) : piece[i].n \in 1 .. Len(lines)
  BY <1>2
<1>4. PICK f \in [0 .. p -> Relays] :
        /\ f[0] = start
        /\ \A k \in 1 .. p : f[k] = Relay!RelayLine(lines, piece[k], f[k - 1])
        /\ r = f[p]
  <2>1. RelaySteps(lines, piece, start)
    BY <1>1, <1>3, RelayFold
  <2> QED BY <2>1 DEF RelaySteps
<1> HIDE DEF p, r
<1> DEFINE InOrder == {i \in 0 .. p : Shows(f[i].shown, upTo(i), f[i].done)}
<1>6. 0 .. p \subseteq InOrder
  <2>1. InOrder \in SUBSET (0 .. p) /\ p \in Nat
    BY <1>1
  <2>2. 0 \in InOrder
    <3>1. 0 \in 0 .. p /\ before + 0 = before
      BY <1>1
    <3> QED BY <1>4, <3>1
  <2>3. ASSUME NEW k \in 0 .. p - 1, k \in InOrder PROVE k + 1 \in InOrder
    <3>1. k + 1 \in 1 .. p /\ (k + 1) - 1 = k /\ k + 1 \in 0 .. p /\ k \in 0 .. p /\ k + 1 # 0
      BY <1>1
    <3>2. f[k] \in Relays /\ f[k + 1] = Relay!RelayLine(lines, piece[k + 1], f[k])
      BY <1>4, <3>1
    <3>3. upTo(k) \in Nat /\ upTo(k) <= before + (k + 1)
          /\ (piece[k + 1].from = 1 => upTo(k) < before + (k + 1))
      <4>1. piece[k + 1].from = IF k + 1 = 1 /\ b < 3 THEN b + 1 ELSE 1
        BY <1>2, <3>1
      <4>2. k = 0 <=> k + 1 = 1
        BY <3>1
      <4> QED BY <1>1, <4>1, <4>2
    <3>4. piece[k + 1] \in Segments /\ piece[k + 1].n = before + (k + 1)
          /\ piece[k + 1].from <= piece[k + 1].to
      BY <1>2, <3>1
    <3>5. Shows(f[k].shown, upTo(k), f[k].done)
      BY <2>3
    <3> HIDE DEF upTo
    <3>6. Shows(f[k + 1].shown, before + (k + 1), f[k + 1].done)
      BY <3>2, <3>3, <3>4, <3>5, RelayOneShows
    <3> QED BY <3>1, <3>6 DEF upTo
  <2> HIDE DEF InOrder
  <2> QED BY <2>1, <2>2, <2>3, Counting
<1>7. p \in 0 .. p /\ p # 0
  BY <1>1 DEF p
<1>8. Shows(r.shown, Len(lines), r.done) /\ r \in Relays
  BY <1>1, <1>4, <1>6, <1>7 DEF p
<1>9. ASSUME b = 3, to = 3, Exact(lines, before, start) PROVE Exact(lines, Len(lines), r)
  <2> DEFINE Good == {i \in 0 .. p : Exact(lines, before + i, f[i])}
  <2>1. Good \in SUBSET (0 .. p) /\ p \in Nat
    BY <1>1 DEF p
  <2>2. 0 \in Good
    <3>1. 0 \in 0 .. p /\ before + 0 = before
      BY <2>1
    <3> QED BY <1>4, <1>9, <3>1
  <2>3. ASSUME NEW k \in 0 .. p - 1, k \in Good PROVE k + 1 \in Good
    <3>1. k + 1 \in 1 .. p /\ (k + 1) - 1 = k /\ k + 1 \in 0 .. p /\ k \in 0 .. p
          /\ (before + k) + 1 = before + (k + 1) /\ before + k \in Nat
      BY <2>1
    <3>2. f[k] \in Relays /\ f[k + 1] = Relay!RelayLine(lines, piece[k + 1], f[k])
      BY <1>4, <3>1
    <3>3. piece[k + 1] \in Segments /\ piece[k + 1].n = (before + k) + 1
          /\ piece[k + 1].from = 1 /\ piece[k + 1].to = 3 /\ (before + k) + 1 <= Len(lines)
      BY <1>2, <1>9, <3>1
    <3>4. Exact(lines, before + k, f[k])
      BY <2>3
    <3>5. Exact(lines, (before + k) + 1, f[k + 1])
      BY <3>1, <3>2, <3>3, <3>4, RelayOneExact
    <3> QED BY <3>1, <3>5
  <2>4. 0 .. p \subseteq Good
    <3> HIDE DEF Good
    <3> QED BY <2>1, <2>2, <2>3, Counting
  <2> QED BY <1>1, <1>4, <1>7, <2>4 DEF p
<1> QED BY <1>8, <1>9 DEF r

-----------------------------------------------------------------------------
(* The relays' state. *)

\* Each byte after the one before, and all that has arrived.
Joins(one, next) ==
  \/ next.n = one.n /\ next.from = one.to + 1
  \/ next.n = one.n + 1 /\ next.from = 1 /\ one.to = 3
Unbroken(list) ==
  \A i \in 1 .. Len(list) : Joins(IF i = 1 THEN Relay!Segment(0, 1, 3) ELSE list[i - 1], list[i])
UpToDate(list, n, b) ==
  IF n = 0 THEN list = <<>> ELSE Len(list) >= 1 /\ list[Len(list)].n = n /\ list[Len(list)].to = b
Ordered(list, n) == \A i \in 1 .. Len(list) : list[i].n \in 1 .. n /\ list[i].from <= list[i].to

RelayTypes ==
  /\ provided \in Seq(Lines) /\ begun \in 1 .. 3 /\ cut \in BOOLEAN
  /\ provided = <<>> => begun = 3
  /\ ~cut => begun = 3
  /\ mode \in {"chat", "native"} /\ relaying \in {"relaying", "closed"}
  /\ in_tok \in Relay!Tokens /\ out_tok \in Relay!Tokens
  /\ line_buf \in Seq(Segments) /\ relayed \in Seq(Segments)
  /\ reported = IF relaying = "closed" THEN [in |-> in_tok, out |-> out_tok] ELSE NotSent

ChatInv ==
  /\ line_buf = <<>>
  /\ \E done \in BOOLEAN :
       /\ Shows(relayed, Len(provided), done)
       /\ relaying = "relaying" => ~done
       /\ ~cut => Exact(provided, Len(provided),
                        [input |-> in_tok, output |-> out_tok, shown |-> relayed, done |-> done])

NativeInv ==
  /\ HoldsRest(line_buf, Relay!WholeLines, begun)
  /\ [in |-> in_tok, out |-> out_tok] = Given(provided, Relay!WholeLines)
  /\ Unbroken(relayed) /\ UpToDate(relayed, Len(provided), begun) /\ Ordered(relayed, Len(provided))

RelayInv ==
  /\ RelayTypes
  /\ mode = "chat" => ChatInv
  /\ mode = "native" => NativeInv

\* A stream begins exact.
LEMMA InitRelayInv == Relay!Init => RelayInv
<1> SUFFICES ASSUME Relay!Init PROVE RelayInv
  OBVIOUS
<1>1. <<>> \in Seq(Lines) /\ <<>> \in Seq(Segments) /\ Len(<<>>) = 0
  OBVIOUS
<1>2. RelayTypes
  <2>1. provided \in Seq(Lines) /\ line_buf \in Seq(Segments) /\ relayed \in Seq(Segments)
    BY <1>1, Zenon DEF Relay!Init
  <2>2. /\ begun = 3 /\ begun \in 1 .. 3 /\ mode \in {"chat", "native"}
        /\ relaying \in {"relaying", "closed"} /\ in_tok \in Relay!Tokens /\ out_tok \in Relay!Tokens
    BY NoCountsTyped DEF Relay!Init
  <2>4. cut \in BOOLEAN
    BY Zenon DEF Relay!Init
  <2>3. reported = IF relaying = "closed" THEN [in |-> in_tok, out |-> out_tok] ELSE NotSent
    BY DEF Relay!Init
  <2> QED BY <2>1, <2>2, <2>3, <2>4 DEF RelayTypes
<1>3. provided = <<>> /\ relayed = <<>> /\ line_buf = <<>> /\ in_tok = 0 /\ out_tok = 0 /\ begun = 3
      /\ relaying = "relaying"
  BY DEF Relay!Init
<1>4. Given(provided, 0) = NoCounts
  <2>1. provided \in Seq(Lines)
    BY <1>2 DEF RelayTypes
  <2> QED BY <2>1, GivenIs
<1>5. Ends(provided, 0) = {} /\ Before(provided, 0) = 0
  BY DEF Ends, Before
<1>6. ChatInv
  <2>1. Shows(relayed, Len(provided), FALSE)
    BY <1>1, <1>3 DEF Shows
  <2> DEFINE now == [input |-> in_tok, output |-> out_tok, shown |-> relayed, done |-> FALSE]
  <2>2. now.done = FALSE /\ now.shown = <<>> /\ Tally(now) = NoCounts
    BY <1>3 DEF Tally, NoCounts
  <2> HIDE DEF now
  <2>3. {s.n : s \in Range(now.shown)} \ {0} = {n \in 1 .. 0 : provided[n].kind # "other"}
    BY <2>2 DEF Range
  <2>4. Exact(provided, Len(provided), now)
    BY <1>1, <1>3, <1>4, <1>5, <2>2, <2>3 DEF Exact
  <2> QED BY <1>3, <2>1, <2>4 DEF ChatInv, now
<1>7. NativeInv
  <2>1. Relay!WholeLines = 0
    BY <1>1, <1>3 DEF Relay!WholeLines
  <2> QED BY <1>1, <1>3, <1>4, <2>1
          DEF NativeInv, HoldsRest, NoCounts, Unbroken, UpToDate, Ordered
<1> QED BY <1>2, <1>6, <1>7 DEF RelayInv

\* What Receive is given.
LEMMA ReceiveIs ==
  ASSUME RelayTypes, NEW more \in SeqOf(Lines, MaxPiece), NEW to \in 1 .. 3, Relay!Receive(more, to)
  PROVE  /\ more \in Seq(Lines) /\ provided' = provided \o more /\ provided' \in Seq(Lines)
         /\ Len(provided') = Len(provided) + Len(more)
         /\ \A n \in 1 .. Len(provided) : provided'[n] = provided[n]
         /\ begun' = to /\ relaying = "relaying" /\ mode' = mode
         /\ Relay!WholeLines \in 0 .. Len(provided)
         /\ Relay!WholeLines = (IF begun < 3 THEN Len(provided) - 1 ELSE Len(provided))
         /\ IsPiece(Relay!Piece(Len(more), to), Relay!WholeLines, begun, to)
         /\ Relay!WholeLines + Len(Relay!Piece(Len(more), to)) = Len(provided')
         /\ (provided' # <<>>) /\ cut' = (cut \/ to < 3)
<1>1. more \in Seq(Lines)
  <2>1. PICK m \in 0 .. MaxPiece : more \in [1 .. m -> Lines]
    BY DEF SeqOf
  <2> QED BY <2>1, BoundAssumption DEF BoundAssumption
<1>2. provided' = provided \o more /\ begun' = to /\ relaying = "relaying" /\ mode' = mode
      /\ (more = <<>> => begun < to) /\ cut' = (cut \/ to < 3)
  BY DEF Relay!Receive
<1>3. provided' \in Seq(Lines) /\ Len(provided') = Len(provided) + Len(more)
      /\ \A n \in 1 .. Len(provided) : provided'[n] = provided[n]
  BY <1>1, <1>2 DEF RelayTypes
<1>4. Len(more) \in Nat /\ (Len(more) = 0 => begun < to)
  BY <1>1, <1>2
<1>5. /\ Relay!WholeLines \in 0 .. Len(provided)
      /\ IsPiece(Relay!Piece(Len(more), to), Relay!WholeLines, begun, to)
      /\ Relay!WholeLines + Len(Relay!Piece(Len(more), to)) = Len(provided) + Len(more)
  BY <1>4, PieceIs DEF RelayTypes
<1>6. Relay!WholeLines = (IF begun < 3 THEN Len(provided) - 1 ELSE Len(provided))
  BY DEF RelayTypes, Relay!WholeLines
<1>7. provided' # <<>>
  <2>1. Len(provided') > 0
    BY <1>3, <1>5 DEF IsPiece
  <2> QED BY <2>1
<1> QED BY <1>1, <1>2, <1>3, <1>5, <1>6, <1>7

\* The model's folds are those read above.
LEMMA LastReportedIs ==
  ASSUME NEW n
  PROVE  Relay!LastReported(n) = Given(provided, n)
BY DEF Relay!LastReported, Given, NoCounts, FoldLeft, MapThenFoldSet, Relay!FoldLeft, Relay!MapThenFoldSet,
       Max, Relay!Max

LEMMA SniffedIs ==
  ASSUME NEW lines, NEW piece
  PROVE  Relay!Sniffed(lines, piece) = SniffAll(lines, piece, Relay!Sniffing(line_buf))
BY DEF Relay!Sniffed, SniffAll, FoldLeft, MapThenFoldSet, Relay!FoldLeft, Relay!MapThenFoldSet,
       Max, Relay!Max

LEMMA RelayedIs ==
  ASSUME NEW lines, NEW piece
  PROVE  Relay!Relayed(lines, piece) =
           IF Relay!NotUtf8(lines, piece) THEN Relay!Relaying ELSE RelayAll(lines, piece, Relay!Relaying)
BY DEF Relay!Relayed, RelayAll, FoldLeft, MapThenFoldSet, Relay!FoldLeft, Relay!MapThenFoldSet,
       Max, Relay!Max

\* The end of the body reports what was counted.
LEMMA EndOfBodyKeeps ==
  ASSUME RelayInv, Relay!EndOfBody
  PROVE  RelayInv'
<1>1. RelayTypes'
  BY DEF RelayInv, RelayTypes, Relay!EndOfBody
<1>2. UNCHANGED <<mode, in_tok, out_tok, line_buf, relayed, provided, begun, cut>>
      /\ relaying' = "closed" /\ relaying = "relaying"
  BY DEF Relay!EndOfBody
<1>3. mode = "chat" => ChatInv'
  BY <1>2 DEF RelayInv, ChatInv
<1>4. mode = "native" => NativeInv'
  BY <1>2 DEF RelayInv, NativeInv, Relay!WholeLines
<1> QED BY <1>1, <1>2, <1>3, <1>4 DEF RelayInv

\* Nothing else touches the relays.
LEMMA RelayStutterKeeps ==
  ASSUME RelayInv, UNCHANGED relay_vars
  PROVE  RelayInv'
BY DEF RelayInv, RelayTypes, ChatInv, NativeInv, Relay!WholeLines, relay_vars

\* A piece on the native endpoint, however it is cut.
LEMMA NativeReceiveKeeps ==
  ASSUME RelayInv, NEW more \in SeqOf(Lines, MaxPiece), NEW to \in 1 .. 3,
         Relay!Receive(more, to), mode = "native"
  PROVE  RelayInv'
<1> DEFINE lines == provided \o more
           piece == Relay!Piece(Len(more), to)
           before == Relay!WholeLines
           start == Relay!Sniffing(line_buf)
           r == SniffAll(lines, piece, start)
           n == IF to = 3 THEN Len(lines) ELSE Len(lines) - 1
<1>1. RelayTypes /\ NativeInv
  BY DEF RelayInv
<1>2. /\ more \in Seq(Lines) /\ provided' = lines /\ lines \in Seq(Lines)
      /\ Len(lines) = Len(provided) + Len(more)
      /\ begun' = to /\ relaying = "relaying" /\ mode' = mode
      /\ before \in 0 .. Len(provided)
      /\ before = (IF begun < 3 THEN Len(provided) - 1 ELSE Len(provided))
      /\ IsPiece(piece, before, begun, to) /\ before + Len(piece) = Len(lines)
      /\ lines # <<>> /\ cut' = (cut \/ to < 3)
  BY <1>1, ReceiveIs
<1>3. /\ in_tok' = r.input /\ out_tok' = r.output /\ line_buf' = r.buffer
      /\ relayed' = relayed \o piece /\ UNCHANGED <<relaying, reported>>
  BY SniffedIs DEF Relay!Receive, Relay!PassOn
<1>4. start \in Sniffs /\ start.buffer = line_buf /\ Tally(start) = [in |-> in_tok, out |-> out_tok]
  BY <1>1 DEF Relay!Sniffing, Sniffs, RelayTypes, Tally
<1>5. Given(lines, before) = Given(provided, before)
  BY <1>1, <1>2, GivenStays DEF RelayTypes
<1> HIDE DEF lines, piece, before, start
<1>6. r \in Sniffs /\ Tally(r) = Given(lines, n) /\ HoldsRest(r.buffer, n, to)
  <2>1. before \in Nat /\ begun \in 1 .. 3 /\ Len(lines) = before + Len(piece)
    BY <1>1, <1>2 DEF RelayTypes
  <2>2. Tally(start) = Given(lines, before) /\ HoldsRest(start.buffer, before, begun)
    BY <1>1, <1>4, <1>5 DEF NativeInv, before
  <2> QED BY <1>2, <1>4, <2>1, <2>2, SniffPiece
<1> HIDE DEF r, n
<1>7. Relay!WholeLines' = n
  BY <1>2 DEF Relay!WholeLines, n
<1>8. HoldsRest(line_buf, Relay!WholeLines, begun)'
      /\ ([in |-> in_tok, out |-> out_tok] = Given(provided, Relay!WholeLines))'
  BY <1>2, <1>3, <1>6, <1>7 DEF Tally
<1>9. \A i \in 1 .. Len(piece) :
        /\ piece[i].n = before + i
        /\ piece[i].from = IF i = 1 /\ begun < 3 THEN begun + 1 ELSE 1
        /\ piece[i].to = IF i = Len(piece) THEN to ELSE 3
        /\ piece[i].from <= piece[i].to
  <2>1. before \in Nat /\ begun \in 1 .. 3
    BY <1>1, <1>2 DEF RelayTypes
  <2> QED BY <1>2, <2>1, PieceOrdered
<1> DEFINE k == Len(relayed)
           list == relayed \o piece
<1>10. /\ piece \in Seq(Segments) /\ relayed \in Seq(Segments) /\ Len(piece) \in Nat \ {0} /\ k \in Nat
       /\ list \in Seq(Segments) /\ Len(list) = k + Len(piece)
       /\ \A i \in 1 .. k : list[i] = relayed[i]
       /\ \A i \in 1 .. Len(piece) : list[k + i] = piece[i]
  BY <1>1, <1>2 DEF RelayTypes, IsPiece
<1> HIDE DEF list, k
<1>11. Unbroken(list)
  <2> SUFFICES ASSUME NEW i \in 1 .. Len(list)
               PROVE  Joins(IF i = 1 THEN Relay!Segment(0, 1, 3) ELSE list[i - 1], list[i])
    BY DEF Unbroken
  <2>1. CASE i \in 1 .. k
    <3>1. list[i] = relayed[i] /\ (i # 1 => list[i - 1] = relayed[i - 1])
      BY <1>10, <2>1
    <3> QED BY <1>1, <2>1, <3>1 DEF NativeInv, Unbroken, k
  <2>2. CASE i = k + 1
    <3>1. list[i] = piece[1] /\ 1 \in 1 .. Len(piece)
      BY <1>10, <2>2
    <3>2. piece[1].n = before + 1 /\ piece[1].from = IF begun < 3 THEN begun + 1 ELSE 1
      BY <1>9, <3>1
    <3>3. CASE k = 0
      <4>1. Len(provided) = 0 /\ begun = 3
        <5>1. Len(provided) # 0 => k >= 1
          BY <1>1 DEF NativeInv, UpToDate, k
        <5> QED BY <1>1, <3>3, <5>1 DEF RelayTypes
      <4> QED BY <1>2, <2>2, <3>1, <3>2, <3>3, <4>1 DEF Joins, Relay!Segment
    <3>4. CASE k # 0
      <4>1. list[i - 1] = relayed[k] /\ i # 1
        <5>1. i - 1 = k /\ k \in 1 .. k
          BY <1>10, <2>2, <3>4
        <5> QED BY <1>10, <2>2, <3>4, <5>1
      <4>2. relayed[k].n = Len(provided) /\ relayed[k].to = begun
        BY <1>1, <1>10, <3>4 DEF NativeInv, UpToDate, k
      <4>3. begun \in 1 .. 3 /\ Len(provided) \in Nat
        BY <1>1 DEF RelayTypes
      <4>4. (IF i = 1 THEN Relay!Segment(0, 1, 3) ELSE list[i - 1]) = relayed[k]
        BY <4>1
      <4>5. Joins(relayed[k], piece[1])
        <5>1. CASE begun < 3
          <6>1. piece[1].n = Len(provided) /\ piece[1].from = begun + 1
            BY <1>2, <3>2, <4>3, <5>1
          <6> QED BY <4>2, <6>1 DEF Joins
        <5>2. CASE begun = 3
          <6>1. piece[1].n = Len(provided) + 1 /\ piece[1].from = 1
            BY <1>2, <3>2, <4>3, <5>2
          <6> QED BY <4>2, <5>2, <6>1 DEF Joins
        <5> QED BY <4>3, <5>1, <5>2
      <4> QED BY <3>1, <4>4, <4>5
    <3> QED BY <3>3, <3>4
  <2>3. CASE i \notin 1 .. k + 1
    <3> DEFINE j == i - k
    <3>1. j \in 2 .. Len(piece) /\ i = k + j /\ i - 1 = k + (j - 1) /\ j - 1 \in 1 .. Len(piece)
          /\ i # 1
      BY <1>10, <2>3
    <3>2. list[i] = piece[j] /\ list[i - 1] = piece[j - 1]
      BY <1>10, <3>1
    <3>3. piece[j].n = before + j /\ piece[j].from = 1
      BY <1>9, <3>1
    <3>4. piece[j - 1].n = before + (j - 1) /\ piece[j - 1].to = 3
      <4>1. j - 1 # Len(piece)
        BY <1>10, <3>1
      <4> QED BY <1>9, <3>1, <4>1
    <3> HIDE DEF j
    <3> QED BY <1>2, <3>1, <3>2, <3>3, <3>4 DEF Joins
  <2> QED BY <1>10, <2>1, <2>2, <2>3
<1>12. UpToDate(list, Len(lines), to)
  <2>1. list[Len(list)] = piece[Len(piece)] /\ Len(list) >= 1
    BY <1>10
  <2>2. piece[Len(piece)].n = Len(lines) /\ piece[Len(piece)].to = to /\ Len(lines) # 0
    BY <1>2, <1>9, <1>10
  <2> QED BY <2>1, <2>2 DEF UpToDate
<1>13. Ordered(list, Len(lines))
  <2> SUFFICES ASSUME NEW i \in 1 .. Len(list)
               PROVE  list[i].n \in 1 .. Len(lines) /\ list[i].from <= list[i].to
    BY DEF Ordered
  <2>1. CASE i \in 1 .. k
    <3>1. list[i] = relayed[i] /\ relayed[i].n \in 1 .. Len(provided)
          /\ relayed[i].from <= relayed[i].to
      BY <1>1, <1>10, <2>1 DEF NativeInv, Ordered, k
    <3> QED BY <1>2, <3>1
  <2>2. CASE i \notin 1 .. k
    <3> DEFINE j == i - k
    <3>1. j \in 1 .. Len(piece) /\ list[i] = piece[j]
      <4>1. j \in 1 .. Len(piece) /\ i = k + j
        BY <1>10, <2>2
      <4> QED BY <1>10, <4>1
    <3> HIDE DEF j
    <3>2. piece[j].n = before + j /\ piece[j].from <= piece[j].to /\ before \in Nat
          /\ before + Len(piece) = Len(lines) /\ Len(piece) \in Nat
      BY <1>2, <1>9, <1>10, <3>1
    <3>3. before + j \in 1 .. Len(lines)
      BY <3>1, <3>2
    <3> QED BY <3>1, <3>2, <3>3
  <2> QED BY <2>1, <2>2
<1>14. RelayTypes'
  <2>1. provided' \in Seq(Lines) /\ begun' \in 1 .. 3 /\ provided' # <<>> /\ mode' = mode
    BY <1>2
  <2>2. cut' \in BOOLEAN /\ (~cut' => begun' = 3)
    <3>1. cut' = (cut \/ to < 3) /\ begun' = to
      BY <1>2
    <3>2. ~cut' => ~ (to < 3)
      BY <3>1
    <3>3. cut' \in BOOLEAN
      BY <3>1, Zenon
    <3> QED BY <3>1, <3>2, <3>3
  <2>3. in_tok' \in Relay!Tokens /\ out_tok' \in Relay!Tokens /\ line_buf' \in Seq(Segments)
    BY <1>3, <1>6 DEF Sniffs
  <2>4. relayed' \in Seq(Segments)
    BY <1>3, <1>10 DEF list
  <2>5. relaying' = "relaying" /\ reported' = NotSent
    BY <1>1, <1>2, <1>3 DEF RelayTypes
  <2> QED BY <1>1, <2>1, <2>2, <2>3, <2>4, <2>5 DEF RelayTypes
<1>15. NativeInv'
  BY <1>2, <1>3, <1>8, <1>11, <1>12, <1>13 DEF NativeInv, list
<1>16. mode' = "native"
  BY <1>2
<1> QED BY <1>14, <1>15, <1>16 DEF RelayInv

\* Later lines do not change what was exact.
LEMMA ExactStays ==
  ASSUME NEW lines \in Seq(Lines), NEW more \in Seq(Lines), NEW r,
         Exact(lines, Len(lines), r)
  PROVE  Exact(lines \o more, Len(lines), r)
<1> DEFINE all == lines \o more
           m == Len(lines)
<1>1. m \in Nat /\ \A n \in 1 .. m : all[n] = lines[n]
  OBVIOUS
<1>2. Ends(all, m) = Ends(lines, m)
  BY <1>1 DEF Ends
<1>3. Before(all, m) = Before(lines, m)
  BY <1>2 DEF Before
<1>4. Before(lines, m) \in 0 .. m
  BY <1>1, BeforeIs
<1>5. Given(all, Before(lines, m)) = Given(lines, Before(lines, m))
  BY <1>4, GivenStays
<1>6. {n \in 1 .. Before(lines, m) : all[n].kind # "other"}
        = {n \in 1 .. Before(lines, m) : lines[n].kind # "other"}
  <2>1. \A n \in 1 .. Before(lines, m) : n \in 1 .. m
    BY <1>1, <1>4
  <2> QED BY <1>1, <2>1
<1> HIDE DEF all, m
<1> QED BY <1>2, <1>3, <1>5, <1>6 DEF Exact, all, m

\* A piece on the chat endpoint.
LEMMA ChatReceiveKeeps ==
  ASSUME RelayInv, NEW more \in SeqOf(Lines, MaxPiece), NEW to \in 1 .. 3,
         Relay!Receive(more, to), mode = "chat"
  PROVE  RelayInv'
<1> DEFINE lines == provided \o more
           piece == Relay!Piece(Len(more), to)
           before == Relay!WholeLines
           start == Relay!Relaying
           all == RelayAll(lines, piece, start)
           r == Relay!Relayed(lines, piece)
<1>1. RelayTypes /\ ChatInv
  BY DEF RelayInv
<1>2. /\ more \in Seq(Lines) /\ provided' = lines /\ lines \in Seq(Lines)
      /\ Len(lines) = Len(provided) + Len(more)
      /\ begun' = to /\ relaying = "relaying" /\ mode' = mode
      /\ before \in 0 .. Len(provided)
      /\ before = (IF begun < 3 THEN Len(provided) - 1 ELSE Len(provided))
      /\ IsPiece(piece, before, begun, to) /\ before + Len(piece) = Len(lines)
      /\ lines # <<>> /\ cut' = (cut \/ to < 3)
  BY <1>1, ReceiveIs
<1>3. /\ in_tok' = r.input /\ out_tok' = r.output /\ relayed' = r.shown
      /\ relaying' = (IF r.done THEN "closed" ELSE relaying)
      /\ reported' = (IF r.done THEN [in |-> r.input, out |-> r.output] ELSE reported)
      /\ line_buf' = line_buf
  BY DEF Relay!Receive, Relay!RelayPiece
<1>4. start = [input |-> in_tok, output |-> out_tok, shown |-> relayed, done |-> FALSE]
      /\ start \in Relays /\ start.shown = relayed /\ start.done = FALSE
  BY <1>1 DEF Relay!Relaying, Relays, RelayTypes
<1>5. r = IF Relay!NotUtf8(lines, piece) THEN start ELSE all
  BY RelayedIs
<1>6. /\ Shows(relayed, Len(provided), FALSE)
      /\ ~cut => Exact(provided, Len(provided), start)
  <2>1. PICK done \in BOOLEAN :
          /\ Shows(relayed, Len(provided), done)
          /\ relaying = "relaying" => ~done
          /\ ~cut => Exact(provided, Len(provided),
                           [input |-> in_tok, output |-> out_tok, shown |-> relayed, done |-> done])
    BY <1>1 DEF ChatInv
  <2>2. done = FALSE
    BY <1>2, <2>1
  <2> QED BY <1>4, <2>1, <2>2
<1>7. ~cut => Exact(lines, Len(provided), start)
  BY <1>1, <1>2, <1>6, ExactStays DEF RelayTypes
<1>20. begun \in 1 .. 3 /\ (~cut => begun = 3) /\ Len(provided) \in Nat /\ line_buf = <<>>
       /\ provided \in Seq(Lines) /\ mode \in {"chat", "native"}
       /\ reported = IF relaying = "closed" THEN [in |-> in_tok, out |-> out_tok] ELSE NotSent
  BY <1>1 DEF RelayTypes, ChatInv
<1> HIDE DEF lines, piece, before, start, all, r
<1>8. /\ all \in Relays /\ Shows(all.shown, Len(lines), all.done)
      /\ begun = 3 /\ to = 3 /\ Exact(lines, before, start) => Exact(lines, Len(lines), all)
  <2>1. before \in Nat /\ Len(lines) = before + Len(piece)
    BY <1>2, <1>20
  <2>2. (IF begun < 3 THEN before + 1 ELSE before) = Len(provided)
    BY <1>2, <1>20
  <2>3. Shows(start.shown, IF begun < 3 THEN before + 1 ELSE before, start.done)
    BY <1>4, <1>6, <2>2
  <2> QED BY <1>2, <1>4, <1>20, <2>1, <2>3, RelayPieceIs DEF all
<1>9. ASSUME ~cut' PROVE r = all /\ begun = 3 /\ to = 3
  <2>1. ~cut /\ ~ (to < 3)
    BY <1>2, <1>9
  <2>2. begun = 3 /\ to = 3
    BY <1>20, <2>1
  <2>3. ~ Relay!NotUtf8(lines, piece)
    <3>1. \A i \in 1 .. Len(piece) : piece[i].from = 1 /\ piece[i].to = 3
      <4>1. before \in Nat
        BY <1>2, <1>20
      <4>2. \A i \in 1 .. Len(piece) :
              /\ piece[i].n = before + i
              /\ piece[i].from = IF i = 1 /\ begun < 3 THEN begun + 1 ELSE 1
              /\ piece[i].to = IF i = Len(piece) THEN to ELSE 3
              /\ piece[i].from <= piece[i].to
        BY <1>2, <1>20, <4>1, PieceOrdered
      <4> QED BY <2>2, <4>2
    <3>2. DOMAIN piece = 1 .. Len(piece)
      BY <1>2 DEF IsPiece
    <3> QED BY <3>1, <3>2 DEF Relay!NotUtf8, Relay!Range
  <2> QED BY <1>5, <2>2, <2>3
<1>10. r \in Relays /\ Shows(r.shown, Len(lines), r.done)
  <2>1. CASE r = all
    BY <1>8, <2>1
  <2>2. CASE r = start
    <3>1. Shows(start.shown, Len(lines), start.done)
      <4>1. Len(provided) <= Len(lines) /\ Len(lines) \in Nat /\ Len(relayed) \in Nat
        BY <1>1, <1>2, <1>20 DEF RelayTypes
      <4>2. Shows(start.shown, Len(provided), start.done)
        BY <1>4, <1>6
      <4> QED BY <1>4, <1>20, <4>1, <4>2 DEF Shows
    <3> QED BY <1>4, <2>2, <3>1
  <2> QED BY <1>5, <2>1, <2>2
<1>11. ASSUME ~cut' PROVE Exact(lines, Len(lines), r)
  <2>1. r = all /\ begun = 3 /\ to = 3 /\ ~cut
    BY <1>2, <1>9, <1>11
  <2>2. before = Len(provided)
    BY <1>2, <2>1
  <2> QED BY <1>7, <1>8, <2>1, <2>2
<1>12. r.done \in BOOLEAN /\ r.input \in Relay!Tokens /\ r.output \in Relay!Tokens
       /\ r.shown \in Seq(Segments)
       /\ r = [input |-> r.input, output |-> r.output, shown |-> r.shown, done |-> r.done]
  BY <1>10 DEF Relays
<1>13. ChatInv'
  <2>1. Shows(relayed', Len(provided'), r.done)
    BY <1>2, <1>3, <1>10
  <2>2. relaying' = "relaying" => ~r.done
    BY <1>3
  <2>3. ~cut' => Exact(provided', Len(provided'),
                  [input |-> in_tok', output |-> out_tok', shown |-> relayed', done |-> r.done])
    BY <1>2, <1>3, <1>11, <1>12
  <2> QED BY <1>3, <1>12, <1>20, <2>1, <2>2, <2>3 DEF ChatInv
<1>14. RelayTypes'
  <2>1. provided' \in Seq(Lines) /\ begun' \in 1 .. 3 /\ provided' # <<>> /\ mode' = mode
    BY <1>2
  <2>2. cut' \in BOOLEAN /\ (~cut' => begun' = 3)
    <3>1. cut' = (cut \/ to < 3) /\ begun' = to
      BY <1>2
    <3>2. ~cut' => ~ (to < 3)
      BY <3>1
    <3>3. cut' \in BOOLEAN
      BY <3>1, Zenon
    <3> QED BY <3>1, <3>2, <3>3
  <2>3. in_tok' \in Relay!Tokens /\ out_tok' \in Relay!Tokens /\ line_buf' \in Seq(Segments) /\ relayed' \in Seq(Segments)
    BY <1>1, <1>3, <1>12 DEF RelayTypes
  <2>4. relaying' \in {"relaying", "closed"}
        /\ reported' = IF relaying' = "closed" THEN [in |-> in_tok', out |-> out_tok'] ELSE NotSent
    BY <1>2, <1>3, <1>20
  <2> QED BY <1>20, <2>1, <2>2, <2>3, <2>4 DEF RelayTypes
<1>15. mode' = "chat"
  BY <1>2
<1> QED BY <1>13, <1>14, <1>15 DEF RelayInv

\* Every step of the relays.
LEMMA RelayNextKeeps ==
  ASSUME RelayInv, Relay!Next
  PROVE  RelayInv'
<1>1. CASE Relay!EndOfBody
  BY <1>1, EndOfBodyKeeps
<1>2. ASSUME NEW more \in SeqOf(Lines, MaxPiece), NEW to \in 1 .. 3, Relay!Receive(more, to)
      PROVE  RelayInv'
  <2>1. mode \in {"chat", "native"}
    BY DEF RelayInv, RelayTypes
  <2> QED BY <1>2, <2>1, ChatReceiveKeeps, NativeReceiveKeeps
<1>3. Relay!SeqOf(Lines, MaxPiece) = SeqOf(Lines, MaxPiece)
  BY DEF Relay!SeqOf, SeqOf
<1> QED BY <1>1, <1>2, <1>3 DEF Relay!Next

\* What the relays' properties say follows.
LEMMA RelayInvTypes == RelayInv => Relay!TypeOK
<1> SUFFICES ASSUME RelayInv PROVE Relay!TypeOK
  OBVIOUS
<1>1. RelayTypes
  BY DEF RelayInv
<1>2. ASSUME NEW s \in Relay!Range(line_buf) PROVE s.n = Len(provided) /\ s.to <= begun /\ begun < 3
  <2>1. PICK i \in 1 .. Len(line_buf) : s = line_buf[i]
    BY <1>1, <1>2 DEF Relay!Range, RelayTypes
  <2>2. mode = "native" /\ NativeInv
    BY <1>1, <2>1 DEF RelayInv, RelayTypes, ChatInv
  <2>3. begun # 3 /\ s.n = Relay!WholeLines + 1 /\ s.to <= begun
    BY <2>1, <2>2 DEF NativeInv, HoldsRest
  <2> QED BY <1>1, <2>3 DEF Relay!WholeLines, RelayTypes
<1>3. ASSUME NEW s \in Relay!Range(relayed) PROVE s.n \in 0 .. Len(provided) /\ s.from <= s.to
  <2>1. PICK i \in 1 .. Len(relayed) : s = relayed[i]
    BY <1>1, <1>3 DEF Relay!Range, RelayTypes
  <2>2. Len(provided) \in Nat /\ Len(relayed) \in Nat
    BY <1>1 DEF RelayTypes
  <2>3. CASE mode = "native"
    BY <2>1, <2>2, <2>3 DEF RelayInv, NativeInv, Ordered
  <2>4. CASE mode = "chat"
    <3>1. PICK done \in BOOLEAN : Shows(relayed, Len(provided), done)
      BY <2>4 DEF RelayInv, ChatInv
    <3>2. s = Relay!Done => s.n = 0 /\ s.from <= s.to
      BY DEF Relay!Done, Relay!Segment
    <3> QED BY <2>1, <2>2, <3>1, <3>2 DEF Shows
  <2> QED BY <1>1, <2>3, <2>4 DEF RelayTypes
<1>4. reported \in {NotSent} \cup [in : Relay!Tokens, out : Relay!Tokens] /\ begun \in 1 .. 3
      /\ mode \in {"chat", "native"} /\ relaying \in {"relaying", "closed"}
      /\ in_tok \in Relay!Tokens /\ out_tok \in Relay!Tokens /\ cut \in BOOLEAN
  BY <1>1 DEF RelayTypes
<1> QED BY <1>2, <1>3, <1>4 DEF Relay!TypeOK

LEMMA RelayInvNative == RelayInv => Relay!NativeExact
<1> SUFFICES ASSUME RelayInv, mode = "native" PROVE Relay!NativeExact
  BY DEF Relay!NativeExact
<1>1. RelayTypes /\ NativeInv
  BY DEF RelayInv
<1>2. [in |-> in_tok, out |-> out_tok] = Relay!LastReported(Relay!WholeLines)
  BY <1>1, LastReportedIs DEF NativeInv
<1>3. reported = IF relaying = "closed" THEN Relay!LastReported(Relay!WholeLines) ELSE NotSent
  BY <1>1, <1>2 DEF RelayTypes
<1>4. ASSUME NEW i \in 1 .. Len(relayed)
      PROVE  LET one == IF i = 1 THEN Relay!Segment(0, 1, 3) ELSE relayed[i - 1]
             IN  \/ relayed[i].n = one.n /\ relayed[i].from = one.to + 1
                 \/ relayed[i].n = one.n + 1 /\ relayed[i].from = 1 /\ one.to = 3
  <2>1. Joins(IF i = 1 THEN Relay!Segment(0, 1, 3) ELSE relayed[i - 1], relayed[i])
    BY <1>1 DEF NativeInv, Unbroken
  <2> QED BY <2>1 DEF Joins
<1>5. provided # <<>> => Last(relayed).n = Len(provided) /\ Last(relayed).to = begun
  <2>1. provided # <<>> => Len(provided) # 0
    BY <1>1 DEF RelayTypes
  <2> QED BY <1>1, <2>1 DEF NativeInv, UpToDate, Last
<1>6. Relay!Last(relayed) = Last(relayed)
  BY DEF Relay!Last, Last
<1> QED BY <1>2, <1>3, <1>4, <1>5, <1>6 DEF Relay!NativeExact

LEMMA RelayInvChat == RelayInv => Relay!ExactUnlessCut /\ Relay!InOrderUntilDone
<1> SUFFICES ASSUME RelayInv, mode = "chat" PROVE Relay!ExactUnlessCut /\ Relay!InOrderUntilDone
  BY DEF Relay!ExactUnlessCut, Relay!InOrderUntilDone
<1>1. RelayTypes /\ Len(provided) \in Nat /\ Len(relayed) \in Nat
  BY DEF RelayInv, RelayTypes
<1>2. PICK done \in BOOLEAN :
        /\ Shows(relayed, Len(provided), done)
        /\ relaying = "relaying" => ~done
        /\ ~cut => Exact(provided, Len(provided),
                         [input |-> in_tok, output |-> out_tok, shown |-> relayed, done |-> done])
  BY DEF RelayInv, ChatInv
<1>3. Relay!InOrderUntilDone
  <2>1. ASSUME NEW i \in 1 .. Len(relayed), NEW j \in 1 .. Len(relayed), i < j
        PROVE  relayed[i] # Relay!Done /\ (relayed[j] = Relay!Done \/ relayed[i].n < relayed[j].n)
    <3> DEFINE k == IF done THEN Len(relayed) - 1 ELSE Len(relayed)
    <3>1. i \in 1 .. k /\ (j \in 1 .. k \/ (done /\ j = Len(relayed)))
      BY <1>1, <2>1
    <3>2. relayed[i].n \in 1 .. Len(provided)
      BY <1>2, <3>1 DEF Shows
    <3>3. relayed[i] # Relay!Done
      BY <3>2 DEF Relay!Done, Relay!Segment
    <3>4. CASE done /\ j = Len(relayed)
      BY <1>2, <3>3, <3>4 DEF Shows
    <3>5. CASE j \in 1 .. k
      BY <1>2, <2>1, <3>1, <3>3, <3>5 DEF Shows
    <3> QED BY <3>1, <3>4, <3>5
  <2> QED BY <2>1 DEF Relay!InOrderUntilDone
<1>4. Relay!BeforeDone = Before(provided, Len(provided))
  BY DEF Relay!BeforeDone, Before, Ends, Relay!Min, Min
<1>5. ASSUME ~cut PROVE Relay!ExactUnlessCut
  <2> DEFINE now == [input |-> in_tok, output |-> out_tok, shown |-> relayed, done |-> done]
             ends == Before(provided, Len(provided))
  <2>1. Exact(provided, Len(provided), now) /\ now.shown = relayed /\ now.done = done
        /\ Tally(now) = [in |-> in_tok, out |-> out_tok]
    BY <1>2, <1>5 DEF Tally
  <2>2. {s.n : s \in Relay!Range(relayed)} \ {0} = {n \in 1 .. ends : provided[n].kind # "other"}
    BY <2>1 DEF Exact, Range, Relay!Range
  <2>3. [in |-> in_tok, out |-> out_tok] = Relay!LastReported(ends)
    BY <2>1, LastReportedIs DEF Exact
  <2>4. reported = IF relaying = "closed" THEN Relay!LastReported(ends) ELSE NotSent
    BY <1>1, <2>3 DEF RelayTypes
  <2>5. relaying = "relaying" => ends = Len(provided)
    BY <1>2, <2>1 DEF Exact, Before
  <2> QED BY <1>4, <2>2, <2>3, <2>4, <2>5 DEF Relay!ExactUnlessCut
<1> QED BY <1>3, <1>5 DEF Relay!ExactUnlessCut

-----------------------------------------------------------------------------
(***************************************************************************)
(* The translator.                                                         *)
(***************************************************************************)

USE PartsAssumption, ObjectsAssumption, MaxArgumentsAssumption,
    ReportsAssumption, PlaceholderAssumption
USE DEF PartsAssumption, ObjectsAssumption, MaxArgumentsAssumption,
        ReportsAssumption, PlaceholderAssumption

\* The tool calls: CallsMatchTools is inductive once the client's indexes are
\* known to be exactly those given out; that ended tools hold objects is what
\* the final chunk relies on.
CallsInv ==
  /\ tools \in [Blocks -> ToolStates \cup {NoTool}]
  /\ \A b \in Blocks :
       tools[b] # NoTool => Len(tools[b].arguments) <= MaxArguments
  /\ next_tool_index \in Nat
  /\ calls \in [0..next_tool_index - 1 -> Seq(Chars)]
  /\ CallsMatchTools
  /\ \A b \in Blocks : HasTool(b) /\ tools[b].ended => tools[b].arguments \in Objects

\* Where the generator stands says what the client has seen, and the counts
\* cannot change once they are shown or sent.
ControlInv ==
  /\ started \in BOOLEAN
  /\ thinking_blocks \subseteq Blocks
  /\ stop_reason \in StopReasons \cup {"none"}
  /\ usage \in Usages /\ counted = usage
  /\ at \in {"relaying", "finishing", "ending", "closed", "dropped"}
  /\ audit \in Usages \cup {NotSent} /\ shown \in Usages \cup {NotSent}
  /\ phase \in Phases
  /\ finish_reason \in {"none", "stop", "length", "tool_calls"}
  /\ at = "relaying"  => phase = IF started THEN "open" ELSE "silent"
  /\ at = "finishing" => phase = "finished"
  /\ at = "ending"    => phase \in {"silent", "open", "failed"}
  /\ at = "closed"    => phase \in {"done", "failed"}
  /\ audit # NotSent  <=> at = "closed"
  /\ audit # NotSent  => audit = usage
  /\ phase \in {"finished", "done"} => shown = usage

IInv == CallsInv /\ ControlInv

LEMMA InitIInv == Init => IInv
<1> SUFFICES ASSUME Init PROVE IInv
  OBVIOUS
<1>1. NoTokens \in Usages
  BY DEF NoTokens, Usages
<1>2. CallsInv
  BY DEF Init, CallsInv, CallsMatchTools, HasTool
<1>3. ControlInv
  BY <1>1 DEF Init, ControlInv, Phases, StopReasons
<1> QED BY <1>2, <1>3 DEF IInv

-----------------------------------------------------------------------------
(* The tool calls. *)

CallState == <<tools, next_tool_index, calls>>

LEMMA SameCalls ==
  ASSUME CallsInv, UNCHANGED CallState
  PROVE  CallsInv'
  BY DEF CallsInv, CallState, CallsMatchTools, HasTool

\* A tool block starts: it gets the first index not given out.
LEMMA OpenKeepsCalls ==
  ASSUME CallsInv, NEW b \in Blocks, tools[b] = NoTool,
         tools' = [tools EXCEPT ![b] = [index     |-> next_tool_index,
                                        arguments |-> <<>>,
                                        ended     |-> FALSE]],
         next_tool_index' = next_tool_index + 1,
         Opened(next_tool_index)
  PROVE  CallsInv'
<1> DEFINE new == [index |-> next_tool_index, arguments |-> <<>>, ended |-> FALSE]
<1>1. new \in ToolStates /\ new # NoTool
  <2>1. <<>> \in Seq(Chars)
    OBVIOUS
  <2>2. new \in ToolStates
    BY <2>1 DEF CallsInv, ToolStates
  <2> QED BY <2>2
<1>2. tools' \in [Blocks -> ToolStates \cup {NoTool}] /\ tools'[b] = new
      /\ \A c \in Blocks \ {b} : tools'[c] = tools[c]
  BY <1>1 DEF CallsInv
<1>3. 0..next_tool_index' - 1 = (0..next_tool_index - 1) \cup {next_tool_index}
  BY DEF CallsInv
<1>4. calls' \in [0..next_tool_index' - 1 -> Seq(Chars)]
      /\ calls'[next_tool_index] = <<>>
      /\ \A i \in 0..next_tool_index - 1 : calls'[i] = calls[i]
  BY <1>3 DEF CallsInv, Opened
<1>5. \A c \in Blocks \ {b} : HasTool(c) => tools[c].index \in 0..next_tool_index - 1
  BY DEF CallsInv, CallsMatchTools
<1>6. CallsMatchTools'
  <2>1. \A c \in Blocks : HasTool(c)' =>
          tools'[c].index \in DOMAIN calls' /\ calls'[tools'[c].index] = tools'[c].arguments
    BY <1>1, <1>2, <1>3, <1>4, <1>5 DEF CallsInv, CallsMatchTools, HasTool
  <2>2. \A i \in DOMAIN calls' : \E c \in Blocks : HasTool(c)' /\ tools'[c].index = i
    <3> SUFFICES ASSUME NEW i \in DOMAIN calls'
                 PROVE  \E c \in Blocks : HasTool(c)' /\ tools'[c].index = i
      OBVIOUS
    <3>1. CASE i = next_tool_index
      BY <3>1, <1>1, <1>2 DEF HasTool
    <3>2. CASE i \in 0..next_tool_index - 1
      <4>1. PICK c \in Blocks : HasTool(c) /\ tools[c].index = i
        BY <3>2 DEF CallsInv, CallsMatchTools
      <4> QED BY <4>1, <1>2 DEF HasTool
    <3> QED BY <3>1, <3>2, <1>3, <1>4
  <2>3. \A c, d \in Blocks :
          HasTool(c)' /\ HasTool(d)' /\ tools'[c].index = tools'[d].index => c = d
    BY <1>1, <1>2, <1>5 DEF CallsInv, CallsMatchTools, HasTool
  <2> QED BY <2>1, <2>2, <2>3 DEF CallsMatchTools
<1>7. \A c \in Blocks : tools'[c] # NoTool => Len(tools'[c].arguments) <= MaxArguments
  BY <1>2 DEF CallsInv
<1>8. \A c \in Blocks : HasTool(c)' /\ tools'[c].ended => tools'[c].arguments \in Objects
  BY <1>2 DEF CallsInv, HasTool
<1> QED BY <1>2, <1>4, <1>6, <1>7, <1>8 DEF CallsInv

\* The arguments of a tool grow by `more`, at the translator and at the client.
LEMMA ExtendKeepsCalls ==
  ASSUME CallsInv, NEW b \in Blocks, HasTool(b), ~tools[b].ended,
         NEW more \in Seq(Chars), NEW ended \in BOOLEAN,
         Len(tools[b].arguments \o more) <= MaxArguments,
         ended => tools[b].arguments \o more \in Objects,
         tools' = [tools EXCEPT ![b] = [index     |-> tools[b].index,
                                        arguments |-> tools[b].arguments \o more,
                                        ended     |-> ended]],
         Extended(tools[b].index, more),
         UNCHANGED next_tool_index
  PROVE  CallsInv'
<1> DEFINE i == tools[b].index
           text == tools[b].arguments \o more
<1>1. tools[b] \in ToolStates /\ i \in DOMAIN calls /\ calls[i] = tools[b].arguments
  BY DEF CallsInv, CallsMatchTools, HasTool
<1>2. text \in Seq(Chars)
  BY <1>1, ConcatProperties DEF ToolStates
<1>3. /\ tools' \in [Blocks -> ToolStates \cup {NoTool}]
      /\ \A c \in Blocks \ {b} : tools'[c] = tools[c]
      /\ tools'[b] = [index |-> i, arguments |-> text, ended |-> ended]
      /\ tools'[b] \in ToolStates
  <2> DEFINE new == [index |-> i, arguments |-> text, ended |-> ended]
  <2>1. new \in ToolStates
    BY <1>1, <1>2 DEF ToolStates
  <2>2. tools' = [tools EXCEPT ![b] = new]
    OBVIOUS
  <2> HIDE DEF new
  <2>3. tools' \in [Blocks -> ToolStates \cup {NoTool}]
        /\ \A c \in Blocks \ {b} : tools'[c] = tools[c]
    BY <2>1, <2>2 DEF CallsInv
  <2>4. tools'[b] = new
    BY <2>2 DEF CallsInv
  <2> QED BY <2>1, <2>3, <2>4 DEF new
<1>4. /\ calls' \in [0..next_tool_index' - 1 -> Seq(Chars)]
      /\ calls'[i] = text
      /\ \A k \in DOMAIN calls : k # i => calls'[k] = calls[k]
      /\ DOMAIN calls' = DOMAIN calls
  BY <1>1, <1>2 DEF CallsInv, Extended
<1>5. \A c \in Blocks : /\ HasTool(c)' <=> HasTool(c)
                        /\ HasTool(c) => tools'[c].index = tools[c].index
                        /\ HasTool(c) /\ c # b => tools[c].index # i
  <2>1. HasTool(b)' /\ tools'[b].index = i
    BY <1>3 DEF HasTool
  <2>2. \A c \in Blocks \ {b} : HasTool(c)' <=> HasTool(c)
    BY <1>3 DEF HasTool
  <2>3. \A c \in Blocks : HasTool(c) /\ tools[c].index = i => c = b
    BY DEF CallsInv, CallsMatchTools
  <2> QED BY <1>3, <2>1, <2>2, <2>3
<1>6. CallsMatchTools'
  <2>1. \A c \in Blocks : HasTool(c)' =>
          tools'[c].index \in DOMAIN calls' /\ calls'[tools'[c].index] = tools'[c].arguments
    <3> SUFFICES ASSUME NEW c \in Blocks, HasTool(c)'
                 PROVE  tools'[c].index \in DOMAIN calls'
                        /\ calls'[tools'[c].index] = tools'[c].arguments
      OBVIOUS
    <3>1. CASE c = b
      BY <3>1, <1>1, <1>3, <1>4
    <3>2. CASE c # b
      <4>1. HasTool(c) /\ tools'[c] = tools[c] /\ tools[c].index # i
        BY <3>2, <1>3, <1>5
      <4>2. tools[c].index \in DOMAIN calls /\ calls[tools[c].index] = tools[c].arguments
        BY <4>1 DEF CallsInv, CallsMatchTools
      <4> QED BY <4>1, <4>2, <1>4
    <3> QED BY <3>1, <3>2
  <2>2. \A k \in DOMAIN calls' : \E c \in Blocks : HasTool(c)' /\ tools'[c].index = k
    BY <1>4, <1>5 DEF CallsInv, CallsMatchTools
  <2>3. \A c, d \in Blocks :
          HasTool(c)' /\ HasTool(d)' /\ tools'[c].index = tools'[d].index => c = d
    BY <1>5 DEF CallsInv, CallsMatchTools
  <2> QED BY <2>1, <2>2, <2>3 DEF CallsMatchTools
<1>7. \A c \in Blocks : tools'[c] # NoTool => Len(tools'[c].arguments) <= MaxArguments
  BY <1>3 DEF CallsInv
<1>8. \A c \in Blocks : HasTool(c)' /\ tools'[c].ended => tools'[c].arguments \in Objects
  BY <1>3, <1>5 DEF CallsInv
<1> QED BY <1>3, <1>4, <1>6, <1>7, <1>8 DEF CallsInv

LEMMA ReplacedArguments ==
  ASSUME NEW t \in ToolStates, NEW text \in Seq(Chars)
  PROVE  [t EXCEPT !.arguments = text]
         = [index |-> t.index, arguments |-> text, ended |-> t.ended]
  BY DEF ToolStates

\* The argument delta and the end of a tool block are extensions of the same
\* kind, by a part, by "{}" or by nothing.
LEMMA ArgumentsKeepCalls ==
  ASSUME CallsInv, NEW b \in Blocks, HasTool(b), NEW part \in Parts,
         ArgumentsDelta(b, part), ~Refuse
  PROVE  CallsInv'
<1> DEFINE tool == tools[b]
<1>1. /\ tool \in ToolStates /\ ~tool.ended
      /\ Len(tool.arguments) + Len(part) <= MaxArguments
      /\ tools' = [tools EXCEPT ![b].arguments = @ \o part]
      /\ Extended(tool.index, part) /\ UNCHANGED next_tool_index
  BY DEF ArgumentsDelta, CallsInv, HasTool
<1>2. part \in Seq(Chars) /\ tool.arguments \in Seq(Chars)
  BY <1>1 DEF ToolStates
<1>3. [tool EXCEPT !.arguments = tool.arguments \o part]
      = [index |-> tool.index, arguments |-> tool.arguments \o part, ended |-> tool.ended]
  <2>1. tool.arguments \o part \in Seq(Chars)
    BY <1>2, ConcatProperties
  <2> QED BY <1>1, <2>1, ReplacedArguments
<1>4. tools' = [tools EXCEPT ![b] = [index     |-> tool.index,
                                     arguments |-> tool.arguments \o part,
                                     ended     |-> FALSE]]
  <2>1. tools' = [tools EXCEPT ![b] = [tool EXCEPT !.arguments = tool.arguments \o part]]
    BY <1>1
  <2>2. tool.ended = FALSE
    BY <1>1 DEF ToolStates
  <2> QED BY <2>1, <2>2, <1>3
<1>5. Len(tool.arguments \o part) <= MaxArguments
  BY <1>1, <1>2, ConcatProperties
<1> QED BY <1>1, <1>2, <1>4, <1>5, ExtendKeepsCalls

LEMMA EndToolKeepsCalls ==
  ASSUME CallsInv, NEW b \in Blocks, HasTool(b), EndTool(b), ~Refuse
  PROVE  CallsInv'
<1> DEFINE tool == tools[b]
<1>1. tool \in ToolStates /\ ~tool.ended /\ UNCHANGED next_tool_index
      /\ tool.arguments \in Seq(Chars) /\ Len(tool.arguments) <= MaxArguments
  BY DEF EndTool, CallsInv, HasTool, ToolStates
<1>2. tool.index \in DOMAIN calls /\ calls[tool.index] \in Seq(Chars)
  BY DEF CallsInv, CallsMatchTools, HasTool
<1>3. CASE tool.arguments = <<>>
  <2>1. tools' = [tools EXCEPT ![b] = [index     |-> tool.index,
                                       arguments |-> EmptyObject,
                                       ended     |-> TRUE]]
        /\ Extended(tool.index, EmptyObject)
    BY <1>3 DEF EndTool
  <2>2. EmptyObject \in Seq(Chars) /\ tool.arguments \o EmptyObject = EmptyObject
    BY <1>3, ConcatEmptySeq
  <2> QED BY <1>1, <2>1, <2>2, ExtendKeepsCalls
<1>4. CASE tool.arguments # <<>>
  <2>1. tools' = [tools EXCEPT ![b] = [index     |-> tool.index,
                                       arguments |-> tool.arguments,
                                       ended     |-> TRUE]]
        /\ UNCHANGED calls /\ tool.arguments \in Objects
    BY <1>4 DEF EndTool
  <2>2. <<>> \in Seq(Chars) /\ tool.arguments \o <<>> = tool.arguments
    BY <1>1, ConcatEmptySeq
  <2>3. calls[tool.index] \o <<>> = calls[tool.index]
    BY <1>2, ConcatEmptySeq
  <2>4. Extended(tool.index, <<>>)
    BY <1>2, <2>1, <2>3 DEF Extended, CallsInv
  <2> QED BY <1>1, <2>1, <2>2, <2>4, ExtendKeepsCalls
<1> QED BY <1>3, <1>4

-----------------------------------------------------------------------------
(* The generator's control. *)

LEMMA FailKeeps ==
  ASSUME IInv, NEW held, at = "relaying", FailWith(held)
  PROVE  IInv'
<1>1. CallsInv'
  BY SameCalls DEF IInv, FailWith, translator_vars, CallState
<1>2. ControlInv'
  BY DEF IInv, ControlInv, FailWith, translator_vars, Phases
<1> QED BY <1>1, <1>2 DEF IInv

LEMMA RefuseKeeps ==
  ASSUME IInv, Refuse
  PROVE  IInv'
  BY FailKeeps DEF Refuse, Translating

\* An event translated without error, from what it may change of the control.
LEMMA ForwardKeepsControl ==
  ASSUME IInv, Translating, Forward,
         started' \in BOOLEAN, thinking_blocks' \subseteq Blocks,
         stop_reason' \in StopReasons \cup {"none"}, usage' \in Usages,
         phase' = IF started' THEN "open" ELSE "silent"
  PROVE  ControlInv'
  BY DEF IInv, ControlInv, Translating, Forward, Phases

LEMMA AsU32Type == \A n \in Nat : AsU32(n) \in 0..TokenModulus - 1
  BY DEF AsU32

LEMMA PassOnKeeps ==
  ASSUME IInv, PassOn
  PROVE  IInv'
<1>1. CallsInv'
  BY SameCalls DEF IInv, PassOn, translator_vars, CallState
<1>2. ControlInv'
  BY ForwardKeepsControl DEF IInv, ControlInv, PassOn, Translating, translator_vars
<1> QED BY <1>1, <1>2 DEF IInv

LEMMA MessageStartKeeps ==
  ASSUME IInv, NEW n \in InputReports, MessageStart(n)
  PROVE  IInv'
<1>1. CASE Refuse
  BY <1>1, RefuseKeeps
<1>2. CASE ~Refuse
  <2>1. CallsInv'
    BY <1>2, SameCalls DEF IInv, MessageStart, CallState
  <2>2. usage' \in Usages
    BY <1>2, AsU32Type DEF IInv, ControlInv, MessageStart, Usages
  <2>3. ControlInv'
    BY <1>2, <2>2, ForwardKeepsControl DEF IInv, ControlInv, MessageStart
  <2> QED BY <2>1, <2>3 DEF IInv
<1> QED BY <1>1, <1>2

LEMMA MessageDeltaKeeps ==
  ASSUME IInv, NEW reason \in StopReasons \cup {"none"},
         NEW n \in OutputReports \cup {NotReported}, MessageDelta(reason, n)
  PROVE  IInv'
<1>1. CallsInv'
  BY SameCalls DEF IInv, MessageDelta, CallState
<1>2. usage' \in Usages
  BY AsU32Type DEF IInv, ControlInv, MessageDelta, Usages
<1>3. ControlInv'
  BY <1>2, ForwardKeepsControl DEF IInv, ControlInv, MessageDelta, Translating
<1> QED BY <1>1, <1>3 DEF IInv

LEMMA MessageStopKeeps ==
  ASSUME IInv, MessageStop
  PROVE  IInv'
<1>1. CASE Refuse
  BY <1>1, RefuseKeeps
<1>2. CASE ~Refuse
  <2>1. CallsInv'
    BY <1>2, SameCalls DEF IInv, MessageStop, translator_vars, CallState
  <2>2. finish_reason' \in {"none", "stop", "length", "tool_calls"}
    BY <1>2 DEF MessageStop, FinishReason
  <2>3. ControlInv'
    BY <1>2, <2>2 DEF IInv, ControlInv, MessageStop, Translating, translator_vars, Phases
  <2> QED BY <2>1, <2>3 DEF IInv
<1> QED BY <1>1, <1>2

LEMMA BlockEventKeeps ==
  ASSUME IInv, NEW b \in Blocks, BlockEvent(b)
  PROVE  IInv'
<1>1. CASE Refuse
  BY <1>1, RefuseKeeps
<1> SUFFICES ASSUME ~Refuse PROVE IInv'
  BY <1>1
<1>2. CASE PassOn
  BY <1>2, PassOnKeeps
<1>3. CASE ToolStart(b)
  <2>1. CallsInv'
    BY <1>3, OpenKeepsCalls DEF ToolStart, IInv
  <2>2. ControlInv'
    BY <1>3, ForwardKeepsControl DEF ToolStart, IInv, ControlInv, Translating
  <2> QED BY <2>1, <2>2 DEF IInv
<1>4. CASE ThinkingStart(b)
  <2>1. CallsInv'
    BY <1>4, SameCalls DEF ThinkingStart, IInv, CallState
  <2>2. ControlInv'
    BY <1>4, ForwardKeepsControl DEF ThinkingStart, IInv, ControlInv, Translating
  <2> QED BY <2>1, <2>2 DEF IInv
<1>5. ASSUME NEW part \in Parts, ArgumentsDelta(b, part) PROVE IInv'
  <2>1. CallsInv'
    BY <1>5, ArgumentsKeepCalls DEF ArgumentsDelta, IInv, HasTool
  <2>2. ControlInv'
    BY <1>5, ForwardKeepsControl DEF ArgumentsDelta, IInv, ControlInv, Translating
  <2> QED BY <2>1, <2>2 DEF IInv
<1>6. CASE BlockStop(b) /\ ~PassOn
  <2>1. CASE b \in thinking_blocks
    <3>1. CallsInv'
      BY <1>6, <2>1, SameCalls DEF BlockStop, IInv, CallState
    <3>2. ControlInv'
      BY <1>6, <2>1, ForwardKeepsControl DEF BlockStop, IInv, ControlInv, Translating
    <3> QED BY <3>1, <3>2 DEF IInv
  <2>2. CASE b \notin thinking_blocks
    <3>1. HasTool(b) /\ EndTool(b) /\ started
      BY <1>6, <2>2 DEF BlockStop, HasTool
    <3>2. CallsInv'
      BY <3>1, EndToolKeepsCalls DEF IInv
    <3>3. ControlInv'
      BY <3>1, ForwardKeepsControl DEF EndTool, IInv, ControlInv, Translating
    <3> QED BY <3>2, <3>3 DEF IInv
  <2> QED BY <2>1, <2>2
<1> QED
  BY <1>2, <1>3, <1>4, <1>5, <1>6 DEF BlockEvent, ThinkingDelta

LEMMA NextIInv == IInv /\ [Next]_vars => IInv'
<1> SUFFICES ASSUME IInv, [Next]_vars PROVE IInv'
  OBVIOUS
<1>1. ASSUME NEW bytes \in Chunks, Receive(bytes) PROVE IInv'
  <2> DEFINE push == Push(pending, bytes)
  <2>1. CASE push.ok
    <3>1. UNCHANGED <<translator_vars, counted, at, audit, client_vars>>
      BY <1>1, <2>1 DEF Receive
    <3>2. CallsInv'
      BY <3>1, SameCalls DEF IInv, translator_vars, client_vars, CallState
    <3>3. ControlInv'
      BY <3>1 DEF IInv, ControlInv, translator_vars, client_vars
    <3> QED BY <3>2, <3>3 DEF IInv
  <2>2. CASE ~push.ok
    BY <1>1, <2>2, FailKeeps DEF Receive
  <2> QED BY <2>1, <2>2
<1>2. CASE BodyEnds \/ Finish \/ End \/ Drop \/ UNCHANGED vars
  <2>1. CallsInv'
    BY <1>2, SameCalls DEF IInv, BodyEnds, Finish, End, Drop, vars, translator_vars,
                           client_vars, CallState
  <2>2. ControlInv'
    BY <1>2 DEF IInv, ControlInv, BodyEnds, Finish, End, Drop, vars, translator_vars,
                client_vars, Phases
  <2> QED BY <2>1, <2>2 DEF IInv
<1>3. CASE Translate
  BY <1>3, RefuseKeeps, PassOnKeeps, MessageStopKeeps, MessageStartKeeps,
     MessageDeltaKeeps, BlockEventKeeps DEF Translate, BeforeStart, Malformed
<1> QED BY <1>1, <1>2, <1>3 DEF Next

-----------------------------------------------------------------------------
\* The inductive invariant holds in every reachable state.
THEOREM IInvHolds == Spec => []IInv
  BY InitIInv, NextIInv, PTL DEF Spec

\* The translator's variables keep their types, and the arguments of a tool
\* their limit.
THEOREM TranslatorTypes == Spec => []TranslatorTypeOK
<1>1. IInv => TranslatorTypeOK
  BY DEF IInv, CallsInv, ControlInv, TranslatorTypeOK
<1> QED BY <1>1, IInvHolds, PTL

\* What the client has put together for a tool call is what the translator
\* checks, for any number of interleaved blocks.
THEOREM CallsAlwaysMatch == Spec => []CallsMatchTools
<1>1. IInv => CallsMatchTools
  BY DEF IInv, CallsInv
<1> QED BY <1>1, IInvHolds, PTL

\* A stream is billed by the last counts the provider reported, which are those
\* the client was shown.
THEOREM AlwaysBilledAsShown == Spec => []BilledAsShown
<1>1. IInv => BilledAsShown
  BY DEF IInv, ControlInv, BilledAsShown
<1> QED BY <1>1, IInvHolds, PTL

\* A stream the client stayed with never just stops.
THEOREM EndAlwaysMarked == Spec => []EndIsMarked
<1>1. IInv => EndIsMarked
  BY DEF IInv, ControlInv, EndIsMarked
<1> QED BY <1>1, IInvHolds, PTL

-----------------------------------------------------------------------------
(* The refinement. *)

ChatVars == <<phase, next_tool_index, calls, finish_reason>>

LEMMA FailIsChatFail ==
  ASSUME IInv, NEW held, at = "relaying", FailWith(held)
  PROVE  Chat!Fail
  BY DEF IInv, ControlInv, FailWith, translator_vars, Chat!Fail

LEMMA RefuseIsChatFail ==
  ASSUME IInv, Refuse
  PROVE  Chat!Fail
  BY FailIsChatFail DEF Refuse, Translating

LEMMA ExtendIsChatExtend ==
  ASSUME CallsInv, phase = "open", NEW i \in DOMAIN calls,
         NEW part \in Seq(Chars), Extended(i, part),
         UNCHANGED <<phase, next_tool_index, finish_reason>>
  PROVE  Chat!ExtendCall(i)
<1>1. calls[i] \in Seq(Chars) /\ calls'[i] = calls[i] \o part
      /\ DOMAIN calls' = DOMAIN calls
      /\ \A k \in DOMAIN calls \ {i} : calls'[k] = calls[k]
  BY DEF CallsInv, Extended
<1>2. Len(calls[i]) \in Nat /\ Len(part) \in Nat
  BY <1>1
<1>3. Len(calls'[i]) >= Len(calls[i])
      /\ \A n \in 1..Len(calls[i]) : calls'[i][n] = calls[i][n]
  BY <1>1, <1>2, ConcatProperties
<1> QED BY <1>1, <1>3 DEF Chat!ExtendCall

\* The translator's verdict on its tools is one on the client's calls.
LEMMA StopIsChatFinish ==
  ASSUME IInv, MessageStop, ~Refuse
  PROVE  Chat!Finish
<1> DEFINE mine == {b \in Blocks : tools[b] # NoTool}
<1>1. /\ phase = "open" /\ phase' = "finished" /\ UNCHANGED <<next_tool_index, calls>>
      /\ \A b \in mine : tools[b].ended
      /\ finish_reason' = FinishReason(mine # {}) /\ finish_reason' # "none"
  BY DEF MessageStop, Translating, IInv, ControlInv, translator_vars
<1>2. \A i \in DOMAIN calls : calls[i] \in Objects
  <2> SUFFICES ASSUME NEW i \in DOMAIN calls PROVE calls[i] \in Objects
    OBVIOUS
  <2>1. PICK b \in Blocks : HasTool(b) /\ tools[b].index = i
    BY DEF IInv, CallsInv, CallsMatchTools
  <2>2. calls[i] = tools[b].arguments /\ tools[b].ended
    BY <1>1, <2>1 DEF IInv, CallsInv, CallsMatchTools, HasTool
  <2> QED BY <2>1, <2>2 DEF IInv, CallsInv
<1>3. mine # {} <=> next_tool_index > 0
  <2>1. next_tool_index \in Nat /\ DOMAIN calls = 0..next_tool_index - 1
    BY DEF IInv, CallsInv
  <2>2. mine # {} <=> DOMAIN calls # {}
    BY DEF IInv, CallsInv, CallsMatchTools, HasTool
  <2>3. DOMAIN calls # {} => 0 \in DOMAIN calls
    BY <2>1
  <2>4. next_tool_index > 0 => 0 \in DOMAIN calls
    BY <2>1
  <2> QED BY <2>1, <2>2, <2>3, <2>4
<1>4. finish_reason' = "tool_calls" <=> mine # {}
  BY <1>1 DEF FinishReason
<1> QED BY <1>1, <1>2, <1>3, <1>4 DEF Chat!Finish

LEMMA BlockEventRefines ==
  ASSUME IInv, NEW b \in Blocks, BlockEvent(b)
  PROVE  Chat!ChatNext \/ UNCHANGED ChatVars
<1>1. CASE Refuse
  BY <1>1, RefuseIsChatFail DEF Chat!ChatNext
<1> SUFFICES ASSUME ~Refuse PROVE Chat!ChatNext \/ UNCHANGED ChatVars
  BY <1>1
<1>2. CASE PassOn \/ ThinkingStart(b) \/ (BlockStop(b) /\ b \in thinking_blocks)
  BY <1>2 DEF PassOn, ThinkingStart, BlockStop, Forward, translator_vars, ChatVars
<1>3. CASE ToolStart(b)
  <2>1. phase = "open" /\ Opened(next_tool_index) /\ UNCHANGED <<phase, finish_reason>>
        /\ next_tool_index' = next_tool_index + 1
    BY <1>3 DEF ToolStart, Translating, Forward, IInv, ControlInv
  <2>2. Chat!OpenCall
    BY <2>1 DEF Opened, Chat!OpenCall
  <2> QED BY <2>2 DEF Chat!ChatNext
<1>4. ASSUME NEW part \in Parts, ArgumentsDelta(b, part)
      PROVE  Chat!ChatNext
  <2>1. phase = "open" /\ HasTool(b) /\ Extended(tools[b].index, part)
        /\ UNCHANGED <<phase, next_tool_index, finish_reason>>
    BY <1>4 DEF ArgumentsDelta, Translating, Forward, IInv, ControlInv, HasTool
  <2>2. tools[b].index \in DOMAIN calls
    BY <2>1 DEF IInv, CallsInv, CallsMatchTools
  <2>3. Chat!ExtendCall(tools[b].index)
    BY <2>1, <2>2, ExtendIsChatExtend DEF IInv
  <2> QED BY <2>2, <2>3 DEF Chat!ChatNext
<1>5. ASSUME BlockStop(b), b \notin thinking_blocks, ~PassOn
      PROVE  Chat!ChatNext \/ UNCHANGED ChatVars
  <2>1. HasTool(b) /\ EndTool(b) /\ started
    BY <1>5 DEF BlockStop, HasTool
  <2>2. phase = "open" /\ UNCHANGED <<phase, next_tool_index, finish_reason>>
    BY <2>1 DEF EndTool, Translating, Forward, IInv, ControlInv
  <2>3. CASE tools[b].arguments # <<>>
    BY <2>1, <2>2, <2>3 DEF EndTool, ChatVars
  <2>4. CASE tools[b].arguments = <<>>
    <3>1. Extended(tools[b].index, EmptyObject)
      BY <2>1, <2>4 DEF EndTool
    <3>2. tools[b].index \in DOMAIN calls
      BY <2>1 DEF IInv, CallsInv, CallsMatchTools
    <3>3. Chat!ExtendCall(tools[b].index)
      BY <2>2, <3>1, <3>2, ExtendIsChatExtend DEF IInv
    <3> QED BY <3>2, <3>3 DEF Chat!ChatNext
  <2> QED BY <2>3, <2>4
<1> QED BY <1>2, <1>3, <1>4, <1>5 DEF BlockEvent, ThinkingDelta

LEMMA StepRefinesChat ==
  ASSUME IInv, [Next]_vars
  PROVE  [Chat!ChatNext]_(Chat!chat_vars)
<1> SUFFICES Chat!ChatNext \/ UNCHANGED ChatVars
  BY DEF ChatVars, Chat!chat_vars
<1>1. ASSUME NEW bytes \in Chunks, Receive(bytes)
      PROVE  Chat!ChatNext \/ UNCHANGED ChatVars
  BY <1>1, FailIsChatFail DEF Receive, translator_vars, client_vars, ChatVars, Chat!ChatNext
<1>2. CASE BodyEnds \/ Drop \/ UNCHANGED vars
  BY <1>2 DEF BodyEnds, Drop, vars, translator_vars, client_vars, ChatVars
<1>3. CASE Finish
  BY <1>3 DEF Finish, IInv, ControlInv, translator_vars, Chat!Done, Chat!ChatNext
<1>4. CASE End
  BY <1>4 DEF End, IInv, ControlInv, translator_vars, ChatVars, Chat!Fail, Chat!ChatNext
<1>5. CASE Refuse
  BY <1>5, RefuseIsChatFail DEF Chat!ChatNext
<1>6. CASE Translate /\ ~Refuse
  <2>1. CASE PassOn \/ \E reason \in StopReasons \cup {"none"},
                          n \in OutputReports \cup {NotReported} :
                            MessageDelta(reason, n)
    BY <2>1 DEF PassOn, MessageDelta, Forward, translator_vars, ChatVars
  <2>2. CASE MessageStop
    BY <1>6, <2>2, StopIsChatFinish DEF Chat!ChatNext
  <2>3. ASSUME NEW n \in InputReports, MessageStart(n) PROVE Chat!ChatNext
    BY <1>6, <2>3 DEF MessageStart, Translating, Forward, IInv, ControlInv,
                      Chat!Begin, Chat!ChatNext
  <2> QED BY <1>6, <2>1, <2>2, <2>3, BlockEventRefines
          DEF Translate, BeforeStart, Malformed
<1> QED BY <1>1, <1>2, <1>3, <1>4, <1>5, <1>6 DEF Next

\* Whatever events the provider sends and however the network cuts them, the
\* client sees a stream as ChatStream promises it.
THEOREM StreamImplementsChat == Spec => ImplementsChat
<1>1. Init => Chat!ChatInit
  BY DEF Init, Chat!ChatInit
<1> QED BY <1>1, IInvHolds, StepRefinesChat, PTL DEF Spec, ImplementsChat, Chat!ChatSpec

-----------------------------------------------------------------------------
(***************************************************************************)
(* The two ways together.                                                  *)
(***************************************************************************)

\* A translated stream behaves as AnthropicStream says; a relayed one leaves
\* the translator where it started.  So what is proved of Spec holds of every
\* stream.
THEOREM StreamsAreTranslated == StreamSpec => Spec
<1>1. StreamInit => Init
  BY DEF StreamInit
<1>2. [StreamNext]_stream_vars => [Next]_vars
  BY DEF StreamNext, stream_vars
<1> QED BY <1>1, <1>2, PTL DEF StreamSpec, Spec

\* The relays' invariant holds in every reachable state.
THEOREM RelayInvHolds == StreamSpec => []RelayInv
<1>1. StreamInit => RelayInv
  BY InitRelayInv DEF StreamInit
<1>2. RelayInv /\ [StreamNext]_stream_vars => RelayInv'
  <2> SUFFICES ASSUME RelayInv, [StreamNext]_stream_vars PROVE RelayInv'
    OBVIOUS
  <2>1. CASE UNCHANGED relay_vars
    BY <2>1, RelayStutterKeeps
  <2>2. CASE Relay!Next
    BY <2>2, RelayNextKeeps
  <2>3. Relay!Next \/ UNCHANGED relay_vars
    BY DEF StreamNext, stream_vars
  <2> QED BY <2>1, <2>2, <2>3
<1> QED BY <1>1, <1>2, PTL DEF StreamSpec

\* What the relays pass on and count is exact: on the native endpoint however
\* the network cuts the stream, on the chat endpoint while it cuts no line.
THEOREM RelaysAlwaysExact == StreamSpec => []RelaysExact
<1>1. RelayInv => RelaysExact
  BY RelayInvNative, RelayInvChat DEF RelaysExact
<1> QED BY <1>1, RelayInvHolds, PTL

\* The framer holds nothing but bytes without a boundary, and while the
\* generator relays no more than its limit.
THEOREM FramerInvHolds == Spec => []FramerInv
  BY InitFramerInv, NextFramerInv, PTL DEF Spec

\* Every variable of both ways has its type, and no buffer holds more than its
\* limit or the rest of a line.
THEOREM StreamTypes == StreamSpec => []StreamsTypeOK
<1>1. TranslatorTypeOK /\ FramerInv => TypeOK
  BY DEF TypeOK, FramerInv
<1>2. TypeOK /\ Relay!TypeOK => StreamsTypeOK
  BY DEF StreamsTypeOK
<1> QED BY <1>1, <1>2, StreamsAreTranslated, TranslatorTypes, FramerInvHolds, RelayInvHolds,
           RelayInvTypes, PTL

\* How the network cuts the bytes makes no difference to the events found.
THEOREM ChunkingNeverShows == StreamSpec => ChunkingInvisible
<1> DEFINE Same == \A bytes \in Chunks :
                     LET each == PushEach(pending, bytes) IN
                       Receive(bytes) /\ each.ok =>
                         at' = "relaying" /\ pending' = each.pending
                                          /\ due' = Len(each.events)
<1>1. FramerInv /\ [Next]_vars => [Same]_vars
  BY ReceiveIsEach
<1>2. Spec => [][Same]_vars
  BY <1>1, FramerInvHolds, PTL DEF Spec
<1> QED BY <1>2, StreamsAreTranslated DEF ChunkingInvisible
=============================================================================
