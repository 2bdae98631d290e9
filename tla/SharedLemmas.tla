---------------------------- MODULE SharedLemmas ----------------------------
(***************************************************************************)
(* What several of the proofs need and no library states without an        *)
(* operator for a parameter: least numbers, counting up, folds over        *)
(* sequences and recursion, and the queues of tokio's mutexes and          *)
(* semaphores, which a waiter may leave from the middle.                   *)
(***************************************************************************)
EXTENDS Integers, Sequences, SequencesExt, FiniteSetsExt, TLAPS, SequenceTheorems,
        WellFoundedInduction

(* Numbers and counting. *)

\* Among numbers there is a least.
LEMMA LeastOf ==
  ASSUME NEW T \in SUBSET Nat, T # {}
  PROVE  \E m \in T : \A n \in T : m <= n
<1> DEFINE less == OpToRel(<, Nat)
<1>1. IsWellFoundedOn(less, Nat)
  BY NatLessThanWellFounded
<1> HIDE DEF less
<1>2. PICK m \in T : \A n \in T : ~ (<<n, m>> \in less)
  BY <1>1, WFMin
<1>3. ASSUME NEW n \in T PROVE m <= n
  <2>1. ~ (<<n, m>> \in less) /\ m \in Nat /\ n \in Nat
    BY <1>2
  <2>2. ~ (n < m)
    BY <2>1 DEF less, OpToRel
  <2> QED BY <2>1, <2>2
<1> QED BY <1>3

\* Max of a set of places is the last of them.
LEMMA MaxIs ==
  ASSUME NEW n \in Nat, NEW s \in SUBSET (1 .. n), s # {}
  PROVE  Max(s) \in s /\ \A y \in s : Max(s) >= y
<1> DEFINE T == {n - x : x \in s}
<1>0. \A y \in s : y \in Int /\ n - y \in Nat
  OBVIOUS
<1>1. T \in SUBSET Nat /\ T # {}
  BY <1>0
<1> HIDE DEF T
<1>2. PICK m \in T : \A k \in T : m <= k
  BY <1>1, LeastOf
<1>3. PICK x \in s : m = n - x
  BY <1>2 DEF T
<1>4. ASSUME NEW y \in s PROVE x >= y
  <2>1. m <= n - y
    BY <1>2 DEF T
  <2> QED BY <1>0, <1>3, <2>1
<1> QED BY <1>4 DEF Max

\* The first k places end with the k-th.
LEMMA MaxOfPlaces ==
  ASSUME NEW n \in Nat, NEW k \in 1 .. n
  PROVE  Max(1 .. k) = k /\ (1 .. k) \ {k} = 1 .. k - 1
<1>0. 1 .. k \in SUBSET (1 .. n) /\ k \in 1 .. k
  BY SMT
<1>1. Max(1 .. k) \in 1 .. k /\ \A y \in 1 .. k : Max(1 .. k) >= y
  BY <1>0, MaxIs
<1> QED BY <1>1

\* The library's folds take the last place off first: what is left are places.
LEMMA FromTheEnd ==
  ASSUME NEW n \in Nat, NEW s \in SUBSET (1 .. n), s # {}
  PROVE  Max(s) \in 1 .. n /\ s \ {Max(s)} \in SUBSET (1 .. n)
<1>1. Max(s) \in s
  BY MaxIs
<1> QED BY <1>1

\* The sets of first places, with which a fold of a sequence is undone.
LEMMA UpTo ==
  ASSUME NEW n \in Nat
  PROVE  /\ {} \in SUBSET (1 .. n) /\ 1 .. 0 = {}
         /\ \A k \in 1 .. n : /\ 1 .. k \in SUBSET (1 .. n) /\ 1 .. k # {}
                              /\ Max(1 .. k) = k /\ (1 .. k) \ {k} = 1 .. k - 1
<1>1. ASSUME NEW k \in 1 .. n PROVE 1 .. k \in SUBSET (1 .. n) /\ 1 .. k # {}
  <2>1. 1 \in 1 .. k /\ \A i \in 1 .. k : i \in 1 .. n
    OBVIOUS
  <2> QED BY <2>1, Zenon
<1>2. 1 .. 0 = {} /\ {} \in SUBSET (1 .. n)
  OBVIOUS
<1> QED BY <1>1, <1>2, MaxOfPlaces

\* What is so of none, and of the next if of one, is so of all.
LEMMA Counting ==
  ASSUME NEW n \in Nat, NEW Good \in SUBSET (0 .. n), 0 \in Good,
         \A k \in 0 .. n - 1 : k \in Good => k + 1 \in Good
  PROVE  0 .. n \subseteq Good
<1> SUFFICES ASSUME ~ (0 .. n \subseteq Good) PROVE FALSE
  OBVIOUS
<1> DEFINE T == (0 .. n) \ Good
<1>0. T \in SUBSET Nat /\ T # {}
  OBVIOUS
<1>1. PICK m \in T : \A k \in T : m <= k
  BY <1>0, LeastOf
<1>2. m # 0 /\ m - 1 \in 0 .. n - 1 /\ ~ (m <= m - 1)
  BY <1>1
<1>3. m - 1 \in Good
  BY <1>1, <1>2
<1> QED BY <1>1, <1>2, <1>3

-----------------------------------------------------------------------------
(* Folds. *)

\* What a fold over sets of places is; step[k] is what the k-th element does.
\* There is such a function.
IsFold(h, n, base, step) ==
  \A s \in SUBSET (1 .. n) :
    h[s] = IF s = {} THEN base ELSE step[Max(s)][h[s \ {Max(s)}]]

LEMMA FoldExists ==
  ASSUME NEW n \in Nat, NEW R, NEW base \in R, NEW step \in [1 .. n -> [R -> R]]
  PROVE  \E h \in [SUBSET (1 .. n) -> R] : IsFold(h, n, base, step)
<1> DEFINE Exists(k) == \E h \in [SUBSET (1 .. k) -> R] : IsFold(h, k, base, step)
           Good == {k \in 0 .. n : Exists(k)}
<1>1. Exists(0)
  <2>1. [s \in SUBSET (1 .. 0) |-> base] \in [SUBSET (1 .. 0) -> R]
        /\ IsFold([s \in SUBSET (1 .. 0) |-> base], 0, base, step)
    BY DEF IsFold
  <2> QED BY <2>1
<1>2. ASSUME NEW k \in 0 .. n - 1, Exists(k) PROVE Exists(k + 1)
  <2>1. PICK h \in [SUBSET (1 .. k) -> R] : IsFold(h, k, base, step)
    BY <1>2
  <2> DEFINE l == k + 1
             g == [s \in SUBSET (1 .. l) |->
                     IF l \in s THEN step[l][h[s \ {l}]] ELSE h[s]]
  <2>2. \A s \in SUBSET (1 .. l) : s \ {l} \in SUBSET (1 .. k)
    OBVIOUS
  <2>3. step[l] \in [R -> R]
    OBVIOUS
  <2>4. g \in [SUBSET (1 .. l) -> R]
    <3>1. ASSUME NEW s \in SUBSET (1 .. l) PROVE g[s] \in R
      <4>1. CASE l \in s
        BY <2>2, <2>3, <4>1
      <4>2. CASE l \notin s
        <5>1. s \in SUBSET (1 .. k)
          BY <2>2, <4>2
        <5> QED BY <4>2, <5>1
      <4> QED BY <4>1, <4>2
    <3> QED BY <3>1
  <2>5. ASSUME NEW s \in SUBSET (1 .. l), s # {}
        PROVE  g[s] = step[Max(s)][g[s \ {Max(s)}]]
    <3>1. Max(s) \in s /\ \A y \in s : Max(s) >= y
      <4>1. l \in Nat
        OBVIOUS
      <4> HIDE DEF l
      <4> QED BY <2>5, <4>1, MaxIs
    <3>2. CASE l \in s
      <4>1. Max(s) = l
        <5>1. Max(s) \in 1 .. l /\ Max(s) >= l
          BY <3>1, <3>2
        <5> QED BY <5>1
      <4>2. g[s \ {l}] = h[s \ {l}]
        BY <2>2
      <4>3. g[s] = step[l][h[s \ {l}]]
        BY <3>2
      <4> QED BY <4>1, <4>2, <4>3
    <3>3. CASE l \notin s
      <4>1. s \in SUBSET (1 .. k) /\ s \ {Max(s)} \in SUBSET (1 .. k)
        BY <2>2, <3>3
      <4>2. g[s] = h[s] /\ g[s \ {Max(s)}] = h[s \ {Max(s)}]
        BY <3>3, <4>1
      <4>3. h[s] = step[Max(s)][h[s \ {Max(s)}]]
        BY <2>1, <2>5, <4>1 DEF IsFold
      <4> QED BY <4>2, <4>3
    <3> QED BY <3>2, <3>3
  <2>6. g[{}] = base
    BY <2>1 DEF IsFold
  <2> HIDE DEF g
  <2>7. IsFold(g, l, base, step)
    BY <2>5, <2>6 DEF IsFold
  <2> QED BY <2>4, <2>7
<1> HIDE DEF Exists
<1>3. Good \in SUBSET (0 .. n) /\ 0 \in Good /\ \A k \in 0 .. n - 1 : k \in Good => k + 1 \in Good
  BY <1>1, <1>2
<1> HIDE DEF Good
<1>4. n \in Good
  <2>1. 0 .. n \subseteq Good
    BY <1>3, Counting
  <2>2. n \in 0 .. n
    OBVIOUS
  <2> QED BY <2>1, <2>2
<1> QED BY <1>4 DEF Good, Exists

\* The values a fold takes on its way.
IsTrace(f, n, base, step) ==
  /\ f[0] = base
  /\ \A k \in 1 .. n : f[k] = step[k][f[k - 1]]

\* What the first places are folded to.
FoldsUp(h, R, n, base, step) ==
  /\ h[{}] = base
  /\ \A k \in 1 .. n : h[1 .. k - 1] \in R => h[1 .. k] = step[k][h[1 .. k - 1]]

\* Along the first places a fold goes step by step.
LEMMA TraceOf ==
  ASSUME NEW n \in Nat, NEW R, NEW base \in R, NEW step \in [1 .. n -> [R -> R]],
         NEW h, FoldsUp(h, R, n, base, step)
  PROVE  \E f \in [0 .. n -> R] : IsTrace(f, n, base, step) /\ f[n] = h[1 .. n]
<1> DEFINE Good == {k \in 0 .. n : h[1 .. k] \in R}
           f == [k \in 0 .. n |-> h[1 .. k]]
<1>1. h[1 .. 0] = base
  <2>1. 1 .. 0 = {}
    OBVIOUS
  <2> QED BY <2>1 DEF FoldsUp
<1>2. ASSUME NEW k \in 0 .. n - 1, k \in Good PROVE k + 1 \in Good
  <2>1. k + 1 \in 1 .. n /\ (k + 1) - 1 = k /\ k + 1 \in 0 .. n
    OBVIOUS
  <2>2. h[1 .. k + 1] = step[k + 1][h[1 .. k]] /\ step[k + 1] \in [R -> R]
    BY <1>2, <2>1 DEF FoldsUp
  <2> QED BY <1>2, <2>1, <2>2
<1>3. 0 .. n \subseteq Good
  <2>1. 0 \in Good /\ Good \in SUBSET (0 .. n)
    BY <1>1
  <2> HIDE DEF Good
  <2> QED BY <1>2, <2>1, Counting
<1>4. f \in [0 .. n -> R] /\ f[0] = base /\ f[n] = h[1 .. n]
  BY <1>1, <1>3
<1>5. ASSUME NEW k \in 1 .. n PROVE f[k] = step[k][f[k - 1]]
  <2>1. k \in 0 .. n /\ k - 1 \in 0 .. n
    OBVIOUS
  <2>2. h[1 .. k - 1] \in R
    BY <1>3, <2>1
  <2> QED BY <2>1, <2>2 DEF FoldsUp
<1> QED BY <1>4, <1>5 DEF IsTrace

\* Steps can be taken one after the other.
LEMMA TraceExists ==
  ASSUME NEW n \in Nat, NEW R, NEW base \in R, NEW step \in [1 .. n -> [R -> R]]
  PROVE  \E f \in [0 .. n -> R] : IsTrace(f, n, base, step)
<1>1. PICK h \in [SUBSET (1 .. n) -> R] : IsFold(h, n, base, step)
  BY FoldExists
<1>2. FoldsUp(h, R, n, base, step)
  <2>1. \A k \in 1 .. n : /\ 1 .. k \in SUBSET (1 .. n) /\ 1 .. k # {}
                          /\ Max(1 .. k) = k /\ (1 .. k) \ {k} = 1 .. k - 1
    BY UpTo
  <2> QED BY <1>1, <2>1 DEF IsFold, FoldsUp
<1> QED BY <1>2, TraceOf

-----------------------------------------------------------------------------
(* Recursion. *)

\* Recursion along next, which makes a size smaller until it stops.
Recurs(h, p, stop, base, next, step) ==
  h[p] = IF stop[p] THEN base[p] ELSE step[p][h[next[p]]]

\* So far as the size is below n.
RecursUpTo(h, n, S, size, stop, base, next, step) ==
  \A p \in S : size[p] < n => Recurs(h, p, stop, base, next, step)
Shrinks(S, size, stop, next) == \A p \in S : ~stop[p] => size[next[p]] < size[p]
SameUpTo(g, h, n, S, size) == \A p \in S : size[p] < n => g[p] = h[p]

\* Two functions that recur in the same way agree.
LEMMA RecursionUnique ==
  ASSUME NEW S, NEW size \in [S -> Nat], NEW stop, NEW base, NEW step, NEW next \in [S -> S],
         Shrinks(S, size, stop, next), NEW n \in Nat, NEW g, NEW h,
         RecursUpTo(g, n, S, size, stop, base, next, step),
         RecursUpTo(h, n, S, size, stop, base, next, step)
  PROVE  SameUpTo(g, h, n, S, size)
<1> SUFFICES ASSUME NEW q \in S, size[q] < n, g[q] # h[q] PROVE FALSE
  BY DEF SameUpTo
<1> DEFINE T == {size[p] : p \in {x \in S : size[x] < n /\ g[x] # h[x]}}
<1>1. T \in SUBSET Nat /\ T # {}
  OBVIOUS
<1>2. PICK m \in T : \A k \in T : m <= k
  <2> HIDE DEF T
  <2> QED BY <1>1, LeastOf
<1>3. PICK p \in S : size[p] = m /\ size[p] < n /\ g[p] # h[p]
  BY <1>2
<1>4. ~stop[p] /\ g[next[p]] # h[next[p]]
  BY <1>3 DEF RecursUpTo, Recurs
<1>5. next[p] \in S /\ size[next[p]] < size[p] /\ size[next[p]] \in Nat /\ size[p] \in Nat
  BY <1>4 DEF Shrinks
<1>6. size[next[p]] \in T
  BY <1>3, <1>4, <1>5
<1> HIDE DEF T
<1> QED BY <1>2, <1>3, <1>5, <1>6

\* There is a function that recurs: the approximations up to each size, put
\* together.
LEMMA RecursionExists ==
  ASSUME NEW S, NEW R, NEW size \in [S -> Nat], NEW stop \in [S -> BOOLEAN], NEW base \in [S -> R],
         NEW next \in [S -> S], NEW step \in [S -> [R -> R]],
         Shrinks(S, size, stop, next)
  PROVE  \E h \in [S -> R] : \A p \in S : Recurs(h, p, stop, base, next, step)
<1> DEFINE Fits(h, n) == RecursUpTo(h, n, S, size, stop, base, next, step)
           Good == {n \in Nat : \E h \in [S -> R] : Fits(h, n)}
<1>1. 0 \in Good
  <2>1. Fits(base, 0)
    BY DEF RecursUpTo
  <2> QED BY <2>1
<1>2. ASSUME NEW n \in Good PROVE n + 1 \in Good
  <2>1. n \in Nat
    OBVIOUS
  <2>2. PICK h \in [S -> R] : Fits(h, n)
    OBVIOUS
  <2> DEFINE g == [p \in S |-> IF size[p] < n THEN h[p]
                               ELSE IF stop[p] THEN base[p] ELSE step[p][h[next[p]]]]
  <2>3. g \in [S -> R]
    OBVIOUS
  <2>4. ASSUME NEW p \in S, size[p] < n + 1 PROVE Recurs(g, p, stop, base, next, step)
    <3>1. size[p] \in Nat /\ next[p] \in S /\ size[next[p]] \in Nat
      OBVIOUS
    <3>2. ~stop[p] => g[next[p]] = h[next[p]]
      <4>1. ~stop[p] => size[next[p]] < n
        BY <2>1, <2>4, <3>1 DEF Shrinks
      <4> QED BY <3>1, <4>1
    <3>3. CASE size[p] < n
      <4>1. Recurs(h, p, stop, base, next, step)
        BY <2>2, <3>3 DEF RecursUpTo
      <4>2. g[p] = h[p]
        BY <3>3
      <4> HIDE DEF g
      <4> QED BY <3>2, <4>1, <4>2 DEF Recurs
    <3>4. CASE ~ (size[p] < n)
      <4>1. g[p] = IF stop[p] THEN base[p] ELSE step[p][h[next[p]]]
        BY <3>4
      <4> HIDE DEF g
      <4> QED BY <3>2, <4>1 DEF Recurs
    <3> QED BY <3>3, <3>4
  <2> HIDE DEF g
  <2>5. Fits(g, n + 1)
    BY <2>4 DEF RecursUpTo
  <2> HIDE DEF Fits
  <2> QED BY <2>1, <2>3, <2>5
<1> HIDE DEF Fits
<1>3. ASSUME NEW n \in Nat PROVE n \in Good
  <2> DEFINE Some == {k \in 0 .. n : k \in Good}
  <2>1. Some \in SUBSET (0 .. n) /\ 0 \in Some
    BY <1>1
  <2>2. \A k \in 0 .. n - 1 : k \in Some => k + 1 \in Some
    <3> SUFFICES ASSUME NEW k \in 0 .. n - 1, k \in Good PROVE k + 1 \in Good /\ k + 1 \in 0 .. n
      OBVIOUS
    <3> HIDE DEF Good
    <3> QED BY <1>2
  <2> HIDE DEF Some
  <2>3. 0 .. n \subseteq Some
    BY <2>1, <2>2, Counting
  <2>4. n \in Some
    BY <2>3
  <2> QED BY <2>4 DEF Some
<1> DEFINE at(n) == CHOOSE h \in [S -> R] : Fits(h, n)
           f == [p \in S |-> at(size[p] + 1)[p]]
<1>4. ASSUME NEW n \in Nat PROVE at(n) \in [S -> R] /\ Fits(at(n), n)
  <2>1. \E h \in [S -> R] : Fits(h, n)
    BY <1>3
  <2> QED BY <2>1
<1> HIDE DEF at, Good
<1>5. f \in [S -> R]
  <2>1. ASSUME NEW p \in S PROVE at(size[p] + 1)[p] \in R
    <3>1. size[p] + 1 \in Nat
      OBVIOUS
    <3> QED BY <1>4, <3>1
  <2> QED BY <2>1
<1>6. ASSUME NEW p \in S, NEW n \in Nat, size[p] < n PROVE f[p] = at(n)[p]
  <2> DEFINE m == size[p] + 1
  <2>1. m \in Nat /\ size[p] \in Nat /\ size[p] < m /\ m <= n
    BY <1>6
  <2>2. f[p] = at(m)[p]
    OBVIOUS
  <2> HIDE DEF m, f
  <2>3. Fits(at(m), m) /\ Fits(at(n), n)
    BY <1>4, <2>1
  <2>4. RecursUpTo(at(m), m, S, size, stop, base, next, step)
    BY <2>3 DEF Fits
  <2>5. RecursUpTo(at(n), m, S, size, stop, base, next, step)
    <3>1. \A q \in S : size[q] \in Nat /\ (size[q] < m => size[q] < n)
      BY <2>1
    <3> QED BY <2>3, <3>1 DEF Fits, RecursUpTo
  <2>6. SameUpTo(at(m), at(n), m, S, size)
    BY <2>1, <2>4, <2>5, RecursionUnique
  <2> QED BY <2>1, <2>2, <2>6 DEF SameUpTo
<1> HIDE DEF f
<1>7. ASSUME NEW p \in S PROVE Recurs(f, p, stop, base, next, step)
  <2> DEFINE n == size[p] + 1
  <2>1. n \in Nat /\ size[p] < n /\ next[p] \in S /\ (~stop[p] => size[next[p]] < n)
    <3>1. size[p] \in Nat /\ next[p] \in S /\ size[next[p]] \in Nat
      OBVIOUS
    <3> QED BY <3>1 DEF Shrinks
  <2> HIDE DEF n
  <2>2. f[p] = at(n)[p] /\ (~stop[p] => f[next[p]] = at(n)[next[p]])
    BY <1>6, <2>1
  <2>3. Recurs(at(n), p, stop, base, next, step)
    BY <1>4, <2>1 DEF Fits, RecursUpTo
  <2> QED BY <2>2, <2>3 DEF Recurs
<1> QED BY <1>5, <1>7

-----------------------------------------------------------------------------
(* Sequences. *)

\* What follows a place of the first of two sequences.
LEMMA TailOfConcat ==
  ASSUME NEW S, NEW a \in Seq(S), NEW b \in Seq(S), NEW w \in 1 .. Len(a) + 1
  PROVE  SubSeq(a \o b, w, Len(a \o b)) = SubSeq(a, w, Len(a)) \o b
<1> DEFINE p == a \o b
           one == SubSeq(p, w, Len(p))
           tail == SubSeq(a, w, Len(a))
           other == tail \o b
<1>1. /\ p \in Seq(S) /\ Len(p) = Len(a) + Len(b) /\ Len(a) \in Nat /\ Len(b) \in Nat
      /\ \A i \in 1 .. Len(a) + Len(b) : p[i] = IF i <= Len(a) THEN a[i] ELSE b[i - Len(a)]
  BY ConcatProperties
<1> HIDE DEF p
<1>2. one \in Seq(S) /\ Len(one) = Len(p) - w + 1 /\ \A i \in 1 .. Len(p) - w + 1 : one[i] = p[w + i - 1]
  BY <1>1
<1>3. tail \in Seq(S) /\ Len(tail) = Len(a) - w + 1 /\ \A i \in 1 .. Len(a) - w + 1 : tail[i] = a[w + i - 1]
  BY <1>1
<1> HIDE DEF one, tail
<1>4. other \in Seq(S) /\ Len(other) = Len(tail) + Len(b)
      /\ \A i \in 1 .. Len(tail) + Len(b) : other[i] = IF i <= Len(tail) THEN tail[i] ELSE b[i - Len(tail)]
  BY <1>3, ConcatProperties
<1> HIDE DEF other
<1>5. Len(one) = Len(other) /\ Len(one) \in Nat
  BY <1>1, <1>2, <1>3, <1>4
<1>6. ASSUME NEW i \in 1 .. Len(one) PROVE one[i] = other[i]
  <2>1. one[i] = p[w + i - 1] /\ w + i - 1 \in 1 .. Len(a) + Len(b) /\ i \in 1 .. Len(tail) + Len(b)
    BY <1>1, <1>2, <1>3
  <2>2. CASE i <= Len(tail)
    <3>1. w + i - 1 <= Len(a) /\ i \in 1 .. Len(a) - w + 1
      BY <1>1, <1>3, <2>2
    <3> QED BY <1>1, <1>3, <1>4, <2>1, <2>2, <3>1
  <2>3. CASE ~ (i <= Len(tail))
    <3>1. ~ (w + i - 1 <= Len(a)) /\ (w + i - 1) - Len(a) = i - Len(tail)
      BY <1>1, <1>3, <2>3
    <3> QED BY <1>1, <1>4, <2>1, <2>3, <3>1
  <2> QED BY <2>2, <2>3
<1>7. one = other
  BY <1>2, <1>4, <1>5, <1>6, SeqEqual
<1> QED BY <1>7 DEF one, other, p, tail

-----------------------------------------------------------------------------
(* Queues. *)

\* Nobody is in the queue twice.
NoRepeats(queue) == \A i, j \in 1 .. Len(queue) : queue[i] = queue[j] => i = j

\* The place of a ticket, and what is left when it is taken out.
LEMMA RemoveFirstIs ==
  ASSUME NEW S, NEW q \in Seq(S), NoRepeats(q), NEW t, \E i \in 1 .. Len(q) : q[i] = t
  PROVE  \E k \in 1 .. Len(q) :
           /\ q[k] = t
           /\ RemoveFirst(q, t) \in Seq(S)
           /\ Len(RemoveFirst(q, t)) = Len(q) - 1
           /\ \A i \in 1 .. Len(q) - 1 :
                RemoveFirst(q, t)[i] = IF i < k THEN q[i] ELSE q[i + 1]
<1>0. Len(q) \in Nat
  OBVIOUS
<1> DEFINE places == {i \in 1 .. Len(q) : q[i] = t}
<1>1. PICK k \in 1 .. Len(q) : q[k] = t /\ RemoveFirst(q, t) = RemoveAt(q, k)
  <2>1. PICK k \in 1 .. Len(q) : q[k] = t
    OBVIOUS
  <2>2. places = {k}
    BY <2>1 DEF NoRepeats
  <2>3. RemoveFirst(q, t) = RemoveAt(q, Min(places))
    BY <2>2 DEF RemoveFirst, SelectInSeq
  <2>4. Min({k}) = k
    BY <1>0, <2>1 DEF Min
  <2> QED BY <2>1, <2>2, <2>3, <2>4
<1> HIDE DEF places
<1> DEFINE front == SubSeq(q, 1, k - 1)
           back == SubSeq(q, k + 1, Len(q))
<1>3. front \in Seq(S) /\ Len(front) = k - 1 /\ \A i \in 1 .. k - 1 : front[i] = q[i]
  BY <1>0, <1>1
<1>4. back \in Seq(S) /\ Len(back) = Len(q) - k /\ \A i \in 1 .. Len(q) - k : back[i] = q[k + i]
  BY <1>0, <1>1
<1>2. RemoveFirst(q, t) = front \o back
  BY <1>1 DEF RemoveAt
<1> HIDE DEF front, back
<1>5. /\ front \o back \in Seq(S)
      /\ Len(front \o back) = Len(front) + Len(back)
      /\ \A i \in 1 .. Len(front) + Len(back) :
           (front \o back)[i] = IF i <= Len(front) THEN front[i] ELSE back[i - Len(front)]
  BY <1>3, <1>4, ConcatProperties
<1>6. Len(front) + Len(back) = Len(q) - 1
  BY <1>0, <1>1, <1>3, <1>4
<1>7. ASSUME NEW i \in 1 .. Len(q) - 1
      PROVE  (front \o back)[i] = IF i < k THEN q[i] ELSE q[i + 1]
  <2>1. (front \o back)[i] = IF i <= k - 1 THEN front[i] ELSE back[i - (k - 1)]
    BY <1>3, <1>5, <1>6
  <2>2. CASE i <= k - 1
    BY <1>0, <1>1, <1>3, <2>1, <2>2
  <2>3. CASE ~(i <= k - 1)
    <3>1. i - (k - 1) \in 1 .. Len(q) - k /\ k + (i - (k - 1)) = i + 1
      BY <1>0, <1>1, <2>3
    <3>2. back[i - (k - 1)] = q[i + 1]
      BY <1>4, <3>1
    <3> QED BY <1>0, <1>1, <2>1, <2>3, <3>2
  <2> QED BY <2>2, <2>3
<1>8. Len(RemoveFirst(q, t)) = Len(q) - 1
  BY <1>2, <1>5, <1>6
<1> QED BY <1>1, <1>2, <1>5, <1>7, <1>8

LEMMA RemoveFirstAbsent ==
  ASSUME NEW q, NEW t, ~ \E i \in 1 .. Len(q) : q[i] = t
  PROVE  RemoveFirst(q, t) = q
BY DEF RemoveFirst

\* Taking a ticket out leaves the others, once each, and none of its owner.
LEMMA Leaving ==
  ASSUME NEW S, NEW q \in Seq(S), NoRepeats(q), NEW t
  PROVE  /\ RemoveFirst(q, t) \in Seq(S)
         /\ NoRepeats(RemoveFirst(q, t))
         /\ ToSet(RemoveFirst(q, t)) = ToSet(q) \ {t}
<1> DEFINE p == RemoveFirst(q, t)
<1>0. Len(q) \in Nat
  OBVIOUS
<1>1. CASE \E i \in 1 .. Len(q) : q[i] = t
  <2>1. PICK k \in 1 .. Len(q) :
           /\ q[k] = t
           /\ p \in Seq(S)
           /\ Len(p) = Len(q) - 1
           /\ \A i \in 1 .. Len(q) - 1 : p[i] = IF i < k THEN q[i] ELSE q[i + 1]
    BY <1>1, RemoveFirstIs
  <2> HIDE DEF p
  <2>2. NoRepeats(p)
    <3> SUFFICES ASSUME NEW i \in 1 .. Len(p), NEW j \in 1 .. Len(p), p[i] = p[j]
                 PROVE  i = j
      BY DEF NoRepeats
    <3> DEFINE old(n) == IF n < k THEN n ELSE n + 1
    <3>1. p[i] = q[old(i)] /\ p[j] = q[old(j)]
      BY <2>1
    <3>2. old(i) \in 1 .. Len(q) /\ old(j) \in 1 .. Len(q)
      BY <1>0, <2>1
    <3>3. old(i) = old(j)
      BY <3>1, <3>2 DEF NoRepeats
    <3> QED BY <1>0, <2>1, <3>3
  <2>3. ASSUME NEW i \in 1 .. Len(p)
        PROVE  p[i] \in ToSet(q) \ {t}
    <3>1. p[i] = IF i < k THEN q[i] ELSE q[i + 1]
      BY <2>1
    <3>2. i \in 1 .. Len(q) /\ i + 1 \in 1 .. Len(q)
      BY <1>0, <2>1
    <3>3. q[i] \in ToSet(q) /\ q[i + 1] \in ToSet(q)
      BY <3>2 DEF ToSet
    <3>4. i < k => q[i] # t
      BY <1>0, <2>1, <3>2 DEF NoRepeats
    <3>5. ~(i < k) => q[i + 1] # t
      BY <1>0, <2>1, <3>2 DEF NoRepeats
    <3> QED BY <3>1, <3>3, <3>4, <3>5
  <2>4. ASSUME NEW j \in 1 .. Len(q), q[j] # t
        PROVE  \E i \in 1 .. Len(p) : p[i] = q[j]
    <3>1. CASE j < k
      <4>1. j \in 1 .. Len(p) /\ p[j] = q[j]
        BY <1>0, <2>1, <3>1
      <4> QED BY <4>1
    <3>2. CASE ~(j < k)
      <4>1. j # k
        BY <2>1, <2>4
      <4>2. j - 1 \in 1 .. Len(p) /\ ~(j - 1 < k) /\ (j - 1) + 1 = j
        BY <1>0, <2>1, <3>2, <4>1
      <4>3. p[j - 1] = q[j]
        BY <2>1, <4>2
      <4> QED BY <4>2, <4>3
    <3> QED BY <3>1, <3>2
  <2>5. ToSet(p) = ToSet(q) \ {t}
    <3>1. ToSet(p) = {p[i] : i \in 1 .. Len(p)} /\ ToSet(q) = {q[i] : i \in 1 .. Len(q)}
      BY <2>1 DEF ToSet
    <3> QED BY <2>3, <2>4, <3>1
  <2> QED BY <2>1, <2>2, <2>5 DEF p
<1>2. CASE ~ \E i \in 1 .. Len(q) : q[i] = t
  <2>1. p = q
    BY <1>2, RemoveFirstAbsent
  <2>2. t \notin ToSet(q)
    BY <1>2 DEF ToSet
  <2> QED BY <2>1, <2>2
<1> QED BY <1>1, <1>2

\* Whoever leaves from behind does not disturb the one in front.
LEMMA LeavingKeepsHead ==
  ASSUME NEW S, NEW q \in Seq(S), NoRepeats(q), q # <<>>, NEW t, Head(q) # t
  PROVE  RemoveFirst(q, t) # <<>> /\ Head(RemoveFirst(q, t)) = Head(q)
<1>0. Len(q) \in Nat \ {0} /\ Head(q) = q[1]
  OBVIOUS
<1>1. CASE \E i \in 1 .. Len(q) : q[i] = t
  <2>1. PICK k \in 1 .. Len(q) :
           /\ q[k] = t
           /\ RemoveFirst(q, t) \in Seq(S)
           /\ Len(RemoveFirst(q, t)) = Len(q) - 1
           /\ \A i \in 1 .. Len(q) - 1 : RemoveFirst(q, t)[i] = IF i < k THEN q[i] ELSE q[i + 1]
    BY <1>1, RemoveFirstIs
  <2>2. 1 < k
    BY <1>0, <2>1
  <2>3. 1 \in 1 .. Len(q) - 1
    BY <1>0, <2>1, <2>2
  <2>4. RemoveFirst(q, t)[1] = q[1]
    BY <2>1, <2>2, <2>3
  <2> QED BY <1>0, <2>1, <2>3, <2>4
<1>2. CASE ~ \E i \in 1 .. Len(q) : q[i] = t
  BY <1>2, RemoveFirstAbsent
<1> QED BY <1>1, <1>2

\* Joining at the end.
LEMMA Joining ==
  ASSUME NEW S, NEW q \in Seq(S), NoRepeats(q), NEW t \in S, t \notin ToSet(q)
  PROVE  /\ Append(q, t) \in Seq(S)
         /\ Append(q, t) # <<>>
         /\ NoRepeats(Append(q, t))
         /\ ToSet(Append(q, t)) = ToSet(q) \cup {t}
         /\ Head(Append(q, t)) = IF q = <<>> THEN t ELSE Head(q)
<1> DEFINE p == Append(q, t)
<1>1. /\ Len(q) \in Nat
      /\ p \in Seq(S) /\ Len(p) = Len(q) + 1 /\ p # <<>>
      /\ \A i \in 1 .. Len(q) : p[i] = q[i]
      /\ p[Len(q) + 1] = t
  OBVIOUS
<1> HIDE DEF p
<1>2. \A i \in 1 .. Len(q) : q[i] # t
  BY DEF ToSet
<1>3. NoRepeats(p)
  <2> SUFFICES ASSUME NEW i \in 1 .. Len(p), NEW j \in 1 .. Len(p), p[i] = p[j]
               PROVE  i = j
    BY DEF NoRepeats
  <2> QED BY <1>1, <1>2 DEF NoRepeats
<1>4. ToSet(p) = ToSet(q) \cup {t}
  <2>1. ToSet(p) = {p[i] : i \in 1 .. Len(p)} /\ ToSet(q) = {q[i] : i \in 1 .. Len(q)}
    BY <1>1 DEF ToSet
  <2>2. 1 .. Len(p) = (1 .. Len(q)) \cup {Len(q) + 1}
    BY <1>1
  <2> QED BY <1>1, <2>1, <2>2
<1>5. Head(p) = p[1] /\ (q # <<>> => Head(q) = q[1] /\ Len(q) > 0) /\ (q = <<>> => Len(q) = 0)
  BY <1>1
<1> QED BY <1>1, <1>3, <1>4, <1>5 DEF p

\* The first is served.
LEMMA Serving ==
  ASSUME NEW S, NEW q \in Seq(S), q # <<>>, NoRepeats(q)
  PROVE  /\ Head(q) \in ToSet(q)
         /\ Tail(q) \in Seq(S)
         /\ NoRepeats(Tail(q))
         /\ ToSet(Tail(q)) = ToSet(q) \ {Head(q)}
<1> DEFINE p == Tail(q)
<1>1. /\ Len(q) \in Nat \ {0} /\ Head(q) = q[1]
      /\ p \in Seq(S) /\ Len(p) = Len(q) - 1
      /\ \A i \in 1 .. Len(p) : p[i] = q[i + 1]
  OBVIOUS
<1> HIDE DEF p
<1>2. ToSet(p) = {p[i] : i \in 1 .. Len(p)} /\ ToSet(q) = {q[i] : i \in 1 .. Len(q)}
  BY <1>1 DEF ToSet
<1>3. NoRepeats(p)
  <2> SUFFICES ASSUME NEW i \in 1 .. Len(p), NEW j \in 1 .. Len(p), p[i] = p[j]
               PROVE  i = j
    BY DEF NoRepeats
  <2>1. i + 1 \in 1 .. Len(q) /\ j + 1 \in 1 .. Len(q) /\ q[i + 1] = q[j + 1]
    BY <1>1
  <2> QED BY <1>1, <2>1 DEF NoRepeats
<1>4. ASSUME NEW i \in 1 .. Len(p)
      PROVE  p[i] \in ToSet(q) \ {q[1]}
  <2>1. i + 1 \in 1 .. Len(q) /\ i + 1 # 1 /\ 1 \in 1 .. Len(q)
    BY <1>1
  <2> QED BY <1>1, <1>2, <2>1 DEF NoRepeats
<1>5. ASSUME NEW j \in 1 .. Len(q), q[j] # q[1]
      PROVE  \E i \in 1 .. Len(p) : p[i] = q[j]
  <2>1. j - 1 \in 1 .. Len(p) /\ (j - 1) + 1 = j
    BY <1>1, <1>5
  <2> QED BY <1>1, <2>1
<1> QED BY <1>1, <1>2, <1>3, <1>4, <1>5 DEF p

\* Nobody is in a queue with no places.
LEMMA EmptyQueue == NoRepeats(<<>>) /\ ToSet(<<>>) = {}
BY DEF NoRepeats, ToSet
=============================================================================
