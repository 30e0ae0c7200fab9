----------------------------- MODULE Utf8Proofs -----------------------------
(***************************************************************************)
(* What the UTF-8 automaton does with a sequence of bytes, however long,   *)
(* and the induction over the natural numbers this rests on: a property    *)
(* of numbers is the set of those that have it.  The induction itself      *)
(* rests on the library's theorem that a well-founded relation has minimal *)
(* elements.                                                               *)
(***************************************************************************)
EXTENDS Utf8, FiniteSetsExt, SequenceTheorems, WellFoundedInduction, TLAPS

\* A set of natural numbers has a smallest member.
LEMMA NatMinimum ==
  ASSUME NEW T, T \subseteq Nat, T # {}
  PROVE  \E x \in T : \A y \in T : x <= y
<1> DEFINE R == OpToRel(<, Nat)
<1>1. IsWellFoundedOn(R, Nat)
  BY NatLessThanWellFounded
<1>2. \A x, y \in Nat : x < y => <<x, y>> \in R
  BY DEF OpToRel
<1> HIDE DEF R
<1>3. \E x \in T : \A y \in T : ~ (<<y, x>> \in R)
  BY <1>1, WFMin
<1>4. PICK x \in T : \A y \in T : ~ (<<y, x>> \in R)
  BY <1>3
<1>5. ASSUME NEW y \in T PROVE x <= y
  <2>1. ~ (<<y, x>> \in R) /\ x \in Nat /\ y \in Nat
    BY <1>4
  <2>2. ~ (y < x)
    BY <2>1, <1>2
  <2> QED BY <2>1, <2>2
<1> QED BY <1>5

\* FiniteSetsExt's Min is that member.
LEMMA MinOfNats ==
  ASSUME NEW T, T \subseteq Nat, T # {}
  PROVE  Min(T) \in T /\ \A y \in T : Min(T) <= y
BY NatMinimum DEF Min

\* What holds of 0, and of n + 1 when it holds of n, holds of every number.
LEMMA SetInduction ==
  ASSUME NEW S, 0 \in S, \A n \in Nat : n \in S => n + 1 \in S
  PROVE  Nat \subseteq S
<1> DEFINE T == Nat \ S
<1>1. SUFFICES ASSUME T # {} PROVE FALSE
  OBVIOUS
<1>2. PICK x \in T : \A y \in T : x <= y
  BY <1>1, NatMinimum
<1>3. x # 0 /\ x \in Nat
  OBVIOUS
<1>4. x - 1 \in Nat /\ x - 1 \notin T /\ x = (x - 1) + 1
  BY <1>2, <1>3
<1> QED BY <1>2, <1>4

\* h begins as first and next say, up to the value at n.
Begins(h, n, V, first, next) ==
  /\ h \in [Nat -> V] /\ h[0] = first
  /\ \A i \in Nat : i < n => h[i + 1] = next[i][h[i]]

\* There is a beginning of any length.
LEMMA BeginningExists ==
  ASSUME NEW V, NEW first \in V, NEW next \in [Nat -> [V -> V]], NEW n \in Nat
  PROVE  \E h \in [Nat -> V] : Begins(h, n, V, first, next)
<1> DEFINE S == {m \in Nat : \E h \in [Nat -> V] : Begins(h, m, V, first, next)}
<1>1. 0 \in S
  <2>1. Begins([i \in Nat |-> first], 0, V, first, next) BY DEF Begins
  <2> QED BY <2>1
<1>2. ASSUME NEW m \in Nat, m \in S PROVE m + 1 \in S
  <2>1. PICK h \in [Nat -> V] : Begins(h, m, V, first, next)
    BY <1>2
  <2>2. next[m][h[m]] \in V
    OBVIOUS
  <2> DEFINE k == [i \in Nat |-> IF i = m + 1 THEN next[m][h[m]] ELSE h[i]]
  <2>3. k \in [Nat -> V]
    BY <2>2
  <2>4. k[0] = first
    BY <2>1 DEF Begins
  <2>5. ASSUME NEW i \in Nat, i < m + 1 PROVE k[i + 1] = next[i][k[i]]
    <3>1. CASE i = m BY <3>1
    <3>2. CASE i # m
      <4>1. i < m /\ i + 1 # m + 1 /\ i # m + 1 BY <2>5, <3>2
      <4>2. h[i + 1] = next[i][h[i]] BY <2>1, <4>1 DEF Begins
      <4>3. k[i] = h[i] /\ k[i + 1] = h[i + 1] BY <4>1
      <4> QED BY <4>2, <4>3
    <3> QED BY <3>1, <3>2
  <2>6. Begins(k, m + 1, V, first, next)
    <3> HIDE DEF k
    <3> QED BY <2>3, <2>4, <2>5 DEF Begins
  <2> QED BY <2>3, <2>6
<1>3. Nat \subseteq S
  <2> HIDE DEF S
  <2> QED BY <1>1, <1>2, SetInduction
<1> QED BY <1>3

\* Two beginnings agree as far as both go.
LEMMA BeginningsAgree ==
  ASSUME NEW V, NEW first, NEW next, NEW n \in Nat, NEW a, NEW b,
         Begins(a, n, V, first, next), Begins(b, n, V, first, next)
  PROVE  \A i \in 0 .. n : a[i] = b[i]
<1> DEFINE E == {i \in Nat : i <= n => a[i] = b[i]}
<1>1. 0 \in E
  BY DEF Begins
<1>2. ASSUME NEW i \in Nat, i \in E PROVE i + 1 \in E
  <2>1. CASE i + 1 <= n
    <3>1. i < n /\ i <= n BY <2>1
    <3>2. a[i + 1] = next[i][a[i]] /\ b[i + 1] = next[i][b[i]]
      BY <3>1 DEF Begins
    <3>3. a[i] = b[i] BY <1>2, <3>1
    <3> QED BY <3>2, <3>3
  <2> QED BY <2>1
<1>3. Nat \subseteq E
  <2> HIDE DEF E
  <2> QED BY <1>1, <1>2, SetInduction
<1> QED BY <1>3

\* f has its value at 0 from first, and each value makes the next.
Grows(f, V, first, next) ==
  /\ f \in [Nat -> V] /\ f[0] = first
  /\ \A n \in Nat : f[n + 1] = next[n][f[n]]

\* There is a function on the natural numbers for a first value and a way to make the
\* next one: next[n] takes f[n] to f[n + 1].
LEMMA FunctionByInduction ==
  ASSUME NEW V, NEW first \in V, NEW next \in [Nat -> [V -> V]]
  PROVE  \E f : Grows(f, V, first, next)
<1> DEFINE Good(h, n) == Begins(h, n, V, first, next)
           G == [n \in Nat |-> CHOOSE h \in [Nat -> V] : Good(h, n)]
           f == [n \in Nat |-> G[n][n]]
<1>1. ASSUME NEW n \in Nat PROVE G[n] \in [Nat -> V] /\ Good(G[n], n)
  <2>1. \E h \in [Nat -> V] : Good(h, n)
    BY BeginningExists
  <2>2. G[n] = CHOOSE h \in [Nat -> V] : Good(h, n)
    OBVIOUS
  <2> HIDE DEF Good, G
  <2> QED BY <2>1, <2>2
<1> HIDE DEF G
<1>2. f \in [Nat -> V]
  <2>1. \A n \in Nat : G[n][n] \in V
    BY <1>1
  <2> QED BY <2>1
<1>3. f[0] = first
  BY <1>1 DEF Begins
<1>4. ASSUME NEW n \in Nat PROVE f[n + 1] = next[n][f[n]]
  <2>1. Good(G[n + 1], n + 1) /\ Good(G[n], n)
    BY <1>1
  <2>2. Good(G[n + 1], n)
    BY <2>1 DEF Begins
  <2>3. n \in 0 .. n
    OBVIOUS
  <2>4. G[n + 1][n] = G[n][n]
    <3>1. Begins(G[n + 1], n, V, first, next) /\ Begins(G[n], n, V, first, next)
      BY <2>1, <2>2
    <3> HIDE DEF Good
    <3>2. \A a, b : Begins(a, n, V, first, next) /\ Begins(b, n, V, first, next)
                     => \A i \in 0 .. n : a[i] = b[i]
      BY BeginningsAgree
    <3>3. \A i \in 0 .. n : G[n + 1][i] = G[n][i]
      BY <3>1, <3>2
    <3> QED BY <2>3, <3>3
  <2>5. n < n + 1
    OBVIOUS
  <2>6. G[n + 1][n + 1] = next[n][G[n + 1][n]]
    BY <2>1, <2>5 DEF Begins
  <2>7. f[n + 1] = G[n + 1][n + 1] /\ f[n] = G[n][n]
    OBVIOUS
  <2> QED BY <2>4, <2>6, <2>7
<1> HIDE DEF f
<1> QED BY <1>2, <1>3, <1>4 DEF Grows
-----------------------------------------------------------------------------
(* The table, and bytes in a row. *)

\* A byte has one of twelve classes.
LEMMA ClassType == ASSUME NEW b \in Byte PROVE Class(b) \in 0 .. 11
BY DEF Class, Byte

\* The table never leaves its nine states.
LEMMA AfterType ==
  ASSUME NEW s \in 0 .. 8, NEW c \in 0 .. 11 PROVE After(s, c) \in 0 .. 8
BY DEF After

\* Nor does decoding a byte.
LEMMA DecodeType == ASSUME NEW s \in 0 .. 8, NEW b \in Byte PROVE Decode(s, b) \in 0 .. 8
BY ClassType, AfterType DEF Decode

\* The states after each of the bytes of t.
LEMMA DecodedSteps ==
  ASSUME NEW s \in 0 .. 8, NEW t \in Seq(Byte)
  PROVE  \E f \in [0 .. Len(t) -> 0 .. 8] :
           /\ \A n \in 0 .. Len(t) : f[n] = IF n = 0 THEN s ELSE Decode(f[n - 1], t[n])
           /\ Decoded(s, t) = f[Len(t)]
<1> DEFINE V == 0 .. 8
           next == [n \in Nat |-> [v \in V |-> IF n + 1 <= Len(t) THEN Decode(v, t[n + 1]) ELSE v]]
           Eq(f) == f = [n \in 0 .. Len(t) |-> IF n = 0 THEN s ELSE Decode(f[n - 1], t[n])]
<1>1. next \in [Nat -> [V -> V]]
  <2>1. ASSUME NEW n \in Nat, NEW v \in V
        PROVE  (IF n + 1 <= Len(t) THEN Decode(v, t[n + 1]) ELSE v) \in V
    <3>1. CASE n + 1 <= Len(t)
      <4>1. t[n + 1] \in Byte BY <3>1
      <4> QED BY <3>1, <4>1, DecodeType
    <3> QED BY <3>1
  <2> QED BY <2>1
<1>2. PICK g \in [Nat -> V] : g[0] = s /\ \A n \in Nat : g[n + 1] = next[n][g[n]]
  <2>1. PICK W, k, z : W = V /\ k = next /\ z = s
    OBVIOUS
  <2>2. z \in W /\ k \in [Nat -> [W -> W]]
    BY <1>1, <2>1
  <2>3. PICK g : Grows(g, W, z, k)
    BY <2>2, FunctionByInduction
  <2> HIDE DEF next, V
  <2> QED BY <2>1, <2>3 DEF Grows
<1> DEFINE f0 == [n \in 0 .. Len(t) |-> g[n]]
<1>3. Eq(f0)
  <2>1. ASSUME NEW n \in 0 .. Len(t) PROVE f0[n] = IF n = 0 THEN s ELSE Decode(f0[n - 1], t[n])
    <3>1. CASE n = 0 BY <1>2, <3>1
    <3>2. CASE n # 0
      <4>1. n - 1 \in Nat /\ n - 1 \in 0 .. Len(t) /\ (n - 1) + 1 = n /\ n <= Len(t) BY <3>2
      <4>2. g[n] = next[n - 1][g[n - 1]] BY <1>2, <4>1
      <4>3. g[n - 1] \in V BY <4>1
      <4>4. next[n - 1][g[n - 1]] = Decode(g[n - 1], t[n]) BY <4>1, <4>3
      <4> QED BY <3>2, <4>1, <4>2, <4>4
    <3> QED BY <3>1, <3>2
  <2> QED BY <2>1
<1> DEFINE f == CHOOSE h : Eq(h)
<1>4. Eq(f) BY <1>3
<1>5. Decoded(s, t) = f[Len(t)]
  BY DEF Decoded
<1>6. PICK h : Eq(h) /\ h = f
  BY <1>4
<1>7. ASSUME NEW n \in 0 .. Len(t) PROVE h[n] = IF n = 0 THEN s ELSE Decode(h[n - 1], t[n])
  BY <1>6
<1>8. h \in [0 .. Len(t) -> 0 .. 8]
  <2> DEFINE T == {n \in Nat : n <= Len(t) => h[n] \in 0 .. 8}
  <2>1. 0 \in T
    BY <1>7
  <2>2. ASSUME NEW n \in Nat, n \in T PROVE n + 1 \in T
    <3>1. CASE n + 1 <= Len(t)
      <4>1. n + 1 \in 0 .. Len(t) /\ n + 1 # 0 /\ (n + 1) - 1 = n /\ n <= Len(t)
            /\ n + 1 \in 1 .. Len(t)
        BY <3>1
      <4>2. h[n + 1] = Decode(h[n], t[n + 1])
        BY <1>7, <4>1
      <4>3. h[n] \in 0 .. 8 /\ t[n + 1] \in Byte
        BY <2>2, <4>1
      <4> QED BY <4>2, <4>3, DecodeType
    <3> QED BY <3>1
  <2>3. Nat \subseteq T
    <3> HIDE DEF T
    <3> QED BY <2>1, <2>2, SetInduction
  <2>4. \A n \in 0 .. Len(t) : h[n] \in 0 .. 8
    BY <2>3
  <2>5. h = [n \in 0 .. Len(t) |-> h[n]]
    BY <1>6
  <2> QED BY <2>4, <2>5
<1>9. Decoded(s, t) = h[Len(t)]
  BY <1>5, <1>6
<1> HIDE DEF f
<1> QED BY <1>7, <1>8, <1>9

\* No bytes change nothing.
LEMMA DecodedEmpty == ASSUME NEW s \in 0 .. 8 PROVE Decoded(s, <<>>) = s
<1>1. PICK e : e = <<>>
  OBVIOUS
<1>2. e \in Seq(Byte) /\ Len(e) = 0
  BY <1>1
<1>3. PICK f \in [0 .. Len(e) -> 0 .. 8] :
        /\ \A n \in 0 .. Len(e) : f[n] = IF n = 0 THEN s ELSE Decode(f[n - 1], e[n])
        /\ Decoded(s, e) = f[Len(e)]
  BY <1>2, DecodedSteps
<1>4. f[0] = s
  BY <1>2, <1>3
<1> QED BY <1>1, <1>2, <1>3, <1>4

\* No bytes lead out of the table.
LEMMA DecodedType ==
  ASSUME NEW s \in 0 .. 8, NEW t \in Seq(Byte) PROVE Decoded(s, t) \in 0 .. 8
<1>1. PICK f \in [0 .. Len(t) -> 0 .. 8] : Decoded(s, t) = f[Len(t)]
  BY DecodedSteps
<1>2. Len(t) \in 0 .. Len(t)
  OBVIOUS
<1> QED BY <1>1, <1>2

\* The states after b's bytes, from where a's bytes led, are those after a \o b's.
LEMMA DecodedConcat ==
  ASSUME NEW s \in 0 .. 8, NEW a \in Seq(Byte), NEW b \in Seq(Byte)
  PROVE  Decoded(s, a \o b) = Decoded(Decoded(s, a), b)
<1> DEFINE c == a \o b
<1>1. /\ c \in Seq(Byte) /\ Len(c) = Len(a) + Len(b)
      /\ \A i \in 1 .. Len(a) + Len(b) : c[i] = IF i <= Len(a) THEN a[i] ELSE b[i - Len(a)]
  BY ConcatProperties
<1> HIDE DEF c
<1>2. PICK la, lb : la = Len(a) /\ lb = Len(b)
  OBVIOUS
<1>2a. la \in Nat /\ lb \in Nat
  BY <1>2
<1>3. PICK f \in [0 .. Len(a) -> 0 .. 8] :
        /\ \A n \in 0 .. Len(a) : f[n] = IF n = 0 THEN s ELSE Decode(f[n - 1], a[n])
        /\ Decoded(s, a) = f[Len(a)]
  BY DecodedSteps
<1>4. PICK z : z = Decoded(s, a)
  OBVIOUS
<1>4a. z \in 0 .. 8
  BY <1>4, DecodedType
<1>5. PICK g \in [0 .. Len(b) -> 0 .. 8] :
        /\ \A n \in 0 .. Len(b) : g[n] = IF n = 0 THEN z ELSE Decode(g[n - 1], b[n])
        /\ Decoded(z, b) = g[Len(b)]
  BY <1>4a, DecodedSteps
<1>6. PICK h \in [0 .. Len(c) -> 0 .. 8] :
        /\ \A n \in 0 .. Len(c) : h[n] = IF n = 0 THEN s ELSE Decode(h[n - 1], c[n])
        /\ Decoded(s, c) = h[Len(c)]
  BY <1>1, DecodedSteps
<1>7. \A n \in 0 .. la : h[n] = f[n]
  <2> DEFINE T == {n \in Nat : n <= la => h[n] = f[n]}
  <2>1. 0 \in T
    BY <1>1, <1>2, <1>2a, <1>3, <1>6
  <2>2. ASSUME NEW n \in Nat, n \in T PROVE n + 1 \in T
    <3>1. CASE n + 1 <= la
      <4>1. /\ n + 1 \in 0 .. Len(a) /\ n + 1 \in 0 .. Len(c) /\ n + 1 # 0
            /\ (n + 1) - 1 = n /\ n <= la
            /\ n + 1 \in 1 .. Len(a) + Len(b) /\ n + 1 <= Len(a)
        BY <1>1, <1>2, <1>2a, <3>1
      <4>2. c[n + 1] = a[n + 1]
        BY <1>1, <4>1
      <4>3. h[n + 1] = Decode(h[n], c[n + 1]) /\ f[n + 1] = Decode(f[n], a[n + 1])
        BY <1>3, <1>6, <4>1
      <4> QED BY <2>2, <4>1, <4>2, <4>3
    <3> QED BY <3>1
  <2>3. Nat \subseteq T
    <3> HIDE DEF T
    <3> QED BY <2>1, <2>2, SetInduction
  <2> QED BY <2>3
<1>8. \A n \in 0 .. lb : h[la + n] = g[n]
  <2> DEFINE T == {n \in Nat : n <= lb => h[la + n] = g[n]}
  <2>1. 0 \in T
    <3>1. h[la] = z /\ la + 0 = la
      BY <1>2, <1>2a, <1>3, <1>4, <1>7
    <3>2. g[0] = z
      BY <1>2, <1>2a, <1>5
    <3> QED BY <3>1, <3>2
  <2>2. ASSUME NEW n \in Nat, n \in T PROVE n + 1 \in T
    <3>1. CASE n + 1 <= lb
      <4>1. /\ la + (n + 1) \in 0 .. Len(c) /\ n + 1 \in 0 .. Len(b) /\ n + 1 # 0
            /\ (la + (n + 1)) - 1 = la + n /\ (n + 1) - 1 = n /\ n <= lb
            /\ la + (n + 1) \in 1 .. Len(a) + Len(b) /\ ~ (la + (n + 1) <= Len(a))
            /\ (la + (n + 1)) - Len(a) = n + 1 /\ la + (n + 1) # 0
        BY <1>1, <1>2, <1>2a, <3>1
      <4>2. c[la + (n + 1)] = b[n + 1]
        BY <1>1, <4>1
      <4>3. h[la + (n + 1)] = Decode(h[la + n], c[la + (n + 1)])
        BY <1>6, <4>1
      <4>3a. g[n + 1] = Decode(g[n], b[n + 1])
        BY <1>5, <4>1
      <4> QED BY <2>2, <4>1, <4>2, <4>3, <4>3a
    <3> QED BY <3>1
  <2>3. Nat \subseteq T
    <3> HIDE DEF T
    <3> QED BY <2>1, <2>2, SetInduction
  <2> QED BY <2>3
<1>9. h[Len(c)] = g[Len(b)]
  BY <1>1, <1>2, <1>2a, <1>8
<1> QED BY <1>4, <1>5, <1>6, <1>9 DEF c

\* What is refused stays refused.
LEMMA DecodedReject == ASSUME NEW t \in Seq(Byte) PROVE Decoded(1, t) = 1
<1>1. PICK f \in [0 .. Len(t) -> 0 .. 8] :
        /\ \A n \in 0 .. Len(t) : f[n] = IF n = 0 THEN 1 ELSE Decode(f[n - 1], t[n])
        /\ Decoded(1, t) = f[Len(t)]
  BY DecodedSteps
<1>2. \A b \in Byte : Decode(1, b) = 1
  BY DEF Decode, After
<1> DEFINE T == {n \in Nat : n <= Len(t) => f[n] = 1}
<1>3. 0 \in T
  BY <1>1
<1>4. ASSUME NEW n \in Nat, n \in T PROVE n + 1 \in T
  <2>1. CASE n + 1 <= Len(t)
    <3>1. /\ n + 1 \in 0 .. Len(t) /\ n + 1 # 0 /\ (n + 1) - 1 = n /\ n <= Len(t)
          /\ t[n + 1] \in Byte
      BY <2>1
    <3> QED BY <1>1, <1>2, <1>4, <3>1
  <2> QED BY <2>1
<1>5. Nat \subseteq T
  <2> HIDE DEF T
  <2> QED BY <1>3, <1>4, SetInduction
<1> QED BY <1>1, <1>5
=============================================================================
