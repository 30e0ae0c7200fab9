-------------------------- MODULE JsonValuesProofs --------------------------
(***************************************************************************)
(* The parser of values and dump, for texts of any length and values of    *)
(* any depth: the parser accepts the texts of the grammar and only those,  *)
(* and it reads what dump has written as the value it was written for.     *)
(*                                                                         *)
(* That it accepts the texts of the grammar is an induction on the steps   *)
(* of the grammar (TextsTaken).  That it accepts no other is an invariant, *)
(* Sound: every container the parser is in has a bracket in the text and,  *)
(* behind it, the elements or members that are complete.  That dump is     *)
(* read back is an induction on the levels of a value (WrittenReturns).    *)
(***************************************************************************)
EXTENDS JsonValues, Utf8Proofs

\* The type of a token is its first component.
LEMMA TokenTypes ==
  ASSUME NEW t \in Tokens
  PROVE  /\ t[1] \in {"{", "}", "[", "]", ":", ",", "string", "number", "bad", "end"}
         /\ t[1] = "{" <=> t = <<"{">>
         /\ t[1] = "}" <=> t = <<"}">>
         /\ t[1] = "[" <=> t = <<"[">>
         /\ t[1] = "]" <=> t = <<"]">>
         /\ t[1] = ":" <=> t = <<":">>
         /\ t[1] = "," <=> t = <<",">>
         /\ t[1] = "end" <=> t = <<"end">>
         /\ t[1] = "string" <=> t \in Strings
         /\ t[1] = "number" <=> t \in Numbers
<1>1. \A x : <<x>>[1] = x
  OBVIOUS
<1>2. ASSUME t \in Strings PROVE t[1] = "string"
  BY <1>2 DEF Strings
<1>3. ASSUME t \in Numbers PROVE t[1] = "number"
  BY <1>3 DEF Numbers
<1>4. ASSUME t \notin Strings, t \notin Numbers
      PROVE  \E x \in {"{", "}", "[", "]", ":", ",", "bad", "end"} : t = <<x>>
  BY <1>4 DEF Tokens, Structure
<1>5. CASE t \in Strings
  <2>1. t[1] = "string" BY <1>2, <1>5
  <2>2. t \notin Numbers BY <2>1, <1>3
  <2> QED BY <1>1, <1>5, <2>1, <2>2
<1>6. CASE t \in Numbers
  <2>1. t[1] = "number" BY <1>3, <1>6
  <2>2. t \notin Strings BY <2>1, <1>2
  <2> QED BY <1>1, <1>6, <2>1, <2>2
<1>7. CASE t \notin Strings /\ t \notin Numbers
  <2>1. PICK x \in {"{", "}", "[", "]", ":", ",", "bad", "end"} : t = <<x>>
    BY <1>4, <1>7
  <2>2. t[1] = x
    BY <1>1, <2>1
  <2>3. x # "string" /\ x # "number"
    OBVIOUS
  <2>4. \A y : t = <<y>> <=> x = y
    BY <1>1, <2>1
  <2> QED BY <1>7, <2>1, <2>2, <2>3, <2>4
<1> QED BY <1>5, <1>6, <1>7

\* What the sets of tokens hold.
LEMMA TokenSet ==
  /\ \A x \in {"{", "}", "[", "]", ":", ",", "bad", "end"} : <<x>> \in Tokens
  /\ Strings \subseteq Tokens /\ Numbers \subseteq Tokens
  /\ \A name \in ToSet(Names) : <<"string", name>> \in Strings
BY DEF Tokens, Structure, Strings, Numbers

\* Every string token is one of Names.
LEMMA StringName ==
  ASSUME NEW t \in Strings
  PROVE  t[2] \in ToSet(Names) /\ t = <<"string", t[2]>> /\ t[1] = "string"
BY DEF Strings

\* Every number token is one of Literals.
LEMMA NumberLiteral ==
  ASSUME NEW t \in Numbers
  PROVE  t[2] \in Literals /\ t = <<"number", t[2]>> /\ t[1] = "number"
BY DEF Numbers

\* A finite number is read as one of the two that dump writes ...
LEMMA ScannedType ==
  ASSUME NEW t \in Numbers, t # Infinite
  PROVE  Scanned(t[2]) \in {"0", "1"}
BY DEF Numbers, Literals, Infinite, Scanned

\* ... and each of these is read as itself.
LEMMA ScannedAgain == \A x \in {"0", "1"} : Scanned(x) = x /\ <<"number", x>> \in Numbers
                                            /\ <<"number", x>> # Infinite
BY DEF Numbers, Literals, Infinite, Scanned
-----------------------------------------------------------------------------
(* The recursive functions are what their definitions say. *)

\* The values over the set S of values.
Over(S) == Strings \cup ({"number"} \X {"0", "1"}) \cup ({"array"} \X Seq(S))
             \cup ({"object"} \X [ToSet(Names) -> S \cup {Nothing}])

\* h begins as Values does, up to n.
Nests(h, n) == h[0] = {} /\ \A i \in Nat : i < n => h[i + 1] = Over(h[i])

\* There is such a beginning, of any length ...
LEMMA NestsExists == ASSUME NEW n \in Nat PROVE \E h : Nests(h, n)
<1> DEFINE S == {m \in Nat : \E h : Nests(h, m)}
<1>1. 0 \in S
  <2>1. Nests([i \in Nat |-> {}], 0) BY DEF Nests
  <2> QED BY <2>1
<1>2. ASSUME NEW m \in Nat, m \in S PROVE m + 1 \in S
  <2>1. PICK h : Nests(h, m)
    BY <1>2
  <2>2. PICK x : x = Over(h[m])
    OBVIOUS
  <2> DEFINE k == [i \in Nat |-> IF i = m + 1 THEN x ELSE h[i]]
  <2>3. k[0] = {}
    BY <2>1 DEF Nests
  <2>4. ASSUME NEW i \in Nat, i < m + 1 PROVE k[i + 1] = Over(k[i])
    <3>1. CASE i = m
      <4>1. k[i + 1] = x /\ k[i] = h[m] BY <3>1
      <4> QED BY <2>2, <4>1
    <3>2. CASE i # m
      <4>1. i < m /\ i + 1 # m + 1 /\ i # m + 1 /\ i + 1 \in Nat BY <2>4, <3>2
      <4>2. h[i + 1] = Over(h[i]) BY <2>1, <4>1 DEF Nests
      <4>3. k[i] = h[i] /\ k[i + 1] = h[i + 1] BY <4>1
      <4> QED BY <4>2, <4>3
    <3> QED BY <3>1, <3>2
  <2>5. Nests(k, m + 1)
    <3> HIDE DEF k
    <3> QED BY <2>3, <2>4 DEF Nests
  <2> QED BY <2>5
<1>3. Nat \subseteq S
  <2> HIDE DEF S
  <2> QED BY <1>1, <1>2, SetInduction
<1> QED BY <1>3

\* ... and only one.
LEMMA NestsAgree ==
  ASSUME NEW n \in Nat, NEW a, NEW b, Nests(a, n), Nests(b, n)
  PROVE  \A i \in 0 .. n : a[i] = b[i]
<1> DEFINE S == {i \in Nat : i <= n => a[i] = b[i]}
<1>1. 0 \in S
  BY DEF Nests
<1>2. ASSUME NEW i \in Nat, i \in S PROVE i + 1 \in S
  <2>1. CASE i + 1 <= n
    <3>1. i < n /\ i <= n BY <2>1
    <3>2. a[i + 1] = Over(a[i]) /\ b[i + 1] = Over(b[i])
      BY <3>1 DEF Nests
    <3>3. a[i] = b[i] BY <1>2, <3>1
    <3> QED BY <3>2, <3>3
  <2> QED BY <2>1
<1>3. Nat \subseteq S
  <2> HIDE DEF S
  <2> QED BY <1>1, <1>2, SetInduction
<1> QED BY <1>3

\* Values holds, level by level, the values over the level below.
LEMMA ValuesStep == Values[0] = {} /\ \A n \in Nat : Values[n + 1] = Over(Values[n])
<1> DEFINE Eq(f) == f = [n \in Nat |-> IF n = 0 THEN {} ELSE Over(f[n - 1])]
           G == [n \in Nat |-> CHOOSE h : Nests(h, n)]
           g == [n \in Nat |-> G[n][n]]
<1>1. ASSUME NEW n \in Nat PROVE Nests(G[n], n)
  BY NestsExists
<1> HIDE DEF G
<1>2. ASSUME NEW n \in Nat PROVE g[n] = IF n = 0 THEN {} ELSE Over(g[n - 1])
  <2>1. CASE n = 0
    BY <1>1, <2>1 DEF Nests
  <2>2. CASE n # 0
    <3>1. n - 1 \in Nat /\ (n - 1) + 1 = n /\ n - 1 < n /\ n - 1 \in 0 .. n - 1 BY <2>2
    <3>2. G[n][n] = Over(G[n][n - 1])
      BY <1>1, <3>1 DEF Nests
    <3>3. Nests(G[n], n - 1) /\ Nests(G[n - 1], n - 1)
      BY <1>1, <3>1 DEF Nests
    <3>4. G[n][n - 1] = G[n - 1][n - 1]
      BY <3>1, <3>3, NestsAgree
    <3> QED BY <2>2, <3>1, <3>2, <3>4
  <2> QED BY <2>1, <2>2
<1>3. Eq(g)
  <2>1. g = [n \in Nat |-> g[n]]
    OBVIOUS
  <2> HIDE DEF g
  <2> QED BY <1>2, <2>1
<1>4. Eq(CHOOSE f : Eq(f))
  BY <1>3
<1>5. Values = CHOOSE f : Eq(f)
  BY DEF Values, Over
<1>6. Eq(Values)
  <2> HIDE DEF Eq, G, g
  <2> QED BY <1>4, <1>5
<1> HIDE DEF G, g
<1>7. \A n \in Nat : Values[n] = IF n = 0 THEN {} ELSE Over(Values[n - 1])
  BY <1>6
<1>8. ASSUME NEW n \in Nat PROVE Values[n + 1] = Over(Values[n])
  <2>1. n + 1 \in Nat /\ n + 1 # 0 /\ (n + 1) - 1 = n OBVIOUS
  <2> QED BY <1>7, <2>1
<1> QED BY <1>7, <1>8
-----------------------------------------------------------------------------
(* The parser and a text, token by token. *)

\* From p the parser gets to q with the text t.
Follows(g, p, t) == g[0] = p /\ \A i \in Nat : i < Len(t) => g[i + 1] = Parse(g[i], t[i + 1])
Parses(p, t, q) == \E g : Follows(g, p, t) /\ g[Len(t)] = q

\* No tokens leave the parser where it is.
LEMMA ParsesNone == \A p : Parses(p, <<>>, p)
<1>1. TAKE p
<1> DEFINE g == [i \in Nat |-> p]
<1>2. Follows(g, p, <<>>) /\ g[Len(<<>>)] = p
  <2>1. Len(<<>>) = 0 /\ \A i \in Nat : ~ (i < 0)
    OBVIOUS
  <2>2. g[0] = p
    OBVIOUS
  <2> HIDE DEF g
  <2> QED BY <2>1, <2>2 DEF Follows
<1> QED BY <1>2 DEF Parses

\* One token more is one step more.
LEMMA ParsesMore ==
  ASSUME NEW X, NEW t \in Seq(X), NEW x \in X, NEW p, NEW q, Parses(p, t, q)
  PROVE  Parses(p, Append(t, x), Parse(q, x))
<1>1. PICK g : Follows(g, p, t) /\ g[Len(t)] = q
  BY DEF Parses
<1>2. PICK y : y = Parse(q, x)
  OBVIOUS
<1> DEFINE k == [i \in Nat |-> IF i = Len(t) + 1 THEN y ELSE g[i]]
<1>3. Len(t) \in Nat /\ Len(Append(t, x)) = Len(t) + 1 /\ Append(t, x)[Len(t) + 1] = x
      /\ \A i \in 1 .. Len(t) : Append(t, x)[i] = t[i]
  OBVIOUS
<1>4. k[0] = p
  BY <1>1, <1>3 DEF Follows
<1>5. ASSUME NEW i \in Nat, i < Len(t) + 1 PROVE k[i + 1] = Parse(k[i], Append(t, x)[i + 1])
  <2>1. CASE i = Len(t)
    <3>1. k[i + 1] = y /\ k[i] = g[i]
      BY <1>3, <2>1
    <3> HIDE DEF k
    <3> QED BY <1>1, <1>2, <1>3, <2>1, <3>1
  <2>2. CASE i # Len(t)
    <3>1. i < Len(t) /\ i + 1 # Len(t) + 1 /\ i # Len(t) + 1 /\ i + 1 \in Nat /\ i + 1 \in 1 .. Len(t)
      BY <1>3, <1>5, <2>2
    <3>2. k[i + 1] = g[i + 1] /\ k[i] = g[i]
      BY <3>1
    <3>3. g[i + 1] = Parse(g[i], t[i + 1])
      BY <1>1, <3>1 DEF Follows
    <3> HIDE DEF k
    <3> QED BY <1>3, <3>1, <3>2, <3>3
  <2> QED BY <2>1, <2>2
<1>6. k[Len(t) + 1] = y
  BY <1>3
<1>7. Follows(k, p, Append(t, x))
  <2> HIDE DEF k
  <2> QED BY <1>3, <1>4, <1>5 DEF Follows
<1> HIDE DEF k
<1> QED BY <1>2, <1>3, <1>6, <1>7 DEF Parses

\* Two texts, one after the other.
LEMMA ParsesBoth ==
  ASSUME NEW X, NEW s \in Seq(X), NEW t \in Seq(X), NEW p, NEW q, NEW r,
         Parses(p, s, q), Parses(q, t, r)
  PROVE  Parses(p, s \o t, r)
<1>1. PICK g : Follows(g, p, s) /\ g[Len(s)] = q
  BY DEF Parses
<1>2. PICK h : Follows(h, q, t) /\ h[Len(t)] = r
  BY DEF Parses
<1>3. /\ Len(s) \in Nat /\ Len(t) \in Nat /\ Len(s \o t) = Len(s) + Len(t)
      /\ \A i \in 1 .. Len(s) : (s \o t)[i] = s[i]
      /\ \A i \in 1 .. Len(t) : (s \o t)[Len(s) + i] = t[i]
  OBVIOUS
<1> DEFINE k == [i \in Nat |-> IF i <= Len(s) THEN g[i] ELSE h[i - Len(s)]]
<1>4. k[0] = p
  BY <1>1, <1>3 DEF Follows
<1>5. ASSUME NEW i \in Nat, i >= Len(s) PROVE k[i] = h[i - Len(s)]
  <2>1. CASE i = Len(s)
    <3>1. k[i] = q /\ h[0] = q /\ i - Len(s) = 0
      BY <1>1, <1>2, <1>3, <2>1 DEF Follows
    <3> QED BY <3>1
  <2>2. CASE i # Len(s)
    BY <1>3, <1>5, <2>2
  <2> QED BY <2>1, <2>2
<1>6. ASSUME NEW i \in Nat, i < Len(s) + Len(t) PROVE k[i + 1] = Parse(k[i], (s \o t)[i + 1])
  <2>1. CASE i < Len(s)
    <3>1. k[i + 1] = g[i + 1] /\ k[i] = g[i] /\ i + 1 \in 1 .. Len(s)
      BY <1>3, <2>1
    <3>2. g[i + 1] = Parse(g[i], s[i + 1])
      BY <1>1, <2>1 DEF Follows
    <3> HIDE DEF k
    <3> QED BY <1>3, <3>1, <3>2
  <2>2. CASE i >= Len(s)
    <3>1. k[i + 1] = h[i + 1 - Len(s)] /\ k[i] = h[i - Len(s)]
      BY <1>3, <1>5, <2>2
    <3>2. i - Len(s) \in Nat
      BY <1>3, <2>2
    <3>3. PICK j \in Nat : j = i - Len(s)
      BY <3>2
    <3>4. j = i - Len(s) /\ j < Len(t) /\ j + 1 \in 1 .. Len(t)
          /\ i + 1 - Len(s) = j + 1 /\ Len(s) + (j + 1) = i + 1
      BY <1>3, <1>6, <2>2, <3>3
    <3>5. h[j + 1] = Parse(h[j], t[j + 1])
      BY <1>2, <3>4 DEF Follows
    <3>6. (s \o t)[i + 1] = t[j + 1]
      BY <1>3, <3>4
    <3> HIDE DEF k
    <3> QED BY <3>1, <3>4, <3>5, <3>6
  <2>3. i < Len(s) \/ i >= Len(s)
    BY <1>3
  <2> HIDE DEF k
  <2> QED BY <2>1, <2>2, <2>3
<1>7. k[Len(s) + Len(t)] = r
  BY <1>2, <1>3, <1>5
<1>8. Follows(k, p, s \o t)
  <2> HIDE DEF k
  <2> QED BY <1>3, <1>4, <1>6 DEF Follows
<1> HIDE DEF k
<1> QED BY <1>3, <1>7, <1>8 DEF Parses

\* A text of one token.
LEMMA ParsesOne ==
  ASSUME NEW x, NEW p, NEW q, Parse(p, x) = q
  PROVE  Parses(p, <<x>>, q)
<1>1. Parses(p, Append(<<>>, x), Parse(p, x))
  <2>1. <<>> \in Seq({x}) /\ x \in {x}
    OBVIOUS
  <2> QED BY <2>1, ParsesMore, ParsesNone
<1> QED BY <1>1

\* The parser is deterministic: its states are the same ...
LEMMA FollowsAgree ==
  ASSUME NEW X, NEW t \in Seq(X), NEW p, NEW g, NEW h, Follows(g, p, t), Follows(h, p, t)
  PROVE  \A i \in 0 .. Len(t) : g[i] = h[i]
<1> DEFINE S == {i \in Nat : i <= Len(t) => g[i] = h[i]}
<1>1. 0 \in S
  BY DEF Follows
<1>2. ASSUME NEW i \in Nat, i \in S PROVE i + 1 \in S
  <2>1. CASE i + 1 <= Len(t)
    <3>1. i < Len(t) /\ i <= Len(t) BY <2>1
    <3>2. g[i + 1] = Parse(g[i], t[i + 1]) /\ h[i + 1] = Parse(h[i], t[i + 1])
      BY <3>1 DEF Follows
    <3>3. g[i] = h[i] BY <1>2, <3>1
    <3> QED BY <3>2, <3>3
  <2> QED BY <2>1
<1>3. Nat \subseteq S
  <2> HIDE DEF S
  <2> QED BY <1>1, <1>2, SetInduction
<1> QED BY <1>3

\* ... and so is where it gets.
LEMMA ParsesAgree ==
  ASSUME NEW X, NEW t \in Seq(X), NEW p, NEW q, NEW r, Parses(p, t, q), Parses(p, t, r)
  PROVE  q = r
<1>1. PICK g : Follows(g, p, t) /\ g[Len(t)] = q
  BY DEF Parses
<1>2. PICK h : Follows(h, p, t) /\ h[Len(t)] = r
  BY DEF Parses
<1>3. Len(t) \in 0 .. Len(t)
  OBVIOUS
<1>4. \A i \in 0 .. Len(t) : g[i] = h[i]
  BY <1>1, <1>2, FollowsAgree
<1> QED BY <1>1, <1>2, <1>3, <1>4

\* What Parsed computes is where the parser gets.
LEMMA ParsedIs ==
  ASSUME NEW X, NEW t \in Seq(X), NEW p, NEW q, Parses(p, t, q)
  PROVE  Parsed(p, t) = q
<1> DEFINE Eq(f) == f = [n \in 0 .. Len(t) |-> IF n = 0 THEN p ELSE Parse(f[n - 1], t[n])]
<1>1. PICK g : Follows(g, p, t) /\ g[Len(t)] = q
  BY DEF Parses
<1> DEFINE f0 == [n \in 0 .. Len(t) |-> g[n]]
<1>2. Eq(f0)
  <2>1. ASSUME NEW n \in 0 .. Len(t) PROVE g[n] = IF n = 0 THEN p ELSE Parse(f0[n - 1], t[n])
    <3>1. CASE n = 0 BY <1>1, <3>1 DEF Follows
    <3>2. CASE n # 0
      <4>1. n - 1 \in Nat /\ n - 1 \in 0 .. Len(t) /\ (n - 1) + 1 = n /\ n - 1 < Len(t) BY <3>2
      <4>2. g[n] = Parse(g[n - 1], t[n]) BY <1>1, <4>1 DEF Follows
      <4>3. f0[n - 1] = g[n - 1] BY <4>1
      <4> QED BY <3>2, <4>2, <4>3
    <3> QED BY <3>1, <3>2
  <2> QED BY <2>1
<1>3. Eq(CHOOSE f : Eq(f))
  BY <1>2
<1>4. PICK f : Eq(f) /\ f = CHOOSE h : Eq(h)
  BY <1>3
<1>5. Parsed(p, t) = f[Len(t)]
  BY <1>4 DEF Parsed
<1>6. \A n \in 0 .. Len(t) : f[n] = IF n = 0 THEN p ELSE Parse(f[n - 1], t[n])
  BY <1>4
<1>7. Follows(f, p, t)
  <2>1. f[0] = p BY <1>6
  <2>2. ASSUME NEW i \in Nat, i < Len(t) PROVE f[i + 1] = Parse(f[i], t[i + 1])
    <3>1. i + 1 \in 0 .. Len(t) /\ i + 1 # 0 /\ (i + 1) - 1 = i BY <2>2
    <3> QED BY <1>6, <3>1
  <2> QED BY <2>1, <2>2 DEF Follows
<1>8. Parses(p, t, f[Len(t)])
  BY <1>7 DEF Parses
<1> QED BY <1>5, <1>8, ParsesAgree
-----------------------------------------------------------------------------
(* The parser's steps, by its three parts. *)

State(at, inside, value) == [at |-> at, inside |-> inside, value |-> value]
NoName == ""
Container(kind, key, content) == [kind |-> kind, key |-> key, content |-> content]

\* The containers as a stack: what Append puts on Front takes off and Last shows.
LEMMA TopOf ==
  ASSUME NEW X, NEW inside \in Seq(X), NEW c
  PROVE  /\ Append(inside, c) # <<>> /\ Last(Append(inside, c)) = c
         /\ Front(Append(inside, c)) = inside
         /\ Append(inside, c) \in Seq(X \cup {c})
         /\ Len(Append(inside, c)) = Len(inside) + 1
<1>1. inside \in Seq(X \cup {c}) /\ c \in X \cup {c}
  OBVIOUS
<1>2. Append(inside, c) \in Seq(X \cup {c}) /\ Len(Append(inside, c)) = Len(inside) + 1
      /\ Append(inside, c)[Len(inside) + 1] = c
  BY <1>1
<1>3. SubSeq(Append(inside, c), 1, Len(inside)) = inside
  BY <1>1
<1>4. Append(inside, c) # <<>>
  BY <1>2
<1> QED BY <1>1, <1>2, <1>3, <1>4 DEF Front, Last

\* What Front and Last take apart Append puts together.
LEMMA TakenOff ==
  ASSUME NEW X, NEW inside \in Seq(X), inside # <<>>
  PROVE  /\ Front(inside) \in Seq(X) /\ Last(inside) \in X
         /\ Append(Front(inside), Last(inside)) = inside
         /\ Len(inside) \in Nat \ {0} /\ Len(Front(inside)) = Len(inside) - 1
<1>1. Len(inside) \in Nat /\ Len(inside) >= 1 /\ Len(inside) - 1 \in 0 .. Len(inside)
  BY EmptySeq
<1>2. SubSeq(inside, 1, Len(inside) - 1) \in Seq(X)
      /\ Len(SubSeq(inside, 1, Len(inside) - 1)) = Len(inside) - 1
  <2>1. PICK n \in Nat : n = Len(inside) - 1
    BY <1>1
  <2>2. \A i \in 1 .. n : inside[i] \in X
    BY <2>1
  <2>3. /\ SubSeq(inside, 1, n) \in Seq(X)
        /\ Len(SubSeq(inside, 1, n)) = IF 1 <= n THEN n - 1 + 1 ELSE 0
    BY <2>2, SubSeqProperties
  <2>4. (IF 1 <= n THEN n - 1 + 1 ELSE 0) = n
    OBVIOUS
  <2> QED BY <2>1, <2>3, <2>4
<1>3. inside[Len(inside)] \in X
  BY <1>1
<1>4. Append(SubSeq(inside, 1, Len(inside) - 1), inside[Len(inside)]) = inside
  BY <1>1, <1>2, <1>3
<1> QED BY <1>1, <1>2, <1>3, <1>4 DEF Front, Last

\* Inserted, in an array ...
LEMMA InsertedElement ==
  ASSUME NEW key, NEW content, NEW v
  PROVE  Inserted(Container("array", key, content), v)
           = Container("array", key, Append(content, v))
BY DEF Inserted, Container

\* ... and in an object.
LEMMA InsertedMember ==
  ASSUME NEW key, NEW content, NEW v
  PROVE  Inserted(Container("object", key, content), v)
           = Container("object", key, [content EXCEPT ![key] = IF @ = Nothing THEN v ELSE @])
BY DEF Inserted, Container

\* The state after a value, part by part ...
LEMMA ValueIs ==
  ASSUME NEW at, NEW inside, NEW value, NEW v
  PROVE  Value(State(at, inside, value), v)
           = IF inside = <<>> THEN State("end", inside, v)
             ELSE State("next", Append(Front(inside), Inserted(Last(inside), v)), value)
<1>0. PICK more : more = Append(Front(inside), Inserted(Last(inside), v))
  OBVIOUS
<1>1. PICK r : r = State(at, inside, value)
  OBVIOUS
<1>2. r = [f \in {"at", "inside", "value"} |-> r[f]]
      /\ r.at = at /\ r.inside = inside /\ r.value = value
  BY <1>1 DEF State
<1>3. [r EXCEPT !.at = "end", !.value = v] = State("end", inside, v)
  <2> DEFINE e == [r EXCEPT !.at = "end", !.value = v]
  <2>1. e = [f \in {"at", "inside", "value"} |-> e[f]]
        /\ e.at = "end" /\ e.inside = inside /\ e.value = v
    BY <1>2
  <2> HIDE DEF e
  <2>2. e = [at |-> "end", inside |-> inside, value |-> v]
    BY <2>1
  <2> QED BY <2>2 DEF e, State
<1>4. [r EXCEPT !.at = "next", !.inside = more] = State("next", more, value)
  <2> DEFINE e == [r EXCEPT !.at = "next", !.inside = more]
  <2>1. e = [f \in {"at", "inside", "value"} |-> e[f]]
        /\ e.at = "next" /\ e.inside = more /\ e.value = value
    BY <1>2
  <2> HIDE DEF e
  <2>2. e = [at |-> "next", inside |-> more, value |-> value]
    BY <2>1
  <2> QED BY <2>2 DEF e, State
<1> QED BY <1>0, <1>1, <1>2, <1>3, <1>4 DEF Value

\* ... after an opening bracket ...
LEMMA EnterIs ==
  ASSUME NEW at, NEW inside, NEW value, NEW kind, NEW to
  PROVE  Enter(State(at, inside, value), kind, to)
           = State(to, Append(inside, Container(kind, NoName, Fresh(kind))), value)
<1>0. PICK more : more = Append(inside, Container(kind, NoName, Fresh(kind)))
  OBVIOUS
<1>1. PICK r : r = State(at, inside, value)
  OBVIOUS
<1>2. r = [f \in {"at", "inside", "value"} |-> r[f]]
      /\ r.at = at /\ r.inside = inside /\ r.value = value
  BY <1>1 DEF State
<1>3. [r EXCEPT !.at = to, !.inside = more] = State(to, more, value)
  <2> DEFINE e == [r EXCEPT !.at = to, !.inside = more]
  <2>1. e = [f \in {"at", "inside", "value"} |-> e[f]]
        /\ e.at = to /\ e.inside = more /\ e.value = value
    BY <1>2
  <2> HIDE DEF e
  <2>2. e = [at |-> to, inside |-> more, value |-> value]
    BY <2>1
  <2> QED BY <2>2 DEF e, State
<1> QED BY <1>0, <1>1, <1>2, <1>3 DEF Enter, Container, NoName

\* ... after a closing one ...
LEMMA LeaveIs ==
  ASSUME NEW at, NEW inside, NEW value
  PROVE  Leave(State(at, inside, value))
           = Value(State("value", Front(inside), value), <<Last(inside).kind, Last(inside).content>>)
<1>0. PICK more : more = Front(inside)
  OBVIOUS
<1>1. PICK r : r = State(at, inside, value)
  OBVIOUS
<1>2. r = [f \in {"at", "inside", "value"} |-> r[f]]
      /\ r.at = at /\ r.inside = inside /\ r.value = value
  BY <1>1 DEF State
<1>3. [r EXCEPT !.inside = more] = State(at, more, value)
  <2> DEFINE e == [r EXCEPT !.inside = more]
  <2>1. e = [f \in {"at", "inside", "value"} |-> e[f]]
        /\ e.at = at /\ e.inside = more /\ e.value = value
    BY <1>2
  <2> HIDE DEF e
  <2>2. e = [at |-> at, inside |-> more, value |-> value]
    BY <2>1
  <2> QED BY <2>2 DEF e, State
<1> QED BY <1>0, <1>1, <1>2, <1>3, ValueIs DEF Leave

\* ... after a name ...
LEMMA KeyIs ==
  ASSUME NEW at, NEW inside, NEW value, NEW name, NEW kind, NEW key, NEW content,
         Last(inside) = Container(kind, key, content)
  PROVE  Key(State(at, inside, value), <<"string", name>>)
           = State("colon", Append(Front(inside), Container(kind, name, content)), value)
<1>0. PICK more : more = Append(Front(inside), Container(kind, name, content))
  OBVIOUS
<1>1. PICK r : r = State(at, inside, value)
  OBVIOUS
<1>2. r = [f \in {"at", "inside", "value"} |-> r[f]]
      /\ r.at = at /\ r.inside = inside /\ r.value = value
  BY <1>1 DEF State
<1>3. [r EXCEPT !.at = "colon", !.inside = more] = State("colon", more, value)
  <2> DEFINE e == [r EXCEPT !.at = "colon", !.inside = more]
  <2>1. e = [f \in {"at", "inside", "value"} |-> e[f]]
        /\ e.at = "colon" /\ e.inside = more /\ e.value = value
    BY <1>2
  <2> HIDE DEF e
  <2>2. e = [at |-> "colon", inside |-> more, value |-> value]
    BY <2>1
  <2> QED BY <2>2 DEF e, State
<1>4. [Last(inside) EXCEPT !.key = name] = Container(kind, name, content)
  BY DEF Container
<1>5. <<"string", name>>[1] = "string" /\ <<"string", name>>[2] = name
  OBVIOUS
<1> QED BY <1>0, <1>1, <1>2, <1>3, <1>4, <1>5 DEF Key

\* ... and after an error.
LEMMA ThrowsIs ==
  ASSUME NEW at, NEW inside, NEW value
  PROVE  Throws(State(at, inside, value)) = State("threw", inside, value)
BY DEF Throws, State

\* The parts of a state.
LEMMA StateIs ==
  ASSUME NEW at, NEW inside, NEW value
  PROVE  /\ State(at, inside, value).at = at
         /\ State(at, inside, value).inside = inside
         /\ State(at, inside, value).value = value
BY DEF State

\* Only the place changes.
LEMMA StateMoved ==
  ASSUME NEW at, NEW inside, NEW value, NEW p, p = State(at, inside, value), NEW to
  PROVE  [p EXCEPT !.at = to] = State(to, inside, value)
BY DEF State

\* The parts of a container.
LEMMA ContainerIs ==
  ASSUME NEW kind, NEW key, NEW content
  PROVE  /\ Container(kind, key, content).kind = kind
         /\ Container(kind, key, content).key = key
         /\ Container(kind, key, content).content = content
BY DEF Container

\* Where a value, a name or the end of a container may be next.
ValueDue == {"value", "first value"}
NameDue == {"key", "first key"}
Kinds == {"array", "object"}
MayClose(kind) == {"next", IF kind = "object" THEN "first key" ELSE "first value"}
AfterComma(kind) == IF kind = "object" THEN "key" ELSE "value"

\* A token where a value is due.
LEMMA ParseToken ==
  ASSUME NEW at \in ValueDue, NEW inside, NEW value, NEW t, t[1] # "]"
  PROVE  Parse(State(at, inside, value), t) = ValueToken(State(at, inside, value), t)
<1>1. State(at, inside, value).at = at
  BY StateIs
<1> QED BY <1>1 DEF Parse, ValueDue

\* A string where a value is due.
LEMMA ParseString ==
  ASSUME NEW at \in ValueDue, NEW inside, NEW value, NEW t \in Strings
  PROVE  Parse(State(at, inside, value), t) = Value(State(at, inside, value), t)
<1>1. t[1] = "string"
  BY StringName
<1>2. PICK p : p = State(at, inside, value)
  OBVIOUS
<1>3. ValueToken(p, t) = Value(p, t)
  BY <1>1 DEF ValueToken
<1> QED BY <1>1, <1>2, <1>3, ParseToken

\* A number where a value is due.
LEMMA ParseNumber ==
  ASSUME NEW at \in ValueDue, NEW inside, NEW value, NEW t \in Numbers, t # Infinite
  PROVE  Parse(State(at, inside, value), t)
           = Value(State(at, inside, value), <<"number", Scanned(t[2])>>)
<1>1. t[1] = "number"
  BY NumberLiteral
<1>2. PICK p : p = State(at, inside, value)
  OBVIOUS
<1>3. ValueToken(p, t) = Value(p, <<"number", Scanned(t[2])>>)
  BY <1>1 DEF ValueToken
<1> QED BY <1>1, <1>2, <1>3, ParseToken

\* EnterIs, for a state that has a name.
LEMMA EnterKind ==
  ASSUME NEW p, NEW at, NEW inside, NEW value, p = State(at, inside, value), NEW kind, NEW to
  PROVE  Enter(p, kind, to)
           = State(to, Append(inside, Container(kind, NoName, Fresh(kind))), value)
BY EnterIs

\* The bracket that begins an array.
LEMMA ParseArray ==
  ASSUME NEW at \in ValueDue, NEW inside, NEW value
  PROVE  Parse(State(at, inside, value), <<"[">>)
           = State("first value", Append(inside, Container("array", NoName, <<>>)), value)
<1>1. PICK p : p = State(at, inside, value)
  OBVIOUS
<1>2. <<"[">>[1] = "["
  OBVIOUS
<1>3. Parse(p, <<"[">>) = ValueToken(p, <<"[">>)
  BY <1>1, <1>2, ParseToken
<1>4. ValueToken(p, <<"[">>) = Enter(p, "array", "first value")
  BY <1>2 DEF ValueToken
<1>5. \A k, to : Enter(p, k, to)
                  = State(to, Append(inside, Container(k, NoName, Fresh(k))), value)
  BY <1>1, EnterKind
<1>6. Enter(p, "array", "first value")
        = State("first value", Append(inside, Container("array", NoName, Fresh("array"))), value)
  BY <1>5
<1>7. Fresh("array") = <<>>
  BY DEF Fresh
<1> QED BY <1>1, <1>3, <1>4, <1>6, <1>7

\* The bracket that begins an object.
LEMMA ParseObject ==
  ASSUME NEW at \in ValueDue, NEW inside, NEW value
  PROVE  Parse(State(at, inside, value), <<"{">>)
           = State("first key",
                   Append(inside, Container("object", NoName, [name \in ToSet(Names) |-> Nothing])),
                   value)
<1>1. PICK p : p = State(at, inside, value)
  OBVIOUS
<1>2. <<"{">>[1] = "{"
  OBVIOUS
<1>3. Parse(p, <<"{">>) = ValueToken(p, <<"{">>)
  BY <1>1, <1>2, ParseToken
<1>4. ValueToken(p, <<"{">>) = Enter(p, "object", "first key")
  BY <1>2 DEF ValueToken
<1>5. \A k, to : Enter(p, k, to)
                  = State(to, Append(inside, Container(k, NoName, Fresh(k))), value)
  BY <1>1, EnterKind
<1>6. Enter(p, "object", "first key")
        = State("first key", Append(inside, Container("object", NoName, Fresh("object"))), value)
  BY <1>5
<1>7. Fresh("object") = [name \in ToSet(Names) |-> Nothing]
  BY DEF Fresh
<1> QED BY <1>1, <1>3, <1>4, <1>6, <1>7

\* A name where one is due.
LEMMA ParseKey ==
  ASSUME NEW at \in NameDue, NEW inside, NEW value, NEW t \in Strings,
         NEW kind, NEW key, NEW content, Last(inside) = Container(kind, key, content)
  PROVE  Parse(State(at, inside, value), t)
           = State("colon", Append(Front(inside), Container(kind, t[2], content)), value)
<1>1. PICK p : p = State(at, inside, value)
  OBVIOUS
<1>2. p.at = at
  BY <1>1, StateIs
<1>3. t[1] = "string" /\ t = <<"string", t[2]>>
  BY StringName
<1>4. Parse(p, t) = Key(p, t)
  BY <1>2, <1>3 DEF Parse, NameDue
<1> QED BY <1>1, <1>3, <1>4, KeyIs

\* The colon after a name.
LEMMA ParseColon ==
  ASSUME NEW inside, NEW value
  PROVE  Parse(State("colon", inside, value), <<":">>) = State("value", inside, value)
<1>1. PICK p : p = State("colon", inside, value)
  OBVIOUS
<1>2. p.at = "colon" /\ <<":">>[1] = ":"
  BY <1>1, StateIs
<1>3. Parse(p, <<":">>) = [p EXCEPT !.at = "value"]
  BY <1>2 DEF Parse
<1> QED BY <1>1, <1>3, StateMoved

\* A comma after an element or a member.
LEMMA ParseComma ==
  ASSUME NEW inside, NEW value, NEW kind, NEW key, NEW content,
         Last(inside) = Container(kind, key, content)
  PROVE  Parse(State("next", inside, value), <<",">>)
           = State(AfterComma(kind), inside, value)
<1>1. PICK p : p = State("next", inside, value)
  OBVIOUS
<1>2. p.at = "next" /\ p.inside = inside /\ <<",">>[1] = ","
  BY <1>1, StateIs
<1>3. Last(p.inside).kind = kind
  BY <1>2, ContainerIs
<1>4. Parse(p, <<",">>) = Separator(p, <<",">>)
  BY <1>2 DEF Parse
<1>5. "," # Close(kind)
  BY DEF Close
<1>6. Separator(p, <<",">>) = [p EXCEPT !.at = AfterComma(kind)]
  BY <1>2, <1>3, <1>5 DEF Separator, AfterComma
<1>7. [p EXCEPT !.at = AfterComma(kind)] = State(AfterComma(kind), inside, value)
  BY <1>1 DEF State
<1> QED BY <1>1, <1>4, <1>6, <1>7

\* The bracket that ends a container.
LEMMA ParseClose ==
  ASSUME NEW at, NEW inside, NEW value, NEW kind \in Kinds, NEW key, NEW content,
         Last(inside) = Container(kind, key, content),
         at \in MayClose(kind)
  PROVE  Parse(State(at, inside, value), <<Close(kind)>>)
           = Value(State("value", Front(inside), value), <<kind, content>>)
<1>1. PICK p : p = State(at, inside, value)
  OBVIOUS
<1>2. p.at = at /\ p.inside = inside
  BY <1>1, StateIs
<1>3. Last(p.inside).kind = kind /\ Last(inside).kind = kind /\ Last(inside).content = content
  BY <1>2, ContainerIs
<1>4. PICK c : c = Close(kind)
  OBVIOUS
<1>8. c # ","
  BY <1>4 DEF Close
<1>5. <<c>>[1] = c
  OBVIOUS
<1>6. Parse(p, <<c>>) = Leave(p)
  <2>1. CASE at = "next"
    <3>1. Parse(p, <<c>>) = Separator(p, <<c>>)
      BY <1>2, <2>1 DEF Parse
    <3>2. Separator(p, <<c>>) = Leave(p)
      BY <1>3, <1>4, <1>5, <1>8 DEF Separator
    <3> QED BY <3>1, <3>2
  <2>2. CASE at = "first value" /\ kind = "array"
    <3>1. c = "]"
      BY <1>4, <2>2 DEF Close
    <3> QED BY <1>2, <1>5, <2>2, <3>1 DEF Parse
  <2>3. CASE at = "first key" /\ kind = "object"
    <3>1. c = "}"
      BY <1>4, <2>3 DEF Close
    <3> QED BY <1>2, <1>5, <2>3, <3>1 DEF Parse
  <2> QED BY <2>1, <2>2, <2>3 DEF MayClose, Kinds
<1>7. Leave(p) = Value(State("value", Front(inside), value), <<kind, content>>)
  BY <1>1, <1>3, LeaveIs
<1> QED BY <1>1, <1>4, <1>6, <1>7

\* The end of the text.
LEMMA ParseEnd ==
  ASSUME NEW inside, NEW value
  PROVE  Parse(State("end", inside, value), <<"end">>) = State("done", inside, value)
<1>1. PICK p : p = State("end", inside, value)
  OBVIOUS
<1>2. p.at = "end" /\ <<"end">>[1] = "end"
  BY <1>1, StateIs
<1>3. Parse(p, <<"end">>) = [p EXCEPT !.at = "done"]
  BY <1>2 DEF Parse
<1> QED BY <1>1, <1>3, StateMoved
-----------------------------------------------------------------------------
(* The grammar: its steps, and its rules. *)

Enclosed(s, open, close, content) ==
  /\ Len(s) >= 2 /\ s[1] = <<open>> /\ s[Len(s)] = <<close>>
  /\ Len(s) = 2 \/ SubSeq(s, 2, Len(s) - 1) \in content
IsMember(s, T) == /\ Len(s) > 2 /\ s[1] \in Strings /\ s[2] = <<":">>
                  /\ SubSeq(s, 3, Len(s)) \in T.value

ValueTexts(T) == {s \in Seq(Tokens) :
                    \/ Len(s) = 1 /\ s[1] \in Strings \cup Numbers
                    \/ Enclosed(s, "[", "]", T.elements)
                    \/ Enclosed(s, "{", "}", T.members)}
ElementTexts(T) == {s \in Seq(Tokens) :
                      \/ s \in T.value
                      \/ \E c \in DOMAIN s : /\ s[c] = <<",">>
                                             /\ SubSeq(s, 1, c - 1) \in T.elements
                                             /\ SubSeq(s, c + 1, Len(s)) \in T.value}
MemberTexts(T) == {s \in Seq(Tokens) :
                     \/ IsMember(s, T)
                     \/ \E c \in DOMAIN s : /\ s[c] = <<",">>
                                            /\ SubSeq(s, 1, c - 1) \in T.members
                                            /\ IsMember(SubSeq(s, c + 1, Len(s)), T)}
NoTexts == [value |-> {}, elements |-> {}, members |-> {}]
Rules(T) == [value |-> ValueTexts(T), elements |-> ElementTexts(T), members |-> MemberTexts(T)]

\* Texts applies the rules of the grammar, step by step.
LEMMA TextsStep == Texts[0] = NoTexts /\ \A n \in Nat : Texts[n + 1] = Rules(Texts[n])
<1> DEFINE V == [value : SUBSET Seq(Tokens), elements : SUBSET Seq(Tokens),
                 members : SUBSET Seq(Tokens)]
           next == [n \in Nat |-> [T \in V |-> Rules(T)]]
           Eq(f) == f = [n \in Nat |-> IF n = 0 THEN NoTexts ELSE Rules(f[n - 1])]
<1>1. NoTexts \in V
  BY DEF NoTexts
<1>2. \A T : Rules(T) \in V
  BY DEF Rules, ValueTexts, ElementTexts, MemberTexts
<1>3. next \in [Nat -> [V -> V]]
  BY <1>2
<1>4. PICK g \in [Nat -> V] : g[0] = NoTexts /\ \A n \in Nat : g[n + 1] = next[n][g[n]]
  <2>1. PICK W, k, z : W = V /\ k = next /\ z = NoTexts
    OBVIOUS
  <2> HIDE DEF next, V
  <2>2. z \in W /\ k \in [Nat -> [W -> W]]
    BY <1>1, <1>3, <2>1
  <2>3. PICK g : Grows(g, W, z, k)
    BY <2>2, FunctionByInduction
  <2> QED BY <2>1, <2>3 DEF Grows
<1>5. Eq(g)
  <2>1. ASSUME NEW n \in Nat PROVE g[n] = IF n = 0 THEN NoTexts ELSE Rules(g[n - 1])
    <3>1. CASE n = 0 BY <1>4, <3>1
    <3>2. CASE n # 0
      <4>1. n - 1 \in Nat /\ (n - 1) + 1 = n BY <3>2
      <4>2. g[n] = next[n - 1][g[n - 1]] BY <1>4, <4>1
      <4>3. g[n - 1] \in V BY <4>1
      <4>4. next[n - 1][g[n - 1]] = Rules(g[n - 1]) BY <4>1, <4>3
      <4> QED BY <3>2, <4>2, <4>4
    <3> QED BY <3>1, <3>2
  <2>2. g = [n \in Nat |-> g[n]]
    OBVIOUS
  <2> QED BY <2>1, <2>2
<1>6. Eq(CHOOSE f : Eq(f))
  BY <1>5
<1>7. Texts = CHOOSE f : Eq(f)
  BY DEF Texts, Rules, NoTexts, ValueTexts, ElementTexts, MemberTexts, Enclosed, IsMember
<1>8. Eq(Texts)
  BY <1>6, <1>7
<1>9. \A n \in Nat : Texts[n] = IF n = 0 THEN NoTexts ELSE Rules(Texts[n - 1])
  BY <1>8
<1>10. ASSUME NEW n \in Nat PROVE Texts[n + 1] = Rules(Texts[n])
  <2>1. n + 1 \in Nat /\ n + 1 # 0 /\ (n + 1) - 1 = n OBVIOUS
  <2> QED BY <1>9, <2>1
<1> QED BY <1>9, <1>10

\* One step of the grammar more, and no text is lost.
Within(T, U) == T.value \subseteq U.value /\ T.elements \subseteq U.elements
                /\ T.members \subseteq U.members

\* The rules make no less of more.
LEMMA RulesGrow == ASSUME NEW T, NEW U, Within(T, U) PROVE Within(Rules(T), Rules(U))
<1>1. ValueTexts(T) \subseteq ValueTexts(U)
  BY DEF Within, ValueTexts, Enclosed
<1>2. ElementTexts(T) \subseteq ElementTexts(U)
  BY DEF Within, ElementTexts
<1>3. MemberTexts(T) \subseteq MemberTexts(U)
  BY DEF Within, MemberTexts, IsMember
<1> QED BY <1>1, <1>2, <1>3 DEF Within, Rules

\* The texts of some steps are texts of more steps.
LEMMA TextsGrow == ASSUME NEW n \in Nat, NEW m \in Nat, n <= m PROVE Within(Texts[n], Texts[m])
<1> DEFINE S == {i \in Nat : Within(Texts[i], Texts[i + 1])}
           D == {i \in Nat : Within(Texts[n], Texts[n + i])}
<1>1. 0 \in S
  <2>1. Texts[0] = NoTexts
    BY TextsStep
  <2> QED BY <2>1 DEF Within, NoTexts
<1>2. ASSUME NEW i \in Nat, i \in S PROVE i + 1 \in S
  <2>1. i + 1 \in Nat /\ Within(Texts[i], Texts[i + 1])
    BY <1>2
  <2>2. Texts[i + 1] = Rules(Texts[i]) /\ Texts[(i + 1) + 1] = Rules(Texts[i + 1])
    BY <2>1, TextsStep
  <2>3. Within(Texts[i + 1], Texts[(i + 1) + 1])
    BY <2>1, <2>2, RulesGrow
  <2> QED BY <2>1, <2>3
<1>3. Nat \subseteq S
  <2> HIDE DEF S
  <2> QED BY <1>1, <1>2, SetInduction
<1>4. 0 \in D
  BY DEF Within
<1>5. ASSUME NEW i \in Nat, i \in D PROVE i + 1 \in D
  <2>1. n + i \in Nat /\ n + (i + 1) = (n + i) + 1 /\ i + 1 \in Nat
    OBVIOUS
  <2>2. Within(Texts[n + i], Texts[(n + i) + 1])
    BY <1>3, <2>1
  <2>3. Within(Texts[n], Texts[n + i])
    BY <1>5
  <2>4. Within(Texts[n], Texts[(n + i) + 1])
    BY <2>2, <2>3 DEF Within
  <2> QED BY <2>1, <2>4
<1>6. Nat \subseteq D
  <2> HIDE DEF D, S
  <2> QED BY <1>4, <1>5, SetInduction
<1>7. m - n \in Nat /\ n + (m - n) = m
  OBVIOUS
<1> QED BY <1>6, <1>7
-----------------------------------------------------------------------------
(* Texts in pieces. *)

\* A part of a sequence: its type, its length and its elements.
LEMMA PieceOf ==
  ASSUME NEW X, NEW s \in Seq(X), NEW m \in Nat, NEW n \in Nat, 1 <= m, m <= n + 1, n <= Len(s)
  PROVE  /\ SubSeq(s, m, n) \in Seq(X)
         /\ Len(SubSeq(s, m, n)) = n - m + 1
         /\ \A i \in 1 .. n - m + 1 : SubSeq(s, m, n)[i] = s[m + i - 1]
<1>1. \A i \in m .. n : s[i] \in X
  OBVIOUS
<1>2. /\ SubSeq(s, m, n) \in Seq(X)
      /\ Len(SubSeq(s, m, n)) = IF m <= n THEN n - m + 1 ELSE 0
      /\ \A i \in 1 .. n - m + 1 : SubSeq(s, m, n)[i] = s[m + i - 1]
  BY <1>1, SubSeqProperties
<1>3. (IF m <= n THEN n - m + 1 ELSE 0) = n - m + 1
  OBVIOUS
<1> QED BY <1>2, <1>3

\* A text around its token at c.
LEMMA Cut ==
  ASSUME NEW X, NEW s \in Seq(X), NEW c \in 1 .. Len(s)
  PROVE  /\ s = (SubSeq(s, 1, c - 1) \o <<s[c]>>) \o SubSeq(s, c + 1, Len(s))
         /\ SubSeq(s, 1, c - 1) \in Seq(X) /\ SubSeq(s, c + 1, Len(s)) \in Seq(X)
<1>1. Len(s) \in Nat /\ c \in Nat /\ c - 1 \in Nat /\ c + 1 \in Nat /\ c <= Len(s) /\ 1 <= c
      /\ s[c] \in X
  OBVIOUS
<1>2. PICK a : a = SubSeq(s, 1, c - 1)
  OBVIOUS
<1>3. PICK b : b = SubSeq(s, c + 1, Len(s))
  OBVIOUS
<1>4. a \in Seq(X) /\ Len(a) = c - 1 /\ \A i \in 1 .. c - 1 : a[i] = s[i]
  <2>1. /\ a \in Seq(X) /\ Len(a) = c - 1 - 1 + 1
        /\ \A i \in 1 .. c - 1 - 1 + 1 : a[i] = s[1 + i - 1]
    BY <1>1, <1>2, PieceOf
  <2> QED BY <1>1, <2>1
<1>5. b \in Seq(X) /\ Len(b) = Len(s) - c /\ \A i \in 1 .. Len(s) - c : b[i] = s[c + i]
  <2>1. /\ b \in Seq(X) /\ Len(b) = Len(s) - (c + 1) + 1
        /\ \A i \in 1 .. Len(s) - (c + 1) + 1 : b[i] = s[(c + 1) + i - 1]
    BY <1>1, <1>3, PieceOf
  <2> QED BY <1>1, <2>1
<1>6. PICK t : t = (a \o <<s[c]>>) \o b
  OBVIOUS
<1>7. t \in Seq(X) /\ Len(t) = Len(s)
  BY <1>1, <1>4, <1>5, <1>6
<1>8. \A i \in 1 .. Len(s) : t[i] = s[i]
  <2>1. PICK d : d = a \o <<s[c]>>
    OBVIOUS
  <2>2. d \in Seq(X) /\ Len(d) = c /\ \A i \in 1 .. c : d[i] = s[i]
    BY <1>1, <1>4, <2>1
  <2>3. t = d \o b
    BY <1>6, <2>1
  <2>4. \A i \in 1 .. c : t[i] = d[i]
    BY <1>5, <2>2, <2>3
  <2>5. \A i \in 1 .. Len(s) - c : t[c + i] = b[i]
    BY <1>5, <2>2, <2>3
  <2>6. ASSUME NEW i \in 1 .. Len(s), i > c PROVE t[i] = s[i]
    <3>1. i - c \in 1 .. Len(s) - c /\ c + (i - c) = i
      BY <1>1, <2>6
    <3> QED BY <1>5, <2>5, <3>1
  <2>7. ASSUME NEW i \in 1 .. Len(s), i <= c PROVE t[i] = s[i]
    BY <1>1, <2>2, <2>4, <2>7
  <2> QED BY <1>1, <2>6, <2>7
<1>9. t = s
  BY <1>7, <1>8, SeqEqual
<1> QED BY <1>2, <1>3, <1>4, <1>5, <1>6, <1>9

\* ... between its first and its last.
LEMMA Peeled ==
  ASSUME NEW X, NEW s \in Seq(X), Len(s) >= 2
  PROVE  /\ s = (<<s[1]>> \o SubSeq(s, 2, Len(s) - 1)) \o <<s[Len(s)]>>
         /\ SubSeq(s, 2, Len(s) - 1) \in Seq(X)
         /\ Len(s) = 2 => SubSeq(s, 2, Len(s) - 1) = <<>>
<1>1. Len(s) \in Nat /\ Len(s) - 1 \in Nat /\ s[1] \in X /\ s[Len(s)] \in X
  OBVIOUS
<1>2. PICK a : a = SubSeq(s, 2, Len(s) - 1)
  OBVIOUS
<1>3. a \in Seq(X) /\ Len(a) = Len(s) - 2 /\ \A i \in 1 .. Len(s) - 2 : a[i] = s[i + 1]
  <2>1. PICK n \in Nat : n = Len(s) - 1
    BY <1>1
  <2>2. 1 <= 2 /\ 2 <= n + 1 /\ n <= Len(s)
    BY <1>1, <2>1
  <2>3. /\ a \in Seq(X) /\ Len(a) = n - 2 + 1
        /\ \A i \in 1 .. n - 2 + 1 : a[i] = s[2 + i - 1]
    BY <1>2, <2>1, <2>2, PieceOf
  <2> QED BY <1>1, <2>1, <2>2, <2>3
<1>4. PICK d : d = <<s[1]>> \o a
  OBVIOUS
<1>5. d \in Seq(X) /\ Len(d) = Len(s) - 1 /\ \A i \in 1 .. Len(s) - 1 : d[i] = s[i]
  BY <1>1, <1>3, <1>4
<1>6. PICK t : t = d \o <<s[Len(s)]>>
  OBVIOUS
<1>7. t \in Seq(X) /\ Len(t) = Len(s) /\ \A i \in 1 .. Len(s) : t[i] = s[i]
  BY <1>1, <1>5, <1>6
<1>8. t = s
  BY <1>7, SeqEqual
<1>9. Len(s) = 2 => a = <<>>
  BY <1>3, EmptySeq
<1> QED BY <1>2, <1>3, <1>4, <1>6, <1>8, <1>9

\* ... after its first two.
LEMMA Prefixed ==
  ASSUME NEW X, NEW s \in Seq(X), Len(s) >= 2
  PROVE  /\ s = <<s[1], s[2]>> \o SubSeq(s, 3, Len(s))
         /\ SubSeq(s, 3, Len(s)) \in Seq(X)
<1>1. Len(s) \in Nat /\ s[1] \in X /\ s[2] \in X
  OBVIOUS
<1>2. PICK a : a = SubSeq(s, 3, Len(s))
  OBVIOUS
<1>3. a \in Seq(X) /\ Len(a) = Len(s) - 2 /\ \A i \in 1 .. Len(s) - 2 : a[i] = s[i + 2]
  <2>1. PICK n \in Nat : n = Len(s)
    BY <1>1
  <2>2. 1 <= 3 /\ 3 <= n + 1 /\ n <= Len(s)
    BY <2>1
  <2>3. /\ a \in Seq(X) /\ Len(a) = n - 3 + 1
        /\ \A i \in 1 .. n - 3 + 1 : a[i] = s[3 + i - 1]
    BY <1>2, <2>1, <2>2, PieceOf
  <2> QED BY <2>1, <2>2, <2>3
<1>4. PICK b : b = <<s[1], s[2]>>
  OBVIOUS
<1>5. b \in Seq(X) /\ Len(b) = 2 /\ b[1] = s[1] /\ b[2] = s[2]
  BY <1>1, <1>4
<1>6. PICK t : t = b \o a
  OBVIOUS
<1>7. t \in Seq(X) /\ Len(t) = Len(s) /\ \A i \in 1 .. Len(s) : t[i] = s[i]
  <2>1. /\ t \in Seq(X) /\ Len(t) = Len(b) + Len(a)
        /\ \A i \in 1 .. Len(b) + Len(a) : t[i] = IF i <= Len(b) THEN b[i] ELSE a[i - Len(b)]
    <3>1. a \in Seq(X) /\ b \in Seq(X)
      BY <1>3, <1>5
    <3>2. /\ b \o a \in Seq(X) /\ Len(b \o a) = Len(b) + Len(a)
          /\ \A i \in 1 .. Len(b) + Len(a) : (b \o a)[i] = IF i <= Len(b) THEN b[i] ELSE a[i - Len(b)]
      BY <3>1, ConcatProperties
    <3> QED BY <1>6, <3>2
  <2>2. Len(b) + Len(a) = Len(s) /\ 1 \in 1 .. Len(s) /\ 2 \in 1 .. Len(s)
    BY <1>1, <1>3, <1>5
  <2>3. t[1] = s[1] /\ t[2] = s[2]
    BY <1>5, <2>1, <2>2
  <2>4. ASSUME NEW i \in 1 .. Len(s), i > 2 PROVE t[i] = s[i]
    <3>1. i - 2 \in 1 .. Len(s) - 2 /\ (i - 2) + 2 = i /\ ~ (i <= 2)
      BY <1>1, <2>4
    <3>2. t[i] = a[i - 2]
      BY <1>5, <2>1, <2>2, <3>1
    <3> QED BY <1>3, <3>1, <3>2
  <2>5. \A i \in 1 .. Len(s) : i = 1 \/ i = 2 \/ i > 2
    BY <1>1
  <2> QED BY <2>1, <2>2, <2>3, <2>4, <2>5
<1>8. t = s
  BY <1>7, SeqEqual
<1> QED BY <1>2, <1>3, <1>4, <1>6, <1>8

\* And the other way: the pieces of what is put together.
LEMMA Joined ==
  ASSUME NEW X, NEW a \in Seq(X), NEW x \in X, NEW b \in Seq(X),
         NEW s, s = (a \o <<x>>) \o b
  PROVE  /\ s \in Seq(X) /\ Len(s) = Len(a) + 1 + Len(b) /\ s[Len(a) + 1] = x
         /\ SubSeq(s, 1, Len(a)) = a /\ SubSeq(s, Len(a) + 2, Len(s)) = b
<1>1. PICK d : d = a \o <<x>>
  OBVIOUS
<1>2. /\ d \in Seq(X) /\ Len(d) = Len(a) + 1 /\ d[Len(a) + 1] = x
      /\ \A i \in 1 .. Len(a) : d[i] = a[i]
  BY <1>1
<1>3. /\ s \in Seq(X) /\ Len(s) = Len(d) + Len(b)
      /\ \A i \in 1 .. Len(d) : s[i] = d[i]
      /\ \A i \in 1 .. Len(b) : s[Len(d) + i] = b[i]
  BY <1>1, <1>2
<1>4. Len(a) \in Nat /\ Len(b) \in Nat /\ Len(s) \in Nat
  BY <1>3
<1>5. PICK f : f = SubSeq(s, 1, Len(a))
  OBVIOUS
<1>6. f = a
  <2>1. /\ f \in Seq(X) /\ Len(f) = Len(a) - 1 + 1
        /\ \A i \in 1 .. Len(a) - 1 + 1 : f[i] = s[1 + i - 1]
    BY <1>2, <1>3, <1>4, <1>5, PieceOf
  <2>2. Len(f) = Len(a) /\ \A i \in 1 .. Len(a) : f[i] = a[i]
    BY <1>2, <1>3, <1>4, <2>1
  <2> QED BY <2>1, <2>2, SeqEqual
<1>7. PICK g : g = SubSeq(s, Len(a) + 2, Len(s))
  OBVIOUS
<1>8. g = b
  <2>1. PICK m \in Nat : m = Len(a) + 2
    BY <1>4
  <2>2. 1 <= m /\ m <= Len(s) + 1 /\ Len(s) <= Len(s)
    BY <1>2, <1>3, <1>4, <2>1
  <2>3. PICK n \in Nat : n = Len(s)
    BY <1>4
  <2>7. /\ SubSeq(s, m, n) \in Seq(X) /\ Len(SubSeq(s, m, n)) = n - m + 1
        /\ \A i \in 1 .. n - m + 1 : SubSeq(s, m, n)[i] = s[m + i - 1]
    <3>1. 1 <= m /\ m <= n + 1 /\ n <= Len(s) /\ s \in Seq(X)
      BY <1>3, <2>2, <2>3
    <3> QED BY <3>1, PieceOf
  <2>4. /\ g \in Seq(X) /\ Len(g) = Len(s) - m + 1
        /\ \A i \in 1 .. Len(s) - m + 1 : g[i] = s[m + i - 1]
    BY <1>7, <2>1, <2>3, <2>7
  <2>5. Len(g) = Len(b)
    BY <1>2, <1>3, <1>4, <2>1, <2>4
  <2>6. ASSUME NEW i \in 1 .. Len(g) PROVE g[i] = b[i]
    <3>1. g[i] = s[m + i - 1]
      BY <1>4, <2>4, <2>5
    <3>2. m + i - 1 = Len(d) + i /\ i \in 1 .. Len(b)
      BY <1>2, <1>4, <2>1, <2>5
    <3>3. s[Len(d) + i] = b[i]
      BY <1>3, <3>2
    <3> QED BY <3>1, <3>2, <3>3
  <2> QED BY <2>4, <2>5, <2>6, SeqEqual
<1> QED BY <1>2, <1>3, <1>5, <1>6, <1>7, <1>8

\* A text in brackets has these at its ends and itself between them.
LEMMA Wrapped ==
  ASSUME NEW X, NEW x \in X, NEW a \in Seq(X), NEW y \in X, NEW s, s = (<<x>> \o a) \o <<y>>
  PROVE  /\ s \in Seq(X) /\ Len(s) = Len(a) + 2 /\ s[1] = x /\ s[Len(s)] = y
         /\ SubSeq(s, 2, Len(s) - 1) = a
<1>1. PICK d : d = <<x>> \o a
  OBVIOUS
<1>2. /\ d \in Seq(X) /\ Len(d) = Len(a) + 1 /\ d[1] = x
      /\ \A i \in 1 .. Len(a) : d[i + 1] = a[i]
  BY <1>1
<1>3. /\ s \in Seq(X) /\ Len(s) = Len(d) + 1 /\ s[Len(s)] = y
      /\ \A i \in 1 .. Len(d) : s[i] = d[i]
  BY <1>1, <1>2
<1>4. Len(a) \in Nat /\ Len(s) \in Nat /\ Len(s) = Len(a) + 2
  BY <1>2, <1>3
<1>5. PICK n \in Nat : n = Len(s) - 1
  <2>1. Len(s) - 1 \in Nat
    BY <1>4
  <2> QED BY <2>1
<1>6. PICK f : f = SubSeq(s, 2, n)
  OBVIOUS
<1>7. /\ f \in Seq(X) /\ Len(f) = n - 2 + 1
      /\ \A i \in 1 .. n - 2 + 1 : f[i] = s[2 + i - 1]
  BY <1>3, <1>4, <1>5, <1>6, PieceOf
<1>8. Len(f) = Len(a)
  BY <1>4, <1>5, <1>7
<1>9. ASSUME NEW i \in 1 .. Len(f) PROVE f[i] = a[i]
  <2>1. f[i] = s[2 + i - 1] /\ i \in 1 .. Len(a) /\ 2 + i - 1 = i + 1 /\ i + 1 \in 1 .. Len(d)
    BY <1>2, <1>4, <1>5, <1>7, <1>8
  <2> QED BY <1>2, <1>3, <2>1
<1>10. f = a
  BY <1>7, <1>8, <1>9, SeqEqual
<1> QED BY <1>2, <1>3, <1>4, <1>5, <1>6, <1>10

\* A text after two tokens has these at its head and itself behind.
LEMMA Headed ==
  ASSUME NEW X, NEW x \in X, NEW y \in X, NEW a \in Seq(X), NEW s, s = <<x, y>> \o a
  PROVE  /\ s \in Seq(X) /\ Len(s) = Len(a) + 2 /\ s[1] = x /\ s[2] = y
         /\ SubSeq(s, 3, Len(s)) = a
<1>1. PICK d : d = <<x, y>>
  OBVIOUS
<1>2. d \in Seq(X) /\ Len(d) = 2 /\ d[1] = x /\ d[2] = y
  BY <1>1
<1>3. /\ s \in Seq(X) /\ Len(s) = Len(a) + 2 /\ s[1] = x /\ s[2] = y
      /\ \A i \in 1 .. Len(a) : s[i + 2] = a[i]
  BY <1>1, <1>2
<1>4. Len(a) \in Nat /\ Len(s) \in Nat
  BY <1>3
<1>5. PICK f : f = SubSeq(s, 3, Len(s))
  OBVIOUS
<1>6. /\ f \in Seq(X) /\ Len(f) = Len(s) - 3 + 1
      /\ \A i \in 1 .. Len(s) - 3 + 1 : f[i] = s[3 + i - 1]
  BY <1>3, <1>4, <1>5, PieceOf
<1>7. Len(f) = Len(a)
  BY <1>3, <1>4, <1>6
<1>8. ASSUME NEW i \in 1 .. Len(f) PROVE f[i] = a[i]
  <2>1. f[i] = s[3 + i - 1] /\ i \in 1 .. Len(a) /\ 3 + i - 1 = i + 2
    BY <1>3, <1>4, <1>6, <1>7
  <2> QED BY <1>3, <2>1
<1>9. f = a
  BY <1>6, <1>7, <1>8, SeqEqual
<1> QED BY <1>3, <1>5, <1>9
-----------------------------------------------------------------------------
(* The texts of the grammar, and how they are put together. *)

ValueText == {s \in Seq(Tokens) : s \in Texts[Len(s)].value}
ElementsText == {s \in Seq(Tokens) : s \in Texts[Len(s) + 1].elements}
MembersText == {s \in Seq(Tokens) : s \in Texts[Len(s) + 1].members}

\* The rules, for the texts of so many steps.
LEMMA RulesIs ==
  ASSUME NEW n \in Nat
  PROVE  /\ Texts[n + 1].value = ValueTexts(Texts[n])
         /\ Texts[n + 1].elements = ElementTexts(Texts[n])
         /\ Texts[n + 1].members = MemberTexts(Texts[n])
<1>1. Texts[n + 1] = Rules(Texts[n])
  BY TextsStep
<1>2. \A T : /\ Rules(T).value = ValueTexts(T)
             /\ Rules(T).elements = ElementTexts(T)
             /\ Rules(T).members = MemberTexts(T)
  BY DEF Rules
<1> QED BY <1>1, <1>2

\* A text of some steps is a value if its tokens are no fewer ...
LEMMA Longer ==
  ASSUME NEW n \in Nat, NEW m \in Nat, n <= m
  PROVE  /\ Texts[n].value \subseteq Texts[m].value
         /\ Texts[n].elements \subseteq Texts[m].elements
         /\ Texts[n].members \subseteq Texts[m].members
BY TextsGrow DEF Within

\* A value has a token.
LEMMA ValueTextLength == ASSUME NEW s \in ValueText PROVE Len(s) \in Nat /\ Len(s) >= 1
<1>1. s \in Seq(Tokens) /\ s \in Texts[Len(s)].value
  BY DEF ValueText
<1>2. Len(s) \in Nat
  BY <1>1
<1>3. Texts[0].value = {}
  BY TextsStep DEF NoTexts
<1>4. Len(s) # 0
  BY <1>1, <1>3
<1> QED BY <1>2, <1>4

\* The rules, for texts of any length: a string or a number is a value, ...
LEMMA TokenText == ASSUME NEW t \in Strings \cup Numbers PROVE <<t>> \in ValueText
<1>1. t \in Tokens
  BY TokenSet
<1>2. PICK s : s = <<t>>
  OBVIOUS
<1>3. s \in Seq(Tokens) /\ Len(s) = 1 /\ s[1] = t
  BY <1>1, <1>2
<1>4. s \in ValueTexts(Texts[0])
  BY <1>3 DEF ValueTexts
<1>5. Texts[0 + 1].value = ValueTexts(Texts[0])
  BY RulesIs
<1>6. 0 + 1 = 1
  OBVIOUS
<1>7. s \in Texts[1].value
  BY <1>4, <1>5, <1>6
<1> QED BY <1>2, <1>3, <1>7 DEF ValueText

\* ... and so are elements in square brackets, or none, ...
LEMMA ArrayText ==
  ASSUME NEW e \in Seq(Tokens), e = <<>> \/ e \in ElementsText
  PROVE  (<<<<"[">>>> \o e) \o <<<<"]">>>> \in ValueText
<1>1. PICK x, y : x = <<"[">> /\ y = <<"]">>
  OBVIOUS
<1>2. x \in Tokens /\ y \in Tokens
  BY <1>1, TokenSet
<1>3. PICK s : s = (<<x>> \o e) \o <<y>>
  OBVIOUS
<1>4. /\ s \in Seq(Tokens) /\ Len(s) = Len(e) + 2 /\ s[1] = x /\ s[Len(s)] = y
      /\ SubSeq(s, 2, Len(s) - 1) = e
  BY <1>2, <1>3, Wrapped
<1>5. Len(e) \in Nat /\ Len(e) + 1 \in Nat /\ Len(s) = (Len(e) + 1) + 1 /\ Len(s) >= 2
  BY <1>4
<1>6. Len(s) = 2 \/ e \in Texts[Len(e) + 1].elements
  <2>1. CASE e = <<>>
    BY <1>4, <2>1
  <2>2. CASE e \in ElementsText
    BY <2>2 DEF ElementsText
  <2> QED BY <2>1, <2>2
<1>7. Enclosed(s, "[", "]", Texts[Len(e) + 1].elements)
  BY <1>1, <1>4, <1>5, <1>6 DEF Enclosed
<1>8. s \in ValueTexts(Texts[Len(e) + 1])
  BY <1>4, <1>7 DEF ValueTexts
<1>9. Texts[(Len(e) + 1) + 1].value = ValueTexts(Texts[Len(e) + 1])
  BY <1>5, RulesIs
<1>10. s \in Texts[Len(s)].value
  BY <1>5, <1>8, <1>9
<1> QED BY <1>1, <1>3, <1>4, <1>10 DEF ValueText

\* ... and members in braces, or none.
LEMMA ObjectText ==
  ASSUME NEW m \in Seq(Tokens), m = <<>> \/ m \in MembersText
  PROVE  (<<<<"{">>>> \o m) \o <<<<"}">>>> \in ValueText
<1>1. PICK x, y : x = <<"{">> /\ y = <<"}">>
  OBVIOUS
<1>2. x \in Tokens /\ y \in Tokens
  BY <1>1, TokenSet
<1>3. PICK s : s = (<<x>> \o m) \o <<y>>
  OBVIOUS
<1>4. /\ s \in Seq(Tokens) /\ Len(s) = Len(m) + 2 /\ s[1] = x /\ s[Len(s)] = y
      /\ SubSeq(s, 2, Len(s) - 1) = m
  BY <1>2, <1>3, Wrapped
<1>5. Len(m) \in Nat /\ Len(m) + 1 \in Nat /\ Len(s) = (Len(m) + 1) + 1 /\ Len(s) >= 2
  BY <1>4
<1>6. Len(s) = 2 \/ m \in Texts[Len(m) + 1].members
  <2>1. CASE m = <<>>
    BY <1>4, <2>1
  <2>2. CASE m \in MembersText
    BY <2>2 DEF MembersText
  <2> QED BY <2>1, <2>2
<1>7. Enclosed(s, "{", "}", Texts[Len(m) + 1].members)
  BY <1>1, <1>4, <1>5, <1>6 DEF Enclosed
<1>8. s \in ValueTexts(Texts[Len(m) + 1])
  BY <1>4, <1>7 DEF ValueTexts
<1>9. Texts[(Len(m) + 1) + 1].value = ValueTexts(Texts[Len(m) + 1])
  BY <1>5, RulesIs
<1>10. s \in Texts[Len(s)].value
  BY <1>5, <1>8, <1>9
<1> QED BY <1>1, <1>3, <1>4, <1>10 DEF ValueText

\* A value is an element ...
LEMMA ElementText == ASSUME NEW v \in ValueText PROVE v \in ElementsText
<1>1. v \in Seq(Tokens) /\ v \in Texts[Len(v)].value /\ Len(v) \in Nat
  BY DEF ValueText
<1>2. v \in ElementTexts(Texts[Len(v)])
  BY <1>1 DEF ElementTexts
<1>3. Texts[Len(v) + 1].elements = ElementTexts(Texts[Len(v)])
  BY <1>1, RulesIs
<1> QED BY <1>1, <1>2, <1>3 DEF ElementsText

\* ... and one may follow other elements, after a comma.
LEMMA ElementsMore ==
  ASSUME NEW e \in ElementsText, NEW v \in ValueText
  PROVE  (e \o <<<<",">>>>) \o v \in ElementsText
<1>1. PICK x : x = <<",">>
  OBVIOUS
<1>2. x \in Tokens
  BY <1>1, TokenSet
<1>3. e \in Seq(Tokens) /\ v \in Seq(Tokens) /\ Len(e) \in Nat /\ Len(v) \in Nat
      /\ e \in Texts[Len(e) + 1].elements /\ v \in Texts[Len(v)].value
  BY DEF ElementsText, ValueText
<1>4. PICK s : s = (e \o <<x>>) \o v
  OBVIOUS
<1>5. /\ s \in Seq(Tokens) /\ Len(s) = Len(e) + 1 + Len(v) /\ s[Len(e) + 1] = x
      /\ SubSeq(s, 1, Len(e)) = e /\ SubSeq(s, Len(e) + 2, Len(s)) = v
  BY <1>2, <1>3, <1>4, Joined
<1>6. PICK c \in Nat : c = Len(e) + 1
  BY <1>3
<1>7. Len(s) \in Nat /\ Len(e) + 1 \in Nat /\ Len(e) + 1 <= Len(s) /\ Len(v) <= Len(s)
      /\ c \in DOMAIN s /\ c - 1 = Len(e) /\ c + 1 = Len(e) + 2
  BY <1>3, <1>5, <1>6
<1>8. e \in Texts[Len(s)].elements /\ v \in Texts[Len(s)].value
  BY <1>3, <1>7, Longer
<1>9. s[c] = <<",">> /\ SubSeq(s, 1, c - 1) \in Texts[Len(s)].elements
      /\ SubSeq(s, c + 1, Len(s)) \in Texts[Len(s)].value
  BY <1>1, <1>5, <1>6, <1>7, <1>8
<1>10. s \in ElementTexts(Texts[Len(s)])
  BY <1>5, <1>7, <1>9 DEF ElementTexts
<1>11. Texts[Len(s) + 1].elements = ElementTexts(Texts[Len(s)])
  BY <1>7, RulesIs
<1> QED BY <1>1, <1>4, <1>5, <1>10, <1>11 DEF ElementsText

\* A name, a colon and a value make a member, in any number of steps ...
LEMMA IsMemberText ==
  ASSUME NEW k \in Strings, NEW v \in ValueText, NEW n \in Nat, Len(v) <= n
  PROVE  /\ <<k, <<":">>>> \o v \in Seq(Tokens) /\ Len(<<k, <<":">>>> \o v) = Len(v) + 2
         /\ IsMember(<<k, <<":">>>> \o v, Texts[n])
<1>1. PICK x : x = <<":">>
  OBVIOUS
<1>2. x \in Tokens /\ k \in Tokens
  BY <1>1, TokenSet
<1>3. v \in Seq(Tokens) /\ v \in Texts[Len(v)].value /\ Len(v) \in Nat /\ Len(v) >= 1
  BY ValueTextLength DEF ValueText
<1>4. PICK s : s = <<k, x>> \o v
  OBVIOUS
<1>5. /\ s \in Seq(Tokens) /\ Len(s) = Len(v) + 2 /\ s[1] = k /\ s[2] = x
      /\ SubSeq(s, 3, Len(s)) = v
  BY <1>2, <1>3, <1>4, Headed
<1>6. v \in Texts[n].value
  BY <1>3, Longer
<1>7. IsMember(s, Texts[n])
  <2>1. Len(s) > 2
    BY <1>3, <1>5
  <2> QED BY <1>1, <1>5, <1>6, <2>1 DEF IsMember
<1> QED BY <1>1, <1>4, <1>5, <1>7

\* ... which is a member of an object ...
LEMMA MemberText ==
  ASSUME NEW k \in Strings, NEW v \in ValueText
  PROVE  <<k, <<":">>>> \o v \in MembersText
<1>1. PICK s : s = <<k, <<":">>>> \o v
  OBVIOUS
<1>2. Len(v) \in Nat /\ Len(v) + 2 \in Nat /\ Len(v) <= Len(v) + 2
  BY ValueTextLength
<1>3. s \in Seq(Tokens) /\ Len(s) = Len(v) + 2 /\ IsMember(s, Texts[Len(v) + 2])
  BY <1>1, <1>2, IsMemberText
<1>4. s \in MemberTexts(Texts[Len(s)])
  BY <1>3 DEF MemberTexts
<1>5. Texts[Len(s) + 1].members = MemberTexts(Texts[Len(s)])
  BY <1>2, <1>3, RulesIs
<1> QED BY <1>1, <1>3, <1>4, <1>5 DEF MembersText

\* ... and one may follow other members, after a comma.
LEMMA MembersMore ==
  ASSUME NEW m \in MembersText, NEW k \in Strings, NEW v \in ValueText
  PROVE  (m \o <<<<",">>>>) \o (<<k, <<":">>>> \o v) \in MembersText
<1>1. PICK x : x = <<",">>
  OBVIOUS
<1>2. x \in Tokens
  BY <1>1, TokenSet
<1>3. PICK u : u = <<k, <<":">>>> \o v
  OBVIOUS
<1>4. m \in Seq(Tokens) /\ Len(m) \in Nat /\ Len(v) \in Nat /\ m \in Texts[Len(m) + 1].members
  BY ValueTextLength DEF MembersText
<1>5. \A n \in Nat : Len(v) <= n => u \in Seq(Tokens) /\ Len(u) = Len(v) + 2 /\ IsMember(u, Texts[n])
  BY <1>3, IsMemberText
<1>6. u \in Seq(Tokens) /\ Len(u) = Len(v) + 2
  BY <1>4, <1>5
<1>7. PICK s : s = (m \o <<x>>) \o u
  OBVIOUS
<1>8. /\ s \in Seq(Tokens) /\ Len(s) = Len(m) + 1 + Len(u) /\ s[Len(m) + 1] = x
      /\ SubSeq(s, 1, Len(m)) = m /\ SubSeq(s, Len(m) + 2, Len(s)) = u
  <2>1. m \in Seq(Tokens) /\ x \in Tokens /\ u \in Seq(Tokens)
    BY <1>2, <1>4, <1>6
  <2> QED BY <1>7, <2>1, Joined
<1>9. PICK c \in Nat : c = Len(m) + 1
  BY <1>4
<1>10. Len(s) \in Nat /\ Len(m) + 1 \in Nat /\ Len(m) + 1 <= Len(s) /\ Len(v) <= Len(s)
       /\ c \in DOMAIN s /\ c - 1 = Len(m) /\ c + 1 = Len(m) + 2
  BY <1>4, <1>6, <1>8, <1>9
<1>11. m \in Texts[Len(s)].members /\ IsMember(u, Texts[Len(s)])
  BY <1>4, <1>5, <1>10, Longer
<1>12. s[c] = <<",">> /\ SubSeq(s, 1, c - 1) \in Texts[Len(s)].members
       /\ IsMember(SubSeq(s, c + 1, Len(s)), Texts[Len(s)])
  BY <1>1, <1>8, <1>9, <1>10, <1>11
<1>13. s \in MemberTexts(Texts[Len(s)])
  BY <1>8, <1>10, <1>12 DEF MemberTexts
<1>14. Texts[Len(s) + 1].members = MemberTexts(Texts[Len(s)])
  BY <1>10, RulesIs
<1> QED BY <1>1, <1>3, <1>7, <1>8, <1>13, <1>14 DEF MembersText
-----------------------------------------------------------------------------
(* The parser takes every text of the grammar. *)

IsStack(inside) == \E X : inside \in Seq(X)

\* From where a value is due the parser takes the text w as one.
Taken(w) ==
  \A at \in ValueDue : \A inside, value :
    IsStack(inside) =>
      \E v : Parses(State(at, inside, value), w, Value(State(at, inside, value), v))

\* In an array it takes the text e as elements, in an object the text m as members.
Elements(e) ==
  \A at \in ValueDue : \A inside, value, key, content :
    IsStack(inside) =>
      \E more : Parses(State(at, Append(inside, Container("array", key, content)), value), e,
                       State("next", Append(inside, Container("array", key, more)), value))
Members(m) ==
  \A at \in NameDue : \A inside, value, key, content :
    IsStack(inside) =>
      \E last, more :
        Parses(State(at, Append(inside, Container("object", key, content)), value), m,
               State("next", Append(inside, Container("object", last, more)), value))

\* TopOf, for a stack.
LEMMA StackTop ==
  ASSUME NEW inside, IsStack(inside), NEW c
  PROVE  /\ Append(inside, c) # <<>> /\ Last(Append(inside, c)) = c
         /\ Front(Append(inside, c)) = inside /\ IsStack(Append(inside, c))
<1>1. PICK X : inside \in Seq(X)
  BY DEF IsStack
<1>2. Append(inside, c) \in Seq(X \cup {c})
  BY <1>1, TopOf
<1>3. IsStack(Append(inside, c))
  BY <1>2 DEF IsStack
<1> QED BY <1>1, <1>3, TopOf

\* A value at the end of an array or of a member.
LEMMA ValueInside ==
  ASSUME NEW at, NEW inside, IsStack(inside), NEW value, NEW v, NEW c
  PROVE  Value(State(at, Append(inside, c), value), v)
           = State("next", Append(inside, Inserted(c, v)), value)
<1>1. PICK i : i = Append(inside, c)
  OBVIOUS
<1>2. i # <<>> /\ Last(i) = c /\ Front(i) = inside
  BY <1>1, StackTop
<1>3. Value(State(at, i, value), v) = State("next", Append(Front(i), Inserted(Last(i), v)), value)
  BY <1>2, ValueIs
<1> QED BY <1>1, <1>2, <1>3

\* A value ends the same wherever it was due.
LEMMA ValueSame ==
  ASSUME NEW at, NEW to, NEW inside, NEW value, NEW v
  PROVE  Value(State(at, inside, value), v) = Value(State(to, inside, value), v)
<1>1. \A a : Value(State(a, inside, value), v)
               = IF inside = <<>> THEN State("end", inside, v)
                 ELSE State("next", Append(Front(inside), Inserted(Last(inside), v)), value)
  BY ValueIs
<1> QED BY <1>1

\* The parser takes a string, or a finite number.
LEMMA TakenToken == ASSUME NEW t \in Strings \cup (Numbers \ {Infinite}) PROVE Taken(<<t>>)
<1> SUFFICES ASSUME NEW at \in ValueDue, NEW inside, NEW value, IsStack(inside)
             PROVE  \E v : Parses(State(at, inside, value), <<t>>, Value(State(at, inside, value), v))
  BY DEF Taken
<1>1. PICK v : Parse(State(at, inside, value), t) = Value(State(at, inside, value), v)
  <2>1. CASE t \in Strings
    BY <2>1, ParseString
  <2>2. CASE t \in Numbers \ {Infinite}
    <3>1. t \in Numbers /\ t # Infinite
      BY <2>2
    <3>2. Parse(State(at, inside, value), t)
            = Value(State(at, inside, value), <<"number", Scanned(t[2])>>)
      BY <3>1, ParseNumber
    <3> QED BY <3>2
  <2> QED BY <2>1, <2>2
<1> QED BY <1>1, ParsesOne

\* In an array a value is an element ...
LEMMA ElementsValue == ASSUME NEW w, Taken(w) PROVE Elements(w)
<1> SUFFICES ASSUME NEW at \in ValueDue, NEW inside, NEW value, NEW key, NEW content,
                    IsStack(inside)
             PROVE  \E more :
                      Parses(State(at, Append(inside, Container("array", key, content)), value), w,
                             State("next", Append(inside, Container("array", key, more)), value))
  BY DEF Elements
<1>1. PICK c : c = Container("array", key, content)
  OBVIOUS
<1>2. IsStack(Append(inside, c))
  BY StackTop
<1>3. PICK v : Parses(State(at, Append(inside, c), value), w,
                      Value(State(at, Append(inside, c), value), v))
  BY <1>2 DEF Taken
<1>4. Value(State(at, Append(inside, c), value), v)
        = State("next", Append(inside, Inserted(c, v)), value)
  BY ValueInside
<1>5. Inserted(c, v) = Container("array", key, Append(content, v))
  BY <1>1, InsertedElement
<1>6. Parses(State(at, Append(inside, c), value), w,
             State("next", Append(inside, Container("array", key, Append(content, v))), value))
  BY <1>3, <1>4, <1>5
<1> QED BY <1>1, <1>6

\* A text, a token and a text.
LEMMA ParsesThree ==
  ASSUME NEW X, NEW s \in Seq(X), NEW x \in X, NEW t \in Seq(X), NEW p, NEW q, NEW r,
         Parses(p, s, q), Parses(Parse(q, x), t, r)
  PROVE  Parses(p, (s \o <<x>>) \o t, r)
<1>1. Parses(q, <<x>>, Parse(q, x))
  BY ParsesOne
<1>2. <<x>> \in Seq(X)
  OBVIOUS
<1>3. Parses(p, s \o <<x>>, Parse(q, x))
  BY <1>1, <1>2, ParsesBoth
<1>4. s \o <<x>> \in Seq(X)
  BY <1>2
<1> QED BY <1>3, <1>4, ParsesBoth

\* ... and one may follow other elements, after a comma.
LEMMA TakenMore ==
  ASSUME NEW e \in Seq(Tokens), NEW w \in Seq(Tokens), Elements(e), Taken(w)
  PROVE  Elements((e \o <<<<",">>>>) \o w)
<1> SUFFICES ASSUME NEW at \in ValueDue, NEW inside, NEW value, NEW key, NEW content,
                    IsStack(inside)
             PROVE  \E more :
                      Parses(State(at, Append(inside, Container("array", key, content)), value),
                             (e \o <<<<",">>>>) \o w,
                             State("next", Append(inside, Container("array", key, more)), value))
  BY DEF Elements
<1>1. PICK p : p = State(at, Append(inside, Container("array", key, content)), value)
  OBVIOUS
<1>2. PICK more : Parses(p, e, State("next", Append(inside, Container("array", key, more)), value))
  BY <1>1 DEF Elements
<1>3. PICK i : i = Append(inside, Container("array", key, more))
  OBVIOUS
<1>4. Last(i) = Container("array", key, more)
  BY <1>3, StackTop
<1>5. Parse(State("next", i, value), <<",">>) = State("value", i, value)
  <2>1. Parse(State("next", i, value), <<",">>) = State(AfterComma("array"), i, value)
    BY <1>4, ParseComma
  <2>2. AfterComma("array") = "value"
    BY DEF AfterComma
  <2> QED BY <2>1, <2>2
<1>6. "value" \in ValueDue
  BY DEF ValueDue
<1>7. Elements(w)
  BY ElementsValue
<1>8. PICK all : Parses(State("value", i, value), w,
                        State("next", Append(inside, Container("array", key, all)), value))
  BY <1>3, <1>6, <1>7 DEF Elements
<1>9. PICK x : x = <<",">>
  OBVIOUS
<1>10. x \in Tokens
  BY <1>9, TokenSet
<1>11. Parses(p, (e \o <<x>>) \o w, State("next", Append(inside, Container("array", key, all)), value))
  BY <1>2, <1>3, <1>5, <1>8, <1>9, <1>10, ParsesThree
<1> QED BY <1>1, <1>9, <1>11

Open(kind) == IF kind = "object" THEN "{" ELSE "["

\* An opening bracket is a token.
LEMMA OpenToken == \A kind : <<Open(kind)>> \in Tokens
BY TokenSet DEF Open

\* A container between its brackets.
LEMMA BracketsParse ==
  ASSUME NEW at, NEW inside, NEW value, IsStack(inside), NEW kind \in Kinds, NEW e \in Seq(Tokens),
         NEW to \in MayClose(kind), NEW key, NEW content,
         Parses(Parse(State(at, inside, value), <<Open(kind)>>), e,
                State(to, Append(inside, Container(kind, key, content)), value))
  PROVE  Parses(State(at, inside, value), (<<<<Open(kind)>>>> \o e) \o <<<<Close(kind)>>>>,
                Value(State(at, inside, value), <<kind, content>>))
<1>1. PICK p, x, y : p = State(at, inside, value) /\ x = <<Open(kind)>> /\ y = <<Close(kind)>>
  OBVIOUS
<1>2. PICK i : i = Append(inside, Container(kind, key, content))
  OBVIOUS
<1>3. x \in Tokens /\ y \in Tokens
  <2>1. Close(kind) = "}" \/ Close(kind) = "]"
    BY DEF Close
  <2>2. y \in Tokens
    BY <1>1, <2>1, TokenSet
  <2> QED BY <1>1, <2>2, OpenToken
<1>4. Last(i) = Container(kind, key, content) /\ Front(i) = inside
  BY <1>2, StackTop
<1>5. PICK r : r = Value(State(at, inside, value), <<kind, content>>)
  OBVIOUS
<1>6. Parse(State(to, i, value), y) = r
  <2>1. Parse(State(to, i, value), <<Close(kind)>>)
          = Value(State("value", Front(i), value), <<kind, content>>)
    BY <1>4, ParseClose
  <2>2. \A v : Value(State("value", inside, value), v) = Value(State(at, inside, value), v)
    BY ValueSame
  <2> QED BY <1>1, <1>4, <1>5, <2>1, <2>2
<1>7. Parses(State(to, i, value), <<y>>, r)
  BY <1>6, ParsesOne
<1>8. Parses(p, <<x>>, Parse(p, x))
  BY ParsesOne
<1>9. <<x>> \in Seq(Tokens) /\ <<y>> \in Seq(Tokens)
  BY <1>3
<1>10. Parses(p, <<x>> \o e, State(to, i, value))
  <2>1. Parses(Parse(p, x), e, State(to, i, value))
    BY <1>1, <1>2
  <2> QED BY <1>8, <1>9, <2>1, ParsesBoth
<1>11. <<x>> \o e \in Seq(Tokens)
  BY <1>9
<1>12. Parses(p, (<<x>> \o e) \o <<y>>, r)
  BY <1>7, <1>9, <1>10, <1>11, ParsesBoth
<1> QED BY <1>1, <1>5, <1>12

\* What is in brackets is a text.
LEMMA BracketsType ==
  ASSUME NEW kind, NEW e \in Seq(Tokens)
  PROVE  (<<<<Open(kind)>>>> \o e) \o <<<<Close(kind)>>>> \in Seq(Tokens)
<1>1. PICK x, y : x = <<Open(kind)>> /\ y = <<Close(kind)>>
  OBVIOUS
<1>2. x \in Tokens /\ y \in Tokens
  <2>1. Close(kind) = "}" \/ Close(kind) = "]"
    BY DEF Close
  <2>2. y \in Tokens
    BY <1>1, <2>1, TokenSet
  <2> QED BY <1>1, <2>2, OpenToken
<1>3. (<<x>> \o e) \o <<y>> \in Seq(Tokens)
  BY <1>2
<1> QED BY <1>1, <1>3

\* The parser takes elements in square brackets, or none.
LEMMA TakenArray ==
  ASSUME NEW e \in Seq(Tokens), e = <<>> \/ Elements(e)
  PROVE  Taken((<<<<"[">>>> \o e) \o <<<<"]">>>>)
<1> SUFFICES ASSUME NEW at \in ValueDue, NEW inside, NEW value, IsStack(inside)
             PROVE  \E v : Parses(State(at, inside, value), (<<<<"[">>>> \o e) \o <<<<"]">>>>,
                                  Value(State(at, inside, value), v))
  BY DEF Taken
<1>1. PICK kind : kind = "array"
  OBVIOUS
<1>2. kind \in Kinds /\ Open(kind) = "[" /\ Close(kind) = "]"
  BY <1>1 DEF Kinds, Open, Close
<1>3. PICK q : q = State("first value", Append(inside, Container(kind, NoName, <<>>)), value)
  OBVIOUS
<1>4. Parse(State(at, inside, value), <<Open(kind)>>) = q
  BY <1>1, <1>2, <1>3, ParseArray
<1>5. PICK to, more :
        /\ Parses(q, e, State(to, Append(inside, Container(kind, NoName, more)), value))
        /\ to \in MayClose(kind)
  <2>1. CASE e = <<>>
    <3>1. Parses(q, e, State("first value", Append(inside, Container(kind, NoName, <<>>)), value))
      BY <1>3, <2>1, ParsesNone
    <3>2. "first value" \in MayClose(kind)
      BY <1>1 DEF MayClose
    <3> QED BY <3>1, <3>2
  <2>2. CASE Elements(e)
    <3>1. "first value" \in ValueDue
      BY DEF ValueDue
    <3>2. PICK more : Parses(q, e, State("next", Append(inside, Container(kind, NoName, more)), value))
      BY <1>1, <1>3, <2>2, <3>1 DEF Elements
    <3>3. "next" \in MayClose(kind)
      BY DEF MayClose
    <3> QED BY <3>2, <3>3
  <2> QED BY <2>1, <2>2
<1>6. Parses(State(at, inside, value), (<<<<Open(kind)>>>> \o e) \o <<<<Close(kind)>>>>,
             Value(State(at, inside, value), <<kind, more>>))
  BY <1>2, <1>4, <1>5, BracketsParse
<1> QED BY <1>2, <1>6

\* Two tokens.
LEMMA PairOf == ASSUME NEW x, NEW y PROVE <<x>> \o <<y>> = <<x, y>>
<1>1. PICK X : X = {x, y}
  OBVIOUS
<1>2. PICK a, b, d : a = <<x>> /\ b = <<y>> /\ d = <<x, y>>
  OBVIOUS
<1>3. a \in Seq(X) /\ Len(a) = 1 /\ a[1] = x /\ b \in Seq(X) /\ Len(b) = 1 /\ b[1] = y
      /\ d \in Seq(X) /\ Len(d) = 2 /\ d[1] = x /\ d[2] = y
  BY <1>1, <1>2
<1>4. PICK c : c = a \o b
  OBVIOUS
<1>5. c \in Seq(X) /\ Len(c) = 2 /\ c[1] = x /\ c[2] = y
  <2>1. /\ a \o b \in Seq(X) /\ Len(a \o b) = Len(a) + Len(b)
        /\ \A i \in 1 .. Len(a) + Len(b) : (a \o b)[i] = IF i <= Len(a) THEN a[i] ELSE b[i - Len(a)]
    BY <1>3, ConcatProperties
  <2>2. \A i \in 1 .. 2 : c[i] = IF i <= 1 THEN a[i] ELSE b[i - 1]
    BY <1>3, <1>4, <2>1
  <2>3. 1 \in 1 .. 2 /\ 2 \in 1 .. 2 /\ 2 - 1 = 1 /\ 1 <= 1 /\ ~ (2 <= 1)
    OBVIOUS
  <2>4. c[1] = a[1] /\ c[2] = b[1]
    BY <2>2, <2>3
  <2> QED BY <1>3, <1>4, <2>1, <2>4
<1>6. \A i \in 1 .. Len(c) : c[i] = d[i]
  BY <1>3, <1>5
<1>7. c = d
  BY <1>3, <1>5, <1>6, SeqEqual
<1> QED BY <1>2, <1>4, <1>7

\* A member.
LEMMA MemberParses ==
  ASSUME NEW at \in NameDue, NEW inside, NEW value, IsStack(inside), NEW key, NEW content,
         NEW name \in ToSet(Names), NEW u, NEW w \in Seq(Tokens), NEW c,
         c = Container("object", name, content),
         Parses(State("value", Append(inside, c), value), w,
                Value(State("value", Append(inside, c), value), u)),
         NEW more, more = [content EXCEPT ![name] = IF @ = Nothing THEN u ELSE @]
  PROVE  /\ <<<<"string", name>>, <<":">>>> \o w \in Seq(Tokens)
         /\ Parses(State(at, Append(inside, Container("object", key, content)), value),
                   <<<<"string", name>>, <<":">>>> \o w,
                   State("next", Append(inside, Container("object", name, more)), value))
<1>1. PICK i : i = Append(inside, Container("object", key, content))
  OBVIOUS
<1>3. Last(i) = Container("object", key, content) /\ Front(i) = inside
  BY <1>1, StackTop
<1>4. PICK k : k = <<"string", name>>
  OBVIOUS
<1>5. k \in Strings /\ k[2] = name
  BY <1>4, TokenSet
<1>6. Parse(State(at, i, value), k) = State("colon", Append(inside, c), value)
  <2>1. Parse(State(at, i, value), k)
          = State("colon", Append(Front(i), Container("object", k[2], content)), value)
    BY <1>3, <1>5, ParseKey
  <2> QED BY <1>3, <1>5, <2>1
<1>7. Parse(State("colon", Append(inside, c), value), <<":">>) = State("value", Append(inside, c), value)
  BY ParseColon
<1>10. Value(State("value", Append(inside, c), value), u)
         = State("next", Append(inside, Inserted(c, u)), value)
  BY ValueInside
<1>11. Inserted(c, u) = Container("object", name, more)
  BY InsertedMember
<1>12. PICK y : y = <<":">>
  OBVIOUS
<1>13. k \in Tokens /\ y \in Tokens
  BY <1>5, <1>12, TokenSet
<1>14. Parses(State(at, i, value), <<k>>, State("colon", Append(inside, c), value))
  BY <1>6, ParsesOne
<1>15. Parses(State(at, i, value), (<<k>> \o <<y>>) \o w,
              State("next", Append(inside, Inserted(c, u)), value))
  <2>1. <<k>> \in Seq(Tokens)
    BY <1>13
  <2>2. Parses(Parse(State("colon", Append(inside, c), value), y), w,
               State("next", Append(inside, Inserted(c, u)), value))
    BY <1>7, <1>10, <1>12
  <2> QED BY <1>13, <1>14, <2>1, <2>2, ParsesThree
<1>16. <<k>> \o <<y>> = <<k, y>>
  BY PairOf
<1>17. (<<k>> \o <<y>>) \o w \in Seq(Tokens)
  BY <1>13
<1> QED BY <1>1, <1>4, <1>11, <1>12, <1>15, <1>16, <1>17

\* In an object a name, a colon and a value are a member ...
LEMMA TakenMember ==
  ASSUME NEW k \in Strings, NEW w \in Seq(Tokens), Taken(w)
  PROVE  Members(<<k, <<":">>>> \o w)
<1> SUFFICES ASSUME NEW at \in NameDue, NEW inside, NEW value, NEW key, NEW content,
                    IsStack(inside)
             PROVE  \E last, more :
                      Parses(State(at, Append(inside, Container("object", key, content)), value),
                             <<k, <<":">>>> \o w,
                             State("next", Append(inside, Container("object", last, more)), value))
  BY DEF Members
<1>1. PICK name \in ToSet(Names) : k = <<"string", name>>
  BY StringName
<1>2. PICK c : c = Container("object", name, content)
  OBVIOUS
<1>3. "value" \in ValueDue
  BY DEF ValueDue
<1>4. IsStack(Append(inside, c))
  BY StackTop
<1>5. PICK v : Parses(State("value", Append(inside, c), value), w,
                      Value(State("value", Append(inside, c), value), v))
  BY <1>3, <1>4 DEF Taken
<1>6. PICK more : more = [content EXCEPT ![name] = IF @ = Nothing THEN v ELSE @]
  OBVIOUS
<1>7. Parses(State(at, Append(inside, Container("object", key, content)), value),
             <<<<"string", name>>, <<":">>>> \o w,
             State("next", Append(inside, Container("object", name, more)), value))
  BY <1>2, <1>5, <1>6, MemberParses
<1> QED BY <1>1, <1>7

\* ... and one may follow other members, after a comma.
LEMMA TakenMembers ==
  ASSUME NEW m \in Seq(Tokens), NEW u \in Seq(Tokens), Members(m), Members(u)
  PROVE  Members((m \o <<<<",">>>>) \o u)
<1> SUFFICES ASSUME NEW at \in NameDue, NEW inside, NEW value, NEW key, NEW content,
                    IsStack(inside)
             PROVE  \E last, more :
                      Parses(State(at, Append(inside, Container("object", key, content)), value),
                             (m \o <<<<",">>>>) \o u,
                             State("next", Append(inside, Container("object", last, more)), value))
  BY DEF Members
<1>1. PICK p : p = State(at, Append(inside, Container("object", key, content)), value)
  OBVIOUS
<1>2. PICK last, more :
        Parses(p, m, State("next", Append(inside, Container("object", last, more)), value))
  BY <1>1 DEF Members
<1>3. PICK i : i = Append(inside, Container("object", last, more))
  OBVIOUS
<1>4. Last(i) = Container("object", last, more)
  BY <1>3, StackTop
<1>5. Parse(State("next", i, value), <<",">>) = State("key", i, value)
  <2>1. Parse(State("next", i, value), <<",">>) = State(AfterComma("object"), i, value)
    BY <1>4, ParseComma
  <2>2. AfterComma("object") = "key"
    BY DEF AfterComma
  <2> QED BY <2>1, <2>2
<1>6. "key" \in NameDue
  BY DEF NameDue
<1>7. PICK key2, all : Parses(State("key", i, value), u,
                              State("next", Append(inside, Container("object", key2, all)), value))
  BY <1>3, <1>6 DEF Members
<1>8. PICK x : x = <<",">>
  OBVIOUS
<1>9. x \in Tokens
  BY <1>8, TokenSet
<1>10. Parses(p, (m \o <<x>>) \o u,
              State("next", Append(inside, Container("object", key2, all)), value))
  BY <1>2, <1>3, <1>5, <1>7, <1>8, <1>9, ParsesThree
<1> QED BY <1>1, <1>8, <1>10

\* The parser takes members in braces, or none.
LEMMA TakenObject ==
  ASSUME NEW m \in Seq(Tokens), m = <<>> \/ Members(m)
  PROVE  Taken((<<<<"{">>>> \o m) \o <<<<"}">>>>)
<1> SUFFICES ASSUME NEW at \in ValueDue, NEW inside, NEW value, IsStack(inside)
             PROVE  \E v : Parses(State(at, inside, value), (<<<<"{">>>> \o m) \o <<<<"}">>>>,
                                  Value(State(at, inside, value), v))
  BY DEF Taken
<1>1. PICK kind : kind = "object"
  OBVIOUS
<1>2. kind \in Kinds /\ Open(kind) = "{" /\ Close(kind) = "}"
  BY <1>1 DEF Kinds, Open, Close
<1>0. PICK none : none = [name \in ToSet(Names) |-> Nothing]
  OBVIOUS
<1>3. PICK q : q = State("first key", Append(inside, Container(kind, NoName, none)), value)
  OBVIOUS
<1>4. Parse(State(at, inside, value), <<Open(kind)>>) = q
  BY <1>0, <1>1, <1>2, <1>3, ParseObject
<1>5. PICK to, last, more :
        /\ Parses(q, m, State(to, Append(inside, Container(kind, last, more)), value))
        /\ to \in MayClose(kind)
  <2>1. CASE m = <<>>
    <3>1. Parses(q, m, State("first key", Append(inside, Container(kind, NoName, none)), value))
      BY <1>3, <2>1, ParsesNone
    <3>2. "first key" \in MayClose(kind)
      BY <1>1 DEF MayClose
    <3> QED BY <3>1, <3>2
  <2>2. CASE Members(m)
    <3>1. "first key" \in NameDue
      BY DEF NameDue
    <3>2. PICK last, more : Parses(q, m, State("next", Append(inside, Container(kind, last, more)), value))
      BY <1>1, <1>3, <2>2, <3>1 DEF Members
    <3>3. "next" \in MayClose(kind)
      BY DEF MayClose
    <3> QED BY <3>2, <3>3
  <2> QED BY <2>1, <2>2
<1>6. Parses(State(at, inside, value), (<<<<Open(kind)>>>> \o m) \o <<<<Close(kind)>>>>,
             Value(State(at, inside, value), <<kind, more>>))
  BY <1>2, <1>4, <1>5, BracketsParse
<1> QED BY <1>2, <1>6

\* No number of the text is too large for a double.
Finite(s) == \A i \in 1 .. Len(s) : s[i] # Infinite

\* Of two texts, one after the other, ...
LEMMA FiniteBoth ==
  ASSUME NEW X, NEW s \in Seq(X), NEW t \in Seq(X)
  PROVE  Finite(s \o t) <=> Finite(s) /\ Finite(t)
<1>1. /\ Len(s) \in Nat /\ Len(t) \in Nat /\ Len(s \o t) = Len(s) + Len(t)
      /\ \A i \in 1 .. Len(s) : (s \o t)[i] = s[i]
      /\ \A i \in 1 .. Len(t) : (s \o t)[Len(s) + i] = t[i]
  OBVIOUS
<1>2. ASSUME Finite(s \o t) PROVE Finite(s) /\ Finite(t)
  <2>1. ASSUME NEW i \in 1 .. Len(s) PROVE s[i] # Infinite
    <3>1. i \in 1 .. Len(s \o t)
      BY <1>1
    <3> QED BY <1>1, <1>2, <3>1 DEF Finite
  <2>2. ASSUME NEW i \in 1 .. Len(t) PROVE t[i] # Infinite
    <3>1. Len(s) + i \in 1 .. Len(s \o t)
      BY <1>1
    <3> QED BY <1>1, <1>2, <3>1 DEF Finite
  <2> QED BY <2>1, <2>2 DEF Finite
<1>3. ASSUME Finite(s), Finite(t) PROVE Finite(s \o t)
  <2>1. ASSUME NEW i \in 1 .. Len(s \o t) PROVE (s \o t)[i] # Infinite
    <3>1. CASE i <= Len(s)
      <4>1. i \in 1 .. Len(s)
        BY <1>1, <3>1
      <4> QED BY <1>1, <1>3, <4>1 DEF Finite
    <3>2. CASE i > Len(s)
      <4>1. PICK j \in 1 .. Len(t) : i = Len(s) + j
        <5>1. i - Len(s) \in 1 .. Len(t) /\ i = Len(s) + (i - Len(s))
          BY <1>1, <3>2
        <5> QED BY <5>1
      <4> QED BY <1>1, <1>3, <4>1 DEF Finite
    <3> QED BY <1>1, <3>1, <3>2
  <2> QED BY <2>1 DEF Finite
<1> QED BY <1>2, <1>3

\* ... of one token ...
LEMMA FiniteOne == ASSUME NEW t PROVE Finite(<<t>>) <=> t # Infinite
<1>1. PICK s : s = <<t>>
  OBVIOUS
<1>2. Len(s) = 1 /\ s[1] = t
  BY <1>1
<1>3. Finite(s) <=> t # Infinite
  BY <1>2 DEF Finite
<1> QED BY <1>1, <1>3

\* ... of the parts before and after a comma ...
LEMMA FiniteCut ==
  ASSUME NEW s \in Seq(Tokens), Finite(s), NEW c \in 1 .. Len(s)
  PROVE  Finite(SubSeq(s, 1, c - 1)) /\ Finite(SubSeq(s, c + 1, Len(s)))
<1>1. PICK a, b, x : a = SubSeq(s, 1, c - 1) /\ b = SubSeq(s, c + 1, Len(s)) /\ x = s[c]
  OBVIOUS
<1>2. s = (a \o <<x>>) \o b /\ a \in Seq(Tokens) /\ b \in Seq(Tokens)
  BY <1>1, Cut
<1>3. x \in Tokens
  BY <1>1
<1>4. <<x>> \in Seq(Tokens) /\ a \o <<x>> \in Seq(Tokens)
  BY <1>2, <1>3
<1>5. Finite(a \o <<x>>) /\ Finite(b)
  BY <1>2, <1>4, FiniteBoth
<1>6. Finite(a)
  BY <1>2, <1>4, <1>5, FiniteBoth
<1> QED BY <1>1, <1>5, <1>6

\* ... of what is in brackets ...
LEMMA FinitePeeled ==
  ASSUME NEW s \in Seq(Tokens), Finite(s), Len(s) >= 2
  PROVE  Finite(SubSeq(s, 2, Len(s) - 1))
<1>1. PICK a, x, y : a = SubSeq(s, 2, Len(s) - 1) /\ x = s[1] /\ y = s[Len(s)]
  OBVIOUS
<1>2. s = (<<x>> \o a) \o <<y>> /\ a \in Seq(Tokens)
  BY <1>1, Peeled
<1>3. x \in Tokens /\ y \in Tokens
  BY <1>1
<1>4. <<x>> \in Seq(Tokens) /\ <<y>> \in Seq(Tokens) /\ <<x>> \o a \in Seq(Tokens)
  BY <1>2, <1>3
<1>5. Finite(<<x>> \o a)
  BY <1>2, <1>4, FiniteBoth
<1> QED BY <1>1, <1>2, <1>4, <1>5, FiniteBoth

\* ... and of what is behind a name and a colon.
LEMMA FinitePrefixed ==
  ASSUME NEW s \in Seq(Tokens), Finite(s), Len(s) >= 2
  PROVE  Finite(SubSeq(s, 3, Len(s)))
<1>1. PICK a, d : a = SubSeq(s, 3, Len(s)) /\ d = <<s[1], s[2]>>
  OBVIOUS
<1>2. s = d \o a /\ a \in Seq(Tokens)
  BY <1>1, Prefixed
<1>3. d \in Seq(Tokens)
  BY <1>1
<1>4. Finite(d \o a)
  BY <1>2
<1>5. Finite(a)
  BY <1>2, <1>3, <1>4, FiniteBoth
<1> QED BY <1>1, <1>5

\* What the rules make of texts the parser takes, it takes.
TakesTexts(T) ==
  /\ \A s \in T.value : s \in Seq(Tokens) /\ (Finite(s) => Taken(s))
  /\ \A s \in T.elements : s \in Seq(Tokens) /\ (Finite(s) => Elements(s))
  /\ \A s \in T.members : s \in Seq(Tokens) /\ (Finite(s) => Members(s))

\* For values, ...
LEMMA TakesValues ==
  ASSUME NEW T, TakesTexts(T), NEW s \in ValueTexts(T), Finite(s) PROVE Taken(s)
<1>1. s \in Seq(Tokens) /\ Len(s) \in Nat
  <2>1. s \in Seq(Tokens)
    BY DEF ValueTexts
  <2> QED BY <2>1
<1>2. CASE Len(s) = 1 /\ s[1] \in Strings \cup Numbers
  <2>1. s = <<s[1]>>
    <3>1. PICK t : t = <<s[1]>>
      OBVIOUS
    <3>2. t \in Seq(Tokens) /\ Len(t) = 1 /\ t[1] = s[1]
      BY <1>1, <1>2, <3>1
    <3>3. \A i \in 1 .. Len(s) : s[i] = t[i]
      BY <1>2, <3>2
    <3> QED BY <1>1, <1>2, <3>1, <3>2, <3>3, SeqEqual
  <2>2. s[1] # Infinite
    BY <1>2 DEF Finite
  <2>3. s[1] \in Strings \cup (Numbers \ {Infinite})
    BY <1>2, <2>2
  <2> QED BY <2>1, <2>3, TakenToken
<1>3. ASSUME NEW x, NEW y, NEW content, Enclosed(s, x, y, content)
      PROVE  \E a \in Seq(Tokens) : /\ s = (<<<<x>>>> \o a) \o <<<<y>>>> /\ Finite(a)
                                    /\ a = <<>> \/ a \in content
  <2>1. Len(s) >= 2 /\ s[1] = <<x>> /\ s[Len(s)] = <<y>>
        /\ (Len(s) = 2 \/ SubSeq(s, 2, Len(s) - 1) \in content)
    BY <1>3 DEF Enclosed
  <2>2. PICK a : a = SubSeq(s, 2, Len(s) - 1)
    OBVIOUS
  <2>3. s = (<<s[1]>> \o a) \o <<s[Len(s)]>> /\ a \in Seq(Tokens) /\ (Len(s) = 2 => a = <<>>)
    BY <1>1, <2>1, <2>2, Peeled
  <2>4. Finite(a)
    BY <1>1, <2>1, <2>2, FinitePeeled
  <2> QED BY <2>1, <2>2, <2>3, <2>4
<1>4. CASE Enclosed(s, "[", "]", T.elements)
  <2>1. PICK a \in Seq(Tokens) : /\ s = (<<<<"[">>>> \o a) \o <<<<"]">>>> /\ Finite(a)
                                 /\ a = <<>> \/ a \in T.elements
    BY <1>3, <1>4
  <2>2. a = <<>> \/ Elements(a)
    BY <2>1 DEF TakesTexts
  <2> QED BY <2>1, <2>2, TakenArray
<1>5. CASE Enclosed(s, "{", "}", T.members)
  <2>1. PICK a \in Seq(Tokens) : /\ s = (<<<<"{">>>> \o a) \o <<<<"}">>>> /\ Finite(a)
                                 /\ a = <<>> \/ a \in T.members
    BY <1>3, <1>5
  <2>2. a = <<>> \/ Members(a)
    BY <2>1 DEF TakesTexts
  <2> QED BY <2>1, <2>2, TakenObject
<1> QED BY <1>2, <1>4, <1>5 DEF ValueTexts

\* ... for elements ...
LEMMA TakesElements ==
  ASSUME NEW T, TakesTexts(T), NEW s \in ElementTexts(T), Finite(s) PROVE Elements(s)
<1>1. s \in Seq(Tokens)
  BY DEF ElementTexts
<1>2. CASE s \in T.value
  <2>1. Taken(s)
    BY <1>2 DEF TakesTexts
  <2> QED BY <2>1, ElementsValue
<1>3. ASSUME NEW c \in DOMAIN s, s[c] = <<",">>, SubSeq(s, 1, c - 1) \in T.elements,
             SubSeq(s, c + 1, Len(s)) \in T.value
      PROVE  Elements(s)
  <2>1. PICK a, b : a = SubSeq(s, 1, c - 1) /\ b = SubSeq(s, c + 1, Len(s))
    OBVIOUS
  <2>2. c \in 1 .. Len(s)
    BY <1>1
  <2>3. s = (a \o <<s[c]>>) \o b /\ a \in Seq(Tokens) /\ b \in Seq(Tokens)
    BY <1>1, <2>1, <2>2, Cut
  <2>4. Finite(a) /\ Finite(b)
    BY <1>1, <2>1, <2>2, FiniteCut
  <2>5. Elements(a) /\ Taken(b)
    BY <1>3, <2>1, <2>4 DEF TakesTexts
  <2>6. Elements((a \o <<<<",">>>>) \o b)
    BY <2>3, <2>5, TakenMore
  <2> QED BY <1>3, <2>3, <2>6
<1> QED BY <1>2, <1>3 DEF ElementTexts

\* ... and for members.
LEMMA TakesMembers ==
  ASSUME NEW T, TakesTexts(T), NEW s \in MemberTexts(T), Finite(s) PROVE Members(s)
<1>1. s \in Seq(Tokens)
  BY DEF MemberTexts
<1>2. ASSUME NEW u \in Seq(Tokens), IsMember(u, T), Finite(u) PROVE Members(u)
  <2>1. Len(u) > 2 /\ u[1] \in Strings /\ u[2] = <<":">> /\ SubSeq(u, 3, Len(u)) \in T.value
    BY <1>2 DEF IsMember
  <2>2. Len(u) >= 2
    BY <2>1
  <2>3. PICK a : a = SubSeq(u, 3, Len(u))
    OBVIOUS
  <2>4. u = <<u[1], u[2]>> \o a /\ a \in Seq(Tokens)
    BY <2>2, <2>3, Prefixed
  <2>5. Finite(a)
    BY <1>2, <2>2, <2>3, FinitePrefixed
  <2>6. Taken(a)
    BY <2>1, <2>3, <2>5 DEF TakesTexts
  <2>7. Members(<<u[1], <<":">>>> \o a)
    BY <2>1, <2>4, <2>6, TakenMember
  <2> QED BY <2>1, <2>4, <2>7
<1>3. CASE IsMember(s, T)
  BY <1>1, <1>2, <1>3
<1>4. ASSUME NEW c \in DOMAIN s, s[c] = <<",">>, SubSeq(s, 1, c - 1) \in T.members,
             IsMember(SubSeq(s, c + 1, Len(s)), T)
      PROVE  Members(s)
  <2>1. PICK a, b : a = SubSeq(s, 1, c - 1) /\ b = SubSeq(s, c + 1, Len(s))
    OBVIOUS
  <2>2. c \in 1 .. Len(s)
    BY <1>1
  <2>3. s = (a \o <<s[c]>>) \o b /\ a \in Seq(Tokens) /\ b \in Seq(Tokens)
    BY <1>1, <2>1, <2>2, Cut
  <2>4. Finite(a) /\ Finite(b)
    BY <1>1, <2>1, <2>2, FiniteCut
  <2>5. Members(a)
    BY <1>4, <2>1, <2>4 DEF TakesTexts
  <2>6. Members(b)
    BY <1>2, <1>4, <2>1, <2>3, <2>4
  <2>7. Members((a \o <<<<",">>>>) \o b)
    BY <2>3, <2>5, <2>6, TakenMembers
  <2> QED BY <1>4, <2>3, <2>7
<1> QED BY <1>3, <1>4 DEF MemberTexts

\* So the parser takes the texts of any number of steps of the grammar.
LEMMA TextsTaken == ASSUME NEW n \in Nat PROVE TakesTexts(Texts[n])
<1> DEFINE S == {i \in Nat : TakesTexts(Texts[i])}
<1>1. 0 \in S
  <2>1. Texts[0] = NoTexts
    BY TextsStep
  <2> QED BY <2>1 DEF TakesTexts, NoTexts
<1>2. ASSUME NEW i \in Nat, i \in S PROVE i + 1 \in S
  <2>1. PICK T : T = Texts[i] /\ TakesTexts(T)
    BY <1>2
  <2>2. PICK U : U = Texts[i + 1]
    OBVIOUS
  <2>3. /\ U.value = ValueTexts(T) /\ U.elements = ElementTexts(T) /\ U.members = MemberTexts(T)
    BY <2>1, <2>2, RulesIs
  <2>4. \A s \in U.value : s \in Seq(Tokens) /\ (Finite(s) => Taken(s))
    <3>1. \A s \in ValueTexts(T) : s \in Seq(Tokens)
      BY DEF ValueTexts
    <3> QED BY <2>1, <2>3, <3>1, TakesValues
  <2>5. \A s \in U.elements : s \in Seq(Tokens) /\ (Finite(s) => Elements(s))
    <3>1. \A s \in ElementTexts(T) : s \in Seq(Tokens)
      BY DEF ElementTexts
    <3> QED BY <2>1, <2>3, <3>1, TakesElements
  <2>6. \A s \in U.members : s \in Seq(Tokens) /\ (Finite(s) => Members(s))
    <3>1. \A s \in MemberTexts(T) : s \in Seq(Tokens)
      BY DEF MemberTexts
    <3> QED BY <2>1, <2>3, <3>1, TakesMembers
  <2>7. TakesTexts(U)
    BY <2>4, <2>5, <2>6 DEF TakesTexts
  <2> QED BY <2>2, <2>7
<1>3. Nat \subseteq S
  <2> HIDE DEF S
  <2> QED BY <1>1, <1>2, SetInduction
<1> QED BY <1>3
-----------------------------------------------------------------------------
(* What the parser has read, by the containers it is in. *)


\* The part of a container that ends where a name, or a value, is due, and a part that a
\* value has ended.
NameNext(seg) == seg = <<>> \/ \E m \in MembersText : seg = m \o <<<<",">>>>
ValueNext(kind, seg) ==
  \/ kind = "array" /\ (seg = <<>> \/ \E e \in ElementsText : seg = e \o <<<<",">>>>)
  \/ kind = "object" /\ \E m \in Seq(Tokens), k \in Strings : NameNext(m) /\ seg = m \o <<k, <<":">>>>
ValueDone(kind, seg) ==
  \/ kind = "array" /\ seg \in ElementsText
  \/ kind = "object" /\ seg \in MembersText

\* After the text s a value is due, in the containers inside: pre[i] is what precedes the
\* i-th of them.
Precedes(pre, inside, s) ==
  /\ pre \in Seq(Seq(Tokens)) /\ Len(pre) = Len(inside) + 1
  /\ pre[1] = <<>> /\ pre[Len(inside) + 1] = s
  /\ \A i \in 1 .. Len(inside) :
       \E seg \in Seq(Tokens) : /\ ValueNext(inside[i].kind, seg)
                                /\ pre[i + 1] = (pre[i] \o <<<<Open(inside[i].kind)>>>>) \o seg
Due(inside, s) == s \in Seq(Tokens) /\ \E pre : Precedes(pre, inside, s)

\* At the outermost level nothing precedes the value.
LEMMA DueOutside == Due(<<>>, <<>>) /\ \A s : Due(<<>>, s) => s = <<>>
<1>1. Due(<<>>, <<>>)
  <2>1. PICK e : e = <<>> /\ e \in Seq(Tokens)
    <3>1. <<>> \in Seq(Tokens)
      OBVIOUS
    <3> QED BY <3>1
  <2>2. PICK pre : pre = <<e>>
    OBVIOUS
  <2>3. pre \in Seq(Seq(Tokens)) /\ Len(pre) = 1 /\ pre[1] = e
    BY <2>1, <2>2
  <2>4. Len(<<>>) = 0 /\ 0 + 1 = 1 /\ 1 .. 0 = {}
    OBVIOUS
  <2>5. Precedes(pre, <<>>, e)
    BY <2>1, <2>3, <2>4 DEF Precedes
  <2> QED BY <2>1, <2>5 DEF Due
<1>2. ASSUME NEW s, Due(<<>>, s) PROVE s = <<>>
  <2>1. PICK pre : Precedes(pre, <<>>, s)
    BY <1>2 DEF Due
  <2>2. Len(<<>>) = 0 /\ 0 + 1 = 1
    OBVIOUS
  <2> QED BY <2>1, <2>2 DEF Precedes
<1> QED BY <1>1, <1>2

\* One container more: its bracket and the part of it that was read.
LEMMA DueInside ==
  ASSUME NEW X, NEW inside \in Seq(X), NEW c, NEW s, Due(inside, s),
         NEW seg \in Seq(Tokens), ValueNext(c.kind, seg), c.kind \in Kinds
  PROVE  Due(Append(inside, c), (s \o <<<<Open(c.kind)>>>>) \o seg)
<1>1. PICK pre : Precedes(pre, inside, s)
  BY DEF Due
<1>2. PICK x : x = <<Open(c.kind)>>
  OBVIOUS
<1>3. x \in Tokens
  BY <1>2, OpenToken
<1>4. s \in Seq(Tokens)
  BY DEF Due
<1>5. PICK t : t = (s \o <<x>>) \o seg
  OBVIOUS
<1>6. t \in Seq(Tokens)
  BY <1>3, <1>4, <1>5
<1>7. PICK n \in Nat : n = Len(inside)
  OBVIOUS
<1>8. PICK new : new = Append(inside, c)
  OBVIOUS
<1>9. Len(new) = n + 1 /\ new[n + 1] = c /\ \A i \in 1 .. n : new[i] = inside[i]
  <2>1. inside \in Seq(X \cup {c}) /\ c \in X \cup {c}
    OBVIOUS
  <2> QED BY <1>7, <1>8, <2>1, AppendProperties
<1>10. PICK all : all = Append(pre, t)
  OBVIOUS
<1>11. /\ all \in Seq(Seq(Tokens)) /\ Len(all) = n + 2 /\ all[n + 2] = t
       /\ \A i \in 1 .. n + 1 : all[i] = pre[i]
  <2>1. pre \in Seq(Seq(Tokens)) /\ Len(pre) = n + 1
    BY <1>1, <1>7 DEF Precedes
  <2>2. /\ Append(pre, t) \in Seq(Seq(Tokens)) /\ Len(Append(pre, t)) = Len(pre) + 1
        /\ \A i \in 1 .. Len(pre) : Append(pre, t)[i] = pre[i]
        /\ Append(pre, t)[Len(pre) + 1] = t
    BY <1>6, <2>1, AppendProperties
  <2>3. Len(pre) + 1 = n + 2
    BY <2>1
  <2> QED BY <1>10, <2>1, <2>2, <2>3
<1>12. ASSUME NEW i \in 1 .. n + 1
       PROVE  \E g \in Seq(Tokens) : /\ ValueNext(new[i].kind, g)
                                     /\ all[i + 1] = (all[i] \o <<<<Open(new[i].kind)>>>>) \o g
  <2>1. CASE i = n + 1
    <3>1. all[i] = s /\ all[i + 1] = t /\ new[i] = c
      <4>1. i \in 1 .. n + 1 /\ i + 1 = n + 2 /\ pre[n + 1] = s
        BY <1>1, <1>7, <2>1 DEF Precedes
      <4> QED BY <1>9, <1>11, <2>1, <4>1
    <3> QED BY <1>2, <1>5, <3>1
  <2>2. CASE i # n + 1
    <3>1. i \in 1 .. n /\ i + 1 \in 1 .. n + 1
      BY <2>2
    <3>2. PICK g \in Seq(Tokens) : /\ ValueNext(inside[i].kind, g)
                                   /\ pre[i + 1] = (pre[i] \o <<<<Open(inside[i].kind)>>>>) \o g
      BY <1>1, <1>7, <3>1 DEF Precedes
    <3>3. all[i] = pre[i] /\ all[i + 1] = pre[i + 1] /\ new[i] = inside[i]
      BY <1>9, <1>11, <3>1
    <3> QED BY <3>2, <3>3
  <2> QED BY <2>1, <2>2
<1>13. all[1] = <<>>
  <2>1. 1 \in 1 .. n + 1 /\ pre[1] = <<>>
    BY <1>1 DEF Precedes
  <2> QED BY <1>11, <2>1
<1>14. Precedes(all, new, t)
  <2>1. (n + 1) + 1 = n + 2
    OBVIOUS
  <2> QED BY <1>9, <1>11, <1>12, <1>13, <2>1 DEF Precedes
<1> QED BY <1>2, <1>5, <1>6, <1>8, <1>14 DEF Due

\* Of a text in a container, what precedes that container and what is part of it.
LEMMA DueWithin ==
  ASSUME NEW X, NEW inside \in Seq(X), NEW c, NEW t, Due(Append(inside, c), t)
  PROVE  \E s, seg \in Seq(Tokens) : /\ Due(inside, s) /\ ValueNext(c.kind, seg)
                                     /\ t = (s \o <<<<Open(c.kind)>>>>) \o seg
<1>1. PICK n \in Nat : n = Len(inside)
  OBVIOUS
<1>2. PICK new : new = Append(inside, c)
  OBVIOUS
<1>3. Len(new) = n + 1 /\ new[n + 1] = c /\ \A i \in 1 .. n : new[i] = inside[i]
  <2>1. inside \in Seq(X \cup {c}) /\ c \in X \cup {c}
    OBVIOUS
  <2> QED BY <1>1, <1>2, <2>1, AppendProperties
<1>4. PICK all : Precedes(all, new, t)
  BY <1>2 DEF Due
<1>5. /\ all \in Seq(Seq(Tokens)) /\ Len(all) = n + 2 /\ all[1] = <<>> /\ all[n + 2] = t
      /\ \A i \in 1 .. n + 1 :
           \E seg \in Seq(Tokens) : /\ ValueNext(new[i].kind, seg)
                                    /\ all[i + 1] = (all[i] \o <<<<Open(new[i].kind)>>>>) \o seg
  <2>1. (n + 1) + 1 = n + 2
    OBVIOUS
  <2> QED BY <1>3, <1>4, <2>1 DEF Precedes
<1>6. n + 1 \in 1 .. n + 1 /\ (n + 1) + 1 = n + 2 /\ n + 1 \in 1 .. n + 2
  OBVIOUS
<1>7. PICK seg \in Seq(Tokens) : /\ ValueNext(c.kind, seg)
                                 /\ t = (all[n + 1] \o <<<<Open(c.kind)>>>>) \o seg
  BY <1>3, <1>5, <1>6
<1>8. all[n + 1] \in Seq(Tokens)
  BY <1>5, <1>6
<1>9. PICK pre : pre = SubSeq(all, 1, n + 1)
  OBVIOUS
<1>10. pre \in Seq(Seq(Tokens)) /\ Len(pre) = n + 1 /\ \A i \in 1 .. n + 1 : pre[i] = all[i]
  <2>1. PICK m \in Nat : m = n + 1
    OBVIOUS
  <2>2. 1 <= 1 /\ 1 <= m + 1 /\ m <= Len(all)
    BY <1>5, <2>1
  <2>3. /\ SubSeq(all, 1, m) \in Seq(Seq(Tokens)) /\ Len(SubSeq(all, 1, m)) = m - 1 + 1
        /\ \A i \in 1 .. m - 1 + 1 : SubSeq(all, 1, m)[i] = all[1 + i - 1]
    BY <1>5, <2>2, PieceOf
  <2>4. m - 1 + 1 = m /\ \A i \in 1 .. m : 1 + i - 1 = i
    OBVIOUS
  <2> QED BY <1>9, <2>1, <2>3, <2>4
<1>11. Precedes(pre, inside, all[n + 1])
  <2>1. 1 \in 1 .. n + 1
    OBVIOUS
  <2>2. ASSUME NEW i \in 1 .. n
        PROVE  \E g \in Seq(Tokens) : /\ ValueNext(inside[i].kind, g)
                                      /\ pre[i + 1] = (pre[i] \o <<<<Open(inside[i].kind)>>>>) \o g
    <3>1. i \in 1 .. n + 1 /\ i + 1 \in 1 .. n + 1
      OBVIOUS
    <3>2. PICK g \in Seq(Tokens) : /\ ValueNext(new[i].kind, g)
                                   /\ all[i + 1] = (all[i] \o <<<<Open(new[i].kind)>>>>) \o g
      BY <1>5, <3>1
    <3> QED BY <1>3, <1>10, <3>1, <3>2
  <2> QED BY <1>1, <1>5, <1>6, <1>10, <2>1, <2>2 DEF Precedes
<1> QED BY <1>7, <1>8, <1>11 DEF Due

\* A value ends such a part.
LEMMA AfterValue ==
  ASSUME NEW kind, NEW seg \in Seq(Tokens), ValueNext(kind, seg), NEW w \in ValueText
  PROVE  seg \o w \in Seq(Tokens) /\ ValueDone(kind, seg \o w)
<1>1. w \in Seq(Tokens)
  BY DEF ValueText
<1>2. seg \o w \in Seq(Tokens)
  BY <1>1
<1>3. <<>> \o w = w
  BY <1>1
<1>4. CASE kind = "array" /\ seg = <<>>
  BY <1>2, <1>3, <1>4, ElementText DEF ValueDone
<1>5. CASE kind = "array" /\ \E e \in ElementsText : seg = e \o <<<<",">>>>
  <2>1. PICK e \in ElementsText : seg = e \o <<<<",">>>>
    BY <1>5
  <2>2. seg \o w \in ElementsText
    BY <2>1, ElementsMore
  <2> QED BY <1>2, <1>5, <2>2 DEF ValueDone
<1>6. CASE kind = "object"
             /\ \E m \in Seq(Tokens), k \in Strings : NameNext(m) /\ seg = m \o <<k, <<":">>>>
  <2>1. PICK m \in Seq(Tokens), k \in Strings : NameNext(m) /\ seg = m \o <<k, <<":">>>>
    BY <1>6
  <2>2. PICK d : d = <<k, <<":">>>>
    OBVIOUS
  <2>3. d \in Seq(Tokens)
    <3>1. k \in Tokens /\ <<":">> \in Tokens
      BY TokenSet
    <3> QED BY <2>2, <3>1
  <2>4. seg \o w = m \o (d \o w)
    <3>1. (m \o d) \o w = m \o (d \o w)
      BY <1>1, <2>3, ConcatAssociative
    <3> QED BY <2>1, <2>2, <3>1
  <2>5. d \o w \in Seq(Tokens) /\ <<>> \o (d \o w) = d \o w
    BY <1>1, <2>3
  <2>6. seg \o w \in MembersText
    <3>1. CASE m = <<>>
      <4>1. d \o w \in MembersText
        BY <2>2, MemberText
      <4> QED BY <2>4, <2>5, <3>1, <4>1
    <3>2. CASE \E e \in MembersText : m = e \o <<<<",">>>>
      <4>1. PICK e \in MembersText : m = e \o <<<<",">>>>
        BY <3>2
      <4>2. (e \o <<<<",">>>>) \o (d \o w) \in MembersText
        BY <2>2, MembersMore
      <4> QED BY <2>4, <4>1, <4>2
    <3> QED BY <2>1, <3>1, <3>2 DEF NameNext
  <2> QED BY <1>2, <1>6, <2>6 DEF ValueDone
<1> QED BY <1>4, <1>5, <1>6 DEF ValueNext

\* A container over the set S of values, and a stack of them.
IsContainer(c, S) ==
  \E key, content :
    \/ c = Container("array", key, content) /\ content \in Seq(S)
    \/ c = Container("object", key, content) /\ content \in [ToSet(Names) -> S \cup {Nothing}]
IsContainers(inside, S) == \E X : inside \in Seq(X) /\ \A c \in X : IsContainer(c, S)

\* The parts of a container over S.
LEMMA ContainerKind ==
  ASSUME NEW S, NEW c, IsContainer(c, S)
  PROVE  /\ c.kind \in Kinds /\ c = Container(c.kind, c.key, c.content)
         /\ c.kind = "array" => c.content \in Seq(S)
         /\ c.kind = "object" => c.content \in [ToSet(Names) -> S \cup {Nothing}]
<1>1. PICK key, content :
        \/ c = Container("array", key, content) /\ content \in Seq(S)
        \/ c = Container("object", key, content) /\ content \in [ToSet(Names) -> S \cup {Nothing}]
  BY DEF IsContainer
<1>2. CASE c = Container("array", key, content) /\ content \in Seq(S)
  <2>1. c.kind = "array" /\ c.key = key /\ c.content = content
    BY <1>2 DEF Container
  <2> QED BY <1>2, <2>1 DEF Kinds
<1>3. CASE c = Container("object", key, content) /\ content \in [ToSet(Names) -> S \cup {Nothing}]
  <2>1. c.kind = "object" /\ c.key = key /\ c.content = content
    BY <1>3 DEF Container
  <2> QED BY <1>3, <2>1 DEF Kinds
<1> QED BY <1>1, <1>2, <1>3

\* A stack of such containers: with one more, ...
LEMMA ContainersTop ==
  ASSUME NEW S, NEW inside, IsContainers(inside, S), NEW c, IsContainer(c, S)
  PROVE  IsContainers(Append(inside, c), S)
<1>1. PICK X : inside \in Seq(X) /\ \A d \in X : IsContainer(d, S)
  BY DEF IsContainers
<1>2. Append(inside, c) \in Seq(X \cup {c}) /\ \A d \in X \cup {c} : IsContainer(d, S)
  BY <1>1, TopOf
<1> QED BY <1>2 DEF IsContainers

\* ... and with one less.
LEMMA ContainersRest ==
  ASSUME NEW S, NEW inside, IsContainers(inside, S), inside # <<>>
  PROVE  /\ IsContainers(Front(inside), S) /\ IsContainer(Last(inside), S)
         /\ Append(Front(inside), Last(inside)) = inside
<1>1. PICK X : inside \in Seq(X) /\ \A d \in X : IsContainer(d, S)
  BY DEF IsContainers
<1>2. Front(inside) \in Seq(X) /\ Last(inside) \in X /\ Append(Front(inside), Last(inside)) = inside
  BY <1>1, TakenOff
<1> QED BY <1>1, <1>2 DEF IsContainers

\* It is a stack.
LEMMA ContainersStack == ASSUME NEW S, NEW inside, IsContainers(inside, S) PROVE IsStack(inside)
BY DEF IsContainers, IsStack

\* A container over S is one over any set that has S in it.
LEMMA ContainersMore ==
  ASSUME NEW S, NEW T, S \subseteq T
  PROVE  /\ \A c : IsContainer(c, S) => IsContainer(c, T)
         /\ \A inside : IsContainers(inside, S) => IsContainers(inside, T)
<1>1. ASSUME NEW c, IsContainer(c, S) PROVE IsContainer(c, T)
  <2>1. Seq(S) \subseteq Seq(T)
    OBVIOUS
  <2>2. [ToSet(Names) -> S \cup {Nothing}] \subseteq [ToSet(Names) -> T \cup {Nothing}]
    OBVIOUS
  <2> QED BY <1>1, <2>1, <2>2 DEF IsContainer
<1> QED BY <1>1 DEF IsContainers

\* It stays one when a value of S is inserted.
LEMMA ContainerInserted ==
  ASSUME NEW S, NEW c, IsContainer(c, S), NEW v \in S
  PROVE  IsContainer(Inserted(c, v), S) /\ Inserted(c, v).kind = c.kind
<1>1. PICK key, content :
        \/ c = Container("array", key, content) /\ content \in Seq(S)
        \/ c = Container("object", key, content) /\ content \in [ToSet(Names) -> S \cup {Nothing}]
  BY DEF IsContainer
<1>2. CASE c = Container("array", key, content) /\ content \in Seq(S)
  <2>1. PICK more : more = Append(content, v)
    OBVIOUS
  <2>2. more \in Seq(S)
    BY <1>2, <2>1
  <2>3. Inserted(c, v) = Container("array", key, more)
    BY <1>2, <2>1, InsertedElement
  <2>4. c.kind = "array" /\ Inserted(c, v).kind = "array"
    BY <1>2, <2>3 DEF Container
  <2> QED BY <2>2, <2>3, <2>4 DEF IsContainer
<1>3. CASE c = Container("object", key, content) /\ content \in [ToSet(Names) -> S \cup {Nothing}]
  <2>1. PICK more : more = [content EXCEPT ![key] = IF @ = Nothing THEN v ELSE @]
    OBVIOUS
  <2>2. more \in [ToSet(Names) -> S \cup {Nothing}]
    BY <1>3, <2>1
  <2>3. Inserted(c, v) = Container("object", key, more)
    BY <1>3, <2>1, InsertedMember
  <2>4. c.kind = "object" /\ Inserted(c, v).kind = "object"
    BY <1>3, <2>3 DEF Container
  <2> QED BY <2>2, <2>3, <2>4 DEF IsContainer
<1> QED BY <1>1, <1>2, <1>3

\* A container that was just opened.
LEMMA ContainerNew ==
  ASSUME NEW S
  PROVE  /\ IsContainer(Container("array", NoName, <<>>), S)
         /\ IsContainer(Container("object", NoName, [name \in ToSet(Names) |-> Nothing]), S)
         /\ Container("array", NoName, <<>>).kind = "array"
         /\ Container("object", NoName, [name \in ToSet(Names) |-> Nothing]).kind = "object"
<1>1. <<>> \in Seq(S)
  OBVIOUS
<1>2. PICK none : none = [name \in ToSet(Names) |-> Nothing]
  OBVIOUS
<1>3. none \in [ToSet(Names) -> S \cup {Nothing}]
  BY <1>2
<1>4. IsContainer(Container("array", NoName, <<>>), S) /\ Container("array", NoName, <<>>).kind = "array"
  BY <1>1 DEF IsContainer, Container
<1>5. IsContainer(Container("object", NoName, none), S) /\ Container("object", NoName, none).kind = "object"
  BY <1>3 DEF IsContainer, Container
<1> QED BY <1>2, <1>4, <1>5
-----------------------------------------------------------------------------
(* The values of a text have no more levels than the text has tokens. *)

\* What the values of n + 1 levels are made of.
LEMMA ValuesIs ==
  ASSUME NEW n \in Nat
  PROVE  /\ Strings \subseteq Values[n + 1]
         /\ \A x \in {"0", "1"} : <<"number", x>> \in Values[n + 1]
         /\ \A c : IsContainer(c, Values[n]) => <<c.kind, c.content>> \in Values[n + 1]
<1>1. PICK S : S = Values[n]
  OBVIOUS
<1>2. Values[n + 1] = Over(S)
  BY <1>1, ValuesStep
<1>3. Strings \subseteq Over(S) /\ \A x \in {"0", "1"} : <<"number", x>> \in Over(S)
  BY DEF Over
<1>4. ASSUME NEW c, IsContainer(c, S) PROVE <<c.kind, c.content>> \in Over(S)
  <2>1. /\ c.kind \in Kinds
        /\ c.kind = "array" => c.content \in Seq(S)
        /\ c.kind = "object" => c.content \in [ToSet(Names) -> S \cup {Nothing}]
    BY <1>4, ContainerKind
  <2>2. CASE c.kind = "array"
    BY <2>1, <2>2 DEF Over
  <2>3. CASE c.kind = "object"
    BY <2>1, <2>3 DEF Over
  <2> QED BY <2>1, <2>2, <2>3 DEF Kinds
<1> QED BY <1>1, <1>2, <1>3, <1>4

\* The values of some levels are values of more levels.
LEMMA ValuesGrow == ASSUME NEW n \in Nat, NEW m \in Nat, n <= m PROVE Values[n] \subseteq Values[m]
<1> DEFINE S == {i \in Nat : Values[i] \subseteq Values[i + 1]}
           D == {i \in Nat : Values[n] \subseteq Values[n + i]}
<1>1. 0 \in S
  BY ValuesStep
<1>2. ASSUME NEW i \in Nat, i \in S PROVE i + 1 \in S
  <2>1. PICK A, B : A = Values[i] /\ B = Values[i + 1]
    OBVIOUS
  <2>2. A \subseteq B
    BY <1>2, <2>1
  <2>3. Over(A) \subseteq Over(B)
    <3>1. Seq(A) \subseteq Seq(B)
      BY <2>2
    <3>2. [ToSet(Names) -> A \cup {Nothing}] \subseteq [ToSet(Names) -> B \cup {Nothing}]
      BY <2>2
    <3> QED BY <3>1, <3>2 DEF Over
  <2>4. i + 1 \in Nat /\ Values[i + 1] = Over(A) /\ Values[(i + 1) + 1] = Over(B)
    BY <2>1, ValuesStep
  <2> QED BY <2>3, <2>4
<1>3. Nat \subseteq S
  <2> HIDE DEF S
  <2> QED BY <1>1, <1>2, SetInduction
<1>4. 0 \in D
  OBVIOUS
<1>5. ASSUME NEW i \in Nat, i \in D PROVE i + 1 \in D
  <2>1. n + i \in Nat /\ n + (i + 1) = (n + i) + 1 /\ i + 1 \in Nat
    OBVIOUS
  <2>2. Values[n + i] \subseteq Values[(n + i) + 1]
    BY <1>3, <2>1
  <2>3. Values[n] \subseteq Values[n + i]
    BY <1>5
  <2> QED BY <2>1, <2>2, <2>3
<1>6. Nat \subseteq D
  <2> HIDE DEF D, S
  <2> QED BY <1>4, <1>5, SetInduction
<1>7. m - n \in Nat /\ n + (m - n) = m
  OBVIOUS
<1> QED BY <1>6, <1>7
-----------------------------------------------------------------------------
(* What holds of the parser p after the text s, whose values are of the set S. *)

Part(at, kind, seg) ==
  \/ at = "first value" /\ kind = "array" /\ seg = <<>>
  \/ at = "first key" /\ kind = "object" /\ seg = <<>>
  \/ at = "key" /\ kind = "object" /\ NameNext(seg)
  \/ /\ at = "colon" /\ kind = "object"
     /\ \E m \in Seq(Tokens), k \in Strings : NameNext(m) /\ seg = m \o <<k>>
  \/ at = "next" /\ ValueDone(kind, seg)

WhereDue(p, s, S) ==
  \E inside, value :
    p = State("value", inside, value) /\ IsContainers(inside, S) /\ Due(inside, s)
WhereIn(p, s, S) ==
  \E at, inside, c, value : \E base, seg \in Seq(Tokens) :
    /\ p = State(at, Append(inside, c), value) /\ IsContainers(inside, S) /\ IsContainer(c, S)
    /\ Due(inside, base) /\ s = (base \o <<<<Open(c.kind)>>>>) \o seg /\ Part(at, c.kind, seg)
AtEnd(p, s, S) == \E v \in S : p = State("end", <<>>, v) /\ s \in ValueText
IsDone(p, S) == \E v \in S : p = State("done", <<>>, v)
HasThrown(p) == \E inside, value : p = State("threw", inside, value)

Sound(p, s, S) ==
  WhereDue(p, s, S) \/ WhereIn(p, s, S) \/ AtEnd(p, s, S) \/ IsDone(p, S) \/ HasThrown(p)

\* A value where one is due.
LEMMA SoundValue ==
  ASSUME NEW S, NEW at, NEW inside, NEW value, NEW s, IsContainers(inside, S), Due(inside, s),
         NEW v \in S, NEW w \in ValueText
  PROVE  Sound(Value(State(at, inside, value), v), s \o w, S)
<1>1. PICK p : p = Value(State(at, inside, value), v)
  OBVIOUS
<1>2. w \in Seq(Tokens) /\ s \in Seq(Tokens)
  BY DEF ValueText, Due
<1>3. CASE inside = <<>>
  <2>1. s = <<>>
    BY <1>3, DueOutside
  <2>2. p = State("end", <<>>, v)
    BY <1>1, <1>3, ValueIs
  <2>3. s \o w = w
    BY <1>2, <2>1
  <2> QED BY <1>1, <2>2, <2>3 DEF Sound, AtEnd
<1>4. CASE inside # <<>>
  <2>1. PICK rest, c : rest = Front(inside) /\ c = Last(inside)
    OBVIOUS
  <2>2. IsContainers(rest, S) /\ IsContainer(c, S) /\ inside = Append(rest, c)
    BY <1>4, <2>1, ContainersRest
  <2>3. PICK X : rest \in Seq(X)
    BY <2>2 DEF IsContainers
  <2>4. PICK base, seg \in Seq(Tokens) : /\ Due(rest, base) /\ ValueNext(c.kind, seg)
                                         /\ s = (base \o <<<<Open(c.kind)>>>>) \o seg
    <3>1. Due(Append(rest, c), s)
      BY <2>2
    <3> QED BY <2>3, <3>1, DueWithin
  <2>5. seg \o w \in Seq(Tokens) /\ ValueDone(c.kind, seg \o w)
    BY <2>4, AfterValue
  <2>6. PICK d : d = Inserted(c, v)
    OBVIOUS
  <2>7. IsContainer(d, S) /\ d.kind = c.kind
    BY <2>2, <2>6, ContainerInserted
  <2>8. IsStack(rest)
    BY <2>3 DEF IsStack
  <2>9. p = State("next", Append(rest, d), value)
    BY <1>1, <2>2, <2>6, <2>8, ValueInside
  <2>10. PICK x : x = <<Open(c.kind)>>
    OBVIOUS
  <2>11. x \in Tokens
    BY <2>10, OpenToken
  <2>12. s \o w = (base \o <<x>>) \o (seg \o w)
    <3>1. base \o <<x>> \in Seq(Tokens)
      BY <2>4, <2>11
    <3>2. ((base \o <<x>>) \o seg) \o w = (base \o <<x>>) \o (seg \o w)
      BY <1>2, <2>4, <3>1, ConcatAssociative
    <3> QED BY <2>4, <2>10, <3>2
  <2>13. Part("next", d.kind, seg \o w)
    BY <2>5, <2>7 DEF Part
  <2>14. WhereIn(p, s \o w, S)
    BY <2>2, <2>4, <2>5, <2>7, <2>9, <2>10, <2>12, <2>13 DEF WhereIn
  <2> QED BY <1>1, <2>14 DEF Sound
<1> QED BY <1>3, <1>4

\* The bracket that ends a container.
LEMMA SoundClose ==
  ASSUME NEW n \in Nat, NEW at, NEW inside, NEW c, NEW value, NEW base \in Seq(Tokens),
         NEW seg \in Seq(Tokens), IsContainers(inside, Values[n]), IsContainer(c, Values[n]),
         Due(inside, base), at \in MayClose(c.kind), seg = <<>> \/ ValueDone(c.kind, seg),
         NEW s, s = (base \o <<<<Open(c.kind)>>>>) \o seg
  PROVE  Sound(Parse(State(at, Append(inside, c), value), <<Close(c.kind)>>),
               Append(s, <<Close(c.kind)>>), Values[n + 1])
<1>1. PICK i : i = Append(inside, c)
  OBVIOUS
<1>2. PICK v : v = <<c.kind, c.content>>
  OBVIOUS
<1>3. c.kind \in Kinds /\ c = Container(c.kind, c.key, c.content)
  BY ContainerKind
<1>4. Last(i) = c /\ Front(i) = inside
  BY <1>1, ContainersStack, StackTop
<1>5. Parse(State(at, i, value), <<Close(c.kind)>>) = Value(State("value", inside, value), v)
  <2>1. Last(i) = Container(c.kind, c.key, c.content)
    BY <1>3, <1>4
  <2>2. Parse(State(at, i, value), <<Close(c.kind)>>)
          = Value(State("value", Front(i), value), <<c.kind, c.content>>)
    BY <1>3, <2>1, ParseClose
  <2> QED BY <1>2, <1>4, <2>2
<1>6. PICK x, y : x = <<Open(c.kind)>> /\ y = <<Close(c.kind)>>
  OBVIOUS
<1>7. PICK w : w = (<<x>> \o seg) \o <<y>>
  OBVIOUS
<1>8. w \in ValueText
  <2>1. CASE c.kind = "array"
    <3>1. x = <<"[">> /\ y = <<"]">>
      BY <1>6, <2>1 DEF Open, Close
    <3>2. seg = <<>> \/ seg \in ElementsText
      BY <2>1 DEF ValueDone
    <3> QED BY <1>7, <3>1, <3>2, ArrayText
  <2>2. CASE c.kind = "object"
    <3>1. x = <<"{">> /\ y = <<"}">>
      BY <1>6, <2>2 DEF Open, Close
    <3>2. seg = <<>> \/ seg \in MembersText
      BY <2>2 DEF ValueDone
    <3> QED BY <1>7, <3>1, <3>2, ObjectText
  <2> QED BY <1>3, <2>1, <2>2 DEF Kinds
<1>9. x \in Tokens /\ y \in Tokens
  <2>1. (Open(c.kind) = "{" \/ Open(c.kind) = "[") /\ (Close(c.kind) = "}" \/ Close(c.kind) = "]")
    BY DEF Open, Close
  <2> QED BY <1>6, <2>1, TokenSet
<1>10. Append(s, y) = base \o w
  <2>1. <<x>> \in Seq(Tokens) /\ <<y>> \in Seq(Tokens) /\ base \o <<x>> \in Seq(Tokens)
        /\ <<x>> \o seg \in Seq(Tokens)
    BY <1>9
  <2>2. s \in Seq(Tokens) /\ s = (base \o <<x>>) \o seg
    BY <1>6, <2>1
  <2>3. Append(s, y) = s \o <<y>>
    BY <1>9, <2>2, AppendIsConcat
  <2>4. (base \o <<x>>) \o seg = base \o (<<x>> \o seg)
    BY <2>1, ConcatAssociative
  <2>5. (base \o (<<x>> \o seg)) \o <<y>> = base \o ((<<x>> \o seg) \o <<y>>)
    BY <2>1, ConcatAssociative
  <2> QED BY <1>7, <2>2, <2>3, <2>4, <2>5
<1>11. v \in Values[n + 1] /\ IsContainers(inside, Values[n + 1])
  <2>1. v \in Values[n + 1]
    BY <1>2, ValuesIs
  <2>2. n + 1 \in Nat /\ n <= n + 1
    OBVIOUS
  <2>3. Values[n] \subseteq Values[n + 1]
    BY <2>2, ValuesGrow
  <2> QED BY <2>1, <2>3, ContainersMore
<1>12. Sound(Value(State("value", inside, value), v), base \o w, Values[n + 1])
  BY <1>8, <1>11, SoundValue
<1> QED BY <1>1, <1>5, <1>6, <1>10, <1>12

\* After an error nothing is claimed of the text.
LEMMA ParseThrows ==
  ASSUME NEW p, NEW t, NEW at, NEW inside, NEW value, p = State(at, inside, value),
         Parse(p, t) = Throws(p)
  PROVE  \A s, S : Sound(Parse(p, t), s, S)
<1>1. Parse(p, t) = State("threw", inside, value)
  BY ThrowsIs
<1> QED BY <1>1 DEF Sound, HasThrown

EmptyArray(at, t) == at = "first value" /\ t = <<"]">>

\* A token where a value is due.
LEMMA SoundToken ==
  ASSUME NEW n \in Nat, NEW at \in ValueDue, NEW inside, NEW value, NEW s, NEW t \in Tokens,
         IsContainers(inside, Values[n]), Due(inside, s), ~ EmptyArray(at, t)
  PROVE  Sound(Parse(State(at, inside, value), t), Append(s, t), Values[n + 1])
<1>1. PICK p : p = State(at, inside, value)
  OBVIOUS
<1>2. PICK S : S = Values[n + 1]
  OBVIOUS
<1>3. IsContainers(inside, S) /\ IsStack(inside)
  <2>1. n + 1 \in Nat /\ n <= n + 1
    OBVIOUS
  <2>2. Values[n] \subseteq Values[n + 1]
    BY <2>1, ValuesGrow
  <2> QED BY <1>2, <2>2, ContainersMore, ContainersStack
<1>4. s \in Seq(Tokens) /\ Append(s, t) = s \o <<t>> /\ <<t>> \in Seq(Tokens)
  <2>1. s \in Seq(Tokens)
    BY DEF Due
  <2> QED BY <2>1, AppendIsConcat
<1>5. CASE t \in Strings
  <2>1. t \in S /\ <<t>> \in ValueText
    BY <1>2, <1>5, ValuesIs, TokenText
  <2>2. Parse(p, t) = Value(State(at, inside, value), t)
    BY <1>1, <1>5, ParseString
  <2>3. Sound(Value(State(at, inside, value), t), s \o <<t>>, S)
    BY <1>3, <2>1, SoundValue
  <2> QED BY <1>1, <1>2, <1>4, <2>2, <2>3
<1>6. CASE t \in Numbers /\ t # Infinite
  <2>1. PICK v : v = <<"number", Scanned(t[2])>>
    OBVIOUS
  <2>2. v \in S
    BY <1>2, <1>6, <2>1, ScannedType, ValuesIs
  <2>3. Parse(p, t) = Value(State(at, inside, value), v)
    BY <1>1, <1>6, <2>1, ParseNumber
  <2>4. <<t>> \in ValueText
    BY <1>6, TokenText
  <2>5. Sound(Value(State(at, inside, value), v), s \o <<t>>, S)
    BY <1>3, <2>2, <2>4, SoundValue
  <2> QED BY <1>1, <1>2, <1>4, <2>3, <2>5
<1>7. ASSUME NEW c, NEW to, IsContainer(c, S), t = <<Open(c.kind)>>,
             Parse(p, t) = State(to, Append(inside, c), value), Part(to, c.kind, <<>>)
      PROVE  Sound(Parse(p, t), Append(s, t), S)
  <2>1. PICK e : e = <<>>
    OBVIOUS
  <2>2. e \in Seq(Tokens)
    BY <2>1
  <2>3. Append(s, t) = (s \o <<t>>) \o e
    <3>1. s \o <<t>> \in Seq(Tokens)
      BY <1>4
    <3>2. (s \o <<t>>) \o <<>> = s \o <<t>>
      BY <3>1, ConcatEmptySeq
    <3> QED BY <1>4, <2>1, <3>2
  <2>4. WhereIn(Parse(p, t), Append(s, t), S)
    BY <1>3, <1>4, <1>7, <2>1, <2>2, <2>3 DEF WhereIn
  <2> QED BY <2>4 DEF Sound
<1>8. CASE t = <<"{">>
  <2>1. PICK c : c = Container("object", NoName, [name \in ToSet(Names) |-> Nothing])
    OBVIOUS
  <2>2. IsContainer(c, S) /\ c.kind = "object"
    BY <2>1, ContainerNew
  <2>3. Open(c.kind) = "{"
    BY <2>2 DEF Open
  <2>4. Parse(p, t) = State("first key", Append(inside, c), value)
    BY <1>1, <1>8, <2>1, ParseObject
  <2>5. Part("first key", c.kind, <<>>)
    BY <2>2 DEF Part
  <2> QED BY <1>1, <1>2, <1>7, <1>8, <2>2, <2>3, <2>4, <2>5
<1>9. CASE t = <<"[">>
  <2>1. PICK c : c = Container("array", NoName, <<>>)
    OBVIOUS
  <2>2. IsContainer(c, S) /\ c.kind = "array"
    BY <2>1, ContainerNew
  <2>3. Open(c.kind) = "["
    BY <2>2 DEF Open
  <2>4. Parse(p, t) = State("first value", Append(inside, c), value)
    BY <1>1, <1>9, <2>1, ParseArray
  <2>5. Part("first value", c.kind, <<>>)
    BY <2>2 DEF Part
  <2> QED BY <1>1, <1>2, <1>7, <1>9, <2>2, <2>3, <2>4, <2>5
<1>10. CASE t \notin Strings /\ (t \notin Numbers \/ t = Infinite) /\ t # <<"{">> /\ t # <<"[">>
  <2>1. t[1] # "string" /\ (t[1] # "number" \/ t = Infinite) /\ t[1] # "{" /\ t[1] # "["
    BY <1>10, TokenTypes
  <2>2. ValueToken(p, t) = Throws(p)
    BY <2>1 DEF ValueToken
  <2>3. p.at = at
    BY <1>1, StateIs
  <2>4. at = "first value" => t[1] # "]"
    BY TokenTypes DEF EmptyArray
  <2>5. Parse(p, t) = ValueToken(p, t)
    BY <2>3, <2>4 DEF Parse, ValueDue
  <2> QED BY <1>1, <2>2, <2>5, ParseThrows
<1> QED BY <1>5, <1>6, <1>8, <1>9, <1>10

\* One token more of a container.
LEMMA MoreOf ==
  ASSUME NEW base \in Seq(Tokens), NEW x \in Tokens, NEW seg \in Seq(Tokens), NEW t \in Tokens
  PROVE  /\ seg \o <<t>> \in Seq(Tokens)
         /\ Append((base \o <<x>>) \o seg, t) = (base \o <<x>>) \o (seg \o <<t>>)
<1>1. base \o <<x>> \in Seq(Tokens) /\ <<t>> \in Seq(Tokens)
  OBVIOUS
<1>2. PICK s : s = (base \o <<x>>) \o seg
  OBVIOUS
<1>6. s \in Seq(Tokens)
  BY <1>1, <1>2
<1>3. Append(s, t) = s \o <<t>>
  BY <1>6, AppendIsConcat
<1>4. ((base \o <<x>>) \o seg) \o <<t>> = (base \o <<x>>) \o (seg \o <<t>>)
  BY <1>1, ConcatAssociative
<1>5. seg \o <<t>> \in Seq(Tokens)
  BY <1>1
<1> QED BY <1>2, <1>3, <1>4, <1>5

\* A step to another place in the same container.
LEMMA SoundMoved ==
  ASSUME NEW S, NEW p, NEW to, NEW inside, NEW c, NEW value, NEW base \in Seq(Tokens),
         NEW seg \in Seq(Tokens), IsContainers(inside, S), IsContainer(c, S), Due(inside, base),
         NEW s, s = (base \o <<<<Open(c.kind)>>>>) \o seg, NEW t \in Tokens,
         p = State(to, Append(inside, c), value), Part(to, c.kind, seg \o <<t>>)
  PROVE  Sound(p, Append(s, t), S)
<1>1. seg \o <<t>> \in Seq(Tokens) /\ Append(s, t) = (base \o <<<<Open(c.kind)>>>>) \o (seg \o <<t>>)
  <2>1. PICK x : x = <<Open(c.kind)>>
    OBVIOUS
  <2>2. x \in Tokens
    BY <2>1, OpenToken
  <2>3. /\ seg \o <<t>> \in Seq(Tokens)
        /\ Append((base \o <<x>>) \o seg, t) = (base \o <<x>>) \o (seg \o <<t>>)
    BY <2>2, MoreOf
  <2> QED BY <2>1, <2>3
<1>2. WhereIn(p, Append(s, t), S)
  BY <1>1 DEF WhereIn
<1> QED BY <1>2 DEF Sound

\* A step to where a value is due.
LEMMA SoundDue ==
  ASSUME NEW S, NEW p, NEW inside, NEW c, NEW value, NEW base \in Seq(Tokens),
         NEW seg \in Seq(Tokens), IsContainers(inside, S), IsContainer(c, S), Due(inside, base),
         NEW s, s = (base \o <<<<Open(c.kind)>>>>) \o seg, NEW t \in Tokens,
         p = State("value", Append(inside, c), value), ValueNext(c.kind, seg \o <<t>>)
  PROVE  Sound(p, Append(s, t), S)
<1>1. seg \o <<t>> \in Seq(Tokens) /\ Append(s, t) = (base \o <<<<Open(c.kind)>>>>) \o (seg \o <<t>>)
  <2>1. PICK x : x = <<Open(c.kind)>>
    OBVIOUS
  <2>2. x \in Tokens
    BY <2>1, OpenToken
  <2>3. /\ seg \o <<t>> \in Seq(Tokens)
        /\ Append((base \o <<x>>) \o seg, t) = (base \o <<x>>) \o (seg \o <<t>>)
    BY <2>2, MoreOf
  <2> QED BY <2>1, <2>3
<1>2. PICK X : inside \in Seq(X)
  BY DEF IsContainers
<1>3. c.kind \in Kinds
  BY ContainerKind
<1>4. Due(Append(inside, c), Append(s, t))
  BY <1>1, <1>2, <1>3, DueInside
<1>5. IsContainers(Append(inside, c), S)
  BY ContainersTop
<1>6. WhereDue(p, Append(s, t), S)
  BY <1>4, <1>5 DEF WhereDue
<1> QED BY <1>6 DEF Sound

EmptyObject(at, t) == at = "first key" /\ t = <<"}">>
IsObject(c) == c.kind = "object"

\* A name.
LEMMA SoundKey ==
  ASSUME NEW S, NEW at \in NameDue, NEW inside, NEW c, NEW value, NEW base \in Seq(Tokens),
         NEW seg \in Seq(Tokens), IsContainers(inside, S), IsContainer(c, S), Due(inside, base),
         NEW s, s = (base \o <<<<Open(c.kind)>>>>) \o seg, NEW t \in Tokens,
         IsObject(c), NameNext(seg), ~ EmptyObject(at, t)
  PROVE  Sound(Parse(State(at, Append(inside, c), value), t), Append(s, t), S)
<1>1. PICK i : i = Append(inside, c)
  OBVIOUS
<1>2. c = Container(c.kind, c.key, c.content)
  BY ContainerKind
<1>3. Last(i) = c /\ Front(i) = inside
  BY <1>1, ContainersStack, StackTop
<1>4. CASE t \in Strings
  <2>1. PICK d : d = Container(c.kind, t[2], c.content)
    OBVIOUS
  <2>2. Parse(State(at, i, value), t) = State("colon", Append(inside, d), value)
    <3>1. Last(i) = Container(c.kind, c.key, c.content)
      BY <1>2, <1>3
    <3>2. Parse(State(at, i, value), t)
            = State("colon", Append(Front(i), Container(c.kind, t[2], c.content)), value)
      BY <1>4, <3>1, ParseKey
    <3> QED BY <1>3, <2>1, <3>2
  <2>3. d.kind = c.kind
    BY <2>1, ContainerIs
  <2>4. IsContainer(d, S)
    <3>1. c.content \in [ToSet(Names) -> S \cup {Nothing}]
      BY ContainerKind DEF IsObject
    <3>2. d = Container("object", t[2], c.content)
      BY <2>1 DEF IsObject
    <3> QED BY <3>1, <3>2 DEF IsContainer
  <2>5. Part("colon", d.kind, seg \o <<t>>)
    BY <1>4, <2>3 DEF Part, IsObject
  <2> QED BY <1>1, <2>2, <2>3, <2>4, <2>5, SoundMoved
<1>5. CASE t \notin Strings
  <2>1. PICK p : p = State(at, i, value)
    OBVIOUS
  <2>2. p.at = at
    BY <2>1, StateIs
  <2>3. t[1] # "string" /\ (at = "first key" => t[1] # "}")
    BY <1>5, TokenTypes DEF EmptyObject
  <2>4. Key(p, t) = Throws(p)
    BY <2>3 DEF Key
  <2>5. Parse(p, t) = Key(p, t)
    BY <2>2, <2>3 DEF Parse, NameDue
  <2> QED BY <1>1, <2>1, <2>4, <2>5, ParseThrows
<1> QED BY <1>4, <1>5

\* A colon.
LEMMA SoundColon ==
  ASSUME NEW S, NEW inside, NEW c, NEW value, NEW base \in Seq(Tokens),
         NEW seg \in Seq(Tokens), IsContainers(inside, S), IsContainer(c, S), Due(inside, base),
         NEW s, s = (base \o <<<<Open(c.kind)>>>>) \o seg, NEW t \in Tokens,
         IsObject(c), NEW m \in Seq(Tokens), NEW k \in Strings, NameNext(m), seg = m \o <<k>>
  PROVE  Sound(Parse(State("colon", Append(inside, c), value), t), Append(s, t), S)
<1>1. PICK p : p = State("colon", Append(inside, c), value)
  OBVIOUS
<1>2. CASE t = <<":">>
  <2>1. Parse(p, t) = State("value", Append(inside, c), value)
    BY <1>1, <1>2, ParseColon
  <2>2. seg \o <<t>> = m \o <<k, t>>
    <3>1. <<k>> \in Seq(Tokens) /\ <<t>> \in Seq(Tokens)
      <4>1. k \in Tokens
        BY TokenSet
      <4> QED BY <4>1
    <3>2. (m \o <<k>>) \o <<t>> = m \o (<<k>> \o <<t>>)
      BY <3>1, ConcatAssociative
    <3>3. <<k>> \o <<t>> = <<k, t>>
      BY PairOf
    <3> QED BY <3>2, <3>3
  <2>3. ValueNext(c.kind, seg \o <<t>>)
    BY <1>2, <2>2 DEF ValueNext, IsObject
  <2> QED BY <1>1, <2>1, <2>3, SoundDue
<1>3. CASE t # <<":">>
  <2>1. p.at = "colon"
    BY <1>1, StateIs
  <2>3. t[1] # ":"
    BY <1>3, TokenTypes
  <2>2. Parse(p, t) = Throws(p)
    BY <2>1, <2>3 DEF Parse
  <2> QED BY <1>1, <2>2, ParseThrows
<1> QED BY <1>2, <1>3

\* A separator or the end of a container, after a value.
LEMMA SoundSeparator ==
  ASSUME NEW n \in Nat, NEW inside, NEW c, NEW value, NEW base \in Seq(Tokens),
         NEW seg \in Seq(Tokens), IsContainers(inside, Values[n]), IsContainer(c, Values[n]),
         Due(inside, base), NEW s, s = (base \o <<<<Open(c.kind)>>>>) \o seg, NEW t \in Tokens,
         ValueDone(c.kind, seg)
  PROVE  Sound(Parse(State("next", Append(inside, c), value), t), Append(s, t), Values[n + 1])
<1>1. PICK S : S = Values[n + 1]
  OBVIOUS
<1>2. IsContainers(inside, S) /\ IsContainer(c, S)
  <2>1. n + 1 \in Nat /\ n <= n + 1
    OBVIOUS
  <2>2. Values[n] \subseteq Values[n + 1]
    BY <2>1, ValuesGrow
  <2> QED BY <1>1, <2>2, ContainersMore
<1>3. c.kind \in Kinds /\ c = Container(c.kind, c.key, c.content)
  BY ContainerKind
<1>4. PICK i : i = Append(inside, c)
  OBVIOUS
<1>5. Last(i) = Container(c.kind, c.key, c.content)
  <2>1. Last(i) = c
    BY <1>4, ContainersStack, StackTop
  <2> QED BY <1>3, <2>1
<1>6. CASE t = <<",">>
  <2>1. Parse(State("next", i, value), t) = State(AfterComma(c.kind), i, value)
    BY <1>5, <1>6, ParseComma
  <2>2. CASE c.kind = "array"
    <3>1. AfterComma(c.kind) = "value"
      BY <2>2 DEF AfterComma
    <3>2. ValueNext(c.kind, seg \o <<t>>)
      BY <1>6, <2>2 DEF ValueNext, ValueDone
    <3>3. Parse(State("next", i, value), t) = State("value", i, value)
      BY <2>1, <3>1
    <3> QED BY <1>1, <1>2, <1>4, <3>2, <3>3, SoundDue
  <2>3. CASE c.kind = "object"
    <3>1. AfterComma(c.kind) = "key"
      BY <2>3 DEF AfterComma
    <3>2. Part("key", c.kind, seg \o <<t>>)
      BY <1>6, <2>3 DEF Part, ValueDone, NameNext
    <3>3. Parse(State("next", i, value), t) = State("key", i, value)
      BY <2>1, <3>1
    <3> QED BY <1>1, <1>2, <1>4, <3>2, <3>3, SoundMoved
  <2> QED BY <1>3, <2>2, <2>3 DEF Kinds
<1>7. CASE t = <<Close(c.kind)>>
  <2>1. PICK at : at = "next"
    OBVIOUS
  <2>2. at \in MayClose(c.kind)
    BY <2>1 DEF MayClose
  <2>3. Sound(Parse(State(at, Append(inside, c), value), <<Close(c.kind)>>),
              Append(s, <<Close(c.kind)>>), Values[n + 1])
    BY <2>2, SoundClose
  <2> QED BY <1>7, <2>1, <2>3
<1>8. CASE t # <<",">> /\ t # <<Close(c.kind)>>
  <2>1. PICK p : p = State("next", i, value)
    OBVIOUS
  <2>2. p.at = "next" /\ p.inside = i
    BY <2>1, StateIs
  <2>3. Last(p.inside).kind = c.kind
    BY <1>5, <2>2, ContainerIs
  <2>4. t[1] # "," /\ t[1] # Close(c.kind)
    BY <1>8, TokenTypes DEF Close
  <2>5. Separator(p, t) = Throws(p)
    BY <2>3, <2>4 DEF Separator
  <2>6. Parse(p, t) = Separator(p, t)
    BY <2>2 DEF Parse
  <2> QED BY <1>4, <2>1, <2>5, <2>6, ParseThrows
<1> QED BY <1>6, <1>7, <1>8

\* The first token of a container.
LEMMA SoundFirst ==
  ASSUME NEW n \in Nat, NEW at, NEW inside, NEW c, NEW value, NEW base \in Seq(Tokens),
         IsContainers(inside, Values[n]), IsContainer(c, Values[n]),
         Due(inside, base), NEW s, s = (base \o <<<<Open(c.kind)>>>>) \o <<>>, NEW t \in Tokens,
         at \in MayClose(c.kind), at # "next"
  PROVE  Sound(Parse(State(at, Append(inside, c), value), t), Append(s, t), Values[n + 1])
<1>1. PICK S : S = Values[n + 1]
  OBVIOUS
<1>2. IsContainers(inside, S) /\ IsContainer(c, S)
  <2>1. n + 1 \in Nat /\ n <= n + 1
    OBVIOUS
  <2>2. Values[n] \subseteq Values[n + 1]
    BY <2>1, ValuesGrow
  <2> QED BY <1>1, <2>2, ContainersMore
<1>3. c.kind \in Kinds
  BY ContainerKind
<1>4. PICK e : e = <<>>
  OBVIOUS
<1>5. e \in Seq(Tokens)
  BY <1>4
<1>6. s = (base \o <<<<Open(c.kind)>>>>) \o e
  BY <1>4
<1>7. CASE t = <<Close(c.kind)>>
  <2>1. Sound(Parse(State(at, Append(inside, c), value), <<Close(c.kind)>>),
              Append(s, <<Close(c.kind)>>), Values[n + 1])
    BY <1>4, <1>5, <1>6, SoundClose
  <2> QED BY <1>7, <2>1
<1>8. CASE t # <<Close(c.kind)>> /\ c.kind = "array"
  <2>1. at \in ValueDue
    BY <1>8 DEF MayClose, ValueDue
  <2>2. ~ EmptyArray(at, t)
    BY <1>8 DEF EmptyArray, Close
  <2>3. ValueNext(c.kind, e)
    BY <1>4, <1>8 DEF ValueNext
  <2>4. PICK X : inside \in Seq(X)
    BY <1>2 DEF IsContainers
  <2>5. Due(Append(inside, c), s)
    BY <1>3, <1>5, <1>6, <2>3, <2>4, DueInside
  <2>6. IsContainers(Append(inside, c), Values[n])
    BY ContainersTop
  <2> QED BY <2>1, <2>2, <2>5, <2>6, SoundToken
<1>9. CASE t # <<Close(c.kind)>> /\ c.kind = "object"
  <2>1. at \in NameDue
    BY <1>9 DEF MayClose, NameDue
  <2>2. ~ EmptyObject(at, t)
    BY <1>9 DEF EmptyObject, Close
  <2>3. NameNext(e) /\ IsObject(c)
    BY <1>4, <1>9 DEF NameNext, IsObject
  <2> QED BY <1>1, <1>2, <1>5, <1>6, <2>1, <2>2, <2>3, SoundKey
<1> QED BY <1>3, <1>7, <1>8, <1>9 DEF Kinds

Final(p) == p.at \in {"done", "threw"}

\* Whatever the token, Sound goes on to hold.
LEMMA SoundStep ==
  ASSUME NEW n \in Nat, NEW p, NEW s \in Seq(Tokens), NEW t \in Tokens,
         Sound(p, s, Values[n]), ~ Final(p)
  PROVE  Sound(Parse(p, t), Append(s, t), Values[n + 1])
<1>1. CASE WhereDue(p, s, Values[n])
  <2>1. PICK inside, value : /\ p = State("value", inside, value)
                             /\ IsContainers(inside, Values[n]) /\ Due(inside, s)
    BY <1>1 DEF WhereDue
  <2>2. PICK at : at = "value"
    OBVIOUS
  <2>3. at \in ValueDue /\ ~ EmptyArray(at, t)
    BY <2>2 DEF ValueDue, EmptyArray
  <2>4. Sound(Parse(State(at, inside, value), t), Append(s, t), Values[n + 1])
    BY <2>1, <2>3, SoundToken
  <2> QED BY <2>1, <2>2, <2>4
<1>2. CASE WhereIn(p, s, Values[n])
  <2>1. PICK at, inside, c, value : \E base, seg \in Seq(Tokens) :
          /\ p = State(at, Append(inside, c), value) /\ IsContainers(inside, Values[n])
          /\ IsContainer(c, Values[n]) /\ Due(inside, base)
          /\ s = (base \o <<<<Open(c.kind)>>>>) \o seg /\ Part(at, c.kind, seg)
    BY <1>2 DEF WhereIn
  <2>2. PICK base \in Seq(Tokens), seg \in Seq(Tokens) :
          /\ p = State(at, Append(inside, c), value) /\ IsContainers(inside, Values[n])
          /\ IsContainer(c, Values[n]) /\ Due(inside, base)
          /\ s = (base \o <<<<Open(c.kind)>>>>) \o seg /\ Part(at, c.kind, seg)
    BY <2>1
  <2>3. PICK S : S = Values[n + 1]
    OBVIOUS
  <2>4. IsContainers(inside, S) /\ IsContainer(c, S)
    <3>1. n + 1 \in Nat /\ n <= n + 1
      OBVIOUS
    <3>2. Values[n] \subseteq Values[n + 1]
      BY <3>1, ValuesGrow
    <3> QED BY <2>2, <2>3, <3>2, ContainersMore
  <2>5. CASE seg = <<>> /\ at \in MayClose(c.kind) /\ at # "next"
    BY <2>2, <2>5, SoundFirst
  <2>6. CASE at = "key" /\ c.kind = "object" /\ NameNext(seg)
    <3>1. at \in NameDue /\ ~ EmptyObject(at, t) /\ IsObject(c)
      BY <2>6 DEF NameDue, EmptyObject, IsObject
    <3> QED BY <2>2, <2>3, <2>4, <2>6, <3>1, SoundKey
  <2>7. CASE /\ at = "colon" /\ c.kind = "object"
             /\ \E m \in Seq(Tokens), k \in Strings : NameNext(m) /\ seg = m \o <<k>>
    <3>1. PICK m \in Seq(Tokens), k \in Strings : NameNext(m) /\ seg = m \o <<k>>
      BY <2>7
    <3>2. IsObject(c)
      BY <2>7 DEF IsObject
    <3>3. p = State("colon", Append(inside, c), value)
      BY <2>2, <2>7
    <3> QED BY <2>2, <2>3, <2>4, <3>1, <3>2, <3>3, SoundColon
  <2>8. CASE at = "next" /\ ValueDone(c.kind, seg)
    <3>1. p = State("next", Append(inside, c), value)
      BY <2>2, <2>8
    <3> QED BY <2>2, <2>8, <3>1, SoundSeparator
  <2> QED BY <2>2, <2>5, <2>6, <2>7, <2>8 DEF Part, MayClose
<1>3. CASE AtEnd(p, s, Values[n])
  <2>1. PICK v \in Values[n] : p = State("end", <<>>, v)
    BY <1>3 DEF AtEnd
  <2>2. v \in Values[n + 1]
    <3>1. n + 1 \in Nat /\ n <= n + 1
      OBVIOUS
    <3> QED BY <2>1, <3>1, ValuesGrow
  <2>3. CASE t = <<"end">>
    <3>1. Parse(p, t) = State("done", <<>>, v)
      BY <2>1, <2>3, ParseEnd
    <3> QED BY <2>2, <3>1 DEF Sound, IsDone
  <2>4. CASE t # <<"end">>
    <3>1. p.at = "end"
      BY <2>1, StateIs
    <3>2. t[1] # "end"
      BY <2>4, TokenTypes
    <3>3. Parse(p, t) = Throws(p)
      BY <3>1, <3>2 DEF Parse
    <3> QED BY <2>1, <3>3, ParseThrows
  <2> QED BY <2>3, <2>4
<1>4. CASE IsDone(p, Values[n])
  BY <1>4, StateIs DEF IsDone, Final
<1>5. CASE HasThrown(p)
  BY <1>5, StateIs DEF HasThrown, Final
<1> QED BY <1>1, <1>2, <1>3, <1>4, <1>5 DEF Sound
-----------------------------------------------------------------------------
(* The parser and the grammar. *)

\* Where the parser may be.
Places == {"value", "first value", "first key", "key", "colon", "next", "end", "done", "threw"}

\* Where the parser is tells which part of Sound holds.
LEMMA SoundPlace ==
  ASSUME NEW p, NEW s, NEW S, Sound(p, s, S)
  PROVE  /\ p.at \in Places /\ \E inside, value : p = State(p.at, inside, value)
         /\ p.at = "end" => AtEnd(p, s, S)
         /\ p.at = "done" => IsDone(p, S)
         /\ p.at = "threw" => HasThrown(p)
<1>1. CASE WhereDue(p, s, S)
  <2>1. PICK inside, value : p = State("value", inside, value)
    BY <1>1 DEF WhereDue
  <2>2. p.at = "value"
    BY <2>1, StateIs
  <2> QED BY <2>1, <2>2 DEF Places
<1>2. CASE WhereIn(p, s, S)
  <2>1. PICK at, inside, c, value : \E base, seg \in Seq(Tokens) :
          p = State(at, Append(inside, c), value) /\ Part(at, c.kind, seg)
    BY <1>2 DEF WhereIn
  <2>2. at \in {"first value", "first key", "key", "colon", "next"}
    BY <2>1 DEF Part
  <2>3. p = State(at, Append(inside, c), value)
    BY <2>1
  <2>4. p.at = at
    BY <2>3, StateIs
  <2> QED BY <2>2, <2>3, <2>4 DEF Places
<1>3. CASE AtEnd(p, s, S)
  <2>1. PICK value : p = State("end", <<>>, value)
    BY <1>3 DEF AtEnd
  <2>2. p.at = "end"
    BY <2>1, StateIs
  <2> QED BY <1>3, <2>1, <2>2 DEF Places
<1>4. CASE IsDone(p, S)
  <2>1. PICK value : p = State("done", <<>>, value)
    BY <1>4 DEF IsDone
  <2>2. p.at = "done"
    BY <2>1, StateIs
  <2> QED BY <1>4, <2>1, <2>2 DEF Places
<1>5. CASE HasThrown(p)
  <2>1. PICK inside, value : p = State("threw", inside, value)
    BY <1>5 DEF HasThrown
  <2>2. p.at = "threw"
    BY <2>1, StateIs
  <2> QED BY <1>5, <2>1, <2>2 DEF Places
<1> QED BY <1>1, <1>2, <1>3, <1>4, <1>5 DEF Sound

\* A number too large for a double is where nothing may be.
LEMMA InfiniteThrows ==
  ASSUME NEW p, NEW s, NEW S, Sound(p, s, S), ~ Final(p)
  PROVE  HasThrown(Parse(p, Infinite))
<1>1. PICK inside, value : p = State(p.at, inside, value)
  BY SoundPlace
<1>2. Infinite[1] = "number"
  BY DEF Infinite
<1>3. ValueToken(p, Infinite) = Throws(p) /\ Key(p, Infinite) = Throws(p)
  BY <1>2 DEF ValueToken, Key
<1>4. Separator(p, Infinite) = Throws(p)
  BY <1>2 DEF Separator, Close
<1>5. p.at \in Places /\ ~ (p.at \in {"done", "threw"})
  BY SoundPlace DEF Final
<1>6. Parse(p, Infinite) = Throws(p)
  BY <1>2, <1>3, <1>4, <1>5 DEF Parse, Places
<1>7. Throws(p) = State("threw", inside, value)
  BY <1>1, ThrowsIs
<1> QED BY <1>6, <1>7 DEF HasThrown

\* What holds of the tokens read and the parser.
Follow(s, p) ==
  /\ s \in Seq(Tokens) /\ Sound(p, s, Values[Len(s)])
  /\ Parses(Outside, s, p)
  /\ p.at = "threw" \/ Finite(s)

\* It holds at first, ...
LEMMA FollowInit == ValuesInit => Follow(tokens, parser)
<1> SUFFICES ASSUME ValuesInit PROVE Follow(tokens, parser)
  OBVIOUS
<1>1. tokens = <<>> /\ parser = Outside /\ Len(tokens) = 0 /\ tokens \in Seq(Tokens)
  BY EmptySeq DEF ValuesInit
<1>2. Parses(Outside, tokens, parser)
  BY <1>1, ParsesNone
<1>3. Finite(tokens)
  BY <1>1 DEF Finite
<1>4. parser = State("value", <<>>, Nothing)
  BY <1>1 DEF Outside, State
<1>5. ASSUME NEW S PROVE IsContainers(<<>>, S)
  <2>1. PICK X : X = {}
    OBVIOUS
  <2>2. PICK e : e = <<>>
    OBVIOUS
  <2>3. e \in Seq(X)
    BY <2>2
  <2>4. \A c \in X : IsContainer(c, S)
    BY <2>1
  <2> QED BY <2>2, <2>3, <2>4 DEF IsContainers
<1>6. Due(<<>>, tokens)
  BY <1>1, DueOutside
<1>7. Sound(parser, tokens, Values[Len(tokens)])
  BY <1>4, <1>5, <1>6 DEF Sound, WhereDue
<1> QED BY <1>1, <1>2, <1>3, <1>7 DEF Follow

\* ... goes on to hold, ...
LEMMA FollowNext ==
  ASSUME NEW t \in Tokens, NEW s, NEW p, Follow(s, p), ~ Final(p)
  PROVE  Follow(Append(s, t), Parse(p, t))
<1>1. PICK u, q : u = Append(s, t) /\ q = Parse(p, t)
  OBVIOUS
<1>2. s \in Seq(Tokens) /\ Len(s) \in Nat
  BY DEF Follow
<1>3. u \in Seq(Tokens) /\ Len(u) = Len(s) + 1
  BY <1>1, <1>2, AppendProperties
<1>4. Sound(q, u, Values[Len(u)])
  <2>1. Sound(p, s, Values[Len(s)])
    BY DEF Follow
  <2> QED BY <1>1, <1>2, <1>3, <2>1, SoundStep
<1>5. Parses(Outside, u, q)
  BY <1>1, <1>2, ParsesMore DEF Follow
<1>6. q.at = "threw" \/ Finite(u)
  <2>1. CASE t = Infinite
    <3>1. HasThrown(q)
      BY <1>1, <2>1, InfiniteThrows DEF Follow
    <3> QED BY <3>1, StateIs DEF HasThrown
  <2>2. CASE t # Infinite
    <3>1. Finite(s)
      BY DEF Follow, Final
    <3>2. <<t>> \in Seq(Tokens) /\ u = s \o <<t>>
      BY <1>1, <1>2, AppendIsConcat
    <3>3. Finite(<<t>>)
      BY <2>2, FiniteOne
    <3> QED BY <1>2, <3>1, <3>2, <3>3, FiniteBoth
  <2> QED BY <2>1, <2>2
<1> QED BY <1>1, <1>3, <1>4, <1>5, <1>6 DEF Follow

\* ... and so holds always.
LEMMA ValuesFollow == ValuesSpec => []Follow(tokens, parser)
<1>1. Follow(tokens, parser) /\ [ValuesNext]_valueVars => Follow(tokens, parser)'
  <2> SUFFICES ASSUME Follow(tokens, parser), [ValuesNext]_valueVars
               PROVE  Follow(tokens', parser')
    BY DEF Follow, Sound, WhereDue, WhereIn, AtEnd, IsDone, HasThrown, Parses, Finite
  <2>1. CASE ValuesNext
    <3>1. PICK t \in Tokens : Token(t)
      BY <2>1 DEF ValuesNext
    <3>2. tokens' = Append(tokens, t) /\ parser' = Parse(parser, t) /\ ~ Final(parser)
      BY <3>1 DEF Token, Final
    <3> QED BY <3>2, FollowNext
  <2>2. CASE UNCHANGED valueVars
    BY <2>2 DEF valueVars
  <2> QED BY <2>1, <2>2
<1> QED BY <1>1, FollowInit, PTL DEF ValuesSpec

\* parse_internal accepts the texts of JSON's grammar without a number too large for a
\* double, and only those: for every text, whatever its length and its levels.
THEOREM ValuesGrammar == ValuesSpec => []AcceptsGrammar
<1>1. Follow(tokens, parser) => AcceptsGrammar
  <2> SUFFICES ASSUME Follow(tokens, parser) PROVE AcceptsGrammar
    OBVIOUS
  <2>1. tokens \in Seq(Tokens) /\ Len(tokens) \in Nat
    BY DEF Follow
  <2>2. Infinite \notin ToSet(tokens) <=> Finite(tokens)
    BY <2>1 DEF ToSet, Finite
  <2>3. ASSUME parser.at = "end" PROVE IsValue(tokens) /\ Finite(tokens)
    <3>1. AtEnd(parser, tokens, Values[Len(tokens)])
      BY <2>3, SoundPlace DEF Follow
    <3>2. tokens \in ValueText
      BY <3>1 DEF AtEnd
    <3> QED BY <2>3, <3>2 DEF Follow, ValueText, IsValue
  <2>4. ASSUME IsValue(tokens), Finite(tokens) PROVE parser.at = "end"
    <3>1. TakesTexts(Texts[Len(tokens)])
      BY <2>1, TextsTaken
    <3>2. Taken(tokens)
      BY <2>4, <3>1 DEF TakesTexts, IsValue
    <3>3. PICK inside : inside = <<>>
      OBVIOUS
    <3>4. IsStack(inside)
      <4>1. inside \in Seq({})
        BY <3>3
      <4> QED BY <4>1 DEF IsStack
    <3>5. PICK at : at = "value"
      OBVIOUS
    <3>6. at \in ValueDue
      BY <3>5 DEF ValueDue
    <3>7. PICK v : Parses(State(at, inside, Nothing), tokens, Value(State(at, inside, Nothing), v))
      BY <3>2, <3>4, <3>6 DEF Taken
    <3>8. State(at, inside, Nothing) = Outside
      BY <3>3, <3>5 DEF State, Outside
    <3>9. Value(State(at, inside, Nothing), v) = State("end", inside, v)
      BY <3>3, ValueIs
    <3>10. parser = State("end", inside, v)
      BY <2>1, <3>7, <3>8, <3>9, ParsesAgree DEF Follow
    <3> QED BY <3>10, StateIs
  <2> QED BY <2>2, <2>3, <2>4 DEF AcceptsGrammar
<1> QED BY <1>1, ValuesFollow, PTL
-----------------------------------------------------------------------------
(* dump: the separators, and the order of the members. *)

\* A part, with the comma that follows all of them but the last.
Spaced(parts, n) == IF n < Len(parts) THEN Append(parts[n], <<",">>) ELSE parts[n]

\* It is a text.
LEMMA SpacedType ==
  ASSUME NEW parts \in Seq(Seq(Tokens)), NEW n \in 1 .. Len(parts)
  PROVE  Spaced(parts, n) \in Seq(Tokens)
<1>1. parts[n] \in Seq(Tokens)
  OBVIOUS
<1>2. PICK part, comma : part = parts[n] /\ comma = <<",">>
  OBVIOUS
<1>3. part \in Seq(Tokens) /\ comma \in Tokens
  BY <1>1, <1>2, TokenSet
<1>4. Append(part, comma) \in Seq(Tokens)
  BY <1>3
<1> QED BY <1>2, <1>3, <1>4 DEF Spaced

\* Separated writes one part after the other.
LEMMA SeparatedSteps ==
  ASSUME NEW parts \in Seq(Seq(Tokens))
  PROVE  \E f : /\ f[0] = <<>> /\ Separated(parts) = f[Len(parts)]
                /\ \A n \in 1 .. Len(parts) : f[n] = f[n - 1] \o Spaced(parts, n)
<1> DEFINE V == Seq(Tokens)
           next == [n \in Nat |-> [v \in V |->
                      IF n + 1 <= Len(parts) THEN v \o Spaced(parts, n + 1) ELSE v]]
           Eq(f) == f = [n \in 0 .. Len(parts) |->
                           IF n = 0 THEN <<>> ELSE f[n - 1] \o Spaced(parts, n)]
<1>1. next \in [Nat -> [V -> V]]
  <2>1. ASSUME NEW n \in Nat, NEW v \in V
        PROVE  (IF n + 1 <= Len(parts) THEN v \o Spaced(parts, n + 1) ELSE v) \in V
    <3>1. CASE n + 1 <= Len(parts)
      <4>1. n + 1 \in 1 .. Len(parts)
        BY <3>1
      <4>2. PICK w \in Seq(Tokens) : w = Spaced(parts, n + 1)
        BY <4>1, SpacedType
      <4>3. v \o w \in Seq(Tokens)
        OBVIOUS
      <4> QED BY <3>1, <4>2, <4>3
    <3> QED BY <3>1
  <2> QED BY <2>1
<1>2. PICK g \in [Nat -> V] : g[0] = <<>> /\ \A n \in Nat : g[n + 1] = next[n][g[n]]
  <2>1. PICK W, k, z : W = V /\ k = next /\ z = <<>>
    OBVIOUS
  <2>2. z \in W /\ k \in [Nat -> [W -> W]]
    BY <1>1, <2>1
  <2>3. PICK g : Grows(g, W, z, k)
    BY <2>2, FunctionByInduction
  <2> HIDE DEF next, V
  <2> QED BY <2>1, <2>3 DEF Grows
<1> DEFINE f0 == [n \in 0 .. Len(parts) |-> g[n]]
<1>3. Eq(f0)
  <2>1. ASSUME NEW n \in 0 .. Len(parts)
        PROVE  g[n] = IF n = 0 THEN <<>> ELSE f0[n - 1] \o Spaced(parts, n)
    <3>1. CASE n = 0 BY <1>2, <3>1
    <3>2. CASE n # 0
      <4>1. n - 1 \in Nat /\ n - 1 \in 0 .. Len(parts) /\ (n - 1) + 1 = n /\ n <= Len(parts) BY <3>2
      <4>2. g[n] = next[n - 1][g[n - 1]] BY <1>2, <4>1
      <4>3. g[n - 1] \in V BY <4>1
      <4>4. next[n - 1][g[n - 1]] = g[n - 1] \o Spaced(parts, n) BY <4>1, <4>3
      <4>5. f0[n - 1] = g[n - 1] BY <4>1
      <4> QED BY <3>2, <4>2, <4>4, <4>5
    <3> QED BY <3>1, <3>2
  <2> QED BY <2>1
<1>4. Eq(CHOOSE h : Eq(h))
  BY <1>3
<1>5. PICK f : Eq(f) /\ f = CHOOSE h : Eq(h)
  BY <1>4
<1>6. Separated(parts) = f[Len(parts)]
  BY <1>5 DEF Separated, Spaced
<1>7. \A n \in 0 .. Len(parts) : f[n] = IF n = 0 THEN <<>> ELSE f[n - 1] \o Spaced(parts, n)
  BY <1>5
<1> HIDE DEF Eq, f0, next, V
<1>8. f[0] = <<>>
  <2>1. 0 \in 0 .. Len(parts)
    OBVIOUS
  <2> QED BY <1>7, <2>1
<1>9. ASSUME NEW n \in 1 .. Len(parts) PROVE f[n] = f[n - 1] \o Spaced(parts, n)
  <2>1. n \in 0 .. Len(parts) /\ n # 0
    OBVIOUS
  <2> QED BY <1>7, <2>1
<1> QED BY <1>6, <1>8, <1>9

\* The parser takes the parts one after the other: P[i] is where it is before the part i + 1,
\* and D[i] where it is after the part i.
PartsTaken(parts, P, D) ==
  /\ \A i \in Nat : i < Len(parts) => Parses(P[i], parts[i + 1], D[i + 1])
  /\ \A i \in Nat : 0 < i /\ i < Len(parts) => Parse(D[i], <<",">>) = P[i]

\* So the parser takes what Separated writes.
LEMMA SeparatedParses ==
  ASSUME NEW parts \in Seq(Seq(Tokens)), NEW P, NEW D, PartsTaken(parts, P, D)
  PROVE  /\ Separated(parts) \in Seq(Tokens)
         /\ Len(parts) = 0 => Separated(parts) = <<>>
         /\ Len(parts) # 0 => Parses(P[0], Separated(parts), D[Len(parts)])
<1>1. PICK f : /\ f[0] = <<>> /\ Separated(parts) = f[Len(parts)]
               /\ \A n \in 1 .. Len(parts) : f[n] = f[n - 1] \o Spaced(parts, n)
  BY SeparatedSteps
<1>2. PICK m : m = Len(parts) /\ m \in Nat
  <2>1. Len(parts) \in Nat
    OBVIOUS
  <2> QED BY <2>1
<1> DEFINE Good(i) == /\ f[i] \in Seq(Tokens)
                      /\ i < m => Parses(P[0], f[i], P[i])
                      /\ i = m /\ i # 0 => Parses(P[0], f[i], D[i])
           S == {i \in Nat : i <= m => Good(i)}
<1>3. 0 \in S
  <2>1. PICK e : e = <<>>
    OBVIOUS
  <2>2. e \in Seq(Tokens)
    BY <2>1
  <2>4. Parses(P[0], e, P[0])
    BY <2>1, ParsesNone
  <2>3. f[0] = e
    BY <1>1, <2>1
  <2>5. Good(0)
    BY <1>2, <2>2, <2>3, <2>4
  <2> QED BY <2>5
<1>4. ASSUME NEW i \in Nat, i \in S PROVE i + 1 \in S
  <2> SUFFICES ASSUME i + 1 <= m PROVE Good(i + 1)
    <3> HIDE DEF Good
    <3> QED OBVIOUS
  <2>1. i < m /\ i <= m /\ i + 1 \in 1 .. m /\ (i + 1) - 1 = i /\ i + 1 \in Nat /\ 0 < i + 1
    BY <1>2
  <2>2. f[i] \in Seq(Tokens) /\ Parses(P[0], f[i], P[i])
    BY <1>4, <2>1
  <2>3. f[i + 1] = f[i] \o Spaced(parts, i + 1)
    BY <1>1, <1>2, <2>1
  <2>4. PICK w \in Seq(Tokens) : w = Spaced(parts, i + 1)
    BY <1>2, <2>1, SpacedType
  <2>5. f[i + 1] \in Seq(Tokens)
    BY <2>2, <2>3, <2>4
  <2>6. parts[i + 1] \in Seq(Tokens) /\ Parses(P[i], parts[i + 1], D[i + 1])
    <3>1. parts[i + 1] \in Seq(Tokens)
      BY <1>2, <2>1
    <3> QED BY <1>2, <2>1, <3>1 DEF PartsTaken
  <2>7. CASE i + 1 < m
    <3>1. w = Append(parts[i + 1], <<",">>)
      BY <1>2, <2>4, <2>7 DEF Spaced
    <3>3. Parse(D[i + 1], <<",">>) = P[i + 1]
      BY <1>2, <2>1, <2>7 DEF PartsTaken
    <3>4. PICK comma \in Tokens : comma = <<",">>
      BY TokenSet
    <3>5. Parses(P[i], Append(parts[i + 1], comma), Parse(D[i + 1], comma))
      BY <2>6, <3>4, ParsesMore
    <3>6. Parses(P[i], w, P[i + 1])
      BY <3>1, <3>3, <3>4, <3>5
    <3>7. Parses(P[0], f[i] \o w, P[i + 1])
      BY <2>2, <3>6, ParsesBoth
    <3>8. i + 1 # m
      BY <1>2, <2>7
    <3>9. Parses(P[0], f[i + 1], P[i + 1])
      BY <2>3, <2>4, <3>7
    <3> QED BY <2>5, <3>8, <3>9
  <2>8. CASE i + 1 = m
    <3>1. w = parts[i + 1]
      <4>1. ~ (i + 1 < Len(parts))
        BY <1>2, <2>8
      <4> QED BY <2>4, <4>1 DEF Spaced
    <3>2. Parses(P[i], w, D[i + 1])
      BY <2>6, <3>1
    <3>3. Parses(P[0], f[i] \o w, D[i + 1])
      BY <2>2, <3>2, ParsesBoth
    <3>4. ~ (i + 1 < m)
      BY <1>2, <2>8
    <3>5. Parses(P[0], f[i + 1], D[i + 1])
      BY <2>3, <2>4, <3>3
    <3> QED BY <2>5, <3>4, <3>5
  <2> QED BY <1>2, <2>1, <2>7, <2>8
<1>5. Nat \subseteq S
  <2> HIDE DEF S
  <2> QED BY <1>3, <1>4, SetInduction
<1>6. Good(m)
  <2>1. m \in S
    BY <1>2, <1>5
  <2> HIDE DEF Good
  <2> QED BY <1>2, <2>1
<1>7. Separated(parts) = f[m] /\ f[0] = <<>>
  BY <1>1, <1>2
<1> QED BY <1>2, <1>6, <1>7

\* The names in order, as far as the n-th.
NamesMore(object, names, n) == IF object[Names[n]] # Nothing THEN Append(names, Names[n]) ELSE names

\* InOrder goes through the names one by one.
LEMMA InOrderSteps ==
  ASSUME NEW object
  PROVE  \E f : /\ f[0] = <<>> /\ InOrder(object) = f[Len(Names)]
                /\ \A n \in 1 .. Len(Names) : f[n] = NamesMore(object, f[n - 1], n)
<1>1. Names \in Seq(STRING) /\ Len(Names) \in Nat
  BY ValuesAssumption
<1>2. PICK V : V = Seq(STRING)
  OBVIOUS
<1> DEFINE next == [n \in Nat |-> [v \in V |->
                      IF n + 1 <= Len(Names) THEN NamesMore(object, v, n + 1) ELSE v]]
           Eq(f) == f = [n \in 0 .. Len(Names) |->
                           IF n = 0 THEN <<>> ELSE NamesMore(object, f[n - 1], n)]
<1>3. next \in [Nat -> [V -> V]]
  <2>1. ASSUME NEW n \in Nat, NEW v \in V
        PROVE  (IF n + 1 <= Len(Names) THEN NamesMore(object, v, n + 1) ELSE v) \in V
    <3>1. CASE n + 1 <= Len(Names)
      <4>1. n + 1 \in 1 .. Len(Names)
        BY <1>1, <3>1
      <4>2. Names[n + 1] \in STRING
        BY <1>1, <4>1
      <4>3. Append(v, Names[n + 1]) \in V
        BY <1>2, <4>2
      <4> QED BY <3>1, <4>3 DEF NamesMore
    <3> QED BY <3>1
  <2> QED BY <2>1
<1>4. PICK g \in [Nat -> V] : g[0] = <<>> /\ \A n \in Nat : g[n + 1] = next[n][g[n]]
  <2>1. PICK k, z : k = next /\ z = <<>>
    OBVIOUS
  <2>2. z \in V /\ k \in [Nat -> [V -> V]]
    BY <1>2, <1>3, <2>1
  <2>3. PICK g : Grows(g, V, z, k)
    BY <2>2, FunctionByInduction
  <2> HIDE DEF next
  <2> QED BY <2>1, <2>3 DEF Grows
<1> DEFINE f0 == [n \in 0 .. Len(Names) |-> g[n]]
<1>5. Eq(f0)
  <2>1. ASSUME NEW n \in 0 .. Len(Names)
        PROVE  g[n] = IF n = 0 THEN <<>> ELSE NamesMore(object, f0[n - 1], n)
    <3>1. CASE n = 0 BY <1>4, <3>1
    <3>2. CASE n # 0
      <4>1. n - 1 \in Nat /\ n - 1 \in 0 .. Len(Names) /\ (n - 1) + 1 = n /\ n <= Len(Names)
        BY <1>1, <3>2
      <4>2. g[n] = next[n - 1][g[n - 1]] BY <1>4, <4>1
      <4>3. g[n - 1] \in V BY <4>1
      <4>4. next[n - 1][g[n - 1]] = NamesMore(object, g[n - 1], n) BY <4>1, <4>3
      <4>5. f0[n - 1] = g[n - 1] BY <4>1
      <4> QED BY <3>2, <4>2, <4>4, <4>5
    <3> QED BY <3>1, <3>2
  <2> QED BY <2>1
<1>6. Eq(CHOOSE h : Eq(h))
  BY <1>5
<1>7. PICK f : Eq(f) /\ f = CHOOSE h : Eq(h)
  BY <1>6
<1>8. InOrder(object) = f[Len(Names)]
  BY <1>7 DEF InOrder, NamesMore
<1>9. \A n \in 0 .. Len(Names) : f[n] = IF n = 0 THEN <<>> ELSE NamesMore(object, f[n - 1], n)
  BY <1>7
<1> HIDE DEF Eq, f0, next
<1>10. f[0] = <<>>
  <2>1. 0 \in 0 .. Len(Names)
    BY <1>1
  <2> QED BY <1>9, <2>1
<1>11. ASSUME NEW n \in 1 .. Len(Names) PROVE f[n] = NamesMore(object, f[n - 1], n)
  <2>1. n \in 0 .. Len(Names) /\ n # 0
    BY <1>1
  <2> QED BY <1>9, <2>1
<1> QED BY <1>8, <1>10, <1>11

\* The names of the members, and no other.
LEMMA InOrderNames ==
  ASSUME NEW object
  PROVE  /\ InOrder(object) \in Seq(ToSet(Names))
         /\ \A name \in ToSet(Names) : object[name] # Nothing
              <=> \E j \in 1 .. Len(InOrder(object)) : InOrder(object)[j] = name
<1>1. PICK f : /\ f[0] = <<>> /\ InOrder(object) = f[Len(Names)]
               /\ \A n \in 1 .. Len(Names) : f[n] = NamesMore(object, f[n - 1], n)
  BY InOrderSteps
<1>2. Names \in Seq(STRING) /\ Len(Names) \in Nat
  BY ValuesAssumption
<1>3. ToSet(Names) = {Names[i] : i \in 1 .. Len(Names)}
  BY <1>2 DEF ToSet
<1>4. PICK N : N = ToSet(Names)
  OBVIOUS
<1> DEFINE Has(s, name) == \E j \in 1 .. Len(s) : s[j] = name
           Named(i, name) == \E j \in 1 .. i : Names[j] = name /\ object[name] # Nothing
           Good(i) == f[i] \in Seq(N) /\ \A name \in N : Has(f[i], name) <=> Named(i, name)
           S == {i \in Nat : i <= Len(Names) => Good(i)}
<1>5. 0 \in S
  <2>1. PICK e : e = <<>>
    OBVIOUS
  <2>2. e \in Seq(N) /\ Len(e) = 0 /\ f[0] = e
    BY <1>1, <2>1
  <2>3. \A name : ~ Has(e, name) /\ ~ Named(0, name)
    BY <2>2
  <2>4. Good(0)
    <3> HIDE DEF Has, Named
    <3> QED BY <2>2, <2>3
  <2> HIDE DEF Good
  <2> QED BY <2>4
<1>6. ASSUME NEW i \in Nat, i \in S PROVE i + 1 \in S
  <2> SUFFICES ASSUME i + 1 <= Len(Names) PROVE Good(i + 1)
    <3> HIDE DEF Good
    <3> QED OBVIOUS
  <2>1. i + 1 \in 1 .. Len(Names) /\ (i + 1) - 1 = i /\ i <= Len(Names)
    BY <1>2
  <2>2. Good(i)
    BY <1>6, <2>1
  <2>3. f[i + 1] = NamesMore(object, f[i], i + 1)
    BY <1>1, <2>1
  <2>4. PICK s, x : s = f[i] /\ x = Names[i + 1]
    OBVIOUS
  <2>5. s \in Seq(N) /\ x \in N
    BY <1>3, <1>4, <2>1, <2>2, <2>4
  <2>6. ASSUME NEW name \in N
        PROVE  Named(i + 1, name) <=> Named(i, name) \/ (name = x /\ object[x] # Nothing)
    <3>1. \A j \in Nat : j \in 1 .. i + 1 <=> j \in 1 .. i \/ j = i + 1
      OBVIOUS
    <3> QED BY <2>4, <3>1
  <2>7. CASE object[x] # Nothing
    <3>1. f[i + 1] = Append(s, x)
      BY <2>3, <2>4, <2>7 DEF NamesMore
    <3>2. PICK t : t = Append(s, x)
      OBVIOUS
    <3>3. /\ t \in Seq(N) /\ Len(t) = Len(s) + 1 /\ t[Len(s) + 1] = x
          /\ \A j \in 1 .. Len(s) : t[j] = s[j]
      BY <2>5, <3>2, AppendProperties
    <3>4. ASSUME NEW name \in N PROVE Has(t, name) <=> Has(s, name) \/ name = x
      <4>1. Len(s) \in Nat
        BY <2>5
      <4>2. \A j \in Nat : j \in 1 .. Len(s) + 1 <=> j \in 1 .. Len(s) \/ j = Len(s) + 1
        BY <4>1
      <4>3. Len(s) + 1 \in 1 .. Len(s) + 1
        BY <4>1
      <4> QED BY <3>3, <4>1, <4>2, <4>3
    <3> HIDE DEF Has, Named
    <3> QED BY <2>2, <2>4, <2>6, <2>7, <3>1, <3>2, <3>3, <3>4
  <2>8. CASE object[x] = Nothing
    <3>1. f[i + 1] = s
      BY <2>3, <2>4, <2>8 DEF NamesMore
    <3> HIDE DEF Has, Named
    <3> QED BY <2>2, <2>4, <2>5, <2>6, <2>8, <3>1
  <2> QED BY <2>7, <2>8
<1>7. Nat \subseteq S
  <2> HIDE DEF S
  <2> QED BY <1>5, <1>6, SetInduction
<1>8. Good(Len(Names))
  <2>1. Len(Names) \in S
    BY <1>2, <1>7
  <2> HIDE DEF Good
  <2> QED BY <1>2, <2>1
<1>9. \A name \in N : object[name] # Nothing <=> Named(Len(Names), name)
  BY <1>3, <1>4
<1> HIDE DEF Named
<1> QED BY <1>1, <1>4, <1>8, <1>9
-----------------------------------------------------------------------------
(* dump, one level on the level below. *)

\* The tokens of the value v, where f has those of the values inside it.
Text(f, v) ==
  CASE v[1] = "object" ->
         LET names == InOrder(v[2])
             member(name) == <<<<"string", name>>, <<":">>>> \o f[v[2][name]]
         IN <<<<"{">>>> \o Separated([k \in DOMAIN names |-> member(names[k])]) \o <<<<"}">>>>
    [] v[1] = "array" ->
         <<<<"[">>>> \o Separated([k \in DOMAIN v[2] |-> f[v[2][k]]]) \o <<<<"]">>>>
    [] OTHER -> <<v>>

\* h begins as Written does, up to n.
Writes(h, n) ==
  /\ h[0] = [v \in {} |-> v]
  /\ \A i \in Nat : i < n => h[i + 1] = [v \in Values[i + 1] |-> Text(h[i], v)]

\* There is such a beginning, of any length ...
LEMMA WritesExists == ASSUME NEW n \in Nat PROVE \E h : Writes(h, n)
<1> DEFINE S == {m \in Nat : \E h : Writes(h, m)}
<1>1. 0 \in S
  <2>1. PICK e : e = [v \in {} |-> v]
    OBVIOUS
  <2>2. PICK h : h = [i \in Nat |-> e]
    OBVIOUS
  <2>3. Writes(h, 0) BY <2>1, <2>2 DEF Writes
  <2> QED BY <2>3
<1>2. ASSUME NEW m \in Nat, m \in S PROVE m + 1 \in S
  <2>1. PICK h : Writes(h, m)
    BY <1>2
  <2>2. PICK x : x = [v \in Values[m + 1] |-> Text(h[m], v)]
    OBVIOUS
  <2> DEFINE k == [i \in Nat |-> IF i = m + 1 THEN x ELSE h[i]]
  <2>3. k[0] = h[0] /\ h[0] = [v \in {} |-> v]
    BY <2>1 DEF Writes
  <2>4. ASSUME NEW i \in Nat, i < m + 1 PROVE k[i + 1] = [v \in Values[i + 1] |-> Text(k[i], v)]
    <3>1. CASE i = m
      <4>1. k[i + 1] = x /\ k[i] = h[m] BY <3>1
      <4> HIDE DEF k
      <4> QED BY <2>2, <3>1, <4>1
    <3>2. CASE i # m
      <4>1. i < m /\ i + 1 # m + 1 /\ i # m + 1 /\ i + 1 \in Nat BY <2>4, <3>2
      <4>2. h[i + 1] = [v \in Values[i + 1] |-> Text(h[i], v)] BY <2>1, <4>1 DEF Writes
      <4>3. k[i] = h[i] /\ k[i + 1] = h[i + 1] BY <4>1
      <4> HIDE DEF k
      <4> QED BY <4>2, <4>3
    <3> QED BY <3>1, <3>2
  <2>5. Writes(k, m + 1)
    <3> HIDE DEF k
    <3> QED BY <2>3, <2>4 DEF Writes
  <2> QED BY <2>5
<1>3. Nat \subseteq S
  <2> HIDE DEF S
  <2> QED BY <1>1, <1>2, SetInduction
<1> QED BY <1>3

\* ... and only one.
LEMMA WritesAgree ==
  ASSUME NEW n \in Nat, NEW a, NEW b, Writes(a, n), Writes(b, n)
  PROVE  \A i \in 0 .. n : a[i] = b[i]
<1> DEFINE S == {i \in Nat : i <= n => a[i] = b[i]}
<1>1. 0 \in S
  BY DEF Writes
<1>2. ASSUME NEW i \in Nat, i \in S PROVE i + 1 \in S
  <2>1. CASE i + 1 <= n
    <3>1. i < n /\ i <= n BY <2>1
    <3>2. a[i + 1] = [v \in Values[i + 1] |-> Text(a[i], v)]
          /\ b[i + 1] = [v \in Values[i + 1] |-> Text(b[i], v)]
      BY <3>1 DEF Writes
    <3>3. a[i] = b[i] BY <1>2, <3>1
    <3> QED BY <3>2, <3>3
  <2> QED BY <2>1
<1>3. Nat \subseteq S
  <2> HIDE DEF S
  <2> QED BY <1>1, <1>2, SetInduction
<1> QED BY <1>3

\* Written has, level by level, the text of every value of the level.
LEMMA WrittenStep == \A n \in Nat : Written[n + 1] = [v \in Values[n + 1] |-> Text(Written[n], v)]
<1> DEFINE Eq(f) == f = [n \in Nat |-> [v \in Values[n] |-> Text(f[n - 1], v)]]
           G == [n \in Nat |-> CHOOSE h : Writes(h, n)]
           g == [n \in Nat |-> G[n][n]]
<1>1. ASSUME NEW n \in Nat PROVE Writes(G[n], n)
  BY WritesExists
<1> HIDE DEF G
<1>2. ASSUME NEW n \in Nat PROVE g[n] = [v \in Values[n] |-> Text(g[n - 1], v)]
  <2>1. CASE n = 0
    <3>1. Values[n] = {}
      BY <2>1, ValuesStep
    <3>2. G[n][n] = [v \in {} |-> v]
      BY <1>1, <2>1 DEF Writes
    <3>3. PICK x : x = g[n - 1]
      OBVIOUS
    <3>4. [v \in {} |-> v] = [v \in {} |-> Text(x, v)]
      OBVIOUS
    <3> QED BY <3>1, <3>2, <3>3, <3>4
  <2>2. CASE n # 0
    <3>1. n - 1 \in Nat /\ (n - 1) + 1 = n /\ n - 1 < n /\ n - 1 \in 0 .. n - 1 BY <2>2
    <3>2. G[n][n] = [v \in Values[n] |-> Text(G[n][n - 1], v)]
      BY <1>1, <3>1 DEF Writes
    <3>3. Writes(G[n], n - 1) /\ Writes(G[n - 1], n - 1)
      BY <1>1, <3>1 DEF Writes
    <3>4. G[n][n - 1] = G[n - 1][n - 1]
      BY <3>1, <3>3, WritesAgree
    <3>5. g[n] = G[n][n] /\ g[n - 1] = G[n - 1][n - 1]
      BY <3>1
    <3> HIDE DEF g
    <3> QED BY <3>2, <3>4, <3>5
  <2> QED BY <2>1, <2>2
<1>3. Eq(g)
  <2>1. g = [n \in Nat |-> g[n]]
    OBVIOUS
  <2> HIDE DEF g
  <2> QED BY <1>2, <2>1
<1>4. Eq(CHOOSE f : Eq(f))
  BY <1>3
<1>5. Written = CHOOSE f : Eq(f)
  BY DEF Written, Text
<1>6. Eq(Written)
  <2> HIDE DEF Eq, G, g
  <2> QED BY <1>4, <1>5
<1> HIDE DEF G, g
<1>7. \A n \in Nat : Written[n] = [v \in Values[n] |-> Text(Written[n - 1], v)]
  BY <1>6
<1>8. ASSUME NEW n \in Nat PROVE Written[n + 1] = [v \in Values[n + 1] |-> Text(Written[n], v)]
  <2>1. n + 1 \in Nat /\ (n + 1) - 1 = n
    OBVIOUS
  <2>2. Written[n + 1] = [v \in Values[n + 1] |-> Text(Written[(n + 1) - 1], v)]
    BY <1>7, <2>1
  <2> QED BY <2>1, <2>2
<1> QED BY <1>8
-----------------------------------------------------------------------------
(* The parser reads what dump has written, and gets the value it was written for. *)

\* From where a value is due the parser takes the text w as the value v.
Returns(w, v) ==
  \A at \in ValueDue : \A inside, value :
    IsStack(inside) => Parses(State(at, inside, value), w, Value(State(at, inside, value), v))

\* f has the text of every value of the set S.
Writer(f, S) == \A v \in S : f[v] \in Seq(Tokens) /\ Returns(f[v], v)

\* A string and a number are read as they were written ...
LEMMA TokenReturns ==
  ASSUME NEW f, NEW v, v \in Strings \/ (\E x \in {"0", "1"} : v = <<"number", x>>)
  PROVE  Text(f, v) \in Seq(Tokens) /\ Returns(Text(f, v), v)
<1>1. v \in Tokens /\ (v[1] = "string" \/ v[1] = "number")
  <2>1. CASE v \in Strings
    BY <2>1, StringName, TokenSet
  <2>2. CASE \E x \in {"0", "1"} : v = <<"number", x>>
    <3>1. PICK x \in {"0", "1"} : v = <<"number", x>>
      BY <2>2
    <3>2. v \in Numbers
      BY <3>1, ScannedAgain
    <3>3. v[1] = "number"
      BY <3>2, NumberLiteral
    <3> QED BY <3>2, <3>3, TokenSet
  <2> QED BY <2>1, <2>2
<1>2. Text(f, v) = <<v>>
  BY <1>1 DEF Text
<1>3. <<v>> \in Seq(Tokens)
  BY <1>1
<1>4. Returns(<<v>>, v)
  <2> SUFFICES ASSUME NEW at \in ValueDue, NEW inside, NEW value
               PROVE  Parses(State(at, inside, value), <<v>>, Value(State(at, inside, value), v))
    BY DEF Returns
  <2>1. Parse(State(at, inside, value), v) = Value(State(at, inside, value), v)
    <3>1. CASE v \in Strings
      BY <3>1, ParseString
    <3>2. CASE \E x \in {"0", "1"} : v = <<"number", x>>
      <4>1. PICK x \in {"0", "1"} : v = <<"number", x>>
        BY <3>2
      <4>2. v \in Numbers /\ v # Infinite /\ Scanned(x) = x
        BY <4>1, ScannedAgain
      <4>3. v[2] = x
        BY <4>1
      <4>4. Parse(State(at, inside, value), v)
              = Value(State(at, inside, value), <<"number", Scanned(v[2])>>)
        BY <4>2, ParseNumber
      <4> QED BY <4>1, <4>2, <4>3, <4>4
    <3> QED BY <3>1, <3>2
  <2> QED BY <2>1, ParsesOne
<1> QED BY <1>2, <1>3, <1>4

\* Where the parser is before the element, or the member, that follows i of them.
Before(kind, i) == IF i = 0 THEN IF kind = "object" THEN "first key" ELSE "first value"
                   ELSE AfterComma(kind)

\* What these places are.
LEMMA BeforeIs ==
  /\ \A i : Before("array", i) \in ValueDue /\ Before("object", i) \in NameDue
  /\ \A kind : Before(kind, 0) \in MayClose(kind) /\ "next" \in MayClose(kind)
  /\ \A kind, i : i # 0 => Before(kind, i) = AfterComma(kind)
  /\ Before("array", 0) = "first value" /\ Before("object", 0) = "first key"
BY DEF Before, AfterComma, ValueDue, NameDue, MayClose

\* The first n elements, and one more.
LEMMA FirstElements ==
  ASSUME NEW S, NEW e \in Seq(S)
  PROVE  /\ SubSeq(e, 1, 0) = <<>> /\ SubSeq(e, 1, Len(e)) = e
         /\ \A i \in Nat : i < Len(e) => Append(SubSeq(e, 1, i), e[i + 1]) = SubSeq(e, 1, i + 1)
<1>1. SubSeq(e, 1, 0) = <<>>
  OBVIOUS
<1>2. SubSeq(e, 1, Len(e)) = e
  OBVIOUS
<1>3. ASSUME NEW i \in Nat, i < Len(e)
      PROVE  Append(SubSeq(e, 1, i), e[i + 1]) = SubSeq(e, 1, i + 1)
  BY <1>3
<1> QED BY <1>1, <1>2, <1>3

\* The parser after the first n elements of an array.
ElementsState(at, inside, value, e, n) ==
  State(at, Append(inside, Container("array", NoName, SubSeq(e, 1, n))), value)

\* ... and so are an array ...
LEMMA ArrayReturns ==
  ASSUME NEW S, NEW f, Writer(f, S), NEW e \in Seq(S)
  PROVE  Text(f, <<"array", e>>) \in Seq(Tokens) /\ Returns(Text(f, <<"array", e>>), <<"array", e>>)
<1>1. PICK v : v = <<"array", e>>
  OBVIOUS
<1>2. PICK parts : parts = [k \in DOMAIN e |-> f[e[k]]]
  OBVIOUS
<1>3. parts \in Seq(Seq(Tokens)) /\ Len(parts) = Len(e) /\ \A k \in 1 .. Len(e) : parts[k] = f[e[k]]
  <2>1. DOMAIN e = 1 .. Len(e) /\ Len(e) \in Nat
    OBVIOUS
  <2>2. \A k \in 1 .. Len(e) : f[e[k]] \in Seq(Tokens)
    <3>1. \A k \in 1 .. Len(e) : e[k] \in S
      OBVIOUS
    <3> QED BY <3>1 DEF Writer
  <2>3. parts \in [1 .. Len(e) -> Seq(Tokens)]
    BY <1>2, <2>1, <2>2
  <2> QED BY <1>2, <2>1, <2>3
<1>4. PICK kind : kind = "array"
  OBVIOUS
<1>5. PICK w : w = Separated(parts)
  OBVIOUS
<1>6. Text(f, v) = (<<<<Open(kind)>>>> \o w) \o <<<<Close(kind)>>>>
  <2>1. v[1] = "array" /\ v[2] = e
    BY <1>1
  <2>2. Text(f, v) = (<<<<"[">>>> \o Separated([k \in DOMAIN v[2] |-> f[v[2][k]]])) \o <<<<"]">>>>
    BY <2>1 DEF Text
  <2>3. Open(kind) = "[" /\ Close(kind) = "]"
    BY <1>4 DEF Open, Close
  <2> QED BY <1>2, <1>5, <2>1, <2>2, <2>3
<1>7. ASSUME NEW inside, NEW value, IsStack(inside)
      PROVE  \E P, D :
        /\ PartsTaken(parts, P, D)
        /\ \A i \in Nat : P[i] = ElementsState(Before(kind, i), inside, value, e, i)
        /\ \A i \in Nat : D[i] = ElementsState("next", inside, value, e, i)
  <2> DEFINE st(i) == Append(inside, Container(kind, NoName, SubSeq(e, 1, i)))
  <2>1. PICK P, D : /\ P = [i \in Nat |-> State(Before(kind, i), st(i), value)]
                    /\ D = [i \in Nat |-> State("next", st(i), value)]
    OBVIOUS
  <2>2. /\ \A i \in Nat : P[i] = State(Before(kind, i), st(i), value)
        /\ \A i \in Nat : D[i] = State("next", st(i), value)
    BY <2>1
  <2>3. ASSUME NEW i \in Nat, i < Len(parts) PROVE Parses(P[i], parts[i + 1], D[i + 1])
    <3>1. i + 1 \in 1 .. Len(e) /\ i < Len(e) /\ i + 1 \in Nat
      BY <1>3, <2>3
    <3>2. PICK u \in S : u = e[i + 1]
      BY <3>1
    <3>3. Returns(parts[i + 1], u)
      BY <1>3, <3>1, <3>2 DEF Writer
    <3>4. PICK c : c = Container(kind, NoName, SubSeq(e, 1, i))
      OBVIOUS
    <3>5. IsStack(Append(inside, c))
      BY <1>7, StackTop
    <3>6. PICK at : at = Before(kind, i)
      OBVIOUS
    <3>7. at \in ValueDue
      BY <1>4, <3>6, BeforeIs
    <3>8. Parses(State(at, Append(inside, c), value), parts[i + 1],
                 Value(State(at, Append(inside, c), value), u))
      BY <3>3, <3>5, <3>7 DEF Returns
    <3>9. Value(State(at, Append(inside, c), value), u)
            = State("next", Append(inside, Inserted(c, u)), value)
      BY <1>7, ValueInside
    <3>10. Inserted(c, u) = Container(kind, NoName, SubSeq(e, 1, i + 1))
      <4>1. PICK more : more = SubSeq(e, 1, i)
        OBVIOUS
      <4>2. Inserted(c, u) = Container(kind, NoName, Append(more, u))
        BY <1>4, <3>4, <4>1, InsertedElement
      <4>3. Append(more, u) = SubSeq(e, 1, i + 1)
        BY <3>1, <3>2, <4>1, FirstElements
      <4> QED BY <4>2, <4>3
    <3>11. P[i] = State(at, Append(inside, c), value)
           /\ D[i + 1] = State("next", Append(inside, Inserted(c, u)), value)
      BY <2>2, <3>1, <3>4, <3>6, <3>10
    <3> QED BY <3>8, <3>9, <3>11
  <2>4. ASSUME NEW i \in Nat, 0 < i, i < Len(parts) PROVE Parse(D[i], <<",">>) = P[i]
    <3>1. PICK c : c = Container(kind, NoName, SubSeq(e, 1, i))
      OBVIOUS
    <3>2. Last(Append(inside, c)) = c
      BY <1>7, StackTop
    <3>3. Parse(State("next", Append(inside, c), value), <<",">>)
            = State(AfterComma(kind), Append(inside, c), value)
      BY <3>1, <3>2, ParseComma
    <3>4. Before(kind, i) = AfterComma(kind)
      <4>1. i # 0
        BY <2>4
      <4> QED BY <4>1, BeforeIs
    <3> QED BY <2>2, <3>1, <3>3, <3>4
  <2>5. PartsTaken(parts, P, D)
    BY <2>3, <2>4 DEF PartsTaken
  <2> QED BY <1>4, <2>2, <2>5 DEF ElementsState
<1>8. w \in Seq(Tokens)
  <2>1. PICK inside : inside = <<>>
    OBVIOUS
  <2>2. IsStack(inside)
    <3>1. inside \in Seq({})
      BY <2>1
    <3> QED BY <3>1 DEF IsStack
  <2>3. PICK P, D : PartsTaken(parts, P, D)
    BY <1>7, <2>2
  <2> QED BY <1>3, <1>5, <2>3, SeparatedParses
<1>9. ASSUME NEW at \in ValueDue, NEW inside, NEW value, IsStack(inside)
      PROVE  Parses(State(at, inside, value), Text(f, v), Value(State(at, inside, value), v))
  <2>1. PICK P, D :
          /\ PartsTaken(parts, P, D)
          /\ \A i \in Nat : P[i] = ElementsState(Before(kind, i), inside, value, e, i)
          /\ \A i \in Nat : D[i] = ElementsState("next", inside, value, e, i)
    BY <1>7, <1>9
  <2>2. PICK n \in Nat : n = Len(parts)
    <3>1. Len(parts) \in Nat
      BY <1>3
    <3> QED BY <3>1
  <2>3. SubSeq(e, 1, 0) = <<>> /\ SubSeq(e, 1, n) = e
    BY <1>3, <2>2, FirstElements
  <2>4. Parse(State(at, inside, value), <<Open(kind)>>) = P[0]
    <3>1. Open(kind) = "["
      BY <1>4 DEF Open
    <3>2. P[0] = State(Before(kind, 0), Append(inside, Container(kind, NoName, <<>>)), value)
      BY <1>4, <2>1, <2>3 DEF ElementsState
    <3>3. Before(kind, 0) = "first value"
      BY <1>4, BeforeIs
    <3>4. Parse(State(at, inside, value), <<"[">>)
            = State("first value", Append(inside, Container("array", NoName, <<>>)), value)
      BY ParseArray
    <3> QED BY <1>4, <3>1, <3>2, <3>3, <3>4
  <2>5. \E to \in MayClose(kind) :
           Parses(P[0], w, State(to, Append(inside, Container(kind, NoName, e)), value))
    <3>1. CASE n = 0
      <4>1. w = <<>>
        BY <1>3, <1>5, <2>1, <2>2, <3>1, SeparatedParses
      <4>2. Parses(P[0], w, P[0])
        BY <4>1, ParsesNone
      <4>3. P[0] = State(Before(kind, 0), Append(inside, Container(kind, NoName, e)), value)
        BY <1>4, <2>1, <2>3, <3>1 DEF ElementsState
      <4> QED BY <4>2, <4>3, BeforeIs
    <3>2. CASE n # 0
      <4>1. Parses(P[0], w, D[n])
        BY <1>3, <1>5, <2>1, <2>2, <3>2, SeparatedParses
      <4>2. D[n] = State("next", Append(inside, Container(kind, NoName, e)), value)
        BY <1>4, <2>1, <2>3 DEF ElementsState
      <4> QED BY <4>1, <4>2, BeforeIs
    <3> QED BY <3>1, <3>2
  <2>6. PICK to \in MayClose(kind) :
           Parses(P[0], w, State(to, Append(inside, Container(kind, NoName, e)), value))
    BY <2>5
  <2>7. kind \in Kinds
    BY <1>4 DEF Kinds
  <2>8. Parses(State(at, inside, value), (<<<<Open(kind)>>>> \o w) \o <<<<Close(kind)>>>>,
               Value(State(at, inside, value), <<kind, e>>))
    BY <1>8, <1>9, <2>4, <2>6, <2>7, BracketsParse
  <2> QED BY <1>1, <1>4, <1>6, <2>8
<1>10. Text(f, v) \in Seq(Tokens)
  BY <1>6, <1>8, BracketsType
<1> QED BY <1>1, <1>9, <1>10 DEF Returns

\* The members of the object o that have one of the first n of names.
FirstMembers(o, names, n) ==
  [x \in ToSet(Names) |-> IF \E j \in 1 .. n : names[j] = x THEN o[x] ELSE Nothing]

\* emplace adds one to the first n; a name that occurs twice keeps its member.
LEMMA FirstMembersMore ==
  ASSUME NEW o, NEW names \in Seq(ToSet(Names)), NEW n \in Nat, n < Len(names),
         NEW u, u = o[names[n + 1]]
  PROVE  [FirstMembers(o, names, n) EXCEPT ![names[n + 1]] = IF @ = Nothing THEN u ELSE @]
           = FirstMembers(o, names, n + 1)
<1>1. PICK N : N = ToSet(Names)
  OBVIOUS
<1>2. PICK name : name = names[n + 1]
  OBVIOUS
<1>3. PICK a, b : a = FirstMembers(o, names, n) /\ b = FirstMembers(o, names, n + 1)
  OBVIOUS
<1>4. /\ a = [x \in N |-> IF \E j \in 1 .. n : names[j] = x THEN o[x] ELSE Nothing]
      /\ b = [x \in N |-> IF \E j \in 1 .. n + 1 : names[j] = x THEN o[x] ELSE Nothing]
  BY <1>1, <1>3 DEF FirstMembers
<1>5. ASSUME NEW x \in N
      PROVE  (\E j \in 1 .. n + 1 : names[j] = x) <=> (\E j \in 1 .. n : names[j] = x) \/ name = x
  <2>1. \A j \in Nat : j \in 1 .. n + 1 <=> j \in 1 .. n \/ j = n + 1
    OBVIOUS
  <2> QED BY <1>2, <2>1
<1>6. PICK c : c = [a EXCEPT ![name] = IF @ = Nothing THEN u ELSE @]
  OBVIOUS
<1>7. ASSUME NEW x \in N PROVE c[x] = b[x]
  <2>1. c[x] = IF x = name THEN IF a[x] = Nothing THEN u ELSE a[x] ELSE a[x]
    BY <1>4, <1>6
  <2>2. /\ a[x] = IF \E j \in 1 .. n : names[j] = x THEN o[x] ELSE Nothing
        /\ b[x] = IF \E j \in 1 .. n + 1 : names[j] = x THEN o[x] ELSE Nothing
    BY <1>4
  <2>3. CASE x = name
    <3>1. b[x] = u /\ (a[x] = u \/ a[x] = Nothing)
      BY <1>2, <1>5, <2>2, <2>3
    <3> QED BY <2>1, <2>3, <3>1
  <2>4. CASE x # name
    BY <1>5, <2>1, <2>2, <2>4
  <2> QED BY <2>3, <2>4
<1>8. c = [x \in N |-> c[x]] /\ b = [x \in N |-> b[x]]
  BY <1>4, <1>6
<1>9. c = b
  BY <1>7, <1>8
<1> QED BY <1>2, <1>3, <1>6, <1>9

\* At first there are none, at last there are all of them.
LEMMA FirstMembersAll ==
  ASSUME NEW S, NEW o \in [ToSet(Names) -> S \cup {Nothing}], NEW names, names = InOrder(o)
  PROVE  /\ FirstMembers(o, names, 0) = [x \in ToSet(Names) |-> Nothing]
         /\ FirstMembers(o, names, Len(names)) = o
<1>1. PICK N : N = ToSet(Names)
  OBVIOUS
<1>2. \A x \in N : o[x] # Nothing <=> \E j \in 1 .. Len(names) : names[j] = x
  BY <1>1, InOrderNames
<1>3. FirstMembers(o, names, 0) = [x \in N |-> Nothing]
  <2>1. \A x : ~ \E j \in 1 .. 0 : names[j] = x
    OBVIOUS
  <2> QED BY <1>1, <2>1 DEF FirstMembers
<1>4. FirstMembers(o, names, Len(names)) = o
  <2>1. PICK a : a = FirstMembers(o, names, Len(names))
    OBVIOUS
  <2>2. a = [x \in N |-> IF \E j \in 1 .. Len(names) : names[j] = x THEN o[x] ELSE Nothing]
    BY <1>1, <2>1 DEF FirstMembers
  <2>3. \A x \in N : a[x] = o[x]
    BY <1>2, <2>2
  <2>4. o = [x \in N |-> o[x]] /\ a = [x \in N |-> a[x]]
    BY <1>1, <2>2
  <2> QED BY <2>1, <2>3, <2>4
<1> QED BY <1>1, <1>3, <1>4

\* The name the parser has kept after n members.
LastName(names, n) == IF n = 0 THEN NoName ELSE names[n]

\* The parser after the first n members of an object.
MembersState(at, inside, value, o, names, n) ==
  State(at, Append(inside, Container("object", LastName(names, n), FirstMembers(o, names, n))),
        value)

\* ... and an object.
LEMMA ObjectReturns ==
  ASSUME NEW S, NEW f, Writer(f, S), NEW o \in [ToSet(Names) -> S \cup {Nothing}]
  PROVE  /\ Text(f, <<"object", o>>) \in Seq(Tokens)
         /\ Returns(Text(f, <<"object", o>>), <<"object", o>>)
<1>1. PICK v : v = <<"object", o>>
  OBVIOUS
<1>2. PICK names : names = InOrder(o)
  OBVIOUS
<1>3. PICK N : N = ToSet(Names)
  OBVIOUS
<1>4. /\ names \in Seq(N) /\ Len(names) \in Nat
      /\ \A k \in 1 .. Len(names) : names[k] \in N /\ o[names[k]] \in S
  <2>1. names \in Seq(N)
    BY <1>2, <1>3, InOrderNames
  <2>2. ASSUME NEW k \in 1 .. Len(names) PROVE names[k] \in N /\ o[names[k]] \in S
    <3>1. names[k] \in N
      BY <2>1
    <3>2. o[names[k]] # Nothing
      BY <1>2, <1>3, <3>1, InOrderNames
    <3> QED BY <1>3, <3>1, <3>2
  <2> QED BY <2>1, <2>2
<1>5. PICK parts :
        parts = [k \in DOMAIN names |-> <<<<"string", names[k]>>, <<":">>>> \o f[o[names[k]]]]
  OBVIOUS
<1>6. /\ parts \in Seq(Seq(Tokens)) /\ Len(parts) = Len(names)
      /\ \A k \in 1 .. Len(names) : parts[k] = <<<<"string", names[k]>>, <<":">>>> \o f[o[names[k]]]
  <2>1. DOMAIN names = 1 .. Len(names)
    BY <1>4
  <2>2. ASSUME NEW k \in 1 .. Len(names)
        PROVE  <<<<"string", names[k]>>, <<":">>>> \o f[o[names[k]]] \in Seq(Tokens)
    <3>1. PICK x, y, w : x = <<"string", names[k]>> /\ y = <<":">> /\ w = f[o[names[k]]]
      OBVIOUS
    <3>2. x \in Tokens /\ y \in Tokens
      BY <1>3, <1>4, <3>1, TokenSet
    <3>3. w \in Seq(Tokens)
      BY <1>4, <3>1 DEF Writer
    <3>4. <<x, y>> \o w \in Seq(Tokens)
      BY <3>2, <3>3
    <3> QED BY <3>1, <3>4
  <2>3. parts \in [1 .. Len(names) -> Seq(Tokens)]
    BY <1>5, <2>1, <2>2
  <2> QED BY <1>4, <1>5, <2>1, <2>3
<1>7. PICK kind : kind = "object"
  OBVIOUS
<1>8. PICK w : w = Separated(parts)
  OBVIOUS
<1>9. Text(f, v) = (<<<<Open(kind)>>>> \o w) \o <<<<Close(kind)>>>>
  <2>1. v[1] = "object" /\ v[2] = o
    BY <1>1
  <2>2. Text(f, v) = (<<<<"{">>>>
                        \o Separated([k \in DOMAIN InOrder(v[2]) |->
                                        <<<<"string", InOrder(v[2])[k]>>, <<":">>>>
                                          \o f[v[2][InOrder(v[2])[k]]]]))
                       \o <<<<"}">>>>
    BY <2>1 DEF Text
  <2>3. Open(kind) = "{" /\ Close(kind) = "}"
    BY <1>7 DEF Open, Close
  <2> QED BY <1>2, <1>5, <1>8, <2>1, <2>2, <2>3
<1>10. ASSUME NEW inside, NEW value, IsStack(inside)
       PROVE  \E P, D :
         /\ PartsTaken(parts, P, D)
         /\ \A i \in Nat : P[i] = MembersState(Before(kind, i), inside, value, o, names, i)
         /\ \A i \in Nat : D[i] = MembersState("next", inside, value, o, names, i)
  <2> DEFINE st(i) == Append(inside, Container(kind, LastName(names, i), FirstMembers(o, names, i)))
  <2>1. PICK P, D : /\ P = [i \in Nat |-> State(Before(kind, i), st(i), value)]
                    /\ D = [i \in Nat |-> State("next", st(i), value)]
    OBVIOUS
  <2>2. /\ \A i \in Nat : P[i] = State(Before(kind, i), st(i), value)
        /\ \A i \in Nat : D[i] = State("next", st(i), value)
    BY <2>1
  <2>3. ASSUME NEW i \in Nat, i < Len(parts) PROVE Parses(P[i], parts[i + 1], D[i + 1])
    <3>1. i + 1 \in 1 .. Len(names) /\ i < Len(names) /\ i + 1 \in Nat /\ i + 1 # 0
      BY <1>4, <1>6, <2>3
    <3>2. PICK name, u : name = names[i + 1] /\ u = o[names[i + 1]]
      OBVIOUS
    <3>3. name \in ToSet(Names) /\ u \in S
      BY <1>3, <1>4, <3>1, <3>2
    <3>4. PICK t : t = f[u]
      OBVIOUS
    <3>5. t \in Seq(Tokens) /\ Returns(t, u)
      BY <3>3, <3>4 DEF Writer
    <3>6. PICK at, key, content : /\ at = Before(kind, i) /\ key = LastName(names, i)
                                  /\ content = FirstMembers(o, names, i)
      OBVIOUS
    <3>7. at \in NameDue
      BY <1>7, <3>6, BeforeIs
    <3>8. PICK more : more = [content EXCEPT ![name] = IF @ = Nothing THEN u ELSE @]
      OBVIOUS
    <3>9. more = FirstMembers(o, names, i + 1)
      <4>1. more = [FirstMembers(o, names, i) EXCEPT ![names[i + 1]] = IF @ = Nothing THEN u ELSE @]
        BY <3>2, <3>6, <3>8
      <4>2. names \in Seq(ToSet(Names))
        BY <1>3, <1>4
      <4>3. [FirstMembers(o, names, i) EXCEPT ![names[i + 1]] = IF @ = Nothing THEN u ELSE @]
              = FirstMembers(o, names, i + 1)
        BY <3>1, <3>2, <4>2, FirstMembersMore
      <4> QED BY <4>1, <4>3
    <3>14. PICK c : c = Container("object", name, content)
      OBVIOUS
    <3>15. Parses(State("value", Append(inside, c), value), t,
                  Value(State("value", Append(inside, c), value), u))
      <4>1. PICK due : due = "value"
        OBVIOUS
      <4>2. due \in ValueDue
        BY <4>1 DEF ValueDue
      <4>3. IsStack(Append(inside, c))
        BY <1>10, StackTop
      <4>4. Parses(State(due, Append(inside, c), value), t,
                   Value(State(due, Append(inside, c), value), u))
        BY <3>5, <4>2, <4>3 DEF Returns
      <4> QED BY <4>1, <4>4
    <3>10. Parses(State(at, Append(inside, Container("object", key, content)), value),
                  <<<<"string", name>>, <<":">>>> \o t,
                  State("next", Append(inside, Container("object", name, more)), value))
      BY <1>10, <3>3, <3>5, <3>7, <3>8, <3>14, <3>15, MemberParses
    <3>11. parts[i + 1] = <<<<"string", name>>, <<":">>>> \o t
      BY <1>6, <3>1, <3>2, <3>4
    <3>12. LastName(names, i + 1) = name
      BY <3>1, <3>2 DEF LastName
    <3>13. /\ P[i] = State(at, Append(inside, Container("object", key, content)), value)
           /\ D[i + 1] = State("next", Append(inside, Container("object", name, more)), value)
      BY <1>7, <2>2, <3>1, <3>6, <3>9, <3>12
    <3> QED BY <3>10, <3>11, <3>13
  <2>4. ASSUME NEW i \in Nat, 0 < i, i < Len(parts) PROVE Parse(D[i], <<",">>) = P[i]
    <3>1. PICK c : c = Container(kind, LastName(names, i), FirstMembers(o, names, i))
      OBVIOUS
    <3>2. Last(Append(inside, c)) = c
      BY <1>10, StackTop
    <3>3. Parse(State("next", Append(inside, c), value), <<",">>)
            = State(AfterComma(kind), Append(inside, c), value)
      BY <3>1, <3>2, ParseComma
    <3>4. Before(kind, i) = AfterComma(kind)
      <4>1. i # 0
        BY <2>4
      <4> QED BY <4>1, BeforeIs
    <3> QED BY <2>2, <3>1, <3>3, <3>4
  <2>5. PartsTaken(parts, P, D)
    BY <2>3, <2>4 DEF PartsTaken
  <2> QED BY <1>7, <2>2, <2>5 DEF MembersState
<1>11. w \in Seq(Tokens)
  <2>1. PICK inside : inside = <<>>
    OBVIOUS
  <2>2. IsStack(inside)
    <3>1. inside \in Seq({})
      BY <2>1
    <3> QED BY <3>1 DEF IsStack
  <2>3. PICK P, D : PartsTaken(parts, P, D)
    BY <1>10, <2>2
  <2> QED BY <1>6, <1>8, <2>3, SeparatedParses
<1>12. ASSUME NEW at \in ValueDue, NEW inside, NEW value, IsStack(inside)
       PROVE  Parses(State(at, inside, value), Text(f, v), Value(State(at, inside, value), v))
  <2>1. PICK P, D :
          /\ PartsTaken(parts, P, D)
          /\ \A i \in Nat : P[i] = MembersState(Before(kind, i), inside, value, o, names, i)
          /\ \A i \in Nat : D[i] = MembersState("next", inside, value, o, names, i)
    BY <1>10, <1>12
  <2>2. PICK n \in Nat : n = Len(parts)
    BY <1>4, <1>6
  <2>3. /\ FirstMembers(o, names, 0) = [x \in ToSet(Names) |-> Nothing]
        /\ FirstMembers(o, names, n) = o
    BY <1>2, <1>6, <2>2, FirstMembersAll
  <2>4. Parse(State(at, inside, value), <<Open(kind)>>) = P[0]
    <3>1. Open(kind) = "{" /\ LastName(names, 0) = NoName
      BY <1>7 DEF Open, LastName
    <3>2. P[0] = State(Before(kind, 0),
                       Append(inside, Container(kind, NoName, FirstMembers(o, names, 0))), value)
      BY <1>7, <2>1, <3>1 DEF MembersState
    <3>3. Before(kind, 0) = "first key"
      BY <1>7, BeforeIs
    <3>4. Parse(State(at, inside, value), <<"{">>)
            = State("first key",
                    Append(inside, Container("object", NoName, [x \in ToSet(Names) |-> Nothing])),
                    value)
      BY ParseObject
    <3> QED BY <1>7, <2>3, <3>1, <3>2, <3>3, <3>4
  <2>5. \E to \in MayClose(kind) : \E key :
           Parses(P[0], w, State(to, Append(inside, Container(kind, key, o)), value))
    <3>1. CASE n = 0
      <4>1. w = <<>>
        BY <1>6, <1>8, <2>1, <2>2, <3>1, SeparatedParses
      <4>2. Parses(P[0], w, P[0])
        BY <4>1, ParsesNone
      <4>3. P[0] = State(Before(kind, 0), Append(inside, Container(kind, LastName(names, 0), o)), value)
        BY <1>7, <2>1, <2>3, <3>1 DEF MembersState
      <4> QED BY <4>2, <4>3, BeforeIs
    <3>2. CASE n # 0
      <4>1. Parses(P[0], w, D[n])
        BY <1>6, <1>8, <2>1, <2>2, <3>2, SeparatedParses
      <4>2. D[n] = State("next", Append(inside, Container(kind, LastName(names, n), o)), value)
        BY <1>7, <2>1, <2>3 DEF MembersState
      <4> QED BY <4>1, <4>2, BeforeIs
    <3> QED BY <3>1, <3>2
  <2>6. PICK to \in MayClose(kind) : \E key :
           Parses(P[0], w, State(to, Append(inside, Container(kind, key, o)), value))
    BY <2>5
  <2>9. PICK key : Parses(P[0], w, State(to, Append(inside, Container(kind, key, o)), value))
    BY <2>6
  <2>7. kind \in Kinds
    BY <1>7 DEF Kinds
  <2>8. Parses(State(at, inside, value), (<<<<Open(kind)>>>> \o w) \o <<<<Close(kind)>>>>,
               Value(State(at, inside, value), <<kind, o>>))
    BY <1>11, <1>12, <2>4, <2>7, <2>9, BracketsParse
  <2> QED BY <1>1, <1>7, <1>9, <2>8
<1>13. Text(f, v) \in Seq(Tokens)
  BY <1>9, <1>11, BracketsType
<1> QED BY <1>1, <1>12, <1>13 DEF Returns

\* All kinds of values.
LEMMA TextReturns ==
  ASSUME NEW S, NEW f, Writer(f, S), NEW v \in Over(S)
  PROVE  Text(f, v) \in Seq(Tokens) /\ Returns(Text(f, v), v)
<1>1. CASE v \in Strings \/ v \in {"number"} \X {"0", "1"}
  <2>1. v \in Strings \/ \E x \in {"0", "1"} : v = <<"number", x>>
    BY <1>1
  <2> QED BY <2>1, TokenReturns
<1>2. CASE v \in {"array"} \X Seq(S)
  <2>1. PICK e \in Seq(S) : v = <<"array", e>>
    BY <1>2
  <2> QED BY <2>1, ArrayReturns
<1>3. CASE v \in {"object"} \X [ToSet(Names) -> S \cup {Nothing}]
  <2>1. PICK o \in [ToSet(Names) -> S \cup {Nothing}] : v = <<"object", o>>
    BY <1>3
  <2> QED BY <2>1, ObjectReturns
<1> QED BY <1>1, <1>2, <1>3 DEF Over

\* So every value is read as it was written, by induction on its levels.
LEMMA WrittenReturns == ASSUME NEW n \in Nat PROVE Writer(Written[n], Values[n])
<1> DEFINE S == {i \in Nat : Writer(Written[i], Values[i])}
<1>1. 0 \in S
  BY ValuesStep DEF Writer
<1>2. ASSUME NEW i \in Nat, i \in S PROVE i + 1 \in S
  <2>1. PICK V, f : V = Values[i] /\ f = Written[i]
    OBVIOUS
  <2>2. Writer(f, V)
    BY <1>2, <2>1
  <2>3. PICK g : g = [v \in Over(V) |-> Text(f, v)]
    OBVIOUS
  <2>4. Values[i + 1] = Over(V) /\ Written[i + 1] = g
    <3>1. Values[i + 1] = Over(V)
      BY <2>1, ValuesStep
    <3>2. Written[i + 1] = [v \in Values[i + 1] |-> Text(Written[i], v)]
      BY WrittenStep
    <3> QED BY <2>1, <2>3, <3>1, <3>2
  <2>5. ASSUME NEW v \in Over(V) PROVE g[v] \in Seq(Tokens) /\ Returns(g[v], v)
    <3>1. g[v] = Text(f, v)
      BY <2>3
    <3> QED BY <2>2, <3>1, TextReturns
  <2>6. Writer(g, Over(V))
    BY <2>5 DEF Writer
  <2>7. Writer(Written[i + 1], Values[i + 1])
    BY <2>4, <2>6
  <2> QED BY <2>7
<1>3. Nat \subseteq S
  <2> HIDE DEF S
  <2> QED BY <1>1, <1>2, SetInduction
<1> QED BY <1>3

\* The parser of the aggregator gets from what dump writes the value that the provider has
\* parsed: for every value, however many members, elements and levels it has.
THEOREM ValuesForwarded == ValuesSpec => []Forwarded
<1>1. Follow(tokens, parser) => Forwarded
  <2> SUFFICES ASSUME Follow(tokens, parser), parser.at = "done"
               PROVE  LET again == Parsed(Outside,
                                          Append(Written[Len(tokens)][parser.value], <<"end">>))
                      IN again.at = "done" /\ again.value = parser.value
    BY DEF Forwarded
  <2>1. PICK n \in Nat : n = Len(tokens)
    <3>1. Len(tokens) \in Nat
      BY DEF Follow
    <3> QED BY <3>1
  <2>2. IsDone(parser, Values[n])
    BY <2>1, SoundPlace DEF Follow
  <2>3. PICK v \in Values[n] : parser = State("done", <<>>, v)
    BY <2>2 DEF IsDone
  <2>4. parser.value = v
    BY <2>3, StateIs
  <2>5. PICK w : w = Written[n][v]
    OBVIOUS
  <2>6. w \in Seq(Tokens) /\ Returns(w, v)
    BY <2>5, WrittenReturns DEF Writer
  <2>7. PICK inside : inside = <<>>
    OBVIOUS
  <2>8. IsStack(inside)
    <3>1. inside \in Seq({})
      BY <2>7
    <3> QED BY <3>1 DEF IsStack
  <2>9. PICK at : at = "value"
    OBVIOUS
  <2>10. at \in ValueDue
    BY <2>9 DEF ValueDue
  <2>11. Parses(State(at, inside, Nothing), w, Value(State(at, inside, Nothing), v))
    BY <2>6, <2>8, <2>10 DEF Returns
  <2>12. State(at, inside, Nothing) = Outside
    BY <2>7, <2>9 DEF State, Outside
  <2>13. Value(State(at, inside, Nothing), v) = State("end", inside, v)
    BY <2>7, ValueIs
  <2>14. PICK t : t = <<"end">>
    OBVIOUS
  <2>15. t \in Tokens
    BY <2>14, TokenSet
  <2>16. Parse(State("end", inside, v), t) = State("done", inside, v)
    BY <2>14, ParseEnd
  <2>17. Parses(Outside, Append(w, t), State("done", inside, v))
    BY <2>6, <2>11, <2>12, <2>13, <2>15, <2>16, ParsesMore
  <2>18. Append(w, t) \in Seq(Tokens)
    BY <2>6, <2>15
  <2>19. Parsed(Outside, Append(w, t)) = State("done", inside, v)
    BY <2>17, <2>18, ParsedIs
  <2>20. State("done", inside, v).at = "done" /\ State("done", inside, v).value = v
    BY StateIs
  <2> QED BY <2>1, <2>4, <2>5, <2>14, <2>19, <2>20
<1> QED BY <1>1, ValuesFollow, PTL
=============================================================================
