------------------------- MODULE JsonNumbersProofs -------------------------
(***************************************************************************)
(* The number scanner, for every text and whatever the widths of the       *)
(* integer types: its labels and the grammar of RFC 7159, and an integer   *)
(* read, converted, written and read again.                                *)
(*                                                                         *)
(* A label stands for what is still missing of a number: RestAt says of    *)
(* the bytes from p on that they complete what leads to the label.  The    *)
(* label a byte leads to is then the rest after that byte (RestStep), and  *)
(* the first label is the grammar (GrammarAt).                             *)
(***************************************************************************)
EXTENDS JsonNumbers, Utf8Proofs

(* What of a text makes a number of the bytes before it, at each label: the *)
(* bytes from p to its end.                                                 *)

Run(t, a, b) == \A k \in a .. b : t[k] \in Digit

Any2At(t, p) == Run(t, p, Len(t))
SignAt(t, p) == p <= Len(t) /\ Run(t, p, Len(t))
ExponentAt(t, p) == SignAt(t, p) \/ (p <= Len(t) /\ t[p] \in Sign /\ SignAt(t, p + 1))
EndAt(t, p) == p = Len(t) + 1 \/ (p <= Len(t) /\ t[p] \in E /\ ExponentAt(t, p + 1))
Decimal2At(t, p) == \E x \in p - 1 .. Len(t) : Run(t, p, x) /\ EndAt(t, x + 1)
Decimal1At(t, p) == \E x \in p .. Len(t) : Run(t, p, x) /\ EndAt(t, x + 1)
ZeroAt(t, p) == EndAt(t, p) \/ (p <= Len(t) /\ t[p] = Point /\ Decimal1At(t, p + 1))
Any1At(t, p) == \E f \in p - 1 .. Len(t) : Run(t, p, f) /\ ZeroAt(t, f + 1)
IntAt(t, p) ==
  /\ p <= Len(t)
  /\ \/ t[p] = Zero /\ ZeroAt(t, p + 1)
     \/ t[p] \in Digit \ {Zero} /\ Any1At(t, p + 1)
NumberAt(t, p) == IntAt(t, p) \/ (p <= Len(t) /\ t[p] = Minus /\ IntAt(t, p + 1))

RestAt(at, t, p) ==
  CASE at = "init" -> NumberAt(t, p)
    [] at = "minus" -> IntAt(t, p)
    [] at = "zero" -> ZeroAt(t, p)
    [] at = "any1" -> Any1At(t, p)
    [] at = "decimal1" -> Decimal1At(t, p)
    [] at = "decimal2" -> Decimal2At(t, p)
    [] at = "exponent" -> ExponentAt(t, p)
    [] at = "sign" -> SignAt(t, p)
    [] at = "any2" -> Any2At(t, p)

Live == {"init", "minus", "zero", "any1", "decimal1", "decimal2", "exponent", "sign", "any2"}

\* The kinds of bytes are disjoint.
LEMMA Kinds ==
  /\ Zero \in Digit /\ Minus \in Sign /\ Minus \notin Digit /\ Point \notin Digit
  /\ Point \notin Sign /\ Point \notin E /\ Point # Minus /\ Minus \notin E
  /\ \A c : c \in Digit => c \notin E /\ c \notin Sign
  /\ \A c : c \in E => c \notin Sign
BY DEF Zero, Minus, Point, Digit, E, Sign

\* A run of digits from p on begins with one at p.
LEMMA RunStep ==
  ASSUME NEW t, NEW p \in Nat, NEW b \in Nat, p <= b
  PROVE  Run(t, p, b) <=> t[p] \in Digit /\ Run(t, p + 1, b)
BY DEF Run

\* An empty run is one.
LEMMA RunEmpty == ASSUME NEW t, NEW p \in Nat, p > 0 PROVE Run(t, p, p - 1)
BY DEF Run

\* What may follow in an exponent.
LEMMA ExponentSteps ==
  ASSUME NEW t \in Seq(Nat), NEW p \in 1 .. Len(t)
  PROVE  /\ Any2At(t, p) <=> t[p] \in Digit /\ Any2At(t, p + 1)
         /\ SignAt(t, p) <=> t[p] \in Digit /\ Any2At(t, p + 1)
         /\ ExponentAt(t, p) <=> \/ t[p] \in Digit /\ Any2At(t, p + 1)
                                 \/ t[p] \in Sign /\ SignAt(t, p + 1)
         /\ EndAt(t, p) <=> t[p] \in E /\ ExponentAt(t, p + 1)
<1>1. p \in Nat /\ Len(t) \in Nat /\ p <= Len(t) /\ p # Len(t) + 1
  OBVIOUS
<1>2. Any2At(t, p) <=> t[p] \in Digit /\ Any2At(t, p + 1)
  BY <1>1, RunStep DEF Any2At
<1>3. SignAt(t, p) <=> t[p] \in Digit /\ Any2At(t, p + 1)
  BY <1>1, <1>2 DEF SignAt, Any2At
<1> QED BY <1>1, <1>2, <1>3 DEF ExponentAt, EndAt

\* What may follow in a fraction.
LEMMA FractionSteps ==
  ASSUME NEW t \in Seq(Nat), NEW p \in 1 .. Len(t)
  PROVE  /\ Decimal1At(t, p) <=> t[p] \in Digit /\ Decimal2At(t, p + 1)
         /\ Decimal2At(t, p) <=> \/ t[p] \in Digit /\ Decimal2At(t, p + 1)
                                 \/ t[p] \in E /\ ExponentAt(t, p + 1)
<1>1. p \in Nat /\ p > 0 /\ Len(t) \in Nat /\ p <= Len(t) /\ (p + 1) - 1 = p /\ (p - 1) + 1 = p
  OBVIOUS
<1>2. Decimal1At(t, p) <=> t[p] \in Digit /\ Decimal2At(t, p + 1)
  <2>1. ASSUME NEW x \in p .. Len(t)
        PROVE  Run(t, p, x) <=> t[p] \in Digit /\ Run(t, p + 1, x)
    BY <1>1, RunStep
  <2>2. (p + 1) - 1 .. Len(t) = p .. Len(t)
    BY <1>1
  <2> QED BY <2>1, <2>2 DEF Decimal1At, Decimal2At
<1>3. Decimal2At(t, p) <=> Decimal1At(t, p) \/ EndAt(t, p)
  <2>1. p - 1 .. Len(t) = (p .. Len(t)) \cup {p - 1}
    BY <1>1
  <2>2. Run(t, p, p - 1)
    BY <1>1, RunEmpty
  <2> QED BY <1>1, <2>1, <2>2 DEF Decimal1At, Decimal2At
<1> QED BY <1>2, <1>3, ExponentSteps

\* What may follow before that.
LEMMA IntegerSteps ==
  ASSUME NEW t \in Seq(Nat), NEW p \in 1 .. Len(t)
  PROVE  /\ ZeroAt(t, p) <=> \/ t[p] \in E /\ ExponentAt(t, p + 1)
                             \/ t[p] = Point /\ Decimal1At(t, p + 1)
         /\ Any1At(t, p) <=> \/ t[p] \in Digit /\ Any1At(t, p + 1)
                             \/ t[p] \in E /\ ExponentAt(t, p + 1)
                             \/ t[p] = Point /\ Decimal1At(t, p + 1)
         /\ IntAt(t, p) <=> \/ t[p] = Zero /\ ZeroAt(t, p + 1)
                            \/ t[p] \in Digit \ {Zero} /\ Any1At(t, p + 1)
         /\ NumberAt(t, p) <=> \/ t[p] = Zero /\ ZeroAt(t, p + 1)
                               \/ t[p] \in Digit \ {Zero} /\ Any1At(t, p + 1)
                               \/ t[p] = Minus /\ IntAt(t, p + 1)
<1>1. p \in Nat /\ p > 0 /\ Len(t) \in Nat /\ p <= Len(t) /\ (p + 1) - 1 = p /\ (p - 1) + 1 = p
  OBVIOUS
<1>2. ZeroAt(t, p) <=> \/ t[p] \in E /\ ExponentAt(t, p + 1)
                       \/ t[p] = Point /\ Decimal1At(t, p + 1)
  BY <1>1, ExponentSteps DEF ZeroAt
<1>3. Any1At(t, p) <=> (t[p] \in Digit /\ Any1At(t, p + 1)) \/ ZeroAt(t, p)
  <2>1. p - 1 .. Len(t) = ((p + 1) - 1 .. Len(t)) \cup {p - 1}
    BY <1>1
  <2>2. Run(t, p, p - 1)
    BY <1>1, RunEmpty
  <2>3. ASSUME NEW f \in p .. Len(t)
        PROVE  Run(t, p, f) <=> t[p] \in Digit /\ Run(t, p + 1, f)
    BY <1>1, RunStep
  <2> QED BY <1>1, <2>1, <2>2, <2>3 DEF Any1At
<1>4. IntAt(t, p) <=> \/ t[p] = Zero /\ ZeroAt(t, p + 1)
                      \/ t[p] \in Digit \ {Zero} /\ Any1At(t, p + 1)
  BY <1>1 DEF IntAt
<1>5. NumberAt(t, p) <=> IntAt(t, p) \/ (t[p] = Minus /\ IntAt(t, p + 1))
  BY <1>1 DEF NumberAt
<1> QED BY <1>2, <1>3, <1>4, <1>5

\* Where the text ends, the labels at which a number may end are Complete.
LEMMA RestEnds ==
  ASSUME NEW t \in Seq(Nat), NEW at \in Live
  PROVE  RestAt(at, t, Len(t) + 1) <=> at \in Complete
<1> DEFINE p == Len(t) + 1
<1>1. p \in Nat /\ p > 0 /\ ~(p <= Len(t)) /\ Len(t) \in Nat /\ p - 1 = Len(t)
  OBVIOUS
<1>2. Run(t, p, Len(t)) /\ EndAt(t, p) /\ ZeroAt(t, p)
  BY <1>1, RunEmpty DEF EndAt, ZeroAt
<1>3. p .. Len(t) = {} /\ p - 1 .. Len(t) = {Len(t)}
  BY <1>1
<1>4. ~SignAt(t, p) /\ ~ExponentAt(t, p) /\ ~Decimal1At(t, p) /\ ~IntAt(t, p) /\ ~NumberAt(t, p)
  BY <1>1, <1>3 DEF SignAt, ExponentAt, Decimal1At, IntAt, NumberAt
<1>5. Any2At(t, p) /\ Decimal2At(t, p) /\ Any1At(t, p)
  BY <1>2, <1>3 DEF Any2At, Decimal2At, Any1At
<1> HIDE DEF p
<1>6. RestAt(at, t, p) <=> at \in Complete
  BY <1>2, <1>4, <1>5 DEF RestAt, Live, Complete
<1> QED BY <1>6 DEF p

\* Each label leads to the one of the rest, and to none if there is no rest.
LEMMA RestStep ==
  ASSUME NEW t \in Seq(Nat), NEW p \in 1 .. Len(t), NEW at \in Live
  PROVE  RestAt(at, t, p) <=> /\ Label(at, t[p]) \in Live
                              /\ RestAt(Label(at, t[p]), t, p + 1)
<1> DEFINE c == t[p]
           q == p + 1
<1>1. CASE at = "init"
  <2>1. Label(at, c) = CASE c = Minus -> "minus" [] c = Zero -> "zero"
                         [] c \in Digit \ {Zero} -> "any1" [] OTHER -> "error"
    BY <1>1, Kinds DEF Label, Complete
  <2>2. NumberAt(t, p) <=> \/ c = Zero /\ ZeroAt(t, q)
                           \/ c \in Digit \ {Zero} /\ Any1At(t, q)
                           \/ c = Minus /\ IntAt(t, q)
    BY IntegerSteps
  <2> HIDE DEF c, q
  <2>3. RestAt(at, t, p) <=> Label(at, c) \in Live /\ RestAt(Label(at, c), t, q)
    BY <1>1, <2>1, <2>2, Kinds DEF RestAt, Live
  <2> QED BY <2>3 DEF c, q
<1>2. CASE at = "minus"
  <2>1. Label(at, c) = CASE c = Zero -> "zero"
                         [] c \in Digit \ {Zero} -> "any1" [] OTHER -> "error"
    BY <1>2, Kinds DEF Label, Complete
  <2>2. IntAt(t, p) <=> \/ c = Zero /\ ZeroAt(t, q)
                        \/ c \in Digit \ {Zero} /\ Any1At(t, q)
    BY IntegerSteps
  <2> HIDE DEF c, q
  <2>3. RestAt(at, t, p) <=> Label(at, c) \in Live /\ RestAt(Label(at, c), t, q)
    BY <1>2, <2>1, <2>2, Kinds DEF RestAt, Live
  <2> QED BY <2>3 DEF c, q
<1>3. CASE at = "zero"
  <2>1. Label(at, c) = CASE c = Point -> "decimal1" [] c \in E -> "exponent" [] OTHER -> "done"
    BY <1>3, Kinds DEF Label, Complete
  <2>2. ZeroAt(t, p) <=> \/ c \in E /\ ExponentAt(t, q)
                         \/ c = Point /\ Decimal1At(t, q)
    BY IntegerSteps
  <2> HIDE DEF c, q
  <2>3. RestAt(at, t, p) <=> Label(at, c) \in Live /\ RestAt(Label(at, c), t, q)
    BY <1>3, <2>1, <2>2, Kinds DEF RestAt, Live
  <2> QED BY <2>3 DEF c, q
<1>4. CASE at = "any1"
  <2>1. Label(at, c) = CASE c \in Digit -> "any1" [] c = Point -> "decimal1"
                         [] c \in E -> "exponent" [] OTHER -> "done"
    BY <1>4, Kinds DEF Label, Complete
  <2>2. Any1At(t, p) <=> \/ c \in Digit /\ Any1At(t, q)
                         \/ c \in E /\ ExponentAt(t, q)
                         \/ c = Point /\ Decimal1At(t, q)
    BY IntegerSteps
  <2> HIDE DEF c, q
  <2>3. RestAt(at, t, p) <=> Label(at, c) \in Live /\ RestAt(Label(at, c), t, q)
    BY <1>4, <2>1, <2>2, Kinds DEF RestAt, Live
  <2> QED BY <2>3 DEF c, q
<1>5. CASE at = "decimal1"
  <2>1. Label(at, c) = IF c \in Digit THEN "decimal2" ELSE "error"
    BY <1>5, Kinds DEF Label, Complete
  <2>2. Decimal1At(t, p) <=> c \in Digit /\ Decimal2At(t, q)
    BY FractionSteps
  <2> HIDE DEF c, q
  <2>3. RestAt(at, t, p) <=> Label(at, c) \in Live /\ RestAt(Label(at, c), t, q)
    BY <1>5, <2>1, <2>2 DEF RestAt, Live
  <2> QED BY <2>3 DEF c, q
<1>6. CASE at = "decimal2"
  <2>1. Label(at, c) = CASE c \in Digit -> "decimal2" [] c \in E -> "exponent" [] OTHER -> "done"
    BY <1>6, Kinds DEF Label, Complete
  <2>2. Decimal2At(t, p) <=> \/ c \in Digit /\ Decimal2At(t, q)
                             \/ c \in E /\ ExponentAt(t, q)
    BY FractionSteps
  <2> HIDE DEF c, q
  <2>3. RestAt(at, t, p) <=> Label(at, c) \in Live /\ RestAt(Label(at, c), t, q)
    BY <1>6, <2>1, <2>2, Kinds DEF RestAt, Live
  <2> QED BY <2>3 DEF c, q
<1>7. CASE at = "exponent"
  <2>1. Label(at, c) = CASE c \in Sign -> "sign" [] c \in Digit -> "any2" [] OTHER -> "error"
    BY <1>7, Kinds DEF Label, Complete
  <2>2. ExponentAt(t, p) <=> \/ c \in Digit /\ Any2At(t, q)
                             \/ c \in Sign /\ SignAt(t, q)
    BY ExponentSteps
  <2> HIDE DEF c, q
  <2>3. RestAt(at, t, p) <=> Label(at, c) \in Live /\ RestAt(Label(at, c), t, q)
    BY <1>7, <2>1, <2>2, Kinds DEF RestAt, Live
  <2> QED BY <2>3 DEF c, q
<1>8. CASE at = "sign"
  <2>1. Label(at, c) = IF c \in Digit THEN "any2" ELSE "error"
    BY <1>8, Kinds DEF Label, Complete
  <2>2. SignAt(t, p) <=> c \in Digit /\ Any2At(t, q)
    BY ExponentSteps
  <2> HIDE DEF c, q
  <2>3. RestAt(at, t, p) <=> Label(at, c) \in Live /\ RestAt(Label(at, c), t, q)
    BY <1>8, <2>1, <2>2 DEF RestAt, Live
  <2> QED BY <2>3 DEF c, q
<1>9. CASE at = "any2"
  <2>1. Label(at, c) = IF c \in Digit THEN "any2" ELSE "done"
    BY <1>9, Kinds DEF Label, Complete
  <2>2. Any2At(t, p) <=> c \in Digit /\ Any2At(t, q)
    BY ExponentSteps
  <2> HIDE DEF c, q
  <2>3. RestAt(at, t, p) <=> Label(at, c) \in Live /\ RestAt(Label(at, c), t, q)
    BY <1>9, <2>1, <2>2 DEF RestAt, Live
  <2> QED BY <2>3 DEF c, q
<1> QED BY <1>1, <1>2, <1>3, <1>4, <1>5, <1>6, <1>7, <1>8, <1>9 DEF Live
-----------------------------------------------------------------------------
(* The grammar, part by part. *)

Nothing(r) == r = <<>>

\* r is what s has from a to b.
IsPart(r, s, a, b) == r = SubSeq(s, a, b)

\* A part of a text.
LEMMA Part ==
  ASSUME NEW s \in Seq(Nat), NEW a \in Nat, a > 0, NEW b \in Nat, a <= b + 1, b <= Len(s),
         NEW r, IsPart(r, s, a, b)
  PROVE  /\ r \in Seq(Nat) /\ Len(r) = b + 1 - a
         /\ Nothing(r) <=> b < a
         /\ \A k \in 1 .. b + 1 - a : r[k] = s[a - 1 + k]
         /\ b >= a => Head(r) = s[a] /\ IsPart(Tail(r), s, a + 1, b)
         /\ ToSet(r) \subseteq Digit <=> Run(s, a, b)
<1>1. r \in Seq(Nat) /\ Len(r) = b + 1 - a /\ \A k \in 1 .. b + 1 - a : r[k] = s[a - 1 + k]
  <2> DEFINE q == SubSeq(s, a, b)
  <2>1. q \in Seq(Nat) /\ Len(q) = b + 1 - a /\ \A k \in 1 .. b + 1 - a : q[k] = s[a - 1 + k]
    <3>1. \A k \in a .. b : s[k] \in Nat
      OBVIOUS
    <3> QED BY <3>1, SubSeqProperties
  <2>2. r = q
    BY DEF IsPart
  <2> HIDE DEF q
  <2> QED BY <2>1, <2>2
<1>2. Nothing(r) <=> b < a
  <2>1. r # <<>> => b + 1 - a > 0
    <3>1. r # <<>> => Len(r) \in Nat \ {0}
      BY <1>1, EmptySeq
    <3> QED BY <1>1, <3>1
  <2>2. r = <<>> => b + 1 - a = 0
    <3>1. Len(<<>>) = 0
      BY EmptySeq
    <3> QED BY <1>1, <3>1
  <2> QED BY <2>1, <2>2 DEF Nothing
<1>3. b >= a => Head(r) = s[a]
  <2> SUFFICES ASSUME b >= a PROVE Head(r) = s[a]
    OBVIOUS
  <2>1. Head(r) = r[1]
    BY <1>1, <1>2 DEF Nothing
  <2>2. 1 \in 1 .. b + 1 - a /\ a - 1 + 1 = a
    OBVIOUS
  <2> QED BY <1>1, <2>1, <2>2
<1>4. b >= a => IsPart(Tail(r), s, a + 1, b)
  <2> SUFFICES ASSUME b >= a PROVE Tail(r) = SubSeq(s, a + 1, b)
    BY DEF IsPart
  <2> DEFINE q == SubSeq(s, a + 1, b)
  <2>1. q \in Seq(Nat) /\ Len(q) = b - a /\ \A k \in 1 .. b - a : q[k] = s[a + k]
    <3>1. \A k \in a + 1 .. b : s[k] \in Nat
      OBVIOUS
    <3> QED BY <3>1, SubSeqProperties
  <2> HIDE DEF q
  <2>2. r # <<>>
    BY <1>2 DEF Nothing
  <2>3. PICK x : x = Tail(r)
    OBVIOUS
  <2>4. x \in Seq(Nat) /\ Len(x) = Len(r) - 1 /\ \A i \in 1 .. Len(r) - 1 : x[i] = r[i + 1]
    BY <1>1, <2>2, <2>3, HeadTailProperties
  <2>5. ASSUME NEW i \in 1 .. b - a PROVE x[i] = q[i]
    <3>1. i \in 1 .. Len(r) - 1 /\ i + 1 \in 1 .. b + 1 - a /\ a - 1 + (i + 1) = a + i
      BY <1>1
    <3>2. x[i] = r[i + 1] /\ r[i + 1] = s[a - 1 + (i + 1)] /\ q[i] = s[a + i]
      BY <1>1, <2>1, <2>4, <3>1
    <3> QED BY <3>1, <3>2
  <2>6. Len(x) = Len(q) /\ \A i \in 1 .. Len(x) : x[i] = q[i]
    BY <1>1, <2>1, <2>4, <2>5
  <2>7. x = q
    BY <2>1, <2>4, <2>6, SeqEqual
  <2> QED BY <2>3, <2>7 DEF q
<1>5. ToSet(r) \subseteq Digit <=> Run(s, a, b)
  <2>1. DOMAIN r = 1 .. b + 1 - a
    BY <1>1
  <2>2. ASSUME \A k \in a .. b : s[k] \in Digit, NEW k \in 1 .. b + 1 - a PROVE r[k] \in Digit
    <3>1. a - 1 + k \in a .. b
      OBVIOUS
    <3> QED BY <1>1, <2>2, <3>1
  <2>3. ASSUME \A k \in 1 .. b + 1 - a : r[k] \in Digit, NEW k \in a .. b PROVE s[k] \in Digit
    <3>1. k - a + 1 \in 1 .. b + 1 - a /\ a - 1 + (k - a + 1) = k
      OBVIOUS
    <3> QED BY <1>1, <2>3, <3>1
  <2> QED BY <2>1, <2>2, <2>3 DEF ToSet, Run
<1> QED BY <1>1, <1>2, <1>3, <1>4, <1>5

\* Digits, and at least one.
AllDigits(r) == ~Nothing(r) /\ ToSet(r) \subseteq Digit

\* The digits of a part are a run of the text.
LEMMA DigitsPart ==
  ASSUME NEW s \in Seq(Nat), NEW a \in Nat, a > 0, NEW b \in Nat, a <= b + 1, b <= Len(s),
         NEW r, IsPart(r, s, a, b)
  PROVE  AllDigits(r) <=> a <= b /\ Run(s, a, b)
<1>1. (Nothing(r) <=> b < a) /\ (ToSet(r) \subseteq Digit <=> Run(s, a, b))
  BY Part
<1> QED BY <1>1 DEF AllDigits

\* The sign of the number.
LEMMA MinusPart ==
  ASSUME NEW s \in Seq(Nat), NEW i \in 0 .. Len(s), NEW r, IsPart(r, s, 1, i)
  PROVE  Nothing(r) \/ r = <<Minus>> <=> i = 0 \/ (i = 1 /\ s[1] = Minus)
<1>1. PICK one : one = 1
  OBVIOUS
<1>2. one \in Nat /\ one > 0 /\ i \in Nat /\ one <= i + 1 /\ i <= Len(s) /\ IsPart(r, s, one, i)
  BY <1>1
<1>3. /\ r \in Seq(Nat) /\ Len(r) = i + 1 - one /\ (Nothing(r) <=> i < one)
      /\ \A k \in 1 .. i + 1 - one : r[k] = s[one - 1 + k]
  BY <1>2, Part
<1>4. Len(r) = i /\ (Nothing(r) <=> i < 1) /\ \A k \in 1 .. i : r[k] = s[k]
  <2>1. i + 1 - one = i /\ (i < one <=> i < 1)
    BY <1>1, <1>2
  <2>2. \A k \in 1 .. i : one - 1 + k = k
    BY <1>1
  <2> QED BY <1>3, <2>1, <2>2
<1>5. PICK m : m = <<Minus>>
  OBVIOUS
<1>6. m \in Seq(Nat) /\ Len(m) = 1 /\ m[1] = Minus
  BY <1>5 DEF Minus
<1>7. ASSUME i = 1, s[1] = Minus PROVE r = m
  <2>1. Len(r) = Len(m) /\ \A k \in 1 .. Len(r) : r[k] = m[k]
    BY <1>4, <1>6, <1>7
  <2> QED BY <1>3, <1>6, <2>1, SeqEqual
<1>8. ASSUME r = m PROVE i = 1 /\ s[1] = Minus
  <2>1. Len(r) = 1 /\ r[1] = Minus
    BY <1>6, <1>8
  <2>2. i = 1
    BY <1>4, <2>1
  <2>3. 1 \in 1 .. i
    BY <2>2
  <2> QED BY <1>4, <2>1, <2>2, <2>3
<1> QED BY <1>2, <1>4, <1>5, <1>7, <1>8

\* The digits before the point.
LEMMA IntPart ==
  ASSUME NEW s \in Seq(Nat), NEW i \in 0 .. Len(s), NEW f \in 0 .. Len(s), i <= f,
         NEW r, IsPart(r, s, i + 1, f)
  PROVE  AllDigits(r) /\ (Len(r) > 1 => Head(r) # Zero)
           <=> i + 1 <= f /\ Run(s, i + 1, f) /\ (i + 1 < f => s[i + 1] # Zero)
<1>1. PICK a : a = i + 1
  OBVIOUS
<1>2. /\ a \in Nat /\ a > 0 /\ f \in Nat /\ a <= f + 1 /\ f <= Len(s) /\ IsPart(r, s, a, f)
  BY <1>1
<1>3. Len(r) = f + 1 - a /\ (f >= a => Head(r) = s[a])
  BY <1>2, Part
<1>4. AllDigits(r) <=> a <= f /\ Run(s, a, f)
  BY <1>2, DigitsPart
<1>5. Len(r) > 1 <=> a < f
  BY <1>2, <1>3
<1>6. AllDigits(r) /\ (Len(r) > 1 => Head(r) # Zero)
        <=> a <= f /\ Run(s, a, f) /\ (a < f => s[a] # Zero)
  BY <1>2, <1>3, <1>4, <1>5
<1> QED BY <1>1, <1>6

\* The point and the digits behind it.
LEMMA FracPart ==
  ASSUME NEW s \in Seq(Nat), NEW f \in 0 .. Len(s), NEW x \in 0 .. Len(s), f <= x,
         NEW r, IsPart(r, s, f + 1, x)
  PROVE  Nothing(r) \/ (Head(r) = Point /\ AllDigits(Tail(r)))
           <=> f = x \/ (f + 2 <= x /\ s[f + 1] = Point /\ Run(s, f + 2, x))
<1>1. PICK a, b : a = f + 1 /\ b = f + 2
  OBVIOUS
<1>2. /\ a \in Nat /\ a > 0 /\ x \in Nat /\ a <= x + 1 /\ x <= Len(s) /\ IsPart(r, s, a, x)
      /\ b \in Nat /\ b > 0 /\ b = a + 1 /\ f \in Nat
  BY <1>1
<1>3. /\ Nothing(r) <=> x < a
      /\ x >= a => Head(r) = s[a] /\ IsPart(Tail(r), s, b, x)
  BY <1>2, Part
<1>4. x >= a => (AllDigits(Tail(r)) <=> b <= x /\ Run(s, b, x))
  <2> SUFFICES ASSUME x >= a PROVE AllDigits(Tail(r)) <=> b <= x /\ Run(s, b, x)
    OBVIOUS
  <2>1. PICK y : y = Tail(r)
    OBVIOUS
  <2>2. IsPart(y, s, b, x) /\ b <= x + 1
    BY <1>2, <1>3, <2>1
  <2>3. AllDigits(y) <=> b <= x /\ Run(s, b, x)
    BY <1>2, <2>2, DigitsPart
  <2> QED BY <2>1, <2>3
<1>5. x < a <=> f = x
  BY <1>1, <1>2
<1>6. x < a \/ x >= a
  BY <1>2
<1>7. b <= x => x >= a
  BY <1>2
<1>8. Nothing(r) \/ (Head(r) = Point /\ AllDigits(Tail(r)))
        <=> f = x \/ (b <= x /\ s[a] = Point /\ Run(s, b, x))
  BY <1>3, <1>4, <1>5, <1>6, <1>7
<1> QED BY <1>1, <1>8

\* The exponent.
LEMMA ExpPart ==
  ASSUME NEW s \in Seq(Nat), NEW x \in 0 .. Len(s), NEW r, IsPart(r, s, x + 1, Len(s))
  PROVE  Nothing(r) \/ ( /\ Head(r) \in E
                         /\ \/ AllDigits(Tail(r))
                            \/ Len(r) > 1 /\ r[2] \in Sign /\ AllDigits(Tail(Tail(r))))
           <=> EndAt(s, x + 1)
<1>1. PICK n, a, b, c : n = Len(s) /\ a = x + 1 /\ b = a + 1 /\ c = b + 1
  OBVIOUS
<1>2. /\ n \in Nat /\ x \in Nat /\ x <= n /\ a \in Nat /\ a > 0 /\ a <= n + 1 /\ n <= Len(s)
      /\ b \in Nat /\ b > 0 /\ c \in Nat /\ c > 0 /\ IsPart(r, s, a, n)
  BY <1>1
<1>3. /\ Len(r) = n + 1 - a /\ (Nothing(r) <=> n < a)
      /\ n >= a => Head(r) = s[a] /\ IsPart(Tail(r), s, b, n)
      /\ \A k \in 1 .. n + 1 - a : r[k] = s[a - 1 + k]
  <2>1. /\ Len(r) = n + 1 - a /\ (Nothing(r) <=> n < a)
        /\ n >= a => Head(r) = s[a] /\ IsPart(Tail(r), s, a + 1, n)
        /\ \A k \in 1 .. n + 1 - a : r[k] = s[a - 1 + k]
    BY <1>2, Part
  <2> QED BY <1>1, <2>1
<1>4. CASE n < a
  <2>1. Nothing(r) /\ EndAt(s, a)
    BY <1>1, <1>2, <1>3, <1>4 DEF EndAt
  <2> QED BY <1>1, <2>1
<1>5. CASE n >= a
  <2>1. PICK y : y = Tail(r)
    OBVIOUS
  <2>2. ~Nothing(r) /\ Head(r) = s[a] /\ IsPart(y, s, b, n) /\ b <= n + 1
    BY <1>1, <1>2, <1>3, <1>5, <2>1
  <2>3. AllDigits(y) <=> SignAt(s, b)
    <3>1. AllDigits(y) <=> b <= n /\ Run(s, b, n)
      BY <1>2, <2>2, DigitsPart
    <3> QED BY <1>1, <3>1 DEF SignAt
  <2>4. Len(r) > 1 <=> b <= n
    BY <1>1, <1>2, <1>3
  <2>5. ASSUME b <= n
        PROVE  r[2] = s[b] /\ (AllDigits(Tail(y)) <=> SignAt(s, c))
    <3>1. 2 \in 1 .. n + 1 - a /\ a - 1 + 2 = b
      BY <1>1, <1>2, <2>5
    <3>2. r[2] = s[b]
      BY <1>3, <3>1
    <3>3. IsPart(Tail(y), s, c, n)
      BY <1>1, <1>2, <2>2, <2>5, Part
    <3>4. PICK z : z = Tail(y)
      OBVIOUS
    <3>5. IsPart(z, s, c, n) /\ c <= n + 1
      BY <1>1, <1>2, <2>5, <3>3, <3>4
    <3>6. AllDigits(z) <=> c <= n /\ Run(s, c, n)
      BY <1>2, <3>5, DigitsPart
    <3> QED BY <1>1, <3>2, <3>4, <3>6 DEF SignAt
  <2>6. EndAt(s, a) <=> s[a] \in E /\ ExponentAt(s, b)
    BY <1>1, <1>2, <1>5 DEF EndAt
  <2>7. ExponentAt(s, b) <=> SignAt(s, b) \/ (b <= n /\ s[b] \in Sign /\ SignAt(s, c))
    BY <1>1 DEF ExponentAt
  <2> QED BY <1>1, <2>1, <2>2, <2>3, <2>4, <2>5, <2>6, <2>7
<1> QED BY <1>2, <1>4, <1>5

\* Where each part of a number ends.
PartsAt(s, i, f, x) ==
  /\ i = 0 \/ (i = 1 /\ s[1] = Minus)
  /\ i + 1 <= f /\ Run(s, i + 1, f) /\ (i + 1 < f => s[i + 1] # Zero)
  /\ f = x \/ (f + 2 <= x /\ s[f + 1] = Point /\ Run(s, f + 2, x))
  /\ EndAt(s, x + 1)

\* The grammar by these places.
LEMMA IsNumberParts ==
  ASSUME NEW s \in Seq(Nat)
  PROVE  IsNumber(s) <=> \E i, f, x \in 0 .. Len(s) : i <= f /\ f <= x /\ PartsAt(s, i, f, x)
<1> DEFINE First(i) == SubSeq(s, 1, i)
           Mid(i, f) == SubSeq(s, i + 1, f)
           Exp(x) == SubSeq(s, x + 1, Len(s))
           Fits(i, f, x) ==
      /\ Nothing(First(i)) \/ First(i) = <<Minus>>
      /\ AllDigits(Mid(i, f)) /\ (Len(Mid(i, f)) > 1 => Head(Mid(i, f)) # Zero)
      /\ Nothing(Mid(f, x)) \/ (Head(Mid(f, x)) = Point /\ AllDigits(Tail(Mid(f, x))))
      /\ Nothing(Exp(x)) \/ ( /\ Head(Exp(x)) \in E
                              /\ \/ AllDigits(Tail(Exp(x)))
                                 \/ /\ Len(Exp(x)) > 1 /\ Exp(x)[2] \in Sign
                                    /\ AllDigits(Tail(Tail(Exp(x)))))
<1>1. IsNumber(s) <=> \E i, f, x \in 0 .. Len(s) : i <= f /\ f <= x /\ Fits(i, f, x)
  <2> DEFINE All(r) == r # <<>> /\ ToSet(r) \subseteq Digit
             Says(i, f, x) ==
        /\ i <= f /\ f <= x
        /\ First(i) \in {<<>>, <<Minus>>}
        /\ All(Mid(i, f)) /\ (Len(Mid(i, f)) > 1 => Head(Mid(i, f)) # Zero)
        /\ Mid(f, x) = <<>> \/ (Head(Mid(f, x)) = Point /\ All(Tail(Mid(f, x))))
        /\ Exp(x) = <<>> \/ ( /\ Head(Exp(x)) \in E
                              /\ \/ All(Tail(Exp(x)))
                                 \/ Len(Exp(x)) > 1 /\ Exp(x)[2] \in Sign /\ All(Tail(Tail(Exp(x)))))
  <2>1. IsNumber(s) <=> \E i, f, x \in 0 .. Len(s) : Says(i, f, x)
    BY Zenon DEF IsNumber
  <2>2. ASSUME NEW i, NEW f, NEW x PROVE Says(i, f, x) <=> i <= f /\ f <= x /\ Fits(i, f, x)
    <3> HIDE DEF First, Mid, Exp
    <3>1. First(i) \in {<<>>, <<Minus>>} <=> First(i) = <<>> \/ First(i) = <<Minus>>
      OBVIOUS
    <3> QED BY <3>1, Zenon DEF AllDigits, Nothing
  <2> HIDE DEF Says, Fits
  <2> QED BY <2>1, <2>2
<1>2. ASSUME NEW i \in 0 .. Len(s), NEW f \in 0 .. Len(s), NEW x \in 0 .. Len(s), i <= f, f <= x
      PROVE  Fits(i, f, x) <=> PartsAt(s, i, f, x)
  <2>1. IsPart(First(i), s, 1, i) /\ IsPart(Mid(i, f), s, i + 1, f) /\ IsPart(Mid(f, x), s, f + 1, x)
        /\ IsPart(Exp(x), s, x + 1, Len(s))
    BY DEF IsPart
  <2> HIDE DEF First, Mid, Exp
  <2>2. Nothing(First(i)) \/ First(i) = <<Minus>> <=> i = 0 \/ (i = 1 /\ s[1] = Minus)
    BY <2>1, MinusPart
  <2>3. AllDigits(Mid(i, f)) /\ (Len(Mid(i, f)) > 1 => Head(Mid(i, f)) # Zero)
          <=> i + 1 <= f /\ Run(s, i + 1, f) /\ (i + 1 < f => s[i + 1] # Zero)
    BY <1>2, <2>1, IntPart
  <2>4. Nothing(Mid(f, x)) \/ (Head(Mid(f, x)) = Point /\ AllDigits(Tail(Mid(f, x))))
          <=> f = x \/ (f + 2 <= x /\ s[f + 1] = Point /\ Run(s, f + 2, x))
    BY <1>2, <2>1, FracPart
  <2>5. Nothing(Exp(x)) \/ ( /\ Head(Exp(x)) \in E
                             /\ \/ AllDigits(Tail(Exp(x)))
                                \/ /\ Len(Exp(x)) > 1 /\ Exp(x)[2] \in Sign
                                   /\ AllDigits(Tail(Tail(Exp(x)))))
          <=> EndAt(s, x + 1)
    BY <2>1, ExpPart
  <2> QED BY <2>2, <2>3, <2>4, <2>5, Zenon DEF PartsAt
<1> HIDE DEF Fits
<1> QED BY <1>1, <1>2

\* A point or not, and where the exponent begins.
LEMMA ZeroAtParts ==
  ASSUME NEW s \in Seq(Nat), NEW f \in 0 .. Len(s)
  PROVE  ZeroAt(s, f + 1) <=>
           \E x \in 0 .. Len(s) : /\ f <= x
                                  /\ f = x \/ (f + 2 <= x /\ s[f + 1] = Point /\ Run(s, f + 2, x))
                                  /\ EndAt(s, x + 1)
<1>1. PICK n, a, b : n = Len(s) /\ a = f + 1 /\ b = f + 2
  OBVIOUS
<1>2. n \in Nat /\ f \in Nat /\ f <= n /\ a \in Nat /\ b \in Nat /\ a + 1 = b
  BY <1>1
<1>3. ASSUME ZeroAt(s, a)
      PROVE  \E x \in 0 .. n : /\ f <= x
                               /\ f = x \/ (b <= x /\ s[a] = Point /\ Run(s, b, x))
                               /\ EndAt(s, x + 1)
  <2>1. CASE EndAt(s, a)
    <3>1. f \in 0 .. n /\ f <= f /\ EndAt(s, f + 1)
      BY <1>1, <1>2, <2>1
    <3> QED BY <3>1
  <2>2. CASE a <= n /\ s[a] = Point /\ Decimal1At(s, b)
    <3>1. PICK x \in b .. n : Run(s, b, x) /\ EndAt(s, x + 1)
      BY <1>1, <2>2 DEF Decimal1At
    <3>2. x \in 0 .. n /\ f <= x /\ b <= x
      BY <1>1, <1>2, <3>1
    <3> QED BY <2>2, <3>1, <3>2
  <2> QED BY <1>1, <1>2, <1>3, <2>1, <2>2 DEF ZeroAt
<1>4. ASSUME NEW x \in 0 .. n, f <= x, EndAt(s, x + 1),
             f = x \/ (b <= x /\ s[a] = Point /\ Run(s, b, x))
      PROVE  ZeroAt(s, a)
  <2>1. CASE f = x
    BY <1>1, <1>4, <2>1 DEF ZeroAt
  <2>2. CASE b <= x /\ s[a] = Point /\ Run(s, b, x)
    <3>1. x \in b .. n /\ a <= n
      BY <1>1, <1>2, <2>2
    <3>2. Decimal1At(s, b)
      BY <1>1, <1>4, <2>2, <3>1 DEF Decimal1At
    <3> QED BY <1>1, <1>2, <2>2, <3>1, <3>2 DEF ZeroAt
  <2> QED BY <1>4, <2>1, <2>2
<1> QED BY <1>1, <1>3, <1>4

\* The digits before the point: a zero on its own, or as many as there are.
LEMMA IntAtParts ==
  ASSUME NEW s \in Seq(Nat), NEW p \in Nat, p > 0
  PROVE  IntAt(s, p) <=>
           \E f \in 0 .. Len(s) : /\ p <= f /\ Run(s, p, f) /\ (p < f => s[p] # Zero)
                                  /\ ZeroAt(s, f + 1)
<1>1. PICK n, q : n = Len(s) /\ q = p + 1
  OBVIOUS
<1>2. n \in Nat /\ q \in Nat /\ q - 1 = p
  BY <1>1
<1>3. ASSUME NEW f \in Nat, p <= f PROVE Run(s, p, f) <=> s[p] \in Digit /\ Run(s, q, f)
  BY <1>1, <1>3, RunStep
<1>4. Run(s, q, p)
  BY <1>1, <1>2 DEF Run
<1>5. ASSUME IntAt(s, p)
      PROVE  \E f \in 0 .. n : /\ p <= f /\ Run(s, p, f) /\ (p < f => s[p] # Zero)
                               /\ ZeroAt(s, f + 1)
  <2>1. CASE p <= n /\ s[p] = Zero /\ ZeroAt(s, q)
    <3>1. Run(s, p, p)
      BY <1>3, <1>4, <2>1, Kinds
    <3> QED BY <1>1, <1>2, <2>1, <3>1
  <2>2. CASE p <= n /\ s[p] \in Digit \ {Zero} /\ Any1At(s, q)
    <3>1. PICK f \in q - 1 .. n : Run(s, q, f) /\ ZeroAt(s, f + 1)
      BY <1>1, <2>2 DEF Any1At
    <3>2. f \in Nat /\ f \in 0 .. n /\ p <= f
      BY <1>2, <3>1
    <3>3. Run(s, p, f)
      BY <1>3, <2>2, <3>1, <3>2
    <3> QED BY <2>2, <3>1, <3>2, <3>3
  <2> QED BY <1>1, <1>5, <2>1, <2>2 DEF IntAt
<1>6. ASSUME NEW f \in 0 .. n, p <= f, Run(s, p, f), p < f => s[p] # Zero, ZeroAt(s, f + 1)
      PROVE  IntAt(s, p)
  <2>1. s[p] \in Digit /\ Run(s, q, f) /\ p <= n /\ f \in q - 1 .. n
    BY <1>2, <1>3, <1>6
  <2>2. Any1At(s, q)
    BY <1>1, <1>6, <2>1 DEF Any1At
  <2>3. p = f => ZeroAt(s, q)
    BY <1>1, <1>6
  <2>4. p = f \/ p < f
    BY <1>6
  <2> QED BY <1>1, <1>6, <2>1, <2>2, <2>3, <2>4 DEF IntAt
<1> QED BY <1>1, <1>5, <1>6

\* The grammar says what the first label asks of the whole text.
LEMMA GrammarAt == ASSUME NEW s \in Seq(Nat) PROVE IsNumber(s) <=> NumberAt(s, 1)
<1>1. PICK n : n = Len(s)
  OBVIOUS
<1>2. n \in Nat
  BY <1>1
<1> DEFINE From(i) == \E f, x \in 0 .. n :
              /\ i <= f /\ f <= x
              /\ i + 1 <= f /\ Run(s, i + 1, f) /\ (i + 1 < f => s[i + 1] # Zero)
              /\ f = x \/ (f + 2 <= x /\ s[f + 1] = Point /\ Run(s, f + 2, x))
              /\ EndAt(s, x + 1)
<1>3. ASSUME NEW i \in Nat PROVE IntAt(s, i + 1) <=> From(i)
  <2>1. PICK p : p = i + 1
    OBVIOUS
  <2>2. p \in Nat /\ p > 0
    BY <2>1
  <2>3. IntAt(s, p) <=> \E f \in 0 .. n : /\ p <= f /\ Run(s, p, f) /\ (p < f => s[p] # Zero)
                                          /\ ZeroAt(s, f + 1)
    BY <1>1, <2>2, IntAtParts
  <2>4. \A f \in 0 .. n : p <= f => i <= f
    BY <2>1
  <2>5. \A f \in 0 .. n : ZeroAt(s, f + 1) <=>
           \E x \in 0 .. n : /\ f <= x
                             /\ f = x \/ (f + 2 <= x /\ s[f + 1] = Point /\ Run(s, f + 2, x))
                             /\ EndAt(s, x + 1)
    BY <1>1, ZeroAtParts
  <2>6. From(i) <=> \E f \in 0 .. n : /\ p <= f /\ Run(s, p, f) /\ (p < f => s[p] # Zero)
                                      /\ ZeroAt(s, f + 1)
    BY <2>1, <2>4, <2>5, Zenon
  <2> QED BY <2>1, <2>3, <2>6
<1>4. IsNumber(s) <=> From(0) \/ (n >= 1 /\ s[1] = Minus /\ From(1))
  <2>1. IsNumber(s) <=> \E i, f, x \in 0 .. n : i <= f /\ f <= x /\ PartsAt(s, i, f, x)
    BY <1>1, IsNumberParts
  <2>2. 0 \in 0 .. n /\ (n >= 1 <=> 1 \in 0 .. n)
    BY <1>2
  <2>3. ASSUME NEW i \in 0 .. n, NEW f \in 0 .. n, NEW x \in 0 .. n, i <= f, f <= x,
               PartsAt(s, i, f, x)
        PROVE  From(0) \/ (n >= 1 /\ s[1] = Minus /\ From(1))
    <3>1. From(i)
      BY <2>3, Zenon DEF PartsAt
    <3>2. i = 0 \/ (i = 1 /\ s[1] = Minus)
      BY <2>3 DEF PartsAt
    <3> HIDE DEF From
    <3> QED BY <2>2, <3>1, <3>2
  <2>4. ASSUME NEW i \in 0 .. n, From(i), i = 0 \/ (i = 1 /\ s[1] = Minus)
        PROVE  \E j, f, x \in 0 .. n : j <= f /\ f <= x /\ PartsAt(s, j, f, x)
    BY <2>4, Zenon DEF PartsAt
  <2> HIDE DEF From
  <2> QED BY <2>1, <2>2, <2>3, <2>4
<1> HIDE DEF From
<1>5. IntAt(s, 0 + 1) <=> From(0)
  BY <1>3
<1>6. IntAt(s, 1 + 1) <=> From(1)
  BY <1>3
<1>7. 0 + 1 = 1
  OBVIOUS
<1> QED BY <1>1, <1>2, <1>4, <1>5, <1>6, <1>7 DEF NumberAt
-----------------------------------------------------------------------------
(* The scanner and the grammar. *)

\* t begins with the bytes of r.
Extends(t, r) == Len(r) <= Len(t) /\ \A k \in 1 .. Len(r) : t[k] = r[k]

\* What is still missing of a number is what the label asks for.
Asks(r, at) == \A t \in Seq(Nat) : Extends(t, r) => (IsNumber(t) <=> RestAt(at, t, Len(r) + 1))

\* No text that begins so is a number.
Hopeless(r) == \A t \in Seq(Nat) : Extends(t, r) => ~IsNumber(t)

Follows(r, n) ==
  /\ r \in Seq(Nat)
  /\ \/ /\ n.at \in Live /\ n.token = r /\ Asks(r, n.at)
        /\ n.at = "init" => r = <<>>
     \/ /\ n.at \in {"done", "error"} /\ r # <<>> /\ Hopeless(r)
        /\ IsNumber(Front(r)) <=> n.at = "done"
        /\ n.at = "done" => n.token = Front(r)

\* One more byte at the end.
LEMMA OneByteMore ==
  ASSUME NEW r \in Seq(Nat), NEW c \in Nat
  PROVE  /\ Append(r, c) \in Seq(Nat) /\ Len(Append(r, c)) = Len(r) + 1 /\ Append(r, c) # <<>>
         /\ Append(r, c)[Len(r) + 1] = c /\ Front(Append(r, c)) = r
         /\ Extends(Append(r, c), r) /\ Extends(r, r)
         /\ \A t \in Seq(Nat) : Extends(t, Append(r, c)) <=>
                                  Extends(t, r) /\ Len(r) + 1 \in 1 .. Len(t) /\ t[Len(r) + 1] = c
<1>1. PICK a : a = Append(r, c)
  OBVIOUS
<1>2. PICK m : m = Len(r)
  OBVIOUS
<1>3. /\ a \in Seq(Nat) /\ Len(a) = m + 1 /\ a[m + 1] = c /\ m \in Nat
      /\ \A k \in 1 .. m : a[k] = r[k]
  BY <1>1, <1>2, AppendProperties
<1>4. a # <<>>
  BY <1>3, EmptySeq
<1>5. Front(a) = r
  <2>1. Front(a) = SubSeq(a, 1, Len(a) - 1)
    BY DEF Front
  <2>2. PICK q : q = SubSeq(a, 1, m)
    OBVIOUS
  <2>3. q \in Seq(Nat) /\ Len(q) = m /\ \A k \in 1 .. m : q[k] = a[k]
    BY <1>3, <2>2
  <2>4. Len(q) = Len(r) /\ \A k \in 1 .. Len(q) : q[k] = r[k]
    BY <1>2, <1>3, <2>3
  <2>5. q = r
    BY <2>3, <2>4, SeqEqual
  <2>6. Len(a) - 1 = m
    BY <1>3
  <2> QED BY <2>1, <2>2, <2>5, <2>6
<1>6. Extends(a, r) /\ Extends(r, r)
  BY <1>2, <1>3 DEF Extends
<1>7. ASSUME NEW t \in Seq(Nat)
      PROVE  Extends(t, a) <=> Extends(t, r) /\ m + 1 \in 1 .. Len(t) /\ t[m + 1] = c
  <2>1. PICK l : l = Len(t)
    OBVIOUS
  <2>2. l \in Nat
    BY <2>1
  <2>3. 1 .. m + 1 = (1 .. m) \cup {m + 1} /\ (m + 1 <= l <=> m + 1 \in 1 .. l) /\ (m + 1 <= l => m <= l)
    BY <1>3, <2>2
  <2> QED BY <1>2, <1>3, <2>1, <2>3 DEF Extends
<1> QED BY <1>1, <1>2, <1>3, <1>4, <1>5, <1>6, <1>7

\* A label that is reached and at which no number ends still leads to one.
LEMMA ZeroCompletes ==
  ASSUME NEW at \in Live, at # "init", at \notin Complete
  PROVE  Label(at, Zero) \in Complete /\ Label(at, Zero) \in Live
BY Kinds DEF Label, Live, Complete

\* The labels that a byte leads to.
LEMMA LabelIs ==
  ASSUME NEW at \in Live, NEW c
  PROVE  /\ Label(at, c) \in Live \cup {"done", "error"} /\ Label(at, c) # "init"
         /\ Label(at, c) \notin Live => (Label(at, c) = "done" <=> at \in Complete)
BY DEF Label, Live, Complete

\* Where the scanner goes on, there may be a number, and there is one if it may end.
LEMMA LiveMeans ==
  ASSUME NEW r \in Seq(Nat), NEW at \in Live, Asks(r, at)
  PROVE  /\ IsNumber(r) <=> at \in Complete
         /\ at # "init" => MayBeNumber(r)
<1>1. IsNumber(r) <=> at \in Complete
  <2>1. Extends(r, r)
    BY DEF Extends
  <2>2. IsNumber(r) <=> RestAt(at, r, Len(r) + 1)
    BY <2>1 DEF Asks
  <2> QED BY <2>2, RestEnds
<1>2. ASSUME at # "init", at \notin Complete PROVE IsNumber(Append(r, Zero))
  <2>1. PICK t : t = Append(r, Zero)
    OBVIOUS
  <2>2. Zero \in Nat
    BY DEF Zero
  <2>3. PICK p : p = Len(r) + 1
    OBVIOUS
  <2>4. t \in Seq(Nat) /\ Len(t) = p /\ t[p] = Zero /\ Extends(t, r) /\ p \in Nat /\ p > 0
    BY <2>1, <2>2, <2>3, OneByteMore
  <2>5. IsNumber(t) <=> RestAt(at, t, p)
    BY <2>3, <2>4 DEF Asks
  <2>6. p \in 1 .. Len(t)
    BY <2>4
  <2>7. RestAt(at, t, p) <=> Label(at, Zero) \in Live /\ RestAt(Label(at, Zero), t, p + 1)
    BY <2>4, <2>6, RestStep
  <2>8. Label(at, Zero) \in Complete /\ Label(at, Zero) \in Live
    BY <1>2, ZeroCompletes
  <2>9. RestAt(Label(at, Zero), t, p + 1)
    BY <2>4, <2>8, RestEnds
  <2> QED BY <2>1, <2>5, <2>7, <2>8, <2>9
<1> QED BY <1>1, <1>2 DEF MayBeNumber

\* A byte keeps it.
LEMMA ScanFollows ==
  ASSUME NEW r, NEW n, Follows(r, n), n.at \notin {"done", "error"}, NEW c \in Nat
  PROVE  Follows(Append(r, c), scan_number(n, c))
<1>1. r \in Seq(Nat) /\ n.at \in Live /\ n.token = r /\ Asks(r, n.at)
  BY DEF Follows
<1>2. PICK at, to, p, w : at = n.at /\ to = Label(at, c) /\ p = Len(r) + 1 /\ w = Append(r, c)
  OBVIOUS
<1>3. /\ w \in Seq(Nat) /\ Len(w) = p /\ w # <<>> /\ w[p] = c /\ Front(w) = r
      /\ \A t \in Seq(Nat) : Extends(t, w) => Extends(t, r) /\ p \in 1 .. Len(t) /\ t[p] = c
  BY <1>1, <1>2, OneByteMore
<1>4. ASSUME NEW t \in Seq(Nat), Extends(t, w)
      PROVE  IsNumber(t) <=> to \in Live /\ RestAt(to, t, p + 1)
  <2>1. Extends(t, r) /\ p \in 1 .. Len(t) /\ t[p] = c
    BY <1>3, <1>4
  <2>2. IsNumber(t) <=> RestAt(at, t, p)
    BY <1>1, <1>2, <2>1 DEF Asks
  <2>3. RestAt(at, t, p) <=> Label(at, t[p]) \in Live /\ RestAt(Label(at, t[p]), t, p + 1)
    BY <1>1, <1>2, <2>1, RestStep
  <2> QED BY <1>2, <2>1, <2>2, <2>3
<1>5. /\ to \in Live \cup {"done", "error"} /\ to # "init"
      /\ to \notin Live => (to = "done" <=> at \in Complete)
  BY <1>1, <1>2, LabelIs
<1>6. /\ scan_number(n, c).at = to
      /\ scan_number(n, c).token = IF to \in {"done", "error"} THEN r ELSE w
  BY <1>1, <1>2 DEF scan_number
<1>7. "done" \notin Live /\ "error" \notin Live
  BY DEF Live
<1>8. CASE to \in Live
  <2>1. Asks(w, to)
    BY <1>3, <1>4, <1>8 DEF Asks
  <2> QED BY <1>2, <1>3, <1>5, <1>6, <1>7, <1>8, <2>1 DEF Follows
<1>9. CASE to \notin Live
  <2>1. Hopeless(w)
    BY <1>4, <1>9 DEF Hopeless
  <2>2. IsNumber(r) <=> at \in Complete
    BY <1>1, <1>2, LiveMeans
  <2> QED BY <1>2, <1>3, <1>5, <1>6, <1>9, <2>1, <2>2 DEF Follows
<1> QED BY <1>8, <1>9

\* It is what the grammar says of the bytes read.
LEMMA FollowsMeans == ASSUME Follows(read, number) PROVE NumbersFollowGrammar
<1>1. CASE number.at \in Live
  <2>1. read \in Seq(Nat) /\ Asks(read, number.at)
    BY <1>1 DEF Follows, Live
  <2>2. /\ IsNumber(read) <=> number.at \in Complete
        /\ number.at # "init" => MayBeNumber(read)
    BY <1>1, <2>1, LiveMeans
  <2>3. number.at = "init" => read = <<>>
    BY <1>1 DEF Follows, Live
  <2>4. number.at # "done" /\ number.at # "error"
    BY <1>1 DEF Live
  <2> QED BY <2>2, <2>3, <2>4 DEF NumbersFollowGrammar
<1>2. CASE number.at \in {"done", "error"}
  <2>1. /\ read \in Seq(Nat) /\ Hopeless(read) /\ (IsNumber(Front(read)) <=> number.at = "done")
        /\ number.at = "done" => number.token = Front(read)
    BY <1>2 DEF Follows, Live
  <2>2. Zero \in Nat
    BY DEF Zero
  <2>3. Extends(read, read) /\ Append(read, Zero) \in Seq(Nat) /\ Extends(Append(read, Zero), read)
    BY <2>1, <2>2, OneByteMore
  <2>4. ~MayBeNumber(read)
    BY <2>1, <2>3 DEF Hopeless, MayBeNumber
  <2> QED BY <1>2, <2>1, <2>4 DEF NumbersFollowGrammar
<1> QED BY <1>1, <1>2 DEF Follows

\* The scanner takes the longest number the text begins with, gives back one byte, and
\* fails at the first byte after which there is none: for every text, of any length.
THEOREM NumbersGrammar == NumbersSpec => []NumbersFollowGrammar
<1>1. NumbersInit => Follows(read, number)
  <2> SUFFICES ASSUME NumbersInit PROVE Follows(read, number)
    OBVIOUS
  <2>1. number.at = "init" /\ number.token = read /\ read = <<>>
    BY DEF NumbersInit, Unscanned
  <2>2. read \in Seq(Nat) /\ Len(read) = 0
    BY <2>1, EmptySeq
  <2>3. ASSUME NEW t \in Seq(Nat) PROVE IsNumber(t) <=> RestAt("init", t, Len(read) + 1)
    <3>1. Len(read) + 1 = 1
      BY <2>2
    <3> QED BY <3>1, GrammarAt DEF RestAt
  <2>4. "init" \in Live
    BY DEF Live
  <2> QED BY <2>1, <2>2, <2>3, <2>4 DEF Follows, Asks
<1>2. Follows(read, number) /\ [NumbersNext]_numberVars => Follows(read, number)'
  <2> SUFFICES ASSUME Follows(read, number), [NumbersNext]_numberVars
               PROVE  Follows(read', number')
    BY DEF Follows, Asks, Hopeless, Extends, Live, IsNumber, RestAt
  <2>1. ASSUME NEW c \in NumberBytes, NumberByte(c) PROVE Follows(read', number')
    <3>1. c \in Nat
      BY NumbersAssumption
    <3>2. number.at \notin {"done", "error"} /\ read' = Append(read, c) /\ number' = scan_number(number, c)
      BY <2>1 DEF NumberByte
    <3> QED BY <3>1, <3>2, ScanFollows
  <2>2. CASE UNCHANGED numberVars
    BY <2>2 DEF numberVars
  <2> QED BY <2>1, <2>2 DEF NumbersNext
<1> QED BY <1>1, <1>2, FollowsMeans, PTL DEF NumbersSpec
-----------------------------------------------------------------------------
(* The two functions that go through several bytes, one byte after the other. *)

\* The scanner has read t, and is at n then.
Scanning(g, t) ==
  g = [k \in 0 .. Len(t) |-> IF k = 0 THEN Unscanned ELSE scan_number(g[k - 1], t[k])]
Scans(t, n) == \E g : Scanning(g, t) /\ g[Len(t)] = n

\* The digits t have the value v.
Valuing(g, t) ==
  g = [k \in 0 .. Len(t) |-> IF k = 0 THEN 0 ELSE 10 * g[k - 1] + (t[k] - Zero)]
Values(t, v) == \E g : Valuing(g, t) /\ g[Len(t)] = v

\* No bytes.
LEMMA ScansNone == Scans(<<>>, Unscanned)
<1>1. PICK e : e = <<>>
  OBVIOUS
<1>2. Len(e) = 0
  BY <1>1
<1> DEFINE g == [k \in 0 .. Len(e) |-> Unscanned]
<1>3. Scanning(g, e) /\ g[Len(e)] = Unscanned
  <2>1. \A k \in 0 .. Len(e) : k = 0
    BY <1>2
  <2>2. g = [k \in 0 .. Len(e) |-> IF k = 0 THEN Unscanned ELSE scan_number(g[k - 1], e[k])]
    BY <2>1
  <2>3. g[Len(e)] = Unscanned
    BY <1>2
  <2> HIDE DEF g
  <2> QED BY <2>2, <2>3 DEF Scanning
<1> QED BY <1>1, <1>3 DEF Scans

LEMMA ValuesNone == Values(<<>>, 0)
<1>1. PICK e : e = <<>>
  OBVIOUS
<1>2. Len(e) = 0
  BY <1>1
<1> DEFINE g == [k \in 0 .. Len(e) |-> 0]
<1>3. Valuing(g, e) /\ g[Len(e)] = 0
  <2>1. \A k \in 0 .. Len(e) : k = 0
    BY <1>2
  <2>2. g = [k \in 0 .. Len(e) |-> IF k = 0 THEN 0 ELSE 10 * g[k - 1] + (e[k] - Zero)]
    BY <2>1
  <2>3. g[Len(e)] = 0
    BY <1>2
  <2> HIDE DEF g
  <2> QED BY <2>2, <2>3 DEF Valuing
<1> QED BY <1>1, <1>3 DEF Values

\* One byte more.
LEMMA ScansMore ==
  ASSUME NEW t \in Seq(Nat), NEW n, NEW c \in Nat, Scans(t, n)
  PROVE  Scans(Append(t, c), scan_number(n, c))
<1>1. PICK g : Scanning(g, t) /\ g[Len(t)] = n
  BY DEF Scans
<1>2. PICK u : u = Append(t, c)
  OBVIOUS
<1>3. /\ u \in Seq(Nat) /\ Len(u) = Len(t) + 1 /\ u[Len(t) + 1] = c
      /\ \A k \in 1 .. Len(t) : u[k] = t[k]
  BY <1>2, AppendProperties
<1> DEFINE h == [k \in 0 .. Len(u) |-> IF k = Len(t) + 1 THEN scan_number(n, c) ELSE g[k]]
<1>4. \A k \in 0 .. Len(t) : g[k] = IF k = 0 THEN Unscanned ELSE scan_number(g[k - 1], t[k])
  BY <1>1 DEF Scanning
<1>5. ASSUME NEW k \in 0 .. Len(u) PROVE h[k] = IF k = 0 THEN Unscanned ELSE scan_number(h[k - 1], u[k])
  <2>1. CASE k = 0
    BY <1>3, <1>4, <2>1
  <2>2. CASE k = Len(t) + 1
    <3>1. k # 0 /\ k - 1 = Len(t) /\ k - 1 \in 0 .. Len(u) /\ k - 1 # Len(t) + 1
      BY <1>3, <2>2
    <3>2. h[k] = scan_number(n, c) /\ h[k - 1] = n /\ u[k] = c
      BY <1>1, <1>3, <2>2, <3>1
    <3> QED BY <3>1, <3>2
  <2>3. CASE k # 0 /\ k # Len(t) + 1
    <3>1. /\ k \in 1 .. Len(t) /\ k \in 0 .. Len(t) /\ k - 1 \in 0 .. Len(u)
          /\ k - 1 # Len(t) + 1
      BY <1>3, <2>3
    <3>2. h[k] = g[k] /\ h[k - 1] = g[k - 1] /\ u[k] = t[k]
      BY <1>3, <2>3, <3>1
    <3> QED BY <1>4, <2>3, <3>1, <3>2
  <2> QED BY <2>1, <2>2, <2>3
<1>6. Scanning(h, u) /\ h[Len(u)] = scan_number(n, c)
  <2>1. h = [k \in 0 .. Len(u) |-> h[k]]
    OBVIOUS
  <2>2. h[Len(u)] = scan_number(n, c)
    BY <1>3
  <2> HIDE DEF h
  <2> QED BY <1>5, <2>1, <2>2 DEF Scanning
<1> QED BY <1>2, <1>6 DEF Scans

LEMMA ValuesMore ==
  ASSUME NEW t \in Seq(Nat), NEW v, NEW c \in Nat, Values(t, v)
  PROVE  Values(Append(t, c), 10 * v + (c - Zero))
<1>1. PICK g : Valuing(g, t) /\ g[Len(t)] = v
  BY DEF Values
<1>2. PICK u : u = Append(t, c)
  OBVIOUS
<1>3. /\ u \in Seq(Nat) /\ Len(u) = Len(t) + 1 /\ u[Len(t) + 1] = c
      /\ \A k \in 1 .. Len(t) : u[k] = t[k]
  BY <1>2, AppendProperties
<1>4. PICK w : w = 10 * v + (c - Zero)
  OBVIOUS
<1> DEFINE h == [k \in 0 .. Len(u) |-> IF k = Len(t) + 1 THEN w ELSE g[k]]
<1>5. \A k \in 0 .. Len(t) : g[k] = IF k = 0 THEN 0 ELSE 10 * g[k - 1] + (t[k] - Zero)
  BY <1>1 DEF Valuing
<1>6. ASSUME NEW k \in 0 .. Len(u) PROVE h[k] = IF k = 0 THEN 0 ELSE 10 * h[k - 1] + (u[k] - Zero)
  <2>1. CASE k = 0
    BY <1>3, <1>5, <2>1
  <2>2. CASE k = Len(t) + 1
    <3>1. k # 0 /\ k - 1 = Len(t) /\ k - 1 \in 0 .. Len(u) /\ k - 1 # Len(t) + 1
      BY <1>3, <2>2
    <3>2. h[k] = w /\ h[k - 1] = v /\ u[k] = c
      BY <1>1, <1>3, <2>2, <3>1
    <3> QED BY <1>4, <3>1, <3>2
  <2>3. CASE k # 0 /\ k # Len(t) + 1
    <3>1. /\ k \in 1 .. Len(t) /\ k \in 0 .. Len(t) /\ k - 1 \in 0 .. Len(u)
          /\ k - 1 # Len(t) + 1
      BY <1>3, <2>3
    <3>2. h[k] = g[k] /\ h[k - 1] = g[k - 1] /\ u[k] = t[k]
      BY <1>3, <2>3, <3>1
    <3> QED BY <1>5, <2>3, <3>1, <3>2
  <2> QED BY <2>1, <2>2, <2>3
<1>7. Valuing(h, u) /\ h[Len(u)] = w
  <2>1. h = [k \in 0 .. Len(u) |-> h[k]]
    OBVIOUS
  <2>2. h[Len(u)] = w
    BY <1>3
  <2> HIDE DEF h
  <2> QED BY <1>6, <2>1, <2>2 DEF Valuing
<1> QED BY <1>2, <1>4, <1>7 DEF Values

\* What a run gives is unique.
LEMMA ScanningsAgree ==
  ASSUME NEW t \in Seq(Nat), NEW g, NEW h, Scanning(g, t), Scanning(h, t)
  PROVE  g[Len(t)] = h[Len(t)]
<1> DEFINE T == {k \in Nat : k <= Len(t) => g[k] = h[k]}
<1>1. \A k \in 0 .. Len(t) : g[k] = IF k = 0 THEN Unscanned ELSE scan_number(g[k - 1], t[k])
  BY DEF Scanning
<1>2. \A k \in 0 .. Len(t) : h[k] = IF k = 0 THEN Unscanned ELSE scan_number(h[k - 1], t[k])
  BY DEF Scanning
<1>3. 0 \in T
  BY <1>1, <1>2
<1>4. ASSUME NEW k \in Nat, k \in T PROVE k + 1 \in T
  <2>1. CASE k + 1 <= Len(t)
    <3>1. k + 1 \in 0 .. Len(t) /\ k + 1 # 0 /\ (k + 1) - 1 = k /\ k <= Len(t)
      BY <2>1
    <3>2. g[k + 1] = scan_number(g[k], t[k + 1]) /\ h[k + 1] = scan_number(h[k], t[k + 1])
      BY <1>1, <1>2, <3>1
    <3>3. g[k] = h[k]
      BY <1>4, <3>1
    <3> QED BY <3>2, <3>3
  <2> QED BY <2>1
<1>5. Nat \subseteq T
  <2> HIDE DEF T
  <2> QED BY <1>3, <1>4, SetInduction
<1> QED BY <1>5

LEMMA ValuingsAgree ==
  ASSUME NEW t \in Seq(Nat), NEW g, NEW h, Valuing(g, t), Valuing(h, t)
  PROVE  g[Len(t)] = h[Len(t)]
<1> DEFINE T == {k \in Nat : k <= Len(t) => g[k] = h[k]}
<1>1. \A k \in 0 .. Len(t) : g[k] = IF k = 0 THEN 0 ELSE 10 * g[k - 1] + (t[k] - Zero)
  BY DEF Valuing
<1>2. \A k \in 0 .. Len(t) : h[k] = IF k = 0 THEN 0 ELSE 10 * h[k - 1] + (t[k] - Zero)
  BY DEF Valuing
<1>3. 0 \in T
  BY <1>1, <1>2
<1>4. ASSUME NEW k \in Nat, k \in T PROVE k + 1 \in T
  <2>1. CASE k + 1 <= Len(t)
    <3>1. k + 1 \in 0 .. Len(t) /\ k + 1 # 0 /\ (k + 1) - 1 = k /\ k <= Len(t)
      BY <2>1
    <3>2. g[k + 1] = 10 * g[k] + (t[k + 1] - Zero) /\ h[k + 1] = 10 * h[k] + (t[k + 1] - Zero)
      BY <1>1, <1>2, <3>1
    <3>3. g[k] = h[k]
      BY <1>4, <3>1
    <3> QED BY <3>2, <3>3
  <2> QED BY <2>1
<1>5. Nat \subseteq T
  <2> HIDE DEF T
  <2> QED BY <1>3, <1>4, SetInduction
<1> QED BY <1>5

\* AfterBytes is where the scanner is.
LEMMA AfterBytesIs == ASSUME NEW t \in Seq(Nat), NEW n, Scans(t, n) PROVE AfterBytes(t) = n
<1>1. PICK g : Scanning(g, t) /\ g[Len(t)] = n
  BY DEF Scans
<1> DEFINE f == CHOOSE h : Scanning(h, t)
<1>2. Scanning(f, t)
  BY <1>1
<1>3. AfterBytes(t) = f[Len(t)]
  BY DEF AfterBytes, Scanning
<1> HIDE DEF f
<1>4. f[Len(t)] = g[Len(t)]
  BY <1>1, <1>2, ScanningsAgree
<1> QED BY <1>1, <1>3, <1>4

\* Decimal is the value.
LEMMA DecimalIs == ASSUME NEW t \in Seq(Nat), NEW v, Values(t, v) PROVE Decimal(t) = v
<1>1. PICK g : Valuing(g, t) /\ g[Len(t)] = v
  BY DEF Values
<1> DEFINE f == CHOOSE h : Valuing(h, t)
<1>2. Valuing(f, t)
  BY <1>1
<1>3. Decimal(t) = f[Len(t)]
  BY DEF Decimal, Valuing
<1> HIDE DEF f
<1>4. f[Len(t)] = g[Len(t)]
  BY <1>1, <1>2, ValuingsAgree
<1> QED BY <1>1, <1>3, <1>4
-----------------------------------------------------------------------------
(* The digits of a number, the last one first: what the recursion of Digits yields. *)

Peels(f) == f = [n \in Nat |-> IF n = 0 THEN <<>> ELSE <<Zero + (n % 10)>> \o f[n \div 10]]

\* A tenth.
LEMMA Tenth ==
  ASSUME NEW n \in Nat
  PROVE  /\ n \div 10 \in Nat /\ n % 10 \in 0 .. 9
         /\ n # 0 => n \div 10 < n
OBVIOUS

\* The last digit and the others.
LEMMA LastDigit ==
  ASSUME NEW v \in Nat, NEW d \in 0 .. 9
  PROVE  10 * v + d \in Nat /\ (10 * v + d) \div 10 = v /\ (10 * v + d) % 10 = d
OBVIOUS

\* One element and a sequence.
LEMMA OneBefore ==
  ASSUME NEW a \in Nat, NEW s \in Seq(Nat)
  PROVE  /\ <<a>> \o s \in Seq(Nat) /\ Len(<<a>> \o s) = Len(s) + 1 /\ (<<a>> \o s)[1] = a
         /\ \A k \in 1 .. Len(s) : (<<a>> \o s)[k + 1] = s[k]
<1>1. PICK e : e = <<a>>
  OBVIOUS
<1>2. e \in Seq(Nat) /\ Len(e) = 1 /\ e[1] = a
  BY <1>1
<1>3. PICK u, l : u = e \o s /\ l = Len(s)
  OBVIOUS
<1>4. l \in Nat /\ u \in Seq(Nat) /\ Len(u) = l + 1
      /\ \A i \in 1 .. l + 1 : u[i] = IF i <= 1 THEN e[i] ELSE s[i - 1]
  <2>1. PICK o : o = 1
    OBVIOUS
  <2>2. Len(e) = o /\ o \in Nat /\ l \in Nat
    BY <1>2, <1>3, <2>1
  <2>3. /\ u \in Seq(Nat) /\ Len(u) = o + l
        /\ \A i \in 1 .. o + l : u[i] = IF i <= o THEN e[i] ELSE s[i - o]
    BY <1>2, <1>3, <2>2, ConcatProperties
  <2> QED BY <2>1, <2>2, <2>3
<1>5. u[1] = a
  BY <1>2, <1>4
<1>6. ASSUME NEW k \in 1 .. l PROVE u[k + 1] = s[k]
  <2>1. k + 1 \in 1 .. l + 1 /\ ~(k + 1 <= 1) /\ (k + 1) - 1 = k
    BY <1>4
  <2> QED BY <1>4, <2>1
<1> QED BY <1>1, <1>3, <1>4, <1>5, <1>6

\* There is a function that the recursion describes: it needs n steps for n.
LEMMA PeelsExists == \E f : Peels(f)
<1> DEFINE V == [Nat -> Seq(Nat)]
           first == [n \in Nat |-> <<>>]
           One(g) == [n \in Nat |-> IF n = 0 THEN <<>> ELSE <<Zero + (n % 10)>> \o g[n \div 10]]
           next == [k \in Nat |-> [g \in V |-> One(g)]]
<1>1. first \in V
  <2>1. <<>> \in Seq(Nat)
    OBVIOUS
  <2> QED BY <2>1
<1>2. ASSUME NEW g \in V PROVE One(g) \in V
  <2>1. ASSUME NEW n \in Nat, n # 0 PROVE <<Zero + (n % 10)>> \o g[n \div 10] \in Seq(Nat)
    <3>1. g[n \div 10] \in Seq(Nat) /\ Zero + (n % 10) \in Nat
      BY Tenth DEF Zero
    <3> QED BY <3>1, OneBefore
  <2>2. <<>> \in Seq(Nat)
    OBVIOUS
  <2> QED BY <2>1, <2>2
<1>3. next \in [Nat -> [V -> V]]
  <2> HIDE DEF One, V
  <2> QED BY <1>2
<1>4. PICK F : F \in [Nat -> V] /\ F[0] = first /\ \A k \in Nat : F[k + 1] = One(F[k])
  <2>1. PICK W, k, z : W = V /\ k = next /\ z = first
    OBVIOUS
  <2>2. z \in W /\ k \in [Nat -> [W -> W]]
    BY <1>1, <1>3, <2>1
  <2>3. PICK g : Grows(g, W, z, k)
    BY <2>2, FunctionByInduction
  <2>4. g \in [Nat -> V] /\ g[0] = first /\ \A m \in Nat : g[m + 1] = next[m][g[m]]
    BY <2>1, <2>3 DEF Grows
  <2>5. \A m \in Nat : next[m][g[m]] = One(g[m])
    <3> HIDE DEF One, V
    <3> QED BY <2>4
  <2> HIDE DEF One, V, next, first
  <2> QED BY <2>4, <2>5
<1>5. ASSUME NEW k \in Nat, NEW n \in Nat
      PROVE  /\ n = 0 => F[k][n] = <<>>
             /\ n # 0 => F[k + 1][n] = <<Zero + (n % 10)>> \o F[k][n \div 10]
  <2>1. n # 0 => F[k + 1][n] = <<Zero + (n % 10)>> \o F[k][n \div 10]
    BY <1>4
  <2>2. n = 0 => F[k][n] = <<>>
    <3>1. CASE k = 0
      BY <1>4, <3>1
    <3>2. CASE k # 0
      <4>1. k - 1 \in Nat /\ (k - 1) + 1 = k
        BY <3>2
      <4>2. F[k] = One(F[k - 1])
        BY <1>4, <4>1
      <4> QED BY <4>2
    <3> QED BY <3>1, <3>2
  <2> QED BY <2>1, <2>2
<1> HIDE DEF V, first, One, next
\* More steps change nothing.
<1>6. ASSUME NEW k \in Nat, NEW n \in Nat, n <= k PROVE F[k + 1][n] = F[k][n]
  <2> DEFINE S == {j \in Nat : \A m \in Nat : m <= j => F[j + 1][m] = F[j][m]}
  <2>1. 0 \in S
    <3>1. \A m \in Nat : m <= 0 => m = 0
      OBVIOUS
    <3>2. 0 \in Nat /\ 0 + 1 \in Nat
      OBVIOUS
    <3>3. F[0][0] = <<>> /\ F[0 + 1][0] = <<>>
      BY <1>5, <3>2
    <3> QED BY <3>1, <3>3
  <2>2. ASSUME NEW j \in Nat, j \in S PROVE j + 1 \in S
    <3>1. ASSUME NEW m \in Nat, m <= j + 1 PROVE F[(j + 1) + 1][m] = F[j + 1][m]
      <4> DEFINE i == j + 1
      <4>0. i \in Nat /\ i + 1 \in Nat
        OBVIOUS
      <4>1. CASE m = 0
        <5>1. F[i][m] = <<>> /\ F[i + 1][m] = <<>>
          BY <1>5, <4>0, <4>1
        <5> QED BY <5>1
      <4>2. CASE m # 0
        <5>1. m \div 10 \in Nat /\ m \div 10 <= j
          BY <3>1, <4>2, Tenth
        <5>2. F[j + 1][m \div 10] = F[j][m \div 10]
          BY <2>2, <5>1
        <5>3. F[i + 1][m] = <<Zero + (m % 10)>> \o F[i][m \div 10]
          <6> HIDE DEF i
          <6> QED BY <1>5, <4>0, <4>2
        <5>4. F[j + 1][m] = <<Zero + (m % 10)>> \o F[j][m \div 10]
          BY <1>5, <4>2
        <5> QED BY <5>2, <5>3, <5>4
      <4> QED BY <4>1, <4>2
    <3> QED BY <3>1
  <2>3. Nat \subseteq S
    <3> HIDE DEF S
    <3> QED BY <2>1, <2>2, SetInduction
  <2> QED BY <1>6, <2>3
<1>7. ASSUME NEW n \in Nat, NEW k \in Nat, n <= k PROVE F[k][n] = F[n][n]
  <2> DEFINE S == {j \in Nat : n <= j => F[j][n] = F[n][n]}
  <2>1. 0 \in S
    BY SMT
  <2>2. ASSUME NEW j \in Nat, j \in S PROVE j + 1 \in S
    <3>1. CASE n <= j
      BY <1>6, <2>2, <3>1
    <3>2. CASE ~(n <= j)
      <4>1. n <= j + 1 => n = j + 1
        BY <3>2
      <4> QED BY <4>1
    <3> QED BY <3>1, <3>2
  <2>3. Nat \subseteq S
    <3> HIDE DEF S
    <3> QED BY <2>1, <2>2, SetInduction
  <2> QED BY <1>7, <2>3
<1> DEFINE f == [n \in Nat |-> F[n][n]]
<1>8. ASSUME NEW n \in Nat PROVE f[n] = IF n = 0 THEN <<>> ELSE <<Zero + (n % 10)>> \o f[n \div 10]
  <2>1. CASE n = 0
    BY <1>5, <2>1
  <2>2. CASE n # 0
    <3>1. n - 1 \in Nat /\ (n - 1) + 1 = n /\ n \div 10 \in Nat /\ n \div 10 <= n - 1
      BY <2>2, Tenth
    <3>2. F[n][n] = <<Zero + (n % 10)>> \o F[n - 1][n \div 10]
      BY <1>5, <2>2, <3>1
    <3>3. F[n - 1][n \div 10] = F[n \div 10][n \div 10]
      BY <1>7, <3>1
    <3> QED BY <2>2, <3>1, <3>2, <3>3
  <2> QED BY <2>1, <2>2
<1>9. Peels(f)
  <2>1. f = [n \in Nat |-> f[n]]
    OBVIOUS
  <2> HIDE DEF f
  <2> QED BY <1>8, <2>1 DEF Peels
<1> QED BY <1>9

\* The digits of a positive number: those of a tenth of it, and the last one.
LEMMA DigitsIs ==
  ASSUME NEW v \in Nat
  PROVE  /\ Digits(v) \in Seq(Nat) /\ (v > 0 => Digits(-v) = Digits(v))
         /\ Digits(0) = <<>>
         /\ \A d \in 0 .. 9 : 10 * v + d # 0 => Digits(10 * v + d) = <<Zero + d>> \o Digits(v)
<1> DEFINE f == CHOOSE h : Peels(h)
<1>1. Peels(f)
  BY PeelsExists
<1>2. \A x : Digits(x) = f[IF x < 0 THEN -x ELSE x]
  BY DEF Digits, Peels
<1> HIDE DEF f
<1>3. ASSUME NEW n \in Nat
      PROVE  f[n] = IF n = 0 THEN <<>> ELSE <<Zero + (n % 10)>> \o f[n \div 10]
  BY <1>1 DEF Peels
<1>4. ASSUME NEW n \in Nat PROVE Digits(n) = f[n]
  BY <1>2
<1>5. f[v] \in Seq(Nat)
  <2> DEFINE S == {j \in Nat : \A m \in Nat : m <= j => f[m] \in Seq(Nat)}
  <2>1. 0 \in S
    <3>1. \A m \in Nat : m <= 0 => m = 0
      OBVIOUS
    <3>2. <<>> \in Seq(Nat)
      OBVIOUS
    <3> QED BY <1>3, <3>1, <3>2
  <2>2. ASSUME NEW j \in Nat, j \in S PROVE j + 1 \in S
    <3>1. ASSUME NEW m \in Nat, m <= j + 1 PROVE f[m] \in Seq(Nat)
      <4>1. CASE m = 0
        <5>1. <<>> \in Seq(Nat)
          OBVIOUS
        <5> QED BY <1>3, <4>1, <5>1
      <4>2. CASE m # 0
        <5>1. m \div 10 \in Nat /\ m \div 10 <= j /\ Zero + (m % 10) \in Nat
          BY <3>1, <4>2, Tenth DEF Zero
        <5>2. f[m \div 10] \in Seq(Nat)
          BY <2>2, <5>1
        <5>3. <<Zero + (m % 10)>> \o f[m \div 10] \in Seq(Nat)
          BY <5>1, <5>2, OneBefore
        <5> QED BY <1>3, <4>2, <5>3
      <4> QED BY <4>1, <4>2
    <3> QED BY <3>1
  <2>3. Nat \subseteq S
    <3> HIDE DEF S
    <3> QED BY <2>1, <2>2, SetInduction
  <2>4. v \in S /\ v <= v
    BY <2>3
  <2> QED BY <2>4
<1>6. v > 0 => Digits(-v) = Digits(v)
  <2>1. v > 0 => -v < 0 /\ -(-v) = v
    OBVIOUS
  <2> QED BY <1>2, <1>4, <2>1
<1>7. ASSUME NEW d \in 0 .. 9, 10 * v + d # 0
      PROVE  Digits(10 * v + d) = <<Zero + d>> \o Digits(v)
  <2>1. PICK n : n = 10 * v + d
    OBVIOUS
  <2>2. n \in Nat /\ n \div 10 = v /\ n % 10 = d /\ n # 0
    BY <1>7, <2>1, LastDigit
  <2>3. f[n] = <<Zero + d>> \o f[v]
    BY <1>3, <2>2
  <2> QED BY <1>4, <2>1, <2>2, <2>3
<1>8. Digits(0) = <<>>
  BY <1>3, <1>4
<1> QED BY <1>4, <1>5, <1>6, <1>7, <1>8
-----------------------------------------------------------------------------
(* What dump_integer writes. *)

\* The bytes of a sequence, the last one first.
LEMMA ReverseIs ==
  ASSUME NEW s \in Seq(Nat)
  PROVE  /\ Reverse(s) \in Seq(Nat) /\ Len(Reverse(s)) = Len(s)
         /\ \A k \in 1 .. Len(s) : Reverse(s)[k] = s[(Len(s) - k) + 1]
<1>1. PICK l : l = Len(s)
  OBVIOUS
<1> DEFINE r == [k \in 1 .. l |-> s[(l - k) + 1]]
<1>2. l \in Nat /\ \A k \in 1 .. l : (l - k) + 1 \in 1 .. l
  BY <1>1
<1>3. r \in Seq(Nat) /\ Len(r) = l
  <2>1. \A k \in 1 .. l : s[(l - k) + 1] \in Nat
    BY <1>1, <1>2
  <2> QED BY <1>2, <2>1
<1>4. Reverse(s) = r
  BY <1>1 DEF Reverse
<1>5. \A k \in 1 .. l : r[k] = s[(l - k) + 1]
  OBVIOUS
<1> HIDE DEF r
<1> QED BY <1>1, <1>3, <1>4, <1>5

LEMMA ReverseBefore ==
  ASSUME NEW a \in Nat, NEW s \in Seq(Nat)
  PROVE  Reverse(<<a>> \o s) = Append(Reverse(s), a)
<1>1. PICK l, b, x, y : /\ l = Len(s) /\ b = <<a>> \o s /\ x = Reverse(b)
                        /\ y = Append(Reverse(s), a)
  OBVIOUS
<1>2. l \in Nat /\ b \in Seq(Nat) /\ Len(b) = l + 1 /\ b[1] = a /\ \A k \in 1 .. l : b[k + 1] = s[k]
  BY <1>1, OneBefore
<1>3. x \in Seq(Nat) /\ Len(x) = l + 1 /\ \A k \in 1 .. l + 1 : x[k] = b[((l + 1) - k) + 1]
  <2>1. PICK m : m = l + 1
    OBVIOUS
  <2>2. b \in Seq(Nat) /\ Len(b) = m
    BY <1>2, <2>1
  <2>3. x \in Seq(Nat) /\ Len(x) = m /\ \A k \in 1 .. m : x[k] = b[(m - k) + 1]
    <3>1. /\ Reverse(b) \in Seq(Nat) /\ Len(Reverse(b)) = Len(b)
          /\ \A k \in 1 .. Len(b) : Reverse(b)[k] = b[(Len(b) - k) + 1]
      BY <2>2, ReverseIs
    <3>2. x = Reverse(b)
      BY <1>1
    <3> HIDE <1>1
    <3> QED BY <2>2, <3>1, <3>2
  <2> QED BY <2>1, <2>3
<1>4. /\ y \in Seq(Nat) /\ Len(y) = l + 1 /\ y[l + 1] = a
      /\ \A k \in 1 .. l : y[k] = s[(l - k) + 1]
  <2>1. PICK r : r = Reverse(s)
    OBVIOUS
  <2>2. r \in Seq(Nat) /\ Len(r) = l /\ \A k \in 1 .. l : r[k] = s[(l - k) + 1]
    BY <1>1, <2>1, ReverseIs
  <2> QED BY <1>1, <2>1, <2>2, AppendProperties
<1>5. ASSUME NEW k \in 1 .. l + 1 PROVE x[k] = y[k]
  <2>1. CASE k = l + 1
    <3>1. ((l + 1) - k) + 1 = 1
      BY <1>2, <2>1
    <3>2. x[k] = b[((l + 1) - k) + 1]
      BY <1>3
    <3> QED BY <1>2, <1>4, <2>1, <3>1, <3>2
  <2>2. CASE k # l + 1
    <3>1. PICK j : j = (l - k) + 1
      OBVIOUS
    <3>2. j \in 1 .. l /\ k \in 1 .. l /\ ((l + 1) - k) + 1 = j + 1
      BY <1>2, <2>2, <3>1
    <3>3. x[k] = b[j + 1] /\ y[k] = s[j]
      BY <1>3, <1>4, <3>1, <3>2
    <3> QED BY <1>2, <3>2, <3>3
  <2> QED BY <2>1, <2>2
<1>6. x = y
  BY <1>3, <1>4, <1>5, SeqEqual
<1> QED BY <1>1, <1>6

LEMMA ReverseAfter ==
  ASSUME NEW a \in Nat, NEW s \in Seq(Nat)
  PROVE  Reverse(Append(s, a)) = <<a>> \o Reverse(s)
<1>1. PICK l, b, x, r, y : /\ l = Len(s) /\ b = Append(s, a) /\ x = Reverse(b)
                           /\ r = Reverse(s) /\ y = <<a>> \o r
  OBVIOUS
<1>2. l \in Nat /\ b \in Seq(Nat) /\ Len(b) = l + 1 /\ b[l + 1] = a /\ \A k \in 1 .. l : b[k] = s[k]
  BY <1>1, AppendProperties
<1>3. x \in Seq(Nat) /\ Len(x) = l + 1 /\ \A k \in 1 .. l + 1 : x[k] = b[((l + 1) - k) + 1]
  <2>1. PICK m : m = l + 1
    OBVIOUS
  <2>2. b \in Seq(Nat) /\ Len(b) = m
    BY <1>2, <2>1
  <2>3. x \in Seq(Nat) /\ Len(x) = m /\ \A k \in 1 .. m : x[k] = b[(m - k) + 1]
    <3>1. /\ Reverse(b) \in Seq(Nat) /\ Len(Reverse(b)) = Len(b)
          /\ \A k \in 1 .. Len(b) : Reverse(b)[k] = b[(Len(b) - k) + 1]
      BY <2>2, ReverseIs
    <3>2. x = Reverse(b)
      BY <1>1
    <3> HIDE <1>1
    <3> QED BY <2>2, <3>1, <3>2
  <2> QED BY <2>1, <2>3
<1>4. r \in Seq(Nat) /\ Len(r) = l /\ \A k \in 1 .. l : r[k] = s[(l - k) + 1]
  BY <1>1, ReverseIs
<1>5. y \in Seq(Nat) /\ Len(y) = l + 1 /\ y[1] = a /\ \A k \in 1 .. l : y[k + 1] = r[k]
  <2>1. PICK z : z = <<a>> \o r
    OBVIOUS
  <2>2. z \in Seq(Nat) /\ Len(z) = Len(r) + 1 /\ z[1] = a /\ \A k \in 1 .. Len(r) : z[k + 1] = r[k]
    BY <1>4, <2>1, OneBefore
  <2>3. y = z
    BY <1>1, <2>1
  <2> QED BY <1>4, <2>2, <2>3
<1>6. ASSUME NEW k \in 1 .. l + 1 PROVE x[k] = y[k]
  <2>1. CASE k = 1
    <3>1. ((l + 1) - k) + 1 = l + 1
      BY <1>2, <2>1
    <3>2. x[k] = b[((l + 1) - k) + 1]
      BY <1>3
    <3> QED BY <1>2, <1>5, <2>1, <3>1, <3>2
  <2>2. CASE k # 1
    <3>1. PICK j : j = k - 1
      OBVIOUS
    <3>2. j \in 1 .. l /\ j + 1 = k /\ ((l + 1) - k) + 1 = (l - j) + 1 /\ (l - j) + 1 \in 1 .. l
      BY <1>2, <2>2, <3>1
    <3>3. x[k] = b[(l - j) + 1] /\ y[k] = r[j] /\ r[j] = s[(l - j) + 1]
      BY <1>3, <1>4, <1>5, <3>2
    <3> QED BY <1>2, <3>2, <3>3
  <2> QED BY <2>1, <2>2
<1>7. x = y
  BY <1>3, <1>5, <1>6, SeqEqual
<1> QED BY <1>1, <1>7

\* The digits of v, the first one first.
InDigits(v) == Reverse(Digits(v))

LEMMA InDigitsIs ==
  ASSUME NEW v \in Nat
  PROVE  /\ InDigits(v) \in Seq(Nat) /\ InDigits(0) = <<>>
         /\ \A d \in 0 .. 9 : 10 * v + d # 0 => InDigits(10 * v + d) = Append(InDigits(v), Zero + d)
<1>1. InDigits(v) \in Seq(Nat)
  BY DigitsIs, ReverseIs DEF InDigits
<1>2. InDigits(0) = <<>>
  <2>1. PICK e : e = <<>>
    OBVIOUS
  <2>2. e \in Seq(Nat) /\ Len(e) = 0
    BY <2>1
  <2>3. Reverse(e) \in Seq(Nat) /\ Len(Reverse(e)) = 0
    BY <2>2, ReverseIs
  <2>4. Reverse(e) = <<>>
    BY <2>3, EmptySeq
  <2> QED BY <2>1, <2>4, DigitsIs DEF InDigits
<1>3. ASSUME NEW d \in 0 .. 9, 10 * v + d # 0
      PROVE  InDigits(10 * v + d) = Append(InDigits(v), Zero + d)
  <2>1. Digits(v) \in Seq(Nat) /\ Digits(10 * v + d) = <<Zero + d>> \o Digits(v)
    BY <1>3, DigitsIs
  <2>2. Zero + d \in Nat
    BY DEF Zero
  <2> QED BY <2>1, <2>2, ReverseBefore DEF InDigits
<1> QED BY <1>1, <1>2, <1>3

LEMMA DumpIntegerIs ==
  ASSUME NEW v \in Nat, v > 0
  PROVE  dump_integer(v) = InDigits(v) /\ dump_integer(-v) = <<Minus>> \o InDigits(v)
<1>1. PICK s : s = Digits(v)
  OBVIOUS
<1>2. s \in Seq(Nat) /\ Digits(-v) = s
  BY <1>1, DigitsIs
<1>3. v # 0 /\ ~(v < 0) /\ -v # 0 /\ -v < 0
  OBVIOUS
<1>4. dump_integer(v) = Reverse(s \o <<>>)
  BY <1>1, <1>3 DEF dump_integer
<1>5. s \o <<>> = s
  BY <1>2, ConcatEmptySeq
<1>6. dump_integer(-v) = Reverse(s \o <<Minus>>)
  BY <1>2, <1>3 DEF dump_integer
<1>7. Minus \in Nat
  BY DEF Minus
<1>8. s \o <<Minus>> = Append(s, Minus)
  BY <1>2, <1>7, AppendIsConcat
<1>9. Reverse(Append(s, Minus)) = <<Minus>> \o Reverse(s)
  BY <1>2, <1>7, ReverseAfter
<1> QED BY <1>1, <1>4, <1>5, <1>6, <1>8, <1>9 DEF InDigits
-----------------------------------------------------------------------------
(* An integer of the text, and the same integer written. *)

\* u is what is written of the positive number v, and has its value.
Whole(u, v) ==
  /\ v \in Nat /\ v > 0 /\ u = InDigits(v) /\ Values(u, v)
  /\ u \in Seq(Digit) /\ u # <<>>

\* What has been read of an integer, at each label.
Shape(n) ==
  \/ n.at = "error"
  \/ n.type = "float" /\ n.at # "init"
  \/ /\ n.type = "unsigned"
     /\ \/ n.at = "init" /\ n.token = <<>>
        \/ n.at \in {"zero", "done"} /\ n.token = <<Zero>>
        \/ n.at \in {"any1", "done"} /\ \E v : Whole(n.token, v)
  \/ /\ n.type = "integer"
     /\ \/ n.at = "minus" /\ n.token = <<Minus>>
        \/ n.at \in {"zero", "done"} /\ n.token = <<Minus>> \o <<Zero>>
        \/ n.at \in {"any1", "done"} /\ \E u, v : Whole(u, v) /\ n.token = <<Minus>> \o u

\* The scanner would be there again after its token, or was before the last byte.
Replays(n) ==
  /\ n.token \in Seq(Nat)
  /\ \/ n.at \in Live /\ Scans(n.token, n)
     \/ n.at = "error"
     \/ /\ n.at = "done"
        /\ \E m : Scans(n.token, m) /\ m.at \in Complete /\ m.type = n.type /\ m.token = n.token

\* A digit is a number below ten and the byte of the zero.
LEMMA DigitIs ==
  ASSUME NEW c \in Digit
  PROVE  c \in Nat /\ c - Zero \in 0 .. 9 /\ Zero + (c - Zero) = c /\ (c # Zero => c - Zero # 0)
BY DEF Digit, Zero

\* One byte.
LEMMA SingleByte ==
  ASSUME NEW c \in Nat PROVE <<c>> \in Seq(Nat) /\ Append(<<>>, c) = <<c>>
OBVIOUS

\* The first digit.
LEMMA WholeFirst == ASSUME NEW c \in Digit \ {Zero} PROVE Whole(<<c>>, c - Zero)
<1>1. PICK e, d, z : e = <<>> /\ d = c - Zero /\ z = 0
  OBVIOUS
<1>2. c \in Nat /\ d \in 0 .. 9 /\ Zero + d = c /\ d # 0
  BY <1>1, DigitIs
<1>3. z \in Nat /\ 10 * z + d = d /\ d \in Nat /\ d > 0
  BY <1>1, <1>2
<1>4. InDigits(z) = e /\ Append(e, c) = <<c>> /\ e \in Seq(Nat)
  BY <1>1, <1>2, InDigitsIs, SingleByte
<1>5. InDigits(d) = Append(e, c)
  <2>1. InDigits(10 * z + d) = Append(InDigits(z), Zero + d)
    BY <1>2, <1>3, InDigitsIs
  <2> QED BY <1>2, <1>3, <1>4, <2>1
<1>6. Values(e, z)
  BY <1>1, ValuesNone
<1>7. Values(Append(e, c), 10 * z + (c - Zero))
  BY <1>2, <1>4, <1>6, ValuesMore
<1>8. 10 * z + (c - Zero) = d
  BY <1>1, <1>2
<1>9. <<c>> \in Seq(Digit) /\ <<c>> # <<>>
  OBVIOUS
<1> QED BY <1>1, <1>3, <1>4, <1>5, <1>7, <1>8, <1>9 DEF Whole

\* One digit more.
LEMMA WholeMore ==
  ASSUME NEW u, NEW v, Whole(u, v), NEW c \in Digit
  PROVE  Whole(Append(u, c), 10 * v + (c - Zero)) /\ u \in Seq(Nat)
<1>1. v \in Nat /\ v > 0 /\ u = InDigits(v) /\ Values(u, v) /\ u \in Seq(Digit)
  BY DEF Whole
<1>2. PICK d, w : d = c - Zero /\ w = 10 * v + d
  OBVIOUS
<1>3. c \in Nat /\ d \in 0 .. 9 /\ Zero + d = c
  BY <1>2, DigitIs
<1>4. w \in Nat /\ w > 0 /\ w # 0
  BY <1>1, <1>2, <1>3
<1>5. u \in Seq(Nat)
  BY <1>1, InDigitsIs
<1>6. InDigits(w) = Append(u, c)
  BY <1>1, <1>2, <1>3, <1>4, InDigitsIs
<1>7. Values(Append(u, c), w)
  BY <1>1, <1>2, <1>3, <1>5, ValuesMore
<1>8. Append(u, c) \in Seq(Digit) /\ Append(u, c) # <<>>
  <2>1. Append(u, c) \in Seq(Digit) /\ Len(Append(u, c)) = Len(u) + 1 /\ Len(u) \in Nat
    BY <1>1, AppendProperties
  <2> QED BY <2>1, EmptySeq
<1> QED BY <1>2, <1>4, <1>5, <1>6, <1>7, <1>8 DEF Whole

\* It has no sign.
LEMMA WholeHead == ASSUME NEW u, NEW v, Whole(u, v) PROVE Head(u) # Minus
<1>1. u \in Seq(Digit) /\ u # <<>>
  BY DEF Whole
<1>2. Head(u) \in Digit
  BY <1>1, HeadTailProperties
<1> QED BY <1>2, Kinds

\* A minus sign before the digits.
LEMMA SignedMore ==
  ASSUME NEW u \in Seq(Nat), NEW c \in Nat
  PROVE  Append(<<Minus>> \o u, c) = <<Minus>> \o Append(u, c)
<1>1. PICK m : m = <<Minus>>
  OBVIOUS
<1>2. m \in Seq(Nat) /\ <<c>> \in Seq(Nat)
  BY <1>1 DEF Minus
<1>3. PICK x : x = m \o u
  OBVIOUS
<1>4. x \in Seq(Nat)
  BY <1>2, <1>3, ConcatProperties
<1>5. Append(x, c) = x \o <<c>> /\ Append(u, c) = u \o <<c>>
  BY <1>4, AppendIsConcat
<1>6. (m \o u) \o <<c>> = m \o (u \o <<c>>)
  BY <1>2, ConcatAssociative
<1> QED BY <1>1, <1>3, <1>5, <1>6

LEMMA SignedIs ==
  ASSUME NEW u \in Seq(Nat)
  PROVE  Head(<<Minus>> \o u) = Minus /\ Tail(<<Minus>> \o u) = u
<1>1. Minus \in Nat
  BY DEF Minus
<1>2. PICK x, l : x = <<Minus>> \o u /\ l = Len(u)
  OBVIOUS
<1>3. l \in Nat /\ x \in Seq(Nat) /\ Len(x) = l + 1 /\ x[1] = Minus /\ \A k \in 1 .. l : x[k + 1] = u[k]
  BY <1>1, <1>2, OneBefore
<1>4. x # <<>>
  BY <1>3, EmptySeq
<1>5. /\ Head(x) = x[1] /\ Tail(x) \in Seq(Nat) /\ Len(Tail(x)) = Len(x) - 1
      /\ \A k \in 1 .. Len(x) - 1 : Tail(x)[k] = x[k + 1]
  BY <1>3, <1>4, HeadTailProperties
<1>6. Len(x) - 1 = l
  BY <1>3
<1>7. Len(Tail(x)) = Len(u) /\ \A k \in 1 .. Len(Tail(x)) : Tail(x)[k] = u[k]
  BY <1>2, <1>3, <1>5, <1>6
<1>8. Tail(x) = u
  BY <1>5, <1>7, SeqEqual
<1> QED BY <1>2, <1>3, <1>5, <1>8
\* What a byte does to the label, the type and the token.
LEMMA ScanIs ==
  ASSUME NEW n, NEW c, NEW to, to = Label(n.at, c)
  PROVE  /\ scan_number(n, c).at = to
         /\ scan_number(n, c).type = CASE to = "minus" -> "integer"
                                       [] to \in {"decimal1", "exponent"} -> "float"
                                       [] OTHER -> n.type
         /\ scan_number(n, c).token = IF to \in {"done", "error"} THEN n.token ELSE Append(n.token, c)
BY DEF scan_number

\* Only the first byte is a minus sign of the number.
LEMMA MinusFirst ==
  ASSUME NEW at \in Live, at # "init", NEW c PROVE Label(at, c) # "minus"
BY DEF Label, Live, Complete

\* A byte keeps the shape of the token.
LEMMA ScanShape ==
  ASSUME NEW n, n.at \in Live, Shape(n), NEW c \in Nat
  PROVE  Shape(scan_number(n, c))
<1>1. PICK at, to, t, x : /\ at = n.at /\ to = Label(at, c) /\ t = n.token
                          /\ x = scan_number(n, c)
  OBVIOUS
<1>2. /\ x.at = to
      /\ x.type = CASE to = "minus" -> "integer"
                    [] to \in {"decimal1", "exponent"} -> "float"
                    [] OTHER -> n.type
      /\ x.token = IF to \in {"done", "error"} THEN t ELSE Append(t, c)
  BY <1>1, ScanIs
<1>3. at \in Live /\ at # "done" /\ at # "error" /\ to # "init"
  BY <1>1, LabelIs DEF Live
<1>4. CASE n.type = "float" /\ at # "init"
  <2>1. to # "minus"
    BY <1>1, <1>3, <1>4, MinusFirst
  <2>2. x.type = "float"
    BY <1>2, <1>4, <2>1
  <2> QED BY <1>1, <1>2, <1>3, <2>2 DEF Shape
<1>5. CASE n.type = "unsigned" /\ at = "init" /\ t = <<>>
  <2>1. Append(t, c) = <<c>>
    BY <1>5, SingleByte
  <2>2. CASE c = Minus
    <3>1. to = "minus"
      BY <1>1, <1>5, <2>2, Kinds DEF Label
    <3> QED BY <1>1, <1>2, <2>1, <2>2, <3>1 DEF Shape
  <2>3. CASE c = Zero
    <3>1. to = "zero"
      BY <1>1, <1>5, <2>3, Kinds DEF Label
    <3> QED BY <1>1, <1>2, <1>5, <2>1, <2>3, <3>1 DEF Shape
  <2>4. CASE c \in Digit \ {Zero}
    <3>1. to = "any1"
      BY <1>1, <1>5, <2>4, Kinds DEF Label
    <3>2. Whole(<<c>>, c - Zero)
      BY <2>4, WholeFirst
    <3> QED BY <1>1, <1>2, <1>5, <2>1, <3>1, <3>2 DEF Shape
  <2>5. CASE c # Minus /\ c \notin Digit
    <3>1. to = "error"
      BY <1>1, <1>5, <2>5, Kinds DEF Label, Complete
    <3> QED BY <1>1, <1>2, <3>1 DEF Shape
  <2> QED BY <2>2, <2>3, <2>4, <2>5
<1>6. ASSUME at \in {"zero", "any1"}
      PROVE  \/ at = "any1" /\ c \in Digit /\ to = "any1"
             \/ to \in {"decimal1", "exponent"}
             \/ to = "done"
  BY <1>1, <1>6 DEF Label, Complete
<1>7. ASSUME to \in {"decimal1", "exponent"} PROVE Shape(x)
  BY <1>2, <1>7 DEF Shape
<1>8. ASSUME to = "done" PROVE x.at = "done" /\ x.type = n.type /\ x.token = t
  BY <1>2, <1>8
<1>9. CASE n.type = "unsigned" /\ at = "zero" /\ t = <<Zero>>
  <2>1. to \in {"decimal1", "exponent"} \/ to = "done"
    BY <1>6, <1>9
  <2>2. ASSUME to = "done" PROVE Shape(x)
    BY <1>8, <1>9, <2>2 DEF Shape
  <2> QED BY <1>1, <1>7, <2>1, <2>2
<1>10. CASE n.type = "unsigned" /\ at = "any1" /\ \E v : Whole(t, v)
  <2>1. PICK v : Whole(t, v)
    BY <1>10
  <2>2. ASSUME to = "done" PROVE Shape(x)
    BY <1>8, <1>10, <2>1, <2>2 DEF Shape
  <2>3. ASSUME c \in Digit, to = "any1" PROVE Shape(x)
    <3>1. Whole(Append(t, c), 10 * v + (c - Zero))
      BY <2>1, <2>3, WholeMore
    <3>2. x.at = "any1" /\ x.type = "unsigned" /\ x.token = Append(t, c)
      BY <1>2, <1>10, <2>3
    <3> QED BY <3>1, <3>2 DEF Shape
  <2> QED BY <1>1, <1>6, <1>7, <1>10, <2>2, <2>3
<1>11. CASE n.type = "integer" /\ at = "minus" /\ t = <<Minus>>
  <2>1. PICK m : m = <<Minus>>
    OBVIOUS
  <2>2. m \in Seq(Nat)
    BY <2>1, SingleByte DEF Minus
  <2>3. Append(m, c) = m \o <<c>>
    BY <2>2, AppendIsConcat
  <2>4. CASE c = Zero
    <3>1. to = "zero"
      BY <1>1, <1>11, <2>4, Kinds DEF Label
    <3>2. x.at = "zero" /\ x.type = "integer" /\ x.token = <<Minus>> \o <<Zero>>
      BY <1>2, <1>11, <2>1, <2>3, <2>4, <3>1
    <3> QED BY <1>1, <3>2 DEF Shape
  <2>5. CASE c \in Digit \ {Zero}
    <3>1. to = "any1"
      BY <1>1, <1>11, <2>5, Kinds DEF Label
    <3>2. x.at = "any1" /\ x.type = "integer" /\ x.token = <<Minus>> \o <<c>>
      BY <1>2, <1>11, <2>1, <2>3, <3>1
    <3>3. Whole(<<c>>, c - Zero)
      BY <2>5, WholeFirst
    <3> QED BY <1>1, <3>2, <3>3 DEF Shape
  <2>6. CASE c \notin Digit
    <3>1. to = "error"
      BY <1>1, <1>11, <2>6, Kinds DEF Label, Complete
    <3> QED BY <1>1, <1>2, <3>1 DEF Shape
  <2> QED BY <2>4, <2>5, <2>6
<1>12. CASE n.type = "integer" /\ at = "zero" /\ t = <<Minus>> \o <<Zero>>
  <2>1. to \in {"decimal1", "exponent"} \/ to = "done"
    BY <1>6, <1>12
  <2>2. ASSUME to = "done" PROVE Shape(x)
    BY <1>8, <1>12, <2>2 DEF Shape
  <2> QED BY <1>1, <1>7, <2>1, <2>2
<1>13. CASE n.type = "integer" /\ at = "any1" /\ \E u, v : Whole(u, v) /\ t = <<Minus>> \o u
  <2>1. PICK u, v : Whole(u, v) /\ t = <<Minus>> \o u
    BY <1>13
  <2>2. ASSUME to = "done" PROVE Shape(x)
    BY <1>8, <1>13, <2>1, <2>2 DEF Shape
  <2>3. ASSUME c \in Digit, to = "any1" PROVE Shape(x)
    <3>1. Whole(Append(u, c), 10 * v + (c - Zero)) /\ u \in Seq(Nat)
      BY <2>1, <2>3, WholeMore
    <3>2. x.at = "any1" /\ x.type = "integer" /\ x.token = Append(t, c)
      BY <1>2, <1>13, <2>3
    <3>3. Append(t, c) = <<Minus>> \o Append(u, c)
      BY <2>1, <3>1, SignedMore
    <3> QED BY <3>1, <3>2, <3>3 DEF Shape
  <2> QED BY <1>1, <1>6, <1>7, <1>13, <2>2, <2>3
<1> QED BY <1>1, <1>3, <1>4, <1>5, <1>9, <1>10, <1>11, <1>12, <1>13, Zenon DEF Shape

\* A byte keeps what the token replays.
LEMMA ScanReplays ==
  ASSUME NEW n, n.at \in Live, Replays(n), NEW c \in Nat
  PROVE  Replays(scan_number(n, c))
<1>1. PICK at, to, t, x : /\ at = n.at /\ to = Label(at, c) /\ t = n.token
                          /\ x = scan_number(n, c)
  OBVIOUS
<1>2. /\ x.at = to
      /\ x.type = CASE to = "minus" -> "integer"
                    [] to \in {"decimal1", "exponent"} -> "float"
                    [] OTHER -> n.type
      /\ x.token = IF to \in {"done", "error"} THEN t ELSE Append(t, c)
  BY <1>1, ScanIs
<1>3. t \in Seq(Nat) /\ Scans(t, n) /\ at \in Live
  BY <1>1 DEF Replays, Live
<1>4. Append(t, c) \in Seq(Nat) /\ Scans(Append(t, c), x)
  BY <1>1, <1>3, AppendProperties, ScansMore
<1>5. to \in Live \cup {"done", "error"} /\ (to \notin Live => (to = "done" <=> at \in Complete))
  BY <1>1, <1>3, LabelIs
<1>6. "done" \notin Live /\ "error" \notin Live
  BY DEF Live
<1>7. CASE to \in Live
  <2>1. x.token = Append(t, c)
    BY <1>2, <1>6, <1>7
  <2> QED BY <1>1, <1>2, <1>4, <1>7, <2>1 DEF Replays
<1>8. CASE to = "done"
  <2>1. x.token = t /\ x.type = n.type /\ at \in Complete
    BY <1>2, <1>5, <1>6, <1>8
  <2> QED BY <1>1, <1>2, <1>3, <1>8, <2>1 DEF Replays
<1>9. CASE to = "error"
  BY <1>1, <1>2, <1>3, <1>9 DEF Replays
<1> QED BY <1>5, <1>7, <1>8, <1>9
\* A comma, which the aggregator reads next, ends a number.
LEMMA CommaEnds ==
  ASSUME NEW t \in Seq(Nat), NEW m, Scans(t, m), m.at \in Complete
  PROVE  /\ AfterBytes(Append(t, 44)).at = "done"
         /\ AfterBytes(Append(t, 44)).type = m.type /\ AfterBytes(Append(t, 44)).token = m.token
<1>1. PICK c : c = 44
  OBVIOUS
<1>2. c \in Nat /\ c \notin Digit /\ c \notin E /\ c # Point /\ c # Minus
  BY <1>1 DEF Digit, E, Point, Minus
<1>3. PICK x, u : x = scan_number(m, c) /\ u = Append(t, c)
  OBVIOUS
<1>4. u \in Seq(Nat) /\ Scans(u, x)
  BY <1>2, <1>3, ScansMore, AppendProperties
<1>5. AfterBytes(u) = x
  BY <1>4, AfterBytesIs
<1>6. Label(m.at, c) = "done"
  BY <1>2 DEF Label, Complete
<1>7. x.at = "done" /\ x.type = m.type /\ x.token = m.token
  BY <1>3, <1>6, ScanIs
<1> QED BY <1>1, <1>3, <1>5, <1>7

\* The same type and token are converted to the same.
LEMMA ConvertedSame ==
  ASSUME NEW m, NEW n, m.type = n.type, m.token = n.token PROVE Converted(m) = Converted(n)
BY DEF Converted

\* Which it is, and its value.
LEMMA ConvertedIs ==
  ASSUME NEW n, NEW v
  PROVE  /\ n.type = "float" => Converted(n) = <<"float", n.token>>
         /\ n.type = "unsigned" /\ Decimal(n.token) = v =>
              Converted(n) = IF v <= UnsignedMax THEN <<"unsigned", v>> ELSE <<"float", n.token>>
         /\ n.type = "integer" /\ Decimal(Tail(n.token)) = v =>
              Converted(n) = IF -v >= -IntegerLimit THEN <<"integer", -v>> ELSE <<"float", n.token>>
BY DEF Converted

\* A zero has the value nought, and is read from the start.
LEMMA ZeroIs ==
  /\ Decimal(<<Zero>>) = 0 /\ dump_integer(0) = <<Zero>> /\ Head(<<Zero>>) # Minus
  /\ <<Zero>> \in Seq(Nat)
  /\ \E m : Scans(<<Zero>>, m) /\ m.at \in Complete /\ m.type = "unsigned" /\ m.token = <<Zero>>
<1>1. Zero \in Nat
  BY DEF Zero
<1>2. PICK e, z : e = <<>> /\ z = 0
  OBVIOUS
<1>3. e \in Seq(Nat) /\ Append(e, Zero) = <<Zero>> /\ <<Zero>> \in Seq(Nat)
  BY <1>1, <1>2, SingleByte
<1>4. Decimal(<<Zero>>) = 0
  <2>1. Values(e, z)
    BY <1>2, ValuesNone
  <2>2. Values(<<Zero>>, 10 * z + (Zero - Zero))
    BY <1>1, <1>3, <2>1, ValuesMore
  <2>3. 10 * z + (Zero - Zero) = 0
    BY <1>1, <1>2
  <2> QED BY <1>3, <2>2, <2>3, DecimalIs
<1>5. dump_integer(0) = <<Zero>>
  BY DEF dump_integer
<1>6. Head(<<Zero>>) # Minus
  <2>1. Head(<<Zero>>) = Zero
    OBVIOUS
  <2> QED BY <2>1 DEF Zero, Minus
<1>7. \E m : Scans(<<Zero>>, m) /\ m.at \in Complete /\ m.type = "unsigned" /\ m.token = <<Zero>>
  <2>1. PICK m : m = scan_number(Unscanned, Zero)
    OBVIOUS
  <2>2. Scans(e, Unscanned)
    BY <1>2, ScansNone
  <2>3. Scans(<<Zero>>, m)
    BY <1>1, <1>3, <2>1, <2>2, ScansMore
  <2>4. Unscanned.at = "init" /\ Unscanned.type = "unsigned" /\ Unscanned.token = e
    BY <1>2 DEF Unscanned
  <2>5. Label("init", Zero) = "zero"
    BY Kinds DEF Label
  <2>6. m.at = "zero" /\ m.type = "unsigned" /\ m.token = <<Zero>>
    <3>1. PICK to : to = Label(Unscanned.at, Zero)
      OBVIOUS
    <3>2. to = "zero"
      BY <2>4, <2>5, <3>1
    <3>3. /\ m.at = to
          /\ m.type = CASE to = "minus" -> "integer"
                        [] to \in {"decimal1", "exponent"} -> "float"
                        [] OTHER -> Unscanned.type
          /\ m.token = IF to \in {"done", "error"} THEN Unscanned.token ELSE Append(Unscanned.token, Zero)
      BY <2>1, <3>1, ScanIs
    <3>4. m.token = Append(e, Zero)
      BY <2>4, <3>2, <3>3
    <3> QED BY <1>3, <2>4, <3>2, <3>3, <3>4
  <2> QED BY <2>3, <2>6 DEF Complete
<1> QED BY <1>3, <1>4, <1>5, <1>6, <1>7

\* Nought is in every range.
LEMMA NoughtFits ==
  ASSUME NEW z \in Int, z <= 0, z >= 0 PROVE -z >= -IntegerLimit /\ -z = z
<1>1. IntegerLimit \in Nat
  BY NumbersAssumption
<1>2. -z = z
  OBVIOUS
<1>3. z >= -IntegerLimit
  BY <1>1
<1> QED BY <1>2, <1>3

\* What IntegersForwarded asks for, when the value v that was converted is known.
LEMMA ForwardedIs ==
  ASSUME number.at = "done", NEW k, NEW v, Converted(number) = <<k, v>>,
         v = IF Head(number.token) = Minus THEN -Decimal(Tail(number.token))
                                           ELSE Decimal(number.token),
         AfterBytes(Append(dump_integer(v), 44)).at = "done",
         Converted(AfterBytes(Append(dump_integer(v), 44)))
           = IF v = 0 THEN <<"unsigned", 0>> ELSE <<k, v>>
  PROVE  IntegersForwarded
BY DEF IntegersForwarded

\* A real number is not forwarded as an integer.
LEMMA FloatForwarded ==
  ASSUME NEW x, Converted(number) = <<"float", x>> PROVE IntegersForwarded
BY DEF IntegersForwarded

\* The shape of the token, and what it replays, say it.
LEMMA ShapeMeans ==
  ASSUME number.at \in Live \cup {"done", "error"}, Shape(number), Replays(number)
  PROVE  IntegersForwarded
<1> SUFFICES ASSUME number.at = "done" PROVE IntegersForwarded
  BY DEF IntegersForwarded
<1>1. PICK n, t : n = number /\ t = number.token
  OBVIOUS
<1>2. /\ t \in Seq(Nat) /\ n.at = "done"
      /\ \E m : Scans(t, m) /\ m.at \in Complete /\ m.type = n.type /\ m.token = t
  BY <1>1 DEF Replays, Live
\* The bytes that were read, read again.
<1>3. AfterBytes(Append(t, 44)).at = "done" /\ Converted(AfterBytes(Append(t, 44))) = Converted(n)
  <2>1. PICK m : Scans(t, m) /\ m.at \in Complete /\ m.type = n.type /\ m.token = t
    BY <1>2
  <2>2. PICK a : a = AfterBytes(Append(t, 44))
    OBVIOUS
  <2>3. a.at = "done" /\ a.type = n.type /\ a.token = t
    BY <1>2, <2>1, <2>2, CommaEnds
  <2> QED BY <1>1, <2>2, <2>3, ConvertedSame
<1>4. CASE n.type = "float"
  BY <1>1, <1>4, ConvertedIs, FloatForwarded
<1>5. CASE n.type = "unsigned" /\ t = <<Zero>>
  <2>1. PICK z : z = 0
    OBVIOUS
  <2>2. z <= UnsignedMax
    BY <2>1, NumbersAssumption
  <2>3. Decimal(t) = z /\ dump_integer(z) = t /\ Head(t) # Minus
    BY <1>5, <2>1, ZeroIs
  <2>4. Converted(n) = <<"unsigned", z>>
    BY <1>1, <1>5, <2>2, <2>3, ConvertedIs
  <2> QED BY <1>1, <1>2, <1>3, <2>1, <2>3, <2>4, ForwardedIs
<1>6. CASE n.type = "unsigned" /\ \E v : Whole(t, v)
  <2>1. PICK v : Whole(t, v)
    BY <1>6
  <2>2. v \in Nat /\ v > 0 /\ v # 0 /\ t = InDigits(v)
    BY <2>1 DEF Whole
  <2>3. Decimal(t) = v
    BY <1>2, <2>1, DecimalIs DEF Whole
  <2>4. dump_integer(v) = t
    BY <2>2, DumpIntegerIs
  <2>5. Head(t) # Minus
    BY <2>1, WholeHead
  <2>6. CASE v <= UnsignedMax
    <3>1. Converted(n) = <<"unsigned", v>>
      BY <1>1, <1>6, <2>3, <2>6, ConvertedIs
    <3> QED BY <1>1, <1>2, <1>3, <2>2, <2>3, <2>4, <2>5, <3>1, ForwardedIs
  <2>7. CASE ~(v <= UnsignedMax)
    <3>1. Converted(n) = <<"float", t>>
      BY <1>1, <1>6, <2>3, <2>7, ConvertedIs
    <3> QED BY <1>1, <3>1, FloatForwarded
  <2> QED BY <2>6, <2>7
<1>7. CASE n.type = "integer" /\ t = <<Minus>> \o <<Zero>>
  <2>1. PICK z, y : z = 0 /\ y = <<Zero>>
    OBVIOUS
  <2>2. y \in Seq(Nat) /\ Decimal(y) = z /\ dump_integer(z) = y
    BY <2>1, ZeroIs
  <2>3. Tail(t) = y /\ Head(t) = Minus
    BY <1>7, <2>1, <2>2, SignedIs
  <2>4. -z >= -IntegerLimit /\ -z = z
    <3>1. z \in Int /\ z <= 0 /\ z >= 0
      BY <2>1
    <3> HIDE <2>1
    <3> QED BY <3>1, NoughtFits
  <2>5. Converted(n) = <<"integer", z>>
    BY <1>1, <1>7, <2>2, <2>3, <2>4, ConvertedIs
  <2>6. PICK m : Scans(y, m) /\ m.at \in Complete /\ m.type = "unsigned" /\ m.token = y
    BY <2>1, ZeroIs
  <2>7. PICK a : a = AfterBytes(Append(y, 44))
    OBVIOUS
  <2>8. a.at = "done" /\ a.type = "unsigned" /\ a.token = y
    BY <2>2, <2>6, <2>7, CommaEnds
  <2>9. z <= UnsignedMax
    BY <2>1, NumbersAssumption
  <2>10. Converted(a) = <<"unsigned", z>>
    BY <2>2, <2>8, <2>9, ConvertedIs
  <2> QED BY <1>1, <1>2, <2>1, <2>2, <2>3, <2>4, <2>5, <2>7, <2>8, <2>10, ForwardedIs
<1>8. CASE n.type = "integer" /\ \E u, v : Whole(u, v) /\ t = <<Minus>> \o u
  <2>1. PICK u, v : Whole(u, v) /\ t = <<Minus>> \o u
    BY <1>8
  <2>2. v \in Nat /\ v > 0 /\ u = InDigits(v) /\ u \in Seq(Nat)
    BY <2>1, InDigitsIs DEF Whole
  <2>3. Decimal(u) = v
    BY <2>1, <2>2, DecimalIs DEF Whole
  <2>4. Tail(t) = u /\ Head(t) = Minus
    BY <2>1, <2>2, SignedIs
  <2>5. PICK w : w = -v
    OBVIOUS
  <2>6. w # 0 /\ dump_integer(w) = t
    <3>1. dump_integer(-v) = <<Minus>> \o InDigits(v)
      BY <2>2, DumpIntegerIs
    <3>2. w # 0
      BY <2>2, <2>5
    <3> QED BY <2>1, <2>2, <2>5, <3>1, <3>2, Zenon
  <2>7. CASE -v >= -IntegerLimit
    <3>1. Converted(n) = <<"integer", w>>
      BY <1>1, <1>8, <2>3, <2>4, <2>5, <2>7, ConvertedIs
    <3> QED BY <1>1, <1>2, <1>3, <2>3, <2>4, <2>5, <2>6, <3>1, ForwardedIs
  <2>8. CASE ~(-v >= -IntegerLimit)
    <3>1. Converted(n) = <<"float", t>>
      BY <1>1, <1>8, <2>3, <2>4, <2>8, ConvertedIs
    <3> QED BY <1>1, <3>1, FloatForwarded
  <2> QED BY <2>7, <2>8
<1> QED BY <1>1, <1>2, <1>4, <1>5, <1>6, <1>7, <1>8 DEF Shape

\* An integer the provider forwards has the value the server wrote, and the aggregator
\* reads what the provider read, but for the sign of a zero: for every integer, however
\* wide the types it is kept in.
THEOREM NumbersForwarded == NumbersSpec => []IntegersForwarded
<1> DEFINE I == number.at \in Live \cup {"done", "error"} /\ Shape(number) /\ Replays(number)
<1>1. NumbersInit => I
  <2> SUFFICES ASSUME NumbersInit PROVE I
    OBVIOUS
  <2>1. number = Unscanned /\ Unscanned.at = "init" /\ Unscanned.type = "unsigned" /\ Unscanned.token = <<>>
    BY DEF NumbersInit, Unscanned
  <2>2. Shape(number)
    BY <2>1 DEF Shape
  <2>3. number.token \in Seq(Nat) /\ number.at \in Live
    BY <2>1 DEF Live
  <2>4. Scans(number.token, number)
    BY <2>1, ScansNone
  <2> QED BY <2>2, <2>3, <2>4 DEF Replays
<1>2. I /\ [NumbersNext]_numberVars => I'
  <2> SUFFICES ASSUME I, [NumbersNext]_numberVars PROVE I'
    OBVIOUS
  <2>1. ASSUME NEW c \in NumberBytes, NumberByte(c)
        PROVE  /\ number'.at \in Live \cup {"done", "error"}
               /\ Shape(number') /\ Replays(number')
    <3>1. c \in Nat
      BY NumbersAssumption
    <3>2. number.at \in Live /\ number' = scan_number(number, c)
      BY <2>1 DEF NumberByte
    <3>3. Shape(scan_number(number, c)) /\ Replays(scan_number(number, c))
      BY <3>1, <3>2, ScanShape, ScanReplays
    <3>4. scan_number(number, c).at = Label(number.at, c)
      BY ScanIs
    <3>5. Label(number.at, c) \in Live \cup {"done", "error"}
      BY <3>2, LabelIs
    <3> QED BY <3>2, <3>3, <3>4, <3>5
  <2>2. CASE UNCHANGED numberVars
    <3>1. number' = number
      BY <2>2 DEF numberVars
    <3> QED BY <3>1 DEF Shape, Replays
  <2>3. ASSUME NEW c \in NumberBytes, NumberByte(c) PROVE I'
    BY <2>1, <2>3 DEF Shape, Replays, Live
  <2> QED BY <2>2, <2>3 DEF NumbersNext
<1>3. I => IntegersForwarded
  BY ShapeMeans
<1> QED BY <1>1, <1>2, <1>3, PTL DEF NumbersSpec
=============================================================================
