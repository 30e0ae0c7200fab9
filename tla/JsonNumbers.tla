---------------------------- MODULE JsonNumbers ----------------------------
(***************************************************************************)
(* The numbers of a message: the JSON lexer reads one byte by byte         *)
(* (scan_number, a label for each place), converts what it has read, and   *)
(* dump_integer writes what is an integer.                                 *)
(***************************************************************************)
EXTENDS Integers, SequencesExt

CONSTANTS NumberBytes, \* bound: the bytes of a text
          MaxLength,   \* bound: bytes read, the one that ends the number included
          UnsignedMax, \* the largest number_unsigned_t, 2^64 - 1
          IntegerLimit \* number_integer_t goes down to -IntegerLimit, -2^63

ASSUME NumbersAssumption ==
  /\ NumberBytes \subseteq 0 .. 255 /\ MaxLength \in Nat
  /\ UnsignedMax \in Nat /\ IntegerLimit \in Nat

VARIABLES
  read,    \* the bytes read since the scanner was called
  number   \* the label, number_type and token_buffer

numberVars == <<read, number>>
-----------------------------------------------------------------------------
Digit == 48 .. 57
Zero == 48
Minus == 45
Point == 46
Sign == {43, Minus}
E == {69, 101}

\* A number may end at these labels.
Complete == {"zero", "any1", "decimal2", "any2"}

\* Mutant: zeros may lead.
LabelLeadingZeros(at, c) ==
  CASE at = "init" /\ c = Minus -> "minus"
    [] at \in {"init", "minus", "zero", "any1"} /\ c \in Digit -> "any1"
    [] at \in {"zero", "any1"} /\ c = Point -> "decimal1"
    [] at \in {"decimal1", "decimal2"} /\ c \in Digit -> "decimal2"
    [] at \in {"zero", "any1", "decimal2"} /\ c \in E -> "exponent"
    [] at = "exponent" /\ c \in Sign -> "sign"
    [] at \in {"exponent", "sign", "any2"} /\ c \in Digit -> "any2"
    [] OTHER -> IF at \in Complete THEN "done" ELSE "error"

\* The label that byte c leads to.
Label(at, c) ==
  CASE at = "init" /\ c = Minus -> "minus"
    [] at \in {"init", "minus"} /\ c = Zero -> "zero"
    [] at \in {"init", "minus"} /\ c \in Digit \ {Zero} -> "any1"
    [] at = "any1" /\ c \in Digit -> "any1"
    [] at \in {"zero", "any1"} /\ c = Point -> "decimal1"
    [] at \in {"decimal1", "decimal2"} /\ c \in Digit -> "decimal2"
    [] at \in {"zero", "any1", "decimal2"} /\ c \in E -> "exponent"
    [] at = "exponent" /\ c \in Sign -> "sign"
    [] at \in {"exponent", "sign", "any2"} /\ c \in Digit -> "any2"
    [] OTHER -> IF at \in Complete THEN "done" ELSE "error"

Unscanned == [at |-> "init", type |-> "unsigned", token |-> <<>>]

\* One more byte; the byte after a number is given back.
scan_number(n, c) ==
  LET at == Label(n.at, c)
  IN [at |-> at,
      type |-> CASE at = "minus" -> "integer"
                 [] at \in {"decimal1", "exponent"} -> "float"
                 [] OTHER -> n.type,
      token |-> IF at \in {"done", "error"} THEN n.token ELSE Append(n.token, c)]

Decimal(digits) ==
  LET upTo[n \in 0 .. Len(digits)] ==
        IF n = 0 THEN 0 ELSE 10 * upTo[n - 1] + (digits[n] - Zero)
  IN upTo[Len(digits)]

\* Mutant: an integer is taken whatever strtoll says of its range.
ConvertedWrapped(n) ==
  CASE n.type = "unsigned" -> <<"unsigned", Decimal(n.token) % (UnsignedMax + 1)>>
    [] n.type = "integer" -> <<"integer", -(Decimal(Tail(n.token)) % IntegerLimit)>>
    [] OTHER -> <<"float", n.token>>

\* What follows scan_number_done: strtoull or strtoll, and strtof if there was a
\* point or an exponent or the integer is out of range.
Converted(n) ==
  CASE n.type = "unsigned" /\ Decimal(n.token) <= UnsignedMax -> <<"unsigned", Decimal(n.token)>>
    [] n.type = "integer" /\ -Decimal(Tail(n.token)) >= -IntegerLimit ->
         <<"integer", -Decimal(Tail(n.token))>>
    [] OTHER -> <<"float", n.token>>

\* The digits of x, the last one first: labs(x % 10), then x /= 10.
Digits(x) ==
  LET least[n \in Nat] == IF n = 0 THEN <<>> ELSE <<Zero + (n % 10)>> \o least[n \div 10]
  IN least[IF x < 0 THEN -x ELSE x]

dump_integer(x) ==
  IF x = 0 THEN <<Zero>> ELSE Reverse(Digits(x) \o IF x < 0 THEN <<Minus>> ELSE <<>>)
-----------------------------------------------------------------------------
NumbersInit == read = <<>> /\ number = Unscanned

\* scan calls scan_number for a digit or a minus sign only.
NumberByte(c) ==
  /\ number.at \notin {"done", "error"}
  /\ number.at = "init" => c \in Digit \cup {Minus}
  /\ Len(read) < MaxLength
  /\ read' = Append(read, c)
  /\ number' = scan_number(number, c)

NumbersNext == \E c \in NumberBytes : NumberByte(c)

NumbersSpec == NumbersInit /\ [][NumbersNext]_numberVars
-----------------------------------------------------------------------------
\* RFC 7159, section 6: [minus] int [frac] [exp].
IsNumber(s) ==
  \E i, f, x \in 0 .. Len(s) :
    LET int == SubSeq(s, i + 1, f)
        frac == SubSeq(s, f + 1, x)
        exp == SubSeq(s, x + 1, Len(s))
        All(r) == r # <<>> /\ ToSet(r) \subseteq Digit
    IN /\ i <= f /\ f <= x
       /\ SubSeq(s, 1, i) \in {<<>>, <<Minus>>}
       /\ All(int) /\ (Len(int) > 1 => Head(int) # Zero)
       /\ frac = <<>> \/ (Head(frac) = Point /\ All(Tail(frac)))
       /\ exp = <<>> \/ /\ Head(exp) \in E
                        /\ \/ All(Tail(exp))
                           \/ Len(exp) > 1 /\ exp[2] \in Sign /\ All(Tail(Tail(exp)))

\* More bytes can make a number of it, if any: a digit is enough.
MayBeNumber(s) == IsNumber(s) \/ IsNumber(Append(s, Zero))

\* The scanner takes the longest number the text begins with, gives back one byte,
\* and fails at the first byte after which there is none: the grammar of RFC 7159,
\* sect. 6, as json.hpp:2514 says.  The table of states below that line (json.hpp:2528)
\* contradicts both the grammar and the code in one entry: it has [error] for a digit
\* 1-9 right behind the point, so that "0.2" would be no number.
NumbersFollowGrammar ==
  CASE number.at = "done" ->
         IsNumber(Front(read)) /\ ~MayBeNumber(read) /\ number.token = Front(read)
    [] number.at = "error" -> ~IsNumber(Front(read)) /\ ~MayBeNumber(read)
    [] number.at = "init" -> read = <<>>
    [] OTHER -> MayBeNumber(read) /\ (number.at \in Complete <=> IsNumber(read))

\* The scanner after all of these bytes.
AfterBytes(bytes) ==
  LET upTo[n \in 0 .. Len(bytes)] ==
        IF n = 0 THEN Unscanned ELSE scan_number(upTo[n - 1], bytes[n])
  IN upTo[Len(bytes)]

\* An integer the provider forwards has the value the server wrote, and is read by
\* the aggregator as what the provider read, but for the sign of a zero.
IntegersForwarded ==
  number.at = "done" /\ Converted(number)[1] # "float" =>
    LET v == Converted(number)[2]
        again == AfterBytes(Append(dump_integer(v), 44))
    IN /\ v = IF Head(number.token) = Minus THEN -Decimal(Tail(number.token))
                                            ELSE Decimal(number.token)
       /\ again.at = "done"
       /\ Converted(again) = IF v = 0 THEN <<"unsigned", 0>> ELSE Converted(number)
=============================================================================
