-------------------------- MODULE JsonStringsProofs --------------------------
(***************************************************************************)
(* The JSON lexer's ranges and websocketpp's UTF-8 table are the same      *)
(* automaton, for every byte and strings of any length.                    *)
(***************************************************************************)
EXTENDS JsonStrings, Utf8Proofs

Places == {"char", "escape", "low", "lowEscape", "tail", "done"}

LexerState ==
  [at : Places \cup Causes, ranges : Seq(SUBSET Int), high : Int, added : Seq(Int),
   token : Seq(Int)]

LexTypeOK == lex \in LexerState /\ utf8 \in 0 .. 8

Inv == LexTypeOK /\ SameText
-----------------------------------------------------------------------------
(* The table. *)

\* ASCII between two characters changes nothing.
LEMMA Ascii == ASSUME NEW b \in 0 .. 127 PROVE Decode(0, b) = 0
BY DEF Decode, Class, After

\* What may follow is never nothing.
LEMMA RangesNonEmpty == ASSUME NEW s \in 2 .. 8 PROVE RangesOf(s) # <<>>
BY DEF RangesOf, Tail1, Tail2, Tail3, TailE0, TailED, TailF0, TailF4

\* Where a character begins, both expect the same bytes to follow a first byte.
LEMMA Lead ==
  ASSUME NEW b \in 128 .. 255
  PROVE  IF RangesAfter(b) = <<>> THEN Decode(0, b) = 1
         ELSE Decode(0, b) \in 2 .. 8 /\ RangesAfter(b) = RangesOf(Decode(0, b))
<1>1. CASE b \in 194 .. 223
  <2>1. Class(b) = 2 BY <1>1 DEF Class
  <2>2. Decode(0, b) = 2 BY <2>1 DEF Decode, After
  <2>3. /\ b \in 194 .. 223 /\ b \notin (225 .. 239) \ {237} /\ b \notin 241 .. 243
        /\ b # 224 /\ b # 237 /\ b # 240 /\ b # 244
    BY <1>1
  <2>4. RangesAfter(b) = Tail1 BY <2>3 DEF RangesAfter
  <2>5. RangesOf(2) = Tail1 BY DEF RangesOf
  <2> QED BY <2>2, <2>4, <2>5, RangesNonEmpty
<1>2. CASE b = 224
  <2>1. Class(b) = 10 BY <1>2 DEF Class
  <2>2. Decode(0, b) = 4 BY <2>1 DEF Decode, After
  <2>3. RangesAfter(b) = RangesOf(4) BY <1>2 DEF RangesAfter, RangesOf
  <2> QED BY <2>2, <2>3, RangesNonEmpty
<1>3. CASE b \in 225 .. 239 \ {237}
  <2>1. Class(b) = 3 BY <1>3 DEF Class
  <2>2. Decode(0, b) = 3 BY <2>1 DEF Decode, After
  <2>3. RangesAfter(b) = RangesOf(3) BY <1>3 DEF RangesAfter, RangesOf
  <2> QED BY <2>2, <2>3, RangesNonEmpty
<1>4. CASE b = 237
  <2>1. Class(b) = 4 BY <1>4 DEF Class
  <2>2. Decode(0, b) = 5 BY <2>1 DEF Decode, After
  <2>3. RangesAfter(b) = RangesOf(5) BY <1>4 DEF RangesAfter, RangesOf
  <2> QED BY <2>2, <2>3, RangesNonEmpty
<1>5. CASE b = 240
  <2>1. Class(b) = 11 BY <1>5 DEF Class
  <2>2. Decode(0, b) = 6 BY <2>1 DEF Decode, After
  <2>3. RangesAfter(b) = RangesOf(6) BY <1>5 DEF RangesAfter, RangesOf
  <2> QED BY <2>2, <2>3, RangesNonEmpty
<1>6. CASE b \in 241 .. 243
  <2>1. Class(b) = 6 BY <1>6 DEF Class
  <2>2. Decode(0, b) = 7 BY <2>1 DEF Decode, After
  <2>3. RangesAfter(b) = RangesOf(7) BY <1>6 DEF RangesAfter, RangesOf
  <2> QED BY <2>2, <2>3, RangesNonEmpty
<1>7. CASE b = 244
  <2>1. Class(b) = 5 BY <1>7 DEF Class
  <2>2. Decode(0, b) = 8 BY <2>1 DEF Decode, After
  <2>3. RangesAfter(b) = RangesOf(8) BY <1>7 DEF RangesAfter, RangesOf
  <2> QED BY <2>2, <2>3, RangesNonEmpty
<1>8. CASE b \in (128 .. 193) \cup (245 .. 255)
  <2>1. Class(b) \in {1, 7, 8, 9} BY <1>8 DEF Class
  <2>2. Decode(0, b) = 1 BY <2>1 DEF Decode, After
  <2>3. /\ b \notin 194 .. 223 /\ b \notin (225 .. 239) \ {237} /\ b \notin 241 .. 243
        /\ b # 224 /\ b # 237 /\ b # 240 /\ b # 244
    BY <1>8
  <2>4. RangesAfter(b) = <<>> BY <2>3 DEF RangesAfter
  <2> QED BY <2>2, <2>4
<1> QED BY <1>1, <1>2, <1>3, <1>4, <1>5, <1>6, <1>7, <1>8

\* The bytes that continue a character have three classes.
LEMMA Continuing ==
  ASSUME NEW b \in Byte
  PROVE  /\ Class(b) = 1 <=> b \in 128 .. 143
         /\ Class(b) = 9 <=> b \in 144 .. 159
         /\ Class(b) = 7 <=> b \in 160 .. 191
BY DEF Class, Byte

\* Inside a character, both wait for the same byte and go on to the same rest.
LEMMA Follow ==
  ASSUME NEW u \in 2 .. 8, NEW b \in Byte
  PROVE  IF b \in Head(RangesOf(u))
           THEN IF Len(RangesOf(u)) = 1 THEN Decode(u, b) = 0
                ELSE /\ Decode(u, b) \in 2 .. 8
                     /\ Tail(RangesOf(u)) = RangesOf(Decode(u, b))
           ELSE Decode(u, b) = 1
<1>1. CASE u = 2
  <2>1. Head(RangesOf(u)) = 128 .. 191 /\ Len(RangesOf(u)) = 1
    BY <1>1 DEF RangesOf, Tail1
  <2>3. Class(b) \in {1, 7, 9} <=> b \in 128 .. 191
    BY Continuing DEF Byte
  <2>4. Decode(u, b) = IF Class(b) \in {1, 7, 9} THEN 0 ELSE 1
    BY <1>1 DEF Decode, After
  <2> QED BY <2>1, <2>3, <2>4
<1>2. CASE u = 3
  <2>1. Head(RangesOf(u)) = 128 .. 191 /\ Len(RangesOf(u)) = 2
    BY <1>2 DEF RangesOf, Tail1, Tail2
  <2>2. Tail(RangesOf(u)) = RangesOf(2)
    BY <1>2 DEF RangesOf, Tail1, Tail2
  <2>3. Class(b) \in {1, 7, 9} <=> b \in 128 .. 191
    BY Continuing DEF Byte
  <2>4. Decode(u, b) = IF Class(b) \in {1, 7, 9} THEN 2 ELSE 1
    BY <1>2 DEF Decode, After
  <2> QED BY <2>1, <2>2, <2>3, <2>4
<1>3. CASE u = 4
  <2>1. Head(RangesOf(u)) = 160 .. 191 /\ Len(RangesOf(u)) = 2
    BY <1>3 DEF RangesOf, TailE0, Tail1
  <2>2. Tail(RangesOf(u)) = RangesOf(2)
    BY <1>3 DEF RangesOf, TailE0, Tail1
  <2>3. Class(b) \in {7} <=> b \in 160 .. 191
    BY Continuing DEF Byte
  <2>4. Decode(u, b) = IF Class(b) \in {7} THEN 2 ELSE 1
    BY <1>3 DEF Decode, After
  <2> QED BY <2>1, <2>2, <2>3, <2>4
<1>4. CASE u = 5
  <2>1. Head(RangesOf(u)) = 128 .. 159 /\ Len(RangesOf(u)) = 2
    BY <1>4 DEF RangesOf, TailED, Tail1
  <2>2. Tail(RangesOf(u)) = RangesOf(2)
    BY <1>4 DEF RangesOf, TailED, Tail1
  <2>3. Class(b) \in {1, 9} <=> b \in 128 .. 159
    BY Continuing DEF Byte
  <2>4. Decode(u, b) = IF Class(b) \in {1, 9} THEN 2 ELSE 1
    BY <1>4 DEF Decode, After
  <2> QED BY <2>1, <2>2, <2>3, <2>4
<1>5. CASE u = 6
  <2>1. Head(RangesOf(u)) = 144 .. 191 /\ Len(RangesOf(u)) = 3
    BY <1>5 DEF RangesOf, TailF0, Tail2
  <2>2. Tail(RangesOf(u)) = RangesOf(3)
    BY <1>5 DEF RangesOf, TailF0, Tail2
  <2>3. Class(b) \in {7, 9} <=> b \in 144 .. 191
    BY Continuing DEF Byte
  <2>4. Decode(u, b) = IF Class(b) \in {7, 9} THEN 3 ELSE 1
    BY <1>5 DEF Decode, After
  <2> QED BY <2>1, <2>2, <2>3, <2>4
<1>6. CASE u = 7
  <2>1. Head(RangesOf(u)) = 128 .. 191 /\ Len(RangesOf(u)) = 3
    BY <1>6 DEF RangesOf, Tail2, Tail3
  <2>2. Tail(RangesOf(u)) = RangesOf(3)
    BY <1>6 DEF RangesOf, Tail2, Tail3
  <2>3. Class(b) \in {1, 7, 9} <=> b \in 128 .. 191
    BY Continuing DEF Byte
  <2>4. Decode(u, b) = IF Class(b) \in {1, 7, 9} THEN 3 ELSE 1
    BY <1>6 DEF Decode, After
  <2> QED BY <2>1, <2>2, <2>3, <2>4
<1>7. CASE u = 8
  <2>1. Head(RangesOf(u)) = 128 .. 143 /\ Len(RangesOf(u)) = 3
    BY <1>7 DEF RangesOf, TailF4, Tail2
  <2>2. Tail(RangesOf(u)) = RangesOf(3)
    BY <1>7 DEF RangesOf, TailF4, Tail2
  <2>3. Class(b) \in {1} <=> b \in 128 .. 143
    BY Continuing DEF Byte
  <2>4. Decode(u, b) = IF Class(b) \in {1} THEN 3 ELSE 1
    BY <1>7 DEF Decode, After
  <2> QED BY <2>1, <2>2, <2>3, <2>4
<1> QED BY <1>1, <1>2, <1>3, <1>4, <1>5, <1>6, <1>7

-----------------------------------------------------------------------------
(* The lexer, by the place it is at. *)

\* To refuse, to add and to go to another place keep the type.
LEMMA AtType ==
  ASSUME NEW st \in LexerState, NEW x \in Places \cup Causes
  PROVE  [st EXCEPT !.at = x] \in LexerState /\ [st EXCEPT !.at = x].at = x
BY DEF LexerState

\* A refusal, whatever its cause.
LEMMA RefusedType ==
  ASSUME NEW st \in LexerState, NEW cause \in Causes
  PROVE  Refused(st, cause) \in LexerState /\ Refused(st, cause).at = cause
BY AtType DEF Refused

\* A character, or a part of it, is added.
LEMMA AddType ==
  ASSUME NEW st \in LexerState, NEW bytes \in Seq(Int)
  PROVE  /\ Add(st, bytes) \in LexerState /\ Add(st, bytes).at = "char"
         /\ Add(st, bytes).ranges = st.ranges
<1>1. st.token \o bytes \in Seq(Int) BY DEF LexerState
<1>2. "char" \in Places \cup Causes BY DEF Places
<1> QED BY <1>1, <1>2 DEF Add, LexerState

\* What may follow a first byte is a sequence of sets of bytes.
LEMMA RangesType ==
  ASSUME NEW b
  PROVE  RangesAfter(b) \in Seq(SUBSET Int)
<1>1. /\ Tail1 \in Seq(SUBSET Int) /\ Tail2 \in Seq(SUBSET Int) /\ Tail3 \in Seq(SUBSET Int)
      /\ TailE0 \in Seq(SUBSET Int) /\ TailED \in Seq(SUBSET Int)
      /\ TailF0 \in Seq(SUBSET Int) /\ TailF4 \in Seq(SUBSET Int)
  BY DEF Tail1, Tail2, Tail3, TailE0, TailED, TailF0, TailF4
<1> QED BY <1>1 DEF RangesAfter

\* ASCII begins no character of several bytes.
LEMMA AsciiRanges == ASSUME NEW b \in 0 .. 127 PROVE RangesAfter(b) = <<>>
<1>1. /\ b \notin 194 .. 223 /\ b \notin (225 .. 239) \ {237} /\ b \notin 241 .. 243
      /\ b # 224 /\ b # 237 /\ b # 240 /\ b # 244
  OBVIOUS
<1> QED BY <1>1 DEF RangesAfter

\* A byte is a sequence of one.
LEMMA OneByte == ASSUME NEW b \in Byte PROVE <<b>> \in Seq(Int)
BY DEF Byte

\* Where a character begins, no byte of ASCII is ill-formed, and none leads to a tail.
LEMMA FirstAscii ==
  ASSUME NEW st \in LexerState, NEW s \in 0 .. 127
  PROVE  /\ First(st, s) \in LexerState
         /\ First(st, s).at \in {"done", "escape", "control", "char"}
<1>1. RangesAfter(s) = <<>> BY AsciiRanges
<1>2. CASE s = 34
  <2>1. First(st, s) = [st EXCEPT !.at = "done"] BY <1>1, <1>2 DEF First
  <2>2. "done" \in Places \cup Causes BY DEF Places
  <2> QED BY <2>1, <2>2, AtType
<1>3. CASE s = 92
  <2>1. First(st, s) = [st EXCEPT !.at = "escape"] BY <1>1, <1>3 DEF First
  <2>2. "escape" \in Places \cup Causes BY DEF Places
  <2> QED BY <2>1, <2>2, AtType
<1>4. CASE s <= 31
  <2>1. s # 34 /\ s # 92 /\ s \notin (32 .. 127) \ {34, 92} BY <1>4
  <2>2. First(st, s) = Refused(st, "control") BY <1>1, <1>4, <2>1 DEF First
  <2>3. "control" \in Causes BY DEF Causes
  <2> QED BY <2>2, <2>3, RefusedType
<1>5. CASE s \in (32 .. 127) \ {34, 92}
  <2>1. s # 34 /\ s # 92 /\ ~(s <= 31) BY <1>5
  <2>2. First(st, s) = Add(st, <<s>>) BY <1>1, <1>5, <2>1 DEF First
  <2>3. <<s>> \in Seq(Int) BY OneByte DEF Byte
  <2> QED BY <2>2, <2>3, AddType
<1> QED BY <1>2, <1>3, <1>4, <1>5

\* Any other byte begins a character, whose tail follows, or is ill-formed.
LEMMA FirstOther ==
  ASSUME NEW st \in LexerState, NEW s \in 128 .. 255
  PROVE  /\ First(st, s) \in LexerState
         /\ IF RangesAfter(s) = <<>> THEN First(st, s).at = "ill-formed"
            ELSE First(st, s).at = "tail" /\ First(st, s).ranges = RangesAfter(s)
<1>1. s # 34 /\ s # 92 /\ ~(s <= 31) /\ s \notin (32 .. 127) \ {34, 92}
  OBVIOUS
<1>2. CASE RangesAfter(s) = <<>>
  <2>1. First(st, s) = Refused(st, "ill-formed") BY <1>1, <1>2 DEF First
  <2>2. "ill-formed" \in Causes BY DEF Causes
  <2> QED BY <1>2, <2>1, <2>2, RefusedType
<1>3. CASE RangesAfter(s) # <<>>
  <2>1. First(st, s) = [Add(st, <<s>>) EXCEPT !.at = "tail", !.ranges = RangesAfter(s)]
    BY <1>1, <1>3 DEF First
  <2>2. <<s>> \in Seq(Int) BY OneByte DEF Byte
  <2>3. Add(st, <<s>>) \in LexerState BY <2>2, AddType
  <2>4. "tail" \in Places \cup Causes BY DEF Places
  <2>5. RangesAfter(s) \in Seq(SUBSET Int) BY RangesType
  <2>6. /\ First(st, s) \in LexerState /\ First(st, s).at = "tail"
        /\ First(st, s).ranges = RangesAfter(s)
    BY <2>1, <2>3, <2>4, <2>5 DEF LexerState
  <2> QED BY <1>3, <2>6
<1> QED BY <1>2, <1>3

\* Inside a character, the lexer goes on with the rest of the ranges.
LEMMA TailByte ==
  ASSUME NEW st \in LexerState, NEW s \in Byte, NEW at, NEW rest \in Seq(SUBSET Int),
         at = IF Len(st.ranges) = 1 THEN "char" ELSE "tail", rest = Tail(st.ranges)
  PROVE  /\ next_byte_in_range(st, s) \in LexerState
         /\ IF s \in Head(st.ranges)
              THEN next_byte_in_range(st, s).at = at /\ next_byte_in_range(st, s).ranges = rest
              ELSE next_byte_in_range(st, s).at = "ill-formed"
<1>1. CASE s \in Head(st.ranges)
  <2>1. <<s>> \in Seq(Int) BY OneByte
  <2>2. Add(st, <<s>>) \in LexerState /\ Add(st, <<s>>).ranges = st.ranges
    BY <2>1, AddType
  <2>3. next_byte_in_range(st, s) = [Add(st, <<s>>) EXCEPT !.ranges = rest, !.at = at]
    BY <1>1, <2>2 DEF next_byte_in_range
  <2>4. at \in Places \cup Causes BY DEF Places
  <2>5. /\ next_byte_in_range(st, s) \in LexerState
        /\ next_byte_in_range(st, s).at = at
        /\ next_byte_in_range(st, s).ranges = rest
    BY <2>2, <2>3, <2>4 DEF LexerState
  <2> QED BY <1>1, <2>5
<1>2. CASE s \notin Head(st.ranges)
  <2>1. next_byte_in_range(st, s) = Refused(st, "ill-formed")
    BY <1>2 DEF next_byte_in_range
  <2>2. "ill-formed" \in Causes BY DEF Causes
  <2> QED BY <1>2, <2>1, <2>2, RefusedType
<1> QED BY <1>1, <1>2

\* A surrogate is kept.
LEMMA HighType ==
  ASSUME NEW st \in LexerState, NEW x \in Places \cup Causes, NEW c \in Int
  PROVE  /\ [st EXCEPT !.high = c] \in LexerState
         /\ [st EXCEPT !.at = x, !.high = c] \in LexerState
         /\ [st EXCEPT !.at = x, !.high = c].at = x
<1>1. [st EXCEPT !.high = c] \in LexerState BY DEF LexerState
<1>2. [st EXCEPT !.at = x, !.high = c] \in LexerState BY DEF LexerState
<1>3. [st EXCEPT !.at = x, !.high = c].at = x BY DEF LexerState
<1> QED BY <1>1, <1>2, <1>3

\* The second of two escapes forgets the first.
LEMMA NoHighType == ASSUME NEW st \in LexerState PROVE [st EXCEPT !.high = 0] \in LexerState
<1>1. PICK z \in Int : z = 0 OBVIOUS
<1>2. [st EXCEPT !.high = z] \in LexerState BY DEF LexerState
<1> QED BY <1>1, <1>2

\* The bytes of a code point are numbers.
LEMMA EncodedType == ASSUME NEW c \in Int PROVE Encoded(c) \in Seq(Int)
<1>1. CASE c < 128
  <2>1. Encoded(c) = <<c>> BY <1>1 DEF Encoded
  <2> QED BY <2>1
<1>2. CASE 128 <= c /\ c < 2048
  <2>1. Encoded(c) = <<192 + c \div 64, 128 + (c % 64)>> BY <1>2 DEF Encoded
  <2> QED BY <2>1
<1>3. CASE 2048 <= c /\ c < 65536
  <2>1. Encoded(c) = <<224 + c \div 4096, 128 + ((c \div 64) % 64), 128 + (c % 64)>>
    BY <1>3 DEF Encoded
  <2> QED BY <2>1
<1>4. CASE 65536 <= c
  <2>1. Encoded(c) = <<240 + c \div 262144, 128 + ((c \div 4096) % 64),
                       128 + ((c \div 64) % 64), 128 + (c % 64)>>
    BY <1>4 DEF Encoded
  <2> QED BY <2>1
<1> QED BY <1>1, <1>2, <1>3, <1>4

\* \uXXXX leaves no tail behind.
LEMMA UnicodeType ==
  ASSUME NEW st \in LexerState, NEW c \in Int
  PROVE  /\ Unicode(st, c) \in LexerState
         /\ Unicode(st, c).at \in {"char", "low", "surrogate"}
<1>1. CASE High(c)
  <2>1. ~Low(c) BY <1>1 DEF High, Low
  <2>2. Unicode(st, c) = [st EXCEPT !.at = "low", !.high = c]
    BY <1>1, <2>1 DEF Unicode
  <2>3. "low" \in Places \cup Causes BY DEF Places
  <2>4. [st EXCEPT !.at = "low", !.high = c] \in LexerState
        /\ [st EXCEPT !.at = "low", !.high = c].at = "low"
    BY <2>3, HighType
  <2> QED BY <2>2, <2>4
<1>2. CASE Low(c)
  <2>1. ~High(c) BY <1>2 DEF High, Low
  <2>2. Unicode(st, c) = Refused(st, "surrogate") BY <1>2, <2>1 DEF Unicode
  <2>3. "surrogate" \in Causes BY DEF Causes
  <2> QED BY <2>2, <2>3, RefusedType
<1>3. CASE ~High(c) /\ ~Low(c)
  <2>1. Unicode(st, c) = Add(st, Encoded(c)) BY <1>3 DEF Unicode
  <2>2. Encoded(c) \in Seq(Int) BY EncodedType
  <2> QED BY <2>1, <2>2, AddType
<1> QED BY <1>1, <1>2, <1>3

Symbols == {s \in Nat : s <= NoDigits}

\* Neither does any other escape, and none takes a byte beyond ASCII.
LEMMA EscapedType ==
  ASSUME NEW st \in LexerState, NEW s \in Symbols
  PROVE  /\ Escaped(st, s) \in LexerState
         /\ Escaped(st, s).at \in {"char", "low", "bad escape", "surrogate"}
         /\ s \in 128 .. 255 => Escaped(st, s).at = "bad escape"
<1> DEFINE letter == \E e \in Short : e[1] = s
           stands == (CHOOSE e \in Short : e[1] = s)[2]
<1>0. s \in Nat BY DEF Symbols
<1>1. letter => s \in {98, 102, 110, 114, 116} /\ stands \in {8, 9, 10, 12, 13}
  <2>1. SUFFICES ASSUME letter
                 PROVE  s \in {98, 102, 110, 114, 116} /\ stands \in {8, 9, 10, 12, 13}
    OBVIOUS
  <2>2. (CHOOSE e \in Short : e[1] = s) \in Short BY <2>1
  <2> QED BY <2>1, <2>2 DEF Short
<1> HIDE DEF letter, stands
<1>2. Escaped(st, s) =
        CASE s \in {34, 47, 92} -> Add(st, <<s>>)
          [] letter -> Add(st, <<stands>>)
          [] 256 <= s /\ s < NoDigits -> Unicode(st, s - 256)
          [] OTHER -> Refused(st, "bad escape")
  BY DEF Escaped, letter, stands
<1>3. CASE s \in {34, 47, 92}
  <2>1. ~letter /\ ~(256 <= s) /\ s \notin 128 .. 255 BY <1>1, <1>3
  <2>2. Escaped(st, s) = Add(st, <<s>>) BY <1>2, <1>3, <2>1
  <2>3. <<s>> \in Seq(Int) BY <1>0
  <2>4. Escaped(st, s) \in LexerState /\ Escaped(st, s).at = "char" BY <2>2, <2>3, AddType
  <2> QED BY <2>1, <2>4
<1>4. CASE letter
  <2>1. s \notin {34, 47, 92} /\ ~(256 <= s) /\ s \notin 128 .. 255 BY <1>1, <1>4
  <2>2. Escaped(st, s) = Add(st, <<stands>>) BY <1>2, <1>4, <2>1
  <2>3. <<stands>> \in Seq(Int) BY <1>1, <1>4
  <2>4. Escaped(st, s) \in LexerState /\ Escaped(st, s).at = "char" BY <2>2, <2>3, AddType
  <2> QED BY <2>1, <2>4
<1>5. CASE 256 <= s /\ s < NoDigits
  <2>1. s \notin {34, 47, 92} /\ ~letter /\ s \notin 128 .. 255 BY <1>0, <1>1, <1>5
  <2>2. Escaped(st, s) = Unicode(st, s - 256) BY <1>2, <1>5, <2>1
  <2>3. s - 256 \in Int BY <1>0
  <2>4. /\ Unicode(st, s - 256) \in LexerState
        /\ Unicode(st, s - 256).at \in {"char", "low", "surrogate"}
    BY <2>3, UnicodeType
  <2> QED BY <2>1, <2>2, <2>4
<1>6. CASE s \notin {34, 47, 92} /\ ~letter /\ ~(256 <= s /\ s < NoDigits)
  <2>1. Escaped(st, s) = Refused(st, "bad escape") BY <1>2, <1>6
  <2>2. "bad escape" \in Causes BY DEF Causes
  <2> QED BY <2>1, <2>2, RefusedType
<1> QED BY <1>3, <1>4, <1>5, <1>6

\* The second of two escapes ends a character or is refused; it is no byte.
LEMMA LowSurrogateType ==
  ASSUME NEW st \in LexerState, NEW s \in Symbols
  PROVE  /\ LowSurrogate(st, s) \in LexerState
         /\ LowSurrogate(st, s).at \in {"char", "surrogate"}
         /\ s < 256 => LowSurrogate(st, s).at = "surrogate"
<1>1. CASE s >= 256 /\ Low(s - 256)
  <2>1. s \in Int BY DEF Symbols
  <2>2. st.high * 1024 + (s - 256) - 56613888 \in Int BY <2>1 DEF LexerState
  <2>3. Encoded(st.high * 1024 + (s - 256) - 56613888) \in Seq(Int) BY <2>2, EncodedType
  <2>4. [st EXCEPT !.high = 0] \in LexerState BY NoHighType
  <2>5. LowSurrogate(st, s)
          = Add([st EXCEPT !.high = 0], Encoded(st.high * 1024 + (s - 256) - 56613888))
    BY <1>1 DEF LowSurrogate
  <2>6. LowSurrogate(st, s) \in LexerState /\ LowSurrogate(st, s).at = "char"
    BY <2>3, <2>4, <2>5, AddType
  <2>7. ~(s < 256) BY <1>1, <2>1
  <2> QED BY <2>6, <2>7
<1>2. CASE ~(s >= 256 /\ Low(s - 256))
  <2>1. LowSurrogate(st, s) = Refused(st, "surrogate") BY <1>2 DEF LowSurrogate
  <2>2. "surrogate" \in Causes BY DEF Causes
  <2> QED BY <2>1, <2>2, RefusedType
<1> QED BY <1>1, <1>2
-----------------------------------------------------------------------------
(* The steps. *)

\* Between two characters and in an escape the validator is between two characters
\* as well; a byte that the lexer takes there leaves it so.
LEMMA FirstStep ==
  ASSUME NEW st \in LexerState, NEW s \in Byte
  PROVE  LET new == First(st, s)
             u == Decode(0, s)
         IN /\ new \in LexerState
            /\ new.at = "ill-formed" => u = 1
            /\ u = 1 => new.at \in Causes
            /\ new.at = "tail" => u \in 2 .. 8 /\ new.ranges = RangesOf(u)
            /\ new.at \notin Causes \cup {"tail"} => u = 0
<1>1. CASE s \in 0 .. 127
  <2>1. Decode(0, s) = 0 BY <1>1, Ascii
  <2>2. First(st, s) \in LexerState /\ First(st, s).at \in {"done", "escape", "control", "char"}
    BY <1>1, FirstAscii
  <2> QED BY <2>1, <2>2
<1>2. CASE s \in 128 .. 255
  <2>1. /\ First(st, s) \in LexerState
        /\ IF RangesAfter(s) = <<>> THEN First(st, s).at = "ill-formed"
           ELSE First(st, s).at = "tail" /\ First(st, s).ranges = RangesAfter(s)
    BY <1>2, FirstOther
  <2>2. IF RangesAfter(s) = <<>> THEN Decode(0, s) = 1
        ELSE Decode(0, s) \in 2 .. 8 /\ RangesAfter(s) = RangesOf(Decode(0, s))
    BY <1>2, Lead
  <2>3. CASE RangesAfter(s) = <<>> BY <2>1, <2>2, <2>3 DEF Causes
  <2>4. CASE RangesAfter(s) # <<>>
    <3>1. First(st, s).at = "tail" /\ First(st, s).ranges = RangesOf(Decode(0, s))
      BY <2>1, <2>2, <2>4
    <3>2. Decode(0, s) \in 2 .. 8 BY <2>2, <2>4
    <3>3. Decode(0, s) # 1 BY <3>2
    <3> QED BY <2>1, <3>1, <3>2, <3>3 DEF Causes
  <2> QED BY <2>3, <2>4
<1> QED BY <1>1, <1>2 DEF Byte

\* Inside a character both go on, end it, or find it ill-formed.
LEMMA TailStep ==
  ASSUME NEW st \in LexerState, NEW u \in 2 .. 8, st.ranges = RangesOf(u), NEW s \in Byte
  PROVE  LET new == next_byte_in_range(st, s)
             w == Decode(u, s)
         IN /\ new \in LexerState
            /\ new.at = "ill-formed" => w = 1
            /\ w = 1 => new.at \in Causes
            /\ new.at = "tail" => w \in 2 .. 8 /\ new.ranges = RangesOf(w)
            /\ new.at \notin Causes \cup {"tail"} => w = 0
<1> DEFINE new == next_byte_in_range(st, s)
           at == IF Len(st.ranges) = 1 THEN "char" ELSE "tail"
           rest == Tail(st.ranges)
<1>1. rest \in Seq(SUBSET Int)
  <2>1. st.ranges \in Seq(SUBSET Int) BY DEF LexerState
  <2>2. st.ranges # <<>> BY RangesNonEmpty
  <2> QED BY <2>1, <2>2
<1>2. /\ new \in LexerState
      /\ IF s \in Head(st.ranges) THEN new.at = at /\ new.ranges = rest
         ELSE new.at = "ill-formed"
  BY <1>1, TailByte
<1>3. IF s \in Head(RangesOf(u))
        THEN IF Len(RangesOf(u)) = 1 THEN Decode(u, s) = 0
             ELSE Decode(u, s) \in 2 .. 8 /\ Tail(RangesOf(u)) = RangesOf(Decode(u, s))
        ELSE Decode(u, s) = 1
  BY Follow
<1> HIDE DEF new
<1>4. CASE s \notin Head(st.ranges) BY <1>2, <1>3, <1>4 DEF Causes, new
<1>5. CASE s \in Head(st.ranges) /\ Len(st.ranges) = 1
  BY <1>2, <1>3, <1>5 DEF Causes, new
<1>6. CASE s \in Head(st.ranges) /\ Len(st.ranges) # 1
  <2>1. new.at = "tail" /\ new.ranges = RangesOf(Decode(u, s)) BY <1>2, <1>3, <1>6
  <2>2. Decode(u, s) \in 2 .. 8 BY <1>3, <1>6
  <2>3. Decode(u, s) # 1 BY <2>2
  <2> QED BY <1>2, <2>1, <2>2, <2>3 DEF Causes, new
<1> QED BY <1>4, <1>5, <1>6

\* What a symbol is, at each place.
LEMMA OfferedType ==
  /\ Offered \subseteq Symbols
  /\ ~InEscape => Offered \subseteq Byte
<1>1. TextBytes \subseteq Byte BY StringsAssumption
<1>2. Byte \subseteq Symbols BY DEF Byte, Symbols, NoDigits
<1>3. UniOnly \subseteq Symbols
  <2>1. SUFFICES ASSUME NEW s \in UniOnly PROVE s \in Symbols OBVIOUS
  <2>2. CASE s = NoDigits BY <2>2 DEF Symbols, NoDigits
  <2>3. CASE s # NoDigits
    <3>1. PICK c \in CodePoints : s = Uni(c) BY <2>3 DEF UniOnly
    <3>2. c \in Nat /\ c < 65536 BY StringsAssumption
    <3> QED BY <3>1, <3>2 DEF Uni, Symbols, NoDigits
  <2> QED BY <2>2, <2>3
<1> QED BY <1>1, <1>2, <1>3 DEF Offered

\* What was added last is forgotten first, and where a character begins its token too.
LEMMA NowSet ==
  ASSUME NEW st \in LexerState, NEW none \in Seq(Int)
  PROVE  /\ [st EXCEPT !.added = none] \in LexerState
         /\ [st EXCEPT !.added = none].ranges = st.ranges
         /\ [st EXCEPT !.token = none] \in LexerState
<1>1. [st EXCEPT !.added = none] \in LexerState BY DEF LexerState
<1>2. [st EXCEPT !.added = none].ranges = st.ranges BY DEF LexerState
<1>3. [st EXCEPT !.token = none] \in LexerState BY DEF LexerState
<1> QED BY <1>1, <1>2, <1>3

\* The same, of no bytes at all.
LEMMA NowType ==
  ASSUME NEW st \in LexerState
  PROVE  /\ [st EXCEPT !.added = <<>>] \in LexerState
         /\ [st EXCEPT !.added = <<>>].ranges = st.ranges
         /\ [[st EXCEPT !.added = <<>>] EXCEPT !.token = <<>>] \in LexerState
<1>1. <<>> \in Seq(Int) OBVIOUS
<1>2. /\ [st EXCEPT !.added = <<>>] \in LexerState
      /\ [st EXCEPT !.added = <<>>].ranges = st.ranges
  BY <1>1, NowSet
<1>3. [[st EXCEPT !.added = <<>>] EXCEPT !.token = <<>>] \in LexerState
  BY <1>1, <1>2, NowSet
<1> QED BY <1>2, <1>3

\* One symbol keeps the invariant: one step per place.
LEMMA SymbolKeeps == ASSUME Inv, NEW s, Symbol(s) PROVE Inv'
<1> DEFINE now == [lex EXCEPT !.added = <<>>]
<1>1. /\ lex \in LexerState /\ utf8 \in 0 .. 8
      /\ utf8 = 1 => lex.at \in Causes
      /\ lex.at = "tail" => utf8 # 0 /\ lex.ranges = RangesOf(utf8)
      /\ lex.at \notin Causes \cup {"tail"} => utf8 = 0
  BY DEF Inv, LexTypeOK, SameText, utf8_accept, utf8_reject
<1>2. /\ now \in LexerState /\ now.ranges = lex.ranges
      /\ [now EXCEPT !.token = <<>>] \in LexerState
  BY <1>1, NowType
<1>3. lex.at \in {"char", "escape", "low", "lowEscape", "tail"} /\ s \in Offered
  BY DEF Symbol
<1>4. lex' = Scan(lex, s) /\ utf8' = IF s < 256 THEN Decode(utf8, s) ELSE utf8
  BY DEF Symbol
<1>5. s \in Symbols BY <1>3, OfferedType
<1>6. SUFFICES /\ lex' \in LexerState /\ utf8' \in 0 .. 8
               /\ lex'.at = "ill-formed" => utf8' = 1
               /\ utf8' = 1 => lex'.at \in Causes
               /\ lex'.at = "tail" => utf8' # 0 /\ lex'.ranges = RangesOf(utf8')
               /\ lex'.at \notin Causes \cup {"tail"} => utf8' = 0
  BY DEF Inv, LexTypeOK, SameText, utf8_accept, utf8_reject
<1>7. s \in Byte => utf8' = Decode(utf8, s) BY <1>4 DEF Byte
<1>8. utf8' \in 0 .. 8
  <2>1. CASE s < 256
    <3>1. s \in Byte BY <1>5, <2>1 DEF Symbols, Byte
    <3> QED BY <1>1, <1>7, <3>1, DecodeType
  <2>2. CASE ~(s < 256) BY <1>1, <1>4, <2>2
  <2> QED BY <2>1, <2>2
<1> HIDE DEF now
<1>9. CASE lex.at = "char"
  <2>1. s \in Byte BY <1>3, <1>9, OfferedType DEF InEscape
  <2>2. utf8 = 0 BY <1>1, <1>9 DEF Causes
  <2>3. utf8' = Decode(0, s) BY <1>7, <2>1, <2>2
  <2>4. lex' = First([now EXCEPT !.token = <<>>], s) BY <1>4, <1>9 DEF Scan, now
  <2>5. /\ lex' \in LexerState
        /\ lex'.at = "ill-formed" => utf8' = 1
        /\ utf8' = 1 => lex'.at \in Causes
        /\ lex'.at = "tail" => utf8' \in 2 .. 8 /\ lex'.ranges = RangesOf(utf8')
        /\ lex'.at \notin Causes \cup {"tail"} => utf8' = 0
    BY <1>2, <2>1, <2>3, <2>4, FirstStep
  <2> QED BY <1>8, <2>5
<1>10. CASE lex.at = "tail"
  <2>1. s \in Byte BY <1>3, <1>10, OfferedType DEF InEscape
  <2>2. utf8 \in 2 .. 8 /\ now.ranges = RangesOf(utf8) BY <1>1, <1>2, <1>10 DEF Causes
  <2>3. utf8' = Decode(utf8, s) BY <1>7, <2>1
  <2>4. lex' = next_byte_in_range(now, s) BY <1>4, <1>10 DEF Scan, now
  <2>5. /\ lex' \in LexerState
        /\ lex'.at = "ill-formed" => utf8' = 1
        /\ utf8' = 1 => lex'.at \in Causes
        /\ lex'.at = "tail" => utf8' \in 2 .. 8 /\ lex'.ranges = RangesOf(utf8')
        /\ lex'.at \notin Causes \cup {"tail"} => utf8' = 0
    BY <1>2, <2>1, <2>2, <2>3, <2>4, TailStep
  <2> QED BY <1>8, <2>5
<1>11. CASE lex.at \in {"escape", "low", "lowEscape"}
  <2>1. utf8 = 0 BY <1>1, <1>11 DEF Causes
  <2>2. s \in 0 .. 127 \/ s >= 256 => utf8' = 0
    <3>1. CASE s \in 0 .. 127 BY <1>4, <2>1, <3>1, Ascii
    <3>2. CASE s >= 256 BY <1>4, <1>5, <2>1, <3>2 DEF Symbols
    <3> QED BY <3>1, <3>2
  <2>3. s \in 128 .. 255 \/ s \in 0 .. 127 \/ s >= 256 BY <1>5 DEF Symbols
  <2>4. /\ lex' \in LexerState
        /\ lex'.at \in {"char", "low", "lowEscape", "bad escape", "surrogate"}
        /\ s \in 128 .. 255 => lex'.at \in {"bad escape", "surrogate"}
    <3>1. CASE lex.at = "escape"
      <4>1. lex' = Escaped(now, s) BY <1>4, <3>1 DEF Scan, now
      <4> QED BY <1>2, <1>5, <4>1, EscapedType
    <3>2. CASE lex.at = "low"
      <4>1. lex' = IF s = 92 THEN [now EXCEPT !.at = "lowEscape"] ELSE Refused(now, "surrogate")
        BY <1>4, <3>2 DEF Scan, now
      <4>2. "lowEscape" \in Places \cup Causes BY DEF Places
      <4>3. [now EXCEPT !.at = "lowEscape"] \in LexerState
            /\ [now EXCEPT !.at = "lowEscape"].at = "lowEscape"
        BY <1>2, <4>2, AtType
      <4>4. "surrogate" \in Causes BY DEF Causes
      <4>5. Refused(now, "surrogate") \in LexerState
            /\ Refused(now, "surrogate").at = "surrogate"
        BY <1>2, <4>4, RefusedType
      <4>6. CASE s = 92 BY <4>1, <4>3, <4>6
      <4>7. CASE s # 92 BY <4>1, <4>5, <4>7
      <4> QED BY <4>6, <4>7
    <3>3. CASE lex.at = "lowEscape"
      <4>1. lex' = LowSurrogate(now, s) BY <1>4, <3>3 DEF Scan, now
      <4>2. /\ lex' \in LexerState /\ lex'.at \in {"char", "surrogate"}
            /\ s < 256 => lex'.at = "surrogate"
        BY <1>2, <1>5, <4>1, LowSurrogateType
      <4>3. s \in 128 .. 255 => s < 256 OBVIOUS
      <4> QED BY <4>2, <4>3
    <3> QED BY <1>11, <3>1, <3>2, <3>3
  <2>5. CASE s \in 128 .. 255 BY <1>8, <2>4, <2>5 DEF Causes
  <2>6. CASE s \in 0 .. 127 \/ s >= 256
    <3>1. utf8' = 0 BY <2>2, <2>6
    <3>2. lex'.at # "ill-formed" /\ lex'.at # "tail" BY <2>4
    <3>3. lex' \in LexerState BY <2>4
    <3>4. utf8' # 1 BY <3>1
    <3> QED BY <1>8, <3>1, <3>2, <3>3, <3>4, Zenon
  <2> QED BY <2>3, <2>5, <2>6
<1> QED BY <1>3, <1>9, <1>10, <1>11
-----------------------------------------------------------------------------
\* Strings of any length, whatever bytes the server sends: the lexer finds ill-formed
\* what websocketpp's validator rejects, and both wait for the same bytes.  It is the
\* reason why no text that passed the frame reader fails in the lexer as UTF-8.
THEOREM StringsSame == StringsSpec => []SameText
<1>1. StringsInit => Inv
  <2>1. SUFFICES ASSUME StringsInit PROVE Inv OBVIOUS
  <2>2. Start \in LexerState BY DEF Start, LexerState, Places
  <2>3. lex \in LexerState /\ lex.at = "char" /\ utf8 = 0
    BY <2>1, <2>2 DEF StringsInit, Start, utf8_accept
  <2> QED BY <2>3 DEF Inv, LexTypeOK, SameText, utf8_accept, utf8_reject, Causes
<1>2. Inv /\ [StringsNext]_stringVars => Inv'
  <2>1. SUFFICES ASSUME Inv, [StringsNext]_stringVars PROVE Inv' OBVIOUS
  <2>2. ASSUME NEW s \in TextBytes \cup UniOnly, Symbol(s) PROVE Inv'
    BY <2>1, <2>2, SymbolKeeps
  <2>3. CASE NextString
    <3>1. lex' \in LexerState /\ lex'.at = "char"
      BY <2>3 DEF NextString, Start, LexerState, Places
    <3>2. utf8' = 0
      BY <2>1, <2>3 DEF NextString, Inv, SameText, Causes, utf8_accept
    <3> QED BY <3>1, <3>2 DEF Inv, LexTypeOK, SameText, utf8_accept, utf8_reject, Causes
  <2>4. CASE UNCHANGED stringVars
    BY <2>1, <2>4 DEF stringVars, Inv, LexTypeOK, SameText
  <2> QED BY <2>1, <2>2, <2>3, <2>4 DEF StringsNext
<1>3. Inv => SameText BY DEF Inv
<1> QED BY <1>1, <1>2, <1>3, PTL DEF StringsSpec
-----------------------------------------------------------------------------
(* What the serializer writes for a character, and the lexer reads of it: byte after *)
(* byte, for the two functions that go through several bytes.                        *)

\* The lexer reads t from the start of a string, and is at st then.
Replayed(g, t) == g = [n \in 0 .. Len(t) |-> IF n = 0 THEN Start ELSE Scan(g[n - 1], t[n])]
Reads(t, st) == \E g : Replayed(g, t) /\ g[Len(t)] = st

\* dump_escaped takes the bytes t in o, and is in p then.
Dumped(g, o, t) == g = [n \in 0 .. Len(t) |-> IF n = 0 THEN o ELSE DumpByte(g[n - 1], t[n])]
Dumps(o, t, p) == \E g : Dumped(g, o, t) /\ g[Len(t)] = p

\* A sequence with one element more.
LEMMA OneMore ==
  ASSUME NEW t \in Seq(Int), NEW s \in Int
  PROVE  /\ t \o <<s>> \in Seq(Int) /\ Len(t \o <<s>>) = Len(t) + 1
         /\ \A n \in 1 .. Len(t) : (t \o <<s>>)[n] = t[n]
         /\ (t \o <<s>>)[Len(t) + 1] = s
<1>1. PICK e : e = <<s>>
  OBVIOUS
<1>2. e \in Seq(Int) /\ Len(e) = 1 /\ e[1] = s
  BY <1>1
<1>3. /\ t \o e \in Seq(Int) /\ Len(t \o e) = Len(t) + Len(e)
      /\ \A i \in 1 .. Len(t) + Len(e) : (t \o e)[i] = IF i <= Len(t) THEN t[i] ELSE e[i - Len(t)]
  BY <1>2, ConcatProperties
<1>4. PICK u : u = t \o e
  OBVIOUS
<1>5. PICK l : l = Len(t)
  OBVIOUS
<1>6. l \in Nat /\ \A i \in 1 .. l + 1 : u[i] = IF i <= l THEN t[i] ELSE e[i - l]
  BY <1>2, <1>3, <1>4, <1>5
<1>7. (\A n \in 1 .. l : u[n] = t[n]) /\ u[l + 1] = e[1]
  BY <1>6
<1> QED BY <1>1, <1>2, <1>3, <1>4, <1>5, <1>7

LEMMA ReplaysAgree ==
  ASSUME NEW t \in Seq(Int), NEW g, NEW h, Replayed(g, t), Replayed(h, t)
  PROVE  g[Len(t)] = h[Len(t)]
<1> DEFINE T == {n \in Nat : n <= Len(t) => g[n] = h[n]}
<1>1. \A n \in 0 .. Len(t) : g[n] = IF n = 0 THEN Start ELSE Scan(g[n - 1], t[n])
  BY DEF Replayed
<1>2. \A n \in 0 .. Len(t) : h[n] = IF n = 0 THEN Start ELSE Scan(h[n - 1], t[n])
  BY DEF Replayed
<1>3. 0 \in T
  BY <1>1, <1>2
<1>4. ASSUME NEW n \in Nat, n \in T PROVE n + 1 \in T
  <2>1. CASE n + 1 <= Len(t)
    <3>1. n + 1 \in 0 .. Len(t) /\ n + 1 # 0 /\ (n + 1) - 1 = n /\ n <= Len(t)
      BY <2>1
    <3>2. g[n + 1] = Scan(g[n], t[n + 1]) /\ h[n + 1] = Scan(h[n], t[n + 1])
      BY <1>1, <1>2, <3>1
    <3>3. g[n] = h[n]
      BY <1>4, <3>1
    <3> QED BY <3>2, <3>3
  <2> QED BY <2>1
<1>5. Nat \subseteq T
  <2> HIDE DEF T
  <2> QED BY <1>3, <1>4, SetInduction
<1> QED BY <1>5

LEMMA ReadsNone == Reads(<<>>, Start)
<1>1. PICK e : e = <<>>
  OBVIOUS
<1>2. Len(e) = 0
  BY <1>1
<1> DEFINE g == [n \in 0 .. Len(e) |-> Start]
<1>3. Replayed(g, e) /\ g[Len(e)] = Start
  <2>1. \A n \in 0 .. Len(e) : n = 0
    BY <1>2
  <2>2. g = [n \in 0 .. Len(e) |-> IF n = 0 THEN Start ELSE Scan(g[n - 1], e[n])]
    BY <2>1
  <2>3. g[Len(e)] = Start
    BY <1>2
  <2> HIDE DEF g
  <2> QED BY <2>2, <2>3 DEF Replayed
<1> QED BY <1>1, <1>3 DEF Reads

LEMMA ReadsMore ==
  ASSUME NEW t \in Seq(Int), NEW st, NEW s \in Int, Reads(t, st)
  PROVE  Reads(t \o <<s>>, Scan(st, s))
<1>1. PICK g : Replayed(g, t) /\ g[Len(t)] = st
  BY DEF Reads
<1>2. PICK u : u = t \o <<s>>
  OBVIOUS
<1>3. /\ u \in Seq(Int) /\ Len(u) = Len(t) + 1 /\ u[Len(t) + 1] = s
      /\ \A n \in 1 .. Len(t) : u[n] = t[n]
  BY <1>2, OneMore
<1> DEFINE h == [n \in 0 .. Len(u) |-> IF n = Len(t) + 1 THEN Scan(st, s) ELSE g[n]]
<1>4. \A n \in 0 .. Len(t) : g[n] = IF n = 0 THEN Start ELSE Scan(g[n - 1], t[n])
  BY <1>1 DEF Replayed
<1>5. ASSUME NEW n \in 0 .. Len(u) PROVE h[n] = IF n = 0 THEN Start ELSE Scan(h[n - 1], u[n])
  <2>1. CASE n = 0
    BY <1>3, <1>4, <2>1
  <2>2. CASE n = Len(t) + 1
    <3>1. n # 0 /\ n - 1 = Len(t) /\ n - 1 \in 0 .. Len(u) /\ n - 1 # Len(t) + 1
      BY <1>3, <2>2
    <3>2. h[n] = Scan(st, s) /\ h[n - 1] = st /\ u[n] = s
      BY <1>1, <1>3, <2>2, <3>1
    <3> QED BY <3>1, <3>2
  <2>3. CASE n # 0 /\ n # Len(t) + 1
    <3>1. /\ n \in 1 .. Len(t) /\ n \in 0 .. Len(t) /\ n - 1 \in 0 .. Len(u)
          /\ n - 1 # Len(t) + 1
      BY <1>3, <2>3
    <3>2. h[n] = g[n] /\ h[n - 1] = g[n - 1] /\ u[n] = t[n]
      BY <1>3, <2>3, <3>1
    <3> QED BY <1>4, <2>3, <3>1, <3>2
  <2> QED BY <2>1, <2>2, <2>3
<1>6. Replayed(h, u) /\ h[Len(u)] = Scan(st, s)
  <2>1. h = [n \in 0 .. Len(u) |-> h[n]]
    OBVIOUS
  <2>2. h[Len(u)] = Scan(st, s)
    BY <1>3
  <2> HIDE DEF h
  <2> QED BY <1>5, <2>1, <2>2 DEF Replayed
<1> QED BY <1>2, <1>6 DEF Reads

\* Again is where the lexer is when it has read what was written.
LEMMA AgainReads ==
  ASSUME out.text \in Seq(Int), NEW st, Reads(out.text, st)
  PROVE  Again = st
<1>1. PICK t : t = out.text
  OBVIOUS
<1>2. PICK g : Replayed(g, t) /\ g[Len(t)] = st
  BY <1>1 DEF Reads
<1> DEFINE f == CHOOSE h : Replayed(h, t)
<1>3. Replayed(f, t)
  BY <1>2
<1>4. Again = f[Len(t)]
  BY <1>1 DEF Again, Replayed
<1> HIDE DEF f
<1>5. f[Len(t)] = g[Len(t)]
  BY <1>1, <1>2, <1>3, ReplaysAgree
<1> QED BY <1>2, <1>4, <1>5
LEMMA DumpsAgree ==
  ASSUME NEW t \in Seq(Int), NEW o, NEW g, NEW h, Dumped(g, o, t), Dumped(h, o, t)
  PROVE  g[Len(t)] = h[Len(t)]
<1> DEFINE T == {n \in Nat : n <= Len(t) => g[n] = h[n]}
<1>1. \A n \in 0 .. Len(t) : g[n] = IF n = 0 THEN o ELSE DumpByte(g[n - 1], t[n])
  BY DEF Dumped
<1>2. \A n \in 0 .. Len(t) : h[n] = IF n = 0 THEN o ELSE DumpByte(h[n - 1], t[n])
  BY DEF Dumped
<1>3. 0 \in T
  BY <1>1, <1>2
<1>4. ASSUME NEW n \in Nat, n \in T PROVE n + 1 \in T
  <2>1. CASE n + 1 <= Len(t)
    <3>1. n + 1 \in 0 .. Len(t) /\ n + 1 # 0 /\ (n + 1) - 1 = n /\ n <= Len(t)
      BY <2>1
    <3>2. g[n + 1] = DumpByte(g[n], t[n + 1]) /\ h[n + 1] = DumpByte(h[n], t[n + 1])
      BY <1>1, <1>2, <3>1
    <3>3. g[n] = h[n]
      BY <1>4, <3>1
    <3> QED BY <3>2, <3>3
  <2> QED BY <2>1
<1>5. Nat \subseteq T
  <2> HIDE DEF T
  <2> QED BY <1>3, <1>4, SetInduction
<1> QED BY <1>5

LEMMA DumpsNone == ASSUME NEW o PROVE Dumps(o, <<>>, o)
<1>1. PICK e : e = <<>>
  OBVIOUS
<1>2. Len(e) = 0
  BY <1>1
<1> DEFINE g == [n \in 0 .. Len(e) |-> o]
<1>3. Dumped(g, o, e) /\ g[Len(e)] = o
  <2>1. \A n \in 0 .. Len(e) : n = 0
    BY <1>2
  <2>2. g = [n \in 0 .. Len(e) |-> IF n = 0 THEN o ELSE DumpByte(g[n - 1], e[n])]
    BY <2>1
  <2>3. g[Len(e)] = o
    BY <1>2
  <2> HIDE DEF g
  <2> QED BY <2>2, <2>3 DEF Dumped
<1> QED BY <1>1, <1>3 DEF Dumps

LEMMA DumpsMore ==
  ASSUME NEW o, NEW t \in Seq(Int), NEW p, NEW s \in Int, Dumps(o, t, p)
  PROVE  Dumps(o, t \o <<s>>, DumpByte(p, s))
<1>1. PICK g : Dumped(g, o, t) /\ g[Len(t)] = p
  BY DEF Dumps
<1>2. PICK u : u = t \o <<s>>
  OBVIOUS
<1>3. /\ u \in Seq(Int) /\ Len(u) = Len(t) + 1 /\ u[Len(t) + 1] = s
      /\ \A n \in 1 .. Len(t) : u[n] = t[n]
  BY <1>2, OneMore
<1> DEFINE h == [n \in 0 .. Len(u) |-> IF n = Len(t) + 1 THEN DumpByte(p, s) ELSE g[n]]
<1>4. \A n \in 0 .. Len(t) : g[n] = IF n = 0 THEN o ELSE DumpByte(g[n - 1], t[n])
  BY <1>1 DEF Dumped
<1>5. ASSUME NEW n \in 0 .. Len(u) PROVE h[n] = IF n = 0 THEN o ELSE DumpByte(h[n - 1], u[n])
  <2>1. CASE n = 0
    BY <1>3, <1>4, <2>1
  <2>2. CASE n = Len(t) + 1
    <3>1. n # 0 /\ n - 1 = Len(t) /\ n - 1 \in 0 .. Len(u) /\ n - 1 # Len(t) + 1
      BY <1>3, <2>2
    <3>2. h[n] = DumpByte(p, s) /\ h[n - 1] = p /\ u[n] = s
      BY <1>1, <1>3, <2>2, <3>1
    <3> QED BY <3>1, <3>2
  <2>3. CASE n # 0 /\ n # Len(t) + 1
    <3>1. /\ n \in 1 .. Len(t) /\ n \in 0 .. Len(t) /\ n - 1 \in 0 .. Len(u)
          /\ n - 1 # Len(t) + 1
      BY <1>3, <2>3
    <3>2. h[n] = g[n] /\ h[n - 1] = g[n - 1] /\ u[n] = t[n]
      BY <1>3, <2>3, <3>1
    <3> QED BY <1>4, <2>3, <3>1, <3>2
  <2> QED BY <2>1, <2>2, <2>3
<1>6. Dumped(h, o, u) /\ h[Len(u)] = DumpByte(p, s)
  <2>1. h = [n \in 0 .. Len(u) |-> h[n]]
    OBVIOUS
  <2>2. h[Len(u)] = DumpByte(p, s)
    BY <1>3
  <2> HIDE DEF h
  <2> QED BY <1>5, <2>1, <2>2 DEF Dumped
<1> QED BY <1>2, <1>6 DEF Dumps

LEMMA DumpIs ==
  ASSUME NEW o, NEW t \in Seq(Int), NEW p, Dumps(o, t, p)
  PROVE  Dump(o, t) = p
<1>1. PICK g : Dumped(g, o, t) /\ g[Len(t)] = p
  BY DEF Dumps
<1> DEFINE f == CHOOSE h : Dumped(h, o, t)
<1>2. Dumped(f, o, t)
  BY <1>1
<1>3. Dump(o, t) = f[Len(t)]
  BY DEF Dump, Dumped
<1> HIDE DEF f
<1>4. f[Len(t)] = g[Len(t)]
  BY <1>1, <1>2, DumpsAgree
<1> QED BY <1>1, <1>3, <1>4
-----------------------------------------------------------------------------
(* dump_escaped's buffer and decoder. *)

OutState == [state : 0 .. 8, codep : Int, text : Seq(Int), fill : Int, top : Int]

\* How many bytes of a character are in the buffer, at most.
Begun(u) == CASE u = 2 -> 3 [] u \in {3, 4, 5} -> 2 [] u \in {6, 7, 8} -> 1 [] OTHER -> 0

\* Room for an escape is left when a character begins, and the decoder refuses nothing.
Good(o) ==
  /\ o \in OutState /\ o.state # utf8_reject
  /\ 0 <= o.fill /\ o.fill <= Room - 13 + Begun(o.state) /\ o.top <= Room

\* An escape or a last byte is put into the buffer.
LEMMA PutType ==
  ASSUME NEW o \in OutState, NEW symbols \in Seq(Int), NEW n \in Int, NEW r \in Int
  PROVE  /\ Put(o, symbols, n, r) \in OutState
         /\ Put(o, symbols, n, r).state = o.state /\ Put(o, symbols, n, r).codep = o.codep
         /\ Put(o, symbols, n, r).text = o.text \o symbols
         /\ Put(o, symbols, n, r).fill = o.fill + n /\ Put(o, symbols, n, r).top = o.fill + r
<1>1. PICK t, f, h : t = o.text \o symbols /\ f = o.fill + n /\ h = o.fill + r
  OBVIOUS
<1>2. t \in Seq(Int) /\ f \in Int /\ h \in Int
  <2>1. o.text \in Seq(Int) /\ o.fill \in Int
    BY DEF OutState
  <2> QED BY <1>1, <2>1, ConcatProperties
<1>3. Put(o, symbols, n, r) = [o EXCEPT !.text = t, !.fill = f, !.top = h]
  BY <1>1 DEF Put
<1>4. /\ [o EXCEPT !.text = t, !.fill = f, !.top = h] \in OutState
      /\ [o EXCEPT !.text = t, !.fill = f, !.top = h].state = o.state
      /\ [o EXCEPT !.text = t, !.fill = f, !.top = h].codep = o.codep
      /\ [o EXCEPT !.text = t, !.fill = f, !.top = h].text = t
      /\ [o EXCEPT !.text = t, !.fill = f, !.top = h].fill = f
      /\ [o EXCEPT !.text = t, !.fill = f, !.top = h].top = h
  BY <1>2 DEF OutState
<1> QED BY <1>1, <1>3, <1>4

\* The letters of Short.
Letter(c) == IF c = 8 THEN 98 ELSE IF c = 9 THEN 116 ELSE IF c = 10 THEN 110
             ELSE IF c = 12 THEN 102 ELSE 114

\* The symbols of the character c, that ends with byte b.
Shown(c, b) ==
  IF c \in {34, 92} THEN <<92, c>>
  ELSE IF c \in {8, 9, 10, 12, 13} THEN <<92, Letter(c)>>
  ELSE IF c <= 31 THEN <<92, Uni(c)>>
  ELSE <<b>>

LEMMA ShortLetters ==
  ASSUME NEW c \in Int
  PROVE  /\ (\E e \in Short : e[2] = c) <=> c \in {8, 9, 10, 12, 13}
         /\ (\E e \in Short : e[2] = c) => (CHOOSE e \in Short : e[2] = c)[1] = Letter(c)
         /\ c \notin {e[2] : e \in Short} <=> c \notin {8, 9, 10, 12, 13}
<1>1. (\E e \in Short : e[2] = c) <=> c \in {8, 9, 10, 12, 13}
  BY DEF Short
<1>2. ASSUME \E e \in Short : e[2] = c PROVE (CHOOSE e \in Short : e[2] = c)[1] = Letter(c)
  <2>1. PICK d : d = CHOOSE e \in Short : e[2] = c
    OBVIOUS
  <2>2. d \in Short /\ d[2] = c
    BY <1>2, <2>1
  <2>3. d[1] = Letter(c)
    BY <2>2 DEF Short, Letter
  <2> QED BY <2>1, <2>3
<1>3. c \in {e[2] : e \in Short} <=> \E e \in Short : e[2] = c
  OBVIOUS
<1> QED BY <1>1, <1>2, <1>3

\* A character is written in at most six bytes, with at most seven touched.
LEMMA CharacterPuts ==
  ASSUME NEW o \in OutState, NEW b \in Byte
  PROVE  /\ Shown(o.codep, b) \in Seq(Int)
         /\ \E n \in 1 .. 6, r \in 1 .. 7 : Character(o, b) = Put(o, Shown(o.codep, b), n, r)
<1>1. PICK c : c = o.codep
  OBVIOUS
<1>2. c \in Int /\ b \in Int
  BY <1>1 DEF OutState, Byte
<1> DEFINE has == \E e \in Short : e[2] = c
           letter == (CHOOSE e \in Short : e[2] = c)[1]
           own == c \notin {e[2] : e \in Short}
<1>3. /\ has <=> c \in {8, 9, 10, 12, 13}
      /\ has => letter = Letter(c)
      /\ own <=> c \notin {8, 9, 10, 12, 13}
  BY <1>2, ShortLetters
<1>4. Character(o, b) =
        CASE c \in {34, 92} -> Put(o, <<92, c>>, 2, 2)
          [] has -> Put(o, <<92, letter>>, 2, 2)
          [] c <= 31 /\ own -> Put(o, <<92, Uni(c)>>, 6, 7)
          [] OTHER -> Put(o, <<b>>, 1, 1)
  BY <1>1 DEF Character
<1> HIDE DEF has, letter, own
<1>5. CASE c \in {34, 92}
  <2>1. ~has /\ ~(c <= 31)
    BY <1>3, <1>5
  <2>2. Character(o, b) = Put(o, <<92, c>>, 2, 2) /\ Shown(c, b) = <<92, c>>
    BY <1>4, <1>5, <2>1 DEF Shown
  <2>3. <<92, c>> \in Seq(Int) /\ 2 \in 1 .. 6 /\ 2 \in 1 .. 7
    BY <1>2
  <2> QED BY <1>1, <2>2, <2>3
<1>6. CASE c \in {8, 9, 10, 12, 13}
  <2>1. has /\ ~own /\ c \notin {34, 92}
    BY <1>3, <1>6
  <2>2. Character(o, b) = Put(o, <<92, letter>>, 2, 2)
    BY <1>4, <2>1
  <2>3. letter = Letter(c) /\ Shown(c, b) = <<92, Letter(c)>> /\ Letter(c) \in Int
    BY <1>3, <1>6, <2>1 DEF Shown, Letter
  <2>4. <<92, Letter(c)>> \in Seq(Int) /\ 2 \in 1 .. 6 /\ 2 \in 1 .. 7
    BY <2>3
  <2> QED BY <1>1, <2>2, <2>3, <2>4
<1>7. CASE c <= 31 /\ c \notin {8, 9, 10, 12, 13}
  <2>1. ~has /\ own /\ c \notin {34, 92}
    BY <1>2, <1>3, <1>7
  <2>2. Character(o, b) = Put(o, <<92, Uni(c)>>, 6, 7) /\ Shown(c, b) = <<92, Uni(c)>>
    BY <1>4, <1>7, <2>1 DEF Shown
  <2>3. <<92, Uni(c)>> \in Seq(Int) /\ 6 \in 1 .. 6 /\ 7 \in 1 .. 7
    BY <1>2 DEF Uni
  <2> QED BY <1>1, <2>2, <2>3
<1>8. CASE ~(c <= 31) /\ c \notin {34, 92}
  <2>1. ~has /\ c \notin {8, 9, 10, 12, 13}
    BY <1>2, <1>3, <1>8
  <2>2. Character(o, b) = Put(o, <<b>>, 1, 1) /\ Shown(c, b) = <<b>>
    BY <1>4, <1>8, <2>1 DEF Shown
  <2>3. <<b>> \in Seq(Int) /\ 1 \in 1 .. 6 /\ 1 \in 1 .. 7
    BY <1>2
  <2> QED BY <1>1, <2>2, <2>3
<1> QED BY <1>5, <1>6, <1>7, <1>8

\* The code point of the first bytes, and of every further one.
LEMMA CodePointType ==
  ASSUME NEW o \in OutState, NEW b \in Byte
  PROVE  CodePoint(o, b) \in Int
<1>1. PICK c, k : c = o.codep /\ k = Class(b)
  OBVIOUS
<1>2. c \in Int /\ k \in 0 .. 11 /\ b \in Int
  <2>1. Class(b) \in 0 .. 11
    BY ClassType
  <2>2. c \in Int /\ b \in Int
    BY <1>1 DEF OutState, Byte
  <2> QED BY <1>1, <2>1, <2>2
<1>3. \A i \in 1 .. 8 : Kept[i] \in {256, 128, 64, 32, 16, 8, 4, 2}
  BY DEF Kept
<1>4. k < 8 => b % Kept[k + 1] \in Int
  <2>1. SUFFICES ASSUME k < 8 PROVE b % Kept[k + 1] \in Int
    OBVIOUS
  <2>2. PICK m : m = Kept[k + 1]
    OBVIOUS
  <2>3. m \in {256, 128, 64, 32, 16, 8, 4, 2}
    BY <1>2, <1>3, <2>1, <2>2
  <2>4. b % m \in Int
    BY <1>2, <2>3
  <2> QED BY <2>2, <2>4
<1>5. 64 * c + (b % 64) \in Int
  BY <1>2
<1> QED BY <1>1, <1>4, <1>5 DEF CodePoint

\* The buffer is written out when it may not hold another character.
LEMMA FlushedType ==
  ASSUME NEW o \in OutState, 0 <= o.fill
  PROVE  /\ Flushed(o) \in OutState /\ Flushed(o).state = o.state /\ Flushed(o).top = o.top
         /\ Flushed(o).text = o.text
         /\ 0 <= Flushed(o).fill /\ Flushed(o).fill <= Room - 13
<1>1. PICK z \in Int : z = 0
  OBVIOUS
<1>2. /\ [o EXCEPT !.fill = z] \in OutState /\ [o EXCEPT !.fill = z].state = o.state
      /\ [o EXCEPT !.fill = z].top = o.top /\ [o EXCEPT !.fill = z].fill = z
      /\ [o EXCEPT !.fill = z].text = o.text
  BY DEF OutState
<1>3. PICK f : f = o.fill
  OBVIOUS
<1>4. f \in Int /\ Room \in Nat /\ Room >= 13
  BY <1>3, StringsAssumption DEF OutState
<1>5. CASE Room - f < 13
  <2>1. Flushed(o) = [o EXCEPT !.fill = z]
    BY <1>1, <1>3, <1>5 DEF Flushed
  <2> QED BY <1>1, <1>2, <1>4, <2>1
<1>6. CASE ~(Room - f < 13)
  <2>1. Flushed(o) = o /\ f <= Room - 13
    BY <1>3, <1>4, <1>6 DEF Flushed
  <2> QED BY <1>3, <2>1
<1> QED BY <1>5, <1>6

\* Every byte of a character makes the buffer one longer, at most.
LEMMA BegunGrows ==
  ASSUME NEW u \in 0 .. 8, NEW b \in Byte, u # 1, Decode(u, b) # 1
  PROVE  Decode(u, b) # 0 => Begun(u) + 1 <= Begun(Decode(u, b))
<1>1. PICK k : k = Class(b)
  OBVIOUS
<1>2. k \in 0 .. 11
  BY <1>1, ClassType
<1>3. Decode(u, b) = After(u, k)
  BY <1>1 DEF Decode
<1>4. u = 0 /\ After(u, k) \notin {0, 1} => After(u, k) \in 2 .. 8
  BY <1>2 DEF After
<1>5. u = 2 => After(u, k) \in {0, 1}
  BY <1>2 DEF After
<1>6. u \in {3, 4, 5} => After(u, k) \in {1, 2}
  BY <1>2 DEF After
<1>7. u \in {6, 7, 8} => After(u, k) \in {1, 3}
  BY <1>2 DEF After
<1>8. PICK w : w = After(u, k)
  OBVIOUS
<1>9. w # 0 /\ w # 1 => Begun(u) + 1 <= Begun(w)
  BY <1>4, <1>5, <1>6, <1>7, <1>8 DEF Begun
<1> QED BY <1>3, <1>8, <1>9

\* A byte that the decoder accepts: no write reaches the end of the buffer.
LEMMA DumpByteGood ==
  ASSUME NEW o, Good(o), NEW b \in Byte, Decode(o.state, b) # 1
  PROVE  /\ Good(DumpByte(o, b)) /\ DumpByte(o, b).state = Decode(o.state, b)
         /\ DumpByte(o, b).text = o.text \o (IF Decode(o.state, b) = 0
                                               THEN Shown(CodePoint(o, b), b) ELSE <<b>>)
         /\ Decode(o.state, b) # 0 => DumpByte(o, b).codep = CodePoint(o, b)
<1>1. /\ o \in OutState /\ o.state \in 0 .. 8 /\ o.state # 1 /\ o.fill \in Int /\ o.top \in Int
      /\ 0 <= o.fill /\ o.fill <= Room - 13 + Begun(o.state) /\ Room \in Nat /\ Room >= 13
  BY StringsAssumption DEF Good, OutState, utf8_reject
<1>2. PICK w, c : w = Decode(o.state, b) /\ c = CodePoint(o, b)
  OBVIOUS
<1>3. w \in 0 .. 8 /\ w # 1 /\ c \in Int
  BY <1>1, <1>2, DecodeType, CodePointType
<1>4. PICK now : now = [o EXCEPT !.state = w, !.codep = c]
  OBVIOUS
<1>5. /\ now \in OutState /\ now.state = w /\ now.codep = c /\ now.text = o.text
      /\ now.fill = o.fill /\ now.top = o.top
  BY <1>1, <1>3, <1>4 DEF OutState
<1>6. DumpByte(o, b) = CASE now.state = utf8_accept -> Flushed(Character(now, b))
                         [] now.state = utf8_reject -> now
                         [] OTHER -> Put(now, <<b>>, 1, 1)
  BY <1>2, <1>4 DEF DumpByte
<1>7. CASE w = 0
  <2>1. DumpByte(o, b) = Flushed(Character(now, b))
    BY <1>5, <1>6, <1>7 DEF utf8_accept, utf8_reject
  <2>2. PICK n \in 1 .. 6, r \in 1 .. 7 : Character(now, b) = Put(now, Shown(c, b), n, r)
    BY <1>5, CharacterPuts
  <2>3. PICK p : p = Character(now, b)
    OBVIOUS
  <2>4. n \in Int /\ r \in Int /\ Shown(c, b) \in Seq(Int)
    BY <1>5, CharacterPuts
  <2>5. /\ p \in OutState /\ p.state = w /\ p.text = o.text \o Shown(c, b)
        /\ p.fill = o.fill + n /\ p.top = o.fill + r
    <3>1. PICK e : e = Shown(c, b)
      OBVIOUS
    <3>2. now \in OutState /\ e \in Seq(Int)
      BY <1>5, <2>4, <3>1
    <3>3. /\ Put(now, e, n, r) \in OutState /\ Put(now, e, n, r).state = now.state
          /\ Put(now, e, n, r).text = now.text \o e
          /\ Put(now, e, n, r).fill = now.fill + n /\ Put(now, e, n, r).top = now.fill + r
      BY <2>4, <3>2, PutType
    <3> QED BY <1>5, <2>2, <2>3, <3>1, <3>3
  <2>6. PICK f, g : f = o.fill /\ g = Begun(o.state)
    OBVIOUS
  <2>7. f \in Int /\ 0 <= f /\ f <= Room - 13 + g /\ g \in 0 .. 3 /\ p.fill = f + n /\ p.top = f + r
    BY <1>1, <2>5, <2>6 DEF Begun
  <2>8. 0 <= p.fill /\ p.top <= Room
    <3>1. 0 <= f + n /\ f + r <= Room
      BY <1>1, <2>7
    <3> QED BY <2>7, <3>1
  <2>9. /\ Flushed(p) \in OutState /\ Flushed(p).state = w /\ Flushed(p).top <= Room
        /\ Flushed(p).text = o.text \o Shown(c, b)
        /\ 0 <= Flushed(p).fill /\ Flushed(p).fill <= Room - 13
    BY <2>5, <2>8, FlushedType
  <2>10. Begun(0) = 0
    BY DEF Begun
  <2>11. Good(Flushed(p))
    <3>1. PICK q : q = Flushed(p)
      OBVIOUS
    <3>2. q \in OutState /\ q.state = 0 /\ q.top <= Room /\ 0 <= q.fill /\ q.fill <= Room - 13 + 0
      BY <1>1, <1>7, <2>9, <3>1 DEF OutState
    <3> QED BY <2>10, <3>1, <3>2 DEF Good, utf8_reject
  <2> QED BY <1>2, <1>7, <2>1, <2>3, <2>9, <2>11
<1>8. CASE w # 0
  <2>1. DumpByte(o, b) = Put(now, <<b>>, 1, 1)
    BY <1>3, <1>5, <1>6, <1>8 DEF utf8_accept, utf8_reject
  <2>2. <<b>> \in Seq(Int)
    BY OneByte
  <2>3. PICK p, e : p = Put(now, e, 1, 1) /\ e = <<b>>
    OBVIOUS
  <2>4. /\ p \in OutState /\ p.state = w /\ p.codep = c /\ p.text = o.text \o e
        /\ p.fill = o.fill + 1 /\ p.top = o.fill + 1
    <3>1. now \in OutState /\ e \in Seq(Int) /\ 1 \in Int
      BY <1>5, <2>2, <2>3
    <3>2. /\ Put(now, e, 1, 1) \in OutState /\ Put(now, e, 1, 1).state = now.state
          /\ Put(now, e, 1, 1).codep = now.codep /\ Put(now, e, 1, 1).text = now.text \o e
          /\ Put(now, e, 1, 1).fill = now.fill + 1 /\ Put(now, e, 1, 1).top = now.fill + 1
      BY <3>1, PutType
    <3> QED BY <1>5, <2>3, <3>2
  <2>5. Begun(o.state) + 1 <= Begun(w)
    BY <1>1, <1>2, <1>3, <1>8, BegunGrows
  <2>6. PICK f, g, h : f = o.fill /\ g = Begun(o.state) /\ h = Begun(w)
    OBVIOUS
  <2>7. f \in Int /\ 0 <= f /\ f <= Room - 13 + g /\ g \in 0 .. 3 /\ h \in 0 .. 3 /\ g + 1 <= h
    BY <1>1, <2>5, <2>6 DEF Begun
  <2>8. 0 <= f + 1 /\ f + 1 <= Room - 13 + h /\ f + 1 <= Room
    BY <1>1, <2>7
  <2>9. Good(p)
    BY <1>3, <2>4, <2>6, <2>8 DEF Good, utf8_reject
  <2> QED BY <1>2, <1>8, <2>1, <2>3, <2>4, <2>9
<1> QED BY <1>7, <1>8
-----------------------------------------------------------------------------
(* What the lexer adds to the token. *)

LEMMA AddIs ==
  ASSUME NEW st \in LexerState, NEW bytes \in Seq(Int)
  PROVE  /\ Add(st, bytes) \in LexerState /\ Add(st, bytes).at = "char"
         /\ Add(st, bytes).added = bytes /\ Add(st, bytes).token = st.token \o bytes
         /\ Add(st, bytes).high = st.high
<1>1. PICK t : t = st.token \o bytes
  OBVIOUS
<1>2. t \in Seq(Int)
  BY <1>1 DEF LexerState
<1>3. Add(st, bytes) = [st EXCEPT !.at = "char", !.added = bytes, !.token = t]
  BY <1>1 DEF Add
<1>4. /\ [st EXCEPT !.at = "char", !.added = bytes, !.token = t].added = bytes
      /\ [st EXCEPT !.at = "char", !.added = bytes, !.token = t].token = t
      /\ [st EXCEPT !.at = "char", !.added = bytes, !.token = t].high = st.high
  BY <1>2 DEF LexerState
<1> QED BY <1>1, <1>3, <1>4, AddType

\* To go to another place, or to refuse, adds nothing.
LEMMA AtKeeps ==
  ASSUME NEW st \in LexerState, NEW x
  PROVE  /\ [st EXCEPT !.at = x].added = st.added /\ [st EXCEPT !.at = x].token = st.token
         /\ [st EXCEPT !.at = x].high = st.high /\ [st EXCEPT !.at = x].at = x
BY DEF LexerState

\* A first byte is added when the lexer takes it as part of a character.
LEMMA FirstAdds ==
  ASSUME NEW st \in LexerState, st.token = <<>>, st.added = <<>>, NEW s \in Byte
  PROVE  /\ First(st, s).at \in {"char", "tail"} =>
              First(st, s).added = <<s>> /\ First(st, s).token = <<s>>
         /\ First(st, s).at \notin {"char", "tail"} =>
              First(st, s).added = <<>> /\ First(st, s).token = <<>>
         /\ s = 92 => First(st, s).at = "escape"
         /\ s \in (32 .. 127) \ {34, 92} => First(st, s).at = "char"
         /\ First(st, s).at = "char" => s \in (32 .. 127) \ {34, 92}
         /\ First(st, s).at = "tail" => s \in 128 .. 255
<1>1. PICK e : e = <<s>>
  OBVIOUS
<1>2. e \in Seq(Int)
  BY <1>1, OneByte
<1>3. /\ Add(st, e) \in LexerState /\ Add(st, e).at = "char"
      /\ Add(st, e).added = e /\ Add(st, e).token = e
  <2>1. st.token \o e = e
    BY <1>2, ConcatEmptySeq
  <2> QED BY <1>2, <2>1, AddIs
<1>4. s \in 0 .. 255
  BY DEF Byte
<1>5. CASE s \in 0 .. 127
  <2>1. RangesAfter(s) = <<>>
    BY <1>5, AsciiRanges
  <2>2. CASE s = 34
    <3>1. First(st, s) = [st EXCEPT !.at = "done"]
      BY <2>1, <2>2 DEF First
    <3>2. First(st, s).at = "done" /\ First(st, s).added = <<>> /\ First(st, s).token = <<>>
      BY <3>1, AtKeeps
    <3> QED BY <2>2, <3>2
  <2>3. CASE s = 92
    <3>1. First(st, s) = [st EXCEPT !.at = "escape"]
      BY <2>1, <2>3 DEF First
    <3>2. First(st, s).at = "escape" /\ First(st, s).added = <<>> /\ First(st, s).token = <<>>
      BY <3>1, AtKeeps
    <3> QED BY <2>3, <3>2
  <2>4. CASE s <= 31
    <3>1. s # 34 /\ s # 92 /\ s \notin (32 .. 127) \ {34, 92}
      BY <1>4, <2>4
    <3>2. First(st, s) = [st EXCEPT !.at = "control"]
      BY <2>1, <2>4, <3>1 DEF First, Refused
    <3>3. First(st, s).at = "control" /\ First(st, s).added = <<>> /\ First(st, s).token = <<>>
      BY <3>2, AtKeeps
    <3> QED BY <3>1, <3>3
  <2>5. CASE s \in (32 .. 127) \ {34, 92}
    <3>1. s # 34 /\ s # 92 /\ ~(s <= 31)
      BY <2>5
    <3>2. First(st, s) = Add(st, e)
      BY <1>1, <2>1, <2>5, <3>1 DEF First
    <3> QED BY <1>1, <1>3, <2>5, <3>1, <3>2
  <2> QED BY <1>4, <1>5, <2>2, <2>3, <2>4, <2>5
<1>6. CASE s \in 128 .. 255
  <2>1. s # 34 /\ s # 92 /\ ~(s <= 31) /\ s \notin (32 .. 127) \ {34, 92}
    BY <1>6
  <2>2. CASE RangesAfter(s) = <<>>
    <3>1. First(st, s) = [st EXCEPT !.at = "ill-formed"]
      BY <2>1, <2>2 DEF First, Refused
    <3>2. First(st, s).at = "ill-formed" /\ First(st, s).added = <<>> /\ First(st, s).token = <<>>
      BY <3>1, AtKeeps
    <3> QED BY <2>1, <3>2
  <2>3. CASE RangesAfter(s) # <<>>
    <3>1. PICK r : r = RangesAfter(s)
      OBVIOUS
    <3>2. First(st, s) = [Add(st, e) EXCEPT !.at = "tail", !.ranges = r]
      BY <1>1, <2>1, <2>3, <3>1 DEF First
    <3>3. PICK a : a = Add(st, e)
      OBVIOUS
    <3>4. /\ [a EXCEPT !.at = "tail", !.ranges = r].at = "tail"
          /\ [a EXCEPT !.at = "tail", !.ranges = r].added = a.added
          /\ [a EXCEPT !.at = "tail", !.ranges = r].token = a.token
      BY <1>3, <3>3 DEF LexerState
    <3>5. First(st, s).at = "tail" /\ First(st, s).added = e /\ First(st, s).token = e
      BY <1>3, <3>2, <3>3, <3>4
    <3> QED BY <1>1, <1>6, <2>1, <3>5
  <2> QED BY <2>2, <2>3
<1> QED BY <1>4, <1>5, <1>6

\* So is every byte that continues it.
LEMMA TailAdds ==
  ASSUME NEW st \in LexerState, st.added = <<>>, NEW s \in Byte
  PROVE  /\ s \in Head(st.ranges) =>
              /\ next_byte_in_range(st, s).added = <<s>>
              /\ next_byte_in_range(st, s).token = st.token \o <<s>>
         /\ s \notin Head(st.ranges) => next_byte_in_range(st, s).added = <<>>
<1>1. PICK e, at, rest : /\ e = <<s>> /\ rest = Tail(st.ranges)
                         /\ at = IF Len(st.ranges) = 1 THEN "char" ELSE "tail"
  OBVIOUS
<1>2. e \in Seq(Int)
  BY <1>1, OneByte
<1>3. PICK a : a = Add(st, e)
  OBVIOUS
<1>4. a \in LexerState /\ a.added = e /\ a.token = st.token \o e /\ a.ranges = st.ranges
  BY <1>2, <1>3, AddIs, AddType
<1>5. CASE s \in Head(st.ranges)
  <2>1. next_byte_in_range(st, s) = [a EXCEPT !.ranges = rest, !.at = at]
    BY <1>1, <1>3, <1>4, <1>5 DEF next_byte_in_range
  <2>2. /\ [a EXCEPT !.ranges = rest, !.at = at].added = a.added
        /\ [a EXCEPT !.ranges = rest, !.at = at].token = a.token
    BY <1>4 DEF LexerState
  <2> QED BY <1>1, <1>4, <1>5, <2>1, <2>2
<1>6. CASE s \notin Head(st.ranges)
  <2>1. next_byte_in_range(st, s) = [st EXCEPT !.at = "ill-formed"]
    BY <1>6 DEF next_byte_in_range, Refused
  <2> QED BY <1>6, <2>1, AtKeeps
<1> QED BY <1>5, <1>6
-----------------------------------------------------------------------------
(* Characters of several bytes: they are written as they are read. *)

\* The code point is at least this while the decoder is in state u: the rest of the
\* character makes it more than ASCII.
Least(u) == IF u = 2 THEN 2 ELSE IF u \in {3, 5, 7, 8} THEN 1 ELSE 0

LEMMA FirstPoint ==
  ASSUME NEW o, o.state = 0, NEW b \in 128 .. 255, Decode(0, b) # 1
  PROVE  Least(Decode(0, b)) <= CodePoint(o, b)
<1> DEFINE k == Class(b)
<1>0. CodePoint(o, b) = IF k < 8 THEN b % Kept[k + 1] ELSE 0
  BY DEF CodePoint, utf8_accept
<1>1. CASE b \in 194 .. 223
  <2>1. k = 2 /\ Kept[2 + 1] = 64
    BY <1>1 DEF Class, Kept
  <2>2. Decode(0, b) = 2
    BY <2>1 DEF Decode, After
  <2>3. CodePoint(o, b) = b % 64
    BY <1>0, <2>1
  <2>4. b % 64 >= 2
    BY <1>1
  <2> QED BY <2>2, <2>3, <2>4 DEF Least
<1>2. CASE b = 224
  <2>1. k = 10
    BY <1>2 DEF Class
  <2>2. Decode(0, b) = 4 /\ CodePoint(o, b) = 0
    BY <1>0, <2>1 DEF Decode, After
  <2> QED BY <2>2 DEF Least
<1>3. CASE b \in 225 .. 239 \ {237}
  <2>1. k = 3 /\ Kept[3 + 1] = 32
    BY <1>3 DEF Class, Kept
  <2>2. Decode(0, b) = 3
    BY <2>1 DEF Decode, After
  <2>3. CodePoint(o, b) = b % 32
    BY <1>0, <2>1
  <2>4. b % 32 >= 1
    BY <1>3
  <2> QED BY <2>2, <2>3, <2>4 DEF Least
<1>4. CASE b = 237
  <2>1. k = 4 /\ Kept[4 + 1] = 16
    BY <1>4 DEF Class, Kept
  <2>2. Decode(0, b) = 5
    BY <2>1 DEF Decode, After
  <2>3. CodePoint(o, b) = b % 16
    BY <1>0, <2>1
  <2>4. b % 16 >= 1
    BY <1>4
  <2> QED BY <2>2, <2>3, <2>4 DEF Least
<1>5. CASE b = 240
  <2>1. k = 11
    BY <1>5 DEF Class
  <2>2. Decode(0, b) = 6 /\ CodePoint(o, b) = 0
    BY <1>0, <2>1 DEF Decode, After
  <2> QED BY <2>2 DEF Least
<1>6. CASE b \in 241 .. 243
  <2>1. k = 6 /\ Kept[6 + 1] = 4
    BY <1>6 DEF Class, Kept
  <2>2. Decode(0, b) = 7
    BY <2>1 DEF Decode, After
  <2>3. CodePoint(o, b) = b % 4
    BY <1>0, <2>1
  <2>4. b % 4 >= 1
    BY <1>6
  <2> QED BY <2>2, <2>3, <2>4 DEF Least
<1>7. CASE b = 244
  <2>1. k = 5 /\ Kept[5 + 1] = 8
    BY <1>7 DEF Class, Kept
  <2>2. Decode(0, b) = 8
    BY <2>1 DEF Decode, After
  <2>3. CodePoint(o, b) = b % 8
    BY <1>0, <2>1
  <2>4. b % 8 >= 1
    BY <1>7
  <2> QED BY <2>2, <2>3, <2>4 DEF Least
<1>8. CASE b \in (128 .. 193) \cup (245 .. 255)
  <2>1. k \in {1, 7, 8, 9}
    BY <1>8 DEF Class
  <2>2. Decode(0, b) = 1
    BY <2>1 DEF Decode, After
  <2> QED BY <2>2
<1> QED BY <1>1, <1>2, <1>3, <1>4, <1>5, <1>6, <1>7, <1>8

LEMMA NextPoint ==
  ASSUME NEW o, NEW u \in 2 .. 8, o.state = u, o.codep \in Int, Least(u) <= o.codep,
         NEW b \in Byte, Decode(u, b) # 1
  PROVE  IF Decode(u, b) = 0 THEN 128 <= CodePoint(o, b)
                             ELSE Least(Decode(u, b)) <= CodePoint(o, b)
<1>1. PICK c, k : c = o.codep /\ k = Class(b)
  OBVIOUS
<1>2. c \in Int /\ Least(u) <= c /\ b \in 0 .. 255
  BY <1>1 DEF Byte
<1>3. CodePoint(o, b) = 64 * c + (b % 64)
  BY <1>1 DEF CodePoint, utf8_accept
<1>4. Decode(u, b) = After(u, k)
  BY <1>1 DEF Decode
<1>5. b % 64 \in 0 .. 63
  BY <1>2
<1>6. CASE u = 2
  <2>1. After(u, k) \in {0, 1} /\ 2 <= c
    BY <1>2, <1>6 DEF After, Least
  <2> QED BY <1>2, <1>3, <1>4, <1>5, <2>1
<1>7. CASE u \in {3, 5}
  <2>1. After(u, k) \in {2, 1} /\ 1 <= c
    BY <1>2, <1>7 DEF After, Least
  <2>2. 2 <= 64 * c + (b % 64)
    BY <1>2, <1>5, <2>1
  <2> QED BY <1>3, <1>4, <2>1, <2>2 DEF Least
<1>8. CASE u \in {7, 8}
  <2>1. After(u, k) \in {3, 1} /\ 1 <= c
    BY <1>2, <1>8 DEF After, Least
  <2>2. 1 <= 64 * c + (b % 64)
    BY <1>2, <1>5, <2>1
  <2> QED BY <1>3, <1>4, <2>1, <2>2 DEF Least
<1>9. CASE u = 4
  <2>1. k = 7 /\ After(u, k) = 2 /\ 0 <= c
    BY <1>2, <1>4, <1>9 DEF After, Least
  <2>2. b \in 160 .. 191
    <3>1. Class(b) = 7
      BY <1>1, <2>1
    <3> QED BY <3>1, Continuing
  <2>3. 2 <= 64 * c + (b % 64)
    <3>1. b % 64 >= 2
      BY <2>2
    <3> QED BY <1>2, <1>5, <2>1, <3>1
  <2> QED BY <1>3, <1>4, <2>1, <2>3 DEF Least
<1>10. CASE u = 6
  <2>1. k \in {7, 9} /\ After(u, k) = 3 /\ 0 <= c
    BY <1>2, <1>4, <1>10 DEF After, Least
  <2>2. b \in 144 .. 191
    <3>1. Class(b) = 7 \/ Class(b) = 9
      BY <1>1, <2>1
    <3> QED BY <3>1, Continuing
  <2>3. 1 <= 64 * c + (b % 64)
    <3>1. b % 64 >= 1
      BY <2>2
    <3> QED BY <1>2, <1>5, <2>1, <3>1
  <2> QED BY <1>3, <1>4, <2>1, <2>3 DEF Least
<1> QED BY <1>6, <1>7, <1>8, <1>9, <1>10

\* The lexer has read tok as the beginning of a character, and waits for its rest as
\* the decoder in state u does.
Inside(tok, u) ==
  \E st \in LexerState :
    /\ Reads(tok, st) /\ st.at = "tail" /\ st.ranges = RangesOf(u) /\ st.token = tok

\* It has read text as the character tok.
Echo(text, tok) ==
  \E st \in LexerState : Reads(text, st) /\ st.at = "char" /\ st.token = tok

\* The bytes of a character that have been written are those read, tok.
Raw(o, tok, u) ==
  /\ Good(o) /\ o.state = u /\ u \in 2 .. 8
  /\ tok \in Seq(Int) /\ o.text = tok
  /\ Least(u) <= o.codep
  /\ Inside(tok, u)

LEMMA StartType ==
  /\ Start \in LexerState /\ Start.at = "char" /\ Start.token = <<>> /\ Start.added = <<>>
  /\ [[Start EXCEPT !.added = <<>>] EXCEPT !.token = <<>>] = Start
  /\ [Start EXCEPT !.added = <<>>] = Start
<1>1. PICK e, z : e = <<>> /\ z = 0
  OBVIOUS
<1>2. e \in Seq(Int) /\ e \in Seq(SUBSET Int) /\ z \in Int
  <2>1. <<>> \in Seq(Int) /\ <<>> \in Seq(SUBSET Int)
    OBVIOUS
  <2> QED BY <1>1, <2>1
<1>3. Start = [at |-> "char", ranges |-> e, high |-> z, added |-> e, token |-> e]
  BY <1>1 DEF Start
<1>4. "char" \in Places \cup Causes
  BY DEF Places
<1>5. Start \in LexerState
  BY <1>2, <1>3, <1>4 DEF LexerState
<1>6. Start.at = "char" /\ Start.token = e /\ Start.added = e
  BY <1>3
<1>7. [Start EXCEPT !.added = e] = Start
  BY <1>3
<1>8. [Start EXCEPT !.token = e] = Start
  BY <1>3
<1> QED BY <1>1, <1>5, <1>6, <1>7, <1>8

\* The first byte.
LEMMA RawFirst ==
  ASSUME NEW o, Good(o), o.state = 0, o.text = <<>>, NEW b \in 128 .. 255, Decode(0, b) # 1
  PROVE  Raw(DumpByte(o, b), <<b>>, Decode(0, b))
<1>1. b \in Byte
  BY DEF Byte
<1>2. PICK w : w = Decode(0, b)
  OBVIOUS
<1>3. w \in 2 .. 8 /\ RangesAfter(b) = RangesOf(w) /\ RangesAfter(b) # <<>>
  <2>1. IF RangesAfter(b) = <<>> THEN Decode(0, b) = 1
        ELSE Decode(0, b) \in 2 .. 8 /\ RangesAfter(b) = RangesOf(Decode(0, b))
    BY Lead
  <2> QED BY <1>2, <2>1
<1>4. PICK e : e = <<b>>
  OBVIOUS
<1>5. e \in Seq(Int) /\ <<>> \o e = e /\ b \in Int
  <2>1. e \in Seq(Int)
    BY <1>1, <1>4, OneByte
  <2>2. <<>> \o e = e
    BY <2>1, ConcatEmptySeq
  <2> QED BY <2>1, <2>2
<1>6. PICK p : p = DumpByte(o, b)
  OBVIOUS
<1>7. Good(p) /\ p.state = w /\ p.text = e /\ p.codep = CodePoint(o, b)
  <2>1. w # 0 /\ w # 1
    BY <1>3
  <2>2. /\ Good(DumpByte(o, b)) /\ DumpByte(o, b).state = Decode(0, b)
        /\ DumpByte(o, b).text = o.text \o (IF Decode(0, b) = 0
                                              THEN Shown(CodePoint(o, b), b) ELSE <<b>>)
        /\ Decode(0, b) # 0 => DumpByte(o, b).codep = CodePoint(o, b)
    BY <1>1, DumpByteGood
  <2> QED BY <1>2, <1>4, <1>5, <1>6, <2>1, <2>2
<1>8. Least(w) <= p.codep
  BY <1>2, <1>7, FirstPoint
<1>9. Inside(e, w)
  <2>1. PICK st : st = First(Start, b)
    OBVIOUS
  <2>2. st \in LexerState /\ st.at = "tail" /\ st.ranges = RangesOf(w)
    BY <1>3, <2>1, StartType, FirstOther
  <2>3. st.token = e
    BY <1>1, <1>4, <2>1, <2>2, StartType, FirstAdds
  <2>4. Scan(Start, b) = st
    BY <2>1, StartType DEF Scan
  <2>5. Reads(<<>> \o <<b>>, Scan(Start, b))
    <3>1. PICK t : t = <<>>
      OBVIOUS
    <3>2. t \in Seq(Int) /\ Reads(t, Start)
      BY <3>1, ReadsNone
    <3>3. Reads(t \o <<b>>, Scan(Start, b))
      BY <1>5, <3>2, ReadsMore
    <3> QED BY <3>1, <3>3
  <2>6. Reads(e, st)
    BY <1>4, <1>5, <2>4, <2>5
  <2> QED BY <2>2, <2>3, <2>6 DEF Inside
<1>10. Raw(p, e, w)
  BY <1>3, <1>5, <1>7, <1>8, <1>9 DEF Raw
<1> QED BY <1>2, <1>4, <1>6, <1>10

\* Every further one, and the last.
LEMMA RawNext ==
  ASSUME NEW o, NEW tok, NEW u, Raw(o, tok, u), NEW b \in Byte, Decode(u, b) # 1
  PROVE  /\ Decode(u, b) # 0 => Raw(DumpByte(o, b), tok \o <<b>>, Decode(u, b))
         /\ Decode(u, b) = 0 => /\ Good(DumpByte(o, b)) /\ DumpByte(o, b).state = 0
                                /\ Echo(DumpByte(o, b).text, tok \o <<b>>)
<1>1. /\ Good(o) /\ o.state = u /\ u \in 2 .. 8 /\ tok \in Seq(Int) /\ o.text = tok
      /\ Least(u) <= o.codep /\ o.codep \in Int
  BY DEF Raw, Good, OutState
<1>2. PICK w, e, p, c : /\ w = Decode(u, b) /\ e = <<b>> /\ p = DumpByte(o, b)
                        /\ c = CodePoint(o, b)
  OBVIOUS
<1>3. e \in Seq(Int) /\ b \in Int /\ w \in 0 .. 8 /\ w # 1
  <2>1. <<b>> \in Seq(Int)
    BY OneByte
  <2>2. Decode(u, b) \in 0 .. 8
    BY <1>1, DecodeType
  <2>3. b \in Int
    BY DEF Byte
  <2> QED BY <1>2, <2>1, <2>2, <2>3
<1>4. PICK more : more = tok \o e
  OBVIOUS
<1>5. more \in Seq(Int)
  BY <1>1, <1>3, <1>4, ConcatProperties
<1>6. IF w = 0 THEN 128 <= c ELSE Least(w) <= c
  BY <1>1, <1>2, NextPoint
<1>7. /\ Good(p) /\ p.state = w
      /\ p.text = tok \o (IF w = 0 THEN Shown(c, b) ELSE e)
      /\ w # 0 => p.codep = c
  BY <1>1, <1>2, DumpByteGood
<1>8. p.text = more
  <2>1. w = 0 => Shown(c, b) = e
    <3>1. SUFFICES ASSUME w = 0 PROVE Shown(c, b) = e
      OBVIOUS
    <3>2. c \in Int
      BY <1>1, <1>2, CodePointType DEF Good
    <3>3. c \notin {34, 92} /\ c \notin {8, 9, 10, 12, 13} /\ ~(c <= 31)
      BY <1>6, <3>1, <3>2
    <3> QED BY <1>2, <3>3 DEF Shown
  <2> QED BY <1>4, <1>7, <2>1
<1>9. PICK st \in LexerState :
        Reads(tok, st) /\ st.at = "tail" /\ st.ranges = RangesOf(u) /\ st.token = tok
  BY DEF Raw, Inside
<1>10. PICK now, new : now = [st EXCEPT !.added = <<>>] /\ new = Scan(st, b)
  OBVIOUS
<1>11. now \in LexerState /\ now.ranges = RangesOf(u) /\ now.token = tok /\ now.added = <<>>
  <2>1. now \in LexerState /\ now.ranges = st.ranges
    BY <1>10, NowType
  <2>2. now.token = st.token /\ now.added = <<>>
    BY <1>10 DEF LexerState
  <2> QED BY <1>9, <2>1, <2>2
<1>12. new = next_byte_in_range(now, b)
  BY <1>9, <1>10 DEF Scan
<1>13. /\ new \in LexerState
       /\ new.at = "ill-formed" => w = 1
       /\ new.at = "tail" => w \in 2 .. 8 /\ new.ranges = RangesOf(w)
       /\ new.at \notin Causes \cup {"tail"} => w = 0
  BY <1>1, <1>2, <1>11, <1>12, TailStep
<1>14. b \in Head(now.ranges)
  <2>1. IF b \in Head(RangesOf(u))
          THEN IF Len(RangesOf(u)) = 1 THEN Decode(u, b) = 0
               ELSE /\ Decode(u, b) \in 2 .. 8
                    /\ Tail(RangesOf(u)) = RangesOf(Decode(u, b))
          ELSE Decode(u, b) = 1
    BY <1>1, Follow
  <2> QED BY <1>11, <2>1
<1>15. new.token = more
  BY <1>2, <1>4, <1>11, <1>12, <1>14, TailAdds
<1>16. new.at \in {"char", "tail"}
  <2>1. PICK at, rest : /\ at = IF Len(now.ranges) = 1 THEN "char" ELSE "tail"
                        /\ rest = Tail(now.ranges)
    OBVIOUS
  <2>2. now.ranges \in Seq(SUBSET Int) /\ now.ranges # <<>>
    BY <1>1, <1>11, RangesNonEmpty DEF LexerState
  <2>3. rest \in Seq(SUBSET Int)
    BY <2>1, <2>2
  <2>4. new.at = at
    BY <1>11, <1>12, <1>14, <2>1, <2>3, TailByte
  <2> QED BY <2>1, <2>4
<1>17. Reads(more, new)
  BY <1>1, <1>2, <1>3, <1>4, <1>9, <1>10, ReadsMore
<1>18. CASE w # 0
  <2>1. new.at = "tail" /\ new.ranges = RangesOf(w) /\ w \in 2 .. 8
    <3>1. new.at # "char"
      BY <1>13, <1>18 DEF Causes
    <3> QED BY <1>13, <1>16, <3>1
  <2>2. Raw(p, more, w)
    BY <1>5, <1>6, <1>7, <1>8, <1>13, <1>15, <1>17, <1>18, <2>1 DEF Raw, Inside
  <2> QED BY <1>2, <1>4, <1>18, <2>2
<1>19. CASE w = 0
  <2>1. new.at = "char"
    BY <1>13, <1>16, <1>19
  <2>2. Echo(p.text, more)
    BY <1>8, <1>13, <1>15, <1>17, <2>1 DEF Echo
  <2> QED BY <1>2, <1>4, <1>7, <1>19, <2>2
<1> QED BY <1>18, <1>19

\* What stands for an ASCII character after a backslash.
LEMMA EscapedIs ==
  ASSUME NEW st
  PROVE  /\ \A c \in {34, 92} : Escaped(st, c) = Add(st, <<c>>)
         /\ \A c \in {8, 9, 10, 12, 13} : Escaped(st, Letter(c)) = Add(st, <<c>>)
         /\ \A c \in 0 .. 31 : Escaped(st, Uni(c)) = Add(st, <<c>>)
<1>1. ASSUME NEW s \in Int
      PROVE  (\E e \in Short : e[1] = s) <=> s \in {98, 116, 110, 102, 114}
  BY DEF Short
<1>2. ASSUME NEW c \in {34, 92} PROVE Escaped(st, c) = Add(st, <<c>>)
  <2>1. ~(\E e \in Short : e[1] = c) /\ ~(256 <= c /\ c < NoDigits)
    BY <1>1, <1>2
  <2>2. c \in {34, 47, 92}
    BY <1>2
  <2> QED BY <2>1, <2>2 DEF Escaped
<1>3. ASSUME NEW c \in {8, 9, 10, 12, 13} PROVE Escaped(st, Letter(c)) = Add(st, <<c>>)
  <2>1. PICK s : s = Letter(c)
    OBVIOUS
  <2>2. s \in {98, 116, 110, 102, 114}
    BY <1>3, <2>1 DEF Letter
  <2>3. s \notin {34, 47, 92} /\ ~(256 <= s /\ s < NoDigits) /\ \E e \in Short : e[1] = s
    BY <1>1, <2>2
  <2>4. (CHOOSE e \in Short : e[1] = s)[2] = c
    <3>1. PICK e : e = CHOOSE x \in Short : x[1] = s
      OBVIOUS
    <3>2. e \in Short /\ e[1] = s
      BY <2>3, <3>1
    <3>3. e[2] = c
      BY <1>3, <2>1, <3>2 DEF Short, Letter
    <3> QED BY <3>1, <3>3
  <2>5. Escaped(st, s) = Add(st, <<(CHOOSE e \in Short : e[1] = s)[2]>>)
    BY <2>3 DEF Escaped
  <2> QED BY <2>1, <2>4, <2>5
<1>4. ASSUME NEW c \in 0 .. 31 PROVE Escaped(st, Uni(c)) = Add(st, <<c>>)
  <2>1. PICK s : s = Uni(c)
    OBVIOUS
  <2>2. s \in 256 .. 287 /\ s - 256 = c
    BY <2>1 DEF Uni
  <2>3. s \notin {34, 47, 92} /\ 256 <= s /\ s < NoDigits /\ ~(\E e \in Short : e[1] = s)
    BY <1>1, <2>2 DEF NoDigits
  <2>4. Escaped(st, s) = Unicode(st, c)
    BY <2>2, <2>3 DEF Escaped
  <2>5. ~High(c) /\ ~Low(c) /\ Encoded(c) = <<c>>
    BY DEF High, Low, Encoded
  <2>6. Unicode(st, c) = Add(st, <<c>>)
    BY <2>5 DEF Unicode
  <2> QED BY <2>1, <2>4, <2>6
<1> QED BY <1>2, <1>3, <1>4

\* A sequence and one more.
LEMMA OneMoreIs ==
  ASSUME NEW t \in Seq(Int), NEW s \in Int, NEW u \in Seq(Int), Len(u) = Len(t) + 1,
         \A n \in 1 .. Len(t) : u[n] = t[n], u[Len(t) + 1] = s
  PROVE  t \o <<s>> = u
<1>1. PICK v : v = t \o <<s>>
  OBVIOUS
<1>2. /\ v \in Seq(Int) /\ Len(v) = Len(t) + 1
      /\ \A n \in 1 .. Len(t) : v[n] = t[n]
      /\ v[Len(t) + 1] = s
  BY <1>1, OneMore
<1>3. \A n \in 1 .. Len(t) + 1 : v[n] = u[n]
  <2>1. SUFFICES ASSUME NEW n \in 1 .. Len(t) + 1 PROVE v[n] = u[n]
    OBVIOUS
  <2>2. Len(t) \in Nat
    OBVIOUS
  <2>3. CASE n = Len(t) + 1
    BY <1>2, <2>3
  <2>4. CASE n # Len(t) + 1
    <3>1. n \in 1 .. Len(t)
      BY <2>2, <2>4
    <3> QED BY <1>2, <3>1
  <2> QED BY <2>3, <2>4
<1>4. v = u
  BY <1>2, <1>3, SeqEqual
<1> QED BY <1>1, <1>4

\* The lexer after a backslash.
LEMMA Backslash ==
  \E st \in LexerState :
    Reads(<<92>>, st) /\ st.at = "escape" /\ st.token = <<>> /\ st.added = <<>>
<1>1. PICK e, st : e = <<>> /\ st = First(Start, 92)
  OBVIOUS
<1>2. e \in Seq(Int) /\ Reads(e, Start) /\ e \o <<92>> = <<92>>
  <2>1. <<92>> \in Seq(Int) /\ <<>> \in Seq(Int)
    OBVIOUS
  <2>2. <<>> \o <<92>> = <<92>>
    BY <2>1, ConcatEmptySeq
  <2> QED BY <1>1, <2>1, <2>2, ReadsNone
<1>3. Scan(Start, 92) = st
  BY <1>1, StartType DEF Scan
<1>4. Reads(e \o <<92>>, st)
  <2>1. 92 \in Int
    OBVIOUS
  <2>2. Reads(e \o <<92>>, Scan(Start, 92))
    BY <1>2, <2>1, ReadsMore
  <2> QED BY <1>3, <2>2
<1>5. st \in LexerState
  <2>1. 92 \in 0 .. 127
    OBVIOUS
  <2> QED BY <1>1, <2>1, StartType, FirstAscii
<1>6. st.at = "escape" /\ st.token = <<>> /\ st.added = <<>>
  <2>1. 92 \in Byte
    BY DEF Byte
  <2>2. First(Start, 92).at = "escape"
    BY <2>1, StartType, FirstAdds
  <2>3. First(Start, 92).at \notin {"char", "tail"}
    BY <2>2
  <2>4. First(Start, 92).added = <<>> /\ First(Start, 92).token = <<>>
    BY <2>1, <2>3, StartType, FirstAdds
  <2> QED BY <1>1, <2>2, <2>4
<1> QED BY <1>2, <1>4, <1>5, <1>6

\* An escape reads as the character it stands for.
LEMMA EscapeEcho ==
  ASSUME NEW s \in Int, NEW e \in Seq(Int), \A st \in LexerState : Escaped(st, s) = Add(st, e)
  PROVE  Echo(<<92, s>>, e)
<1>1. PICK st \in LexerState :
        Reads(<<92>>, st) /\ st.at = "escape" /\ st.token = <<>> /\ st.added = <<>>
  BY Backslash
<1>2. PICK now, new : now = [st EXCEPT !.added = <<>>] /\ new = Add(now, e)
  OBVIOUS
<1>3. now \in LexerState /\ now.token = <<>>
  <2>1. now \in LexerState
    BY <1>2, NowType
  <2>2. now.token = st.token
    BY <1>2 DEF LexerState
  <2> QED BY <1>1, <2>1, <2>2
<1>4. Scan(st, s) = new
  <2>1. Scan(st, s) = Escaped(now, s)
    BY <1>1, <1>2 DEF Scan
  <2> QED BY <1>2, <1>3, <2>1
<1>5. new \in LexerState /\ new.at = "char" /\ new.token = e
  <2>1. new.token = <<>> \o e
    <3>1. Add(now, e).token = now.token \o e
      BY <1>3, AddIs
    <3> QED BY <1>2, <1>3, <3>1
  <2>2. <<>> \o e = e
    BY ConcatEmptySeq
  <2> QED BY <1>2, <1>3, <2>1, <2>2, AddIs
<1>6. Reads(<<92, s>>, new)
  <2>1. PICK t : t = <<92>>
    OBVIOUS
  <2>2. t \in Seq(Int)
    BY <2>1
  <2>3. t \o <<s>> = <<92, s>>
    <3>1. PICK u : u = <<92, s>>
      OBVIOUS
    <3>2. u \in Seq(Int) /\ Len(u) = 2 /\ u[1] = 92 /\ u[2] = s /\ Len(t) = 1 /\ t[1] = 92
      BY <2>1, <3>1
    <3>3. \A n \in 1 .. Len(t) : u[n] = t[n]
      BY <3>2
    <3>4. u \in Seq(Int) /\ Len(u) = Len(t) + 1 /\ u[Len(t) + 1] = s
      BY <3>2
    <3>5. t \o <<s>> = u
      BY <2>2, <3>3, <3>4, OneMoreIs
    <3> QED BY <3>1, <3>5
  <2>4. Reads(t \o <<s>>, Scan(st, s))
    BY <1>1, <2>1, <2>2, ReadsMore
  <2> QED BY <1>4, <2>3, <2>4
<1> QED BY <1>5, <1>6 DEF Echo

\* So does an ASCII character that is written as it is.
LEMMA PlainEcho ==
  ASSUME NEW c \in (32 .. 127) \ {34, 92}
  PROVE  Echo(<<c>>, <<c>>)
<1>1. PICK e, f, st : e = <<>> /\ f = <<c>> /\ st = First(Start, c)
  OBVIOUS
<1>2. e \in Seq(Int) /\ Reads(e, Start) /\ e \o <<c>> = f
  <2>1. <<c>> \in Seq(Int) /\ <<>> \in Seq(Int)
    OBVIOUS
  <2>2. <<>> \o <<c>> = <<c>>
    BY <2>1, ConcatEmptySeq
  <2> QED BY <1>1, <2>1, <2>2, ReadsNone
<1>3. Scan(Start, c) = st
  BY <1>1, StartType DEF Scan
<1>4. Reads(f, st)
  <2>1. c \in Int
    OBVIOUS
  <2>2. Reads(e \o <<c>>, Scan(Start, c))
    BY <1>2, <2>1, ReadsMore
  <2> QED BY <1>2, <1>3, <2>2
<1>5. st \in LexerState
  <2>1. c \in 0 .. 127
    OBVIOUS
  <2> QED BY <1>1, <2>1, StartType, FirstAscii
<1>6. st.at = "char" /\ st.token = f
  <2>1. c \in Byte
    BY DEF Byte
  <2>2. First(Start, c).at = "char"
    BY <2>1, StartType, FirstAdds
  <2>3. First(Start, c).token = <<c>>
    BY <2>1, <2>2, StartType, FirstAdds
  <2> QED BY <1>1, <2>2, <2>3
<1>7. Echo(f, f)
  BY <1>4, <1>5, <1>6 DEF Echo
<1> QED BY <1>1, <1>7

\* The class of ASCII.
LEMMA AsciiClass == ASSUME NEW b \in 0 .. 127 PROVE Class(b) = 0
BY DEF Class

\* However an ASCII character is written, it is read again.
LEMMA ShownEcho == ASSUME NEW c \in 0 .. 127 PROVE Echo(Shown(c, c), <<c>>)
<1>1. PICK f : f = <<c>>
  OBVIOUS
<1>2. f \in Seq(Int)
  BY <1>1
<1>3. CASE c \in {34, 92}
  <2>1. \A st \in LexerState : Escaped(st, c) = Add(st, f)
    BY <1>1, <1>3, EscapedIs
  <2>2. Echo(<<92, c>>, f)
    BY <1>2, <2>1, EscapeEcho
  <2> QED BY <1>1, <1>3, <2>2 DEF Shown
<1>4. CASE c \in {8, 9, 10, 12, 13}
  <2>1. PICK s : s = Letter(c)
    OBVIOUS
  <2>2. s \in Int
    BY <2>1 DEF Letter
  <2>3. \A st \in LexerState : Escaped(st, s) = Add(st, f)
    BY <1>1, <1>4, <2>1, EscapedIs
  <2>4. Echo(<<92, s>>, f)
    BY <1>2, <2>2, <2>3, EscapeEcho
  <2>5. c \notin {34, 92}
    BY <1>4
  <2> QED BY <1>1, <1>4, <2>1, <2>4, <2>5 DEF Shown
<1>5. CASE c <= 31 /\ c \notin {8, 9, 10, 12, 13}
  <2>1. PICK s : s = Uni(c)
    OBVIOUS
  <2>2. s \in Int
    BY <2>1 DEF Uni
  <2>3. c \in 0 .. 31
    BY <1>5
  <2>4. \A st \in LexerState : Escaped(st, s) = Add(st, f)
    BY <1>1, <2>1, <2>3, EscapedIs
  <2>5. Echo(<<92, s>>, f)
    BY <1>2, <2>2, <2>4, EscapeEcho
  <2>6. c \notin {34, 92}
    BY <1>5
  <2> QED BY <1>1, <1>5, <2>1, <2>5, <2>6 DEF Shown
<1>6. CASE c \in (32 .. 127) \ {34, 92}
  <2>1. c \notin {34, 92} /\ c \notin {8, 9, 10, 12, 13} /\ ~(c <= 31)
    BY <1>6
  <2>2. Shown(c, c) = f
    BY <1>1, <2>1 DEF Shown
  <2> QED BY <1>1, <1>6, <2>2, PlainEcho
<1> QED BY <1>3, <1>4, <1>5, <1>6

\* The serializer writes an ASCII character so.
LEMMA EchoOne ==
  ASSUME NEW o, Good(o), o.state = 0, o.text = <<>>, NEW c \in 0 .. 127
  PROVE  /\ Good(DumpByte(o, c)) /\ DumpByte(o, c).state = 0
         /\ Echo(DumpByte(o, c).text, <<c>>)
<1>0. c \in 0 .. 127 /\ c \in Int
  OBVIOUS
<1>1. c \in Byte /\ Decode(0, c) = 0
  <2>1. c \in Byte
    BY <1>0 DEF Byte
  <2> QED BY <1>0, <2>1, Ascii
<1>2. CodePoint(o, c) = c
  <2>1. Class(c) = 0
    BY <1>0, AsciiClass
  <2>2. Class(c) < 8 /\ Kept[Class(c) + 1] = 256
    BY <2>1 DEF Kept
  <2>3. c % 256 = c
    BY <1>0
  <2> QED BY <2>2, <2>3 DEF CodePoint, utf8_accept
<1>3. PICK p, s : p = DumpByte(o, c) /\ s = Shown(c, c)
  OBVIOUS
<1>4. Good(p) /\ p.state = 0 /\ p.text = <<>> \o s
  <2>1. Decode(o.state, c) # 1
    BY <1>1
  <2>2. /\ Good(DumpByte(o, c)) /\ DumpByte(o, c).state = Decode(o.state, c)
        /\ DumpByte(o, c).text = o.text \o (IF Decode(o.state, c) = 0
                                              THEN Shown(CodePoint(o, c), c) ELSE <<c>>)
    BY <1>1, <2>1, DumpByteGood
  <2> QED BY <1>1, <1>2, <1>3, <2>2
<1>5. s \in Seq(Int)
  <2>1. <<92, c>> \in Seq(Int) /\ <<c>> \in Seq(Int)
    BY <1>0
  <2>2. Letter(c) \in Int /\ Uni(c) \in Int
    BY <1>0 DEF Letter, Uni
  <2>3. <<92, Letter(c)>> \in Seq(Int) /\ <<92, Uni(c)>> \in Seq(Int)
    BY <2>2
  <2> QED BY <1>3, <2>1, <2>3 DEF Shown
<1>6. p.text = s
  BY <1>4, <1>5, ConcatEmptySeq
<1> QED BY <1>3, <1>4, <1>6, ShownEcho

\* After o the serializer takes tok, the beginning of a character.
Raws(o, tok, u) == \E p : Dumps(o, tok, p) /\ Raw(p, tok, u)

\* It takes the character tok, and the lexer will read the same.
Writes(o, tok) ==
  \E p : Dumps(o, tok, p) /\ Good(p) /\ p.state = 0 /\ Echo(p.text, tok)

\* o stands between two characters.
Fresh(o) == Good(o) /\ o.state = 0 /\ o.text = <<>>

LEMMA RawsFirst ==
  ASSUME NEW o, Fresh(o), NEW b \in Byte, 128 <= b, Decode(0, b) # 1
  PROVE  Raws(o, <<b>>, Decode(0, b))
<1>0. b \in 128 .. 255
  BY DEF Byte
<1>1. Raw(DumpByte(o, b), <<b>>, Decode(0, b))
  BY <1>0, RawFirst DEF Fresh
<1>2. Dumps(o, <<b>>, DumpByte(o, b))
  <2>1. PICK e : e = <<>>
    OBVIOUS
  <2>2. e \in Seq(Int) /\ Dumps(o, e, o)
    BY <2>1, DumpsNone
  <2>3. b \in Int
    BY DEF Byte
  <2>4. Dumps(o, e \o <<b>>, DumpByte(o, b))
    BY <2>2, <2>3, DumpsMore
  <2>5. <<b>> \in Seq(Int)
    BY <2>3
  <2>6. e \o <<b>> = <<b>>
    BY <2>1, <2>5, ConcatEmptySeq
  <2> QED BY <2>4, <2>6
<1> QED BY <1>1, <1>2 DEF Raws

LEMMA RawsNext ==
  ASSUME NEW o, NEW tok, NEW u, Raws(o, tok, u), NEW b \in Byte, NEW w, Decode(u, b) = w,
         w \notin {0, 1}, NEW e \in Seq(Int), Len(e) = Len(tok) + 1,
         \A n \in 1 .. Len(tok) : e[n] = tok[n], e[Len(tok) + 1] = b
  PROVE  Raws(o, e, w)
<1>1. PICK p : Dumps(o, tok, p) /\ Raw(p, tok, u)
  BY DEF Raws
<1>2. tok \in Seq(Int) /\ b \in Int
  <2>1. tok \in Seq(Int)
    BY <1>1 DEF Raw
  <2>2. b \in Int
    BY DEF Byte
  <2> QED BY <2>1, <2>2
<1>3. tok \o <<b>> = e
  BY <1>2, OneMoreIs
<1>4. Raw(DumpByte(p, b), tok \o <<b>>, w)
  BY <1>1, RawNext
<1>5. Dumps(o, tok \o <<b>>, DumpByte(p, b))
  BY <1>1, <1>2, DumpsMore
<1> QED BY <1>3, <1>4, <1>5 DEF Raws

LEMMA RawsLast ==
  ASSUME NEW o, NEW tok, NEW u, Raws(o, tok, u), NEW b \in Byte, Decode(u, b) = 0,
         NEW e \in Seq(Int), Len(e) = Len(tok) + 1,
         \A n \in 1 .. Len(tok) : e[n] = tok[n], e[Len(tok) + 1] = b
  PROVE  Writes(o, e)
<1>1. PICK p : Dumps(o, tok, p) /\ Raw(p, tok, u)
  BY DEF Raws
<1>2. tok \in Seq(Int) /\ b \in Int
  <2>1. tok \in Seq(Int)
    BY <1>1 DEF Raw
  <2>2. b \in Int
    BY DEF Byte
  <2> QED BY <2>1, <2>2
<1>3. tok \o <<b>> = e
  BY <1>2, OneMoreIs
<1>4. /\ Good(DumpByte(p, b)) /\ DumpByte(p, b).state = 0
      /\ Echo(DumpByte(p, b).text, tok \o <<b>>)
  <2>1. Decode(u, b) # 1
    OBVIOUS
  <2> QED BY <1>1, <2>1, RawNext
<1>5. Dumps(o, tok \o <<b>>, DumpByte(p, b))
  BY <1>1, <1>2, DumpsMore
<1> QED BY <1>3, <1>4, <1>5 DEF Writes

\* Characters of one to four bytes.
LEMMA WritesOne ==
  ASSUME NEW o, Fresh(o), NEW c \in 0 .. 127
  PROVE  Writes(o, <<c>>)
<1>1. /\ Good(DumpByte(o, c)) /\ DumpByte(o, c).state = 0
      /\ Echo(DumpByte(o, c).text, <<c>>)
  BY EchoOne DEF Fresh
<1>2. Dumps(o, <<c>>, DumpByte(o, c))
  <2>1. PICK e : e = <<>>
    OBVIOUS
  <2>2. e \in Seq(Int) /\ Dumps(o, e, o)
    BY <2>1, DumpsNone
  <2>3. c \in Int
    OBVIOUS
  <2>4. Dumps(o, e \o <<c>>, DumpByte(o, c))
    BY <2>2, <2>3, DumpsMore
  <2>5. <<c>> \in Seq(Int)
    BY <2>3
  <2>6. e \o <<c>> = <<c>>
    BY <2>1, <2>5, ConcatEmptySeq
  <2> QED BY <2>4, <2>6
<1> QED BY <1>1, <1>2 DEF Writes

LEMMA WritesTwo ==
  ASSUME NEW o, Fresh(o),
         NEW a \in Byte, 128 <= a, NEW b \in Byte, NEW u, Decode(0, a) = u, u # 1, Decode(u, b) = 0
  PROVE  Writes(o, <<a, b>>)
<1>0. a \in Int /\ b \in Int
  BY DEF Byte
<1>1. PICK t, e : t = <<a>> /\ e = <<a, b>>
  OBVIOUS
<1>2. Raws(o, t, u)
  BY <1>1, RawsFirst
<1>3. e \in Seq(Int) /\ Len(e) = 2 /\ Len(t) = 1 /\ e[1] = a /\ e[2] = b /\ t[1] = a
  BY <1>0, <1>1
<1>4. /\ e \in Seq(Int) /\ Len(e) = Len(t) + 1 /\ \A n \in 1 .. Len(t) : e[n] = t[n]
      /\ e[Len(t) + 1] = b
  BY <1>3
<1>8. Writes(o, e)
  BY <1>2, <1>4, RawsLast
<1> QED BY <1>1, <1>8

LEMMA RawsTwo ==
  ASSUME NEW o, Fresh(o),
         NEW a \in Byte, 128 <= a, NEW b \in Byte, NEW u, Decode(0, a) = u, u # 1,
         NEW v, Decode(u, b) = v, v \notin {0, 1}
  PROVE  Raws(o, <<a, b>>, v)
<1>0. a \in Int /\ b \in Int
  BY DEF Byte
<1>1. PICK t, e : t = <<a>> /\ e = <<a, b>>
  OBVIOUS
<1>2. Raws(o, t, u)
  BY <1>1, RawsFirst
<1>3. e \in Seq(Int) /\ Len(e) = 2 /\ Len(t) = 1 /\ e[1] = a /\ e[2] = b /\ t[1] = a
  BY <1>0, <1>1
<1>4. /\ e \in Seq(Int) /\ Len(e) = Len(t) + 1 /\ \A n \in 1 .. Len(t) : e[n] = t[n]
      /\ e[Len(t) + 1] = b
  BY <1>3
<1>8. Raws(o, e, v)
  BY <1>2, <1>4, RawsNext
<1> QED BY <1>1, <1>8

LEMMA WritesThree ==
  ASSUME NEW o, NEW a \in Int, NEW b \in Int, NEW u, Raws(o, <<a, b>>, u),
         NEW c \in Byte, Decode(u, c) = 0
  PROVE  Writes(o, <<a, b, c>>)
<1>1. PICK t, e : t = <<a, b>> /\ e = <<a, b, c>>
  OBVIOUS
<1>2. Raws(o, t, u)
  BY <1>1
<1>3. /\ e \in Seq(Int) /\ Len(e) = 3 /\ Len(t) = 2 /\ e[1] = a /\ e[2] = b /\ e[3] = c
      /\ t[1] = a /\ t[2] = b
  BY <1>1 DEF Byte
<1>4. /\ e \in Seq(Int) /\ Len(e) = Len(t) + 1 /\ \A n \in 1 .. Len(t) : e[n] = t[n]
      /\ e[Len(t) + 1] = c
  BY <1>3
<1>8. Writes(o, e)
  BY <1>2, <1>4, RawsLast
<1> QED BY <1>1, <1>8

LEMMA WritesFour ==
  ASSUME NEW o, NEW a \in Int, NEW b \in Int, NEW u, Raws(o, <<a, b>>, u),
         NEW c \in Byte, NEW v, Decode(u, c) = v, v \notin {0, 1},
         NEW d \in Byte, Decode(v, d) = 0
  PROVE  Writes(o, <<a, b, c, d>>)
<1>1. PICK t, e, f : t = <<a, b>> /\ e = <<a, b, c>> /\ f = <<a, b, c, d>>
  OBVIOUS
<1>2. Raws(o, t, u)
  BY <1>1
<1>3. /\ e \in Seq(Int) /\ Len(e) = 3 /\ Len(t) = 2 /\ e[1] = a /\ e[2] = b /\ e[3] = c
      /\ t[1] = a /\ t[2] = b
  BY <1>1 DEF Byte
<1>4. /\ e \in Seq(Int) /\ Len(e) = Len(t) + 1 /\ \A n \in 1 .. Len(t) : e[n] = t[n]
      /\ e[Len(t) + 1] = c
  BY <1>3
<1>5. Raws(o, e, v)
  BY <1>2, <1>4, RawsNext
<1>6. f \in Seq(Int) /\ Len(f) = 4 /\ f[1] = a /\ f[2] = b /\ f[3] = c /\ f[4] = d
  BY <1>1 DEF Byte
<1>7. /\ f \in Seq(Int) /\ Len(f) = Len(e) + 1 /\ \A n \in 1 .. Len(e) : f[n] = e[n]
      /\ f[Len(e) + 1] = d
  BY <1>3, <1>6
<1>8. Writes(o, f)
  BY <1>5, <1>7, RawsLast
<1> QED BY <1>1, <1>8

\* What the decoder makes of the bytes of a character.
LEMMA LeadStates ==
  ASSUME NEW b \in Byte
  PROVE  /\ b \in 194 .. 223 => Decode(0, b) = 2
         /\ b = 224 => Decode(0, b) = 4
         /\ b = 237 => Decode(0, b) = 5
         /\ b \in (225 .. 239) \ {237} => Decode(0, b) = 3
         /\ b = 240 => Decode(0, b) = 6
         /\ b \in 241 .. 243 => Decode(0, b) = 7
         /\ b = 244 => Decode(0, b) = 8
<1>1. b \in 194 .. 223 => Class(b) = 2
  BY DEF Class
<1>2. b = 224 => Class(b) = 10
  BY DEF Class
<1>3. b = 237 => Class(b) = 4
  BY DEF Class
<1>4. b \in (225 .. 239) \ {237} => Class(b) = 3
  BY DEF Class
<1>5. b = 240 => Class(b) = 11
  BY DEF Class
<1>6. b \in 241 .. 243 => Class(b) = 6
  BY DEF Class
<1>7. b = 244 => Class(b) = 5
  BY DEF Class
<1>8. /\ After(0, 2) = 2 /\ After(0, 10) = 4 /\ After(0, 4) = 5 /\ After(0, 3) = 3
      /\ After(0, 11) = 6 /\ After(0, 6) = 7 /\ After(0, 5) = 8
  BY DEF After
<1> QED BY <1>1, <1>2, <1>3, <1>4, <1>5, <1>6, <1>7, <1>8 DEF Decode

\* A byte that continues a character.
Trail == {b \in Int : 128 <= b /\ b <= 191}

LEMMA ByteIs == ASSUME NEW b \in Int, 0 <= b, b <= 255 PROVE b \in Byte
BY DEF Byte

LEMMA ByteBelow == ASSUME NEW b \in Byte PROVE b < 256
BY DEF Byte

LEMMA TrailByte == ASSUME NEW b \in Trail PROVE b \in Byte /\ b \in Int
<1>1. b \in Int /\ 0 <= b /\ b <= 255
  BY DEF Trail
<1> QED BY <1>1, ByteIs

LEMMA RestStates ==
  ASSUME NEW b \in Trail
  PROVE  /\ Decode(2, b) = 0 /\ Decode(3, b) = 2 /\ Decode(7, b) = 3
         /\ b >= 160 => Decode(4, b) = 2
         /\ b <= 159 => Decode(5, b) = 2
         /\ b >= 144 => Decode(6, b) = 3
         /\ b <= 143 => Decode(8, b) = 3
<1>1. b \in Byte
  BY TrailByte
<1>2. PICK k : k = Class(b)
  OBVIOUS
<1>3. k \in {1, 7, 9} /\ (b >= 160 => k = 7) /\ (b <= 159 => k \in {1, 9})
      /\ (b >= 144 => k \in {7, 9}) /\ (b <= 143 => k = 1)
  <2>1. /\ k = 1 <=> b \in 128 .. 143
        /\ k = 9 <=> b \in 144 .. 159
        /\ k = 7 <=> b \in 160 .. 191
    BY <1>1, <1>2, Continuing
  <2> QED BY <2>1 DEF Trail
<1>4. After(2, k) = 0 /\ After(3, k) = 2 /\ After(7, k) = 3
  BY <1>3 DEF After
<1>5. /\ b >= 160 => After(4, k) = 2
      /\ b <= 159 => After(5, k) = 2
      /\ b >= 144 => After(6, k) = 3
      /\ b <= 143 => After(8, k) = 3
  BY <1>3 DEF After
<1> QED BY <1>2, <1>4, <1>5 DEF Decode

\* Six bits of a code point.
LEMMA SixBits == ASSUME NEW c \in Int PROVE 128 + (c % 64) \in Trail
BY SMT DEF Trail

\* The code points, and those of one \uXXXX.
Points == {c \in Nat : c <= 1114111}
Units == {c \in Nat : c < 65536}

LEMMA PointsAre ==
  /\ \A c \in Points : c \in Int /\ 0 <= c
  /\ \A c \in Units : c \in Points /\ c \in Int
BY SMT DEF Points, Units

\* The bytes of a code point of two, of three and of four.
LEMMA TwoBytes ==
  ASSUME NEW c \in Int, 128 <= c, c < 2048
  PROVE  \E a \in Byte, b \in Trail :
           /\ Encoded(c) = <<a, b>>
           /\ 194 <= a /\ a <= 223
<1>1. PICK a, b : a = 192 + c \div 64 /\ b = 128 + (c % 64)
  OBVIOUS
<1>2. Encoded(c) = <<a, b>>
  BY <1>1, SMT DEF Encoded
<1>3. a \in Int /\ 194 <= a /\ a <= 223
  BY <1>1, SMT
<1>4. a \in Byte
  <2>1. 0 <= a /\ a <= 255
    BY <1>3, SMT
  <2> QED BY <1>3, <2>1, ByteIs
<1> QED BY <1>1, <1>2, <1>3, <1>4, SixBits

LEMMA ThreeBytes ==
  ASSUME NEW c \in Int, 2048 <= c, c < 65536, ~High(c), ~Low(c)
  PROVE  \E a \in Byte, b \in Trail, d \in Trail :
           /\ Encoded(c) = <<a, b, d>>
           /\ 224 <= a /\ a <= 239
           /\ a = 224 => b >= 160
           /\ a = 237 => b <= 159
<1>1. PICK a, b, d : a = 224 + c \div 4096 /\ b = 128 + ((c \div 64) % 64) /\ d = 128 + (c % 64)
  OBVIOUS
<1>2. Encoded(c) = <<a, b, d>>
  BY <1>1, SMT DEF Encoded
<1>3. a \in Int /\ 224 <= a /\ a <= 239
  BY <1>1, SMT
<1>4. a \in Byte
  <2>1. 0 <= a /\ a <= 255
    BY <1>3, SMT
  <2> QED BY <1>3, <2>1, ByteIs
<1>5. a = 224 => b >= 160
  BY <1>1, SMT
<1>6. a = 237 => b <= 159
  BY <1>1, SMT DEF High, Low
<1>7. c \div 64 \in Int
  BY SMT
<1>8. b \in Trail /\ d \in Trail
  BY <1>1, <1>7, SixBits
<1> QED BY <1>2, <1>3, <1>4, <1>5, <1>6, <1>8

LEMMA FourBytes ==
  ASSUME NEW c \in Points, 65536 <= c
  PROVE  \E a \in Byte, b \in Trail, d \in Trail, e \in Trail :
           /\ Encoded(c) = <<a, b, d, e>>
           /\ 240 <= a /\ a <= 244
           /\ a = 240 => b >= 144
           /\ a = 244 => b <= 143
<1>1. PICK a, b, d, e : /\ a = 240 + c \div 262144 /\ b = 128 + ((c \div 4096) % 64)
                        /\ d = 128 + ((c \div 64) % 64) /\ e = 128 + (c % 64)
  BY SMT
<1>2. c \in Int
  BY PointsAre
<1>3. Encoded(c) = <<a, b, d, e>>
  BY <1>1, <1>2, SMT DEF Encoded
<1>4. a \in Int /\ 240 <= a /\ a <= 244
  BY <1>1, SMT DEF Points
<1>5. a \in Byte
  <2>1. 0 <= a /\ a <= 255
    BY <1>4, SMT
  <2> QED BY <1>4, <2>1, ByteIs
<1>6. a = 240 => b >= 144
  BY <1>1, SMT DEF Points
<1>7. a = 244 => b <= 143
  BY <1>1, SMT DEF Points
<1>8. c \div 64 \in Int /\ c \div 4096 \in Int
  BY <1>2, SMT
<1>9. b \in Trail /\ d \in Trail /\ e \in Trail
  BY <1>1, <1>2, <1>8, SixBits
<1> QED BY <1>3, <1>4, <1>5, <1>6, <1>7, <1>9

\* The bytes of a code point are UTF-8: the serializer writes them as they are, and the
\* lexer reads them as one character.
LEMMA WritesEncoded ==
  ASSUME NEW o, Fresh(o), NEW c \in Points, ~High(c), ~Low(c)
  PROVE  Writes(o, Encoded(c)) /\ Encoded(c) \in Seq(Int)
<1>i. c \in Int /\ 0 <= c
  BY PointsAre
<1>0. Encoded(c) \in Seq(Int)
  BY <1>i, EncodedType
<1>1. CASE c < 128
  <2>1. Encoded(c) = <<c>>
    BY <1>1, <1>i, SMT DEF Encoded
  <2>2. c \in 0 .. 127
    BY <1>1, <1>i, SMT
  <2> QED BY <1>0, <2>1, <2>2, WritesOne
<1>2. CASE 128 <= c /\ c < 2048
  <2>1. PICK a \in Byte, b \in Trail : Encoded(c) = <<a, b>> /\ 194 <= a /\ a <= 223
    BY <1>2, <1>i, TwoBytes
  <2>2. a \in 194 .. 223 /\ 128 <= a
    BY <2>1, SMT DEF Byte
  <2>3. Decode(0, a) = 2 /\ Decode(2, b) = 0
    BY <2>2, LeadStates, RestStates
  <2>4. b \in Byte /\ 2 # 1
    BY TrailByte
  <2>5. Writes(o, <<a, b>>)
    BY <2>2, <2>3, <2>4, WritesTwo
  <2> QED BY <1>0, <2>1, <2>5
<1>3. CASE 2048 <= c /\ c < 65536
  <2>1. PICK a \in Byte, b \in Trail, d \in Trail :
          /\ Encoded(c) = <<a, b, d>>
          /\ 224 <= a /\ a <= 239
          /\ a = 224 => b >= 160
          /\ a = 237 => b <= 159
    BY <1>3, <1>i, ThreeBytes
  <2>2. a \in 224 .. 239 /\ 128 <= a /\ a \in Int
    BY <2>1, SMT DEF Byte
  <2>3. b \in Byte /\ b \in Int /\ d \in Byte
    BY TrailByte
  <2>4. PICK u : u = Decode(0, a)
    OBVIOUS
  <2>5. u # 1 /\ Decode(u, b) = 2
    <3>1. CASE a = 224
      BY <2>1, <2>4, <3>1, LeadStates, RestStates
    <3>2. CASE a = 237
      BY <2>1, <2>4, <3>2, LeadStates, RestStates
    <3>3. CASE a \in (225 .. 239) \ {237}
      BY <2>4, <3>3, LeadStates, RestStates
    <3> QED BY <2>2, <3>1, <3>2, <3>3
  <2>6. Raws(o, <<a, b>>, 2)
    BY <2>2, <2>3, <2>4, <2>5, RawsTwo
  <2>7. Decode(2, d) = 0
    BY RestStates
  <2>8. Writes(o, <<a, b, d>>)
    BY <2>2, <2>3, <2>6, <2>7, WritesThree
  <2> QED BY <1>0, <2>1, <2>8
<1>4. CASE 65536 <= c
  <2>1. PICK a \in Byte, b \in Trail, d \in Trail, e \in Trail :
          /\ Encoded(c) = <<a, b, d, e>>
          /\ 240 <= a /\ a <= 244
          /\ a = 240 => b >= 144
          /\ a = 244 => b <= 143
    BY <1>4, FourBytes
  <2>2. a \in 240 .. 244 /\ 128 <= a /\ a \in Int
    BY <2>1, SMT DEF Byte
  <2>3. b \in Byte /\ b \in Int /\ d \in Byte /\ e \in Byte
    BY TrailByte
  <2>4. PICK u : u = Decode(0, a)
    OBVIOUS
  <2>5. u # 1 /\ Decode(u, b) = 3
    <3>1. CASE a = 240
      BY <2>1, <2>4, <3>1, LeadStates, RestStates
    <3>2. CASE a = 244
      BY <2>1, <2>4, <3>2, LeadStates, RestStates
    <3>3. CASE a \in 241 .. 243
      BY <2>4, <3>3, LeadStates, RestStates
    <3> QED BY <2>2, <3>1, <3>2, <3>3
  <2>6. Raws(o, <<a, b>>, 3)
    BY <2>2, <2>3, <2>4, <2>5, RawsTwo
  <2>7. Decode(3, d) = 2 /\ Decode(2, e) = 0
    BY RestStates
  <2>8. Writes(o, <<a, b, d, e>>)
    BY <2>2, <2>3, <2>6, <2>7, WritesFour
  <2> QED BY <1>0, <2>1, <2>8
<1> QED BY <1>i, <1>1, <1>2, <1>3, <1>4, SMT
-----------------------------------------------------------------------------
(* What a symbol adds is a character, or nothing. *)

Nothing(st) == st.added = <<>> /\ st.token = <<>>
Adds(st, o) == \E e \in Seq(Int) : st.added = e /\ st.token = e /\ Writes(o, e)

LEMMA NothingKept ==
  ASSUME NEW st \in LexerState, Nothing(st), NEW x, NEW c
  PROVE  /\ Nothing([st EXCEPT !.at = x])
         /\ Nothing([st EXCEPT !.high = c])
         /\ Nothing([st EXCEPT !.at = x, !.high = c])
         /\ [st EXCEPT !.at = x, !.high = c].high = c
<1>1. PICK e : e = <<>>
  OBVIOUS
<1>2. st.added = e /\ st.token = e
  BY <1>1 DEF Nothing
<1>3. [st EXCEPT !.at = x].added = e /\ [st EXCEPT !.at = x].token = e
  BY <1>2 DEF LexerState
<1>4. [st EXCEPT !.high = c].added = e /\ [st EXCEPT !.high = c].token = e
  BY <1>2 DEF LexerState
<1>5. /\ [st EXCEPT !.at = x, !.high = c].added = e
      /\ [st EXCEPT !.at = x, !.high = c].token = e
  BY <1>2 DEF LexerState
<1>6. [st EXCEPT !.at = x, !.high = c].high = c
  BY DEF LexerState
<1> QED BY <1>1, <1>3, <1>4, <1>5, <1>6 DEF Nothing

LEMMA AddAdds ==
  ASSUME NEW st \in LexerState, Nothing(st), NEW e \in Seq(Int), NEW o, Writes(o, e)
  PROVE  Add(st, e) \in LexerState /\ Add(st, e).at = "char" /\ Adds(Add(st, e), o)
<1>1. /\ Add(st, e) \in LexerState /\ Add(st, e).at = "char"
      /\ Add(st, e).added = e /\ Add(st, e).token = st.token \o e
  BY AddIs
<1>2. <<>> \o e = e
  BY ConcatEmptySeq
<1>3. Add(st, e).token = e
  BY <1>1, <1>2 DEF Nothing
<1> QED BY <1>1, <1>3 DEF Adds

\* \uXXXX on its own adds its character; the first of two nothing yet.
LEMMA UnicodeAdds ==
  ASSUME NEW st \in LexerState, Nothing(st), NEW c \in Units, NEW o, Fresh(o)
  PROVE  /\ Unicode(st, c).at = "char" => Adds(Unicode(st, c), o)
         /\ Unicode(st, c).at # "char" => Nothing(Unicode(st, c))
         /\ Unicode(st, c).at = "low" => High(Unicode(st, c).high)
<1>i. c \in Int
  BY PointsAre
<1>1. CASE High(c)
  <2>1. ~Low(c)
    BY <1>i, <1>1 DEF High, Low
  <2>2. Unicode(st, c) = [st EXCEPT !.at = "low", !.high = c]
    BY <1>1, <2>1 DEF Unicode
  <2>3. /\ Nothing([st EXCEPT !.at = "low", !.high = c])
        /\ [st EXCEPT !.at = "low", !.high = c].high = c
    BY NothingKept
  <2>4. [st EXCEPT !.at = "low", !.high = c].at = "low"
    BY DEF LexerState
  <2> QED BY <1>1, <2>2, <2>3, <2>4
<1>2. CASE Low(c)
  <2>1. ~High(c)
    BY <1>i, <1>2 DEF High, Low
  <2>2. Unicode(st, c) = [st EXCEPT !.at = "surrogate"]
    BY <1>2, <2>1 DEF Unicode, Refused
  <2>3. Nothing([st EXCEPT !.at = "surrogate"])
    BY NothingKept
  <2>4. [st EXCEPT !.at = "surrogate"].at = "surrogate"
    BY DEF LexerState
  <2> QED BY <2>2, <2>3, <2>4
<1>3. CASE ~High(c) /\ ~Low(c)
  <2>1. Unicode(st, c) = Add(st, Encoded(c))
    BY <1>3 DEF Unicode
  <2>2. c \in Points
    BY PointsAre
  <2>3. Writes(o, Encoded(c)) /\ Encoded(c) \in Seq(Int)
    BY <1>3, <2>2, WritesEncoded
  <2>4. Add(st, Encoded(c)).at = "char" /\ Adds(Add(st, Encoded(c)), o)
    BY <2>3, AddAdds
  <2> QED BY <2>1, <2>4
<1> QED BY <1>1, <1>2, <1>3

\* An escape adds its character, or is the first of two, or is refused.
LEMMA EscapedAdds ==
  ASSUME NEW st \in LexerState, Nothing(st), NEW s \in Symbols, NEW o, Fresh(o)
  PROVE  /\ Escaped(st, s).at = "char" => Adds(Escaped(st, s), o)
         /\ Escaped(st, s).at # "char" => Nothing(Escaped(st, s))
         /\ Escaped(st, s).at = "low" => High(Escaped(st, s).high)
<1> DEFINE letter == \E e \in Short : e[1] = s
           stands == (CHOOSE e \in Short : e[1] = s)[2]
<1>0. s \in Nat
  BY DEF Symbols
<1>1. letter => s \in {98, 102, 110, 114, 116} /\ stands \in {8, 9, 10, 12, 13}
  <2>1. SUFFICES ASSUME letter
                 PROVE  s \in {98, 102, 110, 114, 116} /\ stands \in {8, 9, 10, 12, 13}
    OBVIOUS
  <2>2. (CHOOSE e \in Short : e[1] = s) \in Short
    BY <2>1
  <2> QED BY <2>1, <2>2 DEF Short
<1> HIDE DEF letter, stands
<1>2. Escaped(st, s) =
        CASE s \in {34, 47, 92} -> Add(st, <<s>>)
          [] letter -> Add(st, <<stands>>)
          [] 256 <= s /\ s < NoDigits -> Unicode(st, s - 256)
          [] OTHER -> Refused(st, "bad escape")
  BY DEF Escaped, letter, stands
<1>3. ASSUME NEW c \in 0 .. 127, Escaped(st, s) = Add(st, <<c>>)
      PROVE  Escaped(st, s).at = "char" /\ Adds(Escaped(st, s), o)
  <2>1. <<c>> \in Seq(Int)
    <3>1. c \in Int
      BY <1>3
    <3> QED BY <3>1
  <2>2. Writes(o, <<c>>)
    BY WritesOne
  <2>3. Add(st, <<c>>).at = "char" /\ Adds(Add(st, <<c>>), o)
    BY <2>1, <2>2, AddAdds
  <2> QED BY <1>3, <2>3
<1>4. CASE s \in {34, 47, 92}
  <2>1. ~letter /\ ~(256 <= s)
    BY <1>1, <1>4
  <2>2. Escaped(st, s) = Add(st, <<s>>)
    BY <1>2, <1>4, <2>1
  <2>3. s \in 0 .. 127
    BY <1>4
  <2>4. Escaped(st, s).at = "char" /\ Adds(Escaped(st, s), o)
    BY <1>3, <2>2, <2>3
  <2> QED BY <2>4
<1>5. CASE letter
  <2>1. s \notin {34, 47, 92} /\ ~(256 <= s)
    BY <1>1, <1>5
  <2>2. Escaped(st, s) = Add(st, <<stands>>)
    BY <1>2, <1>5, <2>1
  <2>3. stands \in 0 .. 127
    BY <1>1, <1>5
  <2>4. Escaped(st, s).at = "char" /\ Adds(Escaped(st, s), o)
    BY <1>3, <2>2, <2>3
  <2> QED BY <2>4
<1>6. CASE 256 <= s /\ s < NoDigits
  <2>1. s \notin {34, 47, 92} /\ ~letter
    BY <1>0, <1>1, <1>6
  <2>2. Escaped(st, s) = Unicode(st, s - 256)
    BY <1>2, <1>6, <2>1
  <2>3. s - 256 \in Units
    BY <1>0, <1>6, SMT DEF NoDigits, Units
  <2>4. /\ Unicode(st, s - 256).at = "char" => Adds(Unicode(st, s - 256), o)
        /\ Unicode(st, s - 256).at # "char" => Nothing(Unicode(st, s - 256))
        /\ Unicode(st, s - 256).at = "low" => High(Unicode(st, s - 256).high)
    BY <2>3, UnicodeAdds
  <2> QED BY <2>2, <2>4
<1>7. CASE s \notin {34, 47, 92} /\ ~letter /\ ~(256 <= s /\ s < NoDigits)
  <2>1. Escaped(st, s) = [st EXCEPT !.at = "bad escape"]
    BY <1>2, <1>7 DEF Refused
  <2>2. Nothing([st EXCEPT !.at = "bad escape"])
    BY NothingKept
  <2>3. [st EXCEPT !.at = "bad escape"].at = "bad escape"
    BY DEF LexerState
  <2> QED BY <2>1, <2>2, <2>3
<1> QED BY <1>4, <1>5, <1>6, <1>7

\* The second of two escapes adds the character of both, or is refused.
LEMMA LowAdds ==
  ASSUME NEW st \in LexerState, Nothing(st), High(st.high), NEW s \in Symbols, NEW o, Fresh(o)
  PROVE  /\ LowSurrogate(st, s).at = "char" => Adds(LowSurrogate(st, s), o)
         /\ LowSurrogate(st, s).at # "char" => Nothing(LowSurrogate(st, s))
<1>1. CASE s >= 256 /\ Low(s - 256)
  <2>1. PICK h : h = st.high
    OBVIOUS
  <2>2. h \in Int /\ High(h) /\ s \in Int
    BY <2>1 DEF LexerState, Symbols
  <2>3. PICK c : c = h * 1024 + (s - 256) - 56613888
    BY SMT
  <2>4. c \in Int /\ 65536 <= c /\ c <= 1114111
    BY <1>1, <2>2, <2>3, SMT DEF High, Low
  <2>5. c \in Points /\ ~High(c) /\ ~Low(c)
    BY <2>4, SMT DEF High, Low, Points
  <2>6. Writes(o, Encoded(c)) /\ Encoded(c) \in Seq(Int)
    BY <2>5, WritesEncoded
  <2>7. PICK no : no = [st EXCEPT !.high = 0]
    OBVIOUS
  <2>8. no \in LexerState /\ Nothing(no)
    BY <2>7, NoHighType, NothingKept
  <2>9. LowSurrogate(st, s) = Add(no, Encoded(c))
    BY <1>1, <2>1, <2>3, <2>7, SMT DEF LowSurrogate
  <2>10. Add(no, Encoded(c)).at = "char" /\ Adds(Add(no, Encoded(c)), o)
    BY <2>6, <2>8, AddAdds
  <2> QED BY <2>9, <2>10
<1>2. CASE ~(s >= 256 /\ Low(s - 256))
  <2>1. LowSurrogate(st, s) = [st EXCEPT !.at = "surrogate"]
    BY <1>2 DEF LowSurrogate, Refused
  <2>2. Nothing([st EXCEPT !.at = "surrogate"])
    BY NothingKept
  <2>3. [st EXCEPT !.at = "surrogate"].at = "surrogate"
    BY DEF LexerState
  <2> QED BY <2>1, <2>2, <2>3
<1> QED BY <1>1, <1>2
-----------------------------------------------------------------------------
(* The lexer and the serializer, step by step. *)

\* What the serializer has written, p, when the lexer is at st and the validator in
\* state u: nothing of an escape, the bytes read of a character of several, and of a
\* whole character what reads as the same.  string_buffer has room for the rest of it.
Carried(st, p, u) ==
  /\ Good(p)
  /\ st.at \notin Causes => p.state = u
  /\ st.at \in {"escape", "low", "lowEscape"} => p.text = <<>> /\ st.token = <<>>
  /\ st.at \in {"low", "lowEscape"} => High(st.high)
  /\ st.at = "tail" => Raw(p, st.token, u)
  /\ st.at = "char" /\ st.token # <<>> => Echo(p.text, st.token)

OutInv == Carried(lex, out, utf8)

\* The serializer is given nothing.
LEMMA CarriedNothing ==
  ASSUME NEW new \in LexerState, Nothing(new), NEW o, Fresh(o), new.at # "tail",
         new.at \in {"low", "lowEscape"} => High(new.high)
  PROVE  Carried(new, Dump(o, new.added), 0)
<1>1. PICK e : e = <<>>
  OBVIOUS
<1>2. e \in Seq(Int) /\ Dumps(o, e, o) /\ new.added = e /\ new.token = e
  BY <1>1, DumpsNone DEF Nothing
<1>3. Dump(o, new.added) = o
  BY <1>2, DumpIs
<1>4. Good(o) /\ o.state = 0 /\ o.text = e
  BY <1>1 DEF Fresh
<1>5. Carried(new, o, 0)
  BY <1>1, <1>2, <1>4 DEF Carried
<1> QED BY <1>3, <1>5

\* It is given a character.
LEMMA CarriedAdds ==
  ASSUME NEW new \in LexerState, NEW o, Adds(new, o), new.at = "char"
  PROVE  Carried(new, Dump(o, new.added), 0)
<1>1. PICK e \in Seq(Int) : new.added = e /\ new.token = e /\ Writes(o, e)
  BY DEF Adds
<1>2. PICK p : Dumps(o, e, p) /\ Good(p) /\ p.state = 0 /\ Echo(p.text, e)
  BY <1>1 DEF Writes
<1>3. Dump(o, new.added) = p
  BY <1>1, <1>2, DumpIs
<1>4. Carried(new, p, 0)
  BY <1>1, <1>2 DEF Carried
<1> QED BY <1>3, <1>4

\* It is given the next byte of a character of several.
LEMMA DumpOneByte ==
  ASSUME NEW o, NEW b \in Byte
  PROVE  Dump(o, <<b>>) = DumpByte(o, b)
<1>1. PICK e : e = <<>>
  OBVIOUS
<1>2. e \in Seq(Int) /\ Dumps(o, e, o)
  BY <1>1, DumpsNone
<1>3. b \in Int /\ <<b>> \in Seq(Int)
  BY OneByte DEF Byte
<1>4. Dumps(o, e \o <<b>>, DumpByte(o, b))
  BY <1>2, <1>3, DumpsMore
<1>5. e \o <<b>> = <<b>>
  BY <1>1, <1>3, ConcatEmptySeq
<1>6. Dumps(o, <<b>>, DumpByte(o, b))
  BY <1>4, <1>5
<1> QED BY <1>3, <1>6, DumpIs

\* The text of the last character is forgotten first.
LEMMA FreshOut == ASSUME NEW o, Good(o), o.state = 0 PROVE Fresh([o EXCEPT !.text = <<>>])
<1>1. PICK e : e = <<>>
  OBVIOUS
<1>2. e \in Seq(Int)
  BY <1>1
<1>3. PICK p : p = [o EXCEPT !.text = e]
  OBVIOUS
<1>4. o \in OutState
  BY DEF Good
<1>5. p \in OutState
  BY <1>2, <1>3, <1>4 DEF OutState
<1>6. p.state = o.state /\ p.fill = o.fill /\ p.top = o.top /\ p.text = e
  BY <1>3, <1>4 DEF OutState
<1>7. Good(p)
  BY <1>5, <1>6 DEF Good
<1> QED BY <1>1, <1>3, <1>6, <1>7 DEF Fresh

\* What was added last is forgotten.
LEMMA NowNothing ==
  ASSUME NEW st \in LexerState
  PROVE  /\ [st EXCEPT !.added = <<>>].at = st.at
         /\ [st EXCEPT !.added = <<>>].high = st.high
         /\ [st EXCEPT !.added = <<>>].token = st.token
         /\ [st EXCEPT !.added = <<>>].added = <<>>
         /\ Nothing([[st EXCEPT !.added = <<>>] EXCEPT !.token = <<>>])
         /\ st.token = <<>> => Nothing([st EXCEPT !.added = <<>>])
<1>1. PICK e : e = <<>>
  OBVIOUS
<1>2. PICK now, both : now = [st EXCEPT !.added = e] /\ both = [now EXCEPT !.token = e]
  OBVIOUS
<1>3. now.at = st.at /\ now.high = st.high /\ now.token = st.token /\ now.added = e
  BY <1>2 DEF LexerState
<1>4. e \in Seq(Int)
  BY <1>1
<1>5. now \in LexerState
  BY <1>2, <1>4, NowSet
<1>6. both.added = e /\ both.token = e
  BY <1>2, <1>3, <1>5 DEF LexerState
<1>7. Nothing(both) /\ (st.token = e => Nothing(now))
  BY <1>1, <1>3, <1>6 DEF Nothing
<1> QED BY <1>1, <1>2, <1>3, <1>7

\* Where a character begins.
LEMMA CarriedFirst ==
  ASSUME NEW st \in LexerState, Nothing(st), NEW s \in Byte, NEW o, Fresh(o)
  PROVE  Carried(First(st, s), Dump(o, First(st, s).added), Decode(0, s))
<1>1. PICK new, u, p : new = First(st, s) /\ u = Decode(0, s) /\ p = Dump(o, new.added)
  OBVIOUS
<1>2. /\ new \in LexerState
      /\ new.at = "ill-formed" => u = 1
      /\ u = 1 => new.at \in Causes
      /\ new.at = "tail" => u \in 2 .. 8 /\ new.ranges = RangesOf(u)
      /\ new.at \notin Causes \cup {"tail"} => u = 0
  BY <1>1, FirstStep
<1>3. /\ new.at \in {"char", "tail"} => new.added = <<s>> /\ new.token = <<s>>
      /\ new.at \notin {"char", "tail"} => Nothing(new)
      /\ new.at = "char" => s \in (32 .. 127) \ {34, 92}
      /\ new.at = "tail" => s \in 128 .. 255
  BY <1>1, FirstAdds DEF Nothing
<1>4. CASE new.at = "char"
  <2>1. s \in 0 .. 127 /\ <<s>> \in Seq(Int)
    <3>1. s \in 0 .. 127
      BY <1>3, <1>4
    <3> QED BY <3>1, OneByte
  <2>2. Writes(o, <<s>>)
    BY <2>1, WritesOne
  <2>3. Adds(new, o)
    BY <1>3, <1>4, <2>1, <2>2 DEF Adds
  <2>4. Carried(new, p, 0)
    BY <1>1, <1>2, <1>4, <2>3, CarriedAdds
  <2>5. u = 0
    BY <1>2, <1>4 DEF Causes
  <2> QED BY <1>1, <2>4, <2>5
<1>5. CASE new.at = "tail"
  <2>1. s \in 128 .. 255 /\ u \in 2 .. 8
    BY <1>2, <1>3, <1>5
  <2>2. u # 1
    BY <2>1
  <2>3. Raw(DumpByte(o, s), <<s>>, u)
    BY <1>1, <2>1, <2>2, RawFirst DEF Fresh
  <2>4. p = DumpByte(o, s)
    BY <1>1, <1>3, <1>5, DumpOneByte
  <2>5. Raw(p, new.token, u)
    BY <1>3, <1>5, <2>3, <2>4
  <2>6. Good(p) /\ p.state = u
    BY <2>5 DEF Raw
  <2>7. Carried(new, p, u)
    BY <1>5, <2>5, <2>6 DEF Carried
  <2> QED BY <1>1, <2>7
<1>6. CASE new.at \notin {"char", "tail"}
  <2>1. new.at \notin {"low", "lowEscape"}
    <3>1. First(st, s).at \in {"done", "escape"} \cup Causes \cup {"char", "tail"}
      <4>1. CASE s \in 0 .. 127
        BY <4>1, FirstAscii DEF Causes
      <4>2. CASE s \in 128 .. 255
        BY <4>2, FirstOther DEF Causes
      <4> QED BY <4>1, <4>2 DEF Byte
    <3> QED BY <1>1, <3>1 DEF Causes
  <2>2. Carried(new, p, 0)
    BY <1>1, <1>2, <1>3, <1>6, <2>1, CarriedNothing
  <2>3. new.at \notin Causes => u = 0
    BY <1>2, <1>6
  <2>4. Carried(new, p, u)
    BY <1>6, <2>2, <2>3 DEF Carried
  <2> QED BY <1>1, <2>4
<1> QED BY <1>4, <1>5, <1>6

\* Inside a character.
LEMMA CarriedTail ==
  ASSUME NEW st \in LexerState, NEW u \in 2 .. 8, st.ranges = RangesOf(u), st.added = <<>>,
         NEW s \in Byte, NEW o, Raw(o, st.token, u)
  PROVE  Carried(next_byte_in_range(st, s), Dump(o, next_byte_in_range(st, s).added),
                 Decode(u, s))
<1>1. PICK new, w, p : /\ new = next_byte_in_range(st, s) /\ w = Decode(u, s)
                       /\ p = Dump(o, new.added)
  OBVIOUS
<1>2. /\ new \in LexerState
      /\ new.at = "ill-formed" => w = 1
      /\ w = 1 => new.at \in Causes
      /\ new.at = "tail" => w \in 2 .. 8 /\ new.ranges = RangesOf(w)
      /\ new.at \notin Causes \cup {"tail"} => w = 0
  BY <1>1, TailStep
<1>3. IF s \in Head(st.ranges)
        THEN IF Len(st.ranges) = 1 THEN w = 0 ELSE w \in 2 .. 8
        ELSE w = 1
  BY <1>1, Follow
<1>4. CASE s \in Head(st.ranges)
  <2>1. new.added = <<s>> /\ new.token = st.token \o <<s>>
    BY <1>1, <1>4, TailAdds
  <2>2. p = DumpByte(o, s)
    BY <1>1, <2>1, DumpOneByte
  <2>3. w \in 0 .. 8 /\ w # 1
    BY <1>3, <1>4
  <2>4. /\ w # 0 => Raw(p, new.token, w)
        /\ w = 0 => Good(p) /\ p.state = 0 /\ Echo(p.text, new.token)
    BY <1>1, <2>1, <2>2, <2>3, RawNext
  <2>5. Good(p) /\ p.state = w
    BY <2>4 DEF Raw
  <2>6. new.at \in {"char", "tail"} /\ (new.at = "tail" <=> w # 0)
    <3>1. PICK at, rest : at = (IF Len(st.ranges) = 1 THEN "char" ELSE "tail")
                          /\ rest = Tail(st.ranges)
      OBVIOUS
    <3>2. rest \in Seq(SUBSET Int)
      <4>1. st.ranges \in Seq(SUBSET Int) /\ st.ranges # <<>>
        BY RangesNonEmpty DEF LexerState
      <4> QED BY <3>1, <4>1
    <3>3. new.at = at
      BY <1>1, <1>4, <3>1, <3>2, TailByte
    <3>4. IF Len(st.ranges) = 1 THEN w = 0 ELSE w # 0
      BY <1>3, <1>4
    <3> QED BY <3>1, <3>3, <3>4
  <2>7. Carried(new, p, w)
    <3>1. CASE w # 0
      BY <2>4, <2>5, <2>6, <3>1 DEF Carried
    <3>2. CASE w = 0
      BY <2>4, <2>5, <2>6, <3>2 DEF Carried
    <3> QED BY <3>1, <3>2
  <2> QED BY <1>1, <2>7
<1>5. CASE s \notin Head(st.ranges)
  <2>1. new.added = <<>>
    BY <1>1, <1>5, TailAdds
  <2>2. p = o
    <3>1. PICK e : e = <<>>
      OBVIOUS
    <3>2. e \in Seq(Int) /\ Dumps(o, e, o)
      BY <3>1, DumpsNone
    <3> QED BY <1>1, <2>1, <3>1, <3>2, DumpIs
  <2>3. Good(p)
    BY <2>2 DEF Raw
  <2>4. new.at \in Causes
    BY <1>2, <1>3, <1>5
  <2>5. new.at \notin {"escape", "low", "lowEscape", "tail", "char"}
    BY <2>4 DEF Causes
  <2>6. Carried(new, p, w)
    BY <2>3, <2>4, <2>5 DEF Carried
  <2> QED BY <1>1, <2>6
<1> QED BY <1>4, <1>5

\* One symbol keeps it: one step per place.
LEMMA SymbolCarries == ASSUME Inv, OutInv, NEW s, Symbol(s) PROVE OutInv'
<1>1. PICK now : now = [lex EXCEPT !.added = <<>>]
  OBVIOUS
<1>2. /\ lex \in LexerState /\ utf8 \in 0 .. 8
      /\ utf8 = 1 => lex.at \in Causes
      /\ lex.at = "tail" => utf8 # 0 /\ lex.ranges = RangesOf(utf8)
      /\ lex.at \notin Causes \cup {"tail"} => utf8 = 0
  BY DEF Inv, LexTypeOK, SameText, utf8_accept, utf8_reject
<1>3. /\ now \in LexerState /\ now.ranges = lex.ranges
      /\ [now EXCEPT !.token = <<>>] \in LexerState
      /\ now.at = lex.at /\ now.high = lex.high /\ now.token = lex.token /\ now.added = <<>>
      /\ Nothing([now EXCEPT !.token = <<>>])
      /\ lex.token = <<>> => Nothing(now)
  BY <1>1, <1>2, NowType, NowNothing
<1>4. lex.at \in {"char", "escape", "low", "lowEscape", "tail"} /\ s \in Offered
  BY DEF Symbol
<1>5. /\ lex' = Scan(lex, s)
      /\ utf8' = IF s < 256 THEN Decode(utf8, s) ELSE utf8
      /\ out' = Dump(IF lex.at = "char" THEN [out EXCEPT !.text = <<>>] ELSE out, lex'.added)
  BY DEF Symbol
<1>6. s \in Symbols
  BY <1>4, OfferedType
<1>7. /\ lex' \in LexerState
      /\ utf8' = 1 => lex'.at \in Causes
      /\ lex'.at \notin Causes \cup {"tail"} => utf8' = 0
  <2>1. Inv'
    BY SymbolKeeps
  <2> QED BY <2>1 DEF Inv, LexTypeOK, SameText, utf8_accept, utf8_reject
<1>8. /\ Good(out)
      /\ lex.at \notin Causes => out.state = utf8
      /\ lex.at \in {"escape", "low", "lowEscape"} => out.text = <<>> /\ lex.token = <<>>
      /\ lex.at \in {"low", "lowEscape"} => High(lex.high)
      /\ lex.at = "tail" => Raw(out, lex.token, utf8)
  BY DEF OutInv, Carried
<1>9. SUFFICES Carried(lex', out', utf8')
  BY DEF OutInv
<1>10. CASE lex.at = "char"
  <2>1. s \in Byte
    BY <1>4, <1>10, OfferedType DEF InEscape
  <2>2. utf8 = 0
    BY <1>2, <1>10 DEF Causes
  <2>3. PICK o, st : o = [out EXCEPT !.text = <<>>] /\ st = [now EXCEPT !.token = <<>>]
    OBVIOUS
  <2>4. Fresh(o)
    <3>1. out.state = 0
      BY <1>8, <1>10, <2>2 DEF Causes
    <3> QED BY <1>8, <2>3, <3>1, FreshOut
  <2>5. st \in LexerState /\ Nothing(st)
    BY <1>3, <2>3
  <2>6. lex' = First(st, s)
    BY <1>1, <1>5, <1>10, <2>3 DEF Scan
  <2>7. utf8' = Decode(0, s)
    BY <1>5, <2>1, <2>2, ByteBelow
  <2>8. out' = Dump(o, lex'.added)
    BY <1>5, <1>10, <2>3
  <2>9. Carried(First(st, s), Dump(o, First(st, s).added), Decode(0, s))
    BY <2>1, <2>4, <2>5, CarriedFirst
  <2> QED BY <2>6, <2>7, <2>8, <2>9
<1>11. CASE lex.at = "tail"
  <2>1. s \in Byte
    BY <1>4, <1>11, OfferedType DEF InEscape
  <2>2. utf8 \in 2 .. 8 /\ now.ranges = RangesOf(utf8)
    BY <1>2, <1>3, <1>11 DEF Causes
  <2>3. lex' = next_byte_in_range(now, s)
    BY <1>1, <1>5, <1>11 DEF Scan
  <2>4. utf8' = Decode(utf8, s)
    BY <1>5, <2>1, ByteBelow
  <2>5. out' = Dump(out, lex'.added)
    BY <1>5, <1>11
  <2>6. Raw(out, now.token, utf8)
    BY <1>3, <1>8, <1>11
  <2>7. Carried(next_byte_in_range(now, s), Dump(out, next_byte_in_range(now, s).added),
                Decode(utf8, s))
    BY <1>3, <2>1, <2>2, <2>6, CarriedTail
  <2> QED BY <2>3, <2>4, <2>5, <2>7
<1>12. CASE lex.at \in {"escape", "low", "lowEscape"}
  <2>1. Fresh(out) /\ Nothing(now)
    <3>1. utf8 = 0 /\ lex.at \notin Causes
      BY <1>2, <1>12 DEF Causes
    <3> QED BY <1>3, <1>8, <1>12, <3>1 DEF Fresh
  <2>2. out' = Dump(out, lex'.added)
    BY <1>5, <1>12
  <2>3. /\ lex'.at = "char" => Adds(lex', out)
        /\ lex'.at # "char" => Nothing(lex')
        /\ lex'.at \in {"low", "lowEscape"} => High(lex'.high)
        /\ lex'.at # "tail"
    <3>1. CASE lex.at = "escape"
      <4>1. lex' = Escaped(now, s)
        BY <1>1, <1>5, <3>1 DEF Scan
      <4>2. lex'.at \in {"char", "low", "bad escape", "surrogate"}
        BY <1>3, <1>6, <4>1, EscapedType
      <4>3. /\ lex'.at = "char" => Adds(lex', out)
            /\ lex'.at # "char" => Nothing(lex')
            /\ lex'.at = "low" => High(lex'.high)
        BY <1>3, <1>6, <2>1, <4>1, EscapedAdds
      <4> QED BY <4>2, <4>3
    <3>2. CASE lex.at = "low"
      <4>1. lex' = IF s = 92 THEN [now EXCEPT !.at = "lowEscape"]
                             ELSE [now EXCEPT !.at = "surrogate"]
        BY <1>1, <1>5, <3>2 DEF Scan, Refused
      <4>2. lex'.at \in {"lowEscape", "surrogate"} /\ Nothing(lex') /\ lex'.high = now.high
        <5>1. ASSUME NEW x
              PROVE  /\ [now EXCEPT !.at = x].at = x /\ [now EXCEPT !.at = x].high = now.high
                     /\ Nothing([now EXCEPT !.at = x])
          BY <1>3, <2>1, AtKeeps, NothingKept
        <5> QED BY <4>1, <5>1
      <4>3. High(lex'.high)
        BY <1>3, <1>8, <3>2, <4>2
      <4> QED BY <4>2, <4>3
    <3>3. CASE lex.at = "lowEscape"
      <4>1. lex' = LowSurrogate(now, s)
        BY <1>1, <1>5, <3>3 DEF Scan
      <4>2. lex'.at \in {"char", "surrogate"}
        BY <1>3, <1>6, <4>1, LowSurrogateType
      <4>3. High(now.high)
        BY <1>3, <1>8, <3>3
      <4>4. /\ lex'.at = "char" => Adds(lex', out)
            /\ lex'.at # "char" => Nothing(lex')
        BY <1>3, <1>6, <2>1, <4>1, <4>3, LowAdds
      <4> QED BY <4>2, <4>4
    <3> QED BY <1>12, <3>1, <3>2, <3>3
  <2>4. Carried(lex', out', 0)
    <3>1. CASE lex'.at = "char"
      BY <1>7, <2>2, <2>3, <3>1, CarriedAdds
    <3>2. CASE lex'.at # "char"
      BY <1>7, <2>1, <2>2, <2>3, <3>2, CarriedNothing
    <3> QED BY <3>1, <3>2
  <2>5. lex'.at \notin Causes => utf8' = 0
    BY <1>7, <2>3
  <2> QED BY <2>3, <2>4, <2>5 DEF Carried
<1> QED BY <1>4, <1>10, <1>11, <1>12

\* The beginning of a string.
LEMMA EmptyCarried == Carried(Start, Empty, 0)
<1>1. PICK e, z : e = <<>> /\ z = 0
  OBVIOUS
<1>2. e \in Seq(Int) /\ z \in Int /\ z \in 0 .. 8
  BY <1>1
<1>3. Empty = [state |-> z, codep |-> z, text |-> e, fill |-> z, top |-> z]
  BY <1>1 DEF Empty, utf8_accept
<1>4. Empty \in OutState
  BY <1>2, <1>3 DEF OutState
<1>5. Empty.state = z /\ Empty.fill = z /\ Empty.top = z
  BY <1>3
<1>6. Begun(0) = 0
  BY DEF Begun
<1>7. Good(Empty)
  BY <1>1, <1>4, <1>5, <1>6, StringsAssumption DEF Good, utf8_reject
<1>8. Start.at = "char" /\ Start.token = <<>>
  BY StartType
<1> QED BY <1>1, <1>5, <1>7, <1>8 DEF Carried

\* The invariant of the strings: the three automata stand at the same place, and what
\* the serializer has written reads as what the lexer has read.
LEMMA StringsCarried == StringsSpec => [](Inv /\ OutInv)
<1>1. StringsInit => Inv /\ OutInv
  <2>1. SUFFICES ASSUME StringsInit PROVE Inv /\ OutInv
    OBVIOUS
  <2>2. lex = Start /\ utf8 = 0 /\ out = Empty
    BY <2>1 DEF StringsInit, utf8_accept
  <2>3. Inv
    BY <2>2, StartType DEF Inv, LexTypeOK, SameText, utf8_accept, utf8_reject, Causes
  <2> QED BY <2>2, <2>3, EmptyCarried DEF OutInv
<1>2. Inv /\ OutInv /\ [StringsNext]_stringVars => (Inv /\ OutInv)'
  <2>1. SUFFICES ASSUME Inv, OutInv, [StringsNext]_stringVars PROVE Inv' /\ OutInv'
    OBVIOUS
  <2>2. ASSUME NEW s \in TextBytes \cup UniOnly, Symbol(s) PROVE Inv' /\ OutInv'
    BY <2>1, <2>2, SymbolKeeps, SymbolCarries
  <2>3. CASE NextString
    <3>1. lex' = Start /\ out' = Empty /\ utf8' = utf8 /\ lex.at = "done"
      BY <2>3 DEF NextString
    <3>2. utf8' = 0
      BY <2>1, <3>1 DEF Inv, SameText, Causes, utf8_accept
    <3>3. Inv'
      BY <3>1, <3>2, StartType DEF Inv, LexTypeOK, SameText, utf8_accept, utf8_reject, Causes
    <3> QED BY <3>1, <3>2, <3>3, EmptyCarried DEF OutInv
  <2>4. CASE UNCHANGED stringVars
    BY <2>1, <2>4 DEF stringVars, Inv, OutInv, LexTypeOK, SameText
  <2> QED BY <2>1, <2>2, <2>3, <2>4 DEF StringsNext
<1> QED BY <1>1, <1>2, PTL DEF StringsSpec

\* No string the lexer has accepted, of any length and whatever the server sent, makes
\* dump throw as one that is not UTF-8: the serializer's decoder is where websocketpp's
\* validator is.
THEOREM StringsWritable == StringsSpec => []Writable
<1>1. Inv /\ OutInv => Writable
  BY DEF OutInv, Carried, Writable
<1> QED BY <1>1, StringsCarried, PTL

\* Every character survives the provider: of whatever bytes and escapes the lexer read
\* it, what the serializer writes for it reads, in the aggregator, as the same bytes.
THEOREM StringsRoundTrip == StringsSpec => []RoundTrip
<1>1. Inv /\ OutInv => RoundTrip
  <2>1. SUFFICES ASSUME Inv, OutInv, lex.at = "char", lex.token # <<>>
                 PROVE  Again.at = "char" /\ Again.token = lex.token
    BY DEF RoundTrip
  <2>2. Echo(out.text, lex.token) /\ out.text \in Seq(Int)
    BY <2>1 DEF OutInv, Carried, Good, OutState
  <2>3. PICK st \in LexerState : Reads(out.text, st) /\ st.at = "char" /\ st.token = lex.token
    BY <2>2 DEF Echo
  <2>4. Again = st
    BY <2>2, <2>3, AgainReads
  <2> QED BY <2>3, <2>4
<1> QED BY <1>1, StringsCarried, PTL

\* No write passes the end of string_buffer, for any size of at least the 13 bytes that
\* dump_escaped keeps free: what a character of several bytes takes before the room is
\* tested again, and the longest escape with its terminator, both fit.
THEOREM BufferNeverOverrun == StringsSpec => []BufferHolds
<1>1. Inv /\ OutInv => BufferHolds
  BY DEF OutInv, Carried, Good, BufferHolds
<1> QED BY <1>1, StringsCarried, PTL
=============================================================================
