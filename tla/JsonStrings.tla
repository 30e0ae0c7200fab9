---------------------------- MODULE JsonStrings ----------------------------
(***************************************************************************)
(* The strings of a message on their way through the provider: a text      *)
(* frame's bytes pass websocketpp's validator, the JSON lexer reads them   *)
(* (scan_string), the serializer writes what it read (dump_escaped), and   *)
(* the lexer of the aggregator reads that.  The three automata advance     *)
(* together, byte by byte, for strings of any length.                      *)
(***************************************************************************)
EXTENDS Utf8

CONSTANTS TextBytes,      \* bound: the bytes the server sends
          CodePoints, \* bound: the values XXXX of its escapes \uXXXX
          Room        \* the size of string_buffer, 512 in the code

ASSUME StringsAssumption ==
  /\ TextBytes \subseteq Byte
  /\ \A c \in CodePoints : c \in Nat /\ c < 65536
  /\ Room \in Nat /\ Room >= 13

\* What follows a backslash: u and four digits are one symbol, u without them
\* another; every other symbol is a byte.
Uni(c) == 256 + c
NoDigits == 256 + 65536
UniOnly == {Uni(c) : c \in CodePoints} \cup {NoDigits}

VARIABLES
  lex,   \* scan_string: where it is, the ranges next_byte_in_range has left, the
         \*   first of two escapes, what it added last and for the character so far
  utf8,  \* the validator's state
  out    \* dump_escaped: the decoder's state and code point, the symbols written
         \*   for the character so far, the bytes in string_buffer, and one more
         \*   than the last index written

stringVars == <<lex, utf8, out>>
-----------------------------------------------------------------------------
(* The lexer. *)

Start == [at |-> "char", ranges |-> <<>>, high |-> 0, added |-> <<>>, token |-> <<>>]
Refused(st, cause) == [st EXCEPT !.at = cause]
Add(st, bytes) == [st EXCEPT !.at = "char", !.added = bytes, !.token = @ \o bytes]

Tail1 == <<128 .. 191>>
Tail2 == <<128 .. 191, 128 .. 191>>
Tail3 == <<128 .. 191, 128 .. 191, 128 .. 191>>
TailE0 == <<160 .. 191, 128 .. 191>>
TailED == <<128 .. 159, 128 .. 191>>
TailF0 == <<144 .. 191, 128 .. 191, 128 .. 191>>
TailF4 == <<128 .. 143, 128 .. 191, 128 .. 191>>

\* The ranges of the bytes that follow a first byte b; none for a byte that begins
\* no character of several bytes.
RangesAfter(b) ==
  CASE b \in 194 .. 223 -> Tail1
    [] b = 224 -> TailE0 [] b = 237 -> TailED
    [] b \in 225 .. 239 \ {237} -> Tail2
    [] b = 240 -> TailF0 [] b \in 241 .. 243 -> Tail3 [] b = 244 -> TailF4
    [] OTHER -> <<>>

\* The bytes of a code point.
Encoded(c) ==
  CASE c < 128 -> <<c>>
    [] 128 <= c /\ c < 2048 -> <<192 + c \div 64, 128 + (c % 64)>>
    [] 2048 <= c /\ c < 65536 ->
         <<224 + c \div 4096, 128 + ((c \div 64) % 64), 128 + (c % 64)>>
    [] OTHER -> <<240 + c \div 262144, 128 + ((c \div 4096) % 64), 128 + ((c \div 64) % 64),
                  128 + (c % 64)>>

High(c) == 55296 <= c /\ c < 56320   \* D800 to DBFF
Low(c) == 56320 <= c /\ c < 57344    \* DC00 to DFFF

\* Mutant: a low surrogate on its own is taken for a code point.
UnicodeLone(st, c) ==
  IF High(c) THEN [st EXCEPT !.at = "low", !.high = c] ELSE Add(st, Encoded(c))

\* \uXXXX on its own, or the first of two.
Unicode(st, c) ==
  CASE High(c) -> [st EXCEPT !.at = "low", !.high = c]
    [] Low(c) -> Refused(st, "surrogate")
    [] OTHER -> Add(st, Encoded(c))

\* The second of two.
LowSurrogate(st, s) ==
  IF s >= 256 /\ Low(s - 256)
    THEN Add([st EXCEPT !.high = 0], Encoded(st.high * 1024 + (s - 256) - 56613888))
    ELSE Refused(st, "surrogate")

\* The letters of \b, \t, \n, \f and \r, and what they stand for.
Short == {<<98, 8>>, <<116, 9>>, <<110, 10>>, <<102, 12>>, <<114, 13>>}

\* After a backslash.
Escaped(st, s) ==
  CASE s \in {34, 47, 92} -> Add(st, <<s>>)
    [] \E e \in Short : e[1] = s -> Add(st, <<(CHOOSE e \in Short : e[1] = s)[2]>>)
    [] 256 <= s /\ s < NoDigits -> Unicode(st, s - 256)
    [] OTHER -> Refused(st, "bad escape")

next_byte_in_range(st, s) ==
  IF s \in Head(st.ranges)
    THEN [Add(st, <<s>>) EXCEPT !.ranges = Tail(@),
                                !.at = IF Len(st.ranges) = 1 THEN "char" ELSE "tail"]
    ELSE Refused(st, "ill-formed")

\* Where a character may begin.
First(st, s) ==
  CASE s = 34 -> [st EXCEPT !.at = "done"]
    [] s = 92 -> [st EXCEPT !.at = "escape"]
    [] s <= 31 -> Refused(st, "control")
    [] s \in 32 .. 127 \ {34, 92} -> Add(st, <<s>>)
    [] RangesAfter(s) # <<>> -> [Add(st, <<s>>) EXCEPT !.at = "tail", !.ranges = RangesAfter(s)]
    [] OTHER -> Refused(st, "ill-formed")

\* scan_string reads one more symbol.
Scan(st, s) ==
  LET now == [st EXCEPT !.added = <<>>]
  IN CASE st.at = "char" -> First([now EXCEPT !.token = <<>>], s)
       [] st.at = "escape" -> Escaped(now, s)
       [] st.at = "low" -> IF s = 92 THEN [now EXCEPT !.at = "lowEscape"]
                                     ELSE Refused(now, "surrogate")
       [] st.at = "lowEscape" -> LowSurrogate(now, s)
       [] st.at = "tail" -> next_byte_in_range(now, s)
-----------------------------------------------------------------------------
(* The serializer. *)

Empty == [state |-> utf8_accept, codep |-> 0, text |-> <<>>, fill |-> 0, top |-> 0]

\* decode's code point: (0xff >> type) & byte, or six bits more.
Kept == <<256, 128, 64, 32, 16, 8, 4, 2>>
CodePoint(o, b) ==
  IF o.state = utf8_accept THEN IF Class(b) < 8 THEN b % Kept[Class(b) + 1] ELSE 0
                           ELSE 64 * o.codep + (b % 64)

\* n bytes go into string_buffer, the last write reaching r bytes.
Put(o, symbols, n, r) ==
  [o EXCEPT !.text = @ \o symbols, !.fill = @ + n, !.top = o.fill + r]

\* Mutant: control characters without a letter of their own are not escaped.
CharacterPlain(o, b) ==
  CASE o.codep \in {34, 92} -> Put(o, <<92, o.codep>>, 2, 2)
    [] \E e \in Short : e[2] = o.codep ->
         Put(o, <<92, (CHOOSE e \in Short : e[2] = o.codep)[1]>>, 2, 2)
    [] OTHER -> Put(o, <<b>>, 1, 1)

\* A character is complete: its escape, or its last byte.
Character(o, b) ==
  CASE o.codep \in {34, 92} -> Put(o, <<92, o.codep>>, 2, 2)
    [] \E e \in Short : e[2] = o.codep ->
         Put(o, <<92, (CHOOSE e \in Short : e[2] = o.codep)[1]>>, 2, 2)
    [] o.codep <= 31 /\ o.codep \notin {e[2] : e \in Short} ->
         Put(o, <<92, Uni(o.codep)>>, 6, 7)
    [] OTHER -> Put(o, <<b>>, 1, 1)

\* Mutant: the buffer is written out when less room is left.
FlushedLate(o) == IF Room - o.fill < 5 THEN [o EXCEPT !.fill = 0] ELSE o

Flushed(o) == IF Room - o.fill < 13 THEN [o EXCEPT !.fill = 0] ELSE o

\* dump_escaped takes one more byte.
DumpByte(o, b) ==
  LET now == [o EXCEPT !.state = Decode(o.state, b), !.codep = CodePoint(o, b)]
  IN CASE now.state = utf8_accept -> Flushed(Character(now, b))
       [] now.state = utf8_reject -> now
       [] OTHER -> Put(now, <<b>>, 1, 1)

\* ... and several.
Dump(o, bytes) ==
  LET upTo[n \in 0 .. Len(bytes)] == IF n = 0 THEN o ELSE DumpByte(upTo[n - 1], bytes[n])
  IN upTo[Len(bytes)]
-----------------------------------------------------------------------------
StringsInit == lex = Start /\ utf8 = utf8_accept /\ out = Empty

\* In an escape u is never a byte of its own; elsewhere it always is.
InEscape == lex.at \in {"escape", "lowEscape"}
Offered == IF InEscape THEN (TextBytes \ {117}) \cup UniOnly ELSE TextBytes

\* One more symbol of the text.
Symbol(s) ==
  /\ lex.at \in {"char", "escape", "low", "lowEscape", "tail"}
  /\ s \in Offered
  /\ lex' = Scan(lex, s)
  /\ utf8' = IF s < 256 THEN Decode(utf8, s) ELSE utf8
  /\ out' = Dump(IF lex.at = "char" THEN [out EXCEPT !.text = <<>>] ELSE out, lex'.added)

\* The next string of the same text.
NextString ==
  /\ lex.at = "done"
  /\ lex' = Start /\ out' = Empty
  /\ UNCHANGED utf8

StringsNext == NextString \/ \E s \in TextBytes \cup UniOnly : Symbol(s)

StringsSpec == StringsInit /\ [][StringsNext]_stringVars
-----------------------------------------------------------------------------
Causes == {"ill-formed", "control", "bad escape", "surrogate"}

\* The ranges the lexer must be left with when the validator is in a state.
RangesOf(s) ==
  CASE s = 2 -> Tail1 [] s = 3 -> Tail2 [] s = 7 -> Tail3
    [] s = 4 -> TailE0 [] s = 5 -> TailED [] s = 6 -> TailF0 [] s = 8 -> TailF4

\* The lexer's ranges and the validator's table are the same automaton: what the
\* lexer calls ill-formed the validator rejects, what the validator rejects the
\* lexer refuses, and while neither has, both wait for the same bytes.
SameText ==
  /\ lex.at = "ill-formed" => utf8 = utf8_reject
  /\ utf8 = utf8_reject => lex.at \in Causes
  /\ lex.at = "tail" => utf8 # utf8_accept /\ lex.ranges = RangesOf(utf8)
  /\ lex.at \notin Causes \cup {"tail"} => utf8 = utf8_accept

\* json.hpp 8624, 8652: dump throws for a string that is not UTF-8.  What the lexer
\* has accepted never is: the decoder is where the validator is.
Writable == lex.at \notin Causes => out.state = utf8

\* A character read, written and read again is the same character.
Again == LET upTo[n \in 0 .. Len(out.text)] ==
               IF n = 0 THEN Start ELSE Scan(upTo[n - 1], out.text[n])
         IN upTo[Len(out.text)]
RoundTrip ==
  lex.at = "char" /\ lex.token # <<>> => Again.at = "char" /\ Again.token = lex.token

\* json.hpp 8609: "there must be 13 bytes left": no write passes string_buffer's end.
BufferHolds == out.top <= Room
=============================================================================
