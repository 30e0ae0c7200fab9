-------------------------------- MODULE Utf8 --------------------------------
(***************************************************************************)
(* The UTF-8 automaton that websocketpp's validator and the JSON           *)
(* serializer both carry a copy of: the class of a byte, and the state     *)
(* after one more byte.  The bytes are the real ones, 0 to 255.            *)
(***************************************************************************)
EXTENDS Integers, Sequences

Byte == 0 .. 255

utf8_accept == 0
utf8_reject == 1

\* Mutant: the byte before the surrogates, ED, as any other of a three-byte character.
ClassSurrogates(b) ==
  CASE b <= 127 -> 0
    [] b \in 128 .. 143 -> 1 [] b \in 144 .. 159 -> 9 [] b \in 160 .. 191 -> 7
    [] b \in 194 .. 223 -> 2
    [] b = 224 -> 10 [] b \in 225 .. 239 -> 3
    [] b = 240 -> 11 [] b \in 241 .. 243 -> 6 [] b = 244 -> 5
    [] OTHER -> 8

\* utf8d[0 .. 255]: the class of a byte.
Class(b) ==
  CASE b <= 127 -> 0
    [] b \in 128 .. 143 -> 1 [] b \in 144 .. 159 -> 9 [] b \in 160 .. 191 -> 7
    [] b \in 194 .. 223 -> 2
    [] b = 224 -> 10 [] b = 237 -> 4 [] b \in 225 .. 239 \ {237} -> 3
    [] b = 240 -> 11 [] b \in 241 .. 243 -> 6 [] b = 244 -> 5
    [] OTHER -> 8

\* utf8d[256 ..]: the state after a byte of class c in state s.  States 2 and 3
\* wait for one and two more bytes, 7 for three; 4, 5, 6 and 8 for as many, the
\* next of a narrower range.
After(s, c) ==
  CASE s = 0 -> CASE c = 0 -> 0 [] c = 2 -> 2 [] c = 3 -> 3 [] c = 4 -> 5 [] c = 5 -> 8
                  [] c = 6 -> 7 [] c = 10 -> 4 [] c = 11 -> 6 [] OTHER -> 1
    [] s = 2 -> IF c \in {1, 7, 9} THEN 0 ELSE 1
    [] s = 3 -> IF c \in {1, 7, 9} THEN 2 ELSE 1
    [] s = 4 -> IF c = 7 THEN 2 ELSE 1
    [] s = 5 -> IF c \in {1, 9} THEN 2 ELSE 1
    [] s = 6 -> IF c \in {7, 9} THEN 3 ELSE 1
    [] s = 7 -> IF c \in {1, 7, 9} THEN 3 ELSE 1
    [] s = 8 -> IF c = 1 THEN 3 ELSE 1
    [] OTHER -> 1

\* decode: the state after byte b.
Decode(s, b) == After(s, Class(b))

\* ... and after several.
Decoded(s, bytes) ==
  LET upTo[n \in 0 .. Len(bytes)] == IF n = 0 THEN s ELSE Decode(upTo[n - 1], bytes[n])
  IN upTo[Len(bytes)]
=============================================================================
