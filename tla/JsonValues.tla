----------------------------- MODULE JsonValues -----------------------------
(***************************************************************************)
(* The values of a message on their way through the provider: the parser   *)
(* builds them from the lexer's tokens (parse_internal, its recursion as a *)
(* stack), dump writes them, and the parser of the aggregator reads that.  *)
(* A token is a tuple: its type and, of strings and numbers, which one.    *)
(* A value is a tuple, too: its type, and its content.                     *)
(***************************************************************************)
EXTENDS Integers, SequencesExt

CONSTANTS Names,     \* bound: the strings that occur, in the order of std::map
          MaxTokens  \* bound: tokens in a text

ASSUME ValuesAssumption == Names \in Seq(STRING) /\ MaxTokens \in Nat

VARIABLES tokens, \* those read so far
          parser  \* where parse_internal is, the containers it is in, the value

valueVars == <<tokens, parser>>
-----------------------------------------------------------------------------
\* Numbers, by what matters to their conversion: zero, any other, a zero with a
\* minus sign and one too large for a double.
Literals == {"0", "1", "-0", "1e400"}

\* What scan_number makes of a literal; an integer has no negative zero.
Scanned(l) == IF l = "-0" THEN "0" ELSE l

Structure == {<<t>> : t \in {"{", "}", "[", "]", ":", ","}}
Strings == {<<"string", n>> : n \in ToSet(Names)}
Numbers == {<<"number", l>> : l \in Literals}
Infinite == <<"number", "1e400">>
Tokens == Structure \cup Strings \cup Numbers \cup {<<"bad">>, <<"end">>}

\* Where no value is: value_t::discarded, and a name without a member.
Nothing == <<"nothing", "">>

Outside == [at |-> "value", inside |-> <<>>, value |-> Nothing]
Throws(p) == [p EXCEPT !.at = "threw"]

\* push_back, and emplace, which leaves a member of the same name as it is.
Inserted(c, v) ==
  IF c.kind = "array" THEN [c EXCEPT !.content = Append(@, v)]
  ELSE [c EXCEPT !.content[c.key] = IF @ = Nothing THEN v ELSE @]

\* A value is complete.
Value(p, v) ==
  IF p.inside = <<>> THEN [p EXCEPT !.at = "end", !.value = v]
  ELSE [p EXCEPT !.at = "next", !.inside = Append(Front(@), Inserted(Last(@), v))]

Fresh(kind) == IF kind = "array" THEN <<>> ELSE [name \in ToSet(Names) |-> Nothing]

Enter(p, kind, at) ==
  [p EXCEPT !.at = at, !.inside = Append(@, [kind |-> kind, key |-> "", content |-> Fresh(kind)])]

Leave(p) == LET c == Last(p.inside)
            IN Value([p EXCEPT !.inside = Front(@)], <<c.kind, c.content>>)

\* parse_internal.
ValueToken(p, t) ==
  CASE t[1] = "{" -> Enter(p, "object", "first key")
    [] t[1] = "[" -> Enter(p, "array", "first value")
    [] t[1] = "string" -> Value(p, t)
    [] t[1] = "number" /\ t # Infinite -> Value(p, <<"number", Scanned(t[2])>>)
    [] OTHER -> Throws(p)

Key(p, t) ==
  IF t[1] = "string"
    THEN [p EXCEPT !.at = "colon", !.inside = Append(Front(@), [Last(@) EXCEPT !.key = t[2]])]
    ELSE Throws(p)

Close(kind) == IF kind = "object" THEN "}" ELSE "]"

\* Mutant: after a comma the container may end.
SeparatorTrailing(p, t) ==
  LET kind == Last(p.inside).kind
  IN CASE t[1] = "," -> [p EXCEPT !.at = IF kind = "object" THEN "first key" ELSE "first value"]
       [] t[1] = Close(kind) -> Leave(p)
       [] OTHER -> Throws(p)

\* After a value in a container.
Separator(p, t) ==
  LET kind == Last(p.inside).kind
  IN CASE t[1] = "," -> [p EXCEPT !.at = IF kind = "object" THEN "key" ELSE "value"]
       [] t[1] = Close(kind) -> Leave(p)
       [] OTHER -> Throws(p)

\* The parser reads one more token.
Parse(p, t) ==
  CASE p.at = "value" -> ValueToken(p, t)
    [] p.at = "first value" -> IF t[1] = "]" THEN Leave(p) ELSE ValueToken(p, t)
    [] p.at = "first key" -> IF t[1] = "}" THEN Leave(p) ELSE Key(p, t)
    [] p.at = "key" -> Key(p, t)
    [] p.at = "colon" -> IF t[1] = ":" THEN [p EXCEPT !.at = "value"] ELSE Throws(p)
    [] p.at = "next" -> Separator(p, t)
    [] p.at = "end" -> IF t[1] = "end" THEN [p EXCEPT !.at = "done"] ELSE Throws(p)
    [] OTHER -> p

\* ... and several.
Parsed(p, text) ==
  LET upTo[n \in 0 .. Len(text)] == IF n = 0 THEN p ELSE Parse(upTo[n - 1], text[n])
  IN upTo[Len(text)]
-----------------------------------------------------------------------------
\* Values that are nested less than n deep.
Values[n \in Nat] ==
  IF n = 0 THEN {}
  ELSE Strings \cup ({"number"} \X {"0", "1"}) \cup ({"array"} \X Seq(Values[n - 1]))
         \cup ({"object"} \X [ToSet(Names) -> Values[n - 1] \cup {Nothing}])

\* Mutant: the comma is written after every element.
SeparatedAll(parts) ==
  LET upTo[n \in 0 .. Len(parts)] ==
        IF n = 0 THEN <<>> ELSE upTo[n - 1] \o Append(parts[n], <<",">>)
  IN upTo[Len(parts)]

\* The first elements with a comma each, and the last.
Separated(parts) ==
  LET upTo[n \in 0 .. Len(parts)] ==
        IF n = 0 THEN <<>>
        ELSE upTo[n - 1] \o IF n < Len(parts) THEN Append(parts[n], <<",">>) ELSE parts[n]
  IN upTo[Len(parts)]

\* The names of the members, in the order of std::map.
InOrder(object) ==
  LET upTo[n \in 0 .. Len(Names)] ==
        IF n = 0 THEN <<>>
        ELSE IF object[Names[n]] # Nothing THEN Append(upTo[n - 1], Names[n]) ELSE upTo[n - 1]
  IN upTo[Len(Names)]

\* dump: the tokens of a value.
Written[n \in Nat] ==
  [v \in Values[n] |->
     CASE v[1] = "object" ->
            LET names == InOrder(v[2])
                member(name) == <<<<"string", name>>, <<":">>>> \o Written[n - 1][v[2][name]]
            IN <<<<"{">>>> \o Separated([k \in DOMAIN names |-> member(names[k])]) \o <<<<"}">>>>
       [] v[1] = "array" ->
            <<<<"[">>>> \o Separated([k \in DOMAIN v[2] |-> Written[n - 1][v[2][k]]]) \o <<<<"]">>>>
       [] OTHER -> <<v>>]
-----------------------------------------------------------------------------
ValuesInit == tokens = <<>> /\ parser = Outside

Token(t) ==
  /\ parser.at \notin {"done", "threw"}
  /\ Len(tokens) < MaxTokens
  /\ tokens' = Append(tokens, t)
  /\ parser' = Parse(parser, t)

ValuesNext == \E t \in Tokens : Token(t)
ValuesSpec == ValuesInit /\ [][ValuesNext]_valueVars
-----------------------------------------------------------------------------
\* JSON's grammar, over tokens: the texts that n steps of it make.
Texts[n \in Nat] ==
  IF n = 0 THEN [value |-> {}, elements |-> {}, members |-> {}]
  ELSE
    LET T == Texts[n - 1]
        Between(s, open, close, content) ==
          /\ Len(s) >= 2 /\ s[1] = <<open>> /\ s[Len(s)] = <<close>>
          /\ Len(s) = 2 \/ SubSeq(s, 2, Len(s) - 1) \in content
        Member(s) == /\ Len(s) > 2 /\ s[1] \in Strings /\ s[2] = <<":">>
                     /\ SubSeq(s, 3, Len(s)) \in T.value
    IN [value |-> {s \in Seq(Tokens) :
                     \/ Len(s) = 1 /\ s[1] \in Strings \cup Numbers
                     \/ Between(s, "[", "]", T.elements)
                     \/ Between(s, "{", "}", T.members)},
        elements |-> {s \in Seq(Tokens) :
                        \/ s \in T.value
                        \/ \E c \in DOMAIN s : /\ s[c] = <<",">>
                                               /\ SubSeq(s, 1, c - 1) \in T.elements
                                               /\ SubSeq(s, c + 1, Len(s)) \in T.value},
        members |-> {s \in Seq(Tokens) :
                       \/ Member(s)
                       \/ \E c \in DOMAIN s : /\ s[c] = <<",">>
                                              /\ SubSeq(s, 1, c - 1) \in T.members
                                              /\ Member(SubSeq(s, c + 1, Len(s)))}]

\* A value of n tokens takes at most n steps.
IsValue(s) == s \in Texts[Len(s)].value

\* The parser accepts the texts of the grammar, and only those; it throws for a
\* number that no double can hold.
AcceptsGrammar == parser.at = "end" <=> IsValue(tokens) /\ Infinite \notin ToSet(tokens)

\* What the aggregator parses is what the provider has parsed, with the first of
\* several members of one name in both.
Forwarded ==
  parser.at = "done" =>
    LET again == Parsed(Outside, Append(Written[Len(tokens)][parser.value], <<"end">>))
    IN again.at = "done" /\ again.value = parser.value
=============================================================================
