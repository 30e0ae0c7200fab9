---------------------------- MODULE ReadingProofs ----------------------------
(***************************************************************************)
(* What the connection reads: the answer to its upgrade request, for every *)
(* answer, cut into reads in every way, and every limit; and the frames    *)
(* that follow, each cut into reads in every way.  In the first part p is  *)
(* how much of the answer the loop has left behind: what it has yet to     *)
(* look at is m_buf.                                                       *)
(***************************************************************************)
EXTENDS HttpResponse, Frames, Utf8Proofs

Reading == response.state \in {"RESPONSE_LINE", "HEADERS"}

States == {"RESPONSE_LINE", "HEADERS", "BODY", "DONE", "failed"}

ResponseState ==
  [state : States, buf : Seq(Piece),
   header_bytes : Int, read : Int, len : Int, taken : Int]

ResponseTypeOK ==
  /\ answer \in Seq(Piece) /\ arrived \in 0 .. Len(answer)
  /\ response \in ResponseState

\* The bytes n and n + 1 of s are the end of a line.
EndAt(s, n) == s[n] = "CR" /\ s[n + 1] = "LF"

\* A blank line ends at byte n; a Content-Length header begins there.
BlankAt(n) == EndAt(answer, n - 3) /\ EndAt(answer, n - 1)
LengthAt(n) == EndAt(answer, n - 2) /\ answer[n] = "length"

Passed == arrived - Len(response.buf)

\* m_buf is the end of what has arrived, and begins with a line; no line that was
\* passed is blank; what the lines passed say of the body is kept.
BufferInv ==
  Reading =>
    /\ Len(response.buf) <= arrived
    /\ \A i \in 1 .. Len(response.buf) : response.buf[i] = answer[Passed + i]
    /\ response.state = "RESPONSE_LINE" => Passed = 0
    /\ response.state = "HEADERS" => Passed >= 2 /\ EndAt(answer, Passed - 1)

PassedInv ==
  Reading =>
    /\ \A n \in 4 .. Passed : ~ BlankAt(n)
    /\ response.read = IF \E n \in 3 .. Passed : LengthAt(n) THEN BodyLength ELSE 0
    /\ response.header_bytes >= Passed
    /\ response.taken + response.len = arrived
    /\ response.len = 0 => Ends = {}

HeadersReadInv == headers_ready => FramesFollowHeader /\ HeaderEnd <= MaxHeader /\ answer # <<>>

ResponseInv ==
  /\ ResponseTypeOK /\ BufferInv /\ PassedInv /\ HeadersReadInv
  /\ ~ Reading => response.len = 0
-----------------------------------------------------------------------------
(* What the definitions say of single bytes. *)

\* A part of s is t when its bytes are.
LEMMA PartIs ==
  ASSUME NEW s \in Seq(Piece), NEW t \in Seq(Piece), NEW a \in 1 .. Len(s),
         Len(t) > 0, a + Len(t) - 1 <= Len(s)
  PROVE  SubSeq(s, a, a + Len(t) - 1) = t <=> \A i \in 1 .. Len(t) : s[a + i - 1] = t[i]
<1> DEFINE b == a + Len(t) - 1
           u == SubSeq(s, a, b)
<1>1. a \in Int /\ b \in Int /\ Len(t) \in Nat
  OBVIOUS
<1>2. \A i \in a .. b : s[i] \in Piece
  BY <1>1
<1>3. /\ u \in Seq(Piece) /\ Len(u) = IF a <= b THEN b - a + 1 ELSE 0
      /\ \A i \in 1 .. b - a + 1 : u[i] = s[a + i - 1]
  <2> HIDE DEF b
  <2> QED BY <1>1, <1>2, SubSeqProperties
<1>4. Len(u) = Len(t) /\ \A i \in 1 .. Len(t) : u[i] = s[a + i - 1]
  <2> HIDE DEF u
  <2> QED BY <1>1, <1>3
<1> HIDE DEF u
<1>5. (\A i \in 1 .. Len(t) : u[i] = t[i]) => u = t
  BY <1>3, <1>4, SeqEqual
<1> QED BY <1>4, <1>5 DEF u

\* The bytes of what the definitions look for.
LEMMA EndType == End \in Seq(Piece) /\ Len(End) = 2 /\ End[1] = "CR" /\ End[2] = "LF"
BY DEF End, Piece

LEMMA BlankType ==
  LET t == End \o End
  IN t \in Seq(Piece) /\ Len(t) = 4 /\ t[1] = "CR" /\ t[2] = "LF" /\ t[3] = "CR" /\ t[4] = "LF"
<1>1. PICK S, e : S = Piece /\ e = End
  OBVIOUS
<1>2. e \in Seq(S) /\ Len(e) = 2
  BY <1>1, EndType
<1>3. e \o e \in Seq(S) /\ Len(e \o e) = 4
  BY <1>2, ConcatProperties
<1>4. \A i \in 1 .. Len(e) + Len(e) : (e \o e)[i] = IF i <= Len(e) THEN e[i] ELSE e[i - Len(e)]
  BY <1>2, ConcatProperties
<1>5. /\ (e \o e)[1] = e[1] /\ (e \o e)[2] = e[2]
      /\ (e \o e)[3] = e[1] /\ (e \o e)[4] = e[2]
  <2>1. PICK t : t = e \o e
    OBVIOUS
  <2>2. ASSUME NEW i \in 1 .. 4 PROVE t[i] = IF i <= 2 THEN e[i] ELSE e[i - 2]
    <3>1. Len(e) = 2 /\ i \in 1 .. Len(e) + Len(e)
      BY <1>2
    <3> QED BY <1>4, <2>1, <3>1
  <2>3. t[1] = e[1] /\ t[2] = e[2] /\ t[3] = e[1] /\ t[4] = e[2]
    BY <2>2
  <2> QED BY <2>1, <2>3
<1>6. e[1] = "CR" /\ e[2] = "LF"
  BY <1>1, EndType
<1> QED BY <1>1, <1>3, <1>5, <1>6

LEMMA LengthType ==
  LET t == End \o <<"length">>
  IN t \in Seq(Piece) /\ Len(t) = 3 /\ t[1] = "CR" /\ t[2] = "LF" /\ t[3] = "length"
<1>1. PICK S, e, w : S = Piece /\ e = End /\ w = <<"length">>
  OBVIOUS
<1>2. e \in Seq(S) /\ Len(e) = 2
  BY <1>1, EndType
<1>3. w \in Seq(S) /\ Len(w) = 1
  BY <1>1 DEF Piece
<1>4. e \o w \in Seq(S) /\ Len(e \o w) = Len(e) + Len(w)
  BY <1>2, <1>3, ConcatProperties
<1>5. \A i \in 1 .. Len(e) + Len(w) : (e \o w)[i] = IF i <= Len(e) THEN e[i] ELSE w[i - Len(e)]
  BY <1>2, <1>3, ConcatProperties
<1>6. (e \o w)[1] = e[1] /\ (e \o w)[2] = e[2] /\ (e \o w)[3] = w[1] /\ Len(e \o w) = 3
  BY <1>2, <1>3, <1>4, <1>5
<1>7. e[1] = "CR" /\ e[2] = "LF" /\ w[1] = "length"
  BY <1>1, EndType
<1> QED BY <1>1, <1>4, <1>6, <1>7

LEMMA EndIn ==
  ASSUME NEW s \in Seq(Piece), NEW n \in Nat, n + 2 <= Len(s)
  PROVE  SubSeq(s, n + 1, n + 2) = End <=> EndAt(s, n + 1)
<1>1. n + 1 \in 1 .. Len(s) /\ (n + 1) + Len(End) - 1 = n + 2 /\ Len(End) > 0
      /\ (n + 1) + Len(End) - 1 <= Len(s)
  BY EndType
<1>2. SubSeq(s, n + 1, n + 2) = End <=> \A i \in 1 .. 2 : s[(n + 1) + i - 1] = End[i]
  BY <1>1, PartIs, EndType
<1>3. (n + 1) + 1 - 1 = n + 1 /\ (n + 1) + 2 - 1 = (n + 1) + 1 /\ 1 .. 2 = {1, 2}
  OBVIOUS
<1> QED BY <1>2, <1>3, EndType DEF EndAt

LEMMA BlankIn ==
  ASSUME NEW s \in Seq(Piece), NEW n \in 4 .. Len(s)
  PROVE  SubSeq(s, n - 3, n) = End \o End <=> EndAt(s, n - 3) /\ EndAt(s, n - 1)
<1> DEFINE t == End \o End
<1>0. t \in Seq(Piece) /\ Len(t) = 4 /\ t[1] = "CR" /\ t[2] = "LF" /\ t[3] = "CR" /\ t[4] = "LF"
  BY BlankType
<1> HIDE DEF t
<1>1. n - 3 \in 1 .. Len(s) /\ (n - 3) + Len(t) - 1 = n /\ Len(t) > 0
      /\ (n - 3) + Len(t) - 1 <= Len(s)
  BY <1>0
<1>2. SubSeq(s, n - 3, n) = t <=> \A i \in 1 .. 4 : s[(n - 3) + i - 1] = t[i]
  BY <1>0, <1>1, PartIs
<1>3. /\ (n - 3) + 1 - 1 = n - 3 /\ (n - 3) + 2 - 1 = (n - 3) + 1
      /\ (n - 3) + 3 - 1 = n - 1 /\ (n - 3) + 4 - 1 = (n - 1) + 1 /\ 1 .. 4 = {1, 2, 3, 4}
  OBVIOUS
<1>4. SubSeq(s, n - 3, n) = t <=> EndAt(s, n - 3) /\ EndAt(s, n - 1)
  BY <1>0, <1>2, <1>3 DEF EndAt
<1> QED BY <1>4 DEF t

LEMMA LengthIn ==
  ASSUME NEW s \in Seq(Piece), NEW n \in 3 .. Len(s)
  PROVE  SubSeq(s, n - 2, n) = End \o <<"length">> <=> EndAt(s, n - 2) /\ s[n] = "length"
<1> DEFINE t == End \o <<"length">>
<1>0. t \in Seq(Piece) /\ Len(t) = 3 /\ t[1] = "CR" /\ t[2] = "LF" /\ t[3] = "length"
  BY LengthType
<1> HIDE DEF t
<1>1. n - 2 \in 1 .. Len(s) /\ (n - 2) + Len(t) - 1 = n /\ Len(t) > 0
      /\ (n - 2) + Len(t) - 1 <= Len(s)
  BY <1>0
<1>2. SubSeq(s, n - 2, n) = t <=> \A i \in 1 .. 3 : s[(n - 2) + i - 1] = t[i]
  <2>1. PICK m, l : m = n - 2 /\ l = Len(t)
    OBVIOUS
  <2>2. t \in Seq(Piece) /\ m \in 1 .. Len(s) /\ Len(t) > 0 /\ m + Len(t) - 1 <= Len(s)
    BY <1>0, <1>1, <2>1
  <2>3. SubSeq(s, m, m + Len(t) - 1) = t <=> \A i \in 1 .. Len(t) : s[m + i - 1] = t[i]
    BY <2>2, PartIs
  <2>4. m + Len(t) - 1 = n /\ Len(t) = 3
    BY <1>0, <1>1, <2>1
  <2> QED BY <2>1, <2>3, <2>4
<1>3. /\ (n - 2) + 1 - 1 = n - 2 /\ (n - 2) + 2 - 1 = (n - 2) + 1
      /\ (n - 2) + 3 - 1 = n /\ 1 .. 3 = {1, 2, 3}
  OBVIOUS
<1>4. SubSeq(s, n - 2, n) = t <=> EndAt(s, n - 2) /\ s[n] = "length"
  BY <1>0, <1>2, <1>3 DEF EndAt
<1> QED BY <1>4 DEF t

\* Ends, byte by byte; LineEnd is the first of them.
LEMMA EndsBytes ==
  ASSUME response.buf \in Seq(Piece)
  PROVE  Ends = {n \in 0 .. Len(response.buf) - 2 : EndAt(response.buf, n + 1)}
<1>1. \A n \in 0 .. Len(response.buf) - 2 :
        SubSeq(response.buf, n + 1, n + 2) = End <=> EndAt(response.buf, n + 1)
  BY EndIn
<1> QED BY <1>1 DEF Ends

LEMMA FirstEnd ==
  ASSUME response.buf \in Seq(Piece), Ends # {}
  PROVE  LineEnd \in Ends /\ LineEnd \in Nat /\ \A n \in Ends : LineEnd <= n
<1>1. Ends \subseteq Nat
  BY DEF Ends
<1>2. Min(Ends) \in Ends /\ \A n \in Ends : Min(Ends) <= n
  BY <1>1, MinOfNats
<1> QED BY <1>1, <1>2 DEF LineEnd

\* Without a blank line HeaderEnd is 0; with one, where the first ends.
LEMMA NoHeaderEnd ==
  ASSUME ResponseTypeOK, \A n \in 4 .. arrived : ~ BlankAt(n)
  PROVE  HeaderEnd = 0
<1> DEFINE all == SubSeq(answer, 1, arrived)
           blank == {n \in 4 .. arrived : SubSeq(all, n - 3, n) = End \o End}
<1>1. all \in Seq(Piece) /\ Len(all) = arrived /\ \A i \in 1 .. arrived : all[i] = answer[i]
  BY DEF ResponseTypeOK
<1>2. ASSUME NEW n \in 4 .. arrived PROVE SubSeq(all, n - 3, n) # End \o End
  <2> HIDE DEF all
  <2>1. arrived \in Nat /\ n - 3 \in 1 .. arrived /\ n - 2 \in 1 .. arrived
        /\ n - 1 \in 1 .. arrived /\ n \in 1 .. arrived /\ n \in 4 .. Len(all)
        /\ (n - 3) + 1 = n - 2 /\ (n - 1) + 1 = n
    BY <1>1 DEF ResponseTypeOK
  <2>2. EndAt(all, n - 3) /\ EndAt(all, n - 1) <=> BlankAt(n)
    BY <1>1, <2>1 DEF EndAt, BlankAt
  <2> QED BY <1>1, <2>1, <2>2, BlankIn
<1>3. blank = {}
  BY <1>2
<1> QED BY <1>3 DEF HeaderEnd

LEMMA FirstBlank ==
  ASSUME ResponseTypeOK, NEW m \in 4 .. arrived, BlankAt(m),
         \A n \in 4 .. m - 1 : ~ BlankAt(n)
  PROVE  HeaderEnd = m
<1> DEFINE all == SubSeq(answer, 1, arrived)
           blank == {n \in 4 .. arrived : SubSeq(all, n - 3, n) = End \o End}
<1>1. all \in Seq(Piece) /\ Len(all) = arrived /\ \A i \in 1 .. arrived : all[i] = answer[i]
  BY DEF ResponseTypeOK
<1>2. ASSUME NEW n \in 4 .. arrived PROVE SubSeq(all, n - 3, n) = End \o End <=> BlankAt(n)
  <2> HIDE DEF all
  <2>1. arrived \in Nat /\ n - 3 \in 1 .. arrived /\ n - 2 \in 1 .. arrived
        /\ n - 1 \in 1 .. arrived /\ n \in 1 .. arrived /\ n \in 4 .. Len(all)
        /\ (n - 3) + 1 = n - 2 /\ (n - 1) + 1 = n
    BY <1>1 DEF ResponseTypeOK
  <2>2. EndAt(all, n - 3) /\ EndAt(all, n - 1) <=> BlankAt(n)
    BY <1>1, <2>1 DEF EndAt, BlankAt
  <2> QED BY <1>1, <2>1, <2>2, BlankIn
<1>3. m \in blank /\ blank \subseteq Nat
  <2>1. m \in blank
    BY <1>2
  <2>2. blank \subseteq 4 .. arrived /\ 4 .. arrived \subseteq Nat
    BY DEF ResponseTypeOK
  <2> QED BY <2>1, <2>2
<1>4. \A n \in blank : BlankAt(n) /\ n \in 4 .. arrived
  BY <1>2
<1>5. HeaderEnd = Min(blank)
  BY <1>3 DEF HeaderEnd
<1> HIDE DEF blank
<1>6. Min(blank) \in blank /\ Min(blank) <= m /\ blank # {}
  BY <1>3, MinOfNats
<1>7. ~ (Min(blank) \in 4 .. m - 1)
  BY <1>4, <1>6
<1>8. Min(blank) \in 4 .. m
  <2>1. Min(blank) \in 4 .. arrived
    BY <1>4, <1>6
  <2> QED BY <1>6, <2>1
<1>9. Min(blank) = m
  BY <1>7, <1>8
<1> QED BY <1>5, <1>9

\* HeaderEnd is a place of what has arrived.
LEMMA LengthBytes ==
  ASSUME ResponseTypeOK, HeaderEnd \in 0 .. arrived
  PROVE  LengthGiven <=> \E n \in 3 .. HeaderEnd : LengthAt(n)
<1>1. ASSUME NEW n \in 3 .. HeaderEnd
      PROVE  SubSeq(answer, n - 2, n) = End \o <<"length">> <=> LengthAt(n)
  <2>1. n \in 3 .. Len(answer)
    BY DEF ResponseTypeOK
  <2> QED BY <2>1, LengthIn DEF LengthAt, ResponseTypeOK
<1> QED BY <1>1 DEF LengthGiven
-----------------------------------------------------------------------------
(* The invariant. *)

\* The assignments of consume keep the types.
LEMMA FailedType ==
  ASSUME NEW r \in ResponseState, NEW st \in States, NEW l \in Int
  PROVE  [r EXCEPT !.state = st, !.len = l] \in ResponseState
BY DEF ResponseState

LEMMA RestType ==
  ASSUME NEW r \in ResponseState, NEW h \in Int, NEW t \in Int, NEW l \in Int
  PROVE  [r EXCEPT !.header_bytes = h, !.taken = t, !.len = l] \in ResponseState
BY DEF ResponseState

LEMMA LineType ==
  ASSUME NEW r \in ResponseState, NEW st \in States, NEW h \in Int, NEW d \in Int,
         NEW b \in Seq(Piece)
  PROVE  [r EXCEPT !.state = st, !.header_bytes = h, !.read = d, !.buf = b] \in ResponseState
BY DEF ResponseState

LEMMA ReadyType ==
  ASSUME NEW r \in ResponseState, NEW st \in States, NEW h \in Int, NEW b \in Seq(Piece),
         NEW l \in Int, NEW d \in Int, NEW t \in Int
  PROVE  [r EXCEPT !.state = st, !.header_bytes = h, !.buf = b, !.len = l, !.read = d,
                   !.taken = t] \in ResponseState
BY DEF ResponseState

\* What the invariant says of the state, when the loop is not at its end.
LEMMA ReadingFacts ==
  ASSUME ResponseInv, Reading
  PROVE  /\ answer \in Seq(Piece) /\ arrived \in Nat /\ arrived <= Len(answer)
         /\ response.buf \in Seq(Piece) /\ Len(response.buf) \in Nat /\ Passed \in Nat
         /\ Passed + Len(response.buf) = arrived
         /\ response.header_bytes \in Int /\ response.read \in Int /\ response.len \in Int
         /\ response.taken \in Int
BY DEF ResponseInv, ResponseTypeOK, ResponseState, BufferInv, Passed

\* A line's end in the answer, behind what was passed, is an end in m_buf.
LEMMA EndsBehind ==
  ASSUME ResponseInv, Reading, NEW n \in Passed .. arrived - 2, EndAt(answer, n + 1)
  PROVE  n - Passed \in Ends
<1>1. /\ n - Passed \in 0 .. Len(response.buf) - 2
      /\ (n - Passed) + 1 \in 1 .. Len(response.buf)
      /\ (n - Passed) + 2 \in 1 .. Len(response.buf)
      /\ Passed + ((n - Passed) + 1) = n + 1
      /\ Passed + ((n - Passed) + 2) = (n + 1) + 1
      /\ ((n - Passed) + 1) + 1 = (n - Passed) + 2
  <2>1. PICK p, l : p = Passed /\ l = Len(response.buf)
    OBVIOUS
  <2>2. p \in Nat /\ l \in Nat /\ p + l = arrived /\ n \in p .. arrived - 2
    BY <2>1, ReadingFacts
  <2>3. /\ n - p \in 0 .. l - 2 /\ (n - p) + 1 \in 1 .. l /\ (n - p) + 2 \in 1 .. l
        /\ p + ((n - p) + 1) = n + 1 /\ p + ((n - p) + 2) = (n + 1) + 1
        /\ ((n - p) + 1) + 1 = (n - p) + 2
    BY <2>2
  <2> QED BY <2>1, <2>3
<1>2. EndAt(response.buf, (n - Passed) + 1)
  BY <1>1 DEF ResponseInv, BufferInv, EndAt
<1> QED BY <1>1, <1>2, EndsBytes, ReadingFacts

\* What was passed ends with the end of a line: its last byte begins none.
LEMMA NoneAcross ==
  ASSUME ResponseInv, Reading, Passed > 0
  PROVE  ~ EndAt(answer, Passed) /\ answer[Passed] = "LF" /\ Passed >= 2
<1>1. response.state = "HEADERS"
  BY DEF ResponseInv, BufferInv, Reading
<1>2. EndAt(answer, Passed - 1) /\ Passed >= 2
  BY <1>1 DEF ResponseInv, BufferInv
<1>3. (Passed - 1) + 1 = Passed
  BY ReadingFacts
<1>4. answer[Passed] = "LF"
  BY <1>2, <1>3 DEF EndAt
<1> QED BY <1>2, <1>4 DEF EndAt

\* Up to the first end in m_buf no line ends behind what was passed.
LEMMA NoEndBefore ==
  ASSUME ResponseInv, Reading, NEW k \in Nat, Passed + k <= arrived - 1,
         \A n \in Ends : k <= n, NEW n \in Int, Passed <= n, n < Passed + k
  PROVE  ~ EndAt(answer, n + 1)
<1>1. SUFFICES ASSUME EndAt(answer, n + 1) PROVE FALSE
  OBVIOUS
<1>2. n \in Passed .. arrived - 2
  BY ReadingFacts
<1>3. n - Passed \in Ends
  BY <1>1, <1>2, EndsBehind
<1> QED BY <1>3, ReadingFacts

\* While it reads without an end of line in m_buf, no blank line has arrived.
LEMMA NoBlankYet ==
  ASSUME ResponseInv, Reading, Ends = {}
  PROVE  HeaderEnd = 0
<1>1. ASSUME NEW n \in 4 .. arrived, BlankAt(n) PROVE FALSE
  <2>1. n \in Int /\ n >= 4 /\ n <= arrived /\ (n - 2) + 1 = n - 1 /\ EndAt(answer, n - 1)
    BY <1>1, ReadingFacts DEF BlankAt
  <2>2. CASE n <= Passed
    <3>1. n \in 4 .. Passed
      BY <2>1, <2>2, ReadingFacts
    <3> QED BY <1>1, <3>1 DEF ResponseInv, PassedInv
  <2>3. CASE n = Passed + 1
    <3>1. n - 1 = Passed /\ Passed > 0
      BY <2>1, <2>3, ReadingFacts
    <3> QED BY <2>1, <3>1, NoneAcross
  <2>4. CASE n >= Passed + 2
    <3>1. n - 2 \in Passed .. arrived - 2
      BY <2>1, <2>4, ReadingFacts
    <3>2. (n - 2) - Passed \in Ends
      BY <2>1, <3>1, EndsBehind
    <3> QED BY <3>2
  <2> QED BY <2>1, <2>2, <2>3, <2>4, ReadingFacts
<1>2. ResponseTypeOK
  BY DEF ResponseInv
<1> QED BY <1>1, <1>2, NoHeaderEnd

\* The invariant implies the properties.
LEMMA InvImplies ==
  ASSUME ResponseInv
  PROVE  FramesFollowHeader /\ HeaderBounded
<1>1. CASE Reading
  <2>1. ~ headers_ready
    BY <1>1 DEF Reading, headers_ready
  <2>2. response.header_bytes >= arrived - Len(response.buf)
    BY <1>1 DEF ResponseInv, PassedInv, Passed
  <2>3. response.len = 0 => HeaderEnd = 0 /\ response.taken = arrived
    BY <1>1, NoBlankYet, ReadingFacts DEF ResponseInv, PassedInv
  <2> QED BY <2>1, <2>2, <2>3 DEF FramesFollowHeader, HeaderBounded
<1>2. CASE ~ Reading
  <2>1. ~ Consuming
    BY <1>2 DEF Consuming, Reading
  <2>2. CASE headers_ready
    BY <2>1, <2>2 DEF ResponseInv, HeadersReadInv, HeaderBounded
  <2>3. CASE ~ headers_ready
    BY <1>2, <2>1, <2>3 DEF FramesFollowHeader, HeaderBounded, Reading
  <2> QED BY <2>2, <2>3
<1> QED BY <1>1, <1>2
-----------------------------------------------------------------------------
(* Every step keeps it. *)

LEMMA InitEstablishes ==
  ASSUME ResponseInit
  PROVE  ResponseInv
<1>1. answer \in Seq(Piece) /\ arrived \in 0 .. Len(answer) /\ <<>> \in Seq(Piece)
  BY DEF ResponseInit
<1>2. response.buf = <<>> /\ Len(response.buf) = 0 /\ response.len = 0 /\ Passed = 0
  <2>1. response.buf = <<>> /\ response.len = 0 /\ arrived = 0
    BY DEF ResponseInit
  <2>2. Len(response.buf) = 0
    BY <2>1
  <2>3. Passed = 0 - 0
    BY <2>1, <2>2 DEF Passed
  <2> QED BY <2>1, <2>2, <2>3
<1>3. ResponseTypeOK
  <2>1. "RESPONSE_LINE" \in States
    BY DEF States
  <2> QED BY <1>1, <2>1 DEF ResponseInit, ResponseTypeOK, ResponseState
<1>4. BufferInv
  BY <1>2 DEF BufferInv, ResponseInit
<1>5. Ends = {}
  BY <1>2 DEF Ends
<1>6. PassedInv
  BY <1>2, <1>5 DEF PassedInv, ResponseInit
<1>7. ~ headers_ready
  BY DEF headers_ready, ResponseInit
<1> QED BY <1>2, <1>3, <1>4, <1>6, <1>7 DEF ResponseInv, HeadersReadInv

\* The server sends before anything has arrived.
LEMMA AnswerKeeps ==
  ASSUME ResponseInv, Answer
  PROVE  ResponseInv'
<1>1. /\ answer = <<>> /\ arrived = 0 /\ arrived' = 0 /\ answer' \in Seq(Piece)
      /\ response' = response
  BY ResponseAssumption DEF ResponseInv, ResponseTypeOK, Answer
<1>2. Reading' <=> Reading
  BY <1>1 DEF Reading
<1>3. ResponseTypeOK'
  BY <1>1 DEF ResponseInv, ResponseTypeOK
<1>4. ~ headers_ready'
  BY <1>1 DEF ResponseInv, HeadersReadInv, headers_ready
<1>5. Reading => Len(response.buf) = 0 /\ Passed = 0 /\ Passed' = 0 /\ response.state # "HEADERS"
  BY <1>1, ReadingFacts DEF ResponseInv, BufferInv, Passed
<1>6. BufferInv'
  BY <1>1, <1>2, <1>5 DEF BufferInv, Reading
<1>7. Ends' = Ends
  BY <1>1 DEF Ends
<1>8. PassedInv'
  <2>1. SUFFICES ASSUME Reading PROVE PassedInv'
    BY <1>2 DEF PassedInv
  <2>2. response.read = 0 /\ response.header_bytes >= 0
    BY <1>5, <2>1 DEF ResponseInv, PassedInv
  <2>3. response.taken + response.len = 0 /\ (response.len = 0 => Ends = {})
    BY <1>1, <2>1 DEF ResponseInv, PassedInv
  <2> QED BY <1>1, <1>5, <1>7, <2>1, <2>2, <2>3 DEF PassedInv
<1> QED BY <1>1, <1>2, <1>3, <1>4, <1>6, <1>8 DEF ResponseInv, HeadersReadInv

\* A read adds to m_buf what has arrived.
LEMMA ReadKeeps ==
  ASSUME ResponseInv, NEW n \in 1 .. MaxChunk, ReadResponse(n)
  PROVE  ResponseInv'
<1>1. /\ Reading /\ response.len = 0 /\ n \in Nat /\ n > 0 /\ arrived + n <= Len(answer)
      /\ arrived' = arrived + n /\ answer' = answer
  BY ResponseAssumption DEF ReadResponse, Reading
<1>2. /\ response'.buf = response.buf \o SubSeq(answer, arrived + 1, arrived + n)
      /\ response'.len = n /\ response'.state = response.state
      /\ response'.read = response.read /\ response'.header_bytes = response.header_bytes
      /\ response'.taken = response.taken
      /\ response' = [response EXCEPT !.buf = response'.buf, !.len = n]
  BY DEF ReadResponse, ResponseInv, ResponseTypeOK, ResponseState
<1>3. PICK S, b, t : /\ S = Piece /\ b = response.buf
                     /\ t = SubSeq(answer, arrived + 1, arrived + n)
  OBVIOUS
<1>4. t \in Seq(S) /\ Len(t) = n /\ \A i \in 1 .. n : t[i] = answer[arrived + i]
  <2>0. arrived \in Nat /\ Len(answer) \in Nat /\ answer \in Seq(S)
    BY <1>1, <1>3, ReadingFacts
  <2>1. arrived + 1 \in Int /\ arrived + n \in Int
    BY <1>1, <2>0
  <2>2. ASSUME NEW i \in arrived + 1 .. arrived + n PROVE answer[i] \in S
    <3>1. i \in 1 .. Len(answer)
      BY <1>1, <2>0
    <3> QED BY <2>0, <3>1, ElementOfSeq
  <2>3. /\ t \in Seq(S)
        /\ Len(t) = IF arrived + 1 <= arrived + n THEN (arrived + n) - (arrived + 1) + 1 ELSE 0
        /\ \A i \in 1 .. (arrived + n) - (arrived + 1) + 1 : t[i] = answer[(arrived + 1) + i - 1]
    BY <1>3, <2>1, <2>2, SubSeqProperties
  <2>4. /\ (arrived + n) - (arrived + 1) + 1 = n /\ arrived + 1 <= arrived + n
        /\ \A i \in 1 .. n : (arrived + 1) + i - 1 = arrived + i
    BY <1>1, <2>0
  <2> QED BY <2>3, <2>4
<1>5. b \in Seq(S) /\ Len(b) \in Nat /\ Len(b) = Len(response.buf) /\ Passed + Len(b) = arrived
  BY <1>1, <1>3, ReadingFacts
<1>6. /\ b \o t \in Seq(S) /\ Len(b \o t) = Len(b) + Len(t)
      /\ \A i \in 1 .. Len(b) + Len(t) : (b \o t)[i] = IF i <= Len(b) THEN b[i] ELSE t[i - Len(b)]
  <2>1. b \in Seq(S) /\ t \in Seq(S)
    BY <1>4, <1>5
  <2> QED BY <2>1, ConcatProperties
<1>7. PICK c : c = b \o t
  OBVIOUS
<1>8. response'.buf = c /\ c \in Seq(Piece) /\ Len(c) = Len(b) + n
  BY <1>2, <1>3, <1>4, <1>6, <1>7
<1>9. Passed' = Passed /\ Passed \in Nat /\ arrived \in Nat
  BY <1>1, <1>5, <1>8, ReadingFacts DEF Passed
<1>10. ASSUME NEW i \in 1 .. Len(c) PROVE c[i] = answer[Passed + i]
  <2>1. c[i] = IF i <= Len(b) THEN b[i] ELSE t[i - Len(b)]
    BY <1>4, <1>6, <1>7, <1>8
  <2>2. CASE i <= Len(b)
    BY <1>1, <1>3, <1>5, <2>1, <2>2 DEF ResponseInv, BufferInv
  <2>3. CASE i > Len(b)
    <3>1. i - Len(b) \in 1 .. n /\ arrived + (i - Len(b)) = Passed + i
      <4>1. i \in 1 .. Len(b) + n /\ i \in Int /\ Len(b) \in Nat
        BY <1>5, <1>8
      <4>2. PICK p : p = Passed
        OBVIOUS
      <4>3. p \in Nat /\ p + Len(b) = arrived
        BY <1>5, <1>9, <4>2
      <4>4. i - Len(b) \in 1 .. n
        BY <1>1, <2>3, <4>1
      <4>5. arrived + (i - Len(b)) = p + i
        BY <4>1, <4>3
      <4> QED BY <4>2, <4>4, <4>5
    <3> QED BY <1>4, <1>5, <2>1, <2>3, <3>1
  <2> QED BY <1>5, <2>2, <2>3
<1>11. ResponseTypeOK'
  BY <1>1, <1>2, <1>8, <1>9 DEF ResponseInv, ResponseTypeOK, ResponseState
<1>12. Reading'
  BY <1>1, <1>2 DEF Reading
<1>13. BufferInv'
  <2>1. Len(c) <= arrived'
    BY <1>1, <1>5, <1>8, <1>9
  <2>2. \A i \in 1 .. Len(response'.buf) : response'.buf[i] = answer'[Passed' + i]
    BY <1>1, <1>8, <1>9, <1>10
  <2>3. /\ response'.state = "RESPONSE_LINE" => Passed' = 0
        /\ response'.state = "HEADERS" => Passed' >= 2 /\ EndAt(answer', Passed' - 1)
    BY <1>1, <1>2, <1>9 DEF ResponseInv, BufferInv
  <2> QED BY <1>8, <2>1, <2>2, <2>3 DEF BufferInv
<1>14. PassedInv'
  <2>1. response'.taken + response'.len = arrived'
    BY <1>1, <1>2, ReadingFacts DEF ResponseInv, PassedInv
  <2>2. /\ \A m \in 4 .. Passed' : ~ BlankAt(m)'
        /\ (\E m \in 3 .. Passed' : LengthAt(m)') <=> \E m \in 3 .. Passed : LengthAt(m)
    BY <1>1, <1>9 DEF ResponseInv, PassedInv, BlankAt, LengthAt, EndAt
  <2>3. response'.header_bytes >= Passed'
    BY <1>1, <1>2, <1>9 DEF ResponseInv, PassedInv
  <2> QED BY <1>1, <1>2, <2>1, <2>2, <2>3 DEF ResponseInv, PassedInv
<1>15. ~ headers_ready'
  BY <1>12 DEF headers_ready, Reading
<1> QED BY <1>11, <1>12, <1>13, <1>14, <1>15 DEF ResponseInv, HeadersReadInv

\* After an error nothing is claimed of the header.
LEMMA FailsKeeps ==
  ASSUME ResponseInv, ResponseFails
  PROVE  ResponseInv'
<1>1. response'.state = "failed" /\ response'.len = 0 /\ answer' = answer /\ arrived' = arrived
  BY DEF ResponseFails, ResponseInv, ResponseTypeOK, ResponseState
<1>2. ResponseTypeOK'
  <2>1. response' \in ResponseState
    <3>1. "failed" \in States
      BY DEF States
    <3>2. response \in ResponseState
      BY DEF ResponseInv, ResponseTypeOK
    <3>3. response' = [response EXCEPT !.state = "failed", !.len = 0]
      BY DEF ResponseFails
    <3>4. PICK st \in States, l \in Int : st = "failed" /\ l = 0
      BY <3>1
    <3>5. [response EXCEPT !.state = st, !.len = l] \in ResponseState
      BY <3>1, <3>2, <3>4, FailedType
    <3> QED BY <3>3, <3>4, <3>5
  <2> QED BY <1>1, <2>1 DEF ResponseInv, ResponseTypeOK
<1>3. ~ Reading' /\ ~ headers_ready'
  BY <1>1 DEF Reading, headers_ready
<1> QED BY <1>1, <1>2, <1>3 DEF ResponseInv, BufferInv, PassedInv, HeadersReadInv

\* The rest of a line stays in m_buf.
LEMMA OutOfBytesKeeps ==
  ASSUME ResponseInv, OutOfBytes
  PROVE  ResponseInv'
<1>1. Reading /\ Ends = {} /\ answer' = answer /\ arrived' = arrived
  BY DEF OutOfBytes, Consuming, Reading
<1>2. LineEnd = Len(response.buf) /\ Sizeof = 3
  BY <1>1, EndType DEF LineEnd, Sizeof
<1>3. /\ response'.buf = response.buf /\ response'.len = 0 /\ response'.state = response.state
      /\ response'.read = response.read
      /\ response'.header_bytes = response.header_bytes + Len(response.buf) + 3 - Len(response.buf)
      /\ response'.taken = response.taken + response.len
  BY <1>2 DEF OutOfBytes, ResponseInv, ResponseTypeOK, ResponseState, Counted
<1>4. response'.header_bytes = response.header_bytes + 3
  BY <1>1, <1>3, ReadingFacts
<1>5. response' \in ResponseState
  <2>1. PICK h, t : h = Counted - Len(response.buf) /\ t = response.taken + response.len
    OBVIOUS
  <2>2. h \in Int /\ t \in Int
    <3>1. Counted = response.header_bytes + Len(response.buf) + 3
      BY <1>2 DEF Counted
    <3>2. Len(response.buf) \in Nat /\ response.header_bytes \in Int
          /\ response.taken \in Int /\ response.len \in Int
      BY <1>1, ReadingFacts
    <3>3. Counted \in Int
      BY <3>1, <3>2
    <3> QED BY <2>1, <3>2, <3>3
  <2>3. response' = [response EXCEPT !.header_bytes = h, !.taken = t, !.len = 0]
    BY <2>1 DEF OutOfBytes
  <2>4. response \in ResponseState
    BY DEF ResponseInv, ResponseTypeOK
  <2>5. PICK l \in Int : l = 0
    OBVIOUS
  <2>6. [response EXCEPT !.header_bytes = h, !.taken = t, !.len = l] \in ResponseState
    BY <2>2, <2>4, <2>5, RestType
  <2> QED BY <2>3, <2>5, <2>6
<1>6. ResponseTypeOK'
  BY <1>1, <1>5 DEF ResponseInv, ResponseTypeOK
<1>7. Reading' /\ Passed' = Passed /\ Ends' = Ends
  BY <1>1, <1>3 DEF Reading, Passed, Ends
<1>8. BufferInv'
  BY <1>1, <1>3, <1>7 DEF ResponseInv, BufferInv, EndAt
<1>9. PassedInv'
  <2>1. response'.taken + response'.len = arrived'
    BY <1>1, <1>3, ReadingFacts DEF ResponseInv, PassedInv
  <2>2. /\ \A m \in 4 .. Passed' : ~ BlankAt(m)'
        /\ (\E m \in 3 .. Passed' : LengthAt(m)') <=> \E m \in 3 .. Passed : LengthAt(m)
    BY <1>1, <1>7 DEF ResponseInv, PassedInv, BlankAt, LengthAt, EndAt
  <2>3. response'.header_bytes >= Passed'
    BY <1>1, <1>4, <1>7, ReadingFacts DEF ResponseInv, PassedInv
  <2> QED BY <1>1, <1>3, <1>7, <2>1, <2>2, <2>3 DEF ResponseInv, PassedInv
<1>10. ~ headers_ready'
  BY <1>7 DEF headers_ready, Reading
<1> QED BY <1>6, <1>7, <1>8, <1>9, <1>10 DEF ResponseInv, HeadersReadInv

\* Up to the first line's end no blank line ends, unless it is blank itself.
LEMMA NoBlankInLine ==
  ASSUME ResponseInv, Reading, NEW k \in Nat, Passed + k <= arrived - 2,
         \A n \in Ends : k <= n
  PROVE  \A n \in 4 .. Passed + k + 2 : n < Passed + k + 2 \/ k > 0 => ~ BlankAt(n)
<1>1. PICK p : p = Passed
  OBVIOUS
<1>2. p \in Nat /\ arrived \in Nat
  BY <1>1, ReadingFacts
<1>3. ASSUME NEW n \in Int, p <= n, n < p + k PROVE ~ EndAt(answer, n + 1)
  BY <1>1, <1>2, <1>3, NoEndBefore
<1>4. p > 0 => ~ EndAt(answer, p)
  BY <1>1, NoneAcross
<1>5. SUFFICES ASSUME NEW n \in 4 .. p + k + 2, n < p + k + 2 \/ k > 0, BlankAt(n)
      PROVE  FALSE
  BY <1>1
<1>6. EndAt(answer, n - 3) /\ EndAt(answer, n - 1)
  BY <1>5 DEF BlankAt
<1>7. CASE n <= p
  <2>1. n \in 4 .. Passed
    BY <1>1, <1>2, <1>7
  <2> QED BY <1>5, <2>1 DEF ResponseInv, PassedInv
<1>8. CASE n = p + 1
  <2>1. n - 1 = p /\ p > 0
    BY <1>2, <1>8
  <2> QED BY <1>4, <1>6, <2>1
<1>9. CASE p + 2 <= n /\ n < p + k + 2
  <2>1. n - 2 \in Int /\ p <= n - 2 /\ n - 2 < p + k /\ (n - 2) + 1 = n - 1
    BY <1>2, <1>9
  <2> QED BY <1>3, <1>6, <2>1
<1>10. CASE n = p + k + 2 /\ k >= 2
  <2>1. n - 4 \in Int /\ p <= n - 4 /\ n - 4 < p + k /\ (n - 4) + 1 = n - 3
    BY <1>2, <1>10
  <2> QED BY <1>3, <1>6, <2>1
<1>11. CASE n = p + k + 2 /\ k = 1
  <2>1. n - 3 = p /\ p > 0
    BY <1>2, <1>11
  <2> QED BY <1>4, <1>6, <2>1
<1>12. CASE n = p + k + 2 /\ k = 0
  BY <1>5, <1>12, <1>2
<1> QED BY <1>2, <1>7, <1>8, <1>9, <1>10, <1>11, <1>12

\* A Content-Length header begins only where a line does.
LEMMA LengthInLine ==
  ASSUME ResponseInv, Reading, NEW k \in Nat, Passed + k <= arrived - 2,
         \A n \in Ends : k <= n, NEW n \in 3 .. Passed + k + 2, n > Passed, LengthAt(n)
  PROVE  Passed > 0 /\ answer[Passed + 1] = "length"
<1>1. PICK p : p = Passed
  OBVIOUS
<1>2. p \in Nat /\ arrived \in Nat
  BY <1>1, ReadingFacts
<1>3. EndAt(answer, n - 2) /\ answer[n] = "length"
  BY DEF LengthAt
<1>4. CASE n = p + 1
  BY <1>1, <1>2, <1>3, <1>4
<1>5. CASE n = p + 2
  <2>1. n - 2 = p /\ p > 0
    BY <1>2, <1>5
  <2> QED BY <1>1, <1>3, <2>1, NoneAcross
<1>6. CASE n >= p + 3
  <2>1. n - 3 \in Int /\ p <= n - 3 /\ n - 3 < p + k /\ (n - 3) + 1 = n - 2
    BY <1>1, <1>2, <1>6
  <2>2. ~ EndAt(answer, (n - 3) + 1)
    BY <1>1, <1>2, <2>1, NoEndBefore
  <2> QED BY <1>3, <2>1, <2>2
<1> QED BY <1>1, <1>2, <1>4, <1>5, <1>6

\* Where a line begins behind another, a Content-Length header may.
LEMMA LengthBegins ==
  ASSUME ResponseInv, Reading, Passed > 0, answer[Passed + 1] = "length"
  PROVE  LengthAt(Passed + 1) /\ Passed + 1 >= 3
<1>1. response.state = "HEADERS"
  BY DEF ResponseInv, BufferInv, Reading
<1>2. EndAt(answer, Passed - 1) /\ Passed >= 2 /\ Passed \in Nat
  BY <1>1, ReadingFacts DEF ResponseInv, BufferInv
<1>3. (Passed + 1) - 2 = Passed - 1 /\ Passed + 1 >= 3
  BY <1>2
<1> QED BY <1>2, <1>3 DEF LengthAt

\* The first end in m_buf is an end in the answer.
LEMMA LineEndFacts ==
  ASSUME ResponseInv, Reading, Ends # {}
  PROVE  /\ LineEnd \in Nat /\ \A n \in Ends : LineEnd <= n
         /\ LineEnd <= Len(response.buf) - 2 /\ Passed + LineEnd <= arrived - 2
         /\ EndAt(answer, Passed + LineEnd + 1)
<1>1. PICK k, p, l : k = LineEnd /\ p = Passed /\ l = Len(response.buf)
  OBVIOUS
<1>2. k \in Nat /\ k \in Ends /\ \A n \in Ends : k <= n
  BY <1>1, FirstEnd, ReadingFacts
<1>3. p \in Nat /\ l \in Nat /\ p + l = arrived
  BY <1>1, ReadingFacts
<1>4. k \in 0 .. l - 2 /\ EndAt(response.buf, k + 1)
  BY <1>1, <1>2, EndsBytes, ReadingFacts
<1>5. k + 1 \in 1 .. l /\ k + 2 \in 1 .. l /\ p + (k + 1) = p + k + 1
      /\ p + (k + 2) = (p + k + 1) + 1 /\ (k + 1) + 1 = k + 2 /\ p + k <= arrived - 2
  BY <1>3, <1>4
<1>6. response.buf[k + 1] = answer[p + (k + 1)] /\ response.buf[k + 2] = answer[p + (k + 2)]
  BY <1>1, <1>5 DEF ResponseInv, BufferInv
<1>7. EndAt(answer, p + k + 1)
  BY <1>4, <1>5, <1>6 DEF EndAt
<1> QED BY <1>1, <1>2, <1>4, <1>5, <1>7

\* What lies behind a line is the rest of m_buf.
LEMMA RestOf ==
  ASSUME ResponseInv, Reading, NEW k \in Nat, k <= Len(response.buf) - 2
  PROVE  LET c == SubSeq(response.buf, k + 3, Len(response.buf))
         IN /\ c \in Seq(Piece) /\ Len(c) = Len(response.buf) - k - 2
            /\ \A i \in 1 .. Len(c) : c[i] = answer[Passed + k + 2 + i]
<1>1. PICK S, b, l, p : S = Piece /\ b = response.buf /\ l = Len(b) /\ p = Passed
  OBVIOUS
<1>2. b \in Seq(S) /\ l \in Nat /\ l = Len(b) /\ k <= l - 2 /\ p \in Nat
  BY <1>1, ReadingFacts
<1>3. PICK c : c = SubSeq(b, k + 3, l)
  OBVIOUS
<1>4. ASSUME NEW i \in k + 3 .. l PROVE b[i] \in S
  <2>1. i \in 1 .. Len(b)
    BY <1>2
  <2> QED BY <1>2, <2>1, ElementOfSeq
<1>5. /\ c \in Seq(S) /\ Len(c) = IF k + 3 <= l THEN l - (k + 3) + 1 ELSE 0
      /\ \A i \in 1 .. l - (k + 3) + 1 : c[i] = b[k + 3 + i - 1]
  <2>1. k + 3 \in Int /\ l \in Int
    BY <1>2
  <2> QED BY <1>3, <1>4, <2>1, SubSeqProperties
<1>6. Len(c) = l - k - 2
  BY <1>2, <1>5
<1>7. ASSUME NEW i \in 1 .. Len(c) PROVE c[i] = answer[p + k + 2 + i]
  <2>1. /\ i \in 1 .. l - (k + 3) + 1 /\ k + 3 + i - 1 = k + 2 + i /\ k + 2 + i \in 1 .. l
        /\ p + (k + 2 + i) = p + k + 2 + i
    BY <1>2, <1>6
  <2>2. c[i] = b[k + 2 + i]
    BY <1>5, <2>1
  <2>3. b[k + 2 + i] = answer[p + (k + 2 + i)]
    BY <1>1, <2>1 DEF ResponseInv, BufferInv
  <2> QED BY <2>1, <2>2, <2>3
<1> QED BY <1>1, <1>3, <1>5, <1>6, <1>7

\* A line is passed: it is not blank, and what it says of the body is kept.
LEMMA LineKeeps ==
  ASSUME ResponseInv, Line
  PROVE  ResponseInv'
<1> DEFINE line == SubSeq(response.buf, 1, LineEnd)
           fits == IF response.state = "RESPONSE_LINE" THEN Status(line) ELSE Header(line)
<1>1. /\ Reading /\ response.len > 0 /\ Ends # {} /\ LineEnd > 0
  BY DEF Line, Consuming, Reading
<1>2. CASE ~ fits
  <2>1. ResponseFails
    BY <1>2 DEF Line
  <2> QED BY <2>1, FailsKeeps
<1>3. CASE fits
  <2>1. PICK k, p : k = LineEnd /\ p = Passed
    OBVIOUS
  <2>2. /\ k \in Nat /\ k > 0 /\ k <= Len(response.buf) - 2 /\ p + k <= arrived - 2
        /\ EndAt(answer, p + k + 1) /\ \A n \in Ends : k <= n
    BY <1>1, <2>1, LineEndFacts
  <2>3. /\ p \in Nat /\ arrived \in Nat /\ Len(response.buf) \in Nat
        /\ p + Len(response.buf) = arrived /\ response.buf \in Seq(Piece)
        /\ response.header_bytes \in Int
    BY <1>1, <2>1, ReadingFacts
  <2>4. PICK c : c = SubSeq(response.buf, k + 3, Len(response.buf))
    OBVIOUS
  <2>5. /\ c \in Seq(Piece) /\ Len(c) = Len(response.buf) - k - 2
        /\ \A i \in 1 .. Len(c) : c[i] = answer[p + k + 2 + i]
    BY <1>1, <2>1, <2>2, <2>4, RestOf
  <2>6. line[1] = answer[p + 1]
    <3>1. 1 \in 1 .. k /\ k \in Int /\ 1 \in 1 .. Len(response.buf)
      BY <2>2, <2>3
    <3>2. \A i \in 1 .. k : response.buf[i] \in Piece
      BY <2>2, <2>3
    <3>3. SubSeq(response.buf, 1, k)[1] = response.buf[1]
      BY <3>1, <3>2
    <3>4. response.buf[1] = answer[p + 1]
      BY <1>1, <2>1, <3>1 DEF ResponseInv, BufferInv
    <3> QED BY <2>1, <3>3, <3>4
  <2>7. PICK h, d : /\ h = Counted
                    /\ d = IF line[1] = "length" THEN BodyLength ELSE response.read
    OBVIOUS
  <2>8. h = response.header_bytes + k + 3 /\ h \in Int /\ d \in Int
    <3>1. h = response.header_bytes + k + 3
      BY <2>1, <2>7, EndType DEF Counted, Sizeof
    <3>2. response.read \in Int /\ BodyLength \in Int
      BY <1>1, ReadingFacts DEF BodyLength
    <3> QED BY <2>2, <2>3, <2>7, <3>1, <3>2
  <2>9. /\ response' = [response EXCEPT !.state = "HEADERS", !.header_bytes = h, !.read = d,
                                        !.buf = c]
        /\ answer' = answer /\ arrived' = arrived
    BY <1>3, <2>1, <2>4, <2>7 DEF Line
  <2>10. response \in ResponseState
    BY DEF ResponseInv, ResponseTypeOK
  <2>11. /\ response'.state = "HEADERS" /\ response'.header_bytes = h /\ response'.read = d
         /\ response'.buf = c /\ response'.len = response.len
         /\ response'.taken = response.taken
    BY <2>9, <2>10 DEF ResponseState
  <2>12. ResponseTypeOK'
    <3>1. PICK st \in States : st = "HEADERS"
      BY DEF States
    <3>2. [response EXCEPT !.state = st, !.header_bytes = h, !.read = d, !.buf = c]
            \in ResponseState
      BY <2>5, <2>8, <2>10, LineType
    <3> QED BY <2>9, <3>1, <3>2 DEF ResponseInv, ResponseTypeOK
  <2>13. Reading' /\ ~ headers_ready'
    BY <2>11 DEF Reading, headers_ready
  <2>14. Passed' = p + k + 2
    <3>1. Passed' = arrived - Len(c)
      BY <2>9, <2>11 DEF Passed
    <3>2. PICK l, m : l = Len(response.buf) /\ m = Len(c)
      OBVIOUS
    <3>3. l \in Nat /\ p + l = arrived /\ m = l - k - 2
      BY <2>3, <2>5, <3>2
    <3>4. arrived - m = p + k + 2
      BY <2>2, <2>3, <3>3
    <3> QED BY <3>1, <3>2, <3>4
  <2>15. BufferInv'
    <3>1. Len(c) <= arrived
      BY <2>2, <2>3, <2>5
    <3>2. Passed' >= 2 /\ Passed' - 1 = p + k + 1
      BY <2>2, <2>3, <2>14
    <3>3. EndAt(answer', Passed' - 1)
      BY <2>2, <2>9, <3>2
    <3>4. \A i \in 1 .. Len(response'.buf) : response'.buf[i] = answer'[Passed' + i]
      BY <2>5, <2>9, <2>11, <2>14
    <3> QED BY <2>9, <2>11, <3>1, <3>2, <3>3, <3>4 DEF BufferInv
  <2>16. \A n \in 4 .. Passed' : ~ BlankAt(n)'
    <3>1. \A n \in 4 .. p + k + 2 : ~ BlankAt(n)
      BY <1>1, <2>1, <2>2, NoBlankInLine
    <3> QED BY <2>9, <2>14, <3>1 DEF BlankAt, EndAt
  <2>17. d = IF \E n \in 3 .. p + k + 2 : LengthAt(n) THEN BodyLength ELSE 0
    <3>1. response.read = IF \E n \in 3 .. p : LengthAt(n) THEN BodyLength ELSE 0
      BY <1>1, <2>1 DEF ResponseInv, PassedInv
    <3>2. CASE line[1] = "length"
      <4>1. p > 0
        <5>1. response.state # "RESPONSE_LINE"
          BY <1>3, <3>2 DEF Status
        <5> QED BY <1>1, <2>1, <2>3, <5>1 DEF Reading, ResponseInv, BufferInv
      <4>2. LengthAt(p + 1) /\ p + 1 \in 3 .. p + k + 2
        BY <1>1, <2>1, <2>2, <2>3, <2>6, <3>2, <4>1, LengthBegins
      <4> QED BY <2>7, <3>2, <4>2
    <3>3. CASE line[1] # "length"
      <4>1. ASSUME NEW n \in 3 .. p + k + 2, LengthAt(n) PROVE n \in 3 .. p
        <5>1. ~ (n > p)
          BY <1>1, <2>1, <2>2, <2>6, <3>3, <4>1, LengthInLine
        <5> QED BY <2>2, <2>3, <5>1
      <4>2. 3 .. p \subseteq 3 .. p + k + 2
        BY <2>2, <2>3
      <4>3. (\E n \in 3 .. p + k + 2 : LengthAt(n)) <=> \E n \in 3 .. p : LengthAt(n)
        BY <4>1, <4>2
      <4> QED BY <2>7, <3>1, <3>3, <4>3
    <3> QED BY <3>2, <3>3
  <2>18. PassedInv'
    <3>1. response'.read = IF \E n \in 3 .. Passed' : LengthAt(n)' THEN BodyLength ELSE 0
      BY <2>9, <2>11, <2>14, <2>17 DEF LengthAt, EndAt
    <3>2. response'.header_bytes >= Passed'
      <4>1. response.header_bytes >= p
        BY <1>1, <2>1 DEF ResponseInv, PassedInv
      <4> QED BY <2>2, <2>3, <2>8, <2>11, <2>14, <4>1
    <3>3. response'.taken + response'.len = arrived' /\ response'.len > 0
      BY <1>1, <2>9, <2>11 DEF ResponseInv, PassedInv
    <3>4. response'.len # 0
      BY <1>1, <2>11
    <3> QED BY <2>16, <3>1, <3>2, <3>3, <3>4 DEF PassedInv
  <2> QED BY <2>12, <2>13, <2>15, <2>18 DEF ResponseInv, HeadersReadInv
<1> QED BY <1>2, <1>3

\* The blank line: the header is ready, and what is left of the read is counted.
LEMMA BlankLineKeeps ==
  ASSUME ResponseInv, BlankLine
  PROVE  ResponseInv'
<1>1. Reading /\ Ends # {} /\ LineEnd = 0 /\ Counted <= MaxHeader
  BY DEF BlankLine, Consuming, Reading
<1>2. CASE response.state = "RESPONSE_LINE"
  <2>1. ResponseFails
    BY <1>2 DEF BlankLine
  <2> QED BY <2>1, FailsKeeps
<1>3. CASE response.state # "RESPONSE_LINE"
  <2>1. PICK p, l : p = Passed /\ l = Len(response.buf)
    OBVIOUS
  <2>2. /\ p \in Nat /\ l \in Nat /\ p + l = arrived /\ arrived \in Nat /\ arrived <= Len(answer)
        /\ answer \in Seq(Piece) /\ response.header_bytes \in Int /\ response.len \in Int
        /\ response.taken \in Int /\ response.read \in Int
    BY <1>1, <2>1, ReadingFacts
  <2>3. /\ 0 <= l - 2 /\ p + 0 <= arrived - 2 /\ EndAt(answer, p + 1) /\ \A n \in Ends : 0 <= n
    BY <1>1, <2>1, <2>2, LineEndFacts
  <2>4. p >= 2 /\ EndAt(answer, p - 1)
    BY <1>1, <1>3, <2>1 DEF ResponseInv, BufferInv, Reading
  <2>5. /\ response.read = IF \E n \in 3 .. p : LengthAt(n) THEN BodyLength ELSE 0
        /\ response.header_bytes >= p /\ response.taken + response.len = arrived
    BY <1>1, <2>1 DEF ResponseInv, PassedInv
  <2>6. HeaderEnd = p + 2
    <3>1. (p + 2) - 3 = p - 1 /\ (p + 2) - 1 = p + 1 /\ p + 2 \in 4 .. arrived
      BY <2>2, <2>3, <2>4
    <3>2. BlankAt(p + 2)
      BY <2>3, <2>4, <3>1 DEF BlankAt
    <3>3. ASSUME NEW n \in 4 .. (p + 2) - 1 PROVE ~ BlankAt(n)
      <4>1. 0 \in Nat /\ n \in 4 .. Passed + 0 + 2 /\ n < Passed + 0 + 2
        BY <2>1, <2>2
      <4>2. \A m \in 4 .. Passed + 0 + 2 : m < Passed + 0 + 2 \/ 0 > 0 => ~ BlankAt(m)
        BY <1>1, <2>1, <2>3, <4>1, NoBlankInLine
      <4> QED BY <4>1, <4>2
    <3> QED BY <3>1, <3>2, <3>3, FirstBlank DEF ResponseInv
  <2>7. LengthGiven <=> \E n \in 3 .. p : LengthAt(n)
    <3>1. HeaderEnd \in 0 .. arrived
      BY <2>2, <2>3, <2>6
    <3>2. LengthGiven <=> \E n \in 3 .. p + 2 : LengthAt(n)
      BY <2>6, <3>1, LengthBytes DEF ResponseInv
    <3>3. ASSUME NEW n \in 3 .. p + 2, LengthAt(n) PROVE n \in 3 .. p
      <4>1. answer[n] = "length" /\ answer[p + 1] = "CR" /\ answer[(p + 1) + 1] = "LF"
        BY <2>3, <3>3 DEF LengthAt, EndAt
      <4>2. (p + 1) + 1 = p + 2
        BY <2>2
      <4>3. n # p + 1 /\ n # p + 2
        BY <4>1, <4>2
      <4> QED BY <2>2, <4>3
    <3>4. 3 .. p \subseteq 3 .. p + 2
      BY <2>2
    <3> QED BY <3>2, <3>3, <3>4
  <2>8. PICK read, body : /\ read = response.len - l + Len(End)
                          /\ body = IF response.len - read < response.read
                                      THEN response.len - read ELSE response.read
    OBVIOUS
  <2>9. /\ read = response.len - l + 2 /\ body \in Int /\ read \in Int
        /\ body \in 0 .. BodyLength /\ BodyLength = 1
    <3>1. BodyLength = 1 /\ response.read \in 0 .. 1
      BY <2>5 DEF BodyLength
    <3>2. read = response.len - l + 2
      BY <2>8, EndType
    <3>3. response.len - read >= 0
      BY <2>2, <2>3, <3>2
    <3> QED BY <2>2, <2>8, <3>1, <3>2, <3>3
  <2>10. PICK st, d, t, h :
           /\ st = IF read < response.len /\ body = response.read THEN "DONE" ELSE "BODY"
           /\ d = response.read - body /\ t = response.taken + (read + body) /\ h = Counted
    OBVIOUS
  <2>10a. PICK taken, len, left : /\ taken = response.taken /\ len = response.len
                                /\ left = response.read
    OBVIOUS
  <2>10b. /\ taken \in Int /\ len \in Int /\ left \in Int /\ taken + len = arrived
        /\ d = left - body /\ t = taken + (read + body) /\ read = len - l + 2
    BY <2>2, <2>5, <2>9, <2>10, <2>10a
  <2>11. /\ st \in States /\ st \in {"BODY", "DONE"} /\ d \in Int /\ t \in Int /\ h \in Int
         /\ t = p + 2 + body
    <3>1. st \in States /\ st \in {"BODY", "DONE"}
      BY <2>10 DEF States
    <3>2. d \in Int /\ t \in Int
      BY <2>2, <2>9, <2>10b
    <3>3. h \in Int
      BY <1>1, <2>2, <2>10, EndType DEF Counted, Sizeof
    <3>4. t = p + 2 + body
      <4>1. taken + len = p + l
        BY <2>2, <2>10b
      <4>2. t = taken + (len - l + 2 + body)
        BY <2>9, <2>10b
      <4>3. taken \in Int /\ len \in Int
        BY <2>10b
      <4> QED BY <2>2, <2>9, <4>1, <4>2, <4>3
    <3> QED BY <3>1, <3>2, <3>3, <3>4
  <2>12. /\ response' = [response EXCEPT !.state = st, !.header_bytes = h, !.buf = <<>>,
                                         !.len = 0, !.read = d, !.taken = t]
         /\ answer' = answer /\ arrived' = arrived
    <3>1. response.read - body = d /\ Counted = h
      BY <2>10
    <3>2. response.taken + read + body = t
      <4>1. taken + read + body = taken + (read + body)
        BY <2>9, <2>10b
      <4> QED BY <2>10a, <2>10b, <4>1
    <3> QED BY <1>3, <2>1, <2>8, <2>10, <3>1, <3>2 DEF BlankLine
  <2>13. response \in ResponseState
    BY DEF ResponseInv, ResponseTypeOK
  <2>14. /\ response'.state = st /\ response'.read = d /\ response'.taken = t
         /\ response'.len = 0
    BY <2>12, <2>13 DEF ResponseState
  <2>15. ResponseTypeOK'
    <3>1. PICK b, n : b = <<>> /\ n = 0
      OBVIOUS
    <3>a. b \in Seq(Piece) /\ n \in Int
      BY <3>1
    <3>2. [response EXCEPT !.state = st, !.header_bytes = h, !.buf = b, !.len = n, !.read = d,
                           !.taken = t] \in ResponseState
      BY <2>11, <2>13, <3>a, ReadyType
    <3>3. response' \in ResponseState
      BY <2>12, <3>1, <3>2
    <3> QED BY <2>12, <3>3 DEF ResponseInv, ResponseTypeOK
  <2>16. ~ Reading'
    BY <2>11, <2>14 DEF Reading
  <2>17. HeaderEnd' = HeaderEnd /\ (LengthGiven' <=> LengthGiven) /\ arrived' = arrived
    BY <2>12 DEF HeaderEnd, LengthGiven
  <2>18. FramesFollowHeader'
    <3>1. arrived - HeaderEnd = response.len - read
      BY <2>2, <2>6, <2>9
    <3>2. response.len - read \in Nat
      BY <2>2, <2>3, <2>9
    <3>3. response.read = IF LengthGiven THEN BodyLength ELSE 0
      BY <2>5, <2>7
    <3>4. body = BodyArrived
      <4>1. PICK rest, room : rest = response.len - read /\ room = response.read
        OBVIOUS
      <4>2. rest \in Nat /\ room = (IF LengthGiven THEN 1 ELSE 0) /\ arrived - HeaderEnd = rest
        BY <2>9, <3>1, <3>2, <3>3, <4>1
      <4>3. body = IF rest < room THEN rest ELSE room
        BY <2>8, <4>1
      <4>4. BodyArrived = IF ~LengthGiven THEN 0 ELSE IF rest >= 1 THEN 1 ELSE rest
        BY <2>9, <4>2 DEF BodyArrived
      <4> QED BY <4>2, <4>3, <4>4
    <3>5. HeaderEnd' # 0 /\ BodyArrived' = BodyArrived
      BY <2>2, <2>4, <2>6, <2>17 DEF BodyArrived
    <3>6. t = HeaderEnd + BodyArrived
      BY <2>6, <2>11, <3>4
    <3> QED BY <2>14, <2>16, <2>17, <3>5, <3>6 DEF FramesFollowHeader, Reading
  <2>19. HeaderEnd' <= MaxHeader
    <3>1. response.header_bytes + 0 + 3 <= MaxHeader
      BY <1>1, EndType DEF Counted, Sizeof
    <3> QED BY <2>2, <2>5, <2>6, <2>17, <3>1, ResponseAssumption
  <2>20. answer' # <<>>
    BY <2>2, <2>3, <2>12
  <2> QED BY <2>14, <2>15, <2>16, <2>18, <2>19, <2>20
          DEF ResponseInv, BufferInv, PassedInv, HeadersReadInv
<1> QED BY <1>2, <1>3

\* What is sent, read and consumed keeps the invariant.
LEMMA StepKeeps ==
  ASSUME ResponseInv, [ResponseNext]_responseVars
  PROVE  ResponseInv'
<1>1. CASE Answer
  BY <1>1, AnswerKeeps
<1>2. ASSUME NEW n \in 1 .. MaxChunk, ReadResponse(n) PROVE ResponseInv'
  BY <1>2, ReadKeeps
<1>3. CASE TooLarge
  BY <1>3, FailsKeeps DEF TooLarge
<1>4. CASE OutOfBytes
  BY <1>4, OutOfBytesKeeps
<1>5. CASE Line
  BY <1>5, LineKeeps
<1>6. CASE BlankLine
  BY <1>6, BlankLineKeeps
<1>7. CASE UNCHANGED responseVars
  BY <1>7 DEF responseVars, ResponseInv, ResponseTypeOK, BufferInv, PassedInv, HeadersReadInv, Reading,
              Passed, BlankAt, LengthAt, EndAt, headers_ready, Ends, FramesFollowHeader, BodyArrived,
              HeaderEnd, LengthGiven
<1> QED BY <1>1, <1>2, <1>3, <1>4, <1>5, <1>6, <1>7 DEF ResponseNext
-----------------------------------------------------------------------------
(* The theorems. *)

\* What is behind m_buf has been looked at, without a blank line in it.
THEOREM ResponseInvariant == ResponseSpec => []ResponseInv
<1> QED BY InitEstablishes, StepKeeps, PTL DEF ResponseSpec

\* For every answer, cut into reads in every way: the header is ready with the read
\* that completes its first blank line and not before, and what consume leaves of
\* that read begins behind the header and what arrived of its body
\* (handle_read_http_response).
THEOREM FramesFollow == ResponseSpec => []FramesFollowHeader
<1> QED BY ResponseInvariant, InvImplies, PTL

\* For every limit: no header that is accepted is longer, and m_header_bytes counts no
\* byte of it too few, in however many reads it comes.
THEOREM HeaderLimit == ResponseSpec => []HeaderBounded
<1> QED BY ResponseInvariant, InvImplies, PTL
-----------------------------------------------------------------------------
(* The frames. *)

\* What a frame is made of.
LEMMA FrameType ==
  ASSUME NEW f \in Whole!Frame
  PROVE  /\ f # None /\ f.payload \in Seq(Byte) /\ Len(f.payload) \in Nat
         /\ f.fin \in BOOLEAN /\ f.op \in Whole!Opcodes /\ f.flaw \in Whole!Flaws
         /\ f.form \in Whole!Forms
<1>1. f # None
  BY NoneAssumption
<1>2. /\ f.payload \in Whole!BoundedSeq(PayloadBytes, MaxPayload)
      /\ f.fin \in BOOLEAN /\ f.op \in Whole!Opcodes /\ f.flaw \in Whole!Flaws
      /\ f.form \in Whole!Forms
  BY DEF Whole!Frame
<1>3. PICK m \in 0 .. MaxPayload : f.payload \in [1 .. m -> PayloadBytes]
  BY <1>2, FramesAssumption DEF Whole!BoundedSeq, Whole!SeqOf
<1>4. f.payload \in [1 .. m -> Byte]
  BY <1>3, FramesAssumption
<1>5. f.payload \in Seq(Byte)
  BY <1>4
<1> QED BY <1>1, <1>2, <1>5

\* The reader of whole frames has the same automaton.
LEMMA SameDecoded ==
  ASSUME NEW s, NEW t PROVE Whole!Decoded(s, t) = Decoded(s, t)
BY DEF Whole!Decoded, Decoded, Whole!Decode, Decode, Whole!After, After, Whole!Class, Class

-----------------------------------------------------------------------------
\* The payload of the frame goes into a message.
Taking == m_state \in {"APPLICATION", "READY"}

\* How many of its bytes have.
Done == Len(frame.payload) - m_bytes_needed

FramesTypeOK ==
  /\ frame \in Whole!Frame \cup {None}
  /\ avail \in Nat /\ m_bytes_needed \in Nat
  /\ m_state \in {"HEADER_BASIC", "HEADER_EXTENDED", "APPLICATION", "READY"}
  /\ msg \in [data : Message \cup {None}, control : Message \cup {None}]
  /\ m_current_msg \in {"data", "control"}

\* A frame whose header is behind the processor has passed its checks.
HeaderInv ==
  /\ frame = None => m_state = "HEADER_BASIC"
  /\ frame # None => handed = None
  /\ m_state = "HEADER_EXTENDED" => validate_incoming_basic_header(frame)
  /\ Taking => /\ frame.flaw = "none" /\ frame.op # "reserved"
               /\ IsControl(frame) => frame.fin /\ frame.form = "7bit"
               /\ validate_incoming_extended_header(frame)
               /\ m_bytes_needed <= Len(frame.payload)

\* The validator of the data message has seen all of its bytes.
DataInv ==
  msg.data # None =>
    /\ msg.data.op \in {"text", "binary"} /\ msg.data.utf8 # utf8_reject
    /\ msg.data.utf8 = IF msg.data.op = "text" THEN Decoded(utf8_accept, msg.data.payload)
                                               ELSE utf8_accept

ControlInv ==
  Taking /\ IsControl(frame) =>
    /\ m_current_msg = "control" /\ msg.control # None
    /\ msg.control.op = "control" /\ msg.control.utf8 = utf8_accept
    /\ msg.control.payload = SubSeq(frame.payload, 1, Done)

\* The data message is the one begun, prior, and what has been read of the frame.
PartInv ==
  Taking /\ ~IsControl(frame) =>
    /\ m_current_msg = "data" /\ msg.data # None
    /\ \E prior \in Seq(Byte) :
         /\ msg.data.payload = prior \o SubSeq(frame.payload, 1, Done)
         /\ Len(prior) + Len(frame.payload) <= MaxMessage
         /\ frame.op # "continuation" => prior = <<>> /\ msg.data.op = frame.op

ReadyInv ==
  m_state = "READY" =>
    /\ m_bytes_needed = 0 /\ frame.fin /\ ec = "none"
    /\ frame.op = "text" => msg.data.utf8 = utf8_accept

FramesInv == FramesTypeOK /\ HeaderInv /\ DataInv /\ ControlInv /\ PartInv /\ ReadyInv
-----------------------------------------------------------------------------
\* A data message as the whole-frame reader knows it.
Begun(m) == IF m = None THEN None ELSE [op |-> m.op, payload |-> m.payload]

\* Partial of any state.
PartialOf(st, f, needed, m) ==
  IF m # None /\ st \in {"APPLICATION", "READY"} /\ ~IsControl(f)
    THEN IF f.op # "continuation" THEN None
         ELSE [op |-> m.op,
               payload |-> SubSeq(m.payload, 1, Len(m.payload) - (Len(f.payload) - needed))]
    ELSE Begun(m)

LEMMA PartialIs ==
  /\ Partial = PartialOf(m_state, frame, m_bytes_needed, msg.data)
  /\ Partial' = PartialOf(m_state', frame', m_bytes_needed', msg'.data)
BY DEF Partial, PartialOf, Begun

LEMMA MessageType ==
  ASSUME NEW m \in Message
  PROVE  /\ m # None /\ m.payload \in Seq(Byte) /\ m.op \in Whole!Opcodes
         /\ m.utf8 \in 0 .. 8 /\ [op |-> m.op, payload |-> m.payload] # None
BY NoneAssumption DEF Message

\* The first d bytes of p and the k after them.
LEMMA PayloadParts ==
  ASSUME NEW p \in Seq(Byte), NEW d \in 0 .. Len(p), NEW k \in 0 .. Len(p) - d
  PROVE  /\ SubSeq(p, 1, d) \in Seq(Byte) /\ Len(SubSeq(p, 1, d)) = d
         /\ SubSeq(p, d + 1, d + k) \in Seq(Byte)
         /\ SubSeq(p, 1, d) \o SubSeq(p, d + 1, d + k) = SubSeq(p, 1, d + k)
<1>1. /\ 1 \in 1 .. Len(p) + 1 /\ d \in 1 - 1 .. Len(p) /\ d + k \in d .. Len(p)
      /\ d \in Int /\ d + k \in Int /\ d + 1 \in Int
  OBVIOUS
<1>2. SubSeq(p, 1, d) \o SubSeq(p, d + 1, d + k) = SubSeq(p, 1, d + k)
  BY <1>1, ConcatAdjacentSubSeq
<1>3. \A i \in 1 .. d : p[i] \in Byte
  OBVIOUS
<1>4. \A i \in d + 1 .. d + k : p[i] \in Byte
  OBVIOUS
<1>5. SubSeq(p, 1, d) \in Seq(Byte) /\ Len(SubSeq(p, 1, d)) = IF 1 <= d THEN d - 1 + 1 ELSE 0
  BY <1>1, <1>3, SubSeqProperties
<1>6. SubSeq(p, d + 1, d + k) \in Seq(Byte)
  BY <1>1, <1>4, SubSeqProperties
<1> QED BY <1>1, <1>2, <1>5, <1>6

LEMMA PriorOf ==
  ASSUME NEW a \in Seq(Byte), NEW b \in Seq(Byte)
  PROVE  SubSeq(a \o b, 1, Len(a \o b) - Len(b)) = a
<1>1. Len(a \o b) = Len(a) + Len(b)
  BY ConcatProperties
<1>2. Len(a \o b) - Len(b) = Len(a) /\ Len(a) \in Nat
  <2>1. PICK l, la, lb : l = Len(a \o b) /\ la = Len(a) /\ lb = Len(b)
    OBVIOUS
  <2>2. la \in Nat /\ lb \in Nat /\ l = la + lb
    BY <1>1, <2>1
  <2>3. l - lb = la
    BY <2>2
  <2> QED BY <2>1, <2>2, <2>3
<1>3. CASE Len(a) = 0
  <2>1. a = <<>>
    BY <1>3
  <2>2. SubSeq(a \o b, 1, 0) = <<>>
    BY SubSeqEmpty
  <2> QED BY <1>2, <1>3, <2>1, <2>2
<1>4. CASE Len(a) # 0
  <2>1. 1 \in 1 .. Len(a) /\ Len(a) \in 1 .. Len(a)
    BY <1>2, <1>4
  <2>2. SubSeq(a \o b, 1, Len(a)) = SubSeq(a, 1, Len(a))
    BY <2>1, SubSeqOfConcat1
  <2> QED BY <1>2, <2>2, SubSeqFull
<1> QED BY <1>3, <1>4

\* While a fragment is read, Partial is what was there before it.
LEMMA PartialPart ==
  ASSUME NEW f \in Whole!Frame, NEW n \in 0 .. Len(f.payload), NEW m \in Message,
         NEW prior \in Seq(Byte), NEW st \in {"APPLICATION", "READY"}, ~IsControl(f),
         m.payload = prior \o SubSeq(f.payload, 1, Len(f.payload) - n)
  PROVE  PartialOf(st, f, n, m) = IF f.op # "continuation" THEN None
                                  ELSE [op |-> m.op, payload |-> prior]
<1>1. f.payload \in Seq(Byte) /\ Len(f.payload) \in Nat /\ m # None
  BY FrameType, MessageType
<1>2. PICK d, x : d = Len(f.payload) - n /\ x = SubSeq(f.payload, 1, d)
  OBVIOUS
<1>3. d \in 0 .. Len(f.payload) /\ 0 \in 0 .. Len(f.payload) - d
  BY <1>1, <1>2
<1>4. x \in Seq(Byte) /\ Len(x) = d
  BY <1>1, <1>2, <1>3, PayloadParts
<1>5. SubSeq(prior \o x, 1, Len(prior \o x) - Len(x)) = prior
  BY <1>4, PriorOf
<1>6. SubSeq(m.payload, 1, Len(m.payload) - (Len(f.payload) - n)) = prior
  BY <1>2, <1>4, <1>5
<1> QED BY <1>1, <1>6 DEF PartialOf

\* A data frame whose header is right is taken when the message it makes is.
LEMMA TakenPart ==
  ASSUME NEW f \in Whole!Frame, NEW op \in {"text", "binary"}, NEW prior \in Seq(Byte),
         NEW q, ~IsControl(f), f.flaw = "none", f.op # "reserved",
         validate_incoming_extended_header(f),
         q = IF f.op # "continuation" THEN None ELSE [op |-> op, payload |-> prior],
         f.op # "continuation" => prior = <<>> /\ op = f.op
  PROVE  /\ Whole!With(f, q) = [op |-> op, payload |-> prior \o f.payload]
         /\ Whole!Taken(f, q) \/ Whole!UnevenEnd(f, q) <=>
              /\ Len(prior) + Len(f.payload) <= MaxMessage
              /\ op = "text" => Decoded(utf8_accept, prior \o f.payload) # utf8_reject
              /\ f.op = "text" /\ f.fin =>
                   Decoded(utf8_accept, prior \o f.payload) = utf8_accept
<1>1. f.payload \in Seq(Byte) /\ f.op \in Whole!Opcodes
  BY FrameType
<1>2. [op |-> op, payload |-> prior] # None
  <2>1. [op |-> op, payload |-> prior] \in [op : Whole!Opcodes, payload : Seq(Byte)]
    BY DEF Whole!Opcodes
  <2> QED BY <2>1, NoneAssumption
<1>3. Whole!With(f, q) = [op |-> op, payload |-> prior \o f.payload]
  <2>1. CASE f.op = "continuation"
    <3>1. q = [op |-> op, payload |-> prior] /\ q # None
      BY <1>2, <2>1
    <3>2. PICK z : z = prior \o f.payload
      OBVIOUS
    <3>3. [[op |-> op, payload |-> prior] EXCEPT !.payload = z] = [op |-> op, payload |-> z]
      OBVIOUS
    <3>4. q.payload = prior
      BY <3>1
    <3>5. [q EXCEPT !.payload = q.payload \o f.payload] = [op |-> op, payload |-> z]
      BY <3>1, <3>2, <3>3, <3>4
    <3> QED BY <3>1, <3>2, <3>5 DEF Whole!With
  <2>2. CASE f.op # "continuation"
    <3>1. prior \o f.payload = f.payload
      BY <1>1, <2>2, ConcatEmptySeq
    <3> QED BY <2>2, <3>1 DEF Whole!With
  <2> QED BY <2>1, <2>2
<1>4. Whole!Regular(f, q)
  BY <1>1, <1>2 DEF Whole!Regular, IsControl, validate_incoming_extended_header, Whole!Opcodes
<1>5. PICK w : w = prior \o f.payload
  OBVIOUS
<1>6. Len(w) = Len(prior) + Len(f.payload)
  BY <1>1, <1>5, ConcatProperties
<1>7. Whole!With(f, q).op = op /\ Whole!With(f, q).payload = w
  BY <1>3, <1>5
<1>8. Whole!Validated(w) = Decoded(utf8_accept, w)
  <2>1. Whole!Validated(w) = Whole!Decoded(utf8_accept, w)
    BY DEF Whole!Validated, Whole!utf8_accept, utf8_accept
  <2> QED BY <2>1, SameDecoded
<1>9. Whole!Taken(f, q) \/ Whole!UnevenEnd(f, q) <=>
        /\ Len(w) <= MaxMessage
        /\ op = "text" => Decoded(utf8_accept, w) # utf8_reject
        /\ f.op = "text" /\ f.fin => Decoded(utf8_accept, w) = utf8_accept
  <2>1. PICK v : v = Whole!With(f, q)
    OBVIOUS
  <2>2. v.op = op /\ v.payload = w
    BY <1>7, <2>1
  <2>3. Whole!Taken(f, q) <=>
          /\ Len(w) <= MaxMessage
          /\ op = "text" => /\ Decoded(utf8_accept, w) # utf8_reject
                            /\ f.fin => Decoded(utf8_accept, w) = utf8_accept
    BY <1>4, <1>8, <2>1, <2>2
       DEF Whole!Taken, IsControl, Whole!utf8_reject, utf8_reject, Whole!utf8_accept, utf8_accept
  <2>4. f.op = "continuation" => q.op = op
    OBVIOUS
  <2>5. Whole!UnevenEnd(f, q) <=>
          /\ f.op = "continuation" /\ f.fin /\ op = "text" /\ Len(w) <= MaxMessage
          /\ Decoded(utf8_accept, w) # utf8_accept /\ Decoded(utf8_accept, w) # utf8_reject
    BY <1>4, <1>8, <2>1, <2>2, <2>4
       DEF Whole!UnevenEnd, Whole!utf8_reject, utf8_reject, Whole!utf8_accept, utf8_accept
  <2> QED BY <2>3, <2>5
<1> QED BY <1>3, <1>5, <1>6, <1>9

\* A control frame whose header is right is taken.
LEMMA TakenControl ==
  ASSUME NEW f \in Whole!Frame, NEW q, IsControl(f), f.flaw = "none", f.fin, f.form = "7bit"
  PROVE  Whole!Taken(f, q) /\ Whole!With(f, None) = [op |-> "control", payload |-> f.payload]
BY DEF IsControl, Whole!Taken, Whole!Regular, Whole!With

\* A text of which a beginning is refused is refused.
LEMMA RejectedStays ==
  ASSUME NEW a \in Seq(Byte), NEW b \in Seq(Byte), Decoded(utf8_accept, a) = utf8_reject
  PROVE  Decoded(utf8_accept, a \o b) = utf8_reject
<1>1. Decoded(utf8_accept, a \o b) = Decoded(Decoded(utf8_accept, a), b)
  BY DecodedConcat DEF utf8_accept
<1> QED BY <1>1, DecodedReject DEF utf8_reject
-----------------------------------------------------------------------------
(* The steps.  Each keeps the invariant, and is a step of the whole-frame reader or none. *)

LEMMA FramesInitial == FramesInit => FramesInv /\ Whole!Init
<1> SUFFICES ASSUME FramesInit PROVE FramesInv /\ Whole!Init
  OBVIOUS
<1>1. FramesInv
  BY DEF FramesInit, FramesInv, FramesTypeOK, HeaderInv, DataInv, ControlInv, PartInv, ReadyInv,
         Taking
<1>2. Partial = None
  BY DEF FramesInit, Partial
<1> QED BY <1>1, <1>2 DEF FramesInit, Whole!Init

LEMMA SendFrameStep ==
  ASSUME FramesInv, SendFrame
  PROVE  FramesInv' /\ Whole!Send
<1>1. frame' \in Whole!Frame /\ frame' # None
  BY FrameType DEF SendFrame
<1>2. m_state = "HEADER_BASIC" /\ ~Taking /\ ~Taking'
  BY DEF SendFrame, FramesInv, HeaderInv, Taking
<1>3. FramesInv'
  BY <1>1, <1>2 DEF SendFrame, FramesInv, FramesTypeOK, HeaderInv, DataInv, ControlInv, PartInv,
                    ReadyInv
<1>4. Partial' = Partial
  BY <1>2, PartialIs DEF SendFrame, PartialOf
<1> QED BY <1>1, <1>3, <1>4 DEF SendFrame, Whole!Send

\* A step that changes neither the frame, its place in it nor the message.
LEMMA SameStep ==
  ASSUME FramesInv, avail' \in Nat,
         UNCHANGED <<frame, m_state, msg, m_current_msg, handed>>,
         m_bytes_needed' \in Nat, Taking => m_bytes_needed' = m_bytes_needed,
         m_state = "READY" => UNCHANGED ec
  PROVE  FramesInv' /\ Partial' = Partial
<1>1. FramesInv'
  <2>1. FramesTypeOK' /\ HeaderInv' /\ DataInv' /\ ReadyInv'
    BY DEF FramesInv, FramesTypeOK, HeaderInv, DataInv, ReadyInv, Taking, IsControl,
           validate_incoming_basic_header, validate_incoming_extended_header
  <2>2. ControlInv' /\ PartInv'
    BY DEF FramesInv, ControlInv, PartInv, Taking, Done, IsControl
  <2> QED BY <2>1, <2>2 DEF FramesInv
<1>2. Partial' = Partial
  BY PartialIs DEF PartialOf, Taking
<1> QED BY <1>1, <1>2

LEMMA ReadStep ==
  ASSUME FramesInv, NEW n \in 1 .. MaxRead, Read(n)
  PROVE  FramesInv' /\ UNCHANGED Whole!readerVars
<1>1. FramesInv' /\ Partial' = Partial
  BY SameStep, FramesAssumption DEF Read, FramesInv, FramesTypeOK
<1> QED BY <1>1 DEF Read, Whole!readerVars

LEMMA ShareIs ==
  ASSUME FramesInv
  PROVE  /\ Share \in Nat /\ Share <= m_bytes_needed /\ Share <= avail
         /\ avail - Share \in Nat /\ m_bytes_needed - Share \in Nat
BY DEF FramesInv, FramesTypeOK, Share, Smaller

LEMMA HeaderGoesOnStep ==
  ASSUME FramesInv, HeaderGoesOn
  PROVE  FramesInv' /\ UNCHANGED Whole!readerVars
<1>1. FramesInv' /\ Partial' = Partial
  BY SameStep, ShareIs DEF HeaderGoesOn, TakeBytes, Taking
<1> QED BY <1>1 DEF HeaderGoesOn, TakeBytes, Whole!readerVars

\* What is refused, the whole-frame reader refuses.
LEMMA FailsStep ==
  ASSUME FramesInv, NEW error, Fails(error), error # "none", ec = "none", frame # None,
         m_state # "READY",
         ~Whole!Taken(frame, Partial)
  PROVE  FramesInv' /\ Whole!Refuse
<1>1. FramesInv' /\ Partial' = Partial
  BY SameStep DEF Fails, FramesInv, FramesTypeOK
<1> QED BY <1>1 DEF Fails, Whole!Refuse

LEMMA HeaderBasicStep ==
  ASSUME FramesInv, HeaderBasic
  PROVE  FramesInv' /\ (Whole!Refuse \/ UNCHANGED Whole!readerVars)
<1>1. /\ frame # None /\ frame \in Whole!Frame /\ m_state = "HEADER_BASIC" /\ ec = "none"
      /\ ~Taking
  BY DEF HeaderBasic, Loops, FramesInv, FramesTypeOK, Taking
<1>2. frame.op \in Whole!Opcodes /\ frame.flaw \in Whole!Flaws /\ frame.form \in Whole!Forms
  BY <1>1, FrameType
<1>3. CASE validate_incoming_basic_header(frame)
  <2>1. /\ avail' = avail - Share /\ m_state' = "HEADER_EXTENDED"
        /\ m_bytes_needed' = CASE frame.form = "7bit" -> 0
                               [] frame.form = "16bit" -> 2
                               [] frame.form = "64bit" -> 8
        /\ UNCHANGED <<frame, msg, m_current_msg, ec, handed>>
    BY <1>3 DEF HeaderBasic
  <2>2. m_bytes_needed' \in Nat
    BY <1>2, <2>1 DEF Whole!Forms
  <2>3. ~Taking' /\ validate_incoming_basic_header(frame)'
    BY <1>3, <2>1 DEF Taking, validate_incoming_basic_header
  <2>4. FramesInv'
    BY <1>1, <2>1, <2>2, <2>3, ShareIs
       DEF FramesInv, FramesTypeOK, HeaderInv, DataInv, ControlInv, PartInv, ReadyInv
  <2>5. Partial' = Partial
    BY <1>1, <2>1, <2>3, PartialIs DEF PartialOf, Taking
  <2> QED BY <2>1, <2>4, <2>5 DEF Whole!readerVars
<1>4. CASE ~validate_incoming_basic_header(frame)
  <2>1. Fails("protocol_error")
    BY <1>4 DEF HeaderBasic
  <2>2. Partial = None <=> msg.data = None
    <3>1. Partial = Begun(msg.data)
      BY <1>1, PartialIs DEF PartialOf, Taking
    <3>2. msg.data # None => msg.data \in Message
      BY DEF FramesInv, FramesTypeOK
    <3> QED BY <3>1, <3>2, MessageType DEF Begun
  <2>3. ~Whole!Regular(frame, Partial)
    BY <1>2, <1>4, <2>2 DEF Whole!Regular, validate_incoming_basic_header, IsControl,
                            Whole!Opcodes, Whole!Flaws
  <2>4. ~Whole!Taken(frame, Partial)
    BY <2>3 DEF Whole!Taken
  <2> QED BY <1>1, <2>1, <2>4, FailsStep
<1> QED BY <1>3, <1>4

\* One of the two messages is replaced.
LEMMA MsgType ==
  ASSUME NEW M, NEW r \in [data : M, control : M], NEW m \in M
  PROVE  /\ [r EXCEPT !.data = m] \in [data : M, control : M]
         /\ [r EXCEPT !.data = m].data = m /\ [r EXCEPT !.data = m].control = r.control
         /\ [r EXCEPT !.control = m] \in [data : M, control : M]
         /\ [r EXCEPT !.control = m].control = m /\ [r EXCEPT !.control = m].data = r.data
OBVIOUS

LEMMA NewMessageType ==
  ASSUME NEW f \in Whole!Frame
  PROVE  /\ NewMessage(f) \in Message /\ NewMessage(f) # None
         /\ NewMessage(f).op = f.op /\ NewMessage(f).payload = <<>>
         /\ NewMessage(f).utf8 = utf8_accept
<1>1. f.op \in Whole!Opcodes
  BY FrameType
<1>2. NewMessage(f) \in Message
  BY <1>1 DEF NewMessage, Message, utf8_accept
<1> QED BY <1>2, MessageType DEF NewMessage

LEMMA HeaderExtendedStep ==
  ASSUME FramesInv, HeaderExtended
  PROVE  FramesInv' /\ (Whole!Refuse \/ UNCHANGED Whole!readerVars)
<1>1. /\ frame # None /\ frame \in Whole!Frame /\ m_state = "HEADER_EXTENDED" /\ ec = "none"
      /\ ~Taking /\ validate_incoming_basic_header(frame) /\ handed = None
  BY DEF HeaderExtended, Loops, FramesInv, FramesTypeOK, HeaderInv, Taking
<1>2. /\ frame.op \in Whole!Opcodes /\ frame.flaw \in Whole!Flaws /\ frame.form \in Whole!Forms
      /\ frame.payload \in Seq(Byte) /\ Len(frame.payload) \in Nat
  BY <1>1, FrameType
<1>3. Partial = Begun(msg.data)
  BY <1>1, PartialIs DEF PartialOf, Taking
<1>4. msg \in [data : Message \cup {None}, control : Message \cup {None}]
  BY DEF FramesInv, FramesTypeOK
<1>5. CASE ~validate_incoming_extended_header(frame)
  <2>1. Fails("non_minimal_encoding")
    BY <1>5 DEF HeaderExtended
  <2>2. ~Whole!Taken(frame, Partial)
    BY <1>5 DEF Whole!Taken, Whole!Regular, validate_incoming_extended_header
  <2> QED BY <1>1, <2>1, <2>2, FailsStep
<1>6. CASE validate_incoming_extended_header(frame) /\ TooBig(frame)
  <2>1. Fails("message_too_big")
    BY <1>6 DEF HeaderExtended
  <2>2. ~Whole!Taken(frame, Partial)
    <3>1. CASE msg.data = None
      <4>1. Partial = None /\ Whole!With(frame, Partial).payload = frame.payload
        BY <1>3, <3>1 DEF Begun, Whole!With
      <4>2. ~IsControl(frame) /\ Len(frame.payload) + 0 > MaxMessage
        BY <1>6, <3>1 DEF TooBig
      <4>3. ~(Len(Whole!With(frame, Partial).payload) <= MaxMessage)
        BY <1>2, <4>1, <4>2, FramesAssumption
      <4> QED BY <4>2, <4>3 DEF Whole!Taken, IsControl
    <3>2. CASE msg.data # None
      <4>1. msg.data \in Message
        BY <1>4, <3>2
      <4>2. PICK old : old = msg.data.payload
        OBVIOUS
      <4>3. old \in Seq(Byte) /\ Partial = [op |-> msg.data.op, payload |-> old] /\ Partial # None
        BY <1>3, <3>2, <4>1, <4>2, MessageType DEF Begun
      <4>4. Len(old \o frame.payload) = Len(old) + Len(frame.payload)
        BY <1>2, <4>3, ConcatProperties
      <4>5. Len(frame.payload) + Len(old) > MaxMessage /\ ~IsControl(frame)
        BY <1>6, <3>2, <4>2 DEF TooBig
      <4>6. Len(old) + Len(frame.payload) > MaxMessage
        BY <1>2, <4>3, <4>5
      <4>7. Whole!With(frame, Partial).payload = old \o frame.payload
        <5>1. PICK z : z = old \o frame.payload
          OBVIOUS
        <5>2. [[op |-> msg.data.op, payload |-> old] EXCEPT !.payload = z].payload = z
          OBVIOUS
        <5> QED BY <4>3, <5>1, <5>2 DEF Whole!With
      <4>8. Len(old \o frame.payload) \in Int /\ MaxMessage \in Int
        BY <1>2, <4>3, <4>4, FramesAssumption
      <4>9. ~(Len(Whole!With(frame, Partial).payload) <= MaxMessage)
        <5>1. PICK l, a, b : l = Len(old \o frame.payload) /\ a = Len(old)
                             /\ b = Len(frame.payload)
          OBVIOUS
        <5>2. a + b > MaxMessage /\ l = a + b /\ l \in Int
          BY <4>4, <4>6, <4>8, <5>1
        <5>3. ~(l <= MaxMessage)
          BY <4>8, <5>2
        <5> QED BY <4>7, <5>1, <5>3
      <4> QED BY <4>5, <4>9 DEF Whole!Taken, IsControl
    <3> QED BY <3>1, <3>2
  <2> QED BY <1>1, <2>1, <2>2, FailsStep
<1>7. CASE validate_incoming_extended_header(frame) /\ ~TooBig(frame)
  <2>1. /\ avail' = avail - Share /\ m_state' = "APPLICATION"
        /\ m_bytes_needed' = Len(frame.payload)
        /\ msg' = NextMsg(frame)
        /\ m_current_msg' = IF IsControl(frame) THEN "control" ELSE "data"
        /\ UNCHANGED <<frame, ec, handed>>
    BY <1>7 DEF HeaderExtended
  <2>2. Done' = 0 /\ SubSeq(frame.payload, 1, 0) = <<>> /\ Taking'
    BY <1>2, <2>1, SubSeqEmpty DEF Done, Taking
  <2>3. avail' \in Nat
    BY <2>1, ShareIs
  <2>4. HeaderInv' /\ ReadyInv'
    BY <1>1, <1>2, <1>7, <2>1 DEF HeaderInv, ReadyInv, Taking, validate_incoming_basic_header,
        validate_incoming_extended_header, IsControl, Whole!Flaws
  <2>5. PICK n : n = NewMessage(frame)
    OBVIOUS
  <2>6. /\ n \in Message /\ n # None /\ n.op = frame.op /\ n.payload = <<>>
        /\ n.utf8 = utf8_accept
    BY <1>1, <2>5, NewMessageType
  <2>7. CASE IsControl(frame)
    <3>1. msg' = [msg EXCEPT !.control = n]
      BY <2>1, <2>5, <2>7 DEF NextMsg
    <3>2. msg' \in [data : Message \cup {None}, control : Message \cup {None}]
          /\ msg'.control = n /\ msg'.data = msg.data
      BY <1>4, <2>6, <3>1
    <3>3. FramesInv'
      BY <1>1, <1>2, <2>1, <2>2, <2>3, <2>4, <2>6, <2>7, <3>2
         DEF FramesInv, FramesTypeOK, DataInv, ControlInv, PartInv, IsControl
    <3>4. Partial' = Partial
      BY <1>3, <2>1, <2>7, <3>2, PartialIs DEF PartialOf
    <3> QED BY <2>1, <3>3, <3>4 DEF Whole!readerVars
  <2>8. CASE ~IsControl(frame) /\ msg.data = None
    <3>1. msg' = [msg EXCEPT !.data = n]
      BY <2>1, <2>5, <2>8 DEF NextMsg
    <3>2. msg' \in [data : Message \cup {None}, control : Message \cup {None}]
          /\ msg'.data = n
      BY <1>4, <2>6, <3>1
    <3>3. frame.op \in {"text", "binary"}
      BY <1>1, <1>2, <2>8 DEF validate_incoming_basic_header, IsControl, Whole!Opcodes
    <3>4. Decoded(utf8_accept, <<>>) = utf8_accept
      BY DecodedEmpty DEF utf8_accept
    <3>5. DataInv'
      BY <2>6, <3>2, <3>3, <3>4 DEF DataInv, utf8_accept, utf8_reject
    <3>6. Len(<<>>) + Len(frame.payload) <= MaxMessage
      <4>1. Len(frame.payload) + 0 <= MaxMessage
        BY <1>2, <1>7, <2>8, FramesAssumption DEF TooBig
      <4> QED BY <1>2, <4>1, FramesAssumption
    <3>7. PartInv'
      <4>1. PICK e : e = <<>>
        OBVIOUS
      <4>2. e \in Seq(Byte) /\ e \o e = e
        BY <4>1
      <4>3. /\ m_current_msg' = "data" /\ msg'.data # None
            /\ msg'.data.payload = e \o SubSeq(frame'.payload, 1, Done')
            /\ Len(e) + Len(frame'.payload) <= MaxMessage
            /\ msg'.data.op = frame'.op
        BY <2>1, <2>2, <2>6, <2>8, <3>2, <3>6, <4>1, <4>2
      <4> QED BY <4>1, <4>2, <4>3 DEF PartInv
    <3>8. FramesInv'
      BY <1>1, <1>2, <2>1, <2>3, <2>4, <2>8, <3>2, <3>5, <3>7
         DEF FramesInv, FramesTypeOK, ControlInv, IsControl
    <3>9. Partial' = None /\ Partial = None
      BY <1>3, <2>1, <2>6, <2>8, <3>2, <3>3, PartialIs DEF PartialOf, Begun
    <3> QED BY <2>1, <3>8, <3>9 DEF Whole!readerVars
  <2>9. CASE ~IsControl(frame) /\ msg.data # None
    <3>1. msg' = msg
      BY <2>1, <2>9 DEF NextMsg
    <3>2. msg.data \in Message /\ frame.op = "continuation"
      BY <1>1, <1>4, <2>9 DEF validate_incoming_basic_header
    <3>3. PICK old : old = msg.data.payload
      OBVIOUS
    <3>4. old \in Seq(Byte) /\ old \o <<>> = old
      BY <3>2, <3>3, MessageType, ConcatEmptySeq
    <3>5. Len(old) + Len(frame.payload) <= MaxMessage
      <4>1. ~(Len(frame.payload) + Len(old) > MaxMessage)
        BY <1>7, <2>9, <3>3 DEF TooBig
      <4> QED BY <1>2, <3>4, <4>1, FramesAssumption
    <3>6. PartInv'
      <4>1. /\ m_current_msg' = "data" /\ msg'.data # None
            /\ msg'.data.payload = old \o SubSeq(frame'.payload, 1, Done')
            /\ Len(old) + Len(frame'.payload) <= MaxMessage
            /\ frame'.op = "continuation"
        BY <2>1, <2>2, <2>9, <3>1, <3>2, <3>3, <3>4, <3>5
      <4> QED BY <3>4, <4>1 DEF PartInv
    <3>7. FramesInv'
      BY <1>1, <1>2, <2>1, <2>3, <2>4, <2>9, <3>1, <3>6
         DEF FramesInv, FramesTypeOK, DataInv, ControlInv, IsControl
    <3>8. Partial' = Partial
      <4>1. Partial = [op |-> msg.data.op, payload |-> old]
        BY <1>3, <2>9, <3>3 DEF Begun
      <4>2. old = old \o SubSeq(frame.payload, 1, Len(frame.payload) - Len(frame.payload))
            /\ Len(frame.payload) \in 0 .. Len(frame.payload)
        BY <1>2, <2>2, <3>4
      <4>3. PICK f, m, k : f = frame /\ m = msg.data /\ k = Len(frame.payload)
        OBVIOUS
      <4>4. PartialOf("APPLICATION", f, k, m) = [op |-> m.op, payload |-> old]
        <5>1. /\ f \in Whole!Frame /\ k \in 0 .. Len(f.payload) /\ m \in Message /\ ~IsControl(f)
              /\ m.payload = old \o SubSeq(f.payload, 1, Len(f.payload) - k)
              /\ f.op = "continuation"
          BY <1>1, <2>9, <3>2, <3>3, <4>2, <4>3
        <5> QED BY <3>4, <5>1, PartialPart
      <4> QED BY <2>1, <3>1, <4>1, <4>3, <4>4, PartialIs
    <3> QED BY <2>1, <3>7, <3>8 DEF Whole!readerVars
  <2> QED BY <2>7, <2>8, <2>9
<1> QED BY <1>5, <1>6, <1>7

\* The message that is being read, with more bytes.
Longer(m, bytes) ==
  [m EXCEPT !.payload = @ \o bytes,
            !.utf8 = IF m.op = "text" THEN Decoded(@, bytes) ELSE @]

LEMMA LongerType ==
  ASSUME NEW m \in Message, NEW bytes \in Seq(Byte)
  PROVE  /\ Longer(m, bytes) \in Message /\ Longer(m, bytes) # None
         /\ Longer(m, bytes).op = m.op /\ Longer(m, bytes).payload = m.payload \o bytes
         /\ Longer(m, bytes).utf8 = IF m.op = "text" THEN Decoded(m.utf8, bytes) ELSE m.utf8
<1>1. m.payload \in Seq(Byte) /\ m.utf8 \in 0 .. 8
  BY MessageType
<1>2. PICK w, u : /\ w = m.payload \o bytes
                  /\ u = IF m.op = "text" THEN Decoded(m.utf8, bytes) ELSE m.utf8
  OBVIOUS
<1>3. w \in Seq(Byte) /\ u \in 0 .. 8
  BY <1>1, <1>2, DecodedType, ConcatProperties
<1>4. /\ [m EXCEPT !.payload = w, !.utf8 = u] \in Message
      /\ [m EXCEPT !.payload = w, !.utf8 = u].op = m.op
      /\ [m EXCEPT !.payload = w, !.utf8 = u].payload = w
      /\ [m EXCEPT !.payload = w, !.utf8 = u].utf8 = u
  BY <1>3 DEF Message
<1>5. Longer(m, bytes) = [m EXCEPT !.payload = w, !.utf8 = u]
  BY <1>2 DEF Longer
<1> QED BY <1>2, <1>4, <1>5, MessageType

\* The bytes of a control frame: they go through no validator.
LEMMA ControlBytesStep ==
  ASSUME FramesInv, Application, IsControl(frame)
  PROVE  FramesInv' /\ UNCHANGED Whole!readerVars
<1> DEFINE p == frame.payload
           d == Done
           k == Share
           bytes == SubSeq(p, d + 1, d + k)
           old == msg.control
           new == Longer(old, bytes)
<1>1. /\ frame # None /\ frame \in Whole!Frame /\ m_state = "APPLICATION" /\ ec = "none"
      /\ Taking /\ handed = None /\ frame.fin /\ frame.op = "control"
      /\ m_bytes_needed <= Len(p) /\ m_bytes_needed \in Nat
  BY DEF Application, Loops, FramesInv, FramesTypeOK, HeaderInv, Taking, IsControl
<1>2. p \in Seq(Byte) /\ Len(p) \in Nat
  BY <1>1, FrameType
<1>3. k \in Nat /\ k <= m_bytes_needed /\ avail - k \in Nat /\ m_bytes_needed - k \in Nat
  BY ShareIs
<1>4. d \in 0 .. Len(p) /\ k \in 0 .. Len(p) - d
  BY <1>1, <1>2, <1>3 DEF Done
<1>5. /\ bytes \in Seq(Byte) /\ SubSeq(p, 1, d) \o bytes = SubSeq(p, 1, d + k)
  BY <1>2, <1>4, PayloadParts
<1>6. /\ msg \in [data : Message \cup {None}, control : Message \cup {None}]
      /\ m_current_msg = "control" /\ old # None /\ old \in Message
      /\ old.op = "control" /\ old.utf8 = utf8_accept /\ old.payload = SubSeq(p, 1, d)
  BY <1>1 DEF FramesInv, FramesTypeOK, ControlInv
<1>7. /\ new \in Message /\ new # None /\ new.op = "control"
      /\ new.payload = SubSeq(p, 1, d + k) /\ new.utf8 = utf8_accept
  BY <1>5, <1>6, LongerType
<1>8. /\ avail' = avail - k
      /\ msg' = [msg EXCEPT !.control = new]
      /\ IF k = m_bytes_needed
           THEN m_state' = "READY" /\ m_bytes_needed' = 0
           ELSE m_state' = m_state /\ m_bytes_needed' = m_bytes_needed - k
      /\ UNCHANGED <<frame, m_current_msg, ec, handed>>
  <2>1. msg[m_current_msg] = old
    BY <1>6
  <2>2. new.utf8 # utf8_reject
    BY <1>7 DEF utf8_accept, utf8_reject
  <2> QED BY <1>1, <1>6, <2>1, <2>2 DEF Application, Longer, Done
<1>9. /\ msg' \in [data : Message \cup {None}, control : Message \cup {None}]
      /\ msg'.control = new /\ msg'.data = msg.data
  BY <1>6, <1>7, <1>8, MsgType
<1>10. /\ m_bytes_needed' \in Nat /\ m_bytes_needed' <= Len(p) /\ Taking'
       /\ Len(p) - m_bytes_needed' = d + k
  <2>1. Taking' /\ m_bytes_needed' = m_bytes_needed - k
    <3> HIDE DEF k
    <3> QED BY <1>1, <1>3, <1>8 DEF Taking
  <2>2. PICK l, e, j, n : l = Len(p) /\ e = d /\ j = k /\ n = m_bytes_needed
    OBVIOUS
  <2>3. l \in Nat /\ n \in Nat /\ j \in Nat /\ j <= n /\ n <= l /\ e = l - n
    BY <1>1, <1>2, <1>3, <2>2 DEF Done
  <2>4. n - j \in Nat /\ n - j <= l /\ l - (n - j) = e + j
    BY <2>3
  <2> QED BY <2>1, <2>2, <2>4
<1>11. FramesInv'
  <2> HIDE DEF p, d, k, bytes, old, new
  <2>1. FramesTypeOK'
    BY <1>1, <1>3, <1>8, <1>9, <1>10 DEF FramesInv, FramesTypeOK
  <2>2. HeaderInv'
    BY <1>1, <1>8, <1>10 DEF p, FramesInv, HeaderInv, Taking, validate_incoming_extended_header,
                             IsControl
  <2>3. DataInv' /\ PartInv'
    BY <1>1, <1>8, <1>9 DEF FramesInv, DataInv, PartInv, IsControl
  <2>4. ReadyInv'
    BY <1>1, <1>8 DEF ReadyInv
  <2>5. ControlInv'
    <3>1. Done' = d + k
      BY <1>8, <1>10 DEF Done, p
    <3> QED BY <1>6, <1>7, <1>8, <1>9, <3>1 DEF ControlInv, p
  <2> QED BY <2>1, <2>2, <2>3, <2>4, <2>5 DEF FramesInv
<1>12. Partial' = Partial
  BY <1>8, <1>9, PartialIs DEF PartialOf
<1> QED BY <1>8, <1>11, <1>12 DEF Whole!readerVars

\* The bytes of a data frame; with the last of a fragment the frame is taken.
LEMMA DataBytesStep ==
  ASSUME FramesInv, Application, ~IsControl(frame)
  PROVE  FramesInv' /\ (Whole!Take \/ Whole!Refuse \/ UNCHANGED Whole!readerVars)
<1> DEFINE p == frame.payload
           d == Done
           k == Share
           bytes == SubSeq(p, d + 1, d + k)
           old == msg.data
           new == Longer(old, bytes)
<1>1. /\ frame # None /\ frame \in Whole!Frame /\ m_state = "APPLICATION" /\ ec = "none"
      /\ Taking /\ handed = None /\ frame.flaw = "none" /\ frame.op # "reserved"
      /\ frame.op # "control" /\ validate_incoming_extended_header(frame)
      /\ m_bytes_needed <= Len(p) /\ m_bytes_needed \in Nat
  BY DEF Application, Loops, FramesInv, FramesTypeOK, HeaderInv, Taking, IsControl
<1>2. p \in Seq(Byte) /\ Len(p) \in Nat /\ frame.fin \in BOOLEAN
  BY <1>1, FrameType
<1>3. k \in Nat /\ k <= m_bytes_needed /\ avail - k \in Nat /\ m_bytes_needed - k \in Nat
  BY ShareIs
<1>4. d \in 0 .. Len(p) /\ k \in 0 .. Len(p) - d /\ d = Len(p) - m_bytes_needed
  BY <1>1, <1>2, <1>3 DEF Done
<1>5. /\ bytes \in Seq(Byte) /\ SubSeq(p, 1, d) \in Seq(Byte)
      /\ SubSeq(p, 1, d) \o bytes = SubSeq(p, 1, d + k)
  BY <1>2, <1>4, PayloadParts
<1>6. /\ msg \in [data : Message \cup {None}, control : Message \cup {None}]
      /\ m_current_msg = "data" /\ old # None /\ old \in Message
      /\ old.op \in {"text", "binary"} /\ old.utf8 # utf8_reject
      /\ old.utf8 = IF old.op = "text" THEN Decoded(utf8_accept, old.payload) ELSE utf8_accept
  BY <1>1 DEF FramesInv, FramesTypeOK, PartInv, DataInv
<1>7. PICK prior \in Seq(Byte) :
        /\ old.payload = prior \o SubSeq(p, 1, d)
        /\ Len(prior) + Len(p) <= MaxMessage
        /\ frame.op # "continuation" => prior = <<>> /\ old.op = frame.op
  BY <1>1 DEF FramesInv, PartInv
<1>8. SubSeq(p, 1, d + k) \in Seq(Byte)
  <2>1. d + k \in 0 .. Len(p) /\ 0 \in 0 .. Len(p) - (d + k)
    BY <1>2, <1>4
  <2> QED BY <1>2, <2>1, PayloadParts
<1>9. /\ new \in Message /\ new # None /\ new.op = old.op
      /\ new.payload = prior \o SubSeq(p, 1, d + k)
      /\ new.utf8 = IF old.op = "text" THEN Decoded(utf8_accept, new.payload) ELSE utf8_accept
  <2>1. /\ new \in Message /\ new # None /\ new.op = old.op
        /\ new.payload = old.payload \o bytes
        /\ new.utf8 = IF old.op = "text" THEN Decoded(old.utf8, bytes) ELSE old.utf8
    BY <1>5, <1>6, LongerType
  <2>2. old.payload \o bytes = prior \o SubSeq(p, 1, d + k)
    <3>1. PICK a, b, c : a = prior /\ b = SubSeq(p, 1, d) /\ c = bytes
      OBVIOUS
    <3>1a. a \in Seq(Byte) /\ b \in Seq(Byte) /\ c \in Seq(Byte)
      BY <1>5, <3>1
    <3>2. (a \o b) \o c = a \o (b \o c)
      BY <3>1a, ConcatAssociative
    <3> QED BY <1>5, <1>7, <3>1, <3>2
  <2>3. Decoded(utf8_accept, old.payload \o bytes)
          = Decoded(Decoded(utf8_accept, old.payload), bytes)
    <3>1. old.payload \in Seq(Byte) /\ utf8_accept \in 0 .. 8
      BY <1>6, MessageType DEF utf8_accept
    <3> QED BY <1>5, <3>1, DecodedConcat
  <2> QED BY <1>6, <2>1, <2>2, <2>3
<1>10. PICK q : q = IF frame.op # "continuation" THEN None
                    ELSE [op |-> old.op, payload |-> prior]
  OBVIOUS
<1>11. Partial = q
  <2>1. PICK f, m, n : f = frame /\ m = old /\ n = m_bytes_needed
    OBVIOUS
  <2>2. /\ f \in Whole!Frame /\ n \in 0 .. Len(f.payload) /\ m \in Message /\ ~IsControl(f)
        /\ m.payload = prior \o SubSeq(f.payload, 1, Len(f.payload) - n)
    BY <1>1, <1>4, <1>6, <1>7, <2>1
  <2>3. PartialOf("APPLICATION", f, n, m) = IF f.op # "continuation" THEN None
                                            ELSE [op |-> m.op, payload |-> prior]
    BY <2>2, PartialPart
  <2> QED BY <1>1, <1>10, <2>1, <2>3, PartialIs
<1>12. PICK all : all = prior \o p
  OBVIOUS
<1>13. /\ Whole!With(frame, q) = [op |-> old.op, payload |-> all]
       /\ Whole!Taken(frame, q) \/ Whole!UnevenEnd(frame, q) <=>
            /\ Len(prior) + Len(p) <= MaxMessage
            /\ old.op = "text" => Decoded(utf8_accept, all) # utf8_reject
            /\ frame.op = "text" /\ frame.fin => Decoded(utf8_accept, all) = utf8_accept
  <2>1. PICK f, op : f = frame /\ op = old.op
    OBVIOUS
  <2>2. /\ f \in Whole!Frame /\ op \in {"text", "binary"} /\ ~IsControl(f) /\ f.flaw = "none"
        /\ f.op # "reserved" /\ validate_incoming_extended_header(f)
        /\ q = IF f.op # "continuation" THEN None ELSE [op |-> op, payload |-> prior]
        /\ f.op # "continuation" => prior = <<>> /\ op = f.op
    BY <1>1, <1>6, <1>7, <1>10, <2>1
  <2>3. /\ Whole!With(f, q) = [op |-> op, payload |-> prior \o f.payload]
        /\ Whole!Taken(f, q) \/ Whole!UnevenEnd(f, q) <=>
             /\ Len(prior) + Len(f.payload) <= MaxMessage
             /\ op = "text" => Decoded(utf8_accept, prior \o f.payload) # utf8_reject
             /\ f.op = "text" /\ f.fin =>
                  Decoded(utf8_accept, prior \o f.payload) = utf8_accept
    BY <2>2, TakenPart
  <2> QED BY <1>12, <2>1, <2>3
<1>14. k = m_bytes_needed => new.payload = all
  <2>1. SUFFICES ASSUME k = m_bytes_needed PROVE SubSeq(p, 1, d + k) = p
    BY <1>9, <1>12
  <2>2. d + k = Len(p)
    BY <1>2, <1>4, <1>1, <2>1
  <2> QED BY <1>2, <2>2, SubSeqFull
<1>15. new.utf8 = utf8_reject => old.op = "text" /\ Decoded(utf8_accept, all) = utf8_reject
  <2>1. SUFFICES ASSUME new.utf8 = utf8_reject
                 PROVE  old.op = "text" /\ Decoded(utf8_accept, all) = utf8_reject
    OBVIOUS
  <2>2. old.op = "text" /\ Decoded(utf8_accept, new.payload) = utf8_reject
    BY <1>9, <2>1 DEF utf8_accept, utf8_reject
  <2>3. PICK rest \in Seq(Byte) : all = new.payload \o rest
    <3>1. d + k \in 0 .. Len(p) /\ Len(p) - (d + k) \in 0 .. Len(p) - (d + k)
          /\ (d + k) + (Len(p) - (d + k)) = Len(p)
      BY <1>2, <1>4
    <3>2. PICK e, r : e = d + k /\ r = Len(p) - (d + k)
      OBVIOUS
    <3>3. e \in 0 .. Len(p) /\ r \in 0 .. Len(p) - e /\ e + r = Len(p)
      BY <3>1, <3>2
    <3>4. /\ SubSeq(p, e + 1, e + r) \in Seq(Byte)
          /\ SubSeq(p, 1, e) \o SubSeq(p, e + 1, e + r) = SubSeq(p, 1, e + r)
      BY <1>2, <3>3, PayloadParts
    <3>5. SubSeq(p, 1, e + r) = p
      BY <1>2, <3>3, SubSeqFull
    <3>6. PICK a, b, c : a = prior /\ b = SubSeq(p, 1, e) /\ c = SubSeq(p, e + 1, e + r)
      OBVIOUS
    <3>6a. a \in Seq(Byte) /\ b \in Seq(Byte) /\ c \in Seq(Byte)
      BY <1>8, <3>2, <3>4, <3>6
    <3>7. (a \o b) \o c = a \o (b \o c)
      BY <3>6a, ConcatAssociative
    <3>8. all = new.payload \o c
      BY <1>9, <1>12, <3>2, <3>4, <3>5, <3>6, <3>7
    <3> QED BY <3>4, <3>6, <3>8
  <2>4. new.payload \in Seq(Byte)
    BY <1>9, MessageType
  <2> QED BY <2>2, <2>3, <2>4, RejectedStays
<1>16. PICK bad : bad <=> \/ new.utf8 = utf8_reject
                          \/ /\ k = m_bytes_needed /\ frame.fin /\ frame.op = "text"
                             /\ new.utf8 # utf8_accept
  OBVIOUS
<1>17. msg[m_current_msg] = old
  BY <1>6
<1>18. CASE bad
  <2>1. Fails("invalid_utf8")
    BY <1>16, <1>17, <1>18 DEF Application, Longer, Done
  <2>2. ~Whole!Taken(frame, q)
    BY <1>7, <1>9, <1>13, <1>14, <1>15, <1>16, <1>18
  <2> QED BY <1>1, <1>11, <2>1, <2>2, FailsStep
<1>19. CASE ~bad
  <2>1. /\ avail' = avail - k
        /\ msg' = [msg EXCEPT !.data = new]
        /\ CASE k = m_bytes_needed /\ ~frame.fin -> reset_headers
             [] k = m_bytes_needed /\ frame.fin ->
                  m_state' = "READY" /\ m_bytes_needed' = 0 /\ frame' = frame
             [] OTHER -> m_state' = m_state /\ m_bytes_needed' = m_bytes_needed - k
                         /\ frame' = frame
        /\ UNCHANGED <<m_current_msg, ec, handed>>
    BY <1>6, <1>16, <1>17, <1>19 DEF Application, Longer, Done
  <2>2. /\ msg' \in [data : Message \cup {None}, control : Message \cup {None}]
        /\ msg'.data = new
    BY <1>6, <1>9, <2>1, MsgType
  <2>3. DataInv'
    BY <1>6, <1>9, <1>16, <1>19, <2>2 DEF DataInv
  <2>4. CASE k = m_bytes_needed /\ ~frame.fin
    <3>1. m_state' = "HEADER_BASIC" /\ m_bytes_needed' = 2 /\ frame' = None
      BY <2>1, <2>4 DEF reset_headers
    <3>2. FramesInv'
      BY <1>1, <1>3, <1>6, <2>1, <2>2, <2>3, <3>1
         DEF FramesInv, FramesTypeOK, HeaderInv, ControlInv, PartInv, ReadyInv, Taking
    <3>3. Partial' = [op |-> old.op, payload |-> all]
      BY <1>9, <1>14, <2>2, <2>4, <3>1, PartialIs DEF PartialOf, Begun
    <3>4. Whole!Taken(frame, q) \/ Whole!UnevenEnd(frame, q)
      BY <1>7, <1>9, <1>13, <1>14, <1>16, <1>19, <2>4
    <3> QED BY <1>1, <1>11, <1>13, <2>1, <2>4, <3>1, <3>2, <3>3, <3>4 DEF Whole!Take
  <2>5. CASE ~(k = m_bytes_needed /\ ~frame.fin)
    <3>1. /\ frame' = frame /\ m_state' \in {"APPLICATION", "READY"}
          /\ m_bytes_needed' = m_bytes_needed - k /\ m_bytes_needed' \in Nat
          /\ m_state' = "READY" => m_bytes_needed' = 0 /\ frame.fin /\ k = m_bytes_needed
      BY <1>1, <1>2, <1>3, <2>1, <2>5
    <3>2. m_bytes_needed' <= Len(p) /\ Len(p) - m_bytes_needed' = d + k
      BY <1>1, <1>2, <1>3, <1>4, <3>1
    <3>3. FramesTypeOK'
      BY <1>1, <1>3, <1>6, <2>1, <2>2, <3>1 DEF FramesTypeOK
    <3>4. HeaderInv'
      BY <1>1, <2>1, <3>1, <3>2 DEF HeaderInv, Taking, validate_incoming_extended_header, IsControl
    <3>5. ControlInv'
      BY <1>1, <3>1 DEF ControlInv, IsControl
    <3>6. ReadyInv'
      BY <1>1, <1>16, <1>19, <2>1, <2>2, <3>1 DEF ReadyInv
    <3>7. PartInv'
      <4>1. Done' = d + k
        BY <3>1, <3>2 DEF Done
      <4> HIDE DEF d, k, old, new, bytes
      <4> QED BY <1>6, <1>7, <1>9, <2>1, <2>2, <3>1, <4>1 DEF PartInv
    <3>8. Partial' = q
      <4>1. PICK f, m, n, st : f = frame /\ m = new /\ n = m_bytes_needed' /\ st = m_state'
        OBVIOUS
      <4>2. /\ f \in Whole!Frame /\ n \in 0 .. Len(f.payload) /\ m \in Message /\ ~IsControl(f)
            /\ m.payload = prior \o SubSeq(f.payload, 1, Len(f.payload) - n)
            /\ st \in {"APPLICATION", "READY"}
        <5>1. f \in Whole!Frame /\ ~IsControl(f) /\ m \in Message /\ st \in {"APPLICATION", "READY"}
          BY <1>1, <1>9, <3>1, <4>1
        <5>2. n \in 0 .. Len(f.payload)
          BY <1>2, <3>1, <3>2, <4>1
        <5>3. m.payload = prior \o SubSeq(f.payload, 1, Len(f.payload) - n)
          <6>1. PICK j : j = d + k
            OBVIOUS
          <6>2. new.payload = prior \o SubSeq(p, 1, j) /\ Len(p) - m_bytes_needed' = j
            BY <1>9, <3>2, <6>1
          <6> QED BY <4>1, <6>2
        <5> QED BY <5>1, <5>2, <5>3
      <4>3. PartialOf(st, f, n, m) = IF f.op # "continuation" THEN None
                                     ELSE [op |-> m.op, payload |-> prior]
        BY <4>2, PartialPart
      <4> QED BY <1>9, <1>10, <2>2, <3>1, <4>1, <4>3, PartialIs
    <3>9. FramesInv'
      BY <2>3, <3>3, <3>4, <3>5, <3>6, <3>7 DEF FramesInv
    <3> QED BY <1>11, <2>1, <3>1, <3>8, <3>9 DEF Whole!readerVars
  <2> QED BY <2>4, <2>5
<1> QED BY <1>18, <1>19

LEMMA ApplicationStep ==
  ASSUME FramesInv, Application
  PROVE  FramesInv' /\ (Whole!Take \/ Whole!Refuse \/ UNCHANGED Whole!readerVars)
BY ControlBytesStep, DataBytesStep

\* A message that is complete is handed over, and its last frame is taken.
LEMMA GetMessageStep ==
  ASSUME FramesInv, get_message
  PROVE  FramesInv' /\ Whole!Take
<1> DEFINE p == frame.payload
<1>1. /\ frame # None /\ frame \in Whole!Frame /\ m_state = "READY" /\ Taking /\ frame.fin
      /\ frame.flaw = "none" /\ frame.op # "reserved" /\ validate_incoming_extended_header(frame)
      /\ IsControl(frame) => frame.form = "7bit"
      /\ m_bytes_needed = 0 /\ ec = "none"
  BY DEF get_message, FramesInv, FramesTypeOK, HeaderInv, ReadyInv, Taking
<1>2. p \in Seq(Byte) /\ Len(p) \in Nat
  BY <1>1, FrameType
<1>3. Done = Len(p) /\ SubSeq(p, 1, Done) = p
  BY <1>1, <1>2, SubSeqFull DEF Done
<1>4. /\ msg \in [data : Message \cup {None}, control : Message \cup {None}]
      /\ m_current_msg \in {"data", "control"} /\ avail \in Nat
  BY DEF FramesInv, FramesTypeOK
<1>5. /\ handed' = [op |-> msg[m_current_msg].op, payload |-> msg[m_current_msg].payload]
      /\ msg' = [msg EXCEPT ![m_current_msg] = None]
      /\ m_state' = "HEADER_BASIC" /\ m_bytes_needed' = 2 /\ frame' = None
      /\ UNCHANGED <<avail, m_current_msg, ec>>
  BY DEF get_message, reset_headers
<1>6. msg' \in [data : Message \cup {None}, control : Message \cup {None}]
      /\ (m_current_msg = "data" => msg'.data = None)
      /\ (m_current_msg = "control" => msg'.data = msg.data)
  <2>1. CASE m_current_msg = "data"
    BY <1>4, <1>5, <2>1, MsgType
  <2>2. CASE m_current_msg = "control"
    BY <1>4, <1>5, <2>2, MsgType
  <2> QED BY <1>4, <2>1, <2>2
<1>7. FramesInv'
  <2>1. DataInv'
    BY <1>4, <1>6 DEF FramesInv, DataInv
  <2> QED BY <1>4, <1>5, <1>6, <2>1
          DEF FramesInv, FramesTypeOK, HeaderInv, ControlInv, PartInv, ReadyInv, Taking
<1>8. Partial' = Begun(msg'.data)
  BY <1>5, PartialIs DEF PartialOf
<1>9. CASE IsControl(frame)
  <2>1. /\ m_current_msg = "control" /\ msg.control.op = "control" /\ msg.control.payload = p
    BY <1>1, <1>3, <1>9 DEF FramesInv, ControlInv
  <2>2. Partial' = Partial
    BY <1>1, <1>6, <1>8, <1>9, <2>1, PartialIs DEF PartialOf
  <2>3. /\ Whole!Taken(frame, Partial)
        /\ Whole!With(frame, None) = [op |-> "control", payload |-> p]
    BY <1>1, <1>9, TakenControl
  <2>4. handed' = Whole!With(frame, None)
    BY <1>5, <2>1, <2>3
  <2> QED BY <1>1, <1>5, <1>7, <1>9, <2>2, <2>3, <2>4 DEF Whole!Take, IsControl
<1>10. CASE ~IsControl(frame)
  <2>1. PICK old : old = msg.data
    OBVIOUS
  <2>2. /\ m_current_msg = "data" /\ old # None /\ old \in Message
        /\ old.op \in {"text", "binary"} /\ old.utf8 # utf8_reject
        /\ old.utf8 = IF old.op = "text" THEN Decoded(utf8_accept, old.payload) ELSE utf8_accept
        /\ frame.op = "text" => old.utf8 = utf8_accept
    BY <1>1, <1>4, <1>10, <2>1 DEF FramesInv, PartInv, DataInv, ReadyInv
  <2>3. PICK prior \in Seq(Byte) :
          /\ old.payload = prior \o p
          /\ Len(prior) + Len(p) <= MaxMessage
          /\ frame.op # "continuation" => prior = <<>> /\ old.op = frame.op
    BY <1>1, <1>3, <1>10, <2>1 DEF FramesInv, PartInv
  <2>4. PICK q : q = IF frame.op # "continuation" THEN None
                     ELSE [op |-> old.op, payload |-> prior]
    OBVIOUS
  <2>5. Partial = q
    <3>1. PICK f, m, n : f = frame /\ m = old /\ n = m_bytes_needed
      OBVIOUS
    <3>2. f \in Whole!Frame /\ m \in Message /\ ~IsControl(f) /\ n \in 0 .. Len(f.payload)
      BY <1>1, <1>2, <1>10, <2>2, <3>1
    <3>3. m.payload = prior \o SubSeq(f.payload, 1, Len(f.payload) - n)
      BY <1>3, <2>3, <3>1 DEF Done
    <3>4. PartialOf("READY", f, n, m) = IF f.op # "continuation" THEN None
                                        ELSE [op |-> m.op, payload |-> prior]
      BY <3>2, <3>3, PartialPart
    <3> QED BY <1>1, <2>1, <2>4, <3>1, <3>4, PartialIs
  <2>6. /\ Whole!With(frame, q) = [op |-> old.op, payload |-> old.payload]
        /\ Whole!Taken(frame, q) \/ Whole!UnevenEnd(frame, q)
    <3>1. PICK f, op : f = frame /\ op = old.op
      OBVIOUS
    <3>2. /\ f \in Whole!Frame /\ op \in {"text", "binary"} /\ ~IsControl(f) /\ f.flaw = "none"
          /\ f.op # "reserved" /\ validate_incoming_extended_header(f)
          /\ q = IF f.op # "continuation" THEN None ELSE [op |-> op, payload |-> prior]
          /\ f.op # "continuation" => prior = <<>> /\ op = f.op
      BY <1>1, <1>10, <2>2, <2>3, <2>4, <3>1
    <3>3. /\ Whole!With(f, q) = [op |-> op, payload |-> prior \o f.payload]
          /\ Whole!Taken(f, q) \/ Whole!UnevenEnd(f, q) <=>
               /\ Len(prior) + Len(f.payload) <= MaxMessage
               /\ op = "text" => Decoded(utf8_accept, prior \o f.payload) # utf8_reject
               /\ f.op = "text" /\ f.fin =>
                    Decoded(utf8_accept, prior \o f.payload) = utf8_accept
      BY <3>2, TakenPart
    <3>4. Whole!Taken(f, q) \/ Whole!UnevenEnd(f, q)
      BY <2>2, <2>3, <3>1, <3>3
    <3> QED BY <2>3, <3>1, <3>3, <3>4
  <2>7. Partial' = None
    BY <1>6, <1>8, <2>2 DEF Begun
  <2>8. handed' = [op |-> old.op, payload |-> old.payload]
    BY <1>5, <2>1, <2>2
  <2> QED BY <1>1, <1>5, <1>7, <1>10, <2>5, <2>6, <2>7, <2>8 DEF Whole!Take, IsControl
<1> QED BY <1>9, <1>10

\* Every step of the processor is a step of the whole-frame reader, or none.
LEMMA FramesStep ==
  ASSUME FramesInv, [FramesNext]_frameVars
  PROVE  FramesInv' /\ [Whole!Send \/ Whole!Take \/ Whole!Refuse]_(Whole!readerVars)
<1>1. CASE SendFrame
  BY <1>1, SendFrameStep
<1>2. ASSUME NEW n \in 1 .. MaxRead, Read(n)
      PROVE  FramesInv' /\ UNCHANGED Whole!readerVars
  BY <1>2, ReadStep
<1>3. CASE HeaderGoesOn
  BY <1>3, HeaderGoesOnStep
<1>4. CASE HeaderBasic
  BY <1>4, HeaderBasicStep
<1>5. CASE HeaderExtended
  BY <1>5, HeaderExtendedStep
<1>6. CASE Application
  BY <1>6, ApplicationStep
<1>7. CASE get_message
  BY <1>7, GetMessageStep
<1>8. CASE UNCHANGED frameVars
  <2>1. FramesInv'
    BY <1>8 DEF frameVars, FramesInv, FramesTypeOK, HeaderInv, DataInv, ControlInv, PartInv,
                ReadyInv, Taking, Done, IsControl, validate_incoming_basic_header,
                validate_incoming_extended_header
  <2>2. Partial' = Partial
    BY <1>8, PartialIs DEF frameVars, PartialOf
  <2> QED BY <1>8, <2>1, <2>2 DEF frameVars, Whole!readerVars
<1> QED BY <1>1, <1>2, <1>3, <1>4, <1>5, <1>6, <1>7, <1>8 DEF FramesNext, consume

\* For every sequence of frames, cut into reads in every way, and all limits: frames are
\* taken and refused as whole frames are (hybi13.hpp's consume).
THEOREM FramesReadWhole == FramesSpec => ImplementsReader
<1>1. FramesInit => FramesInv /\ Whole!Init
  BY FramesInitial
<1>2. FramesInv /\ [FramesNext]_frameVars
        => FramesInv' /\ [Whole!Send \/ Whole!Take \/ Whole!Refuse]_(Whole!readerVars)
  BY FramesStep
<1> QED BY <1>1, <1>2, PTL DEF FramesSpec, ImplementsReader, Whole!Spec
=============================================================================
