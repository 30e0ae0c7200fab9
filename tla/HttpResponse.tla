---------------------------- MODULE HttpResponse ----------------------------
(***************************************************************************)
(* The provider reads the server's answer to its upgrade request: http's   *)
(* response::consume, fed by the reads of handle_read_http_response.  A    *)
(* read may end anywhere, between the two bytes of a line's end too, and   *)
(* the last one may hold the first frames already.                         *)
(*                                                                         *)
(* A byte stands for what it makes of a line: "status" and "header" for a  *)
(* line that process and process_header accept, "length" for a             *)
(* Content-Length header, "bad" for one they do not accept, "frame" for    *)
(* what follows the answer.                                                *)
(***************************************************************************)
EXTENDS Integers, SequencesExt, FiniteSetsExt

CONSTANTS Answers,     \* bound: what the server may send
          MaxChunk,    \* bound: bytes in one read
          MaxHeader    \* max_header_size, 16000 in the code

Piece == {"CR", "LF", "status", "header", "length", "bad", "frame"}

ASSUME ResponseAssumption ==
  Answers \subseteq Seq(Piece) /\ MaxChunk \in Nat \ {0} /\ MaxHeader \in Nat

VARIABLES
  answer,  \* what the server sends: the answer and what it sends after it
  arrived, \* how much of it has been read
  response \* m_state, m_buf, m_header_bytes, m_read; the bytes of the read that
           \*   consume is given (0 outside of it), and those it took of all reads

responseVars == <<answer, arrived, response>>

End == <<"CR", "LF">>
BodyLength == 1   \* the value of the Content-Length header
Status(line) == line[1] = "status"
Header(line) == line[1] \in {"header", "length"}

\* sizeof(header_delimiter): with the zero at the end of the string.
Sizeof == Len(End) + 1

ResponseInit ==
  /\ answer = <<>> /\ arrived = 0
  /\ response = [state |-> "RESPONSE_LINE", buf |-> <<>>, header_bytes |-> 0, read |-> 0,
                 len |-> 0, taken |-> 0]
-----------------------------------------------------------------------------
Answer == /\ answer = <<>>
          /\ answer' \in Answers
          /\ UNCHANGED <<arrived, response>>

headers_ready == response.state \in {"BODY", "DONE"}

\* n bytes are read; consume appends them to m_buf.
ReadResponse(n) ==
  /\ response.len = 0 /\ response.state \in {"RESPONSE_LINE", "HEADERS"}
  /\ arrived + n <= Len(answer)
  /\ arrived' = arrived + n
  /\ response' = [response EXCEPT !.buf = @ \o SubSeq(answer, arrived + 1, arrived + n),
                                  !.len = n]
  /\ UNCHANGED answer

\* Where the first line of m_buf ends: the place before its delimiter.
Ends == {n \in 0 .. Len(response.buf) - 2 : SubSeq(response.buf, n + 1, n + 2) = End}

\* Mutant: the ends of lines are not counted.
CountedText == response.header_bytes + (IF Ends = {} THEN Len(response.buf) ELSE Min(Ends))

LineEnd == IF Ends = {} THEN Len(response.buf) ELSE Min(Ends)
Counted == response.header_bytes + LineEnd + Sizeof

ResponseFails ==
  /\ response' = [response EXCEPT !.state = "failed", !.len = 0]
  /\ UNCHANGED <<answer, arrived>>

\* The loop is at a line, or at the rest of one.
Consuming == response.len > 0 /\ response.state \in {"RESPONSE_LINE", "HEADERS"}

TooLarge == Consuming /\ Counted > MaxHeader /\ ResponseFails

OutOfBytes ==
  /\ Consuming /\ Counted <= MaxHeader /\ Ends = {}
  /\ response' = [response EXCEPT !.header_bytes = Counted - Len(response.buf),
                                  !.taken = @ + response.len, !.len = 0]
  /\ UNCHANGED <<answer, arrived>>

Line ==
  /\ Consuming /\ Counted <= MaxHeader /\ Ends # {} /\ LineEnd > 0
  /\ LET line == SubSeq(response.buf, 1, LineEnd)
         fits == IF response.state = "RESPONSE_LINE" THEN Status(line) ELSE Header(line)
     IN IF fits
          THEN /\ response' = [response EXCEPT !.state = "HEADERS", !.header_bytes = Counted,
                                 !.read = IF line[1] = "length" THEN BodyLength ELSE @,
                                 !.buf = SubSeq(@, LineEnd + 3, Len(@))]
               /\ UNCHANGED <<answer, arrived>>
          ELSE ResponseFails

\* Mutant: the end of the blank line is left to the frames.
BlankLineKept ==
  /\ Consuming /\ Counted <= MaxHeader /\ Ends # {} /\ LineEnd = 0
  /\ IF response.state = "RESPONSE_LINE" THEN ResponseFails
     ELSE /\ response' = [response EXCEPT !.state = "DONE", !.buf = <<>>, !.len = 0,
                            !.taken = @ + response.len - Len(response.buf)]
          /\ UNCHANGED <<answer, arrived>>

\* The header ends, and of the body what this read holds is taken.
BlankLine ==
  /\ Consuming /\ Counted <= MaxHeader /\ Ends # {} /\ LineEnd = 0
  /\ LET read == response.len - Len(response.buf) + Len(End)
         body == IF response.len - read < response.read THEN response.len - read
                                                        ELSE response.read
     IN IF response.state = "RESPONSE_LINE" THEN ResponseFails
        ELSE /\ response' = [response EXCEPT
                  !.state = IF read < response.len /\ body = response.read THEN "DONE" ELSE "BODY",
                  !.header_bytes = Counted, !.buf = <<>>, !.len = 0,
                  !.read = @ - body, !.taken = @ + read + body]
             /\ UNCHANGED <<answer, arrived>>

ResponseNext ==
  \/ Answer
  \/ \E n \in 1 .. MaxChunk : ReadResponse(n)
  \/ TooLarge \/ OutOfBytes \/ Line \/ BlankLine

ResponseSpec == ResponseInit /\ [][ResponseNext]_responseVars
-----------------------------------------------------------------------------
\* The first blank line of what has arrived ends here; 0 if there is none.
HeaderEnd ==
  LET all == SubSeq(answer, 1, arrived)
      blank == {n \in 4 .. arrived : SubSeq(all, n - 3, n) = End \o End}
  IN IF blank = {} THEN 0 ELSE Min(blank)

\* A line of the header is a Content-Length header.
LengthGiven ==
  \E n \in 3 .. HeaderEnd : SubSeq(answer, n - 2, n) = End \o <<"length">>

\* What has arrived of the body that a Content-Length header announces.
BodyArrived ==
  LET behind == arrived - HeaderEnd
  IN IF ~LengthGiven THEN 0 ELSE IF behind >= BodyLength THEN BodyLength ELSE behind

\* Whatever the reads are, the header is ready with the read that completes its blank
\* line and not before, and the frames are read from the first byte behind that line.
\* With a Content-Length header the code departs from http/response.hpp:70-72, "bytes
\* left unprocessed means bytes left over after the final header delimiters": of the
\* body, what came in the same read is taken too.  What comes of it in a later read is
\* read as frames, so that only a body that ends in this read is skipped as a whole.
FramesFollowHeader ==
  response.len = 0 =>
    /\ headers_ready => HeaderEnd # 0 /\ response.taken = HeaderEnd + BodyArrived
    /\ response.state \in {"RESPONSE_LINE", "HEADERS"} =>
         HeaderEnd = 0 /\ response.taken = arrived

\* No header of more than max_header_size bytes is accepted, in however many reads;
\* m_header_bytes counts no byte of it too few.
HeaderBounded ==
  /\ headers_ready => HeaderEnd <= MaxHeader
  /\ Consuming => response.header_bytes >= arrived - Len(response.buf)
=============================================================================
