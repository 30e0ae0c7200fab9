---------------------------- MODULE FrameReader ----------------------------
(***************************************************************************)
(* What reading websocket messages promises, frame by frame: the server    *)
(* sends a frame; it is taken, as the next part of the message or as a     *)
(* control frame between two parts, or refused.  Reads, chunks and header  *)
(* bytes do not occur.                                                     *)
(***************************************************************************)
EXTENDS Utf8, SequencesExt

CONSTANTS None,         \* no frame, no message
          PayloadBytes, \* bound: the bytes of payloads
          MaxPayload,   \* bound: bytes of a payload
          Basic,        \* payload_size_basic, 125 in the code
          Extended,     \* payload_size_extended, 65535 in the code
          MaxMessage    \* m_max_message_size, 32000000 in the code

\* "control" is a close, ping or pong, "reserved" an opcode without a meaning.
Opcodes == {"continuation", "text", "binary", "control", "reserved"}
Flaws == {"none", "rsv", "masked"}
Forms == {"7bit", "16bit", "64bit"}

Largest == [form \in Forms |-> CASE form = "7bit" -> Basic [] form = "16bit" -> Extended
                                 [] OTHER -> MaxPayload]

\* A frame whose opcode or bits are refused is sent without a payload.
Frame ==
  {f \in [fin : BOOLEAN, op : Opcodes, flaw : Flaws, form : Forms,
          payload : BoundedSeq(PayloadBytes, MaxPayload)] :
     /\ Len(f.payload) <= Largest[f.form]
     /\ f.flaw # "none" \/ f.op = "reserved" => f.payload = <<>>}

Validated(bytes) == Decoded(utf8_accept, bytes)

VARIABLES frame,  \* the frame that is being sent, or None
          partial, \* the message of which frames have been taken, or None
          out,    \* the message handed over when the last frame was taken, or None
          refused

readerVars == <<frame, partial, out, refused>>

\* The message that f begins or goes on with.
With(f, m) == IF m = None THEN [op |-> f.op, payload |-> f.payload]
                          ELSE [m EXCEPT !.payload = @ \o f.payload]

\* A frame's header follows the protocol at this place of the stream.
Regular(f, m) ==
  /\ f.flaw = "none" /\ f.op # "reserved"
  /\ f.op = "control" => f.fin /\ f.form = "7bit"
  /\ f.op = "continuation" => m # None
  /\ f.op \in {"text", "binary"} => m = None
  /\ f.form = "16bit" => Len(f.payload) > Basic
  /\ f.form = "64bit" => Len(f.payload) > Extended

\* A text is UTF-8 so far, and ends with a whole character (hybi13.hpp:512, 536).
Taken(f, m) ==
  /\ Regular(f, m)
  /\ f.op # "control" =>
       LET all == With(f, m)
       IN /\ Len(all.payload) <= MaxMessage
          /\ all.op = "text" =>
               /\ Validated(all.payload) # utf8_reject
               /\ f.fin => Validated(all.payload) = utf8_accept

\* Where the code departs from that: its last check looks at the opcode of the last
\* frame, so that a text in fragments may end inside a character.
UnevenEnd(f, m) ==
  /\ Regular(f, m) /\ f.op = "continuation" /\ f.fin /\ m.op = "text"
  /\ LET all == With(f, m)
     IN /\ Len(all.payload) <= MaxMessage
        /\ Validated(all.payload) \notin {utf8_accept, utf8_reject}

Init == frame = None /\ partial = None /\ out = None /\ refused = FALSE

Send == /\ frame = None /\ ~refused
        /\ frame' \in Frame
        /\ out' = None
        /\ UNCHANGED <<partial, refused>>

Take == /\ frame # None /\ ~refused
        /\ Taken(frame, partial) \/ UnevenEnd(frame, partial)
        /\ frame' = None
        /\ IF frame.op = "control"
             THEN out' = With(frame, None) /\ UNCHANGED partial
             ELSE /\ out' = IF frame.fin THEN With(frame, partial) ELSE None
                  /\ partial' = IF frame.fin THEN None ELSE With(frame, partial)
        /\ UNCHANGED refused

Refuse == /\ frame # None /\ ~refused /\ ~Taken(frame, partial)
          /\ refused' = TRUE
          /\ UNCHANGED <<frame, partial, out>>

Spec == Init /\ [][Send \/ Take \/ Refuse]_readerVars
=============================================================================
