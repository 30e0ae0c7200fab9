------------------------------- MODULE Frames -------------------------------
(***************************************************************************)
(* The frame reader of the provider: websocketpp's hybi13 processor, fed   *)
(* by the reads of handle_read_frame.  A read returns any number of bytes, *)
(* so that it may end inside a header and hold several frames; consume     *)
(* goes on from the state it was left in.                                  *)
(*                                                                         *)
(* What the server sends is decided when the processor comes to look at    *)
(* it: a frame at its first byte, of bytes that may have been read before. *)
(***************************************************************************)
EXTENDS Utf8, SequencesExt

CONSTANTS None, PayloadBytes, MaxPayload, Basic, Extended, MaxMessage,
          MaxRead \* bound: bytes in one read

ASSUME FramesAssumption ==
  /\ PayloadBytes \subseteq Byte
  /\ MaxPayload \in Nat /\ Basic \in Nat /\ Extended \in Nat /\ MaxMessage \in Nat
  /\ Basic < Extended /\ MaxRead \in Nat \ {0}

VARIABLES
  frame,          \* the frame being read, or None
  avail,          \* bytes of the read that consume has not processed
  m_state,
  m_bytes_needed,
  msg,            \* m_data_msg and m_control_msg: opcode, payload, validator, or None
  m_current_msg,
  ec,             \* the error consume returned
  handed          \* what get_message returned for the last frame, or None

frameVars == <<frame, avail, m_state, m_bytes_needed, msg, m_current_msg, ec, handed>>

FramesInit ==
  /\ frame = None /\ avail = 0
  /\ m_state = "HEADER_BASIC" /\ m_bytes_needed = 2
  /\ msg = [data |-> None, control |-> None] /\ m_current_msg = "data"
  /\ ec = "none" /\ handed = None

Smaller(a, b) == IF a < b THEN a ELSE b
IsControl(f) == f.op = "control"

\* The message that the frames taken so far have begun: what the data message was
\* before the frame being read.
Partial ==
  LET m == msg.data
      reading == m_state \in {"APPLICATION", "READY"} /\ ~IsControl(frame)
  IN CASE m = None -> None
       [] m # None /\ reading ->
            IF frame.op # "continuation" THEN None
            ELSE [op |-> m.op,
                  payload |-> SubSeq(m.payload, 1, Len(m.payload)
                                                     - (Len(frame.payload) - m_bytes_needed))]
       [] OTHER -> [op |-> m.op, payload |-> m.payload]

Whole == INSTANCE FrameReader
           WITH out <- handed, refused <- (ec # "none"), partial <- Partial

\* A message that is being read, with its validator.
Message == [op : Whole!Opcodes, payload : Seq(Byte), utf8 : 0 .. 8]

ASSUME NoneAssumption ==
  None \notin Message \cup Whole!Frame \cup [op : Whole!Opcodes, payload : Seq(Byte)]
-----------------------------------------------------------------------------
\* The server.
SendFrame ==
  /\ frame = None /\ avail > 0 /\ ec = "none"
  /\ frame' \in Whole!Frame
  /\ handed' = None
  /\ UNCHANGED <<avail, m_state, m_bytes_needed, msg, m_current_msg, ec>>

\* Mutant: the loop ends with the bytes of the read.
LoopsWhileBytes == ec = "none" /\ m_state # "READY" /\ avail > 0

\* The condition of consume's loop.
Loops == ec = "none" /\ m_state # "READY" /\ (avail > 0 \/ m_bytes_needed = 0)

\* handle_read_frame is called with n bytes.
Read(n) ==
  /\ ec = "none" /\ m_state # "READY" /\ avail = 0 /\ m_bytes_needed > 0
  /\ avail' = n
  /\ UNCHANGED <<frame, m_state, m_bytes_needed, msg, m_current_msg, ec, handed>>

Fails(error) ==
  /\ ec' = error
  /\ UNCHANGED <<frame, avail, m_state, m_bytes_needed, msg, m_current_msg, handed>>

\* As many bytes as the processor needs, or as there are.
Share == Smaller(m_bytes_needed, avail)

TakeBytes ==
  /\ avail' = avail - Share
  /\ m_bytes_needed' = m_bytes_needed - Share
  /\ UNCHANGED <<frame, m_state, msg, m_current_msg, ec, handed>>

\* A header is not complete.
HeaderGoesOn ==
  /\ Loops /\ frame # None
  /\ m_state \in {"HEADER_BASIC", "HEADER_EXTENDED"}
  /\ Share < m_bytes_needed
  /\ TakeBytes

validate_incoming_basic_header(f) ==
  /\ IsControl(f) => f.form = "7bit"
  /\ f.flaw # "rsv" /\ f.op # "reserved"
  /\ IsControl(f) => f.fin
  /\ msg.data = None => f.op # "continuation"
  /\ msg.data # None => IsControl(f) \/ f.op = "continuation"
  /\ f.flaw # "masked"

HeaderBasic ==
  /\ Loops /\ frame # None /\ m_state = "HEADER_BASIC" /\ Share = m_bytes_needed
  /\ IF validate_incoming_basic_header(frame)
       THEN /\ avail' = avail - Share
            /\ m_state' = "HEADER_EXTENDED"
            /\ m_bytes_needed' = CASE frame.form = "7bit" -> 0
                                   [] frame.form = "16bit" -> 2
                                   [] frame.form = "64bit" -> 8
            /\ UNCHANGED <<frame, msg, m_current_msg, ec, handed>>
       ELSE Fails("protocol_error")

validate_incoming_extended_header(f) ==
  /\ f.form = "16bit" => Len(f.payload) > Basic
  /\ f.form = "64bit" => Len(f.payload) > Extended

NewMessage(f) == [op |-> f.op, payload |-> <<>>, utf8 |-> utf8_accept]

\* Mutant: each frame begins with a new validator.
NextMsgRestarted(f) ==
  CASE IsControl(f) -> [msg EXCEPT !.control = NewMessage(f)]
    [] ~IsControl(f) /\ msg.data = None -> [msg EXCEPT !.data = NewMessage(f)]
    [] OTHER -> [msg EXCEPT !.data.utf8 = utf8_accept]

\* The message a frame's payload goes into: of a fragment, the one begun.
NextMsg(f) ==
  CASE IsControl(f) -> [msg EXCEPT !.control = NewMessage(f)]
    [] ~IsControl(f) /\ msg.data = None -> [msg EXCEPT !.data = NewMessage(f)]
    [] OTHER -> msg

TooBig(f) ==
  ~IsControl(f) /\ Len(f.payload) + (IF msg.data = None THEN 0 ELSE Len(msg.data.payload))
                     > MaxMessage

HeaderExtended ==
  /\ Loops /\ m_state = "HEADER_EXTENDED" /\ Share = m_bytes_needed
  /\ CASE ~validate_incoming_extended_header(frame) -> Fails("non_minimal_encoding")
       [] validate_incoming_extended_header(frame) /\ TooBig(frame) -> Fails("message_too_big")
       [] OTHER -> /\ avail' = avail - Share
                   /\ m_state' = "APPLICATION"
                   /\ m_bytes_needed' = Len(frame.payload)
                   /\ msg' = NextMsg(frame)
                   /\ m_current_msg' = IF IsControl(frame) THEN "control" ELSE "data"
                   /\ UNCHANGED <<frame, ec, handed>>

reset_headers == m_state' = "HEADER_BASIC" /\ m_bytes_needed' = 2 /\ frame' = None

\* process_payload_bytes and, for the last bytes of a frame, what follows.  On an
\* error nothing of the message is read any more.
Application ==
  /\ Loops /\ m_state = "APPLICATION"
  /\ LET done == Len(frame.payload) - m_bytes_needed
         bytes == SubSeq(frame.payload, done + 1, done + Share)
         old == msg[m_current_msg]
         new == [old EXCEPT !.payload = @ \o bytes,
                            !.utf8 = IF old.op = "text" THEN Decoded(@, bytes) ELSE @]
         last == Share = m_bytes_needed
     IN IF \/ new.utf8 = utf8_reject
           \/ last /\ frame.fin /\ frame.op = "text" /\ new.utf8 # utf8_accept
          THEN Fails("invalid_utf8")
          ELSE /\ avail' = avail - Share
               /\ msg' = [msg EXCEPT ![m_current_msg] = new]
               /\ CASE last /\ ~frame.fin -> reset_headers
                    [] last /\ frame.fin -> /\ m_state' = "READY" /\ m_bytes_needed' = 0
                                            /\ UNCHANGED frame
                    [] OTHER -> /\ m_bytes_needed' = m_bytes_needed - Share
                                /\ UNCHANGED <<frame, m_state>>
               /\ UNCHANGED <<m_current_msg, ec, handed>>

\* handle_read_frame takes the message before it calls consume again.
get_message ==
  /\ m_state = "READY"
  /\ handed' = [op |-> msg[m_current_msg].op, payload |-> msg[m_current_msg].payload]
  /\ msg' = [msg EXCEPT ![m_current_msg] = None]
  /\ reset_headers
  /\ UNCHANGED <<avail, m_current_msg, ec>>

consume == HeaderGoesOn \/ HeaderBasic \/ HeaderExtended \/ Application

FramesNext == SendFrame \/ (\E n \in 1 .. MaxRead : Read(n)) \/ consume \/ get_message

FramesSpec == FramesInit /\ [][FramesNext]_frameVars
-----------------------------------------------------------------------------
\* However the bytes are cut into reads, frames are taken and refused as whole
\* frames are: no read boundary, no control frame between two fragments and no
\* length of a header changes a message, or whether it is accepted.  The end of a
\* text is another matter: see UnevenEnd and TextsAreWhole.
ImplementsReader == Whole!Spec

\* hybi13.hpp:536: "ensure that text messages end on a valid UTF8 code point".
TextsAreWhole ==
  handed # None /\ handed.op = "text" => Decoded(utf8_accept, handed.payload) = utf8_accept

\* What has been read is processed to its end: every complete frame is taken or
\* refused without a further read, those without a payload too.
ReadsEnd == avail > 0 ~> (avail = 0 /\ m_bytes_needed > 0) \/ ec # "none"
=============================================================================
