------------------------------ MODULE Session ------------------------------
(***************************************************************************)
(* What a websocket connection promises its program, as the comments on    *)
(* the handlers in connection.hpp have it: a connection attempt either     *)
(* opens or fails; messages are given to the program while it is open; it  *)
(* always ends, and the program is told once, and truly, how.              *)
(*                                                                         *)
(* Refuse is where the code departs from them (connection_impl.hpp:1619):  *)
(* a connection whose extensions cannot be negotiated is told to have      *)
(* failed, opens nevertheless, and is told closed when it closes.          *)
(***************************************************************************)
EXTENDS Naturals, Sequences

VARIABLES phase,   \* "connecting", "open", "closing" or "closed"
          opened,  \* the connection was open
          refused, \* though its extensions could not be negotiated
          heard,   \* messages given to the program
          told     \* the ends the program was told: "failed", "closed"

sessionState == <<phase, opened, refused, heard, told>>

SessionInit ==
  /\ phase = "connecting" /\ opened = FALSE /\ refused = FALSE
  /\ heard = 0 /\ told = <<>>

Opens == /\ phase = "connecting"
         /\ phase' = "open" /\ opened' = TRUE
         /\ UNCHANGED <<heard, told>>

Open == Opens /\ UNCHANGED refused

Refuse == Opens /\ refused' = TRUE

Hear == /\ phase = "open"
        /\ heard' = heard + 1
        /\ UNCHANGED <<phase, opened, refused, told>>

StartClosing == /\ phase = "open"
                /\ phase' = "closing"
                /\ UNCHANGED <<opened, refused, heard, told>>

Close == /\ phase # "closed"
         /\ phase' = "closed"
         /\ UNCHANGED <<opened, refused, heard, told>>

Told(how) == \E k \in DOMAIN told : told[k] = how

TellIt(how) == /\ ~Told(how)
               /\ told' = Append(told, how)
               /\ UNCHANGED <<phase, opened, refused, heard>>

Tell == phase = "closed" /\ TellIt(IF opened THEN "closed" ELSE "failed")

TellRefused == refused /\ TellIt("failed")

SessionNext ==
  Open \/ Refuse \/ Hear \/ StartClosing \/ Close \/ Tell \/ TellRefused

SessionSafe == SessionInit /\ [][SessionNext]_sessionState

\* Only an open session may last.
SessionSpec ==
  /\ SessionSafe
  /\ WF_sessionState(phase # "open" /\ (Open \/ Refuse \/ Close))
  /\ WF_sessionState(Tell)
  /\ WF_sessionState(TellRefused)
=============================================================================
