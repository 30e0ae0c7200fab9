-------------------------------- MODULE Codec --------------------------------
(***************************************************************************)
(* What the bytes from the server go through between the socket and the    *)
(* aggregator: the answer to the upgrade request is read, then frames; the *)
(* strings of a text are validated, read and written, and so are its       *)
(* numbers and values.  Each stage is taken by itself; the first state of  *)
(* a behaviour chooses which.                                              *)
(***************************************************************************)
EXTENDS HttpResponse, Frames, JsonStrings, JsonNumbers, JsonValues

VARIABLE stage

codecVars == <<stage, responseVars, frameVars, stringVars, numberVars, valueVars>>

CodecInit ==
  /\ stage \in {"response", "frames", "strings", "numbers", "values"}
  /\ ResponseInit /\ FramesInit /\ StringsInit /\ NumbersInit /\ ValuesInit

FramesStep(A) ==
  /\ stage = "frames" /\ A
  /\ UNCHANGED <<stage, responseVars, stringVars, numberVars, valueVars>>
Processor == SendFrame \/ consume \/ get_message

CodecNext ==
  \/ FramesStep(FramesNext)
  \/ /\ stage = "response" /\ ResponseNext
     /\ UNCHANGED <<stage, frameVars, stringVars, numberVars, valueVars>>
  \/ /\ stage = "strings" /\ StringsNext
     /\ UNCHANGED <<stage, responseVars, frameVars, numberVars, valueVars>>
  \/ /\ stage = "numbers" /\ NumbersNext
     /\ UNCHANGED <<stage, responseVars, frameVars, stringVars, valueVars>>
  \/ /\ stage = "values" /\ ValuesNext
     /\ UNCHANGED <<stage, responseVars, frameVars, stringVars, numberVars>>

CodecSpec == CodecInit /\ [][CodecNext]_codecVars

\* consume and its caller run; the bytes of a read are there.
CodecFairSpec == CodecSpec /\ WF_codecVars(FramesStep(Processor))
=============================================================================
