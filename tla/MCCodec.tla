------------------------------- MODULE MCCodec -------------------------------
\* Bytes and code points at both sides of every boundary the code draws.
EXTENDS Codec

MCTextBytes ==
  {0, 31, 32, 34, 47, 92, 98, 102, 110, 114, 116, 117, 127, 128, 143, 144, 159, 160,
   191, 192, 193, 194, 223, 224, 225, 236, 237, 238, 239, 240, 241, 243, 244, 245, 255}
MCCodePoints ==
  {0, 8, 9, 10, 13, 31, 32, 34, 92, 127, 128, 2047, 2048, 55295, 55296, 56319, 56320,
   57343, 57344, 65535}
\* The two bytes of one character: alone, either is refused.
MCPayloadBytes == {195, 128}
MCLines == {<<>>, <<"status">>, <<"header">>, <<"length">>, <<"bad">>, <<"header", "CR">>}
\* Answers of up to four lines, that end with a blank line or go on, and two bytes
\* of frames after them.
MCAnswers ==
  {FlattenSeq([n \in DOMAIN lines |-> lines[n] \o End]) \o <<"frame", "frame">> :
     lines \in BoundedSeq(MCLines, 4)}
MCNumberBytes == {43, 44, 45, 46, 48, 50, 51, 52, 54, 101}
MCNames == <<"data", "p">>
=============================================================================
