SPECIFICATION CodecFairSpec
CONSTANTS
  None = None
  PayloadBytes <- MCPayloadBytes
  MaxPayload = 3
  Basic = 1
  Extended = 2
  MaxMessage = 3
  MaxRead = 4
  TextBytes <- MCTextBytes
  CodePoints <- MCCodePoints
  Room = 15
  Answers <- MCAnswers
  MaxChunk = 4
  MaxHeader = 20
  NumberBytes <- MCNumberBytes
  MaxLength = 6
  UnsignedMax = 63
  IntegerLimit = 32
  Names <- MCNames
  MaxTokens = 10
INVARIANTS FramesFollowHeader HeaderBounded SameText Writable RoundTrip BufferHolds NumbersFollowGrammar IntegersForwarded AcceptsGrammar Forwarded
PROPERTIES ImplementsReader ReadsEnd
CHECK_DEADLOCK FALSE
