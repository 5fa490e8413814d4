\* Requests, replies and what is neither, cut into pieces in every way.
SPECIFICATION FairSpec
CONSTANTS
  Limit8 = 200
  IntBits = 20
  LongBits = 20
  Words <- AllWords
  UrlMax = 4
  HeaderMax = 52
  BodyMax = 20
  Requests <- AllRequests
  Malformed <- AllMalformed
  Replies <- TwoReplies
  MaxRound = 2
INVARIANTS ReadAsMeant RefusedAsDue Bounded ReplyArrives
PROPERTY ParseEnds
CHECK_DEADLOCK FALSE
