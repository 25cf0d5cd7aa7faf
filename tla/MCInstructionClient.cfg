CONSTANTS
  b1 = b1
  b2 = b2
  e1 = e1
  e2 = e2
  Bot <- MCBot
  Envelope <- MCEnvelope
  NoBot = NoBot
  Hole = Hole
  MaxRequest = 2
  MaxParts = 2
SPECIFICATION FairSpec
INVARIANTS
  SettledOnce
  OwnBotReplies
PROPERTIES EverySettles
CHECK_DEADLOCK FALSE
