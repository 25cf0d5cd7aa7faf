CONSTANTS
  bot = bot
  NoBot = NoBot
  Hole = Hole
  MaxRequest = 2
  Foreign = {}
  MaxLines = 2
  ChatOutBuf = 2
SPECIFICATION FairSpec
INVARIANTS
  ResolvedByWholeOwnReply
  WholeReplySettles
PROPERTIES
  ImplementsLossyFifo
  QueueDrains
CHECK_DEADLOCK FALSE
