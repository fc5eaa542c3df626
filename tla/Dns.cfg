CONSTANTS
  Hosts = {h1, h2}
  MaxSubmits = 3
  MaxFds = 3
  Sizes = {14, 40}
  DictSize = 2
  MaxLabel = 3
  MaxChunk = 2
  Names = 3
  Records <- RecordSet
  MaxPushes <- PushBounds
  Bits = 2
  Rounds = 8
  MaxHints = 3
  Suffixes <- SuffixSet
SPECIFICATION Spec
INVARIANTS SocketSound PacketExact OrderExact
CHECK_DEADLOCK FALSE
