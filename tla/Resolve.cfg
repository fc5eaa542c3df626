CONSTANTS
  MaxAddrs = 2
  Candidates <- CandidateSeq
  Aliases = {"host", "www"}
  Given = {{}, {1, 2}}
  Lookup <- LookupSeq
  HostsFile <- HostRecs
  Servers = {0, 1}
  MaxAttempts = 2
  MaxDepth = 3
  MaxChain = 3
  Naddrs = 2
  MaxReferrals = 1
SPECIFICATION Spec
INVARIANTS OneConnection LookupSound
PROPERTIES Alternates HappyConnects LookupEnds
CHECK_DEADLOCK FALSE
