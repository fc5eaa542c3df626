CONSTANTS
  Base = 3  HdrLen = 2  Suffix <- SuffixDef  Texts <- TextSet  Buffers <- BufferSet
  DirectSize = 2  MaxSent = 2
  Ends = {a, b}  Server = a  MaxData = 2  SendAfterDone = FALSE
  MaskLen = 4  Short = 3  Wide = 4  MaxTexts = 2
  WsTexts <- WsTextSet  WsLists <- WsListSet  Reasons <- ReasonSet
  Space = " "  Colon = ":"  Protocol <- ProtocolDef  Digits = {"1"}  StatusLen = 1
  Strings <- StringSet  Statuses <- StatusSet  ForeignLines <- LineSet  NameMax = 2  RxMax = 8
  Credentials <- CredentialSet  Valid <- ValidSet  Targets <- TargetSet  Bound <- BoundDef
  Replies = {0, 5}  MaxHeight = 4
SPECIFICATION Spec
INVARIANTS  PositionsAgree WsExact HttpExact SocksAgree NothingLost FailureCloses
PROPERTIES  SocksEnds
CHECK_DEADLOCK FALSE
