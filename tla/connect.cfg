SPECIFICATION FairSpec
CONSTANTS
  MaxAddrs = 2
  SmallestCap = 4
  PreferredFloor = 2
  PayloadFloor = 8
  PayloadDefault = 16
  MAX_REQUEST_SIZE = 32
  NoLimit = 63
  Exports = {0}
  MaxQueries = 1
  Contexts = {"base"}
  EFlags <- AllFlags
  BlockSizes <- Blocks
  MaxReplies = 1
  How <- AllHow
  Settable = {"opt_mode", "tls", "request_sr", "request_meta", "full_info"}
  Asked = {"GO", "INFO", "LIST", "ABORT", "LIST_META_CONTEXT", "SET_META_CONTEXT",
           "STRUCTURED_REPLY", "EXTENDED_HEADERS", "STARTTLS"}
  MaxCalls = 0
INVARIANTS HandshakeAsserts TlsHonoured PayloadKnown CloseReleases
PROPERTIES ConnectingEnds
CHECK_DEADLOCK FALSE
