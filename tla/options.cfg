SPECIFICATION Spec
CONSTANTS
  MaxAddrs = 2
  SmallestCap = 4
  PreferredFloor = 2
  PayloadFloor = 8
  PayloadDefault = 16
  MAX_REQUEST_SIZE = 32
  NoLimit = 63
  Exports = {0, 1}
  MaxQueries = 1
  Contexts = {"base"}
  EFlags <- AllFlags
  BlockSizes <- Blocks
  MaxReplies = 1
  How <- AnySocket
  Settable = {"opt_mode", "tls"}
  Asked = {"GO", "INFO", "LIST", "ABORT", "LIST_META_CONTEXT", "SET_META_CONTEXT",
           "STRUCTURED_REPLY", "EXTENDED_HEADERS", "STARTTLS"}
  MaxCalls = 3
INVARIANTS HandshakeAsserts OptionWhole OptionEndsOnce KnowledgeFresh FlagsHonourable
PROPERTIES ImplementsMachine
CHECK_DEADLOCK FALSE
