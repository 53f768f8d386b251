SPECIFICATION Spec
CONSTANTS
  MaxCmds = 2
  Templates <- ChunkReads
  Shapes <- AnyReads
  structured_replies = TRUE
  extended_headers = FALSE
  meta_contexts = {}
  Tls = FALSE
  Spurious = FALSE
  Faults = FALSE
  UnknownCookie = {"simple"}
  CbRet = {"0"}
  ShutdownFlags = {"none"}
  SockBuf = 2
INVARIANTS HeaderAligned Asserts ReadComplete
PROPERTIES ImplementsMachine
CHECK_DEADLOCK FALSE
