SPECIFICATION Spec
CONSTANTS
  MaxCmds = 2
  Templates <- PlainReads
  Shapes <- StructuredReads
  structured_replies = TRUE
  extended_headers = FALSE
  meta_contexts = {}
  Tls = FALSE
  Spurious = FALSE
  Faults = FALSE
  UnknownCookie = {"structured"}
  CbRet = {"0"}
  ShutdownFlags = {"none"}
  SockBuf = 1
INVARIANT HeaderAligned
CHECK_DEADLOCK FALSE
