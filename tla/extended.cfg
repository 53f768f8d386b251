SPECIFICATION Spec
CONSTANTS
  MaxCmds = 2
  Templates <- StatusQueries
  Shapes <- ExtendedStatus
  structured_replies = TRUE
  extended_headers = TRUE
  meta_contexts = {"allocation"}
  Tls = TRUE
  Spurious = TRUE
  Faults = TRUE
  UnknownCookie = {}
  CbRet = {"0"}
  ShutdownFlags = {"none"}
  SockBuf = 2
INVARIANTS Asserts HeaderAligned
CHECK_DEADLOCK FALSE
