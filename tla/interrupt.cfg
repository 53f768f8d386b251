SPECIFICATION Spec
CONSTANTS
  MaxCmds = 3
  Templates <- LongWrites
  Shapes <- SimpleReplies
  structured_replies = FALSE
  extended_headers = FALSE
  meta_contexts = {}
  Tls = FALSE
  Spurious = FALSE
  Faults = TRUE
  UnknownCookie = {}
  CbRet = {"0", "1"}
  ShutdownFlags = {"none", "abandon_pending"}
  SockBuf = 1
INVARIANTS RequestsWhole SuspendedRequest Asserts
PROPERTIES ImplementsLifecycle
CHECK_DEADLOCK FALSE
