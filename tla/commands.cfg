SPECIFICATION Spec
CONSTANTS
  MaxCmds = 3
  Templates <- ReadWrite
  Shapes <- SimpleReplies
  structured_replies = FALSE
  extended_headers = FALSE
  meta_contexts = {}
  Tls = FALSE
  Spurious = FALSE
  Faults = TRUE
  UnknownCookie = {}
  CbRet = {"-1", "0", "1"}
  ShutdownFlags = {"none"}
  SockBuf = 1
INVARIANTS OneList TailsOK InFlightCount CompletionOnceWhileOpen DiscNotLost DiscIsLast
CHECK_DEADLOCK FALSE
