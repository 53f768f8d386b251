SPECIFICATION FairSpec
CONSTANTS
  MaxCmds = 3
  Templates <- WaitedWrites
  Shapes <- Acknowledgements
  structured_replies = FALSE
  extended_headers = FALSE
  meta_contexts = {}
  Tls = FALSE
  Spurious = FALSE
  Faults = TRUE
  UnknownCookie = {}
  CbRet = {"1"}
  ShutdownFlags = {"none"}
  SockBuf = 2
PROPERTIES EveryCommandCompletes SyncCallsReturn
CHECK_DEADLOCK FALSE
