CONSTANTS
  Threads = {t1, t2}
  NoThread = none
  Closures <- MCClosures
  MaxCommands = 1
SPECIFICATION Spec
INVARIANT DebugCallbackLive
