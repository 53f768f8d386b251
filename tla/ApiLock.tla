------------------------------ MODULE ApiLock -------------------------------
(***************************************************************************)
(* The rules of the lock, for any number of threads, closures and commands.*)
(* A thread inside a wrapper holds the lock, the state machine runs only   *)
(* for the thread that holds it, and that thread leaves through Out, which *)
(* publishes: so the state that other threads see without the lock is one  *)
(* the state machine came to rest in.  The second part goes through the    *)
(* tables of handlers, events and calls: which states the machine rests in,*)
(* and when the option under negotiation is over.  The third part follows  *)
(* the closures from the arguments of a call to where they are freed.      *)
(***************************************************************************)
EXTENDS ApiCalls, Integers, TLAPS

\* A step is tried with Zenon for three seconds, then with the solver.
USE ZenonT(3), SMTT(30), SMTT(60)

\* Where a thread is between pthread_mutex_lock and pthread_mutex_unlock.
Holding == {"body", "disconnect", "run", "wait", "out"}

LockInv ==
  /\ DOMAIN th = Threads
  /\ \A t \in Threads : "pc" \in DOMAIN th[t]
  /\ \A t \in Threads : th[t].pc \in Holding => lock = t
  /\ running => \E t \in Threads : lock = t /\ th[t].pc = "run"
  /\ lock = NoThread => public_state = state /\ ~running

\* Only t moves, and the machine runs after the step only for t.
Moves(t) ==
  /\ DOMAIN th' = Threads
  /\ "pc" \in DOMAIN th'[t]
  /\ \A u \in Threads \ {t} : th'[u] = th[u]

KeepsLock(t) ==
  /\ Moves(t)
  /\ running' => th'[t].pc = "run"
  /\ UNCHANGED <<public_state, lock>>

\* A thread at work in nbd_unlocked_*, the state machine at rest.
Working(t) == t \in Threads /\ LockInv /\ th[t].pc \in Holding \ {"run"}

-----------------------------------------------------------------------------
\* The machine is at rest while the holder of the lock is not in nbd_internal_run.
LEMMA NotRunning == ASSUME NEW t, Working(t) PROVE ~running
<1>1. lock = t /\ th[t].pc # "run"
  BY DEF Working, LockInv, Holding
<1> QED BY <1>1 DEF Working, LockInv

\* A step of the holder that leaves the lock and public_state alone keeps the
\* invariant.
LEMMA HolderStep ==
  ASSUME NEW t \in Threads, LockInv, th[t].pc \in Holding, KeepsLock(t)
  PROVE  LockInv'
<1>1. lock = t /\ lock' = t
  BY DEF LockInv, KeepsLock
<1>2. lock' # NoThread
  BY <1>1, ApiAssumption
<1>3. \A u \in Threads : "pc" \in DOMAIN th'[u]
  BY DEF LockInv, KeepsLock, Moves
<1>4. \A u \in Threads : th'[u].pc \in Holding => lock' = u
  BY <1>1 DEF LockInv, KeepsLock, Moves
<1> QED BY <1>1, <1>2, <1>3, <1>4 DEF LockInv, KeepsLock, Moves

-----------------------------------------------------------------------------
\* At and the assignments to th that nbd_internal_run is entered with move
\* only their own thread.
LEMMA AtMoves == ASSUME NEW t, NEW pc, Working(t), At(t, pc) PROVE Moves(t)
BY DEF Working, LockInv, At, Moves

\* A thread moves on inside the lock.
LEMMA AtKeeps ==
  ASSUME NEW t, NEW pc, Working(t), At(t, pc), UNCHANGED <<running, public_state, lock>>
  PROVE  KeepsLock(t)
BY AtMoves, NotRunning DEF KeepsLock

\* nbd_internal_run either refuses the event or runs for its caller.
LEMMA RunKeeps ==
  ASSUME NEW t, NEW event, NEW ok, NEW err, Working(t), Run(t, event, ok, err),
         UNCHANGED <<public_state, lock>>
  PROVE  KeepsLock(t)
<1>1. CASE At(t, err) /\ UNCHANGED machine
  BY <1>1, AtKeeps DEF machine
<1>2. CASE th' = [th EXCEPT ![t].pc = "run", ![t].call = Awaited(t, "run"),
                            ![t].ok = ok, ![t].err = err]
  BY <1>2 DEF Working, LockInv, KeepsLock, Moves
<1> QED BY <1>1, <1>2 DEF Run

\* Queueing a command does, too.
LEMMA QueueKeeps ==
  ASSUME NEW t, NEW cmd, NEW then, Working(t), Queue(t, cmd, then),
         UNCHANGED <<public_state, lock>>
  PROVE  KeepsLock(t)
<1>1. CASE th' = [th EXCEPT ![t].args = {}, ![t].call = Awaited(t, "run"), ![t].pc = "run",
                            ![t].ok = then, ![t].err = then]
  BY <1>1 DEF Working, LockInv, KeepsLock, Moves
<1>2. CASE th' = [th EXCEPT ![t].args = {}, ![t].pc = then, ![t].call = Awaited(t, then)] /\ UNCHANGED machine
  BY <1>2, NotRunning DEF Working, LockInv, KeepsLock, Moves, machine
<1> QED BY <1>1, <1>2, Zenon DEF Queue

\* A call that fails, or only touches fields, keeps the lock until its out label.
LEMMA NothingKeeps ==
  ASSUME NEW t, Working(t), Nothing(t), UNCHANGED <<public_state, lock>>
  PROVE  KeepsLock(t)
BY AtKeeps DEF Nothing, machine

\* nbd_unlocked_aio_opt_abort runs the machine for its caller.
LEMMA OptAbortKeeps ==
  ASSUME NEW t, Working(t), OptAbort(t), UNCHANGED <<public_state, lock>>
  PROVE  KeepsLock(t)
BY RunKeeps DEF OptAbort

\* do_poll holds the lock while it polls, and runs the machine for its caller.
LEMMA PollKeeps ==
  ASSUME NEW t, NEW ok, NEW err, Working(t), Poll(t, ok, err),
         UNCHANGED <<public_state, lock>>
  PROVE  KeepsLock(t)
BY AtKeeps, RunKeeps DEF Poll, machine

\* The nbd_unlocked_* functions keep the lock.
LEMMA BodyKeeps == ASSUME NEW t, Working(t), Body(t) PROVE KeepsLock(t)
<1> USE DEF Body
<1>1. UNCHANGED <<public_state, lock>>
  OBVIOUS
<1>2. CASE Nothing(t)
  BY <1>1, <1>2, NothingKeeps
<1>3. CASE SetDebug(t)
  BY <1>1, <1>3, NotRunning DEF SetDebug, Working, LockInv, KeepsLock, Moves, machine
<1>4. CASE Connect(t)
  BY <1>1, <1>4, NothingKeeps, RunKeeps DEF Connect
<1>5. CASE Option(t)
  <2>1. CASE Nothing(t)
    BY <1>1, <2>1, NothingKeeps
  <2>2. CASE th' = [th EXCEPT ![t].args = {}, ![t].call = Awaited(t, "run"), ![t].pc = "run",
                              ![t].ok = Then(t), ![t].err = Then(t)]
    BY <1>1, <2>2 DEF Working, LockInv, KeepsLock, Moves
  <2> QED BY <1>5, <2>1, <2>2 DEF Option
<1>6. CASE OptAbort(t)
  BY <1>1, <1>6, OptAbortKeeps
<1>7. CASE IssueCommand(t)
  <2>1. CASE th' = [th EXCEPT ![t].args = {}, ![t].call = Unlocked, ![t].pc = "out"] /\ UNCHANGED machine
    BY <1>1, <2>1, NotRunning DEF Working, LockInv, KeepsLock, Moves, machine
  <2> QED BY <1>1, <1>7, <2>1, NothingKeeps, QueueKeeps DEF IssueCommand
<1>8. CASE Disconnect(t, "out")
  BY <1>1, <1>8, NothingKeeps, QueueKeeps DEF Disconnect
<1>9. CASE Shutdown(t)
  <2>1. CASE At(t, "disconnect") /\ UNCHANGED machine
    BY <1>1, <2>1, AtKeeps DEF machine
  <2> QED BY <1>1, <1>9, <2>1, OptAbortKeeps DEF Shutdown
<1>10. CASE Notify(t)
  BY <1>1, <1>10, RunKeeps DEF Notify
<1>11. CASE Poll(t, "out", "out")
  BY <1>1, <1>11, PollKeeps
<1>12. CASE Retire(t)
  <2>1. CASE At(t, "out") /\ UNCHANGED machine
    BY <1>1, <2>1, AtKeeps DEF machine
  <2> QED BY <1>1, <1>12, <2>1, NothingKeeps DEF Retire
<1> QED BY <1>2, <1>3, <1>4, <1>5, <1>6, <1>7, <1>8, <1>9, <1>10, <1>11, <1>12

\* So do the handlers of nbd_internal_run, and the loops that wait.
LEMMA HandlerKeeps ==
  ASSUME NEW t \in Threads, LockInv, Handler(t) PROVE KeepsLock(t)
<1>1. th[t].pc = "run" /\ UNCHANGED <<public_state, lock>>
  BY DEF Handler
<1>2. CASE UNCHANGED <<running, th>>
  BY <1>1, <1>2 DEF LockInv, KeepsLock, Moves
<1>3. CASE Returns(t, th[t].ok)
  BY <1>1, <1>3 DEF Returns, LockInv, KeepsLock, Moves
<1>4. CASE Returns(t, th[t].err)
  BY <1>1, <1>4 DEF Returns, LockInv, KeepsLock, Moves
<1> QED BY <1>2, <1>3, <1>4 DEF Handler

\* The loops around nbd_unlocked_poll keep the lock.
LEMMA WaitKeeps == ASSUME NEW t, Working(t), Wait(t) PROVE KeepsLock(t)
<1>1. UNCHANGED <<public_state, lock>>
  BY DEF Wait
<1>2. CASE At(t, "out") /\ UNCHANGED machine
  BY <1>1, <1>2, AtKeeps DEF machine
<1>3. CASE Poll(t, "wait", "out")
  BY <1>1, <1>3, PollKeeps
<1> QED BY <1>2, <1>3 DEF Wait

\* nbd_unlocked_shutdown keeps the lock while it queues the disconnect.
LEMMA ShutdownKeeps == ASSUME NEW t, Working(t), ShutdownDisconnect(t) PROVE KeepsLock(t)
<1>1. UNCHANGED <<public_state, lock>>
  BY DEF ShutdownDisconnect
<1>2. CASE At(t, "wait") /\ UNCHANGED machine
  BY <1>1, <1>2, AtKeeps DEF machine
<1>3. CASE Queue(t, Command({}, NoThread, TRUE), "wait")
  BY <1>1, <1>3, QueueKeeps, Zenon
<1> QED BY <1>2, <1>3, Zenon DEF ShutdownDisconnect

\* A thread that is not in a wrapper, and stays out of it, changes nothing the
\* invariant is about.
LEMMA OutsiderStep ==
  ASSUME NEW t \in Threads, LockInv, Moves(t), th[t].pc \notin Holding,
         th'[t].pc \notin Holding, UNCHANGED <<machine, public_state, lock>>
  PROVE  LockInv'
<1>1. \A u \in Threads : "pc" \in DOMAIN th'[u]
  BY DEF LockInv, Moves
<1>2. \A u \in Threads : th'[u].pc \in Holding => th[u].pc \in Holding
  BY DEF Moves
<1>3. \A u \in Threads : th[u].pc = "run" => th'[u].pc = "run"
  BY DEF Moves, Holding
<1> QED BY <1>1, <1>2, <1>3 DEF LockInv, Moves, machine

-----------------------------------------------------------------------------
\* No handle exists at first, and nobody holds a lock.
LEMMA LockInvInit == Init => LockInv
BY DEF Init, LockInv, Idle, Holding

\* Every step of a thread keeps the invariant.
LEMMA LockInvStep == ASSUME NEW t \in Threads, LockInv, Step(t) PROVE LockInv'
<1>1. CASE \E kinds \in {row.closures : row \in Calls} : Begin(t, kinds)
  <2>1. Moves(t) /\ th'[t].pc = "lock" /\ th[t].pc = "idle"
    BY <1>1, SMTT(60) DEF Begin, LockInv, Moves
  <2> QED BY <1>1, <2>1, OutsiderStep, Zenon DEF Begin, Holding
<1>2. CASE Enter(t)
  <2>1. PICK row \in Calls, pc \in {"body", "out"} :
          th' = [th EXCEPT ![t].call = IF pc = "body" THEN row ELSE Unlocked, ![t].pc = pc]
    BY <1>2, Zenon DEF Enter
  <2>2. Moves(t) /\ th'[t].pc \in {"body", "out"}
    BY <2>1 DEF LockInv, Moves
  <2>3. lock = NoThread /\ lock' = t /\ UNCHANGED <<machine, public_state>>
    BY <1>2 DEF Enter
  <2>4. \A u \in Threads : th[u].pc \notin Holding
    BY <2>3, ApiAssumption DEF LockInv
  <2>5. ~running' /\ lock' # NoThread
    BY <2>3, ApiAssumption DEF LockInv, machine
  <2> QED BY <2>2, <2>3, <2>4, <2>5 DEF LockInv, Moves
<1>3. CASE Body(t)
  <2>1. Working(t)
    BY <1>3 DEF Body, Working, Holding
  <2> QED BY <1>3, <2>1, BodyKeeps, HolderStep DEF Working
<1>4. CASE ShutdownDisconnect(t)
  <2>1. Working(t)
    BY <1>4 DEF ShutdownDisconnect, Working, Holding
  <2> QED BY <1>4, <2>1, ShutdownKeeps, HolderStep DEF Working
<1>5. CASE Handler(t)
  <2>1. th[t].pc \in Holding
    BY <1>5, SMTT(30) DEF Handler, Holding
  <2> QED BY <1>5, <2>1, HandlerKeeps, HolderStep
<1>6. CASE Wait(t)
  <2>1. Working(t)
    BY <1>6 DEF Wait, Working, Holding
  <2> QED BY <1>6, <2>1, WaitKeeps, HolderStep DEF Working
<1>7. CASE Out(t)
  <2>1. Working(t)
    BY <1>7 DEF Out, Working, Holding
  <2>2. ~running' /\ public_state' = state'
    BY <1>7, <2>1, NotRunning DEF Out, Publish, machine
  <2>3. Moves(t) /\ th'[t].pc = "idle"
    BY <1>7 DEF Out, Idle, LockInv, Moves
  <2>4. lock = t
    BY <2>1 DEF Working, LockInv
  <2>5. \A u \in Threads : th'[u].pc \notin Holding
    BY <2>3, <2>4 DEF LockInv, Moves, Holding
  <2>6. \A u \in Threads : "pc" \in DOMAIN th'[u]
    BY <2>3 DEF LockInv, Moves
  <2> QED BY <2>2, <2>3, <2>5, <2>6 DEF LockInv, Moves
<1>8. CASE ReadDebugCallback(t)
  <2>1. Moves(t) /\ th'[t].pc = "debug" /\ th[t].pc = "idle"
    BY <1>8 DEF ReadDebugCallback, LockInv, Moves
  <2> QED BY <1>8, <2>1, OutsiderStep, Zenon DEF ReadDebugCallback, Holding
<1>9. CASE CallDebugCallback(t)
  <2>1. Moves(t) /\ th'[t].pc = "idle" /\ th[t].pc = "debug"
    BY <1>9 DEF CallDebugCallback, Idle, LockInv, Moves
  <2> QED BY <1>9, <2>1, OutsiderStep DEF CallDebugCallback, Holding
<1> QED BY <1>1, <1>2, <1>3, <1>4, <1>5, <1>6, <1>7, <1>8, <1>9, SMTT(30) DEF Step

\* So do nbd_create and nbd_close, which happen while no call is in progress.
LEMMA LockInvNext == LockInv /\ [Next]_vars => LockInv'
<1> SUFFICES ASSUME LockInv, [Next]_vars PROVE LockInv'
  OBVIOUS
<1>1. CASE UNCHANGED vars
  BY <1>1 DEF vars, machine, LockInv
<1>2. CASE Create
  <2>1. \A t \in Threads : th'[t] = th[t]
    BY <1>2 DEF Create
  <2> QED BY <1>2, <2>1 DEF Create, LockInv
<1>3. CASE Close
  <2>1. ~running
    BY <1>3 DEF Close, LockInv
  <2> QED BY <1>3, <2>1 DEF Close, LockInv
<1>4. CASE \E t \in Threads : Step(t)
  BY <1>4, LockInvStep
<1> QED BY <1>1, <1>2, <1>3, <1>4, SMTT(30) DEF Next

\* While nobody holds h->lock, what the nbd_aio_is_* functions read is the state
\* the state machine stopped in, whatever the threads have called.
THEOREM PublicStateAlwaysFresh == Spec => []PublicStateFresh
<1>1. LockInv => PublicStateFresh
  BY DEF LockInv, PublicStateFresh
<1> QED BY <1>1, LockInvInit, LockInvNext, PTL DEF Spec

\* At most one thread is between the lock and the unlock of a wrapper.
OneInside ==
  \A t, u \in Threads : th[t].pc \in Holding /\ th[u].pc \in Holding => t = u

\* The nbd_unlocked_* functions and the handlers of a handle never run in two
\* threads at the same time, however many threads call it.
THEOREM MutualExclusion == Spec => []OneInside
<1>1. LockInv => OneInside
  BY DEF LockInv, OneInside
<1> QED BY <1>1, LockInvInit, LockInvNext, PTL DEF Spec

-----------------------------------------------------------------------------
(* The states the machine rests in. *)

\* Where nbd_internal_run leaves a handle: the states that wait for the socket,
\* and the four that wait for the program.
Resting == {"START", "NEGOTIATING", "DEAD", "CLOSED"} \cup READ_states \cup WRITE_states

\* A command is issued from READY on, as long as ISSUE.FINISH has not been left.
Issuing(s, r) ==
  \/ s \in GROUP_ISSUE_COMMAND \ {"ISSUE.FINISH"}
  \/ s = "READY" /\ r = "ISSUE.START"

\* The states of the handshake up to the first option.
Early ==
  {NoState, "START", "CONNECT_SA.START", "NEWSTYLE.RECV_GFLAGS", "NEWSTYLE.CHECK_GFLAGS",
   "NEWSTYLE.SEND_CFLAGS"}
  \cup UNION {GROUP_CONNECT, GROUP_CONNECT_TCP, GROUP_CONNECT_COMMAND, GROUP_MAGIC,
              GROUP_OLDSTYLE}

\* The states in which an option that a call has asked for may be negotiated,
Asking == GROUP_NEWSTYLE \ (Early \cup {"NEWSTYLE.FINISHED"})
\* and those of the three options that are tried on the way to another one.
Starttls ==
  {"OPT_STARTTLS.START", "OPT_STARTTLS.SEND", "OPT_STARTTLS.RECV_REPLY",
   "OPT_STARTTLS.RECV_REPLY_PAYLOAD", "OPT_STARTTLS.CHECK_REPLY",
   "OPT_STARTTLS.TLS_HANDSHAKE_READ", "OPT_STARTTLS.TLS_HANDSHAKE_WRITE",
   "OPT_STARTTLS.TLS_HANDSHAKE_DONE"}
ExtendedHeaders ==
  {"OPT_EXTENDED_HEADERS.START", "OPT_EXTENDED_HEADERS.SEND",
   "OPT_EXTENDED_HEADERS.RECV_REPLY", "OPT_EXTENDED_HEADERS.RECV_REPLY_PAYLOAD",
   "OPT_EXTENDED_HEADERS.CHECK_REPLY"}
StructuredReply ==
  {"OPT_STRUCTURED_REPLY.START", "OPT_STRUCTURED_REPLY.SEND",
   "OPT_STRUCTURED_REPLY.RECV_REPLY", "OPT_STRUCTURED_REPLY.RECV_REPLY_PAYLOAD",
   "OPT_STRUCTURED_REPLY.CHECK_REPLY"}

\* How the machine gets from s to r as far as options go: into the states of one,
Arrives(s, r) ==
  /\ r \in Early => s \in Early \/ (s = "NEWSTYLE.START" /\ r = "NEWSTYLE.RECV_GFLAGS")
  /\ r = "NEWSTYLE.START" => s \in Early
  /\ r \in Starttls =>
       s \in Early \cup Starttls \/ (s = "NEWSTYLE.START" /\ r = "OPT_STARTTLS.START")
  /\ r \in ExtendedHeaders =>
       \/ s \in ExtendedHeaders
       \/ /\ r = "OPT_EXTENDED_HEADERS.START"
          /\ s \in {"NEWSTYLE.START", "OPT_STARTTLS.START", "OPT_STARTTLS.CHECK_REPLY",
                    "OPT_STARTTLS.TLS_HANDSHAKE_DONE"}
  /\ r \in StructuredReply =>
       \/ s \in StructuredReply
       \/ /\ r = "OPT_STRUCTURED_REPLY.START"
          /\ s \in {"NEWSTYLE.START", "OPT_EXTENDED_HEADERS.START",
                    "OPT_EXTENDED_HEADERS.CHECK_REPLY"}
  /\ r = "OPT_META_CONTEXT.START" =>
       s \in {"NEWSTYLE.START", "OPT_STRUCTURED_REPLY.START",
              "OPT_STRUCTURED_REPLY.CHECK_REPLY"}
  /\ r = "OPT_LIST.START" => s = "NEWSTYLE.START"
\* and out of the negotiation.
Quits(s, r) ==
  s \in Asking /\ r \notin Asking \cup {"DEAD", "CLOSED"} =>
    \/ <<s, r>> \in EndsOption
    \/ s = "NEWSTYLE.START" /\ r = "NEWSTYLE.RECV_GFLAGS"
    \/ s = "OPT_STRUCTURED_REPLY.START" /\ r = "NEGOTIATING"

\* Where the handler of state s may let the machine go on to, and stop it.
GoesOn(s, r) ==
  /\ s # NoState /\ r # NoState
  /\ r \in GROUP_ISSUE_COMMAND => Issuing(s, r)
  /\ Arrives(s, r) /\ Quits(s, r)
Halts(s, r) ==
  /\ s # NoState /\ r \in Resting
  /\ r \in GROUP_ISSUE_COMMAND => s \in GROUP_ISSUE_COMMAND \ {"ISSUE.FINISH"}
  /\ r # s => r \notin Asking /\ s \notin Asking /\ (r \in Early => s \in Early)

Leads(s, h) ==
  /\ \A r \in h.next : GoesOn(s, r)
  /\ \A r \in h.waits : Halts(s, IF r = Itself THEN s ELSE r)
  /\ \A r \in h.fails : Halts(s, r)

\* Every handler of lib/states.c: it stops the machine only in a state of
\* Resting, it frees the option where it leaves its negotiation, and only READY
\* starts to issue a command.
LEMMA HandlersLead == \A h \in Handlers : Leads(h[1], h[2])
<1> USE DEF Leads, GoesOn, Halts, Issuing, Arrives, Quits, Early, Asking, Starttls,
            ExtendedHeaders, StructuredReply, EndsOption, EndsButRefusal, Resting,
            NoState, Itself, READ_states, WRITE_states, GROUP_CONNECT, GROUP_CONNECT_TCP,
            GROUP_CONNECT_COMMAND, GROUP_MAGIC, GROUP_OLDSTYLE, GROUP_NEWSTYLE,
            GROUP_NEWSTYLE_OPT, GROUP_ISSUE_COMMAND, Goes, Waits, Fails, Transfers,
            ReplyTransfers
<1>1. \A h \in CONNECT_handlers : Leads(h[1], h[2])
  BY SMTT(60) DEF CONNECT_handlers, enter_STATE_START, enter_STATE_CONNECT_START,
         enter_STATE_CONNECT_CONNECTING, enter_STATE_CONNECT_TCP_START,
         enter_STATE_CONNECT_TCP_CONNECT, enter_STATE_CONNECT_TCP_CONNECTING,
         enter_STATE_CONNECT_TCP_NEXT_ADDRESS,
         enter_STATE_CONNECT_COMMAND_START, enter_STATE_CONNECT_SA_START,
         enter_STATE_MAGIC_START, enter_STATE_MAGIC_RECV_MAGIC,
         enter_STATE_MAGIC_CHECK_MAGIC, enter_STATE_OLDSTYLE_START,
         enter_STATE_OLDSTYLE_RECV_REMAINING, enter_STATE_OLDSTYLE_CHECK
<1>2. \A h \in NEWSTYLE_handlers : Leads(h[1], h[2])
  BY SMTT(60) DEF NEWSTYLE_handlers, enter_STATE_NEWSTYLE_START,
         enter_STATE_NEWSTYLE_RECV_GFLAGS, enter_STATE_NEWSTYLE_CHECK_GFLAGS,
         enter_STATE_NEWSTYLE_SEND_CFLAGS,
         enter_STATE_NEWSTYLE_OPT_STARTTLS_START,
         enter_STATE_NEWSTYLE_OPT_STARTTLS_SEND,
         enter_STATE_NEWSTYLE_OPT_STARTTLS_RECV_REPLY,
         enter_STATE_NEWSTYLE_OPT_STARTTLS_RECV_REPLY_PAYLOAD,
         enter_STATE_NEWSTYLE_OPT_STARTTLS_CHECK_REPLY,
         enter_STATE_NEWSTYLE_OPT_STARTTLS_TLS_HANDSHAKE_READ,
         enter_STATE_NEWSTYLE_OPT_STARTTLS_TLS_HANDSHAKE_WRITE,
         enter_STATE_NEWSTYLE_OPT_STARTTLS_TLS_HANDSHAKE_DONE,
         enter_STATE_NEWSTYLE_OPT_EXTENDED_HEADERS_START,
         enter_STATE_NEWSTYLE_OPT_EXTENDED_HEADERS_SEND,
         enter_STATE_NEWSTYLE_OPT_EXTENDED_HEADERS_RECV_REPLY,
         enter_STATE_NEWSTYLE_OPT_EXTENDED_HEADERS_RECV_REPLY_PAYLOAD,
         enter_STATE_NEWSTYLE_OPT_EXTENDED_HEADERS_CHECK_REPLY
<1>3. \A h \in OPT_META_CONTEXT_handlers : Leads(h[1], h[2])
  BY SMTT(60) DEF OPT_META_CONTEXT_handlers,
         enter_STATE_NEWSTYLE_OPT_STRUCTURED_REPLY_START,
         enter_STATE_NEWSTYLE_OPT_STRUCTURED_REPLY_SEND,
         enter_STATE_NEWSTYLE_OPT_STRUCTURED_REPLY_RECV_REPLY,
         enter_STATE_NEWSTYLE_OPT_STRUCTURED_REPLY_RECV_REPLY_PAYLOAD,
         enter_STATE_NEWSTYLE_OPT_STRUCTURED_REPLY_CHECK_REPLY,
         enter_STATE_NEWSTYLE_OPT_META_CONTEXT_START,
         enter_STATE_NEWSTYLE_OPT_META_CONTEXT_SEND,
         enter_STATE_NEWSTYLE_OPT_META_CONTEXT_SEND_EXPORTNAMELEN,
         enter_STATE_NEWSTYLE_OPT_META_CONTEXT_SEND_EXPORTNAME,
         enter_STATE_NEWSTYLE_OPT_META_CONTEXT_SEND_NRQUERIES,
         enter_STATE_NEWSTYLE_OPT_META_CONTEXT_PREPARE_NEXT_QUERY,
         enter_STATE_NEWSTYLE_OPT_META_CONTEXT_SEND_QUERYLEN,
         enter_STATE_NEWSTYLE_OPT_META_CONTEXT_SEND_QUERY,
         enter_STATE_NEWSTYLE_OPT_META_CONTEXT_PREPARE_FOR_REPLY,
         enter_STATE_NEWSTYLE_OPT_META_CONTEXT_RECV_REPLY,
         enter_STATE_NEWSTYLE_OPT_META_CONTEXT_RECV_REPLY_PAYLOAD,
         enter_STATE_NEWSTYLE_OPT_META_CONTEXT_CHECK_REPLY
<1>4. \A h \in OPT_GO_handlers : Leads(h[1], h[2])
  BY SMTT(60) DEF OPT_GO_handlers, enter_STATE_NEWSTYLE_OPT_GO_START,
         enter_STATE_NEWSTYLE_OPT_GO_SEND,
         enter_STATE_NEWSTYLE_OPT_GO_SEND_EXPORTNAMELEN,
         enter_STATE_NEWSTYLE_OPT_GO_SEND_EXPORT,
         enter_STATE_NEWSTYLE_OPT_GO_SEND_NRINFOS,
         enter_STATE_NEWSTYLE_OPT_GO_SEND_INFO,
         enter_STATE_NEWSTYLE_OPT_GO_RECV_REPLY,
         enter_STATE_NEWSTYLE_OPT_GO_RECV_REPLY_PAYLOAD,
         enter_STATE_NEWSTYLE_OPT_GO_CHECK_REPLY,
         enter_STATE_NEWSTYLE_OPT_EXPORT_NAME_START,
         enter_STATE_NEWSTYLE_OPT_EXPORT_NAME_SEND,
         enter_STATE_NEWSTYLE_OPT_EXPORT_NAME_SEND_EXPORT,
         enter_STATE_NEWSTYLE_OPT_EXPORT_NAME_RECV_REPLY,
         enter_STATE_NEWSTYLE_OPT_EXPORT_NAME_CHECK_REPLY
<1>5. \A h \in OPT_LIST_handlers : Leads(h[1], h[2])
  BY SMTT(60) DEF OPT_LIST_handlers, enter_STATE_NEWSTYLE_OPT_LIST_START,
         enter_STATE_NEWSTYLE_OPT_LIST_SEND,
         enter_STATE_NEWSTYLE_OPT_LIST_RECV_REPLY,
         enter_STATE_NEWSTYLE_OPT_LIST_RECV_REPLY_PAYLOAD,
         enter_STATE_NEWSTYLE_OPT_LIST_CHECK_REPLY,
         enter_STATE_NEWSTYLE_PREPARE_OPT_ABORT,
         enter_STATE_NEWSTYLE_SEND_OPT_ABORT,
         enter_STATE_NEWSTYLE_SEND_OPTION_SHUTDOWN,
         enter_STATE_NEWSTYLE_FINISHED
<1>6. \A h \in ISSUE_handlers : Leads(h[1], h[2])
  BY SMTT(60) DEF ISSUE_handlers, enter_STATE_NEGOTIATING, enter_STATE_READY,
         enter_STATE_ISSUE_COMMAND_START,
         enter_STATE_ISSUE_COMMAND_SEND_REQUEST,
         enter_STATE_ISSUE_COMMAND_PAUSE_SEND_REQUEST,
         enter_STATE_ISSUE_COMMAND_PREPARE_WRITE_PAYLOAD,
         enter_STATE_ISSUE_COMMAND_SEND_WRITE_PAYLOAD,
         enter_STATE_ISSUE_COMMAND_PAUSE_WRITE_PAYLOAD,
         enter_STATE_ISSUE_COMMAND_SEND_WRITE_SHUTDOWN,
         enter_STATE_ISSUE_COMMAND_PAUSE_WRITE_SHUTDOWN,
         enter_STATE_ISSUE_COMMAND_FINISH
<1>7. \A h \in REPLY_handlers : Leads(h[1], h[2])
  BY SMTT(60) DEF REPLY_handlers, enter_STATE_REPLY_START, enter_STATE_REPLY_RECV_REPLY,
         enter_STATE_REPLY_CHECK_REPLY_MAGIC,
         enter_STATE_REPLY_RECV_STRUCTURED_REMAINING,
         enter_STATE_REPLY_SIMPLE_REPLY_START,
         enter_STATE_REPLY_SIMPLE_REPLY_RECV_READ_PAYLOAD,
         enter_STATE_REPLY_CHUNK_REPLY_START,
         enter_STATE_REPLY_CHUNK_REPLY_RECV_ERROR,
         enter_STATE_REPLY_CHUNK_REPLY_RECV_ERROR_MESSAGE,
         enter_STATE_REPLY_CHUNK_REPLY_RECV_ERROR_TAIL,
         enter_STATE_REPLY_CHUNK_REPLY_RECV_OFFSET_DATA,
         enter_STATE_REPLY_CHUNK_REPLY_RECV_OFFSET_DATA_DATA,
         enter_STATE_REPLY_CHUNK_REPLY_RECV_OFFSET_HOLE,
         enter_STATE_REPLY_CHUNK_REPLY_RECV_BS_HEADER,
         enter_STATE_REPLY_CHUNK_REPLY_RECV_BS_ENTRIES,
         enter_STATE_REPLY_CHUNK_REPLY_RESYNC,
         enter_STATE_REPLY_CHUNK_REPLY_FINISH,
         enter_STATE_REPLY_FINISH_COMMAND, enter_STATE_DEAD,
         enter_STATE_CLOSED, Resumable
<1> HIDE DEF Leads
<1> QED BY <1>1, <1>2, <1>3, <1>4, <1>5, <1>6, <1>7, Zenon DEF Handlers

\* A step of nbd_internal_run: the handler lets the machine go on, or stops it.
Continued ==
  /\ GoesOn(state, state')
  /\ state = "READY" => (state' = "ISSUE.START" <=> cmds_to_issue # <<>>)
  /\ Routed
  /\ UNCHANGED <<running, th>>
Stopped(t) ==
  /\ Halts(state, state')
  /\ Returns(t, th[t].ok) \/ Returns(t, th[t].err)

\* So does every handler.
LEMMA HandlerGoes == ASSUME NEW t, Handler(t) PROVE Continued \/ Stopped(t)
<1>1. PICK h \in Handlers :
        /\ h[1] = state
        /\ \/ /\ state' \in h[2].next
              /\ state = "READY" => (state' = "ISSUE.START" <=> cmds_to_issue # <<>>)
              /\ Routed
              /\ UNCHANGED <<running, th>>
           \/ /\ state' \in {IF s = Itself THEN state ELSE s : s \in h[2].waits}
              /\ Returns(t, th[t].ok)
           \/ /\ state' \in h[2].fails
              /\ Returns(t, th[t].err)
  BY Zenon DEF Handler
<1>2. Leads(state, h[2])
  BY <1>1, HandlersLead
<1>3. state' \in h[2].next => GoesOn(state, state')
  BY <1>2, Zenon DEF Leads
<1>4. state' \in {IF s = Itself THEN state ELSE s : s \in h[2].waits} => Halts(state, state')
  BY <1>2, Zenon DEF Leads
<1>5. state' \in h[2].fails => Halts(state, state')
  BY <1>2, Zenon DEF Leads
<1> QED BY <1>1, <1>3, <1>4, <1>5, Zenon DEF Continued, Stopped

\* A handle at rest exists.
LEMMA RestingExists == NoState \notin Resting
BY DEF Resting, READ_states, WRITE_states, NoState

\* No event leads to or from a handle that does not exist; the one that issues an
\* option begins its negotiation, and no other begins or leaves one.
Enters(s, e, r) ==
  /\ s # NoState /\ r # NoState
  /\ s = "NEGOTIATING" => e = "cmd_issue" /\ r = "NEWSTYLE.START"
  /\ r = "NEWSTYLE.START" => s = "NEGOTIATING"
  /\ s \in Asking => r \in Asking
  /\ r \in Early => s \in Early
  /\ r \in Starttls => s \in Starttls
  /\ r \in ExtendedHeaders => s \in ExtendedHeaders
  /\ r \in StructuredReply => s \in StructuredReply
  /\ r \notin {"OPT_META_CONTEXT.START", "OPT_LIST.START"}
  /\ r \in GROUP_ISSUE_COMMAND =>
       s \in GROUP_ISSUE_COMMAND \/ (s = "READY" /\ e = "cmd_issue")

\* Every event of lib/states-run.c does so.
LEMMA EventsLead ==
  /\ \A s, e : \A r \in Raised(s, e) : Enters(s, e, r)
  /\ Raised("NEGOTIATING", "cmd_issue") # {}
<1>1. \A u \in ExternalEvents : Enters(u[1], u[2], u[3])
  BY SMTT(120)
     DEF Enters, Early, Asking, Starttls, ExtendedHeaders, StructuredReply, NoState,
         GROUP_CONNECT, GROUP_CONNECT_TCP, GROUP_CONNECT_COMMAND, GROUP_MAGIC,
         GROUP_OLDSTYLE, GROUP_NEWSTYLE, GROUP_NEWSTYLE_OPT, GROUP_ISSUE_COMMAND,
         ExternalEvents, START_events, CONNECT_events, MAGIC_events, NEWSTYLE_events,
         OPT_STARTTLS_events, OPT_EXTENDED_HEADERS_events, OPT_STRUCTURED_REPLY_events,
         OPT_META_CONTEXT_events, OPT_GO_events, OPT_EXPORT_NAME_events, OPT_LIST_events,
         OPT_ABORT_events, READY_events, ISSUE_events, REPLY_events, Again
<1>2. <<"NEGOTIATING", "cmd_issue", "NEWSTYLE.START">> \in ExternalEvents
  BY DEF ExternalEvents, READY_events
<1> QED BY <1>1, <1>2, SMTT(60) DEF Raised

\* A state that is read from accepts notify_read, one that is written to accepts
\* notify_write.
LEMMA DirectionsAccepted ==
  /\ \A s \in READ_states : Raised(s, "notify_read") # {}
  /\ \A s \in WRITE_states : Raised(s, "notify_write") # {}
<1>1. /\ \A s \in READ_states \ {"READY", "SEND_REQUEST", "SEND_WRITE_PAYLOAD", "SEND_WRITE_SHUTDOWN"} :
           <<s, "notify_read", s>> \in ExternalEvents
      /\ <<"READY", "notify_read", "REPLY.START">> \in ExternalEvents
      /\ <<"SEND_REQUEST", "notify_read", "PAUSE_SEND_REQUEST">> \in ExternalEvents
      /\ <<"SEND_WRITE_PAYLOAD", "notify_read", "PAUSE_WRITE_PAYLOAD">> \in ExternalEvents
      /\ <<"SEND_WRITE_SHUTDOWN", "notify_read", "PAUSE_WRITE_SHUTDOWN">> \in ExternalEvents
  BY SMTT(120)
     DEF ExternalEvents, START_events, CONNECT_events, MAGIC_events,
         NEWSTYLE_events, OPT_STARTTLS_events, OPT_EXTENDED_HEADERS_events,
         OPT_STRUCTURED_REPLY_events, OPT_META_CONTEXT_events,
         OPT_GO_events, OPT_EXPORT_NAME_events, OPT_LIST_events,
         OPT_ABORT_events, READY_events, ISSUE_events, REPLY_events, Again, READ_states
<1>2. /\ \A s \in WRITE_states \ {"CONNECT.START", "CONNECT_TCP.CONNECT"} :
           <<s, "notify_write", s>> \in ExternalEvents
      /\ <<"CONNECT.START", "notify_write", "CONNECT.CONNECTING">> \in ExternalEvents
      /\ <<"CONNECT_TCP.CONNECT", "notify_write", "CONNECT_TCP.CONNECTING">> \in ExternalEvents
  BY SMTT(120)
     DEF ExternalEvents, START_events, CONNECT_events, MAGIC_events,
         NEWSTYLE_events, OPT_STARTTLS_events, OPT_EXTENDED_HEADERS_events,
         OPT_STRUCTURED_REPLY_events, OPT_META_CONTEXT_events,
         OPT_GO_events, OPT_EXPORT_NAME_events, OPT_LIST_events,
         OPT_ABORT_events, READY_events, ISSUE_events, REPLY_events, Again, WRITE_states
<1>3. \A u \in ExternalEvents : Raised(u[1], u[2]) # {}
  BY DEF Raised
<1>4. ASSUME NEW s \in READ_states PROVE Raised(s, "notify_read") # {}
  <2>1. \E r : <<s, "notify_read", r>> \in ExternalEvents
    BY <1>1, Zenon
  <2> QED BY <1>3, <2>1
<1>5. ASSUME NEW s \in WRITE_states PROVE Raised(s, "notify_write") # {}
  <2>1. \E r : <<s, "notify_write", r>> \in ExternalEvents
    BY <1>2, Zenon
  <2> QED BY <1>3, <2>1
<1> QED BY <1>4, <1>5

\* The classes of lib/is-state.c do not overlap.
LEMMA ClassesApart ==
  /\ is_connecting \cap is_processing = {}
  /\ {"START", "NEGOTIATING", "READY", "DEAD", "CLOSED"} \cap (is_connecting \cup is_processing) = {}
BY SMTT(60) DEF is_connecting, is_processing, GROUP_CONNECT, GROUP_CONNECT_TCP,
   GROUP_CONNECT_COMMAND, GROUP_MAGIC, GROUP_OLDSTYLE, GROUP_NEWSTYLE, GROUP_NEWSTYLE_OPT,
   GROUP_ISSUE_COMMAND, GROUP_REPLY

\* The states that wait for the socket are connecting, ready or processing.
LEMMA WaitingClasses ==
  READ_states \cup WRITE_states \subseteq is_connecting \cup is_processing \cup {"READY"}
BY SMTT(60) DEF is_connecting, is_processing, GROUP_CONNECT, GROUP_CONNECT_TCP,
   GROUP_CONNECT_COMMAND, GROUP_MAGIC, GROUP_OLDSTYLE, GROUP_NEWSTYLE, GROUP_NEWSTYLE_OPT,
   GROUP_ISSUE_COMMAND, GROUP_REPLY, READ_states, WRITE_states

\* A state has the class of the set it is in.
LEMMA ClassIs ==
  ASSUME NEW s
  PROVE  \A c : c \in ClassesOf(s) <=>
           \/ c = "created" /\ s = "START"
           \/ c = "connecting" /\ s \in is_connecting
           \/ c = "negotiating" /\ s = "NEGOTIATING"
           \/ c = "ready" /\ s = "READY"
           \/ c = "processing" /\ s \in is_processing
           \/ c = "dead" /\ s = "DEAD"
           \/ c = "closed" /\ s = "CLOSED"
BY DEF ClassesOf, Class

\* In a state the machine rests in, the functions that read the public state
\* say what to do.
Usable(s) ==
  /\ \E c \in ClassesOf(s) : ClassesOf(s) = {c}
  /\ ClassesOf(s) \subseteq {"connecting", "ready", "processing"} =>
       nbd_internal_aio_get_direction(s) # {}
  /\ \A d \in nbd_internal_aio_get_direction(s) :
       Raised(s, IF d = "READ" THEN "notify_read" ELSE "notify_write") # {}

\* A state the machine rests in is one the callers can act on.
LEMMA RestingUsable == ASSUME NEW s \in Resting PROVE Usable(s)
<1>2. \E c \in ClassesOf(s) : ClassesOf(s) = {c}
  <2>1. s \in is_connecting \cup is_processing
             \cup {"START", "NEGOTIATING", "READY", "DEAD", "CLOSED"}
    BY WaitingClasses DEF Resting
  <2>2. \E c : c \in ClassesOf(s)
    BY <2>1, ClassIs
  <2>3. \A c, d : c \in ClassesOf(s) /\ d \in ClassesOf(s) => c = d
    BY ClassIs, ClassesApart, SMTT(60)
  <2> QED BY <2>2, <2>3
<1>3. CASE s \in READ_states \cup WRITE_states
  <2>1. nbd_internal_aio_get_direction(s) # {}
    BY <1>3 DEF nbd_internal_aio_get_direction
  <2>2. \A d \in nbd_internal_aio_get_direction(s) :
          Raised(s, IF d = "READ" THEN "notify_read" ELSE "notify_write") # {}
    BY DirectionsAccepted DEF nbd_internal_aio_get_direction
  <2> QED BY <1>2, <2>1, <2>2 DEF Usable
<1>4. CASE s \notin READ_states \cup WRITE_states
  <2>1. s \in {"START", "NEGOTIATING", "DEAD", "CLOSED"}
    BY <1>4 DEF Resting
  <2>2. \E c \in {"created", "negotiating", "dead", "closed"} : c \in ClassesOf(s)
    BY <2>1, ClassIs
  <2>3. nbd_internal_aio_get_direction(s) = {}
    BY <1>4 DEF nbd_internal_aio_get_direction
  <2> QED BY <1>2, <2>2, <2>3 DEF Usable
<1> QED BY <1>3, <1>4

-----------------------------------------------------------------------------
(* The table of functions. *)

\* What a function that touches the option in progress does.
OptionCalls == {"option", "abort"}

\* Such a function is permitted only while the handle is negotiating, and it is
\* given a second callback exactly if its option has one.
\* None issues a command but those that queue it, and none that ends the
\* connection is given a closure.
IsRow(row) ==
  /\ DOMAIN row = DOMAIN Unlocked
  /\ row.does \in OptionCalls => row.permitted = Negotiating
  /\ row.does = "option" => /\ row.asks \in Options \ {"none", "ABORT"}
                            /\ row.closures \subseteq {"fn", "completion"}
                            /\ "fn" \in row.closures <=> row.asks \in HasFn
  /\ row.does \in {"disconnect", "shutdown"} => row.closures = {}
  /\ "cmd_issue" \notin row.raises

\* It is so for every kind of function,
LEMMA RowForms ==
  /\ IsRow(Unlocked)
  /\ \A p : IsRow(Field(p))
  /\ IsRow(SetsDebugCallback) /\ IsRow(ClearsDebugCallback)
  /\ IsRow(Connects({"cmd_connect_sockaddr"})) /\ IsRow(Connects({"cmd_connect_tcp"}))
  /\ IsRow(Connects({"cmd_connect_socket"})) /\ IsRow(Connects({"cmd_connect_command"}))
  /\ IsRow(Connects({"cmd_connect_sa"}))
  /\ IsRow(Connects({"cmd_connect_tcp", "cmd_connect_sockaddr", "cmd_connect_command"}))
  /\ IsRow(Asks("GO", {})) /\ IsRow(Asks("GO", {"completion"}))
  /\ IsRow(Asks("STARTTLS", {})) /\ IsRow(Asks("STARTTLS", {"completion"}))
  /\ IsRow(Asks("EXTENDED_HEADERS", {})) /\ IsRow(Asks("EXTENDED_HEADERS", {"completion"}))
  /\ IsRow(Asks("STRUCTURED_REPLY", {})) /\ IsRow(Asks("STRUCTURED_REPLY", {"completion"}))
  /\ IsRow(Asks("INFO", {})) /\ IsRow(Asks("INFO", {"completion"}))
  /\ IsRow(Asks("LIST", {"fn"})) /\ IsRow(Asks("LIST", {"fn", "completion"}))
  /\ IsRow(Asks("META_CONTEXT", {"fn"})) /\ IsRow(Asks("META_CONTEXT", {"fn", "completion"}))
  /\ IsRow(Aborts)
  /\ \A c : IsRow(Issues(c))
  /\ IsRow(Disconnects) /\ IsRow(ShutsDown) /\ IsRow(Polls) /\ IsRow(Retires)
  /\ IsRow(Notifies("notify_read")) /\ IsRow(Notifies("notify_write"))
BY DEF IsRow, OptionCalls, Unlocked, Field, SetsDebugCallback, ClearsDebugCallback,
   Connects, Asks, Options, HasFn, Negotiating, Aborts, Issues, Disconnects, ShutsDown, Polls, Retires,
   Notifies, Locked

\* whether or not it checks arguments or waits,
LEMMA RowChanges == \A row : IsRow(row) => IsRow(Checked(row)) /\ IsRow(Sync(row))
BY DEF IsRow, Checked, Sync, Unlocked, Locked

\* and so for every function of lib/api.c.
LEMMA Rows == \A row \in Calls : IsRow(row)
BY RowForms, RowChanges, ZenonT(120)
   DEF Calls, nbd_set_debug, nbd_get_debug, nbd_set_debug_callback,
       nbd_clear_debug_callback, nbd_stats_bytes_sent,
       nbd_stats_chunks_sent, nbd_stats_bytes_received,
       nbd_stats_chunks_received, nbd_set_handle_name,
       nbd_get_handle_name, nbd_set_private_data, nbd_get_private_data,
       nbd_set_export_name, nbd_get_export_name,
       nbd_set_request_block_size, nbd_get_request_block_size,
       nbd_set_full_info, nbd_get_full_info,
       nbd_get_canonical_export_name, nbd_get_export_description,
       nbd_set_tls, nbd_get_tls, nbd_get_tls_negotiated,
       nbd_set_tls_certificates, nbd_set_tls_verify_peer,
       nbd_get_tls_verify_peer, nbd_set_tls_username,
       nbd_get_tls_username, nbd_set_tls_hostname, nbd_get_tls_hostname,
       nbd_set_tls_psk_file, nbd_set_request_extended_headers,
       nbd_get_request_extended_headers,
       nbd_get_extended_headers_negotiated,
       nbd_set_request_structured_replies,
       nbd_get_request_structured_replies,
       nbd_get_structured_replies_negotiated,
       nbd_set_request_meta_context, nbd_get_request_meta_context,
       nbd_set_handshake_flags, nbd_get_handshake_flags,
       nbd_set_pread_initialize, nbd_get_pread_initialize,
       nbd_set_strict_mode, nbd_get_strict_mode, nbd_set_opt_mode,
       nbd_get_opt_mode, nbd_opt_go, nbd_opt_abort, nbd_opt_starttls,
       nbd_opt_extended_headers, nbd_opt_structured_reply, nbd_opt_list,
       nbd_opt_info, nbd_opt_list_meta_context,
       nbd_opt_list_meta_context_queries, nbd_opt_set_meta_context,
       nbd_opt_set_meta_context_queries, nbd_add_meta_context,
       nbd_get_nr_meta_contexts, nbd_get_meta_context,
       nbd_clear_meta_contexts, nbd_set_uri_allow_transports,
       nbd_set_uri_allow_tls, nbd_set_uri_allow_local_file,
       nbd_connect_uri, nbd_connect_unix, nbd_connect_vsock,
       nbd_connect_tcp, nbd_connect_socket, nbd_connect_command,
       nbd_connect_systemd_socket_activation,
       nbd_set_socket_activation_name, nbd_get_socket_activation_name,
       nbd_is_read_only, nbd_can_flush, nbd_can_fua, nbd_is_rotational,
       nbd_can_trim, nbd_can_zero, nbd_can_fast_zero,
       nbd_can_block_status_payload, nbd_can_df, nbd_can_multi_conn,
       nbd_can_cache, nbd_can_meta_context, nbd_get_protocol,
       nbd_get_size, nbd_get_block_size, nbd_pread,
       nbd_pread_structured, nbd_pwrite, nbd_shutdown, nbd_flush,
       nbd_trim, nbd_cache, nbd_zero, nbd_block_status,
       nbd_block_status_64, nbd_block_status_filter, nbd_poll,
       nbd_poll2, nbd_aio_connect, nbd_aio_connect_uri,
       nbd_aio_connect_unix, nbd_aio_connect_vsock, nbd_aio_connect_tcp,
       nbd_aio_connect_socket, nbd_aio_connect_command,
       nbd_aio_connect_systemd_socket_activation, nbd_aio_opt_go,
       nbd_aio_opt_abort, nbd_aio_opt_starttls,
       nbd_aio_opt_extended_headers, nbd_aio_opt_structured_reply,
       nbd_aio_opt_list, nbd_aio_opt_info,
       nbd_aio_opt_list_meta_context,
       nbd_aio_opt_list_meta_context_queries,
       nbd_aio_opt_set_meta_context,
       nbd_aio_opt_set_meta_context_queries, nbd_aio_pread,
       nbd_aio_pread_structured, nbd_aio_pwrite, nbd_aio_disconnect,
       nbd_aio_flush, nbd_aio_trim, nbd_aio_cache, nbd_aio_zero,
       nbd_aio_block_status, nbd_aio_block_status_64,
       nbd_aio_block_status_filter, nbd_aio_get_fd,
       nbd_aio_get_direction, nbd_aio_notify_read, nbd_aio_notify_write,
       nbd_aio_is_created, nbd_aio_is_connecting,
       nbd_aio_is_negotiating, nbd_aio_is_ready, nbd_aio_is_processing,
       nbd_aio_is_dead, nbd_aio_is_closed, nbd_aio_command_completed,
       nbd_aio_peek_command_completed, nbd_aio_in_flight,
       nbd_connection_state, nbd_get_package_name, nbd_get_version,
       nbd_kill_subprocess, nbd_get_subprocess_pid, nbd_supports_tls,
       nbd_supports_vsock, nbd_supports_uri, nbd_get_uri, nbd_is_uri

-----------------------------------------------------------------------------
(* The inductive invariant about states and options. *)

Fields == {"pc", "call", "args", "ok", "err", "seen"}
Goals == {"out", "wait"}

\* The machine is running exactly for a thread in nbd_internal_run, which then
\* goes on where its caller asked; at rest it is in a state of Resting.
RestInv ==
  /\ \A t \in Threads : /\ DOMAIN th[t] = Fields
                        /\ th[t].ok \in Goals /\ th[t].err \in Goals
                        /\ th[t].pc = "run" => running
  /\ ~running => state \in Resting \cup {NoState}
  /\ public_state \in Resting \cup {NoState}
  /\ state = NoState <=> public_state = NoState

\* What an option may hold: a completion callback, and a second one if it has one.
OptionShape(o) ==
  /\ DOMAIN o = {"current", "cb", "frame"}
  /\ o.current \in Options
  /\ \A c \in o.cb : c[1] = "completion" \/ (c[1] = "fn" /\ o.current \in HasFn)
Null(o) == o.cb = {} /\ o.frame = NoThread
Second(o) == o.current \in HasFn => \E c \in o.cb : c[1] = "fn"

\* The option as a call leaves it that asks for one, or aborts.
Asked(o) ==
  /\ OptionShape(o)
  /\ o.current \in {"none", "ABORT"} => Null(o)
  /\ Second(o)

\* The option that is current in state s is the one its states belong to, or none
\* if they are passed by.
Fits(s, o) ==
  /\ s \in Early => o = "none"
  /\ s \in Starttls => o \in {"none", "STARTTLS"}
  /\ s \in ExtendedHeaders => o \in {"none", "EXTENDED_HEADERS"}
  /\ s \in StructuredReply => o \in {"none", "STRUCTURED_REPLY"}
  /\ s = "OPT_META_CONTEXT.START" => o # "LIST"
  /\ s = "OPT_LIST.START" => o = "LIST"

\* There are callbacks only while an option is negotiated that a call has asked for,
\* or until the handler of DEAD or CLOSED gets rid of them.
OptionAt(o, s, r) ==
  /\ OptionShape(o)
  /\ \/ Null(o)
     \/ s \in Asking /\ o.current \notin {"none", "ABORT"}
     \/ r /\ s \in {"DEAD", "CLOSED"}
  /\ Fits(s, o.current)
  /\ s \in {"NEWSTYLE.START", "OPT_META_CONTEXT.START", "OPT_LIST.START"} => Second(o)

\* A call that has passed its checks finds the state they found, and the closures
\* of its function.
CallAt(t) ==
  th[t].pc = "body" =>
    /\ th[t].call \in Calls
    /\ th[t].call.closures = {c[1] : c \in th[t].args}
    /\ th[t].call.does \in OptionCalls => state = "NEGOTIATING"

OptInv == OptionAt(opt, state, running) /\ \A t \in Threads : CallAt(t)

ApiInv == LockInv /\ RestInv /\ OptInv

\* What a thread at work outside nbd_internal_run does to state and option: it
\* leaves both alone, or enters nbd_internal_run with an event that is accepted,
\* which is an option's only while negotiating.
Acts(t) ==
  /\ DOMAIN th' = Threads
  /\ \A u \in Threads \ {t} : th'[u] = th[u]
  /\ DOMAIN th'[t] = Fields
  /\ th'[t].ok \in Goals /\ th'[t].err \in Goals /\ th'[t].pc # "body"
  /\ UNCHANGED <<public_state, lock>>
  /\ \/ UNCHANGED <<state, running, opt>> /\ th'[t].pc # "run"
     \/ /\ running' = TRUE
        /\ \E e : state' \in Raised(state, e)
        /\ IF state = "NEGOTIATING" THEN Asked(opt') ELSE opt' = opt

\* The states that wait for the program, and READY, are outside the negotiation of
\* an option.
LEMMA OutsideNegotiation ==
  {"START", "NEGOTIATING", "READY", "DEAD", "CLOSED", NoState} \cap Asking = {}
BY SMTT(60) DEF Asking, Early, GROUP_NEWSTYLE, GROUP_NEWSTYLE_OPT, NoState

\* The machine enters nbd_internal_run with an option that fits.
LEMMA RaisedFits ==
  ASSUME NEW e, OptionAt(opt, state, running), ~running, state' \in Raised(state, e),
         IF state = "NEGOTIATING" THEN Asked(opt') ELSE opt' = opt
  PROVE  OptionAt(opt', state', TRUE)
<1>1. Enters(state, e, state')
  BY EventsLead
<1>2. CASE state = "NEGOTIATING"
  <2>1. Asked(opt') /\ state' = "NEWSTYLE.START"
    BY <1>1, <1>2 DEF Enters
  <2>2. "NEWSTYLE.START" \in Asking /\ Fits("NEWSTYLE.START", opt'.current)
    BY SMTT(60) DEF Asking, Fits, Early, Starttls, ExtendedHeaders, StructuredReply, NoState,
           GROUP_CONNECT, GROUP_CONNECT_TCP, GROUP_CONNECT_COMMAND, GROUP_MAGIC,
           GROUP_OLDSTYLE, GROUP_NEWSTYLE
  <2> QED BY <2>1, <2>2, Zenon DEF Asked, OptionAt
<1>3. CASE state # "NEGOTIATING"
  <2>1. opt' = opt
    BY <1>3
  <2>2. Fits(state', opt.current)
    BY <1>1, Zenon DEF OptionAt, Fits, Enters
  <2>3. state' \notin {"NEWSTYLE.START", "OPT_META_CONTEXT.START", "OPT_LIST.START"}
    BY <1>1, <1>3 DEF Enters
  <2>4. state \in Asking => state' \in Asking
    BY <1>1 DEF Enters
  <2>5. OptionShape(opt) /\ (Null(opt) \/ (state \in Asking /\ opt.current \notin {"none", "ABORT"}))
    BY Zenon DEF OptionAt
  <2> QED BY <2>1, <2>2, <2>3, <2>4, <2>5, Zenon DEF OptionAt
<1> QED BY <1>2, <1>3

\* A thread that has the lock is the only one at work.
LEMMA Alone ==
  ASSUME NEW t \in Threads, LockInv, th[t].pc \in Holding
  PROVE  \A u \in Threads \ {t} : th[u].pc \notin Holding
BY DEF LockInv

\* What one thread does with the lock keeps both invariants.
LEMMA ActsInv ==
  ASSUME NEW t, Working(t), RestInv, OptInv, Acts(t)
  PROVE  RestInv' /\ OptInv'
<1>1. t \in Threads /\ ~running
  BY NotRunning DEF Working
<1>2. \A u \in Threads \ {t} : th'[u] = th[u] /\ th[u].pc \notin {"run", "body"}
  BY <1>1, Alone DEF Working, Acts, Holding
<1>3. \A u \in Threads : CallAt(u)'
  <2>1. \A u \in Threads : th'[u].pc # "body"
    BY <1>2 DEF Acts
  <2> QED BY <2>1, Zenon DEF CallAt
<1>4. CASE UNCHANGED <<state, running, opt>> /\ th'[t].pc # "run"
  <2>1. RestInv'
    BY <1>1, <1>2, <1>4 DEF RestInv, Acts
  <2>2. OptionAt(opt', state', running')
    BY <1>4, Zenon DEF OptInv
  <2> QED BY <1>3, <2>1, <2>2 DEF OptInv
<1>5. CASE /\ running' = TRUE
           /\ \E e : state' \in Raised(state, e)
           /\ IF state = "NEGOTIATING" THEN Asked(opt') ELSE opt' = opt
  <2>1. state # NoState /\ state' # NoState
    BY <1>5, EventsLead DEF Enters
  <2>2. RestInv'
    <3>1. public_state' = public_state /\ public_state # NoState /\ public_state \in Resting
      BY <2>1 DEF RestInv, Acts
    <3>2. \A u \in Threads : /\ DOMAIN th'[u] = Fields
                            /\ th'[u].ok \in Goals /\ th'[u].err \in Goals
      BY <1>2 DEF RestInv, Acts
    <3> QED BY <1>5, <2>1, <3>1, <3>2 DEF RestInv
  <2>3. OptionAt(opt', state', TRUE)
    BY <1>1, <1>5, RaisedFits DEF OptInv
  <2> QED BY <1>3, <1>5, <2>2, <2>3 DEF OptInv
<1> QED BY <1>4, <1>5, Zenon DEF Acts

\* A call that goes on without the state machine.
LEMMA AtActs ==
  ASSUME NEW t, NEW pc, Working(t), RestInv, At(t, pc), pc \notin {"run", "body"},
         UNCHANGED <<state, running, opt, public_state, lock>>
  PROVE  Acts(t)
BY DEF Working, LockInv, RestInv, At, Acts, Fields

\* A call that only looks at the handle.
LEMMA NothingActs ==
  ASSUME NEW t, Working(t), RestInv, Nothing(t), UNCHANGED <<public_state, lock>>
  PROVE  Acts(t)
BY AtActs DEF Nothing, machine, owners

\* nbd_internal_run, for a caller that asks to go on at ok or err.
LEMMA RunActs ==
  ASSUME NEW t, NEW event, NEW ok \in Goals, NEW err \in Goals, Working(t), RestInv,
         Run(t, event, ok, err), UNCHANGED <<public_state, lock>>,
         IF event = "cmd_issue" THEN state = "NEGOTIATING" /\ Asked(opt') ELSE opt' = opt
  PROVE  Acts(t)
<1>1. CASE Raised(state, event) = {} /\ At(t, err) /\ UNCHANGED machine
  <2>1. opt' = opt
    BY <1>1, EventsLead
  <2> QED BY <1>1, <2>1, AtActs DEF machine, Goals
<1>2. CASE /\ state' \in Raised(state, event) /\ running' = TRUE
           /\ th' = [th EXCEPT ![t].pc = "run", ![t].call = Awaited(t, "run"),
                               ![t].ok = ok, ![t].err = err]
  <2>1. state = "NEGOTIATING" => event = "cmd_issue"
    BY <1>2, EventsLead DEF Enters
  <2>2. IF state = "NEGOTIATING" THEN Asked(opt') ELSE opt' = opt
    BY <2>1
  <2>3. /\ DOMAIN th' = Threads /\ \A u \in Threads \ {t} : th'[u] = th[u]
        /\ DOMAIN th'[t] = Fields
        /\ th'[t].ok \in Goals /\ th'[t].err \in Goals /\ th'[t].pc = "run"
    BY <1>2 DEF Working, LockInv, RestInv, Fields
  <2> QED BY <1>2, <2>2, <2>3, Zenon DEF Acts
<1> QED BY <1>1, <1>2, Zenon DEF Run

\* nbd_internal_command_common.
LEMMA QueueActs ==
  ASSUME NEW t, NEW cmd, NEW then \in Goals, Working(t), RestInv, Queue(t, cmd, then),
         UNCHANGED <<public_state, lock>>
  PROVE  Acts(t)
<1>1. UNCHANGED opt
  BY DEF Queue
<1>2. CASE /\ state = "READY" /\ state' \in Raised(state, "cmd_issue") /\ running' = TRUE
           /\ th' = [th EXCEPT ![t].args = {}, ![t].call = Awaited(t, "run"), ![t].pc = "run",
                               ![t].ok = then, ![t].err = then]
  BY <1>1, <1>2 DEF Working, LockInv, RestInv, Acts, Fields
<1>3. CASE th' = [th EXCEPT ![t].args = {}, ![t].pc = then, ![t].call = Awaited(t, then)] /\ UNCHANGED machine
  BY <1>1, <1>3 DEF Working, LockInv, RestInv, Acts, Fields, Goals, machine
<1> QED BY <1>2, <1>3, Zenon DEF Queue, Kick

\* While negotiating there is no option left.
LEMMA NullAtRest ==
  ASSUME OptionAt(opt, state, running), state \notin Asking,
         ~running \/ state \notin {"DEAD", "CLOSED"}
  PROVE  Null(opt)
BY Zenon DEF OptionAt

\* nbd_unlocked_aio_opt_abort, which is called only while negotiating.
LEMMA OptAbortActs ==
  ASSUME NEW t, Working(t), RestInv, OptInv, OptAbort(t), state = "NEGOTIATING",
         UNCHANGED <<public_state, lock>>
  PROVE  Acts(t)
<1>1. Then(t) \in Goals
  BY DEF Then, Goals
<1>2. Null(opt) /\ OptionShape(opt)
  BY NullAtRest, OutsideNegotiation DEF OptInv, OptionAt
<1>3. opt' = [opt EXCEPT !.current = "ABORT"] /\ Run(t, "cmd_issue", Then(t), Then(t))
  BY DEF OptAbort
<1>4. /\ DOMAIN opt' = {"current", "cb", "frame"} /\ opt'.current = "ABORT"
      /\ opt'.cb = {} /\ opt'.frame = NoThread
  BY <1>2, <1>3 DEF OptionShape, Null
<1>5. Asked(opt')
  BY <1>4 DEF Asked, OptionShape, Null, Second, Options, HasFn
<1> QED BY <1>1, <1>3, <1>5, RunActs

\* do_poll.
LEMMA PollActs ==
  ASSUME NEW t, NEW ok \in Goals, NEW err \in Goals, Working(t), RestInv,
         Poll(t, ok, err), UNCHANGED <<public_state, lock>>
  PROVE  Acts(t)
<1>1. UNCHANGED opt
  BY DEF Poll, owners
<1> QED BY <1>1, AtActs, RunActs DEF Poll, Goals, machine

\* The nbd_unlocked_* functions.
LEMMA BodyActs == ASSUME NEW t, Working(t), RestInv, OptInv, Body(t) PROVE Acts(t)
<1>1. UNCHANGED <<public_state, lock>> /\ t \in Threads /\ th[t].pc = "body"
  BY DEF Body, Working
<1>2. Then(t) \in Goals /\ "out" \in Goals /\ "wait" \in Goals
  BY DEF Then, Goals
<1>3. /\ IsRow(th[t].call)
      /\ th[t].call.closures = {c[1] : c \in th[t].args}
      /\ th[t].call.does \in OptionCalls => state = "NEGOTIATING"
  BY <1>1, Rows DEF OptInv, CallAt
<1>4. CASE Nothing(t)
  BY <1>1, <1>4, NothingActs
<1>5. CASE SetDebug(t)
  BY <1>1, <1>5 DEF SetDebug, Working, LockInv, RestInv, Acts, Fields, machine
<1>6. CASE Connect(t)
  <2>1. ASSUME NEW event \in th[t].call.raises, Run(t, event, Then(t), "out"), UNCHANGED owners
        PROVE  Acts(t)
    BY <1>1, <1>2, <1>3, <2>1, RunActs DEF owners, IsRow
  <2> QED BY <1>4, <1>6, <2>1, Zenon DEF Connect
<1>7. CASE Does(t, "option") /\ Option(t)
  <2>1. state = "NEGOTIATING"
    BY <1>7, <1>3 DEF OptionCalls, Does
  <2>2. CASE /\ opt' = [current |-> th[t].call.asks, cb |-> th[t].args,
                        frame |-> IF th[t].call.sync THEN t ELSE NoThread]
             /\ state' \in Raised(state, "cmd_issue") /\ running' = TRUE
             /\ th' = [th EXCEPT ![t].args = {}, ![t].call = Awaited(t, "run"), ![t].pc = "run",
                                 ![t].ok = Then(t), ![t].err = Then(t)]
    <3>1. /\ DOMAIN opt' = {"current", "cb", "frame"}
          /\ opt'.current = th[t].call.asks /\ opt'.cb = th[t].args
      BY <2>2
    <3>2. /\ th[t].call.asks \in Options \ {"none", "ABORT"}
          /\ {c[1] : c \in th[t].args} \subseteq {"fn", "completion"}
          /\ "fn" \in {c[1] : c \in th[t].args} <=> th[t].call.asks \in HasFn
      BY <1>7, <1>3 DEF IsRow, Does
    <3>3. \A c \in th[t].args : c[1] = "completion" \/ (c[1] = "fn" /\ th[t].call.asks \in HasFn)
      BY <3>2
    <3>4. th[t].call.asks \in HasFn => \E c \in th[t].args : c[1] = "fn"
      BY <3>2
    <3>5. Asked(opt')
      BY <3>1, <3>2, <3>3, <3>4 DEF Asked, OptionShape, Second
    <3>6. /\ DOMAIN th' = Threads /\ \A u \in Threads \ {t} : th'[u] = th[u]
          /\ DOMAIN th'[t] = Fields
          /\ th'[t].ok \in Goals /\ th'[t].err \in Goals /\ th'[t].pc = "run"
      BY <1>1, <1>2, <2>2 DEF Working, LockInv, RestInv, Fields
    <3> QED BY <1>1, <2>1, <2>2, <3>5, <3>6 DEF Acts
  <2> QED BY <1>4, <1>7, <2>2, Zenon DEF Option
<1>8. CASE Does(t, "abort") /\ OptAbort(t)
  <2>1. state = "NEGOTIATING"
    BY <1>8, <1>3 DEF OptionCalls, Does
  <2> QED BY <1>1, <1>8, <2>1, OptAbortActs
<1>9. CASE IssueCommand(t)
  <2>1. CASE th' = [th EXCEPT ![t].args = {}, ![t].call = Unlocked, ![t].pc = "out"] /\ UNCHANGED <<machine, opt>>
    BY <1>1, <2>1 DEF Working, LockInv, RestInv, Acts, Fields, machine
  <2>2. ASSUME NEW cmd, Queue(t, cmd, Then(t)) PROVE Acts(t)
    BY <1>1, <1>2, <2>2, QueueActs
  <2> QED BY <1>4, <1>9, <2>1, <2>2, Zenon DEF IssueCommand
<1>10. CASE Disconnect(t, "out")
  <2>1. ASSUME NEW cmd, Queue(t, cmd, "out") PROVE Acts(t)
    BY <1>1, <1>2, <2>1, QueueActs
  <2> QED BY <1>4, <1>10, <2>1, Zenon DEF Disconnect
<1>11. CASE Shutdown(t)
  <2>1. CASE state = "NEGOTIATING" /\ OptAbort(t)
    BY <1>1, <2>1, OptAbortActs
  <2>2. CASE (Abandon(t) \/ UNCHANGED owners) /\ At(t, "disconnect") /\ UNCHANGED machine
    <3>1. UNCHANGED opt
      BY <2>2 DEF Abandon, owners
    <3> QED BY <1>1, <2>2, <3>1, AtActs DEF machine
  <2> QED BY <1>11, <2>1, <2>2 DEF Shutdown
<1>12. CASE Notify(t)
  <2>1. ASSUME NEW event \in th[t].call.raises, Run(t, event, "out", "out"), UNCHANGED owners
        PROVE  Acts(t)
    BY <1>1, <1>2, <1>3, <2>1, RunActs DEF owners, IsRow
  <2> QED BY <1>12, <2>1, Zenon DEF Notify
<1>13. CASE Poll(t, "out", "out")
  BY <1>1, <1>2, <1>13, PollActs
<1>14. CASE Retire(t)
  <2>1. CASE At(t, "out") /\ UNCHANGED <<machine, opt>>
    BY <1>1, <2>1, AtActs DEF machine
  <2> QED BY <1>4, <1>14, <2>1, Zenon DEF Retire
<1> QED BY <1>4, <1>5, <1>6, <1>7, <1>8, <1>9, <1>10, <1>11, <1>12, <1>13, <1>14 DEF Body

\* The loops around nbd_unlocked_poll, and nbd_unlocked_shutdown.
LEMMA WaitActs ==
  ASSUME NEW t, Working(t), RestInv, Wait(t) \/ ShutdownDisconnect(t) PROVE Acts(t)
<1>1. UNCHANGED <<public_state, lock>> /\ "wait" \in Goals /\ "out" \in Goals
  BY Zenon DEF Wait, ShutdownDisconnect, Goals
<1>2. ASSUME NEW pc \in Goals, At(t, pc), UNCHANGED <<machine, opt>> PROVE Acts(t)
  BY <1>1, <1>2, AtActs DEF machine, Goals
<1>3. CASE Wait(t)
  <2>1. CASE Poll(t, "wait", "out")
    BY <1>1, <2>1, PollActs
  <2> QED BY <1>1, <1>2, <1>3, <2>1 DEF Wait
<1>4. CASE ShutdownDisconnect(t)
  <2>1. ASSUME NEW cmd, Queue(t, cmd, "wait") PROVE Acts(t)
    BY <1>1, <2>1, QueueActs
  <2>2. CASE At(t, "wait") /\ UNCHANGED <<machine, owners>>
    BY <1>1, <1>2, <2>2 DEF owners
  <2> QED BY <1>4, <2>1, <2>2, Zenon DEF ShutdownDisconnect
<1> QED BY <1>3, <1>4

\* nbd_internal_free_option leaves no callback.
LEMMA FreedNull ==
  ASSUME OptionShape(opt), opt' = OptionFreed
  PROVE  OptionShape(opt') /\ Null(opt') /\ opt'.current = opt.current
<1>1. Freed = opt.cb
  BY DEF Freed, OptionShape
<1>2. /\ DOMAIN opt' = {"current", "cb", "frame"} /\ opt'.current = opt.current
      /\ opt'.cb = {} /\ opt'.frame = NoThread
  BY <1>1 DEF OptionFreed, OptionShape
<1> QED BY <1>2 DEF OptionShape, Null

\* What a handler does to the option: it keeps it or frees it, DEAD and CLOSED
\* free it, and so do the exits of EndsOption.  OPT_GO.START may make GO current.
LEMMA HandlerOption ==
  ASSUME HandlerEffect, OptionShape(opt)
  PROVE  /\ OptionShape(opt')
         /\ Null(opt) => Null(opt')
         /\ opt'.cb = opt.cb \/ Null(opt')
         /\ state \in {"DEAD", "CLOSED"} \/ <<state, state'>> \in EndsOption => Null(opt')
         /\ state # "OPT_GO.START" \/ opt.current # "none" => opt'.current = opt.current
<1>1. opt' = OptionFreed => OptionShape(opt') /\ Null(opt') /\ opt'.current = opt.current
  BY FreedNull
<1>2. /\ AbortAll => opt' = OptionFreed
      /\ FreeOption => opt' = OptionFreed
      /\ FinishIssue => opt' = opt
      /\ FinishCommand => opt' = opt
  BY Zenon DEF AbortAll, FreeOption, FinishIssue, FinishCommand
<1>3. <<state, state'>> \in EndsOption =>
        state \notin {"DEAD", "CLOSED", "ISSUE.FINISH", "FINISH_COMMAND", "OPT_GO.START"}
  BY DEF EndsOption, EndsButRefusal
<1>4. CASE state \in {"DEAD", "CLOSED"}
  BY <1>1, <1>2, <1>4 DEF HandlerEffect
<1>5. CASE state = "ISSUE.FINISH"
  BY <1>2, <1>3, <1>5 DEF HandlerEffect
<1>6. CASE state = "FINISH_COMMAND"
  BY <1>2, <1>3, <1>6 DEF HandlerEffect
<1>7. CASE state = "OPT_GO.START"
  <2>1. opt' = [opt EXCEPT !.current = IF opt.current = "none" THEN "GO" ELSE opt.current]
    <3>1. StartGo
      BY <1>3, <1>7 DEF HandlerEffect
    <3> QED BY <3>1 DEF StartGo
  <2>2. /\ DOMAIN opt' = {"current", "cb", "frame"} /\ opt'.cb = opt.cb /\ opt'.frame = opt.frame
        /\ opt'.current = IF opt.current = "none" THEN "GO" ELSE opt.current
    BY <2>1 DEF OptionShape
  <2>3. OptionShape(opt')
    BY <2>2 DEF OptionShape, Options, HasFn
  <2> QED BY <1>3, <1>7, <2>2, <2>3 DEF Null
<1>8. CASE /\ state \notin {"DEAD", "CLOSED", "ISSUE.FINISH", "FINISH_COMMAND", "OPT_GO.START"}
           /\ <<state, state'>> \in EndsOption
  <2>1. FreeOption
    BY <1>8 DEF HandlerEffect
  <2> QED BY <1>1, <1>2, <1>8, <2>1
<1>9. CASE /\ state \notin {"DEAD", "CLOSED", "ISSUE.FINISH", "FINISH_COMMAND", "OPT_GO.START"}
           /\ <<state, state'>> \notin EndsOption
  <2>1. opt' = opt
    BY <1>9 DEF HandlerEffect
  <2> QED BY <1>9, <2>1
<1> QED BY <1>4, <1>5, <1>6, <1>7, <1>8, <1>9

\* NEWSTYLE.START sends an option to its own states,
LEMMA OptionStarts ==
  ASSUME NEW o \in Options
  PROVE  /\ "NEWSTYLE.RECV_GFLAGS" \in StartOf(o) => o = "none"
         /\ "OPT_STARTTLS.START" \in StartOf(o) => o = "STARTTLS"
         /\ "OPT_EXTENDED_HEADERS.START" \in StartOf(o) => o = "EXTENDED_HEADERS"
         /\ "OPT_STRUCTURED_REPLY.START" \in StartOf(o) => o = "STRUCTURED_REPLY"
         /\ "OPT_META_CONTEXT.START" \in StartOf(o) => o # "LIST"
         /\ "OPT_LIST.START" \in StartOf(o) => o = "LIST"
BY DEF StartOf, Options

\* and the handlers of an option that is asked for do not pass by to another.
LEMMA PassesBy ==
  ASSUME Routed
  PROVE  /\ state = "NEWSTYLE.START" => state' \in StartOf(opt.current)
         /\ /\ state' = "OPT_EXTENDED_HEADERS.START"
            /\ state \in {"OPT_STARTTLS.START", "OPT_STARTTLS.CHECK_REPLY",
                          "OPT_STARTTLS.TLS_HANDSHAKE_DONE"}
            => opt.current # "STARTTLS"
         /\ /\ state' = "OPT_STRUCTURED_REPLY.START"
            /\ state \in {"OPT_EXTENDED_HEADERS.START", "OPT_EXTENDED_HEADERS.CHECK_REPLY"}
            => opt.current # "EXTENDED_HEADERS"
         /\ /\ state' = "OPT_META_CONTEXT.START"
            /\ state \in {"OPT_STRUCTURED_REPLY.START", "OPT_STRUCTURED_REPLY.CHECK_REPLY"}
            => opt.current # "STRUCTURED_REPLY"
         /\ state' = "NEGOTIATING" /\ state = "OPT_STRUCTURED_REPLY.START" =>
              opt.current # "STRUCTURED_REPLY"
<1>1. \A s, r, o : o \in Options /\ <<s, r, o>> \in InPassing /\ state = s /\ state' = r =>
        opt.current # o
  BY Zenon DEF Routed, Exit
<1>2. /\ {<<"OPT_STARTTLS.START", "OPT_EXTENDED_HEADERS.START", "STARTTLS">>,
          <<"OPT_STARTTLS.CHECK_REPLY", "OPT_EXTENDED_HEADERS.START", "STARTTLS">>,
          <<"OPT_STARTTLS.TLS_HANDSHAKE_DONE", "OPT_EXTENDED_HEADERS.START", "STARTTLS">>,
          <<"OPT_EXTENDED_HEADERS.START", "OPT_STRUCTURED_REPLY.START", "EXTENDED_HEADERS">>,
          <<"OPT_EXTENDED_HEADERS.CHECK_REPLY", "OPT_STRUCTURED_REPLY.START",
            "EXTENDED_HEADERS">>,
          <<"OPT_STRUCTURED_REPLY.START", "NEGOTIATING", "STRUCTURED_REPLY">>,
          <<"OPT_STRUCTURED_REPLY.START", "OPT_META_CONTEXT.START", "STRUCTURED_REPLY">>,
          <<"OPT_STRUCTURED_REPLY.CHECK_REPLY", "OPT_META_CONTEXT.START",
            "STRUCTURED_REPLY">>} \subseteq InPassing
      /\ {"STARTTLS", "EXTENDED_HEADERS", "STRUCTURED_REPLY"} \subseteq Options
  BY Zenon DEF InPassing, Options
<1>3. state = "NEWSTYLE.START" => state' \in StartOf(opt.current)
  BY Zenon DEF Routed
<1> QED BY <1>1, <1>2, <1>3, Zenon

\* Where the machine goes on, the option fits.
LEMMA GoesOnFits ==
  ASSUME GoesOn(state, state'), Routed, Fits(state, opt.current), opt.current \in Options
  PROVE  /\ Fits(state', opt.current)
         /\ state' \in {"NEWSTYLE.START", "OPT_META_CONTEXT.START", "OPT_LIST.START"} =>
              state = "NEWSTYLE.START" \/ opt.current = "none"
         /\ state \in Asking /\ opt.current # "none" =>
              \/ state' \in Asking \cup {"DEAD", "CLOSED"}
              \/ <<state, state'>> \in EndsOption
<1>1. Arrives(state, state') /\ Quits(state, state')
  BY DEF GoesOn
<1>2. /\ "NEWSTYLE.START" \notin Early \cup Starttls \cup ExtendedHeaders \cup StructuredReply
      /\ {"OPT_STARTTLS.START", "OPT_STARTTLS.CHECK_REPLY",
          "OPT_STARTTLS.TLS_HANDSHAKE_DONE"} \subseteq Starttls
      /\ {"OPT_EXTENDED_HEADERS.START", "OPT_EXTENDED_HEADERS.CHECK_REPLY"}
           \subseteq ExtendedHeaders
      /\ {"OPT_STRUCTURED_REPLY.START", "OPT_STRUCTURED_REPLY.CHECK_REPLY"}
           \subseteq StructuredReply
  BY DEF Early, Starttls, ExtendedHeaders, StructuredReply, NoState, GROUP_CONNECT,
         GROUP_CONNECT_TCP, GROUP_CONNECT_COMMAND, GROUP_MAGIC, GROUP_OLDSTYLE
<1>3. Fits(state', opt.current)
  <2>1. state' \in Early => opt.current = "none"
    BY <1>1, PassesBy, OptionStarts DEF Arrives, Fits
  <2>2. state' \in Starttls => opt.current \in {"none", "STARTTLS"}
    BY <1>1, PassesBy, OptionStarts DEF Arrives, Fits
  <2>3. state' \in ExtendedHeaders => opt.current \in {"none", "EXTENDED_HEADERS"}
    BY <1>1, <1>2, PassesBy, OptionStarts DEF Arrives, Fits
  <2>4. state' \in StructuredReply => opt.current \in {"none", "STRUCTURED_REPLY"}
    BY <1>1, <1>2, PassesBy, OptionStarts DEF Arrives, Fits
  <2>5. state' = "OPT_META_CONTEXT.START" => opt.current # "LIST"
    BY <1>1, <1>2, PassesBy, OptionStarts DEF Arrives, Fits
  <2>6. state' = "OPT_LIST.START" => opt.current = "LIST"
    BY <1>1, PassesBy, OptionStarts DEF Arrives
  <2> QED BY <2>1, <2>2, <2>3, <2>4, <2>5, <2>6, Zenon DEF Fits
<1>4. state' \in {"NEWSTYLE.START", "OPT_META_CONTEXT.START", "OPT_LIST.START"} =>
        state = "NEWSTYLE.START" \/ opt.current = "none"
  BY <1>1, <1>2, PassesBy DEF Arrives, Fits
<1>5. state \in Asking /\ opt.current # "none" =>
        \/ state' \in Asking \cup {"DEAD", "CLOSED"}
        \/ <<state, state'>> \in EndsOption
  BY <1>1, <1>2, PassesBy, OptionStarts DEF Quits, Fits
<1> QED BY <1>3, <1>4, <1>5

\* So nbd_internal_run keeps the option where it belongs, as long as it goes on,
LEMMA ContinuedFits ==
  ASSUME OptionAt(opt, state, TRUE), HandlerEffect, GoesOn(state, state'), Routed
  PROVE  OptionAt(opt', state', TRUE)
<1>1. OptionShape(opt) /\ Fits(state, opt.current) /\ opt.current \in Options
  BY Zenon DEF OptionAt, OptionShape
<1>2. /\ Fits(state', opt.current)
      /\ state' \in {"NEWSTYLE.START", "OPT_META_CONTEXT.START", "OPT_LIST.START"} =>
           state = "NEWSTYLE.START" \/ opt.current = "none"
      /\ state \in Asking /\ opt.current # "none" =>
           \/ state' \in Asking \cup {"DEAD", "CLOSED"}
           \/ <<state, state'>> \in EndsOption
  BY <1>1, GoesOnFits
<1>3. /\ OptionShape(opt')
      /\ Null(opt) => Null(opt')
      /\ opt'.cb = opt.cb \/ Null(opt')
      /\ state \in {"DEAD", "CLOSED"} \/ <<state, state'>> \in EndsOption => Null(opt')
      /\ state # "OPT_GO.START" \/ opt.current # "none" => opt'.current = opt.current
  BY <1>1, HandlerOption
<1>4. \/ Null(opt')
      \/ state' \in Asking /\ opt'.current \notin {"none", "ABORT"}
      \/ state' \in {"DEAD", "CLOSED"}
  BY <1>2, <1>3 DEF OptionAt
<1>5. CASE state = "OPT_GO.START"
  <2>1. state' \notin Early \cup Starttls \cup ExtendedHeaders \cup StructuredReply
                  \cup {"NEWSTYLE.START", "OPT_META_CONTEXT.START", "OPT_LIST.START"}
    <3>1. state \notin Early \cup Starttls \cup ExtendedHeaders \cup StructuredReply
      BY <1>5 DEF Early, Starttls, ExtendedHeaders, StructuredReply, NoState,
             GROUP_CONNECT, GROUP_CONNECT_TCP, GROUP_CONNECT_COMMAND, GROUP_MAGIC,
             GROUP_OLDSTYLE
    <3> QED BY <1>5, <3>1 DEF GoesOn, Arrives
  <2> QED BY <1>3, <1>4, <2>1, Zenon DEF OptionAt, Fits
<1>6. CASE state # "OPT_GO.START"
  <2>1. Fits(state', opt'.current) /\ opt'.current = opt.current
    BY <1>2, <1>3, <1>6
  <2>2. ASSUME state' \in {"NEWSTYLE.START", "OPT_META_CONTEXT.START", "OPT_LIST.START"}
        PROVE  Second(opt')
    <3>1. CASE opt.current = "none"
      BY <2>1, <3>1 DEF Second, HasFn
    <3>2. CASE state = "NEWSTYLE.START"
      <4>1. opt' = opt
        <5>1. <<state, state'>> \notin EndsOption
          BY <3>2 DEF EndsOption, EndsButRefusal
        <5> QED BY <3>2, <5>1 DEF HandlerEffect
      <4> QED BY <3>2, <4>1 DEF OptionAt
    <3> QED BY <1>2, <2>2, <3>1, <3>2
  <2> QED BY <1>3, <1>4, <2>1, <2>2, Zenon DEF OptionAt
<1> QED BY <1>5, <1>6

\* and where it stops.
LEMMA StoppedFits ==
  ASSUME OptionAt(opt, state, TRUE), HandlerEffect, Halts(state, state')
  PROVE  OptionAt(opt', state', FALSE)
<1>1. OptionShape(opt) /\ Fits(state, opt.current)
  BY Zenon DEF OptionAt
<1>2. state' = state \/ (state' \notin Asking /\ state \notin Asking /\ (state' \in Early => state \in Early))
  BY DEF Halts
<1>3. state # "OPT_GO.START" /\ "OPT_GO.START" \in Asking
  <2>1. "OPT_GO.START" \in Asking /\ "OPT_GO.START" \notin Resting
    BY SMTT(60) DEF Resting, READ_states, WRITE_states, Asking, Early, NoState, GROUP_CONNECT,
           GROUP_CONNECT_TCP, GROUP_CONNECT_COMMAND, GROUP_MAGIC, GROUP_OLDSTYLE,
           GROUP_NEWSTYLE, GROUP_NEWSTYLE_OPT
  <2> QED BY <1>2, <2>1 DEF Halts
<1>4. /\ OptionShape(opt') /\ opt'.current = opt.current
      /\ Null(opt) => Null(opt')
      /\ state \in {"DEAD", "CLOSED"} => Null(opt')
  BY <1>1, <1>3, HandlerOption
<1>5. Starttls \cup ExtendedHeaders \cup StructuredReply
        \cup {"NEWSTYLE.START", "OPT_META_CONTEXT.START", "OPT_LIST.START"} \subseteq Asking
  BY SMTT(60) DEF Starttls, ExtendedHeaders, StructuredReply, Asking, Early, NoState, GROUP_CONNECT,
         GROUP_CONNECT_TCP, GROUP_CONNECT_COMMAND, GROUP_MAGIC, GROUP_OLDSTYLE,
         GROUP_NEWSTYLE, GROUP_NEWSTYLE_OPT
<1>6. state' \notin {"NEWSTYLE.START", "OPT_META_CONTEXT.START", "OPT_LIST.START"}
  BY DEF Halts, Resting, READ_states, WRITE_states
<1>7. Fits(state', opt'.current)
  BY <1>1, <1>2, <1>4, <1>5 DEF Fits
<1>8. Null(opt') \/ (state' \in Asking /\ opt'.current \notin {"none", "ABORT"})
  BY <1>2, <1>4 DEF OptionAt
<1> QED BY <1>4, <1>6, <1>7, <1>8, Zenon DEF OptionAt

\* A handler goes on, or stops in a state of Resting and lets its caller go on.
LEMMA HandlerInv ==
  ASSUME NEW t \in Threads, LockInv, RestInv, OptInv, Handler(t)
  PROVE  RestInv' /\ OptInv'
<1>1. /\ th[t].pc = "run" /\ running /\ UNCHANGED <<public_state, lock>> /\ HandlerEffect
      /\ DOMAIN th = Threads
  BY DEF Handler, RestInv, LockInv
<1>2. \A u \in Threads \ {t} : th[u].pc \notin {"run", "body"}
  BY <1>1, Alone DEF Holding
<1>3. OptionAt(opt, state, TRUE)
  BY <1>1, Zenon DEF OptInv, OptionAt
<1>4. CASE Continued
  <2>1. UNCHANGED <<running, th>> /\ state # NoState /\ state' # NoState
    BY <1>4 DEF Continued, GoesOn
  <2>2. RestInv'
    BY <1>1, <2>1 DEF RestInv
  <2>3. OptionAt(opt', state', TRUE)
    BY <1>1, <1>3, <1>4, ContinuedFits DEF Continued
  <2>4. OptionAt(opt', state', running')
    BY <1>1, <2>1, <2>3, Zenon DEF OptionAt
  <2>5. \A u \in Threads : th'[u].pc # "body"
    BY <1>1, <1>2, <2>1
  <2> QED BY <2>2, <2>4, <2>5, Zenon DEF OptInv, CallAt
<1>5. ASSUME NEW pc \in Goals, Returns(t, pc), Halts(state, state')
      PROVE  RestInv' /\ OptInv'
  <2>1. /\ th' = [th EXCEPT ![t].pc = pc, ![t].call = Awaited(t, pc),
                            ![t].ok = "out", ![t].err = "out"]
        /\ running' = FALSE
    BY <1>5 DEF Returns
  <2>2. state # NoState /\ state' \in Resting /\ state' # NoState
    BY <1>5, RestingExists DEF Halts
  <2>3. \A u \in Threads : /\ DOMAIN th'[u] = Fields /\ th'[u].pc \notin {"run", "body"}
                          /\ th'[u].ok \in Goals /\ th'[u].err \in Goals
    BY <1>1, <1>2, <2>1, SMTT(60) DEF RestInv, Fields, Goals
  <2>4. RestInv'
    BY <1>1, <2>1, <2>2, <2>3 DEF RestInv
  <2>5. OptionAt(opt', state', FALSE)
    BY <1>1, <1>3, <1>5, StoppedFits
  <2> QED BY <2>1, <2>3, <2>4, <2>5, Zenon DEF OptInv, CallAt
<1>6. th[t].ok \in Goals /\ th[t].err \in Goals
  BY DEF RestInv
<1>7. CASE Stopped(t)
  BY <1>5, <1>6, <1>7, Zenon DEF Stopped
<1> QED BY <1>4, <1>7, HandlerGoes

\* A handle that does not exist has no option.
LEMMA NoOptionAt == \A r : OptionAt(NoOption, NoState, r)
<1>1. Fits(NoState, "none")
  BY DEF Fits, NoState
<1>2. OptionShape(NoOption) /\ Null(NoOption) /\ NoOption.current = "none"
  BY DEF OptionShape, Null, NoOption, Options
<1>3. NoState \notin {"NEWSTYLE.START", "OPT_META_CONTEXT.START", "OPT_LIST.START"}
  BY DEF NoState
<1> QED BY <1>1, <1>2, <1>3, Zenon DEF OptionAt

\* Every step of a thread.
LEMMA ApiInvStep ==
  ASSUME NEW t \in Threads, LockInv, RestInv, OptInv, Step(t)
  PROVE  RestInv' /\ OptInv'
<1>1. DOMAIN th = Threads /\ DOMAIN th[t] = Fields
  BY DEF LockInv, RestInv
<1>2. ASSUME UNCHANGED <<state, running, public_state, opt>>,
             \A u \in Threads \ {t} : th'[u] = th[u],
             DOMAIN th'[t] = Fields, th'[t].ok \in Goals, th'[t].err \in Goals,
             th'[t].pc \notin {"run", "body"}
      PROVE  RestInv' /\ OptInv'
  <2>1. RestInv'
    BY <1>2 DEF RestInv
  <2>2. \A u \in Threads : CallAt(u)'
    BY <1>2 DEF OptInv, CallAt
  <2> QED BY <1>2, <2>1, <2>2, Zenon DEF OptInv
<1>3. CASE \E kinds \in {row.closures : row \in Calls} : Begin(t, kinds)
  <2>1. PICK cs : /\ th' = [th EXCEPT ![t].args = cs, ![t].pc = "lock"]
                  /\ UNCHANGED <<machine, public_state, opt>>
    BY <1>3, Zenon DEF Begin
  <2>2. /\ \A u \in Threads \ {t} : th'[u] = th[u]
        /\ DOMAIN th'[t] = Fields /\ th'[t].ok \in Goals /\ th'[t].err \in Goals
        /\ th'[t].pc = "lock"
    BY <1>1, <2>1 DEF RestInv, Fields
  <2> QED BY <1>2, <2>1, <2>2, Zenon DEF machine
<1>4. CASE Enter(t)
  <2>1. PICK row \in Calls, pc \in {"body", "out"} :
          /\ row.closures = {c[1] : c \in th[t].args}
          /\ pc \in Check(row)
          /\ th' = [th EXCEPT ![t].call = IF pc = "body" THEN row ELSE Unlocked, ![t].pc = pc]
    BY <1>4, Zenon DEF Enter
  <2>2. /\ \A u \in Threads \ {t} : th'[u] = th[u]
        /\ DOMAIN th'[t] = Fields /\ th'[t].ok \in Goals /\ th'[t].err \in Goals
        /\ th'[t].pc = pc /\ th'[t].args = th[t].args /\ (pc = "body" => th'[t].call = row)
    BY <1>1, <2>1 DEF RestInv, Fields
  <2>3. public_state = state /\ UNCHANGED <<state, running, public_state, opt>>
    BY <1>4 DEF Enter, LockInv, machine, owners
  <2>4. RestInv'
    BY <2>2, <2>3 DEF RestInv
  <2>5. pc = "body" /\ row.does \in OptionCalls => state = "NEGOTIATING"
    <3>1. SUFFICES ASSUME pc = "body", row.does \in OptionCalls PROVE state = "NEGOTIATING"
      OBVIOUS
    <3>2. row.permitted = {"negotiating"}
      BY <3>1, Rows DEF IsRow, Negotiating
    <3>3. ClassesOf(public_state) \cap row.permitted # {}
      BY <2>1, <3>1 DEF Check
    <3> QED BY <2>3, <3>2, <3>3, ClassIs
  <2>6. CallAt(t)'
    BY <2>1, <2>2, <2>3, <2>5 DEF CallAt
  <2>7. \A u \in Threads \ {t} : CallAt(u)'
    BY <2>2, <2>3 DEF OptInv, CallAt
  <2> QED BY <2>3, <2>4, <2>6, <2>7 DEF OptInv
<1>5. CASE Body(t)
  <2>1. Working(t)
    BY <1>5 DEF Body, Working, Holding
  <2> QED BY <1>5, <2>1, BodyActs, ActsInv
<1>6. CASE Wait(t) \/ ShutdownDisconnect(t)
  <2>1. Working(t)
    BY <1>6, Zenon DEF Wait, ShutdownDisconnect, Working, Holding
  <2> QED BY <1>6, <2>1, WaitActs, ActsInv
<1>7. CASE Out(t)
  <2>1. Working(t)
    BY <1>7 DEF Out, Working, Holding
  <2>2. /\ th' = [th EXCEPT ![t] = Idle] /\ UNCHANGED <<state, running>>
        /\ public_state' = state
        /\ opt' = IF opt.frame = t THEN [opt EXCEPT !.frame = Gone] ELSE opt
    BY <1>7 DEF Out, Publish, machine
  <2>3. /\ \A u \in Threads \ {t} : th'[u] = th[u]
        /\ DOMAIN th'[t] = Fields /\ th'[t].ok \in Goals /\ th'[t].err \in Goals
        /\ th'[t].pc = "idle"
    BY <1>1, <2>2 DEF Idle, Fields, Goals
  <2>4. ~running /\ state \in Resting \cup {NoState}
    BY <2>1, NotRunning DEF RestInv
  <2>5. RestInv'
    BY <2>2, <2>3, <2>4 DEF RestInv
  <2>6. OptionAt(opt', state', running')
    <3>1. OptionAt(opt, state, running) /\ ~running
      BY <2>4 DEF OptInv
    <3>2. CASE opt' = opt
      BY <2>2, <3>1, <3>2, Zenon
    <3>3. CASE opt.frame = t /\ opt' = [opt EXCEPT !.frame = Gone]
      <4>1. DOMAIN opt' = DOMAIN opt /\ opt'.current = opt.current /\ opt'.cb = opt.cb
        BY <3>1, <3>3 DEF OptionAt, OptionShape
      <4>2. ~Null(opt)
        BY <3>3, ApiAssumption DEF Null
      <4>3. OptionShape(opt') /\ (Second(opt) => Second(opt'))
        BY <3>1, <4>1, Zenon DEF OptionAt, OptionShape, Second
      <4> QED BY <2>2, <3>1, <4>1, <4>2, <4>3, Zenon DEF OptionAt
    <3> QED BY <2>2, <3>2, <3>3
  <2>7. \A u \in Threads : CallAt(u)'
    BY <2>2, <2>3 DEF OptInv, CallAt
  <2> QED BY <2>5, <2>6, <2>7 DEF OptInv
<1>8. CASE ReadDebugCallback(t)
  <2>1. /\ th' = [th EXCEPT ![t].pc = "debug", ![t].seen = debug_callback]
        /\ UNCHANGED <<state, running, public_state, opt>>
    BY <1>8 DEF ReadDebugCallback, machine, owners
  <2>2. /\ \A u \in Threads \ {t} : th'[u] = th[u]
        /\ DOMAIN th'[t] = Fields /\ th'[t].ok \in Goals /\ th'[t].err \in Goals
        /\ th'[t].pc = "debug"
    BY <1>1, <2>1 DEF RestInv, Fields
  <2> QED BY <1>2, <2>1, <2>2, Zenon
<1>9. CASE CallDebugCallback(t)
  <2>1. th' = [th EXCEPT ![t] = Idle] /\ UNCHANGED <<state, running, public_state, opt>>
    BY <1>9 DEF CallDebugCallback, machine, owners
  <2>2. /\ \A u \in Threads \ {t} : th'[u] = th[u]
        /\ DOMAIN th'[t] = Fields /\ th'[t].ok \in Goals /\ th'[t].err \in Goals
        /\ th'[t].pc = "idle"
    BY <1>1, <2>1 DEF Idle, Fields, Goals
  <2> QED BY <1>2, <2>1, <2>2
<1> QED BY <1>3, <1>4, <1>5, <1>6, <1>7, <1>8, <1>9, HandlerInv, Zenon DEF Step

\* Every step.
LEMMA ApiInvNext == ApiInv /\ [Next]_vars => ApiInv'
<1> SUFFICES ASSUME LockInv, RestInv, OptInv, [Next]_vars PROVE LockInv' /\ RestInv' /\ OptInv'
  BY DEF ApiInv
<1>1. LockInv'
  BY LockInvNext
<1>2. CASE UNCHANGED vars
  <2>1. UNCHANGED <<state, running, public_state, th, opt>>
    BY <1>2 DEF vars, machine, owners
  <2>2. RestInv'
    BY <2>1 DEF RestInv
  <2>3. OptInv'
    BY <2>1, Zenon DEF OptInv, CallAt
  <2> QED BY <1>1, <2>2, <2>3
<1>3. CASE Create
  <2>1. /\ state = NoState /\ state' = "START" /\ public_state' = "START"
        /\ UNCHANGED <<running, th, opt>>
    BY <1>3 DEF Create, owners
  <2>2. OptionAt(opt, "START", running)
    <3>1. Null(opt) /\ OptionShape(opt) /\ opt.current = "none"
      BY <2>1, NullAtRest, OutsideNegotiation DEF OptInv, OptionAt, Fits, Early, NoState
    <3>2. Fits("START", "none")
      BY DEF Fits
    <3> QED BY <3>1, <3>2 DEF OptionAt
  <2>3. "START" \in Resting /\ "START" # NoState
    BY DEF Resting, NoState
  <2>4. RestInv'
    BY <2>1, <2>3 DEF RestInv
  <2>5. \A t \in Threads : CallAt(t)'
    BY <2>1 DEF OptInv, CallAt, NoState
  <2> QED BY <1>1, <2>1, <2>2, <2>4, <2>5 DEF OptInv
<1>4. CASE Close
  <2>1. /\ state' = NoState /\ public_state' = NoState /\ opt' = NoOption
        /\ UNCHANGED <<running, th>> /\ \A t \in Threads : th[t].pc = "idle"
    BY <1>4 DEF Close
  <2>2. RestInv'
    BY <2>1 DEF RestInv
  <2>3. \A t \in Threads : CallAt(t)'
    BY <2>1 DEF CallAt
  <2> QED BY <1>1, <2>1, <2>2, <2>3, NoOptionAt DEF OptInv
<1>5. CASE \E t \in Threads : Step(t)
  BY <1>1, <1>5, ApiInvStep
<1> QED BY <1>2, <1>3, <1>4, <1>5 DEF Next

\* Initially no thread is inside a call.
LEMMA ApiInvInit == Init => ApiInv
<1>1. Init => LockInv
  BY LockInvInit
<1>2. Init => RestInv
  BY DEF Init, RestInv, Idle, Fields, Goals
<1>3. Init => OptInv
  BY NoOptionAt, SMTT(60) DEF Init, OptInv, CallAt, Idle
<1> QED BY <1>1, <1>2, <1>3 DEF ApiInv

\* However many threads use a handle, a program that polls it by its public state
\* always finds one of the nbd_aio_is_* functions true, a direction to poll for as
\* long as it is connecting or connected, and its event accepted.
THEOREM PublicStateAlwaysUsable == Spec => []PublicStateUsable
<1>1. ApiInv => PublicStateUsable
  <2> SUFFICES ASSUME ApiInv, state # NoState PROVE Usable(public_state)
    BY Zenon DEF PublicStateUsable, Usable
  <2> QED BY RestingUsable DEF ApiInv, RestInv
<1> QED BY <1>1, ApiInvInit, ApiInvNext, PTL DEF Spec

\* Whatever the threads call and whatever the server answers, h->opt_cb has been
\* freed when a call may start an option, and in a handle that is ready, dead, closed
\* or not connected: it is never overwritten, and no closure of it, nor a pointer
\* into the stack frame of a call, outlives the negotiation.  The handlers' asserts
\* about options hold.
THEOREM OptionAlwaysOver == Spec => []OptionOver
<1>1. ApiInv => OptionOver
  <2> SUFFICES ASSUME OptInv PROVE OptionOver
    BY DEF ApiInv
  <2>1. OptionAt(opt, state, running) /\ OptionShape(opt) /\ Fits(state, opt.current)
    BY Zenon DEF OptInv, OptionAt
  <2>2. Null(opt) => NoCompletion /\ NoFn
    BY DEF Null, NoCompletion, NoFn
  <2>3. ~running /\ state \in {"START", "NEGOTIATING", "READY", "DEAD", "CLOSED"} => Null(opt)
    BY <2>1, NullAtRest, OutsideNegotiation
  <2>4. opt.current = "none" => Null(opt) \/ state \in {"DEAD", "CLOSED"}
    BY <2>1, Zenon DEF OptionAt
  <2>5. PassedBy => NoCompletion
    BY <2>1, <2>2, <2>4 DEF PassedBy, Fits, Starttls, ExtendedHeaders, StructuredReply
  <2>6. state = "OPT_META_CONTEXT.START" => (NoFn <=> opt.current # "META_CONTEXT")
    BY <2>1 DEF OptionAt, OptionShape, Second, Fits, HasFn, NoFn
  <2>7. state = "OPT_LIST.START" => opt.current = "LIST" /\ ~NoFn
    BY <2>1 DEF OptionAt, Second, Fits, HasFn, NoFn
  <2>8. state = "MAGIC.CHECK_MAGIC" => opt.current = "none"
    BY <2>1 DEF Fits, Early, GROUP_MAGIC
  <2> QED BY <2>2, <2>3, <2>5, <2>6, <2>7, <2>8, Zenon DEF OptionOver
<1> QED BY <1>1, ApiInvInit, ApiInvNext, PTL DEF Spec

-----------------------------------------------------------------------------
(* The lists of commands, and the closures on them. *)

Records == [cb : SUBSET Closures, waiter : Threads \cup {NoThread}, disc : BOOLEAN]

\* A list of commands no two of which have a closure in common.
Apart(list) == \A i, j \in DOMAIN list : i # j => list[i].cb \cap list[j].cb = {}
Listed(list) == list \in Seq(Records) /\ Apart(list)

\* A closure is on a list if some command has it.
LEMMA OnList ==
  ASSUME NEW list
  PROVE  \A c : c \in CallbacksOf(list) <=> \E i \in DOMAIN list : c \in list[i].cb
BY DEF CallbacksOf

\* The empty list has none, and a list of one command has that command's.
LEMMA ShortList ==
  /\ Listed(<<>>) /\ CallbacksOf(<<>>) = {}
  /\ \A r \in Records : Listed(<<r>>) /\ CallbacksOf(<<r>>) = r.cb
<1>1. Listed(<<>>) /\ CallbacksOf(<<>>) = {}
  BY DEF Listed, Apart, CallbacksOf
<1>2. ASSUME NEW r \in Records PROVE Listed(<<r>>) /\ CallbacksOf(<<r>>) = r.cb
  BY SMTT(60) DEF Listed, Apart, CallbacksOf
<1> QED BY <1>1, <1>2

\* Moving commands to the end of cmds_done: the list has the closures of both.
LEMMA JoinedLists ==
  ASSUME NEW a, NEW b, Listed(a), Listed(b), CallbacksOf(a) \cap CallbacksOf(b) = {}
  PROVE  Listed(a \o b) /\ CallbacksOf(a \o b) = CallbacksOf(a) \cup CallbacksOf(b)
<1> DEFINE c == a \o b
<1>1. /\ a \in Seq(Records) /\ b \in Seq(Records) /\ c \in Seq(Records)
      /\ Len(a) \in Nat /\ Len(b) \in Nat /\ Len(c) = Len(a) + Len(b)
      /\ DOMAIN a = 1..Len(a) /\ DOMAIN b = 1..Len(b) /\ DOMAIN c = 1..Len(c)
  BY DEF Listed
<1>2. /\ \A i \in DOMAIN c : i \in DOMAIN a \/ i - Len(a) \in DOMAIN b
      /\ \A i \in DOMAIN a : i \in DOMAIN c /\ c[i] = a[i]
      /\ \A i \in DOMAIN b : i + Len(a) \in DOMAIN c
      /\ \A i \in DOMAIN c : i \notin DOMAIN a => c[i] = b[i - Len(a)]
  BY <1>1, SMTT(60)
<1>3. \A i \in DOMAIN b : c[i + Len(a)] = b[i]
  BY <1>1, SMTT(60)
<1> HIDE DEF c
<1>4. CallbacksOf(c) = CallbacksOf(a) \cup CallbacksOf(b)
  <2>1. ASSUME NEW x, x \in CallbacksOf(c) PROVE x \in CallbacksOf(a) \cup CallbacksOf(b)
    <3>1. PICK i \in DOMAIN c : x \in c[i].cb
      BY <2>1, OnList
    <3> QED BY <1>2, <3>1, OnList
  <2>2. ASSUME NEW x, x \in CallbacksOf(a) PROVE x \in CallbacksOf(c)
    BY <1>2, <2>2, OnList
  <2>3. ASSUME NEW x, x \in CallbacksOf(b) PROVE x \in CallbacksOf(c)
    <3>1. PICK i \in DOMAIN b : x \in b[i].cb
      BY <2>3, OnList
    <3> QED BY <1>2, <1>3, <3>1, OnList
  <2> QED BY <2>1, <2>2, <2>3
<1>5. ASSUME NEW i \in DOMAIN c, NEW j \in DOMAIN c, i # j, NEW x, x \in c[i].cb, x \in c[j].cb
      PROVE  FALSE
  <2>1. CASE i \in DOMAIN a /\ j \in DOMAIN a
    BY <1>2, <1>5, <2>1 DEF Listed, Apart
  <2>2. CASE i \notin DOMAIN a /\ j \notin DOMAIN a
    <3>1. /\ i - Len(a) \in DOMAIN b /\ c[i] = b[i - Len(a)]
          /\ j - Len(a) \in DOMAIN b /\ c[j] = b[j - Len(a)]
      BY <1>2, <2>2
    <3>2. i - Len(a) # j - Len(a)
      BY <1>1, <1>5, SMTT(60)
    <3> QED BY <1>5, <3>1, <3>2 DEF Listed, Apart
  <2>3. ASSUME NEW k \in DOMAIN a, x \in c[k].cb, NEW m \in DOMAIN c, m \notin DOMAIN a, x \in c[m].cb
        PROVE  FALSE
    <3>1. x \in CallbacksOf(a)
      BY <1>2, <2>3, OnList
    <3>2. x \in CallbacksOf(b)
      BY <1>2, <2>3, OnList
    <3> QED BY <3>1, <3>2
  <2> QED BY <1>5, <2>1, <2>2, <2>3
<1>6. Apart(c)
  BY <1>5 DEF Apart
<1> QED BY <1>1, <1>4, <1>6 DEF c, Listed

\* A list whose commands are commands of another, each once, is no less apart.
LEMMA Sublist ==
  ASSUME NEW a, Listed(a), NEW b \in Seq(Records), NEW at \in [DOMAIN b -> DOMAIN a],
         \A i, j \in DOMAIN b : i # j => at[i] # at[j],
         \A i \in DOMAIN b : b[i].cb = a[at[i]].cb
  PROVE  /\ Listed(b)
         /\ \A c : c \in CallbacksOf(b) <=> \E i \in DOMAIN b : c \in a[at[i]].cb
<1>1. Apart(b)
  BY DEF Listed, Apart
<1>2. \A c : c \in CallbacksOf(b) <=> \E i \in DOMAIN b : c \in a[at[i]].cb
  BY OnList, SMTT(60)
<1> QED BY <1>1, <1>2 DEF Listed

\* What is left of a list has the closures of the commands that are left.
LEMMA WithoutList ==
  ASSUME NEW a, Listed(a), NEW out \in SUBSET DOMAIN a, NEW left \in Without(a, out)
  PROVE  /\ Listed(left)
         /\ CallbacksOf(left) = CallbacksOf(a) \ CallbacksAt(a, out)
         /\ CallbacksAt(a, out) \subseteq CallbacksOf(a)
<1>1. PICK at \in UNION {[1..n -> DOMAIN a \ out] : n \in 0..Len(a)} :
        /\ {at[i] : i \in DOMAIN at} = DOMAIN a \ out
        /\ \A i, j \in DOMAIN at : i < j => at[i] < at[j]
        /\ left = [i \in DOMAIN at |-> a[at[i]]]
  BY Zenon DEF Without
<1>2. PICK n \in 0..Len(a) : at \in [1..n -> DOMAIN a \ out]
  BY <1>1
<1>3. Len(a) \in Nat /\ n \in Nat /\ DOMAIN a = 1..Len(a) /\ \A i \in DOMAIN a : a[i] \in Records
  BY <1>2, SMTT(60) DEF Listed
<1>4. DOMAIN left = 1..n /\ \A i \in 1..n : at[i] \in DOMAIN a /\ left[i] = a[at[i]]
  BY <1>1, <1>2
<1>5. left \in Seq(Records)
  <2>1. left = [i \in 1..n |-> a[at[i]]]
    BY <1>1, <1>2
  <2>2. \A i \in 1..n : a[at[i]] \in Records
    BY <1>3, <1>4
  <2>3. left \in [1..n -> Records]
    BY <2>1, <2>2
  <2> QED BY <1>3, <2>3, SMTT(60)
<1>6. \A i, j \in 1..n : i # j => at[i] # at[j]
  <2>1. DOMAIN at = 1..n /\ \A i \in 1..n : at[i] \in Int
    BY <1>2, <1>3, SMTT(60)
  <2>2. \A i, j \in 1..n : i < j => at[i] < at[j]
    BY <1>1, <2>1
  <2>3. \A i, j \in 1..n : i < j => at[i] # at[j]
    BY <2>1, <2>2, SMTT(60)
  <2>4. \A i, j \in 1..n : i # j => i < j \/ j < i
    BY <1>3, SMTT(60)
  <2> QED BY <2>3, <2>4
<1>7. at \in [DOMAIN left -> DOMAIN a]
  BY <1>2, <1>4
<1>8. /\ Listed(left)
      /\ \A c : c \in CallbacksOf(left) <=> \E i \in 1..n : c \in a[at[i]].cb
  <2>1. \A i, j \in DOMAIN left : i # j => at[i] # at[j]
    BY <1>4, <1>6
  <2>2. \A i \in DOMAIN left : left[i].cb = a[at[i]].cb
    BY <1>4
  <2>3. /\ Listed(left)
        /\ \A c : c \in CallbacksOf(left) <=> \E i \in DOMAIN left : c \in a[at[i]].cb
    BY <1>5, <1>7, <2>1, <2>2, Sublist
  <2> QED BY <1>4, <2>3, Zenon
<1>9. \A k : k \in DOMAIN a \ out <=> \E i \in 1..n : at[i] = k
  BY <1>1, <1>2
<1>10. \A c : c \in CallbacksAt(a, out) <=> \E k \in out : c \in a[k].cb
  BY DEF CallbacksAt
<1>11. \A c : c \in CallbacksOf(left) <=> c \in CallbacksOf(a) /\ c \notin CallbacksAt(a, out)
  <2> TAKE c
  <2>1. ASSUME c \in CallbacksOf(left) PROVE c \in CallbacksOf(a) /\ c \notin CallbacksAt(a, out)
    <3>1. PICK k \in DOMAIN a \ out : c \in a[k].cb
      BY <1>8, <1>9, <2>1
    <3>2. \A m \in out : c \notin a[m].cb
      BY <3>1 DEF Listed, Apart
    <3> QED BY <1>10, <3>1, <3>2, OnList
  <2>2. ASSUME c \in CallbacksOf(a), c \notin CallbacksAt(a, out) PROVE c \in CallbacksOf(left)
    <3>1. PICK k \in DOMAIN a : c \in a[k].cb
      BY <2>2, OnList
    <3> QED BY <1>8, <1>9, <1>10, <2>2, <3>1
  <2> QED BY <2>1, <2>2
<1>12. CallbacksAt(a, out) \subseteq CallbacksOf(a)
  BY <1>10, OnList
<1> QED BY <1>8, <1>11, <1>12

\* A list in two pieces has its closures in either of them.
LEMMA CutList ==
  ASSUME NEW a, Listed(a), NEW n \in 0..Len(a)
  PROVE  LET f == SubSeq(a, 1, n)
             r == SubSeq(a, n + 1, Len(a))
         IN /\ Listed(f) /\ Listed(r) /\ Len(f) = n
            /\ CallbacksOf(f) \cup CallbacksOf(r) = CallbacksOf(a)
            /\ CallbacksOf(f) \cap CallbacksOf(r) = {}
<1> DEFINE f == SubSeq(a, 1, n)
           r == SubSeq(a, n + 1, Len(a))
           from == [i \in 1..n |-> i]
           past == [i \in 1..Len(a) - n |-> n + i]
<1>1. /\ Len(a) \in Nat /\ n \in Nat /\ n <= Len(a) /\ a \in Seq(Records)
      /\ DOMAIN a = 1..Len(a)
  BY DEF Listed
<1>2. f \in Seq(Records) /\ DOMAIN f = 1..n /\ Len(f) = n /\ \A i \in 1..n : f[i] = a[i]
  BY <1>1
<1>3. /\ r \in Seq(Records) /\ DOMAIN r = 1..Len(a) - n
      /\ \A i \in 1..Len(a) - n : r[i] = a[n + i]
  BY <1>1
<1>4. from \in [DOMAIN f -> DOMAIN a] /\ past \in [DOMAIN r -> DOMAIN a]
  BY <1>1, <1>2, <1>3, SMTT(60)
<1>5. /\ \A i, j \in DOMAIN f : i # j => from[i] # from[j]
      /\ \A i \in DOMAIN f : f[i].cb = a[from[i]].cb
  BY <1>2
<1>6. /\ \A i, j \in DOMAIN r : i # j => past[i] # past[j]
      /\ \A i \in DOMAIN r : r[i].cb = a[past[i]].cb
  BY <1>1, <1>3, SMTT(60)
<1> HIDE DEF f, r
<1>7. Listed(f) /\ \A c : c \in CallbacksOf(f) <=> \E i \in 1..n : c \in a[i].cb
  <2>1. Listed(f) /\ \A c : c \in CallbacksOf(f) <=> \E i \in DOMAIN f : c \in a[from[i]].cb
    <3> HIDE DEF from
    <3> QED BY <1>2, <1>4, <1>5, Sublist, Zenon
  <2> QED BY <1>2, <2>1
<1>8. Listed(r) /\ \A c : c \in CallbacksOf(r) <=> \E i \in (n + 1)..Len(a) : c \in a[i].cb
  <2>1. Listed(r) /\ \A c : c \in CallbacksOf(r) <=> \E i \in DOMAIN r : c \in a[past[i]].cb
    <3> HIDE DEF past
    <3> QED BY <1>3, <1>4, <1>6, Sublist, Zenon
  <2>2. ASSUME NEW c, NEW i \in (n + 1)..Len(a), c \in a[i].cb PROVE c \in CallbacksOf(r)
    <3>1. i - n \in DOMAIN r /\ past[i - n] = i
      BY <1>1, <1>3
    <3> HIDE DEF past
    <3> QED BY <2>1, <2>2, <3>1
  <2>3. ASSUME NEW c, c \in CallbacksOf(r) PROVE \E i \in (n + 1)..Len(a) : c \in a[i].cb
    <3>1. PICK i \in DOMAIN r : c \in a[past[i]].cb
      BY <2>1, <2>3, Zenon
    <3>2. past[i] \in (n + 1)..Len(a)
      BY <1>1, <1>3
    <3> HIDE DEF past
    <3> QED BY <3>1, <3>2
  <2> QED BY <2>1, <2>2, <2>3
<1>9. \A c : c \in CallbacksOf(a) <=> c \in CallbacksOf(f) \/ c \in CallbacksOf(r)
  <2>1. \A i : i \in DOMAIN a <=> i \in 1..n \/ i \in (n + 1)..Len(a)
    BY <1>1
  <2> QED BY <1>7, <1>8, <2>1, OnList
<1>10. \A c : ~(c \in CallbacksOf(f) /\ c \in CallbacksOf(r))
  <2> SUFFICES ASSUME NEW c, c \in CallbacksOf(f), c \in CallbacksOf(r) PROVE FALSE
    OBVIOUS
  <2>1. PICK i \in 1..n : c \in a[i].cb
    BY <1>7
  <2>2. PICK j \in (n + 1)..Len(a) : c \in a[j].cb
    BY <1>8
  <2>3. i \in DOMAIN a /\ j \in DOMAIN a /\ i # j
    BY <1>1
  <2> QED BY <2>1, <2>2, <2>3 DEF Listed, Apart
<1>11. Listed(f) /\ Listed(r) /\ Len(f) = n
  BY <1>2, <1>7, <1>8
<1>12. /\ CallbacksOf(f) \cup CallbacksOf(r) = CallbacksOf(a)
       /\ CallbacksOf(f) \cap CallbacksOf(r) = {}
  BY <1>9, <1>10
<1> QED BY <1>11, <1>12 DEF f, r

\* The head of a list, and the rest.
LEMMA HeadOfList ==
  ASSUME NEW a, Listed(a), a # <<>>
  PROVE  /\ Head(a) \in Records /\ Listed(Tail(a))
         /\ Head(a).cb \cup CallbacksOf(Tail(a)) = CallbacksOf(a)
         /\ Head(a).cb \cap CallbacksOf(Tail(a)) = {}
<1> DEFINE past == [i \in 1..Len(a) - 1 |-> i + 1]
<1>1. /\ a \in Seq(Records) /\ Len(a) \in Nat /\ Len(a) > 0 /\ DOMAIN a = 1..Len(a)
      /\ 1 \in DOMAIN a /\ a[1] \in Records /\ Head(a) = a[1]
  BY DEF Listed
<1>2. /\ Tail(a) \in Seq(Records) /\ DOMAIN Tail(a) = 1..Len(a) - 1
      /\ \A i \in 1..Len(a) - 1 : Tail(a)[i] = a[i + 1]
  BY <1>1
<1>3. /\ past \in [DOMAIN Tail(a) -> DOMAIN a]
      /\ \A i, j \in DOMAIN Tail(a) : i # j => past[i] # past[j]
      /\ \A i \in DOMAIN Tail(a) : Tail(a)[i].cb = a[past[i]].cb
      /\ \A i \in DOMAIN Tail(a) : past[i] # 1
      /\ \A k \in DOMAIN a : k # 1 => k - 1 \in DOMAIN Tail(a) /\ past[k - 1] = k
  BY <1>1, <1>2, SMTT(60)
<1> HIDE DEF past
<1>4. /\ Listed(Tail(a))
      /\ \A c : c \in CallbacksOf(Tail(a)) <=> \E i \in DOMAIN Tail(a) : c \in a[past[i]].cb
  BY <1>2, <1>3, Sublist, Zenon
<1>5. ASSUME NEW c, c \in CallbacksOf(a), c \notin a[1].cb PROVE c \in CallbacksOf(Tail(a))
  <2>1. PICK k \in DOMAIN a : c \in a[k].cb
    BY <1>5, OnList
  <2> QED BY <1>3, <1>4, <1>5, <2>1
<1>6. ASSUME NEW c, c \in CallbacksOf(Tail(a)) PROVE c \in CallbacksOf(a) /\ c \notin a[1].cb
  <2>1. PICK i \in DOMAIN Tail(a) : c \in a[past[i]].cb
    BY <1>4, <1>6
  <2>2. past[i] \in DOMAIN a /\ past[i] # 1
    BY <1>3, <2>1
  <2>3. c \notin a[1].cb
    BY <1>1, <2>1, <2>2 DEF Listed, Apart
  <2> QED BY <2>1, <2>2, <2>3, OnList
<1>7. a[1].cb \subseteq CallbacksOf(a)
  BY <1>1, OnList
<1> QED BY <1>1, <1>4, <1>5, <1>6, <1>7

\* A call that gives up waiting leaves the closures on the list.
LEMMA OrphanedList ==
  ASSUME NEW a, Listed(a), NEW t
  PROVE  /\ Listed(Orphaned(a, t)) /\ CallbacksOf(Orphaned(a, t)) = CallbacksOf(a)
         /\ Orphaned(a, t) = <<>> => a = <<>>
<1> DEFINE b == Orphaned(a, t)
           at == [i \in DOMAIN a |-> i]
<1>1. a \in Seq(Records) /\ Len(a) \in Nat /\ DOMAIN a = 1..Len(a) /\ \A i \in DOMAIN a : a[i] \in Records
  BY DEF Listed
<1>2. DOMAIN b = DOMAIN a /\ \A i \in DOMAIN a : b[i] \in Records /\ b[i].cb = a[i].cb
  BY <1>1 DEF Orphaned, Records
<1>3. b \in Seq(Records)
  <2>1. b \in [1..Len(a) -> Records]
    BY <1>1, <1>2 DEF Orphaned
  <2> QED BY <1>1, <2>1
<1> HIDE DEF b
<1>4. at \in [DOMAIN b -> DOMAIN a] /\ \A i \in DOMAIN b : at[i] = i
  BY <1>2
<1> HIDE DEF at
<1>5. Listed(b) /\ \A c : c \in CallbacksOf(b) <=> \E i \in DOMAIN b : c \in a[at[i]].cb
  BY <1>2, <1>3, <1>4, Sublist, SMTT(60)
<1>6. CallbacksOf(b) = CallbacksOf(a)
  BY <1>2, <1>4, <1>5, OnList, ZenonT(60)
<1>7. b = <<>> => a = <<>>
  BY <1>1, <1>2
<1> QED BY <1>5, <1>6, <1>7 DEF b

-----------------------------------------------------------------------------
(* The inductive invariant about closures. *)

\* The closures in the arguments of all threads, and of those other than t.
Args == UNION {th[t].args : t \in Threads}
Rest(t) == UNION {th[u].args : u \in Threads \ {t}}

\* V is made of eight sets that have nothing in common.
Parts(V, P, R, I, F, D, O, B, X) ==
  /\ V = P \cup R \cup I \cup F \cup D \cup O \cup B \cup X
  /\ P \cap (R \cup I \cup F \cup D \cup O \cup B \cup X) = {}
  /\ R \cap (I \cup F \cup D \cup O \cup B \cup X) = {}
  /\ I \cap (F \cup D \cup O \cup B \cup X) = {}
  /\ F \cap (D \cup O \cup B \cup X) = {}
  /\ D \cap (O \cup B \cup X) = {}
  /\ O \cap (B \cup X) = {}
  /\ B \cap X = {}

\* Every live closure is in one of the arguments P and R, or in one place of the
\* handle.
Held(P, R) ==
  Parts(live, P, R, CallbacksOf(cmds_to_issue), CallbacksOf(cmds_in_flight),
        CallbacksOf(cmds_done), opt.cb, debug_callback, lost)

ListsInv ==
  /\ Listed(cmds_to_issue) /\ Listed(cmds_in_flight) /\ Listed(cmds_done)
  /\ DOMAIN opt = {"current", "cb", "frame"}
  /\ live \subseteq Closures

\* A thread that is not calling has no arguments, and a call has the closures of
\* its function.
ArgsFit(t) ==
  /\ th[t].pc \in {"idle", "debug", "disconnect"} => th[t].args = {}
  /\ th[t].pc = "body" =>
       IsRow(th[t].call) /\ th[t].call.closures = {c[1] : c \in th[t].args}

ArgsInv ==
  /\ \A t \in Threads : ArgsFit(t)
  /\ \A t, u \in Threads : t # u => th[t].args \cap th[u].args = {}

\* While a command is issued it is the head of cmds_to_issue.
IssueInv == state \in GROUP_ISSUE_COMMAND => cmds_to_issue # <<>>

OwnInv == ListsInv /\ ArgsInv /\ IssueInv /\ Held(Args, {})

\* The three lists of a handle are one list, too.
LEMMA AllListed ==
  ASSUME OwnInv
  PROVE  /\ Listed(AllCommands)
         /\ CallbacksOf(AllCommands) =
              CallbacksOf(cmds_to_issue) \cup CallbacksOf(cmds_in_flight) \cup CallbacksOf(cmds_done)
<1> DEFINE both == cmds_to_issue \o cmds_in_flight
<1>1. Listed(cmds_to_issue) /\ Listed(cmds_in_flight) /\ Listed(cmds_done)
  BY DEF OwnInv, ListsInv
<1>2. Listed(both) /\ CallbacksOf(both) = CallbacksOf(cmds_to_issue) \cup CallbacksOf(cmds_in_flight)
  <2>1. CallbacksOf(cmds_to_issue) \cap CallbacksOf(cmds_in_flight) = {}
    BY DEF OwnInv, Held, Parts
  <2> QED BY <1>1, <2>1, JoinedLists
<1> HIDE DEF both
<1>3. CallbacksOf(both) \cap CallbacksOf(cmds_done) = {}
  BY <1>2 DEF OwnInv, Held, Parts
<1>4. Listed(both \o cmds_done) /\ CallbacksOf(both \o cmds_done) = CallbacksOf(both) \cup CallbacksOf(cmds_done)
  BY <1>1, <1>2, <1>3, JoinedLists
<1> QED BY <1>2, <1>4 DEF AllCommands, both

\* The arguments of t and of the others are parts, too.
LEMMA OwnFocus == ASSUME NEW t \in Threads, OwnInv PROVE Held(th[t].args, Rest(t))
<1>1. Args = th[t].args \cup Rest(t)
  BY DEF Args, Rest
<1>2. th[t].args \cap Rest(t) = {}
  BY DEF OwnInv, ArgsInv, Rest
<1> QED BY <1>1, <1>2 DEF OwnInv, Held, Parts

\* A step of one thread keeps the invariant if it keeps t's part of it.
LEMMA OwnStep ==
  ASSUME NEW t \in Threads, OwnInv, \A u \in Threads \ {t} : th'[u] = th[u],
         ListsInv', IssueInv', ArgsFit(t)',
         Parts(live', th'[t].args, Rest(t), CallbacksOf(cmds_to_issue'),
               CallbacksOf(cmds_in_flight'), CallbacksOf(cmds_done'), opt'.cb,
               debug_callback', lost')
  PROVE  OwnInv'
<1>1. Args' = th'[t].args \cup Rest(t)
  <2>1. Args' = UNION {th'[u].args : u \in Threads}
    BY DEF Args
  <2> QED BY <2>1 DEF Rest
<1>2. th'[t].args \cap Rest(t) = {}
  BY DEF Parts
<1>3. Held(Args, {})'
  <2>1. Parts(live', Args', {}, CallbacksOf(cmds_to_issue'), CallbacksOf(cmds_in_flight'),
              CallbacksOf(cmds_done'), opt'.cb, debug_callback', lost')
    BY <1>1 DEF Parts
  <2> QED BY <2>1, Zenon DEF Held, CallbacksOf
<1>4. ASSUME NEW u \in Threads PROVE ArgsFit(u)'
  <2>1. CASE u = t
    BY <2>1
  <2>2. CASE u # t
    BY <2>2 DEF OwnInv, ArgsInv, ArgsFit
  <2> QED BY <2>1, <2>2
<1>5. ASSUME NEW u \in Threads \ {t} PROVE th'[u].args \cap th'[t].args = {}
  BY <1>2 DEF Rest
<1>6. \A u, v \in Threads : u # v => th'[u].args \cap th'[v].args = {}
  BY <1>5 DEF OwnInv, ArgsInv
<1>7. ArgsInv'
  BY <1>4, <1>6 DEF ArgsInv
<1> QED BY <1>3, <1>7 DEF OwnInv

\* In particular if no closure moves.
LEMMA NoneMoves ==
  ASSUME NEW t \in Threads, OwnInv, \A u \in Threads \ {t} : th'[u] = th[u],
         UNCHANGED owners, th'[t].args = th[t].args, IssueInv', ArgsFit(t)'
  PROVE  OwnInv'
<1>1. UNCHANGED <<opt, cmds_to_issue, cmds_in_flight, cmds_done, debug_callback, live, lost>>
  BY DEF owners, lists
<1>2. ListsInv'
  BY <1>1 DEF OwnInv, ListsInv
<1>3. Held(th[t].args, Rest(t))
  BY OwnFocus
<1>4. Parts(live', th'[t].args, Rest(t), CallbacksOf(cmds_to_issue'),
            CallbacksOf(cmds_in_flight'), CallbacksOf(cmds_done'), opt'.cb,
            debug_callback', lost')
  BY <1>1, <1>3 DEF Held
<1> QED BY <1>2, <1>4, OwnStep

\* nbd_internal_run enters ISSUE_COMMAND only for a queued command.
LEMMA RunIssue ==
  ASSUME NEW t, NEW event, NEW ok, NEW err, IssueInv, Run(t, event, ok, err),
         UNCHANGED cmds_to_issue, event # "cmd_issue" \/ state # "READY"
  PROVE  IssueInv'
<1>1. CASE UNCHANGED machine
  BY <1>1 DEF machine, IssueInv
<1>2. CASE state' \in Raised(state, event)
  <2>1. state' \in GROUP_ISSUE_COMMAND => state \in GROUP_ISSUE_COMMAND
    BY <1>2, EventsLead DEF Enters
  <2> QED BY <2>1 DEF IssueInv
<1> QED BY <1>1, <1>2, Zenon DEF Run

\* A thread at work goes on outside the body of its function, with the closures
\* its step left it.
Stays(t) ==
  /\ DOMAIN th' = Threads
  /\ \A u \in Threads \ {t} : th'[u] = th[u]
  /\ th'[t].pc \notin {"idle", "debug", "disconnect", "body"}

\* Such a thread has no more to show for its arguments.
LEMMA StaysFits == ASSUME NEW t \in Threads, Stays(t) PROVE ArgsFit(t)'
BY DEF Stays, ArgsFit

\* A call that goes on elsewhere keeps its arguments.
LEMMA AtStays ==
  ASSUME NEW t \in Threads, NEW pc, LockInv, RestInv, At(t, pc),
         pc \notin {"idle", "debug", "disconnect", "body"}
  PROVE  Stays(t) /\ th'[t].args = th[t].args
BY DEF LockInv, RestInv, Fields, At, Stays

\* So does one that enters nbd_internal_run.
LEMMA RunStays ==
  ASSUME NEW t \in Threads, NEW event, NEW ok, NEW err \in Goals, LockInv, RestInv,
         Run(t, event, ok, err)
  PROVE  Stays(t) /\ th'[t].args = th[t].args
<1>1. CASE At(t, err)
  BY <1>1, AtStays DEF Goals
<1>2. CASE th' = [th EXCEPT ![t].pc = "run", ![t].call = Awaited(t, "run"),
                            ![t].ok = ok, ![t].err = err]
  BY <1>2 DEF LockInv, RestInv, Fields, Stays
<1> QED BY <1>1, <1>2, Zenon DEF Run

\* A function that only looks at the handle moves no closure,
LEMMA NothingOwn ==
  ASSUME NEW t \in Threads, LockInv, RestInv, OwnInv, NEW pc,
         pc \notin {"idle", "debug", "disconnect", "body"},
         At(t, pc), UNCHANGED <<machine, owners>>
  PROVE  OwnInv'
<1>1. Stays(t) /\ th'[t].args = th[t].args
  BY AtStays
<1>2. IssueInv'
  BY DEF OwnInv, IssueInv, machine, owners, lists
<1> QED BY <1>1, <1>2, StaysFits, NoneMoves DEF Stays

\* nor does nbd_internal_run for one that queues no command,
LEMMA RunOwn ==
  ASSUME NEW t \in Threads, LockInv, RestInv, OwnInv, NEW event, NEW ok, NEW err \in Goals,
         Run(t, event, ok, err), UNCHANGED owners, event # "cmd_issue"
  PROVE  OwnInv'
<1>1. Stays(t) /\ th'[t].args = th[t].args
  BY RunStays
<1>2. IssueInv'
  BY RunIssue DEF OwnInv, owners, lists
<1> QED BY <1>1, <1>2, StaysFits, NoneMoves DEF Stays

\* nor do_poll.
LEMMA PollOwn ==
  ASSUME NEW t \in Threads, LockInv, RestInv, OwnInv, NEW ok, NEW err \in Goals,
         Poll(t, ok, err)
  PROVE  OwnInv'
<1>1. UNCHANGED owners
  BY DEF Poll
<1>2. CASE At(t, err) /\ UNCHANGED machine
  BY <1>1, <1>2, NothingOwn DEF Goals
<1>3. CASE Run(t, "notify_read", ok, err)
  BY <1>1, <1>3, RunOwn
<1>4. CASE Run(t, "notify_write", ok, err)
  BY <1>1, <1>4, RunOwn
<1> QED BY <1>2, <1>3, <1>4, Zenon DEF Poll

\* nbd_internal_command_common: the closures go from the arguments to the command.
LEMMA QueueOwn ==
  ASSUME NEW t \in Threads, LockInv, RestInv, OwnInv, NEW cmd \in Records, NEW then \in Goals,
         cmd.cb = th[t].args, Queue(t, cmd, then)
  PROVE  OwnInv'
<1>1. /\ cmds_to_issue' = Append(cmds_to_issue, cmd)
      /\ UNCHANGED <<opt, cmds_in_flight, cmds_done, debug_callback, live, lost>>
  BY DEF Queue
<1>2. Stays(t) /\ th'[t].args = {}
  <2>1. CASE th' = [th EXCEPT ![t].args = {}, ![t].call = Awaited(t, "run"), ![t].pc = "run",
                              ![t].ok = then, ![t].err = then]
    BY <2>1 DEF LockInv, RestInv, Fields, Stays
  <2>2. CASE th' = [th EXCEPT ![t].args = {}, ![t].pc = then, ![t].call = Awaited(t, then)]
    BY <2>2 DEF LockInv, RestInv, Fields, Stays, Goals
  <2> QED BY <2>1, <2>2, Zenon DEF Queue
<1>3. Held(th[t].args, Rest(t))
  BY OwnFocus
<1>4. /\ Listed(cmds_to_issue) /\ Listed(<<cmd>>) /\ CallbacksOf(<<cmd>>) = th[t].args
      /\ cmds_to_issue' = cmds_to_issue \o <<cmd>>
  <2>1. Listed(cmds_to_issue) /\ Listed(<<cmd>>) /\ CallbacksOf(<<cmd>>) = th[t].args
    BY ShortList DEF OwnInv, ListsInv
  <2> QED BY <1>1, <2>1 DEF Listed
<1>5. /\ Listed(cmds_to_issue')
      /\ CallbacksOf(cmds_to_issue') = CallbacksOf(cmds_to_issue) \cup th[t].args
  BY <1>3, <1>4, JoinedLists, SMTT(60) DEF Held, Parts
<1>6. cmds_to_issue' # <<>>
  BY <1>1 DEF OwnInv, ListsInv, Listed
<1>7. ListsInv' /\ IssueInv'
  BY <1>1, <1>5, <1>6 DEF OwnInv, ListsInv, IssueInv
<1>8. Parts(live', th'[t].args, Rest(t), CallbacksOf(cmds_to_issue'),
            CallbacksOf(cmds_in_flight'), CallbacksOf(cmds_done'), opt'.cb,
            debug_callback', lost')
  BY <1>1, <1>2, <1>3, <1>5 DEF Held, Parts
<1> QED BY <1>2, <1>7, <1>8, StaysFits, OwnStep DEF Stays

\* The arguments are closures that exist, so a command made of them is a command.
LEMMA CommandIs ==
  ASSUME NEW t \in Threads, OwnInv, NEW w \in Threads \cup {NoThread}, NEW d \in BOOLEAN
  PROVE  Command(th[t].args, w, d) \in Records /\ Command(th[t].args, w, d).cb = th[t].args
<1>1. th[t].args \subseteq Closures
  BY OwnFocus, SMTT(60) DEF OwnInv, ListsInv, Held, Parts
<1> QED BY <1>1 DEF Command, Records

\* A list of the handle loses some of its commands, whose closures are freed.
LEMMA RetireOwn ==
  ASSUME NEW t \in Threads, OwnInv, Stays(t), th'[t].args = th[t].args,
         NEW out \in SUBSET DOMAIN cmds_done, cmds_done' \in Without(cmds_done, out),
         Frees(CallbacksAt(cmds_done, out)),
         UNCHANGED <<machine, opt, cmds_to_issue, cmds_in_flight, debug_callback, lost>>
  PROVE  OwnInv'
<1>1. Held(th[t].args, Rest(t)) /\ live' = live \ CallbacksAt(cmds_done, out)
  BY OwnFocus DEF Frees
<1>2. /\ Listed(cmds_done')
      /\ CallbacksOf(cmds_done') = CallbacksOf(cmds_done) \ CallbacksAt(cmds_done, out)
      /\ CallbacksAt(cmds_done, out) \subseteq CallbacksOf(cmds_done)
  <2>1. Listed(cmds_done)
    BY DEF OwnInv, ListsInv
  <2> QED BY <2>1, WithoutList
<1>3. ListsInv' /\ IssueInv'
  BY <1>1, <1>2 DEF OwnInv, ListsInv, IssueInv, machine
<1>4. Parts(live', th'[t].args, Rest(t), CallbacksOf(cmds_to_issue'),
            CallbacksOf(cmds_in_flight'), CallbacksOf(cmds_done'), opt'.cb,
            debug_callback', lost')
  BY <1>1, <1>2 DEF Held, Parts
<1> QED BY <1>3, <1>4, StaysFits, OwnStep, Zenon DEF Stays

\* The commands of cmds_to_issue after the first n are aborted: some are retired,
\* the others go to cmds_done.
LEMMA AbandonOwn ==
  ASSUME NEW t \in Threads, LockInv, RestInv, OwnInv, Abandon(t), At(t, "disconnect"),
         th[t].args = {}, UNCHANGED machine
  PROVE  OwnInv'
<1> DEFINE first == IF state = "READY" THEN 0 ELSE 1
           list == SubSeq(cmds_to_issue, first + 1, Len(cmds_to_issue))
<1>1. /\ first <= Len(cmds_to_issue)
      /\ cmds_to_issue' = SubSeq(cmds_to_issue, 1, first)
      /\ \E out \in SUBSET DOMAIN list :
           /\ \E left \in Without(list, out) : cmds_done' = cmds_done \o left
           /\ Frees(CallbacksAt(list, out))
      /\ UNCHANGED <<opt, cmds_in_flight, debug_callback, lost>>
  BY Zenon DEF Abandon
<1>2. PICK out \in SUBSET DOMAIN list :
        /\ \E left \in Without(list, out) : cmds_done' = cmds_done \o left
        /\ Frees(CallbacksAt(list, out))
  BY <1>1, Zenon
<1>3. PICK left \in Without(list, out) : cmds_done' = cmds_done \o left
  BY <1>2
<1>4. Listed(cmds_to_issue) /\ Listed(cmds_done) /\ first \in 0..Len(cmds_to_issue)
  BY <1>1, SMTT(60) DEF OwnInv, ListsInv, Listed
<1>5. /\ Listed(cmds_to_issue') /\ Listed(list) /\ Len(cmds_to_issue') = first
      /\ CallbacksOf(cmds_to_issue') \cup CallbacksOf(list) = CallbacksOf(cmds_to_issue)
      /\ CallbacksOf(cmds_to_issue') \cap CallbacksOf(list) = {}
  <2> HIDE DEF first
  <2> QED BY <1>1, <1>4, CutList
<1> HIDE DEF list
<1>6. /\ Listed(left) /\ CallbacksOf(left) = CallbacksOf(list) \ CallbacksAt(list, out)
      /\ CallbacksAt(list, out) \subseteq CallbacksOf(list)
  BY <1>5, WithoutList
<1>7. Held(th[t].args, Rest(t)) /\ live' = live \ CallbacksAt(list, out)
  BY <1>2, OwnFocus, Zenon DEF Frees
<1>8. CallbacksOf(cmds_done) \cap CallbacksOf(left) = {}
  BY <1>5, <1>6, <1>7 DEF Held, Parts
<1>9. /\ Listed(cmds_done')
      /\ CallbacksOf(cmds_done') = CallbacksOf(cmds_done) \cup CallbacksOf(left)
  BY <1>3, <1>4, <1>6, <1>8, JoinedLists
<1>10. state # "READY" => cmds_to_issue' # <<>>
  BY <1>5, SMTT(60)
<1>11. ListsInv'
  BY <1>1, <1>5, <1>7, <1>9 DEF OwnInv, ListsInv
<1>12. IssueInv'
  BY <1>10 DEF IssueInv, machine, GROUP_ISSUE_COMMAND
<1>13. /\ \A u \in Threads \ {t} : th'[u] = th[u]
       /\ th'[t].args = {}
  BY DEF At, LockInv, RestInv, Fields
<1>14. Parts(live', th'[t].args, Rest(t), CallbacksOf(cmds_to_issue'),
             CallbacksOf(cmds_in_flight'), CallbacksOf(cmds_done'), opt'.cb,
             debug_callback', lost')
  BY <1>1, <1>5, <1>6, <1>7, <1>9, <1>13, ZenonT(60) DEF Held, Parts
<1>15. ArgsFit(t)'
  BY <1>13 DEF ArgsFit, At, LockInv, RestInv, Fields
<1> QED BY <1>11, <1>12, <1>13, <1>14, <1>15, OwnStep, Zenon

\* A function that disconnects has no closures.
LEMMA NoArgs ==
  ASSUME NEW t \in Threads, OwnInv, th[t].pc = "body",
         th[t].call.does \in {"disconnect", "shutdown"}
  PROVE  th[t].args = {}
<1>1. ArgsFit(t)
  BY DEF OwnInv, ArgsInv
<1>2. {c[1] : c \in th[t].args} = {}
  BY <1>1 DEF ArgsFit, IsRow
<1> QED BY <1>2

\* nbd_unlocked_aio_opt_abort leaves the closures where they are.
LEMMA OptAbortOwn ==
  ASSUME NEW t \in Threads, LockInv, RestInv, OwnInv, OptAbort(t), state # "READY"
  PROVE  OwnInv'
<1>1. /\ opt' = [opt EXCEPT !.current = "ABORT"]
      /\ UNCHANGED <<cmds_to_issue, cmds_in_flight, cmds_done, debug_callback, live, lost>>
      /\ Run(t, "cmd_issue", Then(t), Then(t))
  BY DEF OptAbort, lists
<1>2. Stays(t) /\ th'[t].args = th[t].args
  <2>1. Then(t) \in Goals
    BY DEF Then, Goals
  <2> QED BY <1>1, <2>1, RunStays
<1>3. opt'.cb = opt.cb /\ DOMAIN opt' = DOMAIN opt
  BY <1>1 DEF OwnInv, ListsInv
<1>4. IssueInv'
  BY <1>1, RunIssue DEF OwnInv
<1>5. ListsInv'
  BY <1>1, <1>3 DEF OwnInv, ListsInv
<1>6. Held(th[t].args, Rest(t))
  BY OwnFocus
<1>7. Parts(live', th'[t].args, Rest(t), CallbacksOf(cmds_to_issue'),
            CallbacksOf(cmds_in_flight'), CallbacksOf(cmds_done'), opt'.cb,
            debug_callback', lost')
  BY <1>1, <1>2, <1>3, <1>6 DEF Held
<1> QED BY <1>2, <1>4, <1>5, <1>7, StaysFits, OwnStep DEF Stays

\* nbd_set_debug_callback frees the old closure and keeps the new one.
LEMMA SetDebugOwn ==
  ASSUME NEW t \in Threads, LockInv, RestInv, OwnInv, SetDebug(t)
  PROVE  OwnInv'
<1>1. /\ live' = live \ debug_callback /\ debug_callback' = th[t].args
      /\ th' = [th EXCEPT ![t].args = {}, ![t].call = Unlocked, ![t].pc = "out"]
      /\ UNCHANGED <<state, opt, cmds_to_issue, cmds_in_flight, cmds_done, lost>>
  BY DEF SetDebug, Frees, machine, lists
<1>2. Stays(t) /\ th'[t].args = {}
  BY <1>1 DEF LockInv, RestInv, Fields, Stays
<1>3. ListsInv' /\ IssueInv'
  BY <1>1 DEF OwnInv, ListsInv, IssueInv
<1>4. Held(th[t].args, Rest(t))
  BY OwnFocus
<1>5. Parts(live', th'[t].args, Rest(t), CallbacksOf(cmds_to_issue'),
            CallbacksOf(cmds_in_flight'), CallbacksOf(cmds_done'), opt'.cb,
            debug_callback', lost')
  BY <1>1, <1>2, <1>4, ZenonT(60) DEF Held, Parts
<1> QED BY <1>2, <1>3, <1>5, StaysFits, OwnStep DEF Stays

\* The option functions: there is no option yet, so h->opt_cb is not overwritten.
LEMMA OptionOwn ==
  ASSUME NEW t \in Threads, LockInv, RestInv, OwnInv, Option(t), ~Nothing(t),
         Null(opt), state # "READY"
  PROVE  OwnInv'
<1>1. /\ opt' = [current |-> th[t].call.asks, cb |-> th[t].args,
                 frame |-> IF th[t].call.sync THEN t ELSE NoThread]
      /\ state' \in Raised(state, "cmd_issue")
      /\ th' = [th EXCEPT ![t].args = {}, ![t].call = Awaited(t, "run"), ![t].pc = "run",
                          ![t].ok = Then(t), ![t].err = Then(t)]
      /\ UNCHANGED <<cmds_to_issue, cmds_in_flight, cmds_done, debug_callback, live, lost>>
  BY Zenon DEF Option, lists
<1>2. Stays(t) /\ th'[t].args = {}
  BY <1>1 DEF LockInv, RestInv, Fields, Stays
<1>3. IssueInv'
  <2>1. state' \in GROUP_ISSUE_COMMAND => state \in GROUP_ISSUE_COMMAND
    BY <1>1, EventsLead DEF Enters
  <2> QED BY <1>1, <2>1 DEF OwnInv, IssueInv
<1>4. ListsInv'
  BY <1>1 DEF OwnInv, ListsInv
<1>5. Held(th[t].args, Rest(t)) /\ opt.cb = {} /\ opt'.cb = th[t].args
  BY <1>1, OwnFocus DEF Null
<1>6. Parts(live', th'[t].args, Rest(t), CallbacksOf(cmds_to_issue'),
            CallbacksOf(cmds_in_flight'), CallbacksOf(cmds_done'), opt'.cb,
            debug_callback', lost')
  BY <1>1, <1>2, <1>5, ZenonT(60) DEF Held, Parts
<1> QED BY <1>2, <1>3, <1>4, <1>6, StaysFits, OwnStep, Zenon DEF Stays

\* A command that is refused: its closures are freed once.
LEMMA RefusedOwn ==
  ASSUME NEW t \in Threads, LockInv, RestInv, OwnInv, Frees(th[t].args),
         th' = [th EXCEPT ![t].args = {}, ![t].call = Unlocked, ![t].pc = "out"],
         UNCHANGED <<machine, opt, lists, debug_callback, lost>>
  PROVE  OwnInv'
<1>1. /\ live' = live \ th[t].args
      /\ UNCHANGED <<state, opt, cmds_to_issue, cmds_in_flight, cmds_done, debug_callback, lost>>
  BY DEF Frees, machine, lists
<1>2. Stays(t) /\ th'[t].args = {}
  BY DEF LockInv, RestInv, Fields, Stays
<1>3. ListsInv' /\ IssueInv'
  BY <1>1 DEF OwnInv, ListsInv, IssueInv
<1>4. Held(th[t].args, Rest(t))
  BY OwnFocus
<1>5. Parts(live', th'[t].args, Rest(t), CallbacksOf(cmds_to_issue'),
            CallbacksOf(cmds_in_flight'), CallbacksOf(cmds_done'), opt'.cb,
            debug_callback', lost')
  BY <1>1, <1>2, <1>4, ZenonT(60) DEF Held, Parts
<1> QED BY <1>2, <1>3, <1>5, StaysFits, OwnStep DEF Stays

\* The nbd_unlocked_* functions.
LEMMA BodyOwn ==
  ASSUME NEW t, Working(t), RestInv, OptInv, OwnInv, Body(t) PROVE OwnInv'
<1>1. t \in Threads /\ LockInv /\ th[t].pc = "body" /\ ~running
  BY NotRunning DEF Body, Working
<1>2. Then(t) \in Goals /\ "out" \in Goals /\ "wait" \in Goals
  BY DEF Then, Goals
<1>3. IsRow(th[t].call)
  BY <1>1 DEF OwnInv, ArgsInv, ArgsFit
<1>4. CASE Nothing(t)
  BY <1>1, <1>4, NothingOwn DEF Nothing
<1>5. CASE SetDebug(t)
  BY <1>1, <1>5, SetDebugOwn
<1>6. ASSUME NEW event \in th[t].call.raises, NEW ok, Run(t, event, ok, "out"), UNCHANGED owners
      PROVE  OwnInv'
  <2>1. event # "cmd_issue"
    BY <1>3, <1>6 DEF IsRow
  <2> QED BY <1>1, <1>2, <1>6, <2>1, RunOwn
<1>7. CASE Connect(t)
  BY <1>4, <1>6, <1>7, Zenon DEF Connect
<1>8. CASE Does(t, "option") /\ Option(t)
  <2>1. state = "NEGOTIATING"
    BY <1>1, <1>8 DEF OptInv, CallAt, OptionCalls, Does
  <2>2. Null(opt)
    BY <1>1, <2>1, OutsideNegotiation, NullAtRest DEF OptInv
  <2> QED BY <1>1, <1>4, <1>8, <2>1, <2>2, OptionOwn
<1>9. CASE Does(t, "abort") /\ OptAbort(t)
  <2>1. state = "NEGOTIATING"
    BY <1>1, <1>9 DEF OptInv, CallAt, OptionCalls, Does
  <2> QED BY <1>1, <1>9, <2>1, OptAbortOwn
<1>10. CASE IssueCommand(t)
  <2>1. CASE /\ Frees(th[t].args)
             /\ th' = [th EXCEPT ![t].args = {}, ![t].call = Unlocked, ![t].pc = "out"]
             /\ UNCHANGED <<machine, opt, lists, debug_callback, lost>>
    BY <1>1, <2>1, RefusedOwn, Zenon
  <2>2. ASSUME NEW w \in Threads \cup {NoThread},
               Queue(t, Command(th[t].args, w, FALSE), Then(t))
        PROVE  OwnInv'
    <3>1. /\ Command(th[t].args, w, FALSE) \in Records
          /\ Command(th[t].args, w, FALSE).cb = th[t].args
      BY <1>1, CommandIs, Zenon
    <3> QED BY <1>1, <1>2, <2>2, <3>1, QueueOwn, Zenon
  <2>3. (IF th[t].call.sync THEN t ELSE NoThread) \in Threads \cup {NoThread}
    BY <1>1
  <2> QED BY <1>4, <1>10, <2>1, <2>2, <2>3, Zenon DEF IssueCommand
<1>11. CASE Does(t, "disconnect") /\ Disconnect(t, "out")
  <2>1. th[t].args = {}
    BY <1>1, <1>11, NoArgs DEF Does
  <2>2. Command({}, NoThread, TRUE) \in Records /\ Command({}, NoThread, TRUE).cb = th[t].args
    BY <2>1 DEF Command, Records
  <2>3. CASE Queue(t, Command({}, NoThread, TRUE), "out")
    BY <1>1, <1>2, <2>2, <2>3, QueueOwn, Zenon
  <2> QED BY <1>4, <1>11, <2>3, Zenon DEF Disconnect
<1>12. CASE Does(t, "shutdown") /\ Shutdown(t)
  <2>1. th[t].args = {}
    BY <1>1, <1>12, NoArgs DEF Does
  <2>2. CASE state = "NEGOTIATING" /\ OptAbort(t)
    BY <1>1, <2>2, OptAbortOwn
  <2>3. CASE Abandon(t) /\ At(t, "disconnect") /\ UNCHANGED machine
    BY <1>1, <2>1, <2>3, AbandonOwn
  <2>4. CASE UNCHANGED owners /\ At(t, "disconnect") /\ UNCHANGED machine
    <3>1. /\ \A u \in Threads \ {t} : th'[u] = th[u]
          /\ th'[t].args = {} /\ th'[t].pc = "disconnect"
      BY <1>1, <2>1, <2>4 DEF At, LockInv, RestInv, Fields
    <3>2. ArgsFit(t)' /\ IssueInv'
      BY <2>4, <3>1 DEF ArgsFit, OwnInv, IssueInv, machine, owners, lists
    <3> QED BY <1>1, <2>1, <2>4, <3>1, <3>2, NoneMoves, Zenon
  <2> QED BY <1>12, <2>2, <2>3, <2>4, Zenon DEF Shutdown
<1>13. CASE Notify(t)
  BY <1>6, <1>13, Zenon DEF Notify
<1>14. CASE Poll(t, "out", "out")
  BY <1>1, <1>2, <1>14, PollOwn
<1>15. CASE Retire(t)
  <2>1. ASSUME NEW i \in DOMAIN cmds_done, cmds_done' \in Without(cmds_done, {i}),
               Frees(cmds_done[i].cb), At(t, "out"),
               UNCHANGED <<machine, opt, cmds_to_issue, cmds_in_flight, disconnect_request,
                           debug_callback, lost>>
        PROVE  OwnInv'
    <3>1. CallbacksAt(cmds_done, {i}) = cmds_done[i].cb
      BY DEF CallbacksAt
    <3>2. Stays(t) /\ th'[t].args = th[t].args
      BY <1>1, <2>1, AtStays
    <3> QED BY <1>1, <2>1, <3>1, <3>2, RetireOwn
  <2> QED BY <1>4, <1>15, <2>1, Zenon DEF Retire
<1> QED BY <1>4, <1>5, <1>7, <1>8, <1>9, <1>10, <1>11, <1>12, <1>13, <1>14, <1>15, Zenon DEF Body

\* The loops that wait retire the command they waited for.
LEMMA WaitOwn ==
  ASSUME NEW t \in Threads, LockInv, RestInv, OwnInv, Wait(t) PROVE OwnInv'
<1>1. CASE /\ At(t, "out")
           /\ cmds_done' \in Without(cmds_done, Mine(t))
           /\ Frees(CallbacksAt(cmds_done, Mine(t)))
           /\ UNCHANGED <<machine, opt, cmds_to_issue, cmds_in_flight, disconnect_request,
                          debug_callback, lost>>
  <2>1. Mine(t) \in SUBSET DOMAIN cmds_done
    BY DEF Mine
  <2>2. Stays(t) /\ th'[t].args = th[t].args
    BY <1>1, AtStays
  <2> QED BY <1>1, <2>1, <2>2, RetireOwn
<1>2. CASE Poll(t, "wait", "out")
  BY <1>2, PollOwn DEF Goals
<1> QED BY <1>1, <1>2, Zenon DEF Wait

\* nbd_unlocked_shutdown queues its disconnect, which has no closures.
LEMMA ShutdownOwn ==
  ASSUME NEW t \in Threads, LockInv, RestInv, OwnInv, ShutdownDisconnect(t) PROVE OwnInv'
<1>1. th[t].args = {}
  BY DEF ShutdownDisconnect, OwnInv, ArgsInv, ArgsFit
<1>2. Command({}, NoThread, TRUE) \in Records /\ Command({}, NoThread, TRUE).cb = th[t].args
  BY <1>1 DEF Command, Records
<1>3. CASE At(t, "wait") /\ UNCHANGED <<machine, owners>>
  BY <1>3, NothingOwn
<1>4. CASE Queue(t, Command({}, NoThread, TRUE), "wait")
  BY <1>2, <1>4, QueueOwn, Zenon DEF Goals
<1> QED BY <1>3, <1>4, Zenon DEF ShutdownDisconnect

\* The wrapper frees what the function left in its arguments.
LEMMA OutOwn ==
  ASSUME NEW t \in Threads, LockInv, RestInv, OwnInv, Out(t) PROVE OwnInv'
<1>1. /\ live' = live \ th[t].args /\ th' = [th EXCEPT ![t] = Idle]
      /\ opt' = IF opt.frame = t THEN [opt EXCEPT !.frame = Gone] ELSE opt
      /\ cmds_to_issue' = Orphaned(cmds_to_issue, t)
      /\ cmds_in_flight' = Orphaned(cmds_in_flight, t)
      /\ UNCHANGED <<state, cmds_done, debug_callback, lost>>
  BY DEF Out, Frees, ClosuresLeft, machine
<1>2. /\ \A u \in Threads \ {t} : th'[u] = th[u]
      /\ th'[t].args = {} /\ th'[t].pc = "idle"
  BY <1>1 DEF LockInv, Idle
<1>3. opt'.cb = opt.cb /\ DOMAIN opt' = DOMAIN opt
  BY <1>1 DEF OwnInv, ListsInv
<1>4. /\ Listed(cmds_to_issue') /\ CallbacksOf(cmds_to_issue') = CallbacksOf(cmds_to_issue)
      /\ cmds_to_issue' = <<>> => cmds_to_issue = <<>>
      /\ Listed(cmds_in_flight') /\ CallbacksOf(cmds_in_flight') = CallbacksOf(cmds_in_flight)
  BY <1>1, OrphanedList DEF OwnInv, ListsInv
<1>5. ListsInv' /\ IssueInv'
  BY <1>1, <1>3, <1>4 DEF OwnInv, ListsInv, IssueInv
<1>6. ArgsFit(t)'
  BY <1>2 DEF ArgsFit
<1>7. Held(th[t].args, Rest(t))
  BY OwnFocus
<1>8. Parts(live', th'[t].args, Rest(t), CallbacksOf(cmds_to_issue'),
            CallbacksOf(cmds_in_flight'), CallbacksOf(cmds_done'), opt'.cb,
            debug_callback', lost')
  BY <1>1, <1>2, <1>3, <1>4, <1>7 DEF Held, Parts
<1> QED BY <1>2, <1>5, <1>6, <1>8, OwnStep

\* A call begins with closures nobody has.
LEMMA BeginOwn ==
  ASSUME NEW t \in Threads, LockInv, RestInv, OwnInv, NEW kinds, Begin(t, kinds) PROVE OwnInv'
<1> DEFINE cs == FreshClosures(kinds)
<1>1. /\ th[t].pc = "idle" /\ \A k \in kinds : Unused(k) # {}
      /\ th' = [th EXCEPT ![t].args = cs, ![t].pc = "lock"]
      /\ live' = live \cup cs
      /\ UNCHANGED <<state, opt, cmds_to_issue, cmds_in_flight, cmds_done, debug_callback, lost>>
  BY DEF Begin, machine, lists
<1>2. cs \subseteq Closures \ live
  <2>1. ASSUME NEW k \in kinds PROVE (CHOOSE c \in Unused(k) : TRUE) \in Closures \ live
    <3>1. (CHOOSE c \in Unused(k) : TRUE) \in Unused(k)
      BY <1>1, <2>1
    <3> QED BY <3>1 DEF Unused
  <2> QED BY <2>1 DEF FreshClosures
<1> HIDE DEF cs
<1>3. th[t].args = {}
  BY <1>1 DEF OwnInv, ArgsInv, ArgsFit
<1>4. Stays(t) /\ th'[t].args = cs
  BY <1>1 DEF LockInv, RestInv, Fields, Stays
<1>5. ListsInv' /\ IssueInv'
  BY <1>1, <1>2 DEF OwnInv, ListsInv, IssueInv
<1>6. Held(th[t].args, Rest(t))
  BY OwnFocus
<1>7. Parts(live', th'[t].args, Rest(t), CallbacksOf(cmds_to_issue'),
            CallbacksOf(cmds_in_flight'), CallbacksOf(cmds_done'), opt'.cb,
            debug_callback', lost')
  BY <1>1, <1>2, <1>3, <1>4, <1>6, Zenon DEF Held, Parts
<1> QED BY <1>4, <1>5, <1>7, StaysFits, OwnStep DEF Stays

\* With the lock, a call is one of a function that takes these closures.
LEMMA EnterOwn ==
  ASSUME NEW t \in Threads, LockInv, RestInv, OwnInv, Enter(t) PROVE OwnInv'
<1>1. PICK row \in Calls, pc \in {"body", "out"} :
        /\ row.closures = {c[1] : c \in th[t].args}
        /\ th' = [th EXCEPT ![t].call = IF pc = "body" THEN row ELSE Unlocked, ![t].pc = pc]
  BY Zenon DEF Enter
<1>2. /\ \A u \in Threads \ {t} : th'[u] = th[u]
      /\ th'[t].args = th[t].args /\ th'[t].pc = pc /\ (pc = "body" => th'[t].call = row)
  BY <1>1 DEF LockInv, RestInv, Fields
<1>3. UNCHANGED owners /\ IssueInv'
  BY DEF Enter, OwnInv, IssueInv, machine, owners, lists
<1>4. ArgsFit(t)'
  BY <1>1, <1>2, Rows, Zenon DEF ArgsFit
<1> QED BY <1>2, <1>3, <1>4, NoneMoves

\* What a handler may do to the lists, the option and the closures.
LEMMA HandlerEffects ==
  ASSUME HandlerEffect
  PROVE  \/ AbortAll /\ state \in {"DEAD", "CLOSED"}
         \/ FinishIssue /\ state = "ISSUE.FINISH"
         \/ FinishCommand /\ state = "FINISH_COMMAND"
         \/ FreeOption /\ UNCHANGED lists
         \/ StartGo \/ UNCHANGED <<lists, opt, live, lost>>
<1>1. CASE state \in {"DEAD", "CLOSED"}
  BY <1>1 DEF HandlerEffect
<1>2. CASE state = "ISSUE.FINISH"
  BY <1>2 DEF HandlerEffect
<1>3. CASE state = "FINISH_COMMAND"
  BY <1>3 DEF HandlerEffect
<1>4. CASE state \notin {"DEAD", "CLOSED", "ISSUE.FINISH", "FINISH_COMMAND"}
  BY <1>4 DEF HandlerEffect
<1> QED BY <1>1, <1>2, <1>3, <1>4

\* nbd_internal_free_option leaves the closures it does not know of.
LEMMA FreedOption ==
  /\ Named \subseteq Freed /\ Freed \subseteq opt.cb
  /\ ListsInv => /\ OptionFreed.cb = opt.cb \ Freed
                 /\ DOMAIN OptionFreed = {"current", "cb", "frame"}
BY DEF Named, Freed, OptionFreed, ListsInv

\* DEAD and CLOSED: the closures of the commands go to cmds_done or are freed, and
\* those of the option are freed or lost.
LEMMA AbortAllOwn ==
  ASSUME OwnInv, NEW P, NEW R, Held(P, R), AbortAll, UNCHANGED debug_callback
  PROVE  /\ ListsInv'
         /\ Parts(live', P, R, CallbacksOf(cmds_to_issue'), CallbacksOf(cmds_in_flight'),
                  CallbacksOf(cmds_done'), opt'.cb, debug_callback', lost')
<1> DEFINE list == cmds_to_issue \o cmds_in_flight
<1>1. PICK out \in SUBSET DOMAIN list :
        /\ cmds_to_issue' = <<>> /\ cmds_in_flight' = <<>>
        /\ \E left \in Without(list, out) : cmds_done' = cmds_done \o left
        /\ opt' = OptionFreed
        /\ Frees(CallbacksAt(list, out) \cup Named)
        /\ lost' = lost \cup (Freed \ Named)
  BY Zenon DEF AbortAll
<1>2. PICK left \in Without(list, out) : cmds_done' = cmds_done \o left
  BY <1>1
<1>3. Listed(cmds_to_issue) /\ Listed(cmds_in_flight) /\ Listed(cmds_done)
  BY DEF OwnInv, ListsInv
<1>4. Listed(list) /\ CallbacksOf(list) = CallbacksOf(cmds_to_issue) \cup CallbacksOf(cmds_in_flight)
  <2>1. CallbacksOf(cmds_to_issue) \cap CallbacksOf(cmds_in_flight) = {}
    BY DEF Held, Parts
  <2> QED BY <1>3, <2>1, JoinedLists
<1> HIDE DEF list
<1>5. /\ Listed(left) /\ CallbacksOf(left) = CallbacksOf(list) \ CallbacksAt(list, out)
      /\ CallbacksAt(list, out) \subseteq CallbacksOf(list)
  BY <1>4, WithoutList
<1>6. CallbacksOf(cmds_done) \cap CallbacksOf(left) = {}
  BY <1>4, <1>5 DEF Held, Parts
<1>7. Listed(cmds_done') /\ CallbacksOf(cmds_done') = CallbacksOf(cmds_done) \cup CallbacksOf(left)
  BY <1>2, <1>3, <1>5, <1>6, JoinedLists
<1>8. /\ CallbacksOf(cmds_to_issue') = {} /\ CallbacksOf(cmds_in_flight') = {}
      /\ Listed(cmds_to_issue') /\ Listed(cmds_in_flight')
      /\ opt'.cb = opt.cb \ Freed /\ DOMAIN opt' = {"current", "cb", "frame"}
  BY <1>1, ShortList, FreedOption DEF OwnInv
<1>9. live' = live \ (CallbacksAt(list, out) \cup Named) /\ lost' = lost \cup (Freed \ Named)
  BY <1>1 DEF Frees
<1>10. ListsInv'
  BY <1>7, <1>8, <1>9 DEF OwnInv, ListsInv
<1>11. Named \subseteq Freed /\ Freed \subseteq opt.cb
  BY FreedOption
<1> QED BY <1>4, <1>5, <1>7, <1>8, <1>9, <1>10, <1>11, SMTT(60) DEF Held, Parts

\* ISSUE_COMMAND.FINISH moves a command, with its closures, to cmds_in_flight.
LEMMA FinishIssueOwn ==
  ASSUME OwnInv, NEW P, NEW R, Held(P, R), FinishIssue, cmds_to_issue # <<>>,
         UNCHANGED debug_callback
  PROVE  /\ ListsInv'
         /\ Parts(live', P, R, CallbacksOf(cmds_to_issue'), CallbacksOf(cmds_in_flight'),
                  CallbacksOf(cmds_done'), opt'.cb, debug_callback', lost')
<1>1. /\ cmds_to_issue' = Tail(cmds_to_issue)
      /\ cmds_in_flight' = <<Head(cmds_to_issue)>> \o cmds_in_flight
      /\ UNCHANGED <<cmds_done, opt, live, lost>>
  BY DEF FinishIssue
<1>2. Listed(cmds_to_issue) /\ Listed(cmds_in_flight)
  BY DEF OwnInv, ListsInv
<1>3. /\ Head(cmds_to_issue) \in Records /\ Listed(cmds_to_issue')
      /\ Head(cmds_to_issue).cb \cup CallbacksOf(cmds_to_issue') = CallbacksOf(cmds_to_issue)
      /\ Head(cmds_to_issue).cb \cap CallbacksOf(cmds_to_issue') = {}
  BY <1>1, <1>2, HeadOfList
<1>4. /\ Listed(<<Head(cmds_to_issue)>>)
      /\ CallbacksOf(<<Head(cmds_to_issue)>>) = Head(cmds_to_issue).cb
  BY <1>3, ShortList
<1>5. CallbacksOf(<<Head(cmds_to_issue)>>) \cap CallbacksOf(cmds_in_flight) = {}
  BY <1>3, <1>4 DEF Held, Parts
<1>6. /\ Listed(cmds_in_flight')
      /\ CallbacksOf(cmds_in_flight') = Head(cmds_to_issue).cb \cup CallbacksOf(cmds_in_flight)
  BY <1>1, <1>2, <1>4, <1>5, JoinedLists
<1>7. ListsInv'
  BY <1>1, <1>3, <1>6 DEF OwnInv, ListsInv
<1> QED BY <1>1, <1>3, <1>6, <1>7, SMTT(60) DEF Held, Parts

\* REPLY.FINISH_COMMAND takes a command off cmds_in_flight: its closures are freed
\* or go with it to cmds_done.
LEMMA FinishCommandOwn ==
  ASSUME OwnInv, NEW P, NEW R, Held(P, R), FinishCommand, UNCHANGED debug_callback
  PROVE  /\ ListsInv'
         /\ Parts(live', P, R, CallbacksOf(cmds_to_issue'), CallbacksOf(cmds_in_flight'),
                  CallbacksOf(cmds_done'), opt'.cb, debug_callback', lost')
<1>1. CASE UNCHANGED <<lists, opt, live, lost>>
  <2>1. UNCHANGED <<cmds_to_issue, cmds_in_flight, cmds_done, opt, live, lost>>
    BY <1>1 DEF lists
  <2>2. ListsInv'
    BY <2>1 DEF OwnInv, ListsInv
  <2> QED BY <2>1, <2>2 DEF Held
<1>2. ASSUME NEW i \in DOMAIN cmds_in_flight, NEW out \in SUBSET {1},
             cmds_in_flight' \in Without(cmds_in_flight, {i}),
             \E left \in Without(<<cmds_in_flight[i]>>, out) : cmds_done' = cmds_done \o left,
             Frees(CallbacksAt(<<cmds_in_flight[i]>>, out)),
             UNCHANGED <<cmds_to_issue, opt, lost>>
      PROVE  /\ ListsInv'
             /\ Parts(live', P, R, CallbacksOf(cmds_to_issue'), CallbacksOf(cmds_in_flight'),
                      CallbacksOf(cmds_done'), opt'.cb, debug_callback', lost')
  <2> DEFINE cmd == <<cmds_in_flight[i]>>
  <2>1. PICK left \in Without(cmd, out) : cmds_done' = cmds_done \o left
    BY <1>2
  <2>2. Listed(cmds_in_flight) /\ Listed(cmds_done) /\ cmds_in_flight[i] \in Records
    BY DEF OwnInv, ListsInv, Listed
  <2>3. /\ Listed(cmd) /\ CallbacksOf(cmd) = cmds_in_flight[i].cb
        /\ CallbacksAt(cmds_in_flight, {i}) = cmds_in_flight[i].cb
        /\ DOMAIN cmd = {1}
    BY <2>2, ShortList, SMTT(60) DEF CallbacksAt
  <2> HIDE DEF cmd
  <2>4. /\ Listed(cmds_in_flight')
        /\ CallbacksOf(cmds_in_flight') = CallbacksOf(cmds_in_flight) \ CallbacksOf(cmd)
        /\ CallbacksOf(cmd) \subseteq CallbacksOf(cmds_in_flight)
    <3>1. {i} \in SUBSET DOMAIN cmds_in_flight
      BY <1>2
    <3> QED BY <1>2, <2>2, <2>3, <3>1, WithoutList, SMTT(60)
  <2>5. /\ Listed(left) /\ CallbacksOf(left) = CallbacksOf(cmd) \ CallbacksAt(cmd, out)
        /\ CallbacksAt(cmd, out) \subseteq CallbacksOf(cmd)
    BY <2>3, WithoutList, Zenon
  <2>6. CallbacksOf(cmds_done) \cap CallbacksOf(left) = {}
    BY <2>4, <2>5 DEF Held, Parts
  <2>7. /\ Listed(cmds_done')
        /\ CallbacksOf(cmds_done') = CallbacksOf(cmds_done) \cup CallbacksOf(left)
    BY <2>1, <2>2, <2>5, <2>6, JoinedLists
  <2>8. live' = live \ CallbacksAt(cmd, out)
    BY <1>2 DEF Frees, cmd
  <2>9. ListsInv'
    BY <1>2, <2>4, <2>7, <2>8 DEF OwnInv, ListsInv
  <2> QED BY <1>2, <2>4, <2>5, <2>7, <2>8, <2>9, SMTT(60) DEF Held, Parts
<1> QED BY <1>1, <1>2, Zenon DEF FinishCommand

\* The end of an option frees its closures, or loses those of a frame that is gone.
LEMMA FreeOptionOwn ==
  ASSUME OwnInv, NEW P, NEW R, Held(P, R), FreeOption, UNCHANGED <<lists, debug_callback>>
  PROVE  /\ ListsInv'
         /\ Parts(live', P, R, CallbacksOf(cmds_to_issue'), CallbacksOf(cmds_in_flight'),
                  CallbacksOf(cmds_done'), opt'.cb, debug_callback', lost')
<1>1. UNCHANGED <<cmds_to_issue, cmds_in_flight, cmds_done>>
  BY DEF lists
<1>2. /\ opt'.cb = opt.cb \ Freed /\ DOMAIN opt' = {"current", "cb", "frame"}
      /\ live' = live \ Named /\ lost' = lost \cup (Freed \ Named)
      /\ Named \subseteq Freed /\ Freed \subseteq opt.cb
  BY FreedOption DEF FreeOption, Frees, OwnInv
<1>3. ListsInv'
  BY <1>1, <1>2 DEF OwnInv, ListsInv
<1> QED BY <1>1, <1>2, <1>3, SMTT(60) DEF Held, Parts

\* Every handler keeps the closures accounted for.
LEMMA EffectOwn ==
  ASSUME OwnInv, NEW P, NEW R, Held(P, R), HandlerEffect, UNCHANGED debug_callback
  PROVE  /\ ListsInv'
         /\ Parts(live', P, R, CallbacksOf(cmds_to_issue'), CallbacksOf(cmds_in_flight'),
                  CallbacksOf(cmds_done'), opt'.cb, debug_callback', lost')
<1>1. CASE AbortAll
  BY <1>1, AbortAllOwn
<1>2. CASE FinishIssue /\ state = "ISSUE.FINISH"
  <2>1. cmds_to_issue # <<>>
    BY <1>2 DEF OwnInv, IssueInv, GROUP_ISSUE_COMMAND
  <2> QED BY <1>2, <2>1, FinishIssueOwn
<1>3. CASE FinishCommand
  BY <1>3, FinishCommandOwn
<1>4. CASE FreeOption /\ UNCHANGED lists
  BY <1>4, FreeOptionOwn
<1>5. CASE UNCHANGED <<lists, opt, live, lost>>
  <2>1. UNCHANGED <<cmds_to_issue, cmds_in_flight, cmds_done, opt, live, lost>>
    BY <1>5 DEF lists
  <2>2. ListsInv'
    BY <2>1 DEF OwnInv, ListsInv
  <2> QED BY <2>1, <2>2 DEF Held
<1>6. CASE StartGo
  <2>1. /\ UNCHANGED <<cmds_to_issue, cmds_in_flight, cmds_done, live, lost>>
        /\ opt'.cb = opt.cb /\ DOMAIN opt' = DOMAIN opt
    BY <1>6 DEF StartGo, lists, OwnInv, ListsInv
  <2>2. ListsInv'
    BY <2>1 DEF OwnInv, ListsInv
  <2> QED BY <2>1, <2>2 DEF Held
<1> QED BY <1>1, <1>2, <1>3, <1>4, <1>5, <1>6, HandlerEffects, Zenon

\* A handler goes to a state of ISSUE_COMMAND only with a command to issue.
LEMMA HandlerIssue ==
  ASSUME NEW t \in Threads, OwnInv, Handler(t) PROVE IssueInv'
<1>1. HandlerEffect
  BY DEF Handler
<1>2. ASSUME state \in GROUP_ISSUE_COMMAND \ {"ISSUE.FINISH"} PROVE cmds_to_issue' # <<>>
  <2>1. state \notin {"DEAD", "CLOSED", "ISSUE.FINISH", "FINISH_COMMAND"}
    BY <1>2 DEF GROUP_ISSUE_COMMAND
  <2>2. UNCHANGED cmds_to_issue
    BY <1>1, <2>1, HandlerEffects DEF lists, StartGo
  <2> QED BY <1>2, <2>2 DEF OwnInv, IssueInv
<1>3. CASE Continued
  <2>1. state' \in GROUP_ISSUE_COMMAND => Issuing(state, state')
    BY <1>3 DEF Continued, GoesOn
  <2>2. ASSUME state = "READY", state' = "ISSUE.START" PROVE cmds_to_issue' # <<>>
    <3>1. UNCHANGED cmds_to_issue
      BY <1>1, <2>2, HandlerEffects DEF lists, StartGo
    <3> QED BY <1>3, <2>2, <3>1 DEF Continued
  <2> QED BY <1>2, <2>1, <2>2 DEF Issuing, IssueInv
<1>4. CASE Stopped(t)
  BY <1>2, <1>4 DEF IssueInv, Stopped, Halts
<1> QED BY <1>3, <1>4, HandlerGoes

\* A handler keeps the invariant.
LEMMA HandlerOwn ==
  ASSUME NEW t \in Threads, LockInv, RestInv, OwnInv, Handler(t) PROVE OwnInv'
<1>1. HandlerEffect /\ UNCHANGED debug_callback /\ th[t].pc = "run"
  BY DEF Handler
<1>2. /\ \A u \in Threads \ {t} : th'[u] = th[u]
      /\ th'[t].args = th[t].args /\ th'[t].pc \in {"run"} \cup Goals
  <2>1. CASE UNCHANGED th
    BY <1>1, <2>1
  <2>2. ASSUME NEW pc \in Goals, Returns(t, pc)
        PROVE  /\ \A u \in Threads \ {t} : th'[u] = th[u]
               /\ th'[t].args = th[t].args /\ th'[t].pc \in {"run"} \cup Goals
    BY <2>2 DEF Returns, LockInv, RestInv, Fields
  <2>3. th[t].ok \in Goals /\ th[t].err \in Goals
    BY DEF RestInv
  <2>4. Continued => UNCHANGED th
    BY DEF Continued
  <2>5. Stopped(t) => Returns(t, th[t].ok) \/ Returns(t, th[t].err)
    BY DEF Stopped
  <2> QED BY <2>1, <2>2, <2>3, <2>4, <2>5, HandlerGoes, Zenon
<1>3. ArgsFit(t)'
  BY <1>2 DEF ArgsFit, Goals
<1>4. Held(th[t].args, Rest(t))
  BY OwnFocus
<1>5. /\ ListsInv'
      /\ Parts(live', th'[t].args, Rest(t), CallbacksOf(cmds_to_issue'),
               CallbacksOf(cmds_in_flight'), CallbacksOf(cmds_done'), opt'.cb,
               debug_callback', lost')
  BY <1>1, <1>2, <1>4, EffectOwn, Zenon
<1> QED BY <1>2, <1>3, <1>5, HandlerIssue, OwnStep

\* Every step of a thread.
LEMMA OwnInvStep ==
  ASSUME NEW t \in Threads, LockInv, RestInv, OptInv, OwnInv, Step(t) PROVE OwnInv'
<1>1. ASSUME NEW kinds, Begin(t, kinds) PROVE OwnInv'
  BY <1>1, BeginOwn
<1>2. CASE Enter(t)
  BY <1>2, EnterOwn
<1>3. CASE Body(t)
  <2>1. Working(t)
    BY <1>3 DEF Body, Working, Holding
  <2> QED BY <1>3, <2>1, BodyOwn
<1>4. CASE ShutdownDisconnect(t)
  BY <1>4, ShutdownOwn
<1>5. CASE Handler(t)
  BY <1>5, HandlerOwn
<1>6. CASE Wait(t)
  BY <1>6, WaitOwn
<1>7. CASE Out(t)
  BY <1>7, OutOwn
<1>8. ASSUME UNCHANGED <<machine, owners>>, th'[t].args = th[t].args, ArgsFit(t)',
             \A u \in Threads \ {t} : th'[u] = th[u]
      PROVE  OwnInv'
  <2>1. IssueInv'
    BY <1>8 DEF OwnInv, IssueInv, machine, owners, lists
  <2> QED BY <1>8, <2>1, NoneMoves
<1>9. CASE ReadDebugCallback(t)
  <2>1. th[t].args = {} /\ UNCHANGED <<machine, owners>>
    BY <1>9 DEF ReadDebugCallback, OwnInv, ArgsInv, ArgsFit
  <2>2. /\ \A u \in Threads \ {t} : th'[u] = th[u]
        /\ th'[t].args = {} /\ th'[t].pc = "debug"
    BY <1>9, <2>1 DEF ReadDebugCallback, LockInv, RestInv, Fields
  <2> QED BY <1>8, <2>1, <2>2 DEF ArgsFit
<1>10. CASE CallDebugCallback(t)
  <2>1. th[t].args = {} /\ UNCHANGED <<machine, owners>>
    BY <1>10 DEF CallDebugCallback, OwnInv, ArgsInv, ArgsFit
  <2>2. /\ \A u \in Threads \ {t} : th'[u] = th[u]
        /\ th'[t].args = {} /\ th'[t].pc = "idle"
    BY <1>10 DEF CallDebugCallback, LockInv, Idle
  <2> QED BY <1>8, <2>1, <2>2 DEF ArgsFit
<1> QED BY <1>1, <1>2, <1>3, <1>4, <1>5, <1>6, <1>7, <1>9, <1>10, Zenon DEF Step

\* nbd_close frees the closures of the handle; no call is in progress.
LEMMA CloseOwn == ASSUME LockInv, OwnInv, Close PROVE OwnInv'
<1>1. /\ state' = NoState /\ \A t \in Threads : th[t].pc = "idle"
      /\ debug_callback' = {} /\ opt' = NoOption
      /\ cmds_to_issue' = <<>> /\ cmds_in_flight' = <<>> /\ cmds_done' = <<>>
      /\ live' = live \ (debug_callback \cup CallbacksOf(AllCommands) \cup Named)
      /\ lost' = lost \cup (opt.cb \ Named)
      /\ UNCHANGED th
  BY DEF Close, Frees
<1>2. Args = {} /\ Args' = {}
  BY <1>1, SMTT(60) DEF OwnInv, ArgsInv, ArgsFit, Args
<1>3. /\ CallbacksOf(AllCommands) = CallbacksOf(cmds_to_issue) \cup CallbacksOf(cmds_in_flight)
                                    \cup CallbacksOf(cmds_done)
  BY AllListed
<1>4. /\ CallbacksOf(cmds_to_issue') = {} /\ CallbacksOf(cmds_in_flight') = {}
      /\ CallbacksOf(cmds_done') = {} /\ opt'.cb = {}
      /\ ListsInv'
  BY <1>1, ShortList DEF OwnInv, ListsInv, NoOption
<1>5. IssueInv'
  BY <1>1 DEF IssueInv, NoState, GROUP_ISSUE_COMMAND
<1>6. ArgsInv'
  BY <1>1 DEF OwnInv, ArgsInv, ArgsFit
<1>7. Parts(live', {}, {}, {}, {}, {}, {}, {}, lost')
  <2>1. Named \subseteq opt.cb
    BY FreedOption
  <2> QED BY <1>1, <1>2, <1>3, <2>1 DEF OwnInv, Held, Parts
<1>8. Held(Args, {})'
  BY <1>1, <1>2, <1>4, <1>7, Zenon DEF Held
<1> QED BY <1>4, <1>5, <1>6, <1>8 DEF OwnInv

\* Every step.
LEMMA OwnInvNext == ApiInv /\ OwnInv /\ [Next]_vars => OwnInv'
<1> SUFFICES ASSUME LockInv, RestInv, OptInv, OwnInv, [Next]_vars PROVE OwnInv'
  BY DEF ApiInv
<1>1. ASSUME UNCHANGED <<th, owners>>, IssueInv' PROVE OwnInv'
  <2>1. UNCHANGED <<th, opt, cmds_to_issue, cmds_in_flight, cmds_done, debug_callback, live, lost>>
    BY <1>1 DEF owners, lists
  <2>2. ListsInv' /\ Held(Args, {})'
    BY <2>1 DEF OwnInv, ListsInv, Held, Args
  <2>3. ArgsInv'
    BY <2>1 DEF OwnInv, ArgsInv, ArgsFit
  <2> QED BY <1>1, <2>2, <2>3 DEF OwnInv
<1>2. CASE UNCHANGED vars
  <2>1. UNCHANGED <<th, owners>> /\ IssueInv'
    BY <1>2 DEF vars, machine, owners, lists, OwnInv, IssueInv
  <2> QED BY <1>1, <2>1
<1>3. CASE Create
  <2>1. UNCHANGED <<th, owners>> /\ IssueInv'
    BY <1>3 DEF Create, IssueInv, GROUP_ISSUE_COMMAND
  <2> QED BY <1>1, <2>1
<1>4. CASE Close
  BY <1>4, CloseOwn
<1>5. CASE \E t \in Threads : Step(t)
  BY <1>5, OwnInvStep
<1> QED BY <1>2, <1>3, <1>4, <1>5 DEF Next

\* Initially there is no closure.
LEMMA OwnInvInit == Init => OwnInv
<1> SUFFICES ASSUME Init PROVE OwnInv
  OBVIOUS
<1>1. ListsInv
  BY ShortList DEF Init, ListsInv, NoOption
<1>2. ArgsInv
  BY DEF Init, ArgsInv, ArgsFit, Idle
<1>3. IssueInv
  BY DEF Init, IssueInv, NoState, GROUP_ISSUE_COMMAND
<1>4. Args = {}
  BY DEF Init, Args, Idle
<1>5. Held(Args, {})
  BY <1>4, ShortList DEF Init, Held, Parts, NoOption
<1> QED BY <1>1, <1>2, <1>3, <1>5 DEF OwnInv

\* The parts the invariant splits the live closures into are the holders.
LEMMA OwnersCount == ASSUME OwnInv PROVE ClosuresOwned
<1> SUFFICES ASSUME NEW c \in Closures
             PROVE  IF c \in live THEN \E h \in Holders(c) : Holders(c) = {h}
                                  ELSE Holders(c) = {}
  BY Zenon DEF ClosuresOwned
<1> DEFINE T == {u \in Threads : c \in th[u].args}
           L == {j \in DOMAIN AllCommands : c \in AllCommands[j].cb}
           Threaded == {<<"call", t>> : t \in T}
           Queued == {<<"command", i>> : i \in L}
<1>1. IF c \in Args THEN \E t : Threaded = {<<"call", t>>} ELSE Threaded = {}
  <2>1. CASE c \in Args
    <3>1. PICK t \in Threads : c \in th[t].args
      BY <2>1 DEF Args
    <3>2. T = {t}
      BY <3>1 DEF OwnInv, ArgsInv
    <3> QED BY <2>1, <3>2, Zenon
  <2>2. CASE c \notin Args
    <3>1. T = {}
      BY <2>2 DEF Args
    <3> QED BY <2>2, <3>1, Zenon
  <2> QED BY <2>1, <2>2, Zenon
<1>2. IF c \in CallbacksOf(AllCommands) THEN \E i : Queued = {<<"command", i>>}
                                        ELSE Queued = {}
  <2>1. CASE c \in CallbacksOf(AllCommands)
    <3>1. PICK i \in DOMAIN AllCommands : c \in AllCommands[i].cb
      BY <2>1, OnList
    <3>2. Apart(AllCommands)
      BY AllListed DEF Listed
    <3>3. L = {i}
      BY <3>1, <3>2 DEF Apart
    <3> QED BY <2>1, <3>3, Zenon
  <2>2. CASE c \notin CallbacksOf(AllCommands)
    <3>1. L = {}
      BY <2>2, OnList
    <3> QED BY <2>2, <3>1, Zenon
  <2> QED BY <2>1, <2>2, Zenon
<1>3. Holders(c) = Threaded \cup Queued \cup (IF c \in opt.cb THEN {<<"opt_cb">>} ELSE {})
                     \cup (IF c \in debug_callback THEN {<<"debug_callback">>} ELSE {})
                     \cup (IF c \in lost THEN {<<"lost">>} ELSE {})
  BY Zenon DEF Holders
<1> HIDE DEF T, L, Threaded, Queued
<1>4. Parts(live, Args, {}, CallbacksOf(cmds_to_issue), CallbacksOf(cmds_in_flight),
            CallbacksOf(cmds_done), opt.cb, debug_callback, lost)
  BY DEF OwnInv, Held
<1>5. Parts(live, Args, {}, CallbacksOf(AllCommands), {}, {}, opt.cb, debug_callback, lost)
  BY <1>4, AllListed DEF Parts
<1>6. /\ c \in live <=> \/ c \in Args \/ c \in CallbacksOf(AllCommands) \/ c \in opt.cb
                        \/ c \in debug_callback \/ c \in lost
      /\ c \in Args => c \notin CallbacksOf(AllCommands) \cup opt.cb \cup debug_callback \cup lost
      /\ c \in CallbacksOf(AllCommands) => c \notin opt.cb \cup debug_callback \cup lost
      /\ c \in opt.cb => c \notin debug_callback \cup lost
      /\ c \in debug_callback => c \notin lost
  BY <1>5 DEF Parts
<1>7. CASE c \notin live
  BY <1>1, <1>2, <1>3, <1>6, <1>7
<1>8. CASE c \in live
  <2>1. \E h : Holders(c) = {h}
    BY <1>1, <1>2, <1>3, <1>6, <1>8, Zenon
  <2> QED BY <1>8, <2>1
<1> QED BY <1>7, <1>8

\* Whatever the threads call and however the state machine ends, every closure
\* that has not been freed is held in exactly one place, and none that has been
\* freed is held anywhere: no FREE_CALLBACK or abort frees a closure twice, none is
\* called after it was freed, and none is leaked but by a stack frame that is gone.
THEOREM ClosuresAlwaysOwned == Spec => []ClosuresOwned
<1>1. Init => ApiInv /\ OwnInv
  BY ApiInvInit, OwnInvInit
<1>2. ApiInv /\ OwnInv /\ [Next]_vars => (ApiInv /\ OwnInv)'
  BY ApiInvNext, OwnInvNext
<1>3. OwnInv => ClosuresOwned
  BY OwnersCount
<1> QED BY <1>1, <1>2, <1>3, PTL DEF Spec
=============================================================================
