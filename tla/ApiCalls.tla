------------------------------ MODULE ApiCalls ------------------------------
(***************************************************************************)
(* Any number of threads call the functions of ApiTable on one handle.     *)
(* Each wrapper of lib/api.c takes h->lock, checks the state it is         *)
(* permitted in, runs the nbd_unlocked_* function, frees the closures that *)
(* function left in its arguments, publishes the state and unlocks.  The   *)
(* functions that wait poll under the lock.  The state machine is          *)
(* StateGraph's: a handler may take any of its successors.                 *)
(*                                                                         *)
(* A closure is a callback with its user_data and its free function.       *)
(* ``live'' are the closures not yet freed; what matters is who holds      *)
(* each.                                                                   *)
(***************************************************************************)
EXTENDS ApiTable, Dispatch, Naturals, Sequences

CONSTANTS Threads, NoThread,
          Closures,     \* <<kind, number>>: the closures that exist at once
          MaxCommands   \* commands in the three lists, the disconnect aside

VARIABLES
  state, running,                \* get_next_state (h), inside nbd_internal_run
  public_state,
  lock,
  th,                            \* each thread's call
  opt,                           \* h->opt_current and h->opt_cb
  cmds_to_issue, cmds_in_flight, cmds_done,
  disconnect_request,
  debug_callback,
  live,
  lost                           \* closures only a dead stack frame names

machine == <<state, running>>
lists == <<cmds_to_issue, cmds_in_flight, cmds_done, disconnect_request>>
owners == <<opt, lists, debug_callback, live, lost>>
vars == <<machine, public_state, lock, th, owners>>

NoState == "FREED"
Gone == "gone"
Kinds == {"fn", "completion", "debug"}

ASSUME ApiAssumption ==
  /\ NoThread \notin Threads
  /\ Closures \subseteq Kinds \X Nat

Idle == [pc |-> "idle", call |-> Unlocked, args |-> {}, ok |-> "out", err |-> "out",
         seen |-> {}]
Options == {"none", "ABORT", "GO", "INFO", "LIST", "STARTTLS", "EXTENDED_HEADERS",
            "STRUCTURED_REPLY", "META_CONTEXT"}
NoOption == [current |-> "none", cb |-> {}, frame |-> NoThread]
Command(cb, t, disc) == [cb |-> cb, waiter |-> t, disc |-> disc]
CallbacksOf(list) == UNION {list[i].cb : i \in DOMAIN list}
AllCommands == cmds_to_issue \o cmds_in_flight \o cmds_done

\* Once its function has run, all that matters of a call is what it waits for.
Awaited(t, pc) ==
  IF th[t].call.sync /\ pc # "out" THEN Sync(Locked(Anytime, th[t].call.does)) ELSE Unlocked

\* Thread t goes on at pc.
At(t, pc) == th' = [th EXCEPT ![t].pc = pc, ![t].call = Awaited(t, pc)]
Frees(cs) == live' = live \ cs

-----------------------------------------------------------------------------
(* The wrapper. *)

Unused(k) == {c \in Closures \ live : c[1] = k}
FreshClosures(kinds) == {CHOOSE c \in Unused(k) : TRUE : k \in kinds}

\* A thread calls a function with these closures; which one it is makes a
\* difference only once it has the lock.
Begin(t, kinds) ==
  /\ th[t].pc = "idle"
  /\ state # NoState
  /\ \A k \in kinds : Unused(k) # {}
  /\ LET cs == FreshClosures(kinds)
     IN /\ th' = [th EXCEPT ![t].args = cs, ![t].pc = "lock"]
        /\ live' = live \union cs
  /\ UNCHANGED <<machine, public_state, lock, opt, lists, debug_callback, lost>>

\* The permitted states, then the arguments.
Check(row) ==
  LET permitted == ClassesOf(public_state) \intersect row.permitted # {}
  IN (IF permitted THEN {"body"} ELSE {"out"}) \union (IF row.checked THEN {"out"} ELSE {})

\* pthread_mutex_lock and the checks.
Enter(t) ==
  /\ th[t].pc = "lock"
  /\ lock = NoThread
  /\ lock' = t
  /\ \E row \in Calls, pc \in {"body", "out"} :
       /\ row.locked
       /\ row.closures = {c[1] : c \in th[t].args}
       /\ pc \in Check(row)
       /\ th' = [th EXCEPT ![t].call = IF pc = "body" THEN row ELSE Unlocked, ![t].pc = pc]
  /\ UNCHANGED <<machine, public_state, owners>>

\* out: FREE_CALLBACK of the arguments, the state published if it changed,
\* pthread_mutex_unlock.  The stack frame of the call is gone.
\* A plausible slip: the state is not published.
PublishNothing == UNCHANGED public_state
Publish == public_state' = state

\* A plausible slip: they are not freed.
NoClosures(t) == {}
ClosuresLeft(t) == th[t].args

\* A call that gives up waiting leaves its command behind.
Orphaned(list, t) ==
  [i \in DOMAIN list |-> IF list[i].waiter = t THEN [list[i] EXCEPT !.waiter = NoThread]
                        ELSE list[i]]

Out(t) ==
  /\ th[t].pc = "out"
  /\ Frees(ClosuresLeft(t))
  /\ Publish
  /\ lock' = NoThread
  /\ th' = [th EXCEPT ![t] = Idle]
  /\ opt' = IF opt.frame = t THEN [opt EXCEPT !.frame = Gone] ELSE opt
  /\ cmds_to_issue' = Orphaned(cmds_to_issue, t)
  /\ cmds_in_flight' = Orphaned(cmds_in_flight, t)
  /\ UNCHANGED <<machine, cmds_done, disconnect_request, debug_callback, lost>>

-----------------------------------------------------------------------------
(* nbd_internal_run. *)

\* An event the state does not accept is an error and changes nothing.
Run(t, event, ok, err) ==
  \/ /\ Raised(state, event) = {}
     /\ At(t, err)
     /\ UNCHANGED machine
  \/ /\ state' \in Raised(state, event)
     /\ running' = TRUE
     /\ th' = [th EXCEPT ![t].pc = "run", ![t].call = Awaited(t, "run"),
                         ![t].ok = ok, ![t].err = err]

\* nbd_internal_free_option: the completion callback, and the other one if the
\* option has one.  h->opt_current stays.  The callbacks of a waiting call live
\* in its stack frame: once the frame is gone nothing frees the closure they name.
HasFn == {"LIST", "META_CONTEXT"}
Freed == {c \in opt.cb : c[1] = "completion" \/ (c[1] = "fn" /\ opt.current \in HasFn)}
Named == IF opt.frame = Gone THEN {} ELSE Freed
OptionFreed == [opt EXCEPT !.cb = opt.cb \ Freed, !.frame = NoThread]
FreeOption ==
  /\ opt' = OptionFreed
  /\ Frees(Named)
  /\ lost' = lost \union (Freed \ Named)

\* What list may be without the commands at the indices out: the others, in
\* their order.
Without(list, out) ==
  LET left == DOMAIN list \ out
      ordered(at) == /\ {at[i] : i \in DOMAIN at} = left
                     /\ \A i, j \in DOMAIN at : i < j => at[i] < at[j]
  IN {[i \in DOMAIN at |-> list[at[i]]] :
        at \in {a \in UNION {[1..n -> left] : n \in 0..Len(list)} : ordered(a)}}

CallbacksAt(list, out) == UNION {list[i].cb : i \in out}

\* nbd_internal_abort_commands: a completion callback that returns 1 has its
\* command retired, and a disconnect is; the others go to cmds_done.
MayRetire(list, out) ==
  \A i \in DOMAIN list :
    /\ list[i].disc => i \in out
    /\ i \in out => list[i].disc \/ \E c \in list[i].cb : c[1] = "completion"

\* DEAD and CLOSED: abort_option, then both lists.
AbortAll ==
  LET list == cmds_to_issue \o cmds_in_flight
  IN \E out \in SUBSET DOMAIN list :
       /\ MayRetire(list, out)
       /\ cmds_to_issue' = <<>>
       /\ cmds_in_flight' = <<>>
       /\ \E left \in Without(list, out) : cmds_done' = cmds_done \o left
       /\ opt' = OptionFreed
       /\ Frees(CallbacksAt(list, out) \union Named)
       /\ lost' = lost \union (Freed \ Named)
       /\ UNCHANGED disconnect_request

\* ISSUE_COMMAND.FINISH: the head goes to the front of cmds_in_flight.
FinishIssue ==
  /\ cmds_to_issue' = Tail(cmds_to_issue)
  /\ cmds_in_flight' = <<Head(cmds_to_issue)>> \o cmds_in_flight
  /\ UNCHANGED <<cmds_done, disconnect_request, opt, live, lost>>

\* REPLY.FINISH_COMMAND: no command has the reply's cookie, or one is done.
FinishCommand ==
  \/ UNCHANGED <<lists, opt, live, lost>>
  \/ \E i \in DOMAIN cmds_in_flight, out \in SUBSET {1} :
       LET cmd == <<cmds_in_flight[i]>>
       IN /\ ~cmds_in_flight[i].disc
          /\ MayRetire(cmd, out)
          /\ cmds_in_flight' \in Without(cmds_in_flight, {i})
          /\ \E left \in Without(cmd, out) : cmds_done' = cmds_done \o left
          /\ Frees(CallbacksAt(cmd, out))
          /\ UNCHANGED <<cmds_to_issue, disconnect_request, opt, lost>>

\* NEWSTYLE.START: the states an option begins in.  Only GO is asked of a server
\* that is not fixed newstyle, the calls of the others refuse to.
StartOf(option) ==
  CASE option = "none" -> {"NEWSTYLE.RECV_GFLAGS"}
    [] option = "ABORT" -> {"NEWSTYLE.PREPARE_OPT_ABORT", "DEAD"}
    [] option = "GO" -> {"OPT_META_CONTEXT.START", "OPT_EXPORT_NAME.START"}
    [] option = "LIST" -> {"OPT_LIST.START"}
    [] option \in {"INFO", "META_CONTEXT"} -> {"OPT_META_CONTEXT.START"}
    [] option = "STRUCTURED_REPLY" -> {"OPT_STRUCTURED_REPLY.START"}
    [] option = "EXTENDED_HEADERS" -> {"OPT_EXTENDED_HEADERS.START"}
    [] OTHER -> {"OPT_STARTTLS.START"}

\* The exits a handler takes only for this option,
OnlyFor ==
  {<<"OPT_STARTTLS.CHECK_REPLY", "NEGOTIATING", "STARTTLS">>,
   <<"OPT_STARTTLS.TLS_HANDSHAKE_DONE", "NEGOTIATING", "STARTTLS">>,
   <<"OPT_EXTENDED_HEADERS.CHECK_REPLY", "NEGOTIATING", "EXTENDED_HEADERS">>,
   <<"OPT_META_CONTEXT.CHECK_REPLY", "NEGOTIATING", "META_CONTEXT">>,
   <<"OPT_GO.CHECK_REPLY", "NEWSTYLE.FINISHED", "GO">>,
   <<"OPT_GO.CHECK_REPLY", "OPT_EXPORT_NAME.START", "GO">>}
\* and those it takes for any option but this one, which it passes by on the way
\* to another.  h->opt_mode is set if some call asked for an option.
InPassing ==
  {<<"OPT_STARTTLS.START", "OPT_EXTENDED_HEADERS.START", "STARTTLS">>,
   <<"OPT_STARTTLS.CHECK_REPLY", "OPT_EXTENDED_HEADERS.START", "STARTTLS">>,
   <<"OPT_STARTTLS.TLS_HANDSHAKE_DONE", "OPT_EXTENDED_HEADERS.START", "STARTTLS">>,
   <<"OPT_EXTENDED_HEADERS.START", "OPT_STRUCTURED_REPLY.START", "EXTENDED_HEADERS">>,
   <<"OPT_EXTENDED_HEADERS.CHECK_REPLY", "OPT_STRUCTURED_REPLY.START",
     "EXTENDED_HEADERS">>,
   <<"OPT_STRUCTURED_REPLY.START", "NEGOTIATING", "STRUCTURED_REPLY">>,
   <<"OPT_STRUCTURED_REPLY.START", "OPT_META_CONTEXT.START", "STRUCTURED_REPLY">>,
   <<"OPT_STRUCTURED_REPLY.CHECK_REPLY", "OPT_META_CONTEXT.START", "STRUCTURED_REPLY">>,
   <<"OPT_META_CONTEXT.START", "OPT_GO.START", "META_CONTEXT">>,
   <<"OPT_META_CONTEXT.CHECK_REPLY", "OPT_GO.START", "META_CONTEXT">>}
Exit(option) == <<state, state', option>>
Routed ==
  /\ state = "NEWSTYLE.START" => state' \in StartOf(opt.current)
  /\ \A option \in Options :
       /\ Exit(option) \in OnlyFor => opt.current = option
       /\ Exit(option) \in InPassing => opt.current # option

\* The exits that call nbd_internal_free_option.
\* A plausible slip: not when the server refuses TLS.
EndsButRefusal ==
  {<<"OPT_STARTTLS.TLS_HANDSHAKE_DONE", "NEGOTIATING">>,
   <<"OPT_STARTTLS.TLS_HANDSHAKE_DONE", "OPT_EXTENDED_HEADERS.START">>,
   <<"OPT_EXTENDED_HEADERS.CHECK_REPLY", "NEGOTIATING">>,
   <<"OPT_EXTENDED_HEADERS.CHECK_REPLY", "OPT_STRUCTURED_REPLY.START">>,
   <<"OPT_STRUCTURED_REPLY.CHECK_REPLY", "NEGOTIATING">>,
   <<"OPT_STRUCTURED_REPLY.CHECK_REPLY", "OPT_META_CONTEXT.START">>,
   <<"OPT_META_CONTEXT.CHECK_REPLY", "NEGOTIATING">>,
   <<"OPT_GO.CHECK_REPLY", "NEWSTYLE.FINISHED">>,
   <<"OPT_GO.CHECK_REPLY", "NEGOTIATING">>,
   <<"OPT_GO.CHECK_REPLY", "NEWSTYLE.PREPARE_OPT_ABORT">>,
   <<"OPT_EXPORT_NAME.CHECK_REPLY", "NEWSTYLE.FINISHED">>,
   <<"OPT_LIST.CHECK_REPLY", "NEGOTIATING">>}
EndsOption ==
  EndsButRefusal \cup
  {<<"OPT_STARTTLS.CHECK_REPLY", "NEGOTIATING">>,
   <<"OPT_STARTTLS.CHECK_REPLY", "OPT_EXTENDED_HEADERS.START">>}

\* NEWSTYLE.OPT_GO.START: without a call that asked for it, GO is next.
StartGo ==
  /\ opt' = [opt EXCEPT !.current = IF opt.current = "none" THEN "GO" ELSE opt.current]
  /\ UNCHANGED <<lists, live, lost>>

\* What the handler of the state does on its way to state' (the same state if
\* it stops there).
HandlerEffect ==
  CASE state \in {"DEAD", "CLOSED"} -> AbortAll
    [] state = "ISSUE.FINISH" -> FinishIssue
    [] state = "FINISH_COMMAND" -> FinishCommand
    [] state = "OPT_GO.START" -> StartGo
    [] <<state, state'>> \in EndsOption -> FreeOption /\ UNCHANGED lists
    [] OTHER -> UNCHANGED <<lists, opt, live, lost>>

\* READY issues exactly when there is something to issue.
Returns(t, pc) ==
  /\ running' = FALSE
  /\ th' = [th EXCEPT ![t].pc = pc, ![t].call = Awaited(t, pc),
                      ![t].ok = "out", ![t].err = "out"]

Handler(t) ==
  /\ th[t].pc = "run"
  /\ \E h \in Handlers :
       /\ h[1] = state
       /\ \/ /\ state' \in h[2].next
             /\ state = "READY" => (state' = "ISSUE.START" <=> cmds_to_issue # <<>>)
             /\ Routed
             /\ UNCHANGED <<running, th>>
          \/ /\ state' \in {IF s = Itself THEN state ELSE s : s \in h[2].waits}
             /\ state = "READY" => cmds_to_issue = <<>>
             /\ Returns(t, th[t].ok)
          \/ /\ state' \in h[2].fails
             /\ Returns(t, th[t].err)
  /\ HandlerEffect
  /\ UNCHANGED <<public_state, lock, debug_callback>>

-----------------------------------------------------------------------------
(* The nbd_unlocked_* functions. *)

Does(t, what) == th[t].call.does = what

\* Where a call goes on once it has started something.
Then(t) == IF th[t].call.sync THEN "wait" ELSE "out"

Nothing(t) == At(t, "out") /\ UNCHANGED <<machine, owners>>

SetDebug(t) ==
  /\ Frees(debug_callback)
  /\ debug_callback' = th[t].args
  /\ th' = [th EXCEPT ![t].args = {}, ![t].call = Unlocked, ![t].pc = "out"]
  /\ UNCHANGED <<machine, opt, lists, lost>>

\* An address or a URI that is refused raises nothing.
Connect(t) ==
  \/ Nothing(t)
  \/ \E event \in th[t].call.raises : Run(t, event, Then(t), "out") /\ UNCHANGED owners

\* The closures go into h->opt_cb; a failure of the state machine is ignored.
\* A waiting call puts helpers in its stack frame there instead, which name
\* the closures.  All but GO may be refused.
Option(t) ==
  \/ th[t].call.asks # "GO" /\ Nothing(t)
  \/ /\ opt' = [current |-> th[t].call.asks, cb |-> th[t].args,
                frame |-> IF th[t].call.sync THEN t ELSE NoThread]
     /\ state' \in Raised(state, "cmd_issue")
     /\ running' = TRUE
     /\ th' = [th EXCEPT ![t].args = {}, ![t].call = Awaited(t, "run"), ![t].pc = "run",
                         ![t].ok = Then(t), ![t].err = Then(t)]
     /\ UNCHANGED <<lists, debug_callback, live, lost>>

OptAbort(t) ==
  /\ opt' = [opt EXCEPT !.current = "ABORT"]
  /\ Run(t, "cmd_issue", Then(t), Then(t))
  /\ UNCHANGED <<lists, debug_callback, live, lost>>

\* nbd_internal_command_common, where it queues: the state machine is kicked
\* only if it is READY and was issuing nothing, and its failure is ignored.
Kick == cmds_to_issue = <<>> /\ state = "READY"

Queue(t, cmd, then) ==
  /\ cmds_to_issue' = Append(cmds_to_issue, cmd)
  /\ disconnect_request' = (disconnect_request \/ cmd.disc)
  /\ IF Kick
     THEN /\ state' \in Raised(state, "cmd_issue")
          /\ running' = TRUE
          /\ th' = [th EXCEPT ![t].args = {}, ![t].call = Awaited(t, "run"), ![t].pc = "run",
                              ![t].ok = then, ![t].err = then]
     ELSE /\ th' = [th EXCEPT ![t].args = {}, ![t].pc = then, ![t].call = Awaited(t, then)]
          /\ UNCHANGED machine
  /\ UNCHANGED <<opt, cmds_in_flight, cmds_done, debug_callback, live, lost>>

\* A strict check of nbd_unlocked_aio_* leaves the closures to the wrapper; one
\* of nbd_internal_command_common frees them.
IssueCommand(t) ==
  \/ Nothing(t)
  \/ /\ Frees(th[t].args)
     /\ th' = [th EXCEPT ![t].args = {}, ![t].call = Unlocked, ![t].pc = "out"]
     /\ UNCHANGED <<machine, opt, lists, debug_callback, lost>>
  \/ /\ ~disconnect_request
     /\ Len(AllCommands) < MaxCommands
     /\ Queue(t, Command(th[t].args, IF th[t].call.sync THEN t ELSE NoThread, FALSE), Then(t))

Disconnect(t, then) ==
  IF disconnect_request
  THEN Nothing(t)
  ELSE Queue(t, Command({}, NoThread, TRUE), then)

\* nbd_unlocked_shutdown.  With ABANDON_PENDING the commands no byte of which
\* has been sent are aborted first.  The program ends at "assert (*cmd)" if the
\* machine is stopped in REPLY.START with nothing queued.
Abandon(t) ==
  LET first == IF state = "READY" THEN 0 ELSE 1
      list == SubSeq(cmds_to_issue, first + 1, Len(cmds_to_issue))
  IN /\ first <= Len(cmds_to_issue)
     /\ \E out \in SUBSET DOMAIN list :
       /\ MayRetire(list, out)
       /\ cmds_to_issue' = SubSeq(cmds_to_issue, 1, first)
       /\ \E left \in Without(list, out) : cmds_done' = cmds_done \o left
       /\ Frees(CallbacksAt(list, out))
       /\ UNCHANGED <<opt, cmds_in_flight, disconnect_request, debug_callback, lost>>

Shutdown(t) ==
  \/ state = "NEGOTIATING" /\ OptAbort(t)
  \/ /\ state # "NEGOTIATING"
     /\ Abandon(t) \/ UNCHANGED owners
     /\ At(t, "disconnect")
     /\ UNCHANGED machine

ShutdownDisconnect(t) ==
  /\ th[t].pc = "disconnect"
  /\ IF disconnect_request
     THEN At(t, "wait") /\ UNCHANGED <<machine, owners>>
     ELSE Queue(t, Command({}, NoThread, TRUE), "wait")
  /\ UNCHANGED <<public_state, lock>>

\* nbd_unlocked_aio_command_completed: a cookie that is not on cmds_done
\* retires nothing.
Retire(t) ==
  \/ Nothing(t)
  \/ \E i \in DOMAIN cmds_done :
       /\ cmds_done' \in Without(cmds_done, {i})
       /\ Frees(cmds_done[i].cb)
       /\ At(t, "out")
       /\ UNCHANGED <<machine, opt, cmds_to_issue, cmds_in_flight, disconnect_request,
                       debug_callback, lost>>

Notify(t) == \E event \in th[t].call.raises : Run(t, event, "out", "out") /\ UNCHANGED owners

\* do_poll.  poll(2) fails, or reports POLLERR alone; a hangup is reported
\* whatever was asked for and counts as readable.
Poll(t, ok, err) ==
  /\ \/ At(t, err) /\ UNCHANGED machine
     \/ /\ nbd_internal_aio_get_direction(state) # {}
        /\ \/ Run(t, "notify_read", ok, err)
           \/ /\ "WRITE" \in nbd_internal_aio_get_direction(state)
              /\ Run(t, "notify_write", ok, err)
  /\ UNCHANGED owners

Body(t) ==
  /\ th[t].pc = "body"
  /\ \/ Does(t, "nothing") /\ Nothing(t)
     \/ (Does(t, "set debug") \/ Does(t, "clear debug")) /\ SetDebug(t)
     \/ Does(t, "connect") /\ Connect(t)
     \/ Does(t, "option") /\ Option(t)
     \/ Does(t, "abort") /\ OptAbort(t)
     \/ Does(t, "command") /\ IssueCommand(t)
     \/ Does(t, "disconnect") /\ Disconnect(t, "out")
     \/ Does(t, "shutdown") /\ Shutdown(t)
     \/ Does(t, "notify") /\ Notify(t)
     \/ Does(t, "poll") /\ Poll(t, "out", "out")
     \/ Does(t, "retire") /\ Retire(t)
  /\ UNCHANGED <<public_state, lock>>

\* wait_for_command, wait_for_option, nbd_internal_wait_until_connected and the
\* loop of nbd_unlocked_shutdown.
Mine(t) == {i \in DOMAIN cmds_done : cmds_done[i].waiter = t}

Over(t) ==
  CASE Does(t, "command") -> Mine(t) # {}
    [] Does(t, "shutdown") -> state \in {"CLOSED", "DEAD"}
    [] OTHER -> state \notin is_connecting

Wait(t) ==
  /\ th[t].pc = "wait"
  /\ \/ /\ Over(t)
        /\ At(t, "out")
        /\ cmds_done' \in Without(cmds_done, Mine(t))
        /\ Frees(CallbacksAt(cmds_done, Mine(t)))
        /\ UNCHANGED <<machine, opt, cmds_to_issue, cmds_in_flight, disconnect_request,
                       debug_callback, lost>>
     \/ ~Over(t) /\ Poll(t, "wait", "out")
  /\ UNCHANGED <<public_state, lock>>

-----------------------------------------------------------------------------
(* A call that takes no lock reports itself with debug_direct: it reads    *)
(* h->debug_callback, and then calls it.                                   *)

ReadDebugCallback(t) ==
  /\ th[t].pc = "idle"
  /\ state # NoState
  /\ \E row \in Calls : ~row.locked
  /\ th' = [th EXCEPT ![t].pc = "debug", ![t].seen = debug_callback]
  /\ UNCHANGED <<machine, public_state, lock, owners>>

CallDebugCallback(t) ==
  /\ th[t].pc = "debug"
  /\ th' = [th EXCEPT ![t] = Idle]
  /\ UNCHANGED <<machine, public_state, lock, owners>>

-----------------------------------------------------------------------------
(* nbd_close, which no other call may overlap, and nbd_create. *)

Close ==
  /\ state # NoState
  /\ \A t \in Threads : th[t].pc = "idle"
  /\ state' = NoState
  /\ public_state' = NoState
  /\ debug_callback' = {}
  /\ opt' = NoOption
  /\ cmds_to_issue' = <<>>
  /\ cmds_in_flight' = <<>>
  /\ cmds_done' = <<>>
  /\ disconnect_request' = FALSE
  /\ Frees(debug_callback \union CallbacksOf(AllCommands) \union Named)
  /\ lost' = lost \union (opt.cb \ Named)
  /\ UNCHANGED <<running, lock, th>>

Create ==
  /\ state = NoState
  /\ state' = "START"
  /\ public_state' = "START"
  /\ UNCHANGED <<running, lock, th, owners>>

Init ==
  /\ state = NoState
  /\ running = FALSE
  /\ public_state = NoState
  /\ lock = NoThread
  /\ th = [t \in Threads |-> Idle]
  /\ opt = NoOption
  /\ cmds_to_issue = <<>>
  /\ cmds_in_flight = <<>>
  /\ cmds_done = <<>>
  /\ disconnect_request = FALSE
  /\ debug_callback = {}
  /\ live = {}
  /\ lost = {}

Step(t) ==
  \/ \E kinds \in {row.closures : row \in Calls} : Begin(t, kinds)
  \/ Enter(t) \/ Body(t) \/ ShutdownDisconnect(t)
  \/ Handler(t) \/ Wait(t) \/ Out(t)
  \/ ReadDebugCallback(t) \/ CallDebugCallback(t)

Next == Create \/ Close \/ \E t \in Threads : Step(t)

Spec == Init /\ [][Next]_vars

-----------------------------------------------------------------------------
(* Properties *)

\* What nbd_aio_is_*, nbd_aio_get_direction and nbd_connection_state read without
\* the lock is the state some call left the handle in, never one in the middle of
\* nbd_internal_run: while nobody holds the lock it is the handle's state.
PublicStateFresh == lock = NoThread => public_state = state /\ ~running

\* A program that drives the handle by its public state is never stuck: exactly
\* one of the nbd_aio_is_* functions is true, and a handle that is connecting or
\* connected names a direction to poll for, whose event its state accepts.
PublicStateUsable ==
  state # NoState =>
    /\ \E c \in ClassesOf(public_state) : ClassesOf(public_state) = {c}
    /\ ClassesOf(public_state) \subseteq {"connecting", "ready", "processing"} =>
         nbd_internal_aio_get_direction(public_state) # {}
    /\ \A d \in nbd_internal_aio_get_direction(public_state) :
         Raised(public_state, IF d = "READ" THEN "notify_read" ELSE "notify_write") # {}

\* The places that hold a closure.
Holders(c) ==
  LET commands == AllCommands
  IN {<<"call", t>> : t \in {u \in Threads : c \in th[u].args}}
       \cup {<<"command", i>> : i \in {j \in DOMAIN commands : c \in commands[j].cb}}
       \cup (IF c \in opt.cb THEN {<<"opt_cb">>} ELSE {})
       \cup (IF c \in debug_callback THEN {<<"debug_callback">>} ELSE {})
       \cup (IF c \in lost THEN {<<"lost">>} ELSE {})

\* Every closure that has not been freed is held in exactly one place, and every
\* closure held is one that has not been freed: none is freed twice or called after
\* it was freed, and the only ones leaked are the lost ones.
ClosuresOwned ==
  \A c \in Closures :
    LET holders == Holders(c)
    IN IF c \in live THEN \E h \in holders : holders = {h} ELSE holders = {}

\* Callbacks h->opt_cb lacks, and the states whose handlers find that their option is not
\* the one that was asked for.
NoCompletion == opt.frame = NoThread /\ \A c \in opt.cb : c[1] # "completion"
NoFn == \A c \in opt.cb : c[1] # "fn"
PassedBy ==
  \/ state = "OPT_STARTTLS.START" /\ opt.current # "STARTTLS"
  \/ state = "OPT_EXTENDED_HEADERS.START" /\ opt.current # "EXTENDED_HEADERS"
  \/ state = "OPT_STRUCTURED_REPLY.START" /\ opt.current # "STRUCTURED_REPLY"
  \/ state = "OPT_GO.START" /\ opt.current = "none"

\* The option that is being negotiated is the only one: on every path through the
\* handlers h->opt_cb has been freed when a call may start the next one or there is
\* nothing left to negotiate.  So the asserts of the handlers hold: an option that is
\* only passed by finds no completion callback, LIST and META_CONTEXT find their
\* second callback and no other option has one, and no option is current when the
\* handshake begins.
OptionOver ==
  /\ ~running /\ state \in {"START", "NEGOTIATING", "READY", "DEAD", "CLOSED"} =>
       NoCompletion /\ NoFn
  /\ PassedBy => NoCompletion
  /\ state = "OPT_META_CONTEXT.START" => (NoFn <=> opt.current # "META_CONTEXT")
  /\ state = "OPT_LIST.START" => opt.current = "LIST" /\ ~NoFn
  /\ state = "MAGIC.CHECK_MAGIC" => opt.current = "none"

\* A debug callback is not called after it has been freed (debug_direct of a
\* call that takes no lock against nbd_set_debug_callback).
DebugCallbackLive == \A t \in Threads : th[t].pc = "debug" => th[t].seen \subseteq live
=============================================================================
