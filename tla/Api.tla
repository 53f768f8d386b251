-------------------------------- MODULE Api ---------------------------------
(***************************************************************************)
(* The calls a program makes on a connected handle: lib/rw.c, lib/aio.c,   *)
(* lib/disconnect.c, lib/poll.c and nbd_close of lib/handle.c.  Each call  *)
(* holds h->lock (lib/api.c), a synchronous one while it polls as well, so *)
(* no call starts while the state machine runs or api is not idle.         *)
(***************************************************************************)
EXTENDS Handle

Idle == [op |-> "idle", c |-> NULL]
Calling(op) == ~running /\ api.op = op
CanCall == Calling("idle") /\ state # "FREED"

\* The generated permitted-states check of the command and disconnect calls.
Connected == is_state_ready \/ is_state_processing

(***************************************************************************)
(* lib/rw.c                                                                *)
(***************************************************************************)

AlwaysAccepting == TRUE
Accepting == ~disconnect_request

\* nbd_internal_command_common: queue the command, and kick the state machine
\* if nothing else is being processed.
nbd_internal_command_common(t) ==
  /\ Accepting
  /\ t.type \in {"READ", "WRITE"} => t.count <= MAX_REQUEST_SIZE
  /\ cmd' = [cmd EXCEPT ![unique] = MkCommand(t)]
  /\ unique' = unique + 1
  /\ in_flight' = in_flight + 1
  /\ cmds_to_issue' = Append(cmds_to_issue, unique)
  /\ cmds_to_issue_tail' = unique
  /\ IF cmds_to_issue = <<>> /\ is_state_ready
     THEN state' = "ISSUE.START" /\ running' = TRUE
     ELSE UNCHANGED <<state, running>>
  /\ UNCHANGED <<cmds_in_flight, cmds_done, cmds_done_tail, sendVars, recvVars,
                 netVars, histVars>>

\* nbd_aio_pread and its siblings.  Cookie MaxCmds is kept for the disconnect.
AioCommand(t) ==
  /\ CanCall /\ Connected
  /\ unique < MaxCmds
  /\ nbd_internal_command_common(t)
  /\ UNCHANGED <<api, disconnect_request>>

\* nbd_pread and its siblings: the same, and then wait_for_command.
SyncCommand(t) ==
  /\ CanCall /\ Connected
  /\ unique < MaxCmds /\ ~t.completion
  /\ nbd_internal_command_common(t)
  /\ api' = [op |-> "wait", c |-> unique]
  /\ UNCHANGED disconnect_request

(***************************************************************************)
(* lib/aio.c                                                               *)
(***************************************************************************)

NoErrorSeen(c) == cmd[c].error = NoErr
\* A read that lacks bytes is an error even if the server reported none.
Success(c) ==
  /\ cmd[c].error = NoErr
  /\ cmd[c].type = "READ" => cmd[c].data_seen = cmd[c].count

NoPrevious(i) == NULL
\* prev_cmd: the element before the i-th of cmds_done.
Previous(i) == IF i = 1 THEN NULL ELSE cmds_done[i - 1]

\* nbd_unlocked_aio_command_completed, when cookie c is in cmds_done.
nbd_unlocked_aio_command_completed(c) ==
  \E i \in 1..Len(cmds_done) :
    /\ cmds_done[i] = c
    /\ cmds_done' = [j \in 1..(Len(cmds_done) - 1) |->
                       IF j < i THEN cmds_done[j] ELSE cmds_done[j + 1]]
    /\ cmds_done_tail' = IF cmds_done_tail # c THEN cmds_done_tail
                         ELSE Previous(i)
    /\ told' = [told EXCEPT ![c] = IF Success(c) THEN "ok" ELSE "failed"]
    /\ UNCHANGED <<state, running, cmds_to_issue, cmds_to_issue_tail,
                   cmds_in_flight, in_flight, unique, disconnect_request, cmd,
                   sendVars, recvVars, netVars, calls, cover>>

CommandCompleted(c) ==
  CanCall /\ nbd_unlocked_aio_command_completed(c) /\ UNCHANGED api

\* One round of the loop of wait_for_command: the command is done, or poll
\* has just reported that the handle died (and the command stays unretired).
WaitForCommand ==
  \/ /\ Calling("wait") \/ (Calling("poll") /\ state # "DEAD")
     /\ nbd_unlocked_aio_command_completed(api.c)
     /\ api' = Idle
  \/ /\ Calling("poll") /\ state = "DEAD"
     /\ api' = Idle
     /\ UNCHANGED <<state, running, listVars, cmd, sendVars, recvVars, netVars,
                    histVars>>

(***************************************************************************)
(* lib/disconnect.c                                                        *)
(***************************************************************************)
AioDisconnect ==
  /\ CanCall /\ Connected
  /\ nbd_internal_command_common(DiscTemplate)
  /\ disconnect_request' = TRUE
  /\ UNCHANGED api

NothingKept == <<>>
\* The command at the head of the queue is kept when it is being sent.
KeptQueue == IF is_state_ready THEN <<>> ELSE <<Head(cmds_to_issue)>>

Abandoned == IF is_state_ready THEN Queued ELSE Queued \ {Head(cmds_to_issue)}

\* nbd_shutdown, up to the disconnect.
Shutdown(flags) ==
  /\ CanCall /\ Connected
  /\ api' = [op |-> "disc", c |-> NULL]
  /\ \/ /\ flags = "none"
        /\ UNCHANGED <<listVars, cmd, histVars>>
     \/ /\ flags = "abandon_pending"
        /\ is_state_ready \/ cmds_to_issue # <<>>
        /\ nbd_internal_abort_commands(Abandoned)
        /\ cmds_to_issue' = KeptQueue
        /\ cmds_to_issue_tail' = IF is_state_ready THEN cmds_to_issue_tail
                                 ELSE Head(cmds_to_issue)
        /\ UNCHANGED <<cmds_in_flight, in_flight, unique, disconnect_request,
                       cover>>
  /\ UNCHANGED <<state, running, sendVars, recvVars, netVars>>

\* nbd_shutdown: queue NBD_CMD_DISC unless that has been done.
ShutdownDisconnect ==
  /\ Calling("disc")
  /\ api' = [op |-> "shutdown", c |-> NULL]
  /\ \/ /\ ~disconnect_request
        /\ nbd_internal_command_common(DiscTemplate)
        /\ disconnect_request' = TRUE
     \/ /\ disconnect_request
        /\ UNCHANGED <<state, running, listVars, cmd, sendVars, recvVars,
                       netVars, histVars>>

ShutdownReturn ==
  /\ Calling("shutdown") /\ state \in {"CLOSED", "DEAD"}
  /\ api' = Idle
  /\ UNCHANGED <<state, running, listVars, cmd, sendVars, recvVars, netVars,
                 histVars>>

(***************************************************************************)
(* lib/poll.c, and nbd_aio_notify_read/write called from the program's own *)
(* loop; the event table is that of generator/state_machine.ml.            *)
(***************************************************************************)

ReadableData == inb.avail > 0
\* With TLS, part of a record makes the socket readable but yields no data.
Readable == inb.avail > 0 \/ Eof \/ (Spurious /\ inb.left > 0)
Writable == room > 0 \/ ~up

Polling == api.op # "disc" /\ ~running /\ state # "FREED"
Polled  == IF api.op = "wait" THEN [api EXCEPT !.op = "poll"] ELSE api

NotifyRead ==
  /\ Polling /\ Readable
  /\ \/ state = "READY" /\ state' = "REPLY.START"
     \/ state = "REPLY.START" /\ UNCHANGED state
     \/ state = "SEND_REQUEST" /\ state' = "PAUSE_SEND_REQUEST"
     \/ state = "SEND_WRITE_PAYLOAD" /\ state' = "PAUSE_WRITE_PAYLOAD"
     \/ state = "SEND_WRITE_SHUTDOWN" /\ state' = "PAUSE_WRITE_SHUTDOWN"
  /\ running' = TRUE
  /\ api' = Polled
  /\ UNCHANGED <<listVars, cmd, sendVars, recvVars, netVars, histVars>>

\* do_poll prefers reading; the program's own loop may do either.
NotifyWrite ==
  /\ Polling /\ Writable
  /\ api.op = "idle" \/ ~Readable
  /\ state \in {"SEND_REQUEST", "SEND_WRITE_PAYLOAD", "SEND_WRITE_SHUTDOWN"}
  /\ running' = TRUE
  /\ api' = Polled
  /\ UNCHANGED <<state, listVars, cmd, sendVars, recvVars, netVars, histVars>>

\* do_poll fails (poll(2) itself, or POLLERR alone): the synchronous call
\* returns an error and the handle stays as it is.
PollError ==
  /\ Faults /\ ~running /\ api.op \in {"wait", "poll", "shutdown"}
  /\ state \notin {"DEAD", "CLOSED"}
  /\ api' = Idle
  /\ UNCHANGED <<state, running, listVars, cmd, sendVars, recvVars, netVars,
                 histVars>>

\* nbd_close: free_cmd_list on each of the three lists calls the completion
\* callback of every command left and frees it.
Close ==
  /\ CanCall
  /\ calls' = [c \in Cookie |->
                 IF c \in Queued \cup cmds_in_flight \cup Done
                    /\ cmd[c].completion
                 THEN calls[c] + 1 ELSE calls[c]]
  /\ cmds_to_issue' = <<>> /\ cmds_in_flight' = {} /\ cmds_done' = <<>>
  /\ state' = "FREED"
  /\ UNCHANGED <<running, api, cmds_to_issue_tail, cmds_done_tail, in_flight,
                 unique, disconnect_request, cmd, sendVars, recvVars, netVars,
                 told, cover>>

ApiStep ==
  \/ \E t \in Templates : AioCommand(t) \/ SyncCommand(t)
  \/ \E c \in Cookie : CommandCompleted(c)
  \/ \E f \in ShutdownFlags : Shutdown(f)
  \/ AioDisconnect \/ ShutdownDisconnect \/ ShutdownReturn \/ WaitForCommand
  \/ NotifyRead \/ NotifyWrite \/ PollError \/ Close

\* Whenever a call reaches them, the assert()s of lib/rw.c, lib/disconnect.c
\* and lib/aio.c hold: a non-empty queue means a command is being processed,
\* an empty one has no tail, a busy handle that is shut down has a command
\* being sent, and the user is never shown an NBD_CMD_DISC.
ApiAsserts ==
  /\ (Calling("idle") \/ Calling("disc")) /\ Connected =>
       IF cmds_to_issue # <<>> THEN is_state_processing
       ELSE cmds_to_issue_tail = NULL
  /\ Calling("idle") /\ is_state_processing
       /\ "abandon_pending" \in ShutdownFlags => cmds_to_issue # <<>>
  /\ \A c \in Done : cmd[c].type # "DISC"
  /\ cmds_done_tail = NULL => cmds_done = <<>> 
=============================================================================
