---------------------------- MODULE Transmission ----------------------------
(***************************************************************************)
(* One libnbd handle in transmission: the state machine (top-level states  *)
(* of generator/states.c here, the others in IssueCommand, Reply and       *)
(* ChunkReply), the program that calls it (Api), and the server at the     *)
(* other end of the socket.                                                *)
(***************************************************************************)
EXTENDS IssueCommand, ChunkReply, Api

(***************************************************************************)
(* generator/states.c                                                      *)
(***************************************************************************)
ReadyForgetsQueue ==
  /\ At("READY") /\ Block
  /\ UNCHANGED <<listVars, cmd, sendVars, recvVars, netVars, histVars>>

Ready ==
  /\ At("READY")
  /\ \/ cmds_to_issue # <<>> /\ SET_NEXT_STATE("ISSUE.START")
     \* Data already decrypted by TLS would not wake poll(2).
     \/ /\ cmds_to_issue = <<>> /\ Tls /\ inb.avail > 0
        /\ SET_NEXT_STATE("REPLY.START")
     \/ cmds_to_issue = <<>> /\ Block
  /\ UNCHANGED <<listVars, cmd, sendVars, recvVars, netVars, histVars>>

TerminalKeepsFlight(s) ==
  /\ At(s)
  /\ nbd_internal_abort_commands(Queued \cup cmds_in_flight)
  /\ cmds_to_issue' = <<>>
  /\ Block
  /\ UNCHANGED <<cmds_to_issue_tail, cmds_in_flight, in_flight, unique,
                 disconnect_request, sendVars, recvVars, netVars, cover>>

TerminalSilent(s) ==
  /\ At(s)
  /\ cmds_to_issue' = <<>> /\ cmds_in_flight' = {} /\ in_flight' = 0
  /\ Block
  /\ UNCHANGED <<cmds_to_issue_tail, cmds_done, cmds_done_tail, unique,
                 disconnect_request, cmd, sendVars, recvVars, netVars, histVars>>

\* DEAD and CLOSED: fail every command and drop the socket.
Terminal(s) ==
  /\ At(s)
  /\ nbd_internal_abort_commands(Queued \cup cmds_in_flight)
  /\ cmds_to_issue' = <<>> /\ cmds_in_flight' = {} /\ in_flight' = 0
  /\ Block
  /\ UNCHANGED <<cmds_to_issue_tail, unique, disconnect_request, sendVars,
                 recvVars, netVars, cover>>

Dead == Terminal("DEAD")
Closed == Terminal("CLOSED")

Engine == IssueStep \/ ReplyStep \/ ChunkStep \/ Ready \/ Dead \/ Closed

(***************************************************************************)
(* The other end of the socket.  The server answers a request only once it *)
(* has all of it, and the length it announces is the length it sends; the  *)
(* contents of its chunks may be anything in Shapes.                       *)
(***************************************************************************)
HasSocket == state \notin {"FREED"} /\ ~(state \in {"DEAD", "CLOSED"} /\ ~running)

Final(m) == m.magic = "simple" \/ m.done

\* The header formats that were negotiated, and how much a simple reply to
\* command c carries.
Framed(c, m) ==
  /\ m.magic = "extended" <=> extended_headers
  /\ m.magic = "structured" => structured_replies
  /\ m.magic = "simple" =>
       m.length = (IF cmd[c].type = "READ" /\ m.error = NoErr
                   THEN cmd[c].count ELSE 0)

Transmit(m) ==
  /\ up /\ HasSocket /\ inb.left = 0
  /\ inb' = [msg |-> m, left |-> Size(m), avail |-> 0,
             fresh |-> TRUE]
  /\ UNCHANGED <<runVars, listVars, cmd, sendVars, recvVars, up, room, rx, got,
                 histVars>>

ServerReply(c, m) ==
  /\ c \in got \ ans /\ cmd[c].type # "DISC"
  /\ m \in Shapes /\ Framed(c, m)
  /\ Transmit([m EXCEPT !.cookie = c])
  /\ ans' = IF Final(m) THEN ans \cup {c} ELSE ans

\* A reply to a cookie that no command has.
ServerStray(m) ==
  /\ m.magic \in UnknownCookie
  /\ m.magic = "extended" <=> extended_headers
  /\ m.magic = "simple" => m.length = 0
  /\ Transmit([m EXCEPT !.cookie = NULL])
  /\ UNCHANGED ans

Deliver ==
  /\ HasSocket
  /\ \E a \in (inb.avail + 1)..inb.left : inb' = [inb EXCEPT !.avail = a]
  /\ UNCHANGED <<runVars, listVars, cmd, sendVars, recvVars, up, room, rx, got,
                 ans, histVars>>

Drain ==
  /\ HasSocket /\ up /\ room < SockBuf
  /\ room' = SockBuf
  /\ UNCHANGED <<runVars, listVars, cmd, sendVars, recvVars, up, inb, rx, got,
                 ans, histVars>>

SawDisc == \E c \in got : cmd[c].type = "DISC"

\* The server closes after a disconnect, once it has answered everything.
ServerClose ==
  /\ HasSocket /\ up
  /\ SawDisc /\ \A c \in got \ ans : cmd[c].type = "DISC"
  /\ up' = FALSE
  /\ UNCHANGED <<runVars, listVars, cmd, sendVars, recvVars, inb, room, rx, got,
                 ans, histVars>>

\* The connection is lost, maybe with what was sent but not yet delivered.
ConnectionLost ==
  /\ Faults /\ HasSocket /\ up
  /\ \E l \in {inb.avail, inb.left} : inb' = [inb EXCEPT !.left = l]
  /\ up' = FALSE
  /\ UNCHANGED <<runVars, listVars, cmd, sendVars, recvVars, room, rx, got, ans,
                 histVars>>

Server ==
  \/ \E c \in Cookie, m \in Shapes : ServerReply(c, m)
  \/ \E m \in Shapes : ServerStray(m)
  \/ Deliver \/ Drain \/ ServerClose \/ ConnectionLost

(***************************************************************************)
(* The specification.                                                      *)
(***************************************************************************)
Init ==
  /\ state = "READY" /\ running = FALSE /\ api = Idle
  /\ cmds_to_issue = <<>> /\ cmds_to_issue_tail = NULL
  /\ cmds_in_flight = {}
  /\ cmds_done = <<>> /\ cmds_done_tail = NULL
  /\ in_flight = 0 /\ unique = 1 /\ disconnect_request = FALSE
  /\ cmd = [c \in Cookie |-> MkCommand(DiscTemplate)]
  /\ wbuf = "req" /\ wlen = 0 /\ req = NULL
  /\ in_write_payload = FALSE /\ in_write_shutdown = FALSE
  /\ rbuf = "hdr" /\ rlen = 0 /\ hdr = Garbage
  /\ reply_state = "START" /\ reply_cmd = NULL /\ payload_left = 0
  /\ up = TRUE /\ inb = [msg |-> Garbage, left |-> 0, avail |-> 0,
                           fresh |-> FALSE]
  /\ room = SockBuf
  /\ rx = [cookie |-> NULL, need |-> 0, ok |-> TRUE]
  /\ got = {} /\ ans = {}
  /\ calls = [c \in Cookie |-> 0]
  /\ told = [c \in Cookie |-> "none"]
  /\ cover = [c \in Cookie |-> [bytes |-> {}, again |-> FALSE]]

Next == Engine \/ ApiStep \/ Server

Spec == Init /\ [][Next]_vars

\* The state machine never stops half-way.  The program, or the synchronous
\* call it is in, keeps polling, and poll(2) does not fail for ever; no two
\* steps of a call are enabled at once.  The network delivers and drains, and the
\* server finishes every request it has read and closes after a disconnect, the
\* only command that may have the last cookie.
Fairness ==
  /\ WF_vars(Engine)
  /\ SF_vars(NotifyRead \/ NotifyWrite)
  /\ WF_vars(ShutdownDisconnect \/ ShutdownReturn \/ WaitForCommand)
  /\ WF_vars(Deliver) /\ WF_vars(Drain)
  /\ \A c \in Cookie \ {MaxCmds} :
       SF_vars(\E m \in Shapes : Final(m) /\ ServerReply(c, m))
  /\ SF_vars(ServerClose)

FairSpec == Spec /\ Fairness

(***************************************************************************)
(* Properties.                                                             *)
(***************************************************************************)
Live == Queued \cup cmds_in_flight

RunType ==
  /\ state \in States /\ running \in BOOLEAN
  /\ api \in [op : {"idle", "wait", "poll", "disc", "shutdown"},
              c : Cookie \cup {NULL}]

ListType ==
  /\ cmds_to_issue \in Seq(Cookie) /\ cmds_done \in Seq(Cookie)
  /\ cmds_in_flight \subseteq Cookie
  /\ cmds_to_issue_tail \in Cookie \cup {NULL}
  /\ cmds_done_tail \in Cookie \cup {NULL}
  /\ in_flight \in Int /\ unique \in 1..(MaxCmds + 1)
  /\ disconnect_request \in BOOLEAN

CmdType == cmd \in [Cookie -> Command]

SendType ==
  /\ wbuf \in {"req", "data"} /\ wlen \in Nat
  /\ req \in Cookie \cup {NULL}
  /\ in_write_payload \in BOOLEAN /\ in_write_shutdown \in BOOLEAN

RecvType ==
  /\ rbuf \in {"hdr", "payload", "data", "bs_raw", "null"}
  /\ rlen \in Nat /\ payload_left \in Nat
  /\ hdr \in Message
  /\ reply_state \in ResumeStates \cup {"START"}
  /\ reply_cmd \in Cookie \cup {NULL}

NetType ==
  /\ up \in BOOLEAN /\ room \in 0..SockBuf
  /\ inb \in [msg : Message, left : Nat, avail : Nat, fresh : BOOLEAN]
  /\ inb.avail <= inb.left
  /\ rx \in [cookie : Cookie \cup {NULL}, need : Int, ok : BOOLEAN]
  /\ got \subseteq Cookie /\ ans \subseteq Cookie

HistType ==
  /\ calls \in [Cookie -> Nat]
  /\ told \in [Cookie -> {"none", "ok", "failed"}]
  /\ cover \in [Cookie -> [bytes : SUBSET Nat, again : BOOLEAN]]

\* Type correctness.  Beyond the types: no receive asks for a negative number
\* of bytes, however the lengths inside a chunk disagree with its header
\* (payload_left and rlen are unsigned in the code and would wrap), and no
\* more is consumed from the socket than has been delivered.
TypeOK ==
  /\ RunType /\ ListType /\ CmdType /\ SendType /\ RecvType /\ NetType
  /\ HistType

\* A command is on exactly one of the three lists, once, from the moment
\* nbd_internal_command_common queues it until it is retired: the handlers
\* that move it between lists neither lose nor duplicate it.
OneList ==
  /\ \A i, j \in 1..Len(cmds_to_issue) :
       cmds_to_issue[i] = cmds_to_issue[j] => i = j
  /\ \A i, j \in 1..Len(cmds_done) : cmds_done[i] = cmds_done[j] => i = j
  /\ Queued \cap cmds_in_flight = {}
  /\ Live \cap Done = {}
  /\ state # "FREED" =>
       \A c \in 1..(unique - 1) :
         c \in Live \cup Done
         <=> told[c] = "none" /\ (cmd[c].type = "DISC" => c \in Live)

\* The tail pointers of the two queues designate their last elements whenever
\* a command can be appended (lib/rw.c, FINISH_COMMAND).
TailsOK ==
  /\ state \notin {"DEAD", "CLOSED", "FREED"} =>
       cmds_to_issue_tail = IF cmds_to_issue = <<>> THEN NULL
                            ELSE cmds_to_issue[Len(cmds_to_issue)]
  /\ state # "FREED" =>
       cmds_done_tail = IF cmds_done = <<>> THEN NULL
                        ELSE cmds_done[Len(cmds_done)]

\* h->in_flight is length (cmds_to_issue) + length (cmds_in_flight), as
\* lib/internal.h says and nbd_aio_in_flight reports.
InFlightCount ==
  state # "FREED" =>
    in_flight = Len(cmds_to_issue) + Cardinality(cmds_in_flight)

\* What the server reads is a sequence of whole requests, each sent once,
\* however often sending was interrupted by replies.
RequestsWhole == rx.ok

\* Every reply header is read where the server's message starts: the payload
\* of each earlier chunk has been consumed to the last byte, and no more.
HeaderAligned == At("CHECK_REPLY_MAGIC") => hdr.magic # "garbage"

\* A read reported successful has had every byte of its buffer filled,
\* whatever chunks the server sent, unless it sent some byte twice: counting
\* bytes (data_seen, lib/aio.c) is enough to notice the others.
ReadComplete ==
  \A c \in Cookie :
    told[c] = "ok" /\ cmd[c].type = "READ" /\ ~cover[c].again =>
      cover[c].bytes = 0..(cmd[c].count - 1)

\* A completion callback is called exactly once: never while the command is
\* queued or in flight, and once by the time it is done, retired or freed.
CompletionOnce ==
  \A c \in 1..(unique - 1) :
    cmd[c].completion => calls[c] = (IF c \in Live THEN 0 ELSE 1)

\* The same until nbd_close: FINISH_COMMAND and nbd_internal_abort_commands
\* between them call every completion callback once, however a command ends.
CompletionOnceWhileOpen == state # "FREED" => CompletionOnce

\* A half-sent request survives interruption: what is left in wbuf belongs to
\* the command at the head of the queue.  An idle READY handle has nothing left
\* to send, so a command issued now is kicked at once and none is forgotten.
SuspendedRequest ==
  /\ wlen > 0 /\ state \notin {"DEAD", "CLOSED", "FREED"} =>
       cmds_to_issue # <<>> /\ Head(cmds_to_issue) = req
  /\ state = "READY" /\ ~running => cmds_to_issue = <<>> /\ wlen = 0

\* The assert()s of the handlers that send requests and receive replies, and of
\* the calls that queue, abandon and retire commands, hold whenever they are
\* reached.
Asserts == IssueAsserts /\ ReplyAsserts /\ ChunkAsserts /\ ApiAsserts

\* Once a disconnect has been requested, NBD_CMD_DISC is queued or sent and
\* stays so until the connection ends.
DiscNotLost ==
  disconnect_request /\ state \notin {"DEAD", "CLOSED", "FREED"} =>
    \E c \in Live : cmd[c].type = "DISC"

\* Nothing is queued behind NBD_CMD_DISC.
DiscIsLast ==
  \A i \in 1..Len(cmds_to_issue) :
    cmd[cmds_to_issue[i]].type = "DISC" => i = Len(cmds_to_issue)

\* Every command that is issued is eventually completed, whatever becomes of the
\* connection.  The last cookie is only ever a disconnect's.
EveryCommandCompletes ==
  \A c \in Cookie \ {MaxCmds} :
    (c \in Live /\ cmd[c].type # "DISC") ~> (c \notin Live)

\* nbd_shutdown and the synchronous commands return.
SyncCallsReturn == (api.op # "idle") ~> (api.op = "idle")
=============================================================================
