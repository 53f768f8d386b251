------------------------------- MODULE Handle -------------------------------
(***************************************************************************)
(* The state of one struct nbd_handle once it is connected and in          *)
(* transmission (lib/internal.h), the socket under it, and the helpers the *)
(* state handlers share (generator/states.c, generator/states-reply.c).    *)
(*                                                                         *)
(* Lengths are counted in units: a request header is ReqLen units, a       *)
(* simple (or extended) reply header HdrLen, the rest of a structured      *)
(* header RemLen, and every fixed part of a payload one unit.  A short     *)
(* read or write is possible at every unit.                                *)
(***************************************************************************)
EXTENDS Integers, Sequences, FiniteSets

CONSTANTS
  MaxCmds,             \* bound: cookies 1..MaxCmds may be allocated
  Templates,           \* the commands the user may issue
  Shapes,              \* the reply chunks the server may send
  structured_replies,  \* negotiated: structured replies
  extended_headers,    \* negotiated: extended headers
  meta_contexts,       \* negotiated: metadata contexts, none unless meta_valid
  Tls,                 \* the socket is a TLS session (lib/crypto.c)
  Spurious,            \* recv may say EAGAIN although poll said readable
  Faults,              \* the server may go away at any time
  UnknownCookie,       \* headers in which the server may answer a cookie nobody has
  CbRet,               \* what a completion callback may return ("-1": having set
                       \* *error; a failure that sets none acts as "0")
  ShutdownFlags,       \* flags given to nbd_shutdown
  SockBuf              \* units the socket's send buffer holds

VARIABLES
  state, running,      \* h->state, and whether nbd_internal_run is looping
  api,                 \* the synchronous call that holds h->lock, if any
  cmds_to_issue, cmds_to_issue_tail, cmds_in_flight, cmds_done, cmds_done_tail,
  in_flight, unique, disconnect_request,
  cmd,                 \* cookie -> struct command
  wbuf, wlen, req, in_write_payload, in_write_shutdown,
  rbuf, rlen, hdr, reply_state, reply_cmd, payload_left,
  up, inb, room,       \* the socket: peer present, bytes to read, space to write
  rx, got, ans,        \* the server: request being read, read, answered
  calls, told, cover   \* history: completion calls, results, bytes of a read

runVars  == <<state, running, api>>
listVars == <<cmds_to_issue, cmds_to_issue_tail, cmds_in_flight, cmds_done,
              cmds_done_tail, in_flight, unique, disconnect_request>>
sendVars == <<wbuf, wlen, req, in_write_payload, in_write_shutdown>>
recvVars == <<rbuf, rlen, hdr, reply_state, reply_cmd, payload_left>>
netVars  == <<up, inb, room, rx, got, ans>>
histVars == <<calls, told, cover>>
vars == <<runVars, listVars, cmd, sendVars, recvVars, netVars, histVars>>

Cookie == 1..MaxCmds
NULL   == 0
ReqLen == 2
HdrLen == 2
RemLen == 1
MAX_REQUEST_SIZE == 4
NoErr  == "ok"
Errors == {NoErr, "EIO", "EPROTO", "ENOTCONN", "EUSER", "EOVERFLOW"}

CmdTypes == {"READ", "WRITE", "BLOCK_STATUS", "OTHER", "DISC"}

\* What the caller of nbd_aio_* fixes of a command.
Template == [type : CmdTypes, offset : Nat, count : Nat, payload : BOOLEAN,
             completion : BOOLEAN, chunk : BOOLEAN]
Command  == [type : CmdTypes, offset : Nat, count : Nat, payload : BOOLEAN,
             completion : BOOLEAN, chunk : BOOLEAN,
             error : Errors, data_seen : Nat]

MkCommand(t) ==
  [type |-> t.type, offset |-> t.offset, count |-> t.count,
   payload |-> t.payload, completion |-> t.completion, chunk |-> t.chunk,
   error |-> NoErr, data_seen |-> 0]

DiscTemplate ==
  [type |-> "DISC", offset |-> 0, count |-> 0, payload |-> FALSE,
   completion |-> FALSE, chunk |-> FALSE]

ChunkTypes == {"NONE", "OFFSET_DATA", "OFFSET_HOLE", "BLOCK_STATUS",
               "BLOCK_STATUS_EXT", "ERROR", "ERROR_OFFSET", "UNKNOWN"}
Magics == {"simple", "structured", "extended", "garbage"}

\* A reply as the server means it.  length is the payload that follows the
\* header on the wire; span, msglen and known are fields inside the payload
\* (length of a hole, of an error message, whether the metacontext is known).
Message == [magic : Magics, cookie : Cookie \cup {NULL}, type : ChunkTypes,
            done : BOOLEAN, offset : Nat, echo : BOOLEAN, length : Nat,
            span : Nat, msglen : Nat, known : BOOLEAN, error : Errors]

Garbage == [magic |-> "garbage", cookie |-> NULL, type |-> "NONE",
            done |-> FALSE, offset |-> 0, echo |-> TRUE, length |-> 0,
            span |-> 0, msglen |-> 0, known |-> TRUE, error |-> NoErr]

\* Units a message occupies on the wire.
Size(m) == HdrLen + m.length + (IF m.magic = "structured" THEN RemLen ELSE 0)

ASSUME HandleAssumption ==
  /\ MaxCmds \in Nat \ {0}
  /\ SockBuf \in Nat \ {0}
  /\ Templates \subseteq Template
  /\ \A t \in Templates : t.type # "DISC"
  /\ \A t \in Templates : t.type = "BLOCK_STATUS" => t.chunk
  /\ Shapes \subseteq Message
  /\ {structured_replies, extended_headers, Tls, Spurious, Faults} \subseteq BOOLEAN
  /\ UnknownCookie \subseteq {"simple", "structured", "extended"}
  /\ extended_headers => structured_replies
  /\ CbRet \subseteq {"-1", "0", "1"} /\ CbRet # {}
  /\ ShutdownFlags \subseteq {"none", "abandon_pending"}

(***************************************************************************)
(* States.                                                                 *)
(***************************************************************************)
IssueStates == {"ISSUE.START", "SEND_REQUEST", "PAUSE_SEND_REQUEST",
                "PREPARE_WRITE_PAYLOAD", "SEND_WRITE_PAYLOAD",
                "PAUSE_WRITE_PAYLOAD", "SEND_WRITE_SHUTDOWN",
                "PAUSE_WRITE_SHUTDOWN", "ISSUE.FINISH"}
\* The states of the REPLY group that save_reply_state can come back to.
ResumeStates == {"RECV_STRUCTURED_REMAINING", "RECV_READ_PAYLOAD",
                 "RECV_ERROR", "RECV_ERROR_MESSAGE", "RECV_ERROR_TAIL",
                 "RECV_OFFSET_DATA", "RECV_OFFSET_DATA_DATA",
                 "RECV_OFFSET_HOLE", "RECV_BS_HEADER", "RECV_BS_ENTRIES",
                 "RESYNC"}
ReplyStates == ResumeStates \cup
               {"REPLY.START", "RECV_REPLY", "CHECK_REPLY_MAGIC",
                "SIMPLE.START", "CHUNK.START", "CHUNK.FINISH",
                "FINISH_COMMAND"}
States == {"READY", "DEAD", "CLOSED", "FREED"} \cup IssueStates \cup ReplyStates

is_state_ready == state = "READY"
is_state_processing == state \in IssueStates \cup ReplyStates

\* The handler of state s is about to be entered.
At(s) == running /\ state = s

\* SET_NEXT_STATE, SET_NEXT_STATE_AND_BLOCK, and neither.
SET_NEXT_STATE(s) == state' = s /\ running' = TRUE /\ UNCHANGED api
SET_NEXT_STATE_AND_BLOCK(s) == state' = s /\ running' = FALSE /\ UNCHANGED api
Block == SET_NEXT_STATE_AND_BLOCK(state)

(***************************************************************************)
(* Commands.                                                               *)
(***************************************************************************)
Queued == {cmds_to_issue[i] : i \in 1..Len(cmds_to_issue)}
Done   == {cmds_done[i] : i \in 1..Len(cmds_done)}

\* "if (cmd->error == 0) cmd->error = e"
FirstError(c, e) == IF cmd[c].error = NoErr THEN e ELSE cmd[c].error

\* Bytes that follow a request header: the data of a write, or the context
\* list of a filtered block status.
Payload(c) ==
  IF cmd[c].type = "WRITE"
     \/ (extended_headers /\ cmd[c].type = "BLOCK_STATUS" /\ cmd[c].payload)
  THEN cmd[c].count ELSE 0

\* A list is aborted from its head: cmds_to_issue in the order of cookies, then
\* cmds_in_flight, whose head is the command issued last.
AbortOrder(a, b) ==
  IF a \in Queued THEN b \in cmds_in_flight \/ a < b
  ELSE b \in cmds_in_flight /\ a > b

\* nbd_internal_abort_commands on the lists that hold the commands of set A.
\* Every completion callback runs once; what it does not retire goes to the
\* back of cmds_done.
nbd_internal_abort_commands(A) ==
  \E r \in [A -> CbRet] :
    LET retire(c) == cmd[c].type = "DISC" \/ (cmd[c].completion /\ r[c] = "1")
        err(c) == IF cmd[c].completion /\ r[c] = "-1"
                  THEN "EUSER" ELSE FirstError(c, "ENOTCONN")
        kept == {c \in A : ~retire(c)}
    IN  /\ cmd' = [c \in Cookie |->
                     IF c \in A THEN [cmd[c] EXCEPT !.error = err(c)]
                     ELSE cmd[c]]
        /\ \E n \in 0..MaxCmds : \E s \in [1..n -> kept] :
             /\ {s[i] : i \in 1..n} = kept
             /\ \A i, j \in 1..n : i < j => AbortOrder(s[i], s[j])
             /\ cmds_done' = cmds_done \o s
             /\ cmds_done_tail' = IF n = 0 THEN cmds_done_tail ELSE s[n]
        /\ calls' = [c \in Cookie |->
                       IF c \in A /\ cmd[c].completion
                       THEN calls[c] + 1 ELSE calls[c]]
        /\ told' = [c \in Cookie |->
                      IF c \in A \ kept /\ cmd[c].type # "DISC"
                      THEN "failed" ELSE told[c]]

(***************************************************************************)
(* The socket.  recv takes what has been delivered, up to rlen; send takes *)
(* what the send buffer has room for.                                      *)
(***************************************************************************)
Lower(a, b) == IF a < b THEN a ELSE b

\* Take k units from the stream.  The header buffer is filled by the read that
\* starts a header: it is a reply only if that read starts at a message.
Consume(k) ==
  inb' = [inb EXCEPT !.left = @ - k, !.avail = @ - k,
                     !.fresh = @ /\ k = 0]
HeaderRead(len, k) ==
  IF len = HdrLen /\ k > 0
  THEN IF inb.fresh THEN inb.msg ELSE Garbage
  ELSE hdr

\* Orderly end of file, or a reset connection, once the peer is gone.
Eof == ~up /\ inb.avail = 0

\* recv_into_rbuf, case -1: the handle dies.
RecvError ==
  /\ rlen > 0 /\ Eof
  /\ SET_NEXT_STATE("DEAD")
  /\ UNCHANGED <<listVars, cmd, sendVars, recvVars, netVars, histVars>>

\* recv_into_rbuf, case 1: some units, maybe none, but not all of them.
RecvShort == rlen > 0 /\ ~Eof /\ inb.avail < rlen

\* recv_into_rbuf, case 0: the units asked for have arrived.
RecvAll == rlen <= inb.avail

AllOfIt == rlen
\* What a short read leaves to be read.
StillToRead == rlen - inb.avail

\* A plausible slip in what follows: the state machine is left waiting in the
\* receiving state.
SaveAndBlock ==
  /\ RecvShort
  /\ reply_state = "START"
  /\ Consume(inb.avail)
  /\ rlen' = StillToRead
  /\ reply_state' = state
  /\ Block
  /\ UNCHANGED <<listVars, cmd, sendVars, rbuf, hdr, reply_cmd, payload_left,
                 up, room, rx, got, ans, histVars>>

\* The common way out of a receiving state on a short read: save_reply_state
\* and back to READY.
SaveAndReturn ==
  /\ RecvShort
  /\ reply_state = "START"
  /\ Consume(inb.avail)
  /\ rlen' = StillToRead
  /\ reply_state' = state
  /\ SET_NEXT_STATE("READY")
  /\ UNCHANGED <<listVars, cmd, sendVars, rbuf, hdr, reply_cmd, payload_left,
                 up, room, rx, got, ans, histVars>>

\* Does the server see the next units of the client's stream as what they are:
\* the start of a request, or the continuation of the one it is reading?
InStep ==
  \/ rx.need = 0 /\ wbuf = "req" /\ wlen = ReqLen
  \/ /\ rx.need > 0 /\ rx.cookie = req
     /\ rx.need = wlen + (IF wbuf = "req" THEN Payload(req) ELSE 0)

\* k units of wbuf reach the server, which counts what the request still
\* lacks and takes a whole request.
Arrive(k) ==
  LET need == IF rx.need = 0 THEN ReqLen + Payload(req) ELSE rx.need
  IN  IF k = 0 \/ ~up THEN UNCHANGED <<rx, got>>
      ELSE /\ rx' = [cookie |-> req, need |-> need - k,
                     ok |-> rx.ok /\ InStep /\ req \notin got]
           /\ got' = IF need = k THEN got \cup {req} ELSE got

\* send_from_wbuf, cases 0 and 1: as many units as fit.  A socket whose peer
\* is gone may still take some before it reports an error.
SendSome ==
  LET k == Lower(wlen, room)
  IN  /\ up \/ room > 0 \/ wlen = 0
      /\ wlen' = wlen - k
      /\ room' = room - k
      /\ Arrive(k)
      /\ UNCHANGED <<wbuf, req, in_write_payload, in_write_shutdown,
                     up, inb, ans>>

\* send_from_wbuf, case -1: the peer is gone.
SendError ==
  /\ wlen > 0 /\ ~up
  /\ SET_NEXT_STATE("DEAD")
  /\ UNCHANGED <<listVars, cmd, sendVars, recvVars, netVars, histVars>>
=============================================================================
