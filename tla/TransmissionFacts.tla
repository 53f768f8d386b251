------------------------- MODULE TransmissionFacts --------------------------
(***************************************************************************)
(* Facts about Transmission that several of its proofs share, for every    *)
(* value of the constants.  The first part defines the inductive           *)
(* invariants: TypeInv (types), ListInv (the three lists of a handle),     *)
(* SendInv (what is being sent), EndInv (tails, counts and order), RecvInv *)
(* and AwakeInv (what is being received).  The second part has what the    *)
(* handlers do to the variables these are about: which of them a step      *)
(* leaves alone, and how it moves commands between the lists.              *)
(***************************************************************************)
EXTENDS Transmission, TLAPS

\* A step is tried with Zenon for three seconds, then with the solver.
USE ZenonT(3), SMTT(30), SMTT(60)

(***************************************************************************)
(* Types.                                                                  *)
(***************************************************************************)

\* The cookie kept for NBD_CMD_DISC is still there until it is asked for.
CookieLeft == disconnect_request \/ unique <= MaxCmds

\* What is being sent belongs to a command.
SendingOne == wlen > 0 => req # NULL

TypeInv == TypeOK /\ CookieLeft /\ SendingOne

(***************************************************************************)
(* The lists.  Beside the properties themselves ListInv says that only     *)
(* issued cookies are on the lists, that a cookie not yet issued has no    *)
(* history, and that h->disconnect_request is set before NBD_CMD_DISC is   *)
(* queued.                                                                 *)
(***************************************************************************)

Issued == 1..(unique - 1)

OnlyIssued == Live \cup Done \subseteq Issued

NoHistory == \A c \in Cookie : c >= unique => told[c] = "none" /\ calls[c] = 0

DiscAsked == \A c \in Issued : cmd[c].type = "DISC" => disconnect_request

ListInv ==
  /\ OneList /\ CompletionOnceWhileOpen /\ DiscIsLast
  /\ OnlyIssued /\ NoHistory /\ DiscAsked

(***************************************************************************)
(* Sequences without repetition, and what a step may do to a command.      *)
(***************************************************************************)

Rng(s) == {s[i] : i \in 1..Len(s)}

Inj(s) == \A i, j \in 1..Len(s) : s[i] = s[j] => i = j

\* The fields that say what a command is do not change.
SameCommands ==
  \A c \in Cookie : /\ cmd'[c].type = cmd[c].type
                    /\ cmd'[c].offset = cmd[c].offset
                    /\ cmd'[c].count = cmd[c].count
                    /\ cmd'[c].payload = cmd[c].payload
                    /\ cmd'[c].completion = cmd[c].completion
                    /\ cmd'[c].chunk = cmd[c].chunk

(***************************************************************************)
(* Sending: what h->wbuf holds, and what the server has read.              *)
(***************************************************************************)

Stopped == state \in {"DEAD", "CLOSED", "FREED"}

\* The states in which the head of the queue is being sent.
SendStates == IssueStates \ {"ISSUE.START"}

HeadIsReq == cmds_to_issue # <<>> /\ Head(cmds_to_issue) = req

\* A request in h->wbuf is that of the head of the queue.
BufferIsHead == state \in SendStates \/ wlen > 0 => HeadIsReq

\* There is something to issue when issuing starts, and nothing when the
\* handle is idle.
QueueSeen ==
  /\ state = "ISSUE.START" => cmds_to_issue # <<>>
  /\ state = "READY" /\ ~running => cmds_to_issue = <<>>

\* What wbuf holds in each state, and when a suspended send is resumed.
BufferHolds ==
  /\ state \in {"SEND_REQUEST", "PAUSE_SEND_REQUEST"} => wbuf = "req" /\ wlen > 0
  /\ state \in {"SEND_WRITE_PAYLOAD", "PAUSE_WRITE_PAYLOAD"} => wbuf = "data"
  /\ state = "PAUSE_WRITE_PAYLOAD" => wlen > 0
  /\ state = "SEND_WRITE_PAYLOAD" /\ ~running => wlen > 0
  /\ state \in {"PREPARE_WRITE_PAYLOAD", "SEND_WRITE_SHUTDOWN",
                "PAUSE_WRITE_SHUTDOWN"} => wbuf = "req" /\ wlen = 0
  /\ state = "ISSUE.FINISH" => wlen = 0
  /\ state \notin SendStates /\ wlen > 0 => (in_write_payload <=> wbuf = "data")

\* After the header of NBD_CMD_DISC, only that command is left to send; a
\* plain socket takes the shutdown at once, and there is nothing after it.
ShutdownLast ==
  /\ state \in {"SEND_WRITE_SHUTDOWN", "PAUSE_WRITE_SHUTDOWN"}
       => in_write_shutdown
  /\ in_write_shutdown =>
       /\ disconnect_request
       /\ cmds_to_issue # <<>> => HeadIsReq /\ cmd[req].type = "DISC"
  /\ ~Tls =>
       /\ in_write_shutdown =>
            \/ state \in {"SEND_WRITE_SHUTDOWN", "ISSUE.FINISH"}
            \/ cmds_to_issue = <<>>
       /\ state = "SEND_WRITE_SHUTDOWN" => running
       /\ state # "PAUSE_WRITE_SHUTDOWN"

SendControl ==
  Stopped \/ (BufferIsHead /\ QueueSeen /\ BufferHolds /\ ShutdownLast)

\* Units of the request in wbuf that the server still lacks.
Outstanding == wlen + (IF wbuf = "req" THEN Payload(req) ELSE 0)

\* All of the queued command c has been sent.
AllSent(c) ==
  /\ c = req
  /\ \/ cmd[c].type = "DISC" /\ in_write_shutdown
     \/ wlen = 0 /\ state \in {"SEND_WRITE_PAYLOAD", "ISSUE.FINISH"}
     \/ wlen = 0 /\ state = "PREPARE_WRITE_PAYLOAD" /\ Payload(c) = 0

\* The server has no queued command but one that has just been sent.
GotSent ==
  /\ got \subseteq Issued
  /\ Stopped \/ \A c \in got \cap Queued : AllSent(c)

\* The server is between two requests, or lacks just what is still to be sent
\* of the one in wbuf.
StreamInStep ==
  Stopped \/ ~up \/ in_write_shutdown
  \/ /\ rx.need = 0
     /\ wlen > 0 => wbuf = "req" /\ wlen = ReqLen
     /\ state = "PREPARE_WRITE_PAYLOAD" => Payload(req) = 0
  \/ /\ rx.need > 0 /\ rx.cookie = req /\ rx.need = Outstanding
     /\ wlen > 0 \/ state = "PREPARE_WRITE_PAYLOAD"

\* Requests arrive whole and once; over TLS, up to that of NBD_CMD_DISC, which
\* may be sent again.
WholeUpToDisc == RequestsWhole \/ (Tls /\ in_write_shutdown)

WireInv == GotSent /\ StreamInStep /\ WholeUpToDisc

SendInv == SendControl /\ WireInv

\* What the handlers of the REPLY group leave alone: everything that has to do
\* with sending.  They go on to another state of the group, to READY, or to the
\* end of the connection, and wait only where a reply starts.
ReplyKeeps ==
  /\ running /\ state \in ReplyStates
  /\ UNCHANGED <<api, sendVars, up, room, rx, got, ans, cmds_to_issue,
                 cmds_to_issue_tail, unique, disconnect_request>>
  /\ SameCommands
  /\ state' \in ReplyStates \cup {"READY", "DEAD", "CLOSED"}
  /\ running' \in BOOLEAN /\ (~running' => state' = "REPLY.START")

(***************************************************************************)
(* The ends, the count and the order of the lists.                         *)
(***************************************************************************)

\* nbd_close frees what is left on the lists.
FreedEmpty == state = "FREED" => cmds_to_issue = <<>> /\ cmds_done = <<>>

\* Every command queued or in flight is counted.  Those nbd_shutdown abandons
\* are not taken off the count.
Counted ==
  state # "FREED" =>
    LET n == Len(cmds_to_issue) + Cardinality(cmds_in_flight)
    IN  in_flight >= n /\ ("abandon_pending" \notin ShutdownFlags => in_flight = n)

\* Requests are sent in the order of their cookies.
QueueOrder ==
  \A i, j \in 1..Len(cmds_to_issue) :
    i < j => cmds_to_issue[i] < cmds_to_issue[j]

EndInv == TailsOK /\ FreedEmpty /\ Counted /\ QueueOrder

(***************************************************************************)
(* What a step may do to the lists.                                        *)
(***************************************************************************)

\* The lists stay as they are, and so does what is known of the connection:
\* a dead or closed handle has its socket until its commands are aborted.
KeepLists ==
  /\ UNCHANGED listVars
  /\ (HasSocket' <=> HasSocket) /\ (Stopped => Stopped')
  /\ (state' = "FREED" <=> state = "FREED")

\* nbd_internal_command_common appends a command with the next cookie.
QueueOne ==
  /\ ~Stopped /\ ~Stopped' /\ unique <= MaxCmds
  /\ cmds_to_issue' = Append(cmds_to_issue, unique)
  /\ cmds_to_issue_tail' = unique /\ unique' = unique + 1
  /\ in_flight' = in_flight + 1
  /\ UNCHANGED <<cmds_in_flight, cmds_done, cmds_done_tail>>

\* ISSUE_COMMAND.FINISH moves the head of the queue.
SendOne ==
  /\ ~Stopped /\ ~Stopped' /\ cmds_to_issue # <<>>
  /\ LET c == Head(cmds_to_issue)
     IN  /\ cmds_in_flight' = cmds_in_flight \cup {c}
         /\ cmds_to_issue_tail' = IF cmds_to_issue_tail = c THEN NULL
                                  ELSE cmds_to_issue_tail
  /\ cmds_to_issue' = Tail(cmds_to_issue)
  /\ UNCHANGED <<cmds_done, cmds_done_tail, in_flight, unique>>

\* FINISH_COMMAND retires a command or appends it to cmds_done.
FinishOne(c) ==
  /\ ~Stopped /\ ~Stopped' /\ c \in cmds_in_flight
  /\ cmds_in_flight' = cmds_in_flight \ {c}
  /\ in_flight' = in_flight - 1
  /\ \/ UNCHANGED <<cmds_done, cmds_done_tail>>
     \/ cmds_done' = Append(cmds_done, c) /\ cmds_done_tail' = c
  /\ UNCHANGED <<cmds_to_issue, cmds_to_issue_tail, unique>>

\* DEAD and CLOSED abort every command.
EndAll ==
  /\ state \in {"DEAD", "CLOSED"} /\ running /\ UNCHANGED state /\ ~running'
  /\ nbd_internal_abort_commands(Live)
  /\ cmds_to_issue' = <<>> /\ cmds_in_flight' = {} /\ in_flight' = 0
  /\ UNCHANGED unique

\* nbd_shutdown abandons the queue, except for the command being sent.
AbandonSome ==
  /\ ~Stopped /\ "abandon_pending" \in ShutdownFlags
  /\ UNCHANGED <<state, running>> /\ ~running
  /\ is_state_ready \/ cmds_to_issue # <<>>
  /\ nbd_internal_abort_commands(Abandoned)
  /\ cmds_to_issue' = KeptQueue
  /\ cmds_to_issue_tail' = IF is_state_ready THEN cmds_to_issue_tail
                           ELSE Head(cmds_to_issue)
  /\ UNCHANGED <<cmds_in_flight, in_flight, unique>>

\* nbd_aio_command_completed unlinks the i-th command of cmds_done.
RetireOne(i) ==
  /\ UNCHANGED <<state, running>>
  /\ cmds_done' = [j \in 1..(Len(cmds_done) - 1) |->
                     IF j < i THEN cmds_done[j] ELSE cmds_done[j + 1]]
  /\ cmds_done_tail' = IF cmds_done_tail # cmds_done[i] THEN cmds_done_tail
                       ELSE Previous(i)
  /\ UNCHANGED <<cmds_to_issue, cmds_to_issue_tail, cmds_in_flight, in_flight,
                 unique>>

\* nbd_close frees everything.
FreeAll ==
  /\ state' = "FREED"
  /\ cmds_to_issue' = <<>> /\ cmds_in_flight' = {} /\ cmds_done' = <<>>
  /\ UNCHANGED unique

ListStep ==
  \/ KeepLists \/ QueueOne \/ SendOne \/ EndAll \/ AbandonSome \/ FreeAll
  \/ \E c \in Cookie : FinishOne(c)
  \/ \E i \in 1..Len(cmds_done) : RetireOne(i)

\* Between nbd_shutdown's two halves nothing else runs: the handle is still
\* connected when NBD_CMD_DISC is queued.
DiscWaits == api.op = "disc" => ~running /\ Connected

(***************************************************************************)
(* Receiving: what holds while a reply is read, in one go or in many.      *)
(***************************************************************************)

\* The states inside a reply.
Inner == ReplyStates \ {"REPLY.START"}

\* Where the reply is: the state that reads it now, or would if the rest of it
\* arrived; "NONE" between two replies.
Phase ==
  IF state \in Inner THEN state
  ELSE IF rlen = 0 THEN "NONE"
  ELSE IF reply_state = "START" THEN "RECV_REPLY" ELSE reply_state

\* No command has been looked up yet.
Unattached == {"NONE", "RECV_REPLY", "CHECK_REPLY_MAGIC"}

\* States whose handlers receive nothing.
NoReceive == {"CHECK_REPLY_MAGIC", "SIMPLE.START", "CHUNK.START",
              "CHUNK.FINISH", "FINISH_COMMAND"}

\* Part of the payload is still to be asked for.
MoreToCome == {"RECV_ERROR", "RECV_ERROR_MESSAGE", "RECV_OFFSET_DATA",
               "RECV_OFFSET_DATA_DATA", "RECV_BS_HEADER"}

WithCommand == {"RECV_READ_PAYLOAD", "RECV_ERROR", "RECV_ERROR_MESSAGE",
                "RECV_ERROR_TAIL", "RECV_OFFSET_DATA", "RECV_OFFSET_DATA_DATA",
                "RECV_OFFSET_HOLE", "RECV_BS_HEADER", "RECV_BS_ENTRIES"}

\* A reply is suspended only with something left to read, and is not while it
\* is being read.
ResumeOK ==
  /\ state \in Inner \/ rlen = 0 => reply_state = "START"
  /\ state \in NoReceive => rlen = 0

\* The command of a reply is the one in flight with its cookie, and was so
\* already when the header was read: it was not in the queue.
Attached ==
  IF Phase \in Unattached THEN reply_cmd = NULL
  ELSE reply_cmd = Lookup(hdr.cookie) /\ hdr.cookie \notin Queued

\* What holds in phase p.
Needs(p) ==
  /\ p \in WithCommand => reply_cmd # NULL
  /\ p \in {"RECV_OFFSET_DATA", "RECV_OFFSET_HOLE"}
       => cmd[reply_cmd].type = "READ"
  /\ p \in {"RECV_BS_HEADER", "RECV_BS_ENTRIES"}
       => cmd[reply_cmd].type = "BLOCK_STATUS" /\ meta_contexts # {}
  /\ p = "RECV_ERROR" => payload_left >= ErrCode
  /\ p = "RECV_BS_HEADER"
       => bs_reply_length_ok(payload_left) /\ hdr.length = payload_left
  /\ p = "RECV_BS_ENTRIES" => hdr.length >= BsHdr + BsExtent
  /\ p = "RESYNC" => rbuf = "null"
  /\ p \notin MoreToCome => payload_left = 0

InReply == Stopped \/ (ResumeOK /\ Attached /\ Needs(Phase))

\* The server answers only what it has read, and never NBD_CMD_DISC.
KnownCookie(c) == c = NULL \/ (c \in got /\ cmd[c].type # "DISC")

CookiesKnown == KnownCookie(hdr.cookie) /\ KnownCookie(inb.msg.cookie)

\* A block status has an extent callback.
ExtentCallbacks ==
  \A c \in Issued : cmd[c].type = "BLOCK_STATUS" => cmd[c].chunk

RecvInv == InReply /\ CookiesKnown /\ ExtentCallbacks

\* What the caller fixed of the commands issued so far.
Fixed ==
  /\ Issued \subseteq Issued'
  /\ \A c \in Issued : /\ cmd'[c].type = cmd[c].type
                       /\ cmd'[c].offset = cmd[c].offset
                       /\ cmd'[c].count = cmd[c].count
                       /\ cmd'[c].chunk = cmd[c].chunk

\* The calls leave a reply that is suspended as it is.
Outside ==
  /\ UNCHANGED <<recvVars, cmds_in_flight, up, inb, got, ans>>
  /\ state' = state \/ (state \notin Inner /\ state' \notin Inner)

(***************************************************************************)
(* Where the state machine waits.                                          *)
(***************************************************************************)

ReadStates == {"REPLY.START", "PAUSE_SEND_REQUEST", "PAUSE_WRITE_PAYLOAD",
               "PAUSE_WRITE_SHUTDOWN"}

\* The state machine gives control back to its caller only here.
WaitStates == {"READY", "SEND_REQUEST", "SEND_WRITE_PAYLOAD",
               "SEND_WRITE_SHUTDOWN", "REPLY.START"}

WaitsInPlace == running \/ Stopped \/ state \in WaitStates

\* Where every readable socket has data or its end to read, REPLY.START reads
\* at once and never waits.
ReadAwake ==
  ~Spurious => /\ running /\ state \in ReadStates => inb.avail > 0 \/ Eof
               /\ state = "REPLY.START" => running

AwakeInv == WaitsInPlace /\ ReadAwake

(***************************************************************************)
(* Sequences and sets of cookies.                                          *)
(***************************************************************************)

\* A function on 1..n is a sequence.
LEMMA FunctionIsSeq ==
  ASSUME NEW S, NEW n \in Nat, NEW f \in [1..n -> S]
  PROVE  f \in Seq(S)
  OBVIOUS

\* Removing one element from a sequence, as cmds_done is unlinked.
LEMMA RemoveAtType ==
  ASSUME NEW S, NEW s \in Seq(S), NEW i \in 1..Len(s)
  PROVE  [j \in 1..(Len(s) - 1) |-> IF j < i THEN s[j] ELSE s[j + 1]]
           \in Seq(S)
<1>1. Len(s) - 1 \in Nat
  OBVIOUS
<1>2. \A j \in 1..(Len(s) - 1) :
         (IF j < i THEN s[j] ELSE s[j + 1]) \in S
  OBVIOUS
<1>. QED  BY <1>1, <1>2, FunctionIsSeq

\* No cookie is NULL.
LEMMA NotNull == \A c \in Cookie : c # NULL
BY DEF Cookie, NULL

\* NBD_CMD_DISC is a command like the others.
LEMMA DiscTemplateType == DiscTemplate \in Template
BY DEF DiscTemplate, Template, CmdTypes

\* Appending a new element.
LEMMA AppendInj ==
  ASSUME NEW S, NEW s \in Seq(S), NEW e \in S, Inj(s), e \notin Rng(s)
  PROVE  Inj(Append(s, e)) /\ Rng(Append(s, e)) = Rng(s) \cup {e}
<1>1. /\ Len(Append(s, e)) = Len(s) + 1 /\ Len(s) \in Nat
      /\ Append(s, e)[Len(s) + 1] = e
      /\ \A i \in 1..Len(s) : Append(s, e)[i] = s[i]
  OBVIOUS
<1>2. \A i \in 1..(Len(s) + 1) : i \in 1..Len(s) \/ i = Len(s) + 1
  BY <1>1
<1>3. Inj(Append(s, e))
  BY <1>1, <1>2 DEF Inj, Rng
<1>4. Rng(Append(s, e)) = Rng(s) \cup {e}
  BY <1>1, <1>2, SMTT(60) DEF Rng
<1>. QED  BY <1>3, <1>4

\* Taking the head off.
LEMMA TailInj ==
  ASSUME NEW S, NEW s \in Seq(S), s # <<>>, Inj(s)
  PROVE  /\ Inj(Tail(s)) /\ Rng(Tail(s)) = Rng(s) \ {Head(s)}
         /\ Head(s) \in Rng(s)
<1>1. /\ Len(s) \in Nat /\ Len(s) > 0 /\ Len(Tail(s)) = Len(s) - 1
      /\ Head(s) = s[1]
      /\ \A i \in 1..(Len(s) - 1) : Tail(s)[i] = s[i + 1]
  OBVIOUS
<1>2. Inj(Tail(s))
  BY <1>1, SMTT(60) DEF Inj
<1>3. \A x \in Rng(Tail(s)) : x \in Rng(s) /\ x # s[1]
  BY <1>1, SMTT(60) DEF Rng, Inj
<1>4. \A x \in Rng(s) : x # s[1] => x \in Rng(Tail(s))
  <2>. TAKE x \in Rng(s)
  <2>1. PICK i \in 1..Len(s) : x = s[i]
    BY DEF Rng
  <2>2. CASE i = 1
    BY <2>1, <2>2
  <2>3. CASE i # 1
    <3>1. i - 1 \in 1..(Len(s) - 1) /\ Tail(s)[i - 1] = s[i]
      BY <1>1, <2>3, SMTT(60)
    <3>. QED  BY <1>1, <2>1, <3>1, Zenon DEF Rng
  <2>. QED  BY <2>2, <2>3
<1>5. Head(s) \in Rng(s)
  BY <1>1, SMTT(60) DEF Rng
<1>. QED  BY <1>1, <1>2, <1>3, <1>4, <1>5

\* Unlinking the i-th element, as nbd_unlocked_aio_command_completed does.
LEMMA RemoveInj ==
  ASSUME NEW S, NEW s \in Seq(S), NEW i \in 1..Len(s), Inj(s), NEW t,
         t = [j \in 1..(Len(s) - 1) |-> IF j < i THEN s[j] ELSE s[j + 1]]
  PROVE  Inj(t) /\ Rng(t) = Rng(s) \ {s[i]}
<1>1. Len(s) \in Nat /\ t \in Seq(S)
  BY RemoveAtType
<1>2. Len(t) = Len(s) - 1
  BY <1>1
<1>3. \A j \in 1..Len(t) : t[j] = IF j < i THEN s[j] ELSE s[j + 1]
  BY <1>2
<1>4. Inj(t)
  <2>. SUFFICES ASSUME NEW a \in 1..Len(t), NEW b \in 1..Len(t), t[a] = t[b]
                PROVE  a = b
    BY DEF Inj
  <2>. DEFINE From(j) == IF j < i THEN j ELSE j + 1
  <2>1. \A j \in 1..Len(t) : From(j) \in 1..Len(s) /\ t[j] = s[From(j)]
    BY <1>1, <1>2, <1>3, SMTT(60)
  <2>2. From(a) = From(b)
    BY <2>1, SMTT(60) DEF Inj
  <2>. QED  BY <2>2
<1>5. \A x \in Rng(t) : x \in Rng(s) /\ x # s[i]
  BY <1>1, <1>2, <1>3, SMTT(60) DEF Rng, Inj
<1>6. \A x \in Rng(s) : x # s[i] => x \in Rng(t)
  <2>. SUFFICES ASSUME NEW k \in 1..Len(s), s[k] # s[i] PROVE s[k] \in Rng(t)
    BY Zenon DEF Rng
  <2>1. CASE k < i
    <3>1. k \in 1..Len(t) /\ t[k] = s[k]
      BY <1>1, <1>2, <1>3, <2>1
    <3>. QED  BY <3>1, Zenon DEF Rng
  <2>2. CASE k > i
    <3>1. k - 1 \in 1..Len(t) /\ t[k - 1] = s[k]
      BY <1>1, <1>2, <1>3, <2>2
    <3>. QED  BY <3>1 DEF Rng
  <2>. QED  BY <2>1, <2>2
<1>. QED  BY <1>4, <1>5, <1>6

\* Joining two sequences that have nothing in common.
LEMMA ConcatInj ==
  ASSUME NEW S, NEW s \in Seq(S), NEW t \in Seq(S), Inj(s), Inj(t),
         Rng(s) \cap Rng(t) = {}
  PROVE  Inj(s \o t) /\ Rng(s \o t) = Rng(s) \cup Rng(t)
<1>1. /\ Len(s) \in Nat /\ Len(t) \in Nat /\ Len(s \o t) = Len(s) + Len(t)
      /\ \A i \in 1..Len(s) : (s \o t)[i] = s[i]
      /\ \A i \in 1..Len(t) : (s \o t)[Len(s) + i] = t[i]
  OBVIOUS
<1>2. \A i \in 1..(Len(s) + Len(t)) :
        \/ i \in 1..Len(s) /\ (s \o t)[i] = s[i]
        \/ i - Len(s) \in 1..Len(t) /\ (s \o t)[i] = t[i - Len(s)]
  BY <1>1, SMTT(60)
<1>3. Inj(s \o t)
  <2>. SUFFICES ASSUME NEW i \in 1..(Len(s) + Len(t)),
                       NEW j \in 1..(Len(s) + Len(t)),
                       (s \o t)[i] = (s \o t)[j]
                PROVE  i = j
    BY <1>1 DEF Inj
  <2>1. \A x, y : x \in Rng(s) /\ y \in Rng(t) => x # y
    OBVIOUS
  <2>2. \A k \in 1..Len(s) : s[k] \in Rng(s)
    BY DEF Rng
  <2>3. \A k \in 1..Len(t) : t[k] \in Rng(t)
    BY DEF Rng
  <2>4. CASE i \in 1..Len(s) /\ j \in 1..Len(s)
    BY <1>1, <2>4 DEF Inj
  <2>5. CASE i \notin 1..Len(s) /\ j \notin 1..Len(s)
    <3>1. /\ i - Len(s) \in 1..Len(t) /\ j - Len(s) \in 1..Len(t)
          /\ t[i - Len(s)] = t[j - Len(s)]
      BY <1>2, <2>5
    <3>2. i - Len(s) = j - Len(s)
      BY <3>1 DEF Inj
    <3>. QED  BY <1>1, <3>2
  <2>6. CASE i \in 1..Len(s) /\ j \notin 1..Len(s)
    BY <1>1, <1>2, <2>1, <2>2, <2>3, <2>6
  <2>7. CASE i \notin 1..Len(s) /\ j \in 1..Len(s)
    BY <1>1, <1>2, <2>1, <2>2, <2>3, <2>7
  <2>. QED  BY <2>4, <2>5, <2>6, <2>7
<1>4. \A x \in Rng(s \o t) : x \in Rng(s) \cup Rng(t)
  BY <1>1, <1>2, SMTT(60) DEF Rng
<1>5. \A x \in Rng(s) \cup Rng(t) : x \in Rng(s \o t)
  <2>1. \A i \in 1..Len(s) : i \in 1..Len(s \o t)
    BY <1>1
  <2>2. \A i \in 1..Len(t) : Len(s) + i \in 1..Len(s \o t)
    BY <1>1
  <2>. QED  BY <1>1, <2>1, <2>2, SMTT(60) DEF Rng
<1>. QED  BY <1>3, <1>4, <1>5

(***************************************************************************)
(* The lists.                                                              *)
(***************************************************************************)

\* Handlers set the error of a command, or count its bytes.
LEMMA FieldsSet ==
  ASSUME CmdType, NEW c, NEW e, NEW n,
         \/ cmd' = cmd
         \/ cmd' = [cmd EXCEPT ![c].error = e]
         \/ cmd' = [cmd EXCEPT ![c].data_seen = n]
         \/ cmd' = [cmd EXCEPT ![c].error = e, ![c].data_seen = n]
  PROVE  SameCommands
<1>1. CASE cmd' = [cmd EXCEPT ![c].error = e]
  BY <1>1, SMTT(60) DEF SameCommands, CmdType, Command
<1>2. CASE cmd' = [cmd EXCEPT ![c].data_seen = n]
  BY <1>2, SMTT(60) DEF SameCommands, CmdType, Command
<1>3. CASE cmd' = [cmd EXCEPT ![c].error = e, ![c].data_seen = n]
  BY <1>3, SMTT(60) DEF SameCommands, CmdType, Command
<1>. QED  BY <1>1, <1>2, <1>3 DEF SameCommands

\* nbd_internal_abort_commands appends each command it does not retire once.
LEMMA AbortLists ==
  ASSUME TypeInv, ListInv, NEW A \in SUBSET Live,
         nbd_internal_abort_commands(A)
  PROVE  \E K \in SUBSET A :
           /\ SameCommands
           /\ Inj(cmds_done') /\ Done' = Done \cup K
           /\ \A c \in K : cmd[c].type # "DISC"
           /\ \A c \in Cookie :
                /\ told'[c] = "none"
                     <=> told[c] = "none"
                         /\ ~(c \in A \ K /\ cmd[c].type # "DISC")
                /\ calls'[c] = IF c \in A /\ cmd[c].completion
                               THEN calls[c] + 1 ELSE calls[c]
<1>. USE DEF TypeInv, TypeOK
<1>1. PICK r \in [A -> CbRet] :
        LET retire(c) == \/ cmd[c].type = "DISC"
                         \/ cmd[c].completion /\ r[c] = "1"
            kept == {c \in A : ~retire(c)}
        IN  /\ \E n \in 0..MaxCmds : \E s \in [1..n -> kept] :
                 /\ {s[i] : i \in 1..n} = kept
                 /\ \A i, j \in 1..n : i < j => AbortOrder(s[i], s[j])
                 /\ cmds_done' = cmds_done \o s
            /\ told' = [c \in Cookie |->
                          IF c \in A \ kept /\ cmd[c].type # "DISC"
                          THEN "failed" ELSE told[c]]
  BY ZenonT(60) DEF nbd_internal_abort_commands
<1>. DEFINE K == {c \in A : ~(\/ cmd[c].type = "DISC"
                              \/ cmd[c].completion /\ r[c] = "1")}
<1>0. PICK n \in 0..MaxCmds : \E s \in [1..n -> K] :
        /\ {s[i] : i \in 1..n} = K
        /\ \A i, j \in 1..n : i < j => AbortOrder(s[i], s[j])
        /\ cmds_done' = cmds_done \o s
  BY <1>1, Zenon
<1>2. PICK s \in [1..n -> K] :
        /\ {s[i] : i \in 1..n} = K
        /\ \A i, j \in 1..n : i < j => AbortOrder(s[i], s[j])
        /\ cmds_done' = cmds_done \o s
  BY <1>0, Zenon
<1>3. /\ K \in SUBSET A /\ \A c \in K : cmd[c].type # "DISC"
      /\ told' = [c \in Cookie |->
                    IF c \in A \ K /\ cmd[c].type # "DISC"
                    THEN "failed" ELSE told[c]]
  BY <1>1
<1>. HIDE DEF K
<1>4. Live \subseteq Cookie
  BY SMTT(60) DEF Live, Queued, ListType
<1>5. n \in Nat
  BY <1>2, SMTT(60)
<1>6. s \in Seq(Cookie) /\ Len(s) = n
  BY <1>3, <1>4, <1>5, FunctionIsSeq
<1>7. Inj(s)
  <2>1. \A a \in K : ~AbortOrder(a, a)
    BY <1>3, <1>4, SMTT(60) DEF AbortOrder, Cookie, ListInv, OneList
  <2>2. \A i, j \in 1..Len(s) : i < j => s[i] # s[j]
    BY <1>2, <1>6, <2>1
  <2>. QED  BY <1>5, <1>6, <2>2, SMTT(60) DEF Inj
<1>8. Rng(s) = K
  BY <1>2, <1>6, Zenon DEF Rng
<1>9. Inj(cmds_done') /\ Done' = Done \cup K
  <2>1. cmds_done \in Seq(Cookie) /\ Inj(cmds_done) /\ Rng(cmds_done) = Done
    BY DEF ListType, ListInv, OneList, Inj, Rng, Done
  <2>2. Rng(cmds_done) \cap Rng(s) = {}
    BY <1>3, <1>8, <2>1 DEF ListInv, OneList
  <2>3. Done' = Rng(cmds_done')
    BY DEF Done, Rng
  <2>. QED  BY <1>2, <1>6, <1>7, <1>8, <2>1, <2>2, <2>3, ConcatInj, SMTT(60)
<1>10. SameCommands
  <2>1. PICK q \in [A -> CbRet] :
          cmd' = [c \in Cookie |->
                    IF c \in A
                    THEN [cmd[c] EXCEPT !.error =
                            IF cmd[c].completion /\ q[c] = "-1"
                            THEN "EUSER" ELSE FirstError(c, "ENOTCONN")]
                    ELSE cmd[c]]
    BY Zenon DEF nbd_internal_abort_commands
  <2>2. ASSUME NEW d \in Command, NEW e
        PROVE  LET f == [d EXCEPT !.error = e]
               IN  /\ f.type = d.type /\ f.offset = d.offset
                   /\ f.count = d.count /\ f.payload = d.payload
                   /\ f.completion = d.completion /\ f.chunk = d.chunk
    BY DEF Command
  <2>3. ASSUME NEW c \in Cookie
        PROVE  /\ cmd'[c].type = cmd[c].type /\ cmd'[c].offset = cmd[c].offset
               /\ cmd'[c].count = cmd[c].count
               /\ cmd'[c].payload = cmd[c].payload
               /\ cmd'[c].completion = cmd[c].completion
               /\ cmd'[c].chunk = cmd[c].chunk
    <3>1. cmd[c] \in Command
      BY DEF CmdType
    <3>2. CASE c \in A
      <4>1. PICK e : cmd'[c] = [cmd[c] EXCEPT !.error = e]
        BY <2>1, <3>2, Zenon
      <4>. QED  BY <2>2, <3>1, <4>1, SMTT(60)
    <3>3. CASE c \notin A
      BY <2>1, <3>3
    <3>. QED  BY <3>2, <3>3
  <2>. QED  BY <2>3 DEF SameCommands
<1>11. calls' = [c \in Cookie |->
                   IF c \in A /\ cmd[c].completion
                   THEN calls[c] + 1 ELSE calls[c]]
  BY DEF nbd_internal_abort_commands
<1>. QED  BY <1>3, <1>9, <1>10, <1>11, Zenon

\* The sets and sequences ListInv is about, from their definitions.
LEMMA ListFacts ==
  ASSUME TypeInv, ListInv
  PROVE  /\ cmds_to_issue \in Seq(Cookie) /\ cmds_done \in Seq(Cookie)
         /\ Inj(cmds_to_issue) /\ Inj(cmds_done)
         /\ Queued = Rng(cmds_to_issue) /\ Done = Rng(cmds_done)
         /\ Queued' = Rng(cmds_to_issue') /\ Done' = Rng(cmds_done')
         /\ Live = Queued \cup cmds_in_flight
         /\ Live' = Queued' \cup cmds_in_flight'
         /\ Queued \cap cmds_in_flight = {} /\ Live \cap Done = {}
         /\ Live \subseteq Issued /\ Done \subseteq Issued
         /\ Issued \subseteq Cookie /\ unique \in 1..(MaxCmds + 1)
         /\ MaxCmds \in Nat
<1>1. Issued \subseteq Cookie /\ unique \in 1..(MaxCmds + 1) /\ MaxCmds \in Nat
  BY HandleAssumption, SMTT(60) DEF TypeInv, TypeOK, ListType, Issued, Cookie
<1>2. /\ cmds_to_issue \in Seq(Cookie) /\ cmds_done \in Seq(Cookie)
      /\ Inj(cmds_to_issue) /\ Inj(cmds_done)
  BY DEF TypeInv, TypeOK, ListType, ListInv, OneList, Inj
<1>3. /\ Queued = Rng(cmds_to_issue) /\ Done = Rng(cmds_done)
      /\ Queued' = Rng(cmds_to_issue') /\ Done' = Rng(cmds_done')
  BY DEF Queued, Done, Rng
<1>4. /\ Live = Queued \cup cmds_in_flight
      /\ Live' = Queued' \cup cmds_in_flight'
      /\ Queued \cap cmds_in_flight = {} /\ Live \cap Done = {}
      /\ Live \subseteq Issued /\ Done \subseteq Issued
  BY DEF Live, ListInv, OneList, OnlyIssued
<1>. QED  BY <1>1, <1>2, <1>3, <1>4

\* A cookie not given out yet is on no list.
LEMMA FreshCookie ==
  ASSUME TypeInv, ListInv
  PROVE  \A c \in Cookie : c >= unique => c \notin Live \cup Done
<1>1. Live \subseteq Issued /\ Done \subseteq Issued
  BY DEF ListInv, OnlyIssued
<1>2. unique \in Int
  BY HandleAssumption, SMTT(60) DEF TypeInv, TypeOK, ListType
<1>3. \A c \in Issued : ~(c >= unique)
  BY <1>2 DEF Issued
<1>. QED  BY <1>1, <1>3

\* The empty sequence, and one with one element.
LEMMA ShortSeqs ==
  /\ Inj(<<>>) /\ Rng(<<>>) = {}
  /\ \A x : Inj(<<x>>) /\ Rng(<<x>>) = {x}
BY SMTT(60) DEF Inj, Rng

\* The queue seen as its head and what follows it.
LEMMA HeadFacts ==
  ASSUME TypeInv, ListInv
  PROVE  /\ cmds_to_issue # <<>> => /\ Head(cmds_to_issue) \in Queued
                                    /\ Head(cmds_to_issue) \in Issued
                                    /\ Head(cmds_to_issue) \in Cookie
         /\ cmds_to_issue = <<>> => Queued = {}
         /\ HeadIsReq => req \in Queued /\ req \in Issued /\ req \in Cookie
<1>1. cmds_to_issue # <<>> => Head(cmds_to_issue) \in Queued
  BY ListFacts, TailInj
<1>2. cmds_to_issue = <<>> => Queued = {}
  BY ListFacts, ShortSeqs
<1>3. Queued \subseteq Issued /\ Issued \subseteq Cookie
  BY ListFacts
<1>. QED  BY <1>1, <1>2, <1>3 DEF HeadIsReq

(***************************************************************************)
(* The frame of a reply.                                                   *)
(***************************************************************************)

\* The handlers of states-reply.c, states-reply-simple.c and
\* states-reply-chunk.c leave alone what is being sent.
LEMMA ReplyFrame ==
  ASSUME TypeInv, ReplyStep \/ ChunkStep
  PROVE  ReplyKeeps
<1>1. ASSUME NEW s \in ResumeStates \cup {"RECV_REPLY"}, At(s), RecvError
      PROVE  ReplyKeeps
  BY <1>1 DEF At, RecvError, SET_NEXT_STATE, ReplyKeeps, ReplyStates,
              listVars, netVars, SameCommands
<1>2. ASSUME NEW s \in ResumeStates, At(s), SaveAndReturn
      PROVE  ReplyKeeps
  BY <1>2 DEF At, SaveAndReturn, SET_NEXT_STATE, ReplyKeeps, ReplyStates,
              listVars, netVars, SameCommands
<1>3. ASSUME NEW s \in ReplyStates, At(s), NEW t \in States, SET_NEXT_STATE(t),
             t \in ReplyStates \cup {"READY", "DEAD", "CLOSED"},
             UNCHANGED <<listVars, sendVars, up, room, rx, got, ans>>,
             \E c, e, n :
               \/ cmd' = cmd
               \/ cmd' = [cmd EXCEPT ![c].error = e]
               \/ cmd' = [cmd EXCEPT ![c].data_seen = n]
               \/ cmd' = [cmd EXCEPT ![c].error = e, ![c].data_seen = n]
      PROVE  ReplyKeeps
  <2>1. SameCommands
    BY <1>3, FieldsSet DEF TypeInv, TypeOK
  <2>. QED  BY <1>3, <2>1 DEF At, SET_NEXT_STATE, ReplyKeeps, listVars
<1>. DEFINE Frame(s, t) ==
       /\ At(s) /\ SET_NEXT_STATE(t)
       /\ UNCHANGED <<listVars, sendVars, up, room, rx, got, ans>>
       /\ \E c, e, n :
            \/ cmd' = cmd
            \/ cmd' = [cmd EXCEPT ![c].error = e]
            \/ cmd' = [cmd EXCEPT ![c].data_seen = n]
            \/ cmd' = [cmd EXCEPT ![c].error = e, ![c].data_seen = n]
<1>4. ASSUME NEW s \in ReplyStates,
             \E t \in ReplyStates \cup {"READY", "DEAD", "CLOSED"} : Frame(s, t)
      PROVE  ReplyKeeps
  BY <1>3, <1>4 DEF States
<1>. HIDE DEF Frame
<1>5. CASE ReplyStart
  BY <1>5, Zenon DEF ReplyStart, At, SET_NEXT_STATE, Block, SET_NEXT_STATE_AND_BLOCK,
              ReplyKeeps, ReplyStates, listVars, SameCommands, TypeInv, TypeOK,
              RecvType
<1>6. CASE RecvReply
  <2>1. CASE RecvError
    BY <1>1, <1>6, <2>1 DEF RecvReply
  <2>2. CASE ~RecvError
    BY <1>6, <2>2, Zenon DEF RecvReply, At, SET_NEXT_STATE, ReplyKeeps, ReplyStates,
                      listVars, SameCommands
  <2>. QED  BY <2>1, <2>2
<1>7. CASE CheckReplyMagic
  BY <1>7, Zenon DEF CheckReplyMagic, At, SET_NEXT_STATE, ReplyKeeps, ReplyStates,
              ResumeStates, listVars, netVars, SameCommands
<1>8. CASE FinishCommand
  <2>1. /\ At("FINISH_COMMAND") /\ SET_NEXT_STATE("READY")
        /\ UNCHANGED <<sendVars, netVars>>
        /\ UNCHANGED <<cmds_to_issue, cmds_to_issue_tail, unique,
                       disconnect_request>>
        /\ \E e : cmd' = cmd \/ cmd' = [cmd EXCEPT ![reply_cmd].error = e]
    BY <1>8, Zenon DEF FinishCommand, listVars
  <2>2. SameCommands
    BY <2>1, FieldsSet, Zenon DEF TypeInv, TypeOK
  <2>. QED  BY <2>1, <2>2 DEF At, SET_NEXT_STATE, ReplyKeeps, ReplyStates,
                              netVars
<1>9. CASE SimpleStart
  <2>1. \E e, n : \/ cmd' = cmd
                  \/ cmd' = [cmd EXCEPT ![reply_cmd].error = e]
                  \/ cmd' = [cmd EXCEPT ![reply_cmd].error = e,
                                        ![reply_cmd].data_seen = n]
    BY <1>9, ZenonT(60) DEF SimpleStart
  <2>2. \E t \in {"FINISH_COMMAND", "DEAD", "RECV_READ_PAYLOAD"} :
          /\ At("SIMPLE.START") /\ SET_NEXT_STATE(t)
          /\ UNCHANGED <<listVars, sendVars, netVars>>
    BY <1>9, ZenonT(60) DEF SimpleStart
  <2>3. \E t \in {"FINISH_COMMAND", "DEAD", "RECV_READ_PAYLOAD"} :
          Frame("SIMPLE.START", t)
    BY <2>1, <2>2, Zenon DEF Frame, netVars
  <2>. QED  BY <1>4, <2>3 DEF ReplyStates, ResumeStates
<1>. DEFINE Ended(s) == At(s) /\ (RecvError \/ SaveAndReturn)
<1>10. ASSUME NEW s \in ResumeStates, Ended(s)
       PROVE  ReplyKeeps
  BY <1>1, <1>2, <1>10, Zenon
<1>. HIDE DEF Ended
<1>11. CASE RecvStructuredRemaining \/ RecvReadPayload
  <2>1. \/ \E s \in {"RECV_STRUCTURED_REMAINING", "RECV_READ_PAYLOAD"} : Ended(s)
        \/ Frame("RECV_STRUCTURED_REMAINING", "CHUNK.START")
        \/ Frame("RECV_READ_PAYLOAD", "FINISH_COMMAND")
    BY <1>11, ZenonT(60) DEF RecvStructuredRemaining, RecvReadPayload, Received,
                             Frame, Ended
  <2>. QED  BY <1>4, <1>10, <2>1 DEF ReplyStates, ResumeStates
<1>12. CASE ChunkStart
  <2>1. \E t \in {"DEAD", "RESYNC", "CHUNK.FINISH", "RECV_OFFSET_DATA",
                  "RECV_OFFSET_HOLE", "RECV_BS_HEADER", "RECV_ERROR"} :
          Frame("CHUNK.START", t)
    BY <1>12, ZenonT(60) DEF ChunkStart, Resync, Frame, netVars
  <2>. QED  BY <1>4, <2>1 DEF ReplyStates, ResumeStates
<1>13. CASE RecvChunkError \/ RecvErrorMessage \/ RecvErrorTail
  <2>1. \/ \E s \in {"RECV_ERROR", "RECV_ERROR_MESSAGE", "RECV_ERROR_TAIL"} :
             Ended(s)
        \/ Frame("RECV_ERROR", "RESYNC")
        \/ Frame("RECV_ERROR", "RECV_ERROR_MESSAGE")
        \/ Frame("RECV_ERROR_MESSAGE", "RECV_ERROR_TAIL")
        \/ Frame("RECV_ERROR_TAIL", "CHUNK.FINISH")
    BY <1>13, ZenonT(60) DEF RecvChunkError, RecvErrorMessage, RecvErrorTail,
                             Resync, Received, Frame, Ended
  <2>. QED  BY <1>4, <1>10, <2>1 DEF ReplyStates, ResumeStates
<1>14. CASE RecvOffsetData \/ RecvOffsetDataData
  <2>1. \/ \E s \in {"RECV_OFFSET_DATA", "RECV_OFFSET_DATA_DATA"} : Ended(s)
        \/ Frame("RECV_OFFSET_DATA", "RECV_OFFSET_DATA_DATA")
        \/ Frame("RECV_OFFSET_DATA", "DEAD")
        \/ Frame("RECV_OFFSET_DATA_DATA", "CHUNK.FINISH")
    BY <1>14, ZenonT(60) DEF RecvOffsetData, RecvOffsetDataData, Received,
                             Frame, Ended
  <2>. QED  BY <1>4, <1>10, <2>1 DEF ReplyStates, ResumeStates
<1>15. CASE RecvOffsetHole \/ RecvBsHeader
  <2>1. \/ \E s \in {"RECV_OFFSET_HOLE", "RECV_BS_HEADER"} : Ended(s)
        \/ Frame("RECV_OFFSET_HOLE", "CHUNK.FINISH")
        \/ Frame("RECV_OFFSET_HOLE", "DEAD")
        \/ Frame("RECV_BS_HEADER", "RESYNC")
        \/ Frame("RECV_BS_HEADER", "RECV_BS_ENTRIES")
        \/ Frame("RECV_BS_HEADER", "DEAD")
    BY <1>15, ZenonT(60) DEF RecvOffsetHole, RecvBsHeader, Resync, Received,
                             Frame, Ended
  <2>. QED  BY <1>4, <1>10, <2>1 DEF ReplyStates, ResumeStates
<1>16. CASE RecvBsEntries \/ ResyncPayload
  <2>1. \/ \E s \in {"RECV_BS_ENTRIES", "RESYNC"} : Ended(s)
        \/ Frame("RECV_BS_ENTRIES", "CHUNK.FINISH")
        \/ Frame("RESYNC", "FINISH_COMMAND")
        \/ Frame("RESYNC", "CHUNK.FINISH")
    BY <1>16, ZenonT(60) DEF RecvBsEntries, ResyncPayload, Received, Frame,
                             Ended
  <2>. QED  BY <1>4, <1>10, <2>1 DEF ReplyStates, ResumeStates
<1>17. CASE ChunkFinish
  <2>1. \/ Frame("CHUNK.FINISH", "FINISH_COMMAND")
        \/ Frame("CHUNK.FINISH", "READY")
    BY <1>17, ZenonT(60) DEF ChunkFinish, Frame, netVars
  <2>. QED  BY <1>4, <2>1 DEF ReplyStates
<1>. QED  BY <1>5, <1>6, <1>7, <1>8, <1>9, <1>11, <1>12, <1>13, <1>14, <1>15,
             <1>16, <1>17 DEF ReplyStep, ChunkStep

(***************************************************************************)
(* Every step is a ListStep.                                               *)
(***************************************************************************)

\* The length of a sequence and of its tail.
LEMMA EmptyLen ==
  ASSUME NEW S, NEW s \in Seq(S)
  PROVE  /\ Len(s) \in Nat /\ (s = <<>> <=> Len(s) = 0)
         /\ s # <<>> => /\ Tail(s) \in Seq(S) /\ Len(Tail(s)) = Len(s) - 1
                        /\ \A i \in 1..(Len(s) - 1) : Tail(s)[i] = s[i + 1]
OBVIOUS

\* nbd_shutdown queues NBD_CMD_DISC only on a connection that is up.
LEMMA ConnectedRuns == Connected => ~Stopped /\ HasSocket
BY DEF Connected, Stopped, HasSocket, is_state_ready, is_state_processing,
       IssueStates, ReplyStates, ResumeStates

\* A step that moves no command.
LEMMA Moves ==
  ASSUME UNCHANGED listVars,
         \/ UNCHANGED <<state, running>>
         \/ ~Stopped /\ ~Stopped'
         \/ ~Stopped /\ state' \in {"DEAD", "CLOSED"} /\ running'
  PROVE  KeepLists
BY DEF KeepLists, HasSocket, Stopped

\* Of the handlers of states-issue-command.c only FINISH moves a command.
LEMMA IssueListStep ==
  ASSUME IssueStep
  PROVE  ListStep
<1>1. CASE IssueFinish
  BY <1>1 DEF IssueFinish, At, SET_NEXT_STATE, FlightAfterIssue, TailAfterIssue,
              ListStep, SendOne, Stopped
<1>2. CASE SendRequest \/ SendWritePayload
  <2>1. UNCHANGED listVars /\ state \in {"SEND_REQUEST", "SEND_WRITE_PAYLOAD"}
        /\ \/ state' \in {"SEND_REQUEST", "SEND_WRITE_PAYLOAD",
                          "PREPARE_WRITE_PAYLOAD", "ISSUE.FINISH"}
           \/ state' = "DEAD" /\ running'
    BY <1>2 DEF SendRequest, SendWritePayload, SendThen, SendError, At, Block,
                SET_NEXT_STATE, SET_NEXT_STATE_AND_BLOCK
  <2>. QED  BY <2>1, Moves DEF ListStep, Stopped
<1>3. CASE ~IssueFinish /\ ~SendRequest /\ ~SendWritePayload
  <2>1. UNCHANGED listVars /\ ~Stopped /\ ~Stopped'
    BY <1>3 DEF IssueStep, IssueStart, PauseSendRequest, PrepareWritePayload,
                PauseWritePayload, SendWriteShutdown, PauseWriteShutdown, At,
                Block, SET_NEXT_STATE, SET_NEXT_STATE_AND_BLOCK, Stopped
  <2>. QED  BY <2>1, Moves DEF ListStep
<1>. QED  BY <1>1, <1>2, <1>3

\* Of the handlers of a reply only FINISH_COMMAND moves a command.
LEMMA ReplyListStep ==
  ASSUME TypeInv, ReplyStep \/ ChunkStep
  PROVE  ListStep
<1>1. /\ ~Stopped /\ running
      /\ ~Stopped' \/ (state' \in {"DEAD", "CLOSED"} /\ running')
  BY ReplyFrame DEF ReplyKeeps, Stopped, ReplyStates, ResumeStates
<1>2. CASE FinishCommand /\ reply_cmd # NULL
  <2>1. /\ state' = "READY" /\ Lookup(hdr.cookie) = reply_cmd
        /\ cmds_in_flight' = cmds_in_flight \ {reply_cmd}
        /\ in_flight' = in_flight - 1
        /\ UNCHANGED <<cmds_to_issue, cmds_to_issue_tail, unique>>
        /\ \/ UNCHANGED <<cmds_done, cmds_done_tail>>
           \/ cmds_done' = Append(cmds_done, reply_cmd) /\ cmds_done_tail' = reply_cmd
    BY <1>2, ZenonT(60) DEF FinishCommand, SET_NEXT_STATE
  <2>2. reply_cmd \in cmds_in_flight
    BY <1>2, <2>1 DEF Lookup
  <2>3. FinishOne(reply_cmd)
    BY <1>1, <2>1, <2>2 DEF FinishOne, Stopped
  <2>. QED  BY <2>2, <2>3 DEF ListStep, TypeInv, TypeOK, ListType
<1>3. CASE ~(FinishCommand /\ reply_cmd # NULL)
  <2>1. CASE ReplyStep
    BY <1>1, <1>3, <2>1, Moves, ZenonT(60) DEF ReplyStep, ReplyStart, RecvReply, RecvError,
       CheckReplyMagic, RecvStructuredRemaining, SaveAndReturn, Received,
       SimpleStart, RecvReadPayload, FinishCommand, ListStep
  <2>2. CASE ChunkStep
    BY <1>1, <2>2, Moves, Zenon DEF ChunkStep, ChunkStart, RecvChunkError, RecvErrorMessage,
       RecvErrorTail, RecvOffsetData, RecvOffsetDataData, RecvOffsetHole,
       RecvBsHeader, RecvBsEntries, ResyncPayload, ChunkFinish, RecvError,
       SaveAndReturn, Received, ListStep
  <2>. QED  BY <2>1, <2>2
<1>. QED  BY <1>2, <1>3

\* DEAD and CLOSED end every command, READY moves none.
LEMMA TopListStep ==
  ASSUME Ready \/ Dead \/ Closed
  PROVE  ListStep
<1>1. CASE Ready
  <2>1. UNCHANGED listVars /\ ~Stopped /\ ~Stopped'
    BY <1>1 DEF Ready, At, Block, SET_NEXT_STATE, SET_NEXT_STATE_AND_BLOCK,
                Stopped
  <2>. QED  BY <2>1, Moves DEF ListStep
<1>2. CASE Dead \/ Closed
  BY <1>2 DEF Dead, Closed, Terminal, At, Block, SET_NEXT_STATE_AND_BLOCK,
              ListStep, EndAll, Live
<1>. QED  BY <1>1, <1>2

\* What the server does reaches no list.
LEMMA ServerListStep ==
  ASSUME Server
  PROVE  ListStep
<1>1. UNCHANGED <<state, running, listVars>>
  BY Zenon DEF Server, ServerReply, ServerStray, Transmit, Deliver, Drain,
               ServerClose, ConnectionLost, runVars
<1>. QED  BY <1>1, Moves DEF ListStep

\* The calls queue a command, retire one, abandon some or free all.
LEMMA ApiListStep ==
  ASSUME TypeInv, ListInv, DiscWaits, ApiStep
  PROVE  ListStep
<1>. USE DEF Calling, CanCall
<1>1. ASSUME NEW t, nbd_internal_command_common(t), Connected, unique <= MaxCmds
      PROVE  ListStep
  <2>1. ~Stopped /\ ~Stopped'
    BY <1>1, ConnectedRuns DEF nbd_internal_command_common, Stopped
  <2>2. QueueOne
    BY <1>1, <2>1 DEF nbd_internal_command_common, QueueOne
  <2>. QED  BY <2>2 DEF ListStep
<1>2. ASSUME NEW c, nbd_unlocked_aio_command_completed(c)
      PROVE  ListStep
  BY <1>2, Zenon DEF nbd_unlocked_aio_command_completed, RetireOne, ListStep
<1>3. ASSUME UNCHANGED listVars, UNCHANGED <<state, running>>
      PROVE  ListStep
  BY <1>3, Moves DEF ListStep
<1>4. CASE \E t \in Templates : AioCommand(t) \/ SyncCommand(t)
  <2>1. unique < MaxCmds => unique <= MaxCmds
    BY HandleAssumption, SMTT(60) DEF TypeInv, TypeOK, ListType
  <2>. QED  BY <1>1, <1>4, <2>1 DEF AioCommand, SyncCommand
<1>5. CASE (\E c \in Cookie : CommandCompleted(c)) \/ WaitForCommand
  BY <1>2, <1>3, <1>5 DEF CommandCompleted, WaitForCommand
<1>6. CASE \E f \in ShutdownFlags : Shutdown(f)
  <2>1. PICK f \in ShutdownFlags : Shutdown(f)
    BY <1>6
  <2>2. ~Stopped
    BY <2>1, ConnectedRuns DEF Shutdown
  <2>3. CASE UNCHANGED listVars
    BY <1>3, <2>1, <2>3 DEF Shutdown
  <2>4. CASE ~UNCHANGED listVars
    BY <2>1, <2>2, <2>4 DEF Shutdown, ListStep, AbandonSome
  <2>. QED  BY <2>3, <2>4
<1>7. CASE AioDisconnect \/ ShutdownDisconnect
  <2>1. ~disconnect_request => unique <= MaxCmds
    BY DEF TypeInv, CookieLeft
  <2>. QED  BY <1>1, <1>3, <1>7, <2>1, Zenon
            DEF AioDisconnect, ShutdownDisconnect, DiscWaits,
                nbd_internal_command_common, Accepting
<1>8. CASE ShutdownReturn \/ PollError
  BY <1>3, <1>8 DEF ShutdownReturn, PollError
<1>9. CASE NotifyRead \/ NotifyWrite
  <2>1. UNCHANGED listVars /\ ~Stopped /\ ~Stopped'
    BY <1>9 DEF NotifyRead, NotifyWrite, Stopped
  <2>. QED  BY <2>1, Moves DEF ListStep
<1>10. CASE Close
  BY <1>10 DEF Close, ListStep, FreeAll
<1>. QED  BY <1>4, <1>5, <1>6, <1>7, <1>8, <1>9, <1>10 DEF ApiStep

\* Every step is one of these.
LEMMA NextListStep ==
  ASSUME TypeInv, ListInv, DiscWaits, [Next]_vars
  PROVE  ListStep
<1>1. CASE Next
  BY <1>1, IssueListStep, ReplyListStep, TopListStep, ServerListStep,
     ApiListStep DEF Next, Engine
<1>2. CASE UNCHANGED vars
  BY <1>2, Moves DEF vars, runVars, ListStep
<1>. QED  BY <1>1, <1>2

(***************************************************************************)
(* What the steps outside a reply leave alone.                             *)
(***************************************************************************)

\* A step that issues nothing and changes no command fixes nothing new.
LEMMA SameIsFixed ==
  ASSUME TypeInv, ListInv, SameCommands, unique' = unique
  PROVE  Fixed
BY ListFacts DEF Fixed, SameCommands, Issued

\* nbd_internal_command_common leaves a suspended reply alone.
LEMMA CommonOutside ==
  ASSUME TypeInv, ListInv, NEW t \in Template, unique <= MaxCmds,
         nbd_internal_command_common(t), t.type = "BLOCK_STATUS" => t.chunk
  PROVE  Outside /\ Fixed /\ (ExtentCallbacks => ExtentCallbacks')
<1>1. /\ UNCHANGED <<recvVars, cmds_in_flight, netVars>>
      /\ cmd' = [cmd EXCEPT ![unique] = MkCommand(t)] /\ unique' = unique + 1
      /\ state' = state \/ (state = "READY" /\ state' = "ISSUE.START")
  BY DEF nbd_internal_command_common, is_state_ready
<1>2. Outside
  BY <1>1 DEF Outside, netVars, Inner, ReplyStates, ResumeStates
<1>3. /\ unique \in Cookie /\ unique \in Int /\ cmd \in [Cookie -> Command]
      /\ Issued \subseteq Cookie /\ unique \notin Issued
      /\ Issued' = Issued \cup {unique}
  BY <1>1, HandleAssumption, SMTT(60) DEF TypeInv, TypeOK, ListType, CmdType, Issued, Cookie
<1>4. /\ \A c \in Issued : cmd'[c] = cmd[c]
      /\ cmd'[unique].type = t.type /\ cmd'[unique].chunk = t.chunk
  BY <1>1, <1>3 DEF MkCommand
<1>. QED  BY <1>2, <1>3, <1>4 DEF Fixed, ExtentCallbacks

\* Every call but nbd_close leaves a suspended reply alone.
LEMMA ApiOutside ==
  ASSUME TypeInv, ListInv, ApiStep
  PROVE  Close \/ (Outside /\ Fixed /\ (ExtentCallbacks => ExtentCallbacks'))
<1>. USE DEF Calling, CanCall
<1>1. ASSUME UNCHANGED <<recvVars, cmds_in_flight, netVars, unique>>, SameCommands,
             state' = state \/ (state \notin Inner /\ state' \notin Inner)
      PROVE  Outside /\ Fixed /\ (ExtentCallbacks => ExtentCallbacks')
  <2>1. Fixed /\ Issued' = Issued
    BY <1>1, SameIsFixed DEF Issued
  <2>. QED  BY <1>1, <2>1 DEF Outside, netVars, Fixed, ExtentCallbacks
<1>2. ASSUME UNCHANGED <<state, recvVars, cmds_in_flight, netVars, unique, cmd>>
      PROVE  Outside /\ Fixed /\ (ExtentCallbacks => ExtentCallbacks')
  BY <1>1, <1>2 DEF SameCommands
<1>3. CASE \E t \in Templates : AioCommand(t) \/ SyncCommand(t)
  <2>1. PICK t \in Templates : unique < MaxCmds /\ nbd_internal_command_common(t)
    BY <1>3 DEF AioCommand, SyncCommand
  <2>2. t \in Template /\ (t.type = "BLOCK_STATUS" => t.chunk)
    BY HandleAssumption
  <2>3. unique <= MaxCmds
    BY <2>1, HandleAssumption, SMTT(60) DEF TypeInv, TypeOK, ListType
  <2>. QED  BY <2>1, <2>2, <2>3, CommonOutside
<1>4. CASE (\E c \in Cookie : CommandCompleted(c)) \/ WaitForCommand
  BY <1>2, <1>4 DEF CommandCompleted, WaitForCommand,
                    nbd_unlocked_aio_command_completed, listVars
<1>5. CASE \E f \in ShutdownFlags : Shutdown(f)
  <2>1. PICK f \in ShutdownFlags : Shutdown(f)
    BY <1>5
  <2>2. CASE UNCHANGED <<listVars, cmd>>
    BY <1>2, <2>1, <2>2 DEF Shutdown, listVars
  <2>3. CASE nbd_internal_abort_commands(Abandoned)
             /\ UNCHANGED <<cmds_in_flight, unique>>
    <3>1. Abandoned \in SUBSET Live
      BY ListFacts DEF Abandoned
    <3>2. SameCommands
      BY <2>3, <3>1, AbortLists
    <3>. QED  BY <1>1, <2>1, <2>3, <3>2 DEF Shutdown
  <2>. QED  BY <2>1, <2>2, <2>3 DEF Shutdown
<1>6. CASE AioDisconnect \/ ShutdownDisconnect
  <2>1. DiscTemplate \in Template /\ DiscTemplate.type # "BLOCK_STATUS"
    BY DiscTemplateType DEF DiscTemplate
  <2>2. ~disconnect_request => unique <= MaxCmds
    BY DEF TypeInv, CookieLeft
  <2>3. CASE nbd_internal_command_common(DiscTemplate)
    BY <2>1, <2>2, <2>3, CommonOutside, Zenon DEF nbd_internal_command_common, Accepting
  <2>. QED  BY <1>2, <1>6, <2>3 DEF AioDisconnect, ShutdownDisconnect, listVars
<1>7. CASE ShutdownReturn \/ PollError \/ NotifyWrite
  BY <1>2, <1>7 DEF ShutdownReturn, PollError, NotifyWrite, listVars
<1>8. CASE NotifyRead
  BY <1>1, <1>8 DEF NotifyRead, listVars, SameCommands, Inner, ReplyStates,
                    ResumeStates
<1>9. CASE Close
  BY <1>9
<1>. QED  BY <1>3, <1>4, <1>5, <1>6, <1>7, <1>8, <1>9 DEF ApiStep

\* Sending a request: only FINISH touches the lists.
LEMMA IssueOutside ==
  ASSUME TypeInv, ListInv, IssueStep
  PROVE  /\ UNCHANGED <<recvVars, up, inb, ans, cmd, unique>> /\ got \subseteq got'
         /\ state \notin Inner /\ state' \notin Inner
         /\ \/ UNCHANGED cmds_in_flight
            \/ /\ cmds_to_issue # <<>>
               /\ cmds_in_flight' = cmds_in_flight \cup {Head(cmds_to_issue)}
<1>. USE DEF Inner, ReplyStates, ResumeStates
<1>1. CASE SendRequest \/ SendWritePayload
  <2>1. CASE SendError
    BY <1>1, <2>1 DEF SendRequest, SendWritePayload, SendError, At, SET_NEXT_STATE,
                      listVars, netVars
  <2>2. CASE ~SendError
    <3>1. /\ SendSome /\ UNCHANGED <<listVars, cmd, recvVars>>
          /\ state \in {"SEND_REQUEST", "SEND_WRITE_PAYLOAD"}
          /\ state' \in {"SEND_REQUEST", "SEND_WRITE_PAYLOAD",
                         "PREPARE_WRITE_PAYLOAD", "ISSUE.FINISH"}
      BY <1>1, <2>2 DEF SendRequest, SendWritePayload, SendThen, At, Block,
                        SET_NEXT_STATE, SET_NEXT_STATE_AND_BLOCK
    <3>2. UNCHANGED <<up, inb, ans>> /\ got \subseteq got'
      BY <3>1 DEF SendSome, Arrive
    <3>. QED  BY <3>1, <3>2 DEF listVars
  <2>. QED  BY <2>1, <2>2
<1>2. CASE IssueFinish
  BY <1>2 DEF IssueFinish, FlightAfterIssue, At, SET_NEXT_STATE, netVars
<1>3. CASE ~IssueFinish /\ ~SendRequest /\ ~SendWritePayload
  BY <1>3, Zenon DEF IssueStep, IssueStart, PauseSendRequest, PrepareWritePayload,
              PauseWritePayload, SendWriteShutdown, PauseWriteShutdown, At, Block,
              SET_NEXT_STATE, SET_NEXT_STATE_AND_BLOCK, listVars, netVars
<1>. QED  BY <1>1, <1>2, <1>3

\* READY, DEAD and CLOSED read nothing and are outside a reply.
LEMMA TopOutside ==
  ASSUME TypeInv, ListInv, Ready \/ Dead \/ Closed
  PROVE  /\ UNCHANGED <<recvVars, up, inb, got, ans, unique>> /\ SameCommands
         /\ state \notin Inner /\ state' \notin Inner
         /\ Stopped' \/ UNCHANGED cmds_in_flight
<1>. USE DEF Inner, ReplyStates, ResumeStates
<1>1. CASE Ready
  BY <1>1 DEF Ready, At, Block, SET_NEXT_STATE, SET_NEXT_STATE_AND_BLOCK,
              listVars, netVars, SameCommands
<1>2. CASE Dead \/ Closed
  <2>1. /\ state \in {"DEAD", "CLOSED"} /\ state' = state
        /\ UNCHANGED <<recvVars, netVars, unique>>
        /\ nbd_internal_abort_commands(Live) /\ Live \in SUBSET Live
    BY <1>2 DEF Dead, Closed, Terminal, At, Block, SET_NEXT_STATE_AND_BLOCK, Live
  <2>2. SameCommands
    BY <2>1, AbortLists
  <2>. QED  BY <2>1, <2>2 DEF Stopped, netVars
<1>. QED  BY <1>1, <1>2

\* The server changes what is in the socket only, and what it sends answers a
\* command it has read or nothing at all.
LEMMA ServerFrom ==
  ASSUME TypeInv, Server
  PROVE  /\ UNCHANGED <<runVars, listVars, cmd, recvVars, got>>
         /\ \/ inb'.msg.cookie \in {inb.msg.cookie, NULL}
            \/ KnownCookie(inb'.msg.cookie)
<1>1. CASE \E c \in Cookie, m \in Shapes : ServerReply(c, m)
  <2>1. PICK c \in Cookie, m \in Shapes : ServerReply(c, m)
    BY <1>1
  <2>2. m \in Message
    BY HandleAssumption
  <2>3. inb'.msg.cookie = c
    BY <2>1, <2>2 DEF ServerReply, Transmit, Message
  <2>. QED  BY <2>1, <2>3 DEF ServerReply, Transmit, KnownCookie
<1>2. CASE \E m \in Shapes : ServerStray(m)
  <2>1. PICK m \in Shapes : ServerStray(m)
    BY <1>2
  <2>2. m \in Message
    BY HandleAssumption
  <2>3. inb'.msg.cookie = NULL
    BY <2>1, <2>2 DEF ServerStray, Transmit, Message
  <2>. QED  BY <2>1, <2>3 DEF ServerStray, Transmit
<1>3. CASE Deliver \/ ConnectionLost
  BY <1>3 DEF Deliver, ConnectionLost, TypeInv, TypeOK, NetType
<1>4. CASE Drain \/ ServerClose
  BY <1>4 DEF Drain, ServerClose
<1>. QED  BY <1>1, <1>2, <1>3, <1>4 DEF Server

\* A connection that has ended stays ended.
LEMMA StaysStopped ==
  ASSUME TypeInv, ListInv, DiscWaits, [Next]_vars
  PROVE  Stopped => Stopped'
<1>1. ListStep
  BY NextListStep
<1>. QED  BY <1>1 DEF ListStep, KeepLists, QueueOne, SendOne, EndAll, AbandonSome,
                      FreeAll, FinishOne, RetireOne, Stopped

\* Sending waits for the socket only where the socket is full, and pauses for a
\* reply only when the socket is readable.
LEMMA IssueMoves ==
  ASSUME TypeInv, IssueStep
  PROVE  /\ running /\ UNCHANGED <<up, inb>>
         /\ running' \/ state' \in WaitStates \ {"REPLY.START"}
         /\ state' \in ReadStates => running' /\ state \in ReadStates
<1>. USE DEF ReadStates, WaitStates, At, SET_NEXT_STATE, SET_NEXT_STATE_AND_BLOCK,
             Block
<1>1. CASE SendRequest \/ SendWritePayload
  BY <1>1 DEF SendRequest, SendWritePayload, SendThen, SendError, SendSome, netVars
<1>2. CASE ~SendRequest /\ ~SendWritePayload
  BY <1>2, Zenon DEF IssueStep, IssueStart, PauseSendRequest, PrepareWritePayload,
              PauseWritePayload, SendWriteShutdown, PauseWriteShutdown,
              IssueFinish, netVars
<1>. QED  BY <1>1, <1>2

\* A step that ends no command keeps those that are queued or in flight.
LEMMA LiveKept ==
  ASSUME TypeInv, ListInv, ListStep, ~AbandonSome, ~Stopped',
         cmds_in_flight \subseteq cmds_in_flight'
  PROVE  Live \subseteq Live'
<1>1. CASE KeepLists \/ \E i \in 1..Len(cmds_done) : RetireOne(i)
  <2>1. UNCHANGED <<cmds_to_issue, cmds_in_flight>>
    BY <1>1 DEF KeepLists, RetireOne, listVars
  <2>. QED  BY <2>1, ListFacts
<1>2. CASE QueueOne
  <2>1. unique \in Cookie
    BY <1>2, HandleAssumption, SMTT(60) DEF QueueOne, TypeInv, TypeOK, ListType, Cookie
  <2>2. unique \notin Rng(cmds_to_issue)
    BY <2>1, FreshCookie, ListFacts, SMTT(60)
  <2>3. Queued' = Queued \cup {unique}
    BY <1>2, <2>1, <2>2, ListFacts, AppendInj, SMTT(60) DEF QueueOne
  <2>. QED  BY <1>2, <2>3, ListFacts DEF QueueOne
<1>3. CASE SendOne
  <2>1. Queued' = Queued \ {Head(cmds_to_issue)}
    BY <1>3, ListFacts, TailInj DEF SendOne
  <2>. QED  BY <1>3, <2>1, ListFacts DEF SendOne
<1>. QED  BY <1>1, <1>2, <1>3 DEF ListStep, EndAll, FinishOne, FreeAll, Stopped

\* What the caller fixed of a command never changes while its cookie is used.
LEMMA NextFixed ==
  ASSUME TypeInv, ListInv, [Next]_vars
  PROVE  Fixed
<1>1. ASSUME UNCHANGED <<unique, cmd>> PROVE Fixed
  BY <1>1, SameIsFixed DEF SameCommands
<1>2. CASE ReplyStep \/ ChunkStep
  BY <1>2, ReplyFrame, SameIsFixed DEF ReplyKeeps
<1>3. CASE IssueStep
  BY <1>1, <1>3, IssueOutside
<1>4. CASE Ready \/ Dead \/ Closed
  BY <1>4, TopOutside, SameIsFixed
<1>5. CASE Server
  BY <1>1, <1>5, ServerFrom DEF listVars
<1>6. CASE Close
  BY <1>1, <1>6 DEF Close
<1>7. CASE ApiStep /\ ~Close
  BY <1>7, ApiOutside
<1>8. CASE UNCHANGED vars
  BY <1>1, <1>8 DEF vars, listVars
<1>. QED  BY <1>2, <1>3, <1>4, <1>5, <1>6, <1>7, <1>8 DEF Next, Engine
=============================================================================
