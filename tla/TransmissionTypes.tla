------------------------- MODULE TransmissionTypes --------------------------
(***************************************************************************)
(* Type correctness of Transmission: TypeInv holds initially and every     *)
(* handler, call and message keeps it.  After it, what needs little more   *)
(* than the types: where the state machine waits, the assertions of the    *)
(* calls, and that NBD_CMD_DISC is not lost.                               *)
(***************************************************************************)
EXTENDS TransmissionFacts

\* A step is tried with Zenon for three seconds, then with the solver.
USE ZenonT(3), SMTT(30), SMTT(60)

(***************************************************************************)
(* Records and sequences.                                                  *)
(***************************************************************************)

\* Setting the error, or the count of bytes seen, of a command.
LEMMA CommandExcept ==
  ASSUME NEW r \in Command, NEW e \in Errors, NEW n \in Nat
  PROVE  /\ [r EXCEPT !.error = e] \in Command
         /\ [r EXCEPT !.data_seen = n] \in Command
         /\ [r EXCEPT !.error = e, !.data_seen = n] \in Command
<1>1. \A q \in Command : [q EXCEPT !.error = e] \in Command
  BY Zenon DEF Command
<1>2. \A q \in Command : [q EXCEPT !.data_seen = n] \in Command
  BY Zenon DEF Command
<1>3. [r EXCEPT !.error = e] \in Command
  BY <1>1
<1>4. [[r EXCEPT !.error = e] EXCEPT !.data_seen = n] \in Command
  BY <1>2, <1>3, Zenon
<1>. QED  BY <1>2, <1>3, <1>4, Zenon

\* nbd_internal_abort_commands keeps the types of what it changes.
LEMMA AbortType ==
  ASSUME CmdType, ListType, HistType, NEW A, A \subseteq Cookie,
         nbd_internal_abort_commands(A)
  PROVE  /\ cmd' \in [Cookie -> Command]
         /\ cmds_done' \in Seq(Cookie)
         /\ cmds_done_tail' \in Cookie \cup {NULL}
         /\ calls' \in [Cookie -> Nat]
         /\ told' \in [Cookie -> {"none", "ok", "failed"}]
<1>1. cmd' \in [Cookie -> Command]
  <2>1. PICK err \in [A -> Errors] :
          cmd' = [c \in Cookie |->
                    IF c \in A THEN [cmd[c] EXCEPT !.error = err[c]]
                    ELSE cmd[c]]
    <3>1. PICK r \in [A -> CbRet] :
            cmd' = [c \in Cookie |->
                      IF c \in A
                      THEN [cmd[c] EXCEPT !.error =
                              IF cmd[c].completion /\ r[c] = "-1"
                              THEN "EUSER" ELSE FirstError(c, "ENOTCONN")]
                      ELSE cmd[c]]
      BY Zenon DEF nbd_internal_abort_commands
    <3>. DEFINE e == [c \in A |-> IF cmd[c].completion /\ r[c] = "-1"
                                 THEN "EUSER" ELSE FirstError(c, "ENOTCONN")]
    <3>2. e \in [A -> Errors]
      BY DEF CmdType, FirstError, Command, Errors
    <3>. QED  BY <3>1, <3>2, Zenon
  <2>2. \A c \in A : [cmd[c] EXCEPT !.error = err[c]] \in Command
    BY CommandExcept, Zenon DEF CmdType
  <2>. QED  BY <2>1, <2>2 DEF CmdType
<1>2. /\ calls' \in [Cookie -> Nat]
      /\ told' \in [Cookie -> {"none", "ok", "failed"}]
  <2>1. calls' = [c \in Cookie |->
                    IF c \in A /\ cmd[c].completion
                    THEN calls[c] + 1 ELSE calls[c]]
    BY DEF nbd_internal_abort_commands
  <2>2. PICK kept \in SUBSET A :
          told' = [c \in Cookie |->
                     IF c \in A \ kept /\ cmd[c].type # "DISC"
                     THEN "failed" ELSE told[c]]
    BY Zenon DEF nbd_internal_abort_commands
  <2>. QED  BY <2>1, <2>2, SMTT(60) DEF HistType
<1>3. /\ cmds_done' \in Seq(Cookie)
      /\ cmds_done_tail' \in Cookie \cup {NULL}
  <2>1. PICK kept \in SUBSET A :
          \E n \in 0..MaxCmds : \E s \in [1..n -> kept] :
             /\ cmds_done' = cmds_done \o s
             /\ cmds_done_tail' = IF n = 0 THEN cmds_done_tail ELSE s[n]
    BY Zenon DEF nbd_internal_abort_commands
  <2>2. PICK n \in 0..MaxCmds : \E s \in [1..n -> kept] :
             /\ cmds_done' = cmds_done \o s
             /\ cmds_done_tail' = IF n = 0 THEN cmds_done_tail ELSE s[n]
    BY <2>1, Zenon
  <2>5. PICK s \in [1..n -> kept] :
             /\ cmds_done' = cmds_done \o s
             /\ cmds_done_tail' = IF n = 0 THEN cmds_done_tail ELSE s[n]
    BY <2>2, Zenon
  <2>3. n \in Nat
    OBVIOUS
  <2>4. s \in Seq(Cookie)
    BY <2>3, FunctionIsSeq
  <2>. QED  BY <2>3, <2>4, <2>5, SMTT(60) DEF ListType
<1>. QED  BY <1>1, <1>2, <1>3

(***************************************************************************)
(* Variables that a step leaves alone keep their types.                    *)
(***************************************************************************)

\* One conjunct for each group of variables that a handler leaves alone.
LEMMA Keep ==
  /\ RunType /\ UNCHANGED runVars => RunType'
  /\ ListType /\ UNCHANGED listVars => ListType'
  /\ CmdType /\ UNCHANGED cmd => CmdType'
  /\ SendType /\ UNCHANGED sendVars => SendType'
  /\ RecvType /\ UNCHANGED recvVars => RecvType'
  /\ NetType /\ UNCHANGED netVars => NetType'
  /\ HistType /\ UNCHANGED histVars => HistType'
  /\ CookieLeft /\ UNCHANGED listVars => CookieLeft'
  /\ SendingOne /\ UNCHANGED sendVars => SendingOne'
BY DEF RunType, ListType, CmdType, SendType, RecvType, NetType, HistType,
       CookieLeft, SendingOne, runVars, listVars, sendVars, recvVars, netVars,
       histVars

\* Moving to a state.
LEMMA NextStateType ==
  ASSUME RunType, NEW s \in States,
         SET_NEXT_STATE(s) \/ SET_NEXT_STATE_AND_BLOCK(s)
  PROVE  RunType'
BY Zenon DEF RunType, SET_NEXT_STATE, SET_NEXT_STATE_AND_BLOCK

\* Sending what fits.
LEMMA SendSomeType ==
  ASSUME SendType, NetType, CmdType, SendingOne, SendSome
  PROVE  SendType' /\ NetType' /\ SendingOne'
<1>. DEFINE k == Lower(wlen, room)
<1>1. /\ k \in Nat /\ k <= wlen /\ k <= room
      /\ wlen' = wlen - k /\ room' = room - k /\ Arrive(k)
      /\ UNCHANGED <<wbuf, req, in_write_payload, in_write_shutdown, up, inb,
                     ans>>
  BY HandleAssumption, SMTT(60) DEF SendSome, Lower, SendType, NetType
<1>2. SendType' /\ SendingOne'
  BY <1>1 DEF SendType, SendingOne
<1>3. room' \in 0..SockBuf
  BY <1>1, HandleAssumption, SMTT(60) DEF NetType
<1>4. CASE k = 0 \/ ~up
  <2>1. UNCHANGED <<up, inb, rx, got, ans>>
    BY <1>1, <1>4 DEF Arrive
  <2>. QED  BY <1>2, <1>3, <2>1 DEF NetType
<1>5. CASE k # 0 /\ up
  <2>1. req \in Cookie
    BY <1>1, <1>5 DEF SendingOne, SendType
  <2>2. Payload(req) \in Nat
    BY <2>1 DEF Payload, CmdType, Command
  <2>3. rx' \in [cookie : Cookie \cup {NULL}, need : Int, ok : BOOLEAN]
    <3>. DEFINE need == IF rx.need = 0 THEN ReqLen + Payload(req) ELSE rx.need
                ok   == rx.ok /\ InStep /\ req \notin got
    <3>1. need - k \in Int
      BY <1>1, <2>2, SMTT(60) DEF NetType, ReqLen
    <3>2. ok \in BOOLEAN
      BY Zenon
    <3>3. rx' = [cookie |-> req, need |-> need - k, ok |-> ok]
      BY <1>1, <1>5 DEF Arrive
    <3>. HIDE DEF need, ok
    <3>. QED  BY <2>1, <3>1, <3>2, <3>3
  <2>4. got' \subseteq Cookie
    BY <1>1, <1>5, <2>1 DEF Arrive, NetType
  <2>. QED  BY <1>1, <1>2, <1>3, <2>3, <2>4 DEF NetType
<1>. QED  BY <1>2, <1>4, <1>5

(***************************************************************************)
(* One step per handler.                                                   *)
(***************************************************************************)

\* A send or a receive that fails kills the handle.
LEMMA SendErrorType ==
  ASSUME TypeInv, SendError \/ RecvError
  PROVE  TypeInv'
<1>1. RunType'
  BY NextStateType DEF TypeInv, TypeOK, SendError, RecvError, States
<1>. QED  BY <1>1, Keep DEF TypeInv, TypeOK, SendError, RecvError

\* The handlers of generator/states-issue-command.c.
LEMMA IssueType ==
  ASSUME TypeInv, IssueStep
  PROVE  TypeInv'
<1>. USE DEF TypeInv, TypeOK
<1>1. CASE IssueStart
  <2>1. RunType'
    BY <1>1, NextStateType DEF IssueStart, States, IssueStates
  <2>2. SendType' /\ SendingOne'
    <3>1. cmds_to_issue # <<>> => Head(cmds_to_issue) \in Cookie
      BY DEF ListType
    <3>. QED  BY <1>1, <3>1, NotNull, Keep
              DEF IssueStart, SendType, SendingOne, ReqLen
  <2>. QED  BY <1>1, <2>1, <2>2, Keep DEF IssueStart
<1>2. ASSUME NEW s \in {"PREPARE_WRITE_PAYLOAD", "ISSUE.FINISH"}, SendThen(s)
      PROVE  TypeInv'
  <2>1. CASE SendError
    BY <2>1, SendErrorType
  <2>2. CASE ~SendError
    <3>1. RunType'
      BY <1>2, <2>2, NextStateType
         DEF SendThen, States, IssueStates, Block, RunType
    <3>2. SendType' /\ NetType' /\ SendingOne'
      BY <1>2, <2>2, SendSomeType DEF SendThen
    <3>. QED  BY <1>2, <2>2, <3>1, <3>2, Keep DEF SendThen
  <2>. QED  BY <2>1, <2>2
<1>3. CASE SendRequest \/ SendWritePayload
  BY <1>2, <1>3 DEF SendRequest, SendWritePayload
<1>4. CASE PauseSendRequest \/ PauseWritePayload \/ PauseWriteShutdown
  <2>1. RunType'
    BY <1>4, NextStateType
       DEF PauseSendRequest, PauseWritePayload, PauseWriteShutdown, States,
           ReplyStates
  <2>2. SendType' /\ SendingOne'
    BY <1>4, Keep, Zenon
       DEF PauseSendRequest, PauseWritePayload, PauseWriteShutdown, SendType,
           SendingOne
  <2>. QED  BY <1>4, <2>1, <2>2, Keep
            DEF PauseSendRequest, PauseWritePayload, PauseWriteShutdown
<1>5. CASE PrepareWritePayload
  <2>1. RunType'
    BY <1>5, NextStateType DEF PrepareWritePayload, States, IssueStates
  <2>2. req \in Cookie
    <3>1. cmds_to_issue # <<>> /\ Head(cmds_to_issue) = req
      BY <1>5 DEF PrepareWritePayload
    <3>. QED  BY <3>1 DEF ListType
  <2>3. cmd[req].count \in Nat
    BY <2>2 DEF CmdType, Command
  <2>4. SendType' /\ SendingOne'
    BY <1>5, <2>2, <2>3, NotNull, Zenon DEF PrepareWritePayload, SendType, SendingOne
  <2>. QED  BY <1>5, <2>1, <2>4, Keep DEF PrepareWritePayload
<1>6. CASE SendWriteShutdown
  <2>1. RunType'
    BY <1>6, NextStateType DEF SendWriteShutdown, States, IssueStates, Block, RunType
  <2>. QED  BY <1>6, <2>1, Keep DEF SendWriteShutdown
<1>7. CASE IssueFinish
  <2>1. RunType'
    BY <1>7, NextStateType DEF IssueFinish, States
  <2>2. req \in Cookie /\ Tail(cmds_to_issue) \in Seq(Cookie)
    BY <1>7 DEF IssueFinish, ListType
  <2>3. ListType' /\ CookieLeft'
    BY <1>7, <2>2 DEF IssueFinish, TailAfterIssue, FlightAfterIssue, ListType,
                      CookieLeft
  <2>. QED  BY <1>7, <2>1, <2>3, Keep DEF IssueFinish
<1>. QED  BY <1>1, <1>3, <1>4, <1>5, <1>6, <1>7 DEF IssueStep

(***************************************************************************)
(* Receiving.                                                              *)
(***************************************************************************)

\* Taking from the stream no more than was delivered.
LEMMA ConsumeType ==
  ASSUME NetType, NEW k \in Nat, k <= inb.avail, Consume(k),
         UNCHANGED <<up, room, rx, got, ans>>
  PROVE  NetType'
<1>1. /\ inb.left \in Nat /\ inb.avail \in Nat /\ inb.msg \in Message
      /\ inb.fresh \in BOOLEAN /\ inb.avail <= inb.left
  BY DEF NetType
<1>2. inb' = [msg |-> inb.msg, left |-> inb.left - k, avail |-> inb.avail - k,
              fresh |-> inb.fresh /\ k = 0]
  BY Zenon DEF Consume, NetType
<1>3. inb.left - k \in Nat /\ inb.avail - k \in Nat /\ inb.avail - k <= inb.left - k
  BY <1>1
<1>4. (inb.fresh /\ k = 0) \in BOOLEAN
  BY Zenon
<1>. DEFINE f == inb.fresh /\ k = 0
<1>5. inb' = [msg |-> inb.msg, left |-> inb.left - k, avail |-> inb.avail - k, fresh |-> f]
  BY <1>2
<1>. HIDE DEF f
<1>6. /\ inb' \in [msg : Message, left : Nat, avail : Nat, fresh : BOOLEAN]
      /\ inb'.avail <= inb'.left
  <2>1. f \in BOOLEAN
    BY <1>4 DEF f
  <2>. QED  BY <1>1, <1>3, <1>5, <2>1
<1>. QED  BY <1>6 DEF NetType

\* The header buffer holds a message.
LEMMA HeaderType ==
  ASSUME RecvType, NetType, NEW n, NEW k
  PROVE  HeaderRead(n, k) \in Message
<1>1. Garbage \in Message
  BY DEF Garbage, Message, Magics, ChunkTypes, Errors, NoErr, NULL
<1>2. inb.msg \in Message /\ hdr \in Message
  BY DEF RecvType, NetType
<1>. QED  BY <1>1, <1>2 DEF HeaderRead

\* save_reply_state and back to READY.
LEMMA SaveType ==
  ASSUME TypeInv, SaveAndReturn, state \in ResumeStates
  PROVE  TypeInv'
<1>. USE DEF TypeInv, TypeOK
<1>1. RunType'
  BY NextStateType DEF SaveAndReturn, States
<1>2. inb.avail \in Nat
  BY DEF NetType
<1>3. NetType'
  BY <1>2, ConsumeType DEF SaveAndReturn
<1>4. RecvType'
  BY <1>2, SMTT(60) DEF RecvType, SaveAndReturn, StillToRead, RecvShort
<1>. QED  BY <1>1, <1>3, <1>4, Keep DEF SaveAndReturn

\* What holds of a receiving state that has everything it asked for.
LEMMA ReceivedType ==
  ASSUME TypeInv, NEW s, Received(s)
  PROVE  /\ NetType' /\ ListType' /\ SendType' /\ CookieLeft' /\ SendingOne'
         /\ hdr' \in Message /\ reply_state' \in ResumeStates \cup {"START"}
<1>. USE DEF TypeInv, TypeOK
<1>1. rlen \in Nat
  BY DEF RecvType
<1>2. NetType'
  BY <1>1, ConsumeType DEF Received, RecvAll
<1>. QED  BY <1>2, Keep DEF Received, RecvType

\* Setting fields of one command keeps cmd a table of commands.
LEMMA CmdUpdate ==
  ASSUME CmdType, NEW c \in Cookie, NEW e \in Errors, NEW n \in Nat,
         \/ cmd' = [cmd EXCEPT ![c].error = e]
         \/ cmd' = [cmd EXCEPT ![c].data_seen = n]
         \/ cmd' = [cmd EXCEPT ![c].error = e, ![c].data_seen = n]
  PROVE  CmdType'
<1>1. cmd[c] \in Command
  BY DEF CmdType
<1>2. CASE cmd' = [cmd EXCEPT ![c].error = e]
  BY <1>1, <1>2, CommandExcept, Zenon DEF CmdType
<1>3. CASE cmd' = [cmd EXCEPT ![c].data_seen = n]
  BY <1>1, <1>3, CommandExcept, Zenon DEF CmdType
<1>4. CASE cmd' = [cmd EXCEPT ![c].error = e, ![c].data_seen = n]
  <2>1. cmd' = [cmd EXCEPT ![c] = [cmd[c] EXCEPT !.error = e, !.data_seen = n]]
    BY <1>4, Zenon DEF CmdType
  <2>. QED  BY <1>1, <2>1, CommandExcept, Zenon DEF CmdType
<1>. QED  BY <1>2, <1>3, <1>4

\* The error a command has after another was reported.
LEMMA FirstErrorType ==
  ASSUME CmdType, NEW c \in Cookie, NEW e \in Errors
  PROVE  FirstError(c, e) \in Errors /\ cmd[c].error \in Errors
BY DEF CmdType, Command, FirstError

\* Bytes stored in the buffer of a command.
LEMMA FillType ==
  ASSUME HistType, NEW c \in Cookie, NEW s \in SUBSET Nat, Fill(c, s)
  PROVE  cover' \in [Cookie -> [bytes : SUBSET Nat, again : BOOLEAN]]
<1>. DEFINE a == cover[c].again \/ cover[c].bytes \cap s # {}
<1>1. a \in BOOLEAN
  BY Zenon
<1>2. cover[c].bytes \cup s \in SUBSET Nat
  BY Zenon DEF HistType
<1>3. cover' = [cover EXCEPT ![c] = [bytes |-> cover[c].bytes \cup s, again |-> a]]
  BY DEF Fill, HistType
<1>. HIDE DEF a
<1>. QED  BY <1>1, <1>2, <1>3 DEF HistType

(* The handlers that receive. *)

\* The handlers of generator/states-reply.c and states-reply-simple.c.
LEMMA ReplyType ==
  ASSUME TypeInv, ReplyStep
  PROVE  TypeInv'
<1>. USE DEF TypeInv, TypeOK
<1>1. CASE ReplyStart
  <2>1. RunType'
    BY <1>1, NextStateType, Zenon
       DEF ReplyStart, States, ReplyStates, RecvType, Block, RunType
  <2>2. RecvType' /\ NetType'
    <3>1. CASE UNCHANGED inb
      <4>1. NetType'
        BY <1>1, <3>1, Keep DEF ReplyStart, netVars
      <4>2. rlen' \in Nat /\ rbuf' \in {rbuf, "hdr"}
        BY <1>1, <3>1, SMTT(60) DEF ReplyStart, RecvType, HdrLen, Consume, NetType, Lower
      <4>3. hdr' \in Message
        BY <1>1, HeaderType DEF ReplyStart, RecvType
      <4>4. /\ reply_state' \in {reply_state, "START"}
            /\ UNCHANGED <<reply_cmd, payload_left>>
        BY <1>1 DEF ReplyStart
      <4>. QED  BY <4>1, <4>2, <4>3, <4>4 DEF RecvType
    <3>2. CASE ~UNCHANGED inb
      <4>. DEFINE k == Lower(HdrLen, inb.avail)
      <4>1. /\ Consume(k) /\ rlen' = HdrLen - k /\ hdr' = HeaderRead(HdrLen, k)
            /\ rbuf' = "hdr"
            /\ UNCHANGED <<reply_state, reply_cmd, payload_left, up, room, rx,
                           got, ans>>
        BY <1>1, <3>2 DEF ReplyStart
      <4>2. k \in Nat /\ k <= inb.avail /\ HdrLen - k \in Nat
        BY SMTT(60) DEF NetType, Lower, HdrLen
      <4>3. NetType'
        BY <4>1, <4>2, ConsumeType
      <4>4. hdr' \in Message
        BY <4>1, HeaderType
      <4>. QED  BY <4>1, <4>2, <4>3, <4>4 DEF RecvType
    <3>. QED  BY <3>1, <3>2
  <2>. QED  BY <1>1, <2>1, <2>2, Keep DEF ReplyStart
<1>2. CASE RecvReply
  <2>1. CASE RecvError
    BY <2>1, SendErrorType
  <2>2. CASE ~RecvError
    <3>1. RunType'
      BY <1>2, <2>2, NextStateType DEF RecvReply, States, ReplyStates
    <3>2. PICK k \in Nat :
            /\ k <= inb.avail /\ k <= rlen /\ Consume(k) /\ rlen' = rlen - k
            /\ hdr' = HeaderRead(rlen, k)
            /\ UNCHANGED <<listVars, cmd, sendVars, rbuf, reply_state, reply_cmd,
                           payload_left, up, room, rx, got, ans, histVars>>
      <4>1. rlen \in Nat /\ inb.avail \in Nat
        BY DEF RecvType, NetType
      <4>2. CASE RecvShort /\ Consume(inb.avail)
        BY <1>2, <2>2, <4>1, <4>2 DEF RecvReply, StillToRead, RecvShort, RecvAll
      <4>3. CASE RecvAll /\ Consume(rlen)
        BY <1>2, <2>2, <4>1, <4>3 DEF RecvReply, RecvShort, RecvAll
      <4>. QED  BY <1>2, <2>2, <4>2, <4>3 DEF RecvReply
    <3>3. NetType'
      BY <3>2, ConsumeType
    <3>4. RecvType'
      BY <3>2, HeaderType, SMTT(60) DEF RecvType
    <3>. QED  BY <3>1, <3>2, <3>3, <3>4, Keep
  <2>. QED  BY <2>1, <2>2
<1>3. CASE CheckReplyMagic
  <2>1. RunType'
    BY <1>3, NextStateType DEF CheckReplyMagic, States, ReplyStates, ResumeStates
  <2>2. Lookup(hdr.cookie) \in Cookie \cup {NULL}
    BY DEF Lookup, ListType
  <2>3. RecvType'
    BY <1>3, <2>2, SMTT(60) DEF CheckReplyMagic, RecvType, RemLen
  <2>. QED  BY <1>3, <2>1, <2>3, Keep DEF CheckReplyMagic
<1>4. CASE RecvStructuredRemaining
  <2>1. CASE RecvError \/ (At("RECV_STRUCTURED_REMAINING") /\ SaveAndReturn)
    BY <2>1, SendErrorType, SaveType DEF At, ResumeStates
  <2>2. CASE Received("RECV_STRUCTURED_REMAINING") /\ SET_NEXT_STATE("CHUNK.START")
    <3>1. /\ rlen' = 0
          /\ UNCHANGED <<cmd, rbuf, reply_cmd, payload_left, histVars>>
      BY <1>4, <2>2 DEF RecvStructuredRemaining, At, RecvError, SaveAndReturn,
                        SET_NEXT_STATE
    <3>2. RunType'
      BY <2>2, NextStateType DEF States, ReplyStates
    <3>3. RecvType'
      BY <2>2, <3>1, ReceivedType DEF RecvType
    <3>. QED  BY <2>2, <3>1, <3>2, <3>3, ReceivedType, Keep
  <2>. QED  BY <1>4, <2>1, <2>2 DEF RecvStructuredRemaining
<1>5. CASE SimpleStart
  <2>1. RunType'
    BY <1>5, NextStateType DEF SimpleStart, States, ReplyStates, ResumeStates
  <2>2. CASE reply_cmd = NULL
    BY <1>5, <2>1, <2>2, Keep DEF SimpleStart, recvVars
  <2>3. CASE reply_cmd # NULL
    <3>1. reply_cmd \in Cookie /\ hdr.error \in Errors /\ "EPROTO" \in Errors
      BY <2>3 DEF RecvType, Message, Errors
    <3>2. cmd[reply_cmd].count \in Nat /\ cmd[reply_cmd].data_seen \in Nat
      BY <3>1 DEF CmdType, Command
    <3>3. PICK e \in Errors :
            \/ /\ cmd' = [cmd EXCEPT ![reply_cmd].error = e,
                          ![reply_cmd].data_seen = @ + cmd[reply_cmd].count]
               /\ rbuf' = "data" /\ rlen' = cmd[reply_cmd].count
            \/ /\ cmd' = [cmd EXCEPT ![reply_cmd].error = e]
               /\ UNCHANGED <<rbuf, rlen>>
      BY <1>5, <2>3, <3>1, FirstErrorType DEF SimpleStart
    <3>4. CmdType'
      <4>. DEFINE n == cmd[reply_cmd].data_seen + cmd[reply_cmd].count
      <4>1. n \in Nat
        BY <3>2
      <4>2. \/ cmd' = [cmd EXCEPT ![reply_cmd].error = e,
                                   ![reply_cmd].data_seen = n]
            \/ cmd' = [cmd EXCEPT ![reply_cmd].error = e]
        BY <3>3
      <4>. HIDE DEF n
      <4>. QED  BY <3>1, <4>1, <4>2, CmdUpdate
    <3>5. RecvType'
      BY <1>5, <3>2, <3>3 DEF SimpleStart, RecvType
    <3>. QED  BY <1>5, <2>1, <3>4, <3>5, Keep DEF SimpleStart
  <2>. QED  BY <2>2, <2>3
<1>6. CASE RecvReadPayload
  <2>1. CASE RecvError \/ (At("RECV_READ_PAYLOAD") /\ SaveAndReturn)
    BY <2>1, SendErrorType, SaveType DEF At, ResumeStates
  <2>2. CASE Received("RECV_READ_PAYLOAD") /\ SET_NEXT_STATE("FINISH_COMMAND")
    <3>1. /\ reply_cmd # NULL /\ rlen' = 0
          /\ UNCHANGED <<rbuf, reply_cmd, payload_left, calls, told>>
          /\ \E e \in {cmd[reply_cmd].error, "EUSER"} :
                 cmd' = [cmd EXCEPT ![reply_cmd].error = e]
          /\ Fill(reply_cmd, 0..(cmd[reply_cmd].count - 1))
      BY <1>6, <2>2 DEF RecvReadPayload, At, RecvError, SaveAndReturn,
                        SET_NEXT_STATE
    <3>2. RunType'
      BY <2>2, NextStateType DEF States, ReplyStates
    <3>3. RecvType'
      BY <2>2, <3>1, ReceivedType DEF RecvType
    <3>4. reply_cmd \in Cookie /\ "EUSER" \in Errors
      BY <3>1 DEF RecvType, Errors
    <3>5. CmdType'
      BY <3>1, <3>4, FirstErrorType, CmdUpdate, Zenon
    <3>6. HistType'
      <4>1. cmd[reply_cmd].count \in Nat
        BY <3>4 DEF CmdType, Command
      <4>. QED  BY <3>1, <3>4, <4>1, FillType, SMTT(60) DEF HistType
    <3>. QED  BY <2>2, <3>1, <3>2, <3>3, <3>5, <3>6, ReceivedType, Keep
  <2>. QED  BY <1>6, <2>1, <2>2 DEF RecvReadPayload
<1>7. CASE FinishCommand
  <2>1. RunType'
    BY <1>7, NextStateType DEF FinishCommand, States
  <2>2. CASE reply_cmd = NULL
    BY <1>7, <2>1, <2>2, Keep DEF FinishCommand, recvVars, histVars
  <2>3. CASE reply_cmd # NULL
    <3>1. reply_cmd \in Cookie
      BY <2>3 DEF RecvType
    <3>2. CmdType'
      BY <1>7, <2>3, <3>1, CmdUpdate, Zenon DEF FinishCommand, CmdType, Errors
    <3>3. HistType'
      <4>1. calls' \in [Cookie -> Nat]
        BY <1>7, <2>3, <3>1, SMTT(60) DEF FinishCommand, HistType
      <4>2. told' \in [Cookie -> {"none", "ok", "failed"}]
        BY <1>7, <2>3, <3>1, Zenon DEF FinishCommand, HistType
      <4>. QED  BY <1>7, <4>1, <4>2 DEF FinishCommand, HistType
    <3>4. ListType' /\ CookieLeft'
      <4>1. Append(cmds_done, reply_cmd) \in Seq(Cookie)
        BY <3>1 DEF ListType
      <4>2. /\ cmds_done' \in {cmds_done, Append(cmds_done, reply_cmd)}
            /\ cmds_done_tail' \in {cmds_done_tail, reply_cmd}
            /\ cmds_in_flight' = cmds_in_flight \ {reply_cmd}
            /\ in_flight' = in_flight - 1
            /\ UNCHANGED <<cmds_to_issue, cmds_to_issue_tail, unique,
                           disconnect_request>>
        BY <1>7, <2>3 DEF FinishCommand
      <4>. QED  BY <3>1, <4>1, <4>2 DEF ListType, CookieLeft
    <3>5. RecvType'
      BY <1>7, <2>3 DEF FinishCommand, RecvType
    <3>. QED  BY <1>7, <2>1, <3>2, <3>3, <3>4, <3>5, Keep DEF FinishCommand
  <2>. QED  BY <2>2, <2>3
<1>. QED  BY <1>1, <1>2, <1>3, <1>4, <1>5, <1>6, <1>7 DEF ReplyStep

(***************************************************************************)
(* The chunk handlers.                                                     *)
(***************************************************************************)

\* A receiving state of the REPLY group that fails or falls short.
LEMMA NotAllType ==
  ASSUME TypeInv, NEW s \in ResumeStates, At(s) /\ (RecvError \/ SaveAndReturn)
  PROVE  TypeInv'
BY SendErrorType, SaveType DEF At

\* The other outcome: what was asked for is there, and the handler goes on,
\* leaving the reply buffer and the table of commands well typed.
LEMMA AllType ==
  ASSUME TypeInv, NEW s, Received(s), NEW t \in States, SET_NEXT_STATE(t),
         CmdType', HistType', rbuf' \in {"payload", "data", "bs_raw", "null", rbuf},
         rlen' \in Nat, payload_left' \in Nat, UNCHANGED reply_cmd
  PROVE  TypeInv'
<1>. USE DEF TypeInv, TypeOK
<1>1. RunType'
  BY NextStateType
<1>2. RecvType'
  BY ReceivedType DEF RecvType
<1>. QED  BY <1>1, <1>2, ReceivedType

\* The handlers of generator/states-reply-chunk.c.
LEMMA ChunkType ==
  ASSUME TypeInv, ChunkStep
  PROVE  TypeInv'
<1>. USE DEF TypeInv, TypeOK
<1>a. /\ hdr \in Message /\ rlen \in Nat /\ payload_left \in Nat
      /\ rbuf \in {"hdr", "payload", "data", "bs_raw", "null"}
      /\ reply_cmd \in Cookie \cup {NULL}
  BY DEF RecvType
<1>b. /\ hdr.length \in Nat /\ hdr.span \in Nat /\ hdr.msglen \in Nat
      /\ hdr.offset \in Nat /\ hdr.error \in Errors
  BY <1>a DEF Message
<1>c. ASSUME NEW c \in Cookie
      PROVE  /\ cmd[c].error \in Errors /\ cmd[c].count \in Nat
             /\ cmd[c].offset \in Nat /\ cmd[c].data_seen \in Nat
  BY DEF CmdType, Command
<1>d. {"EIO", "EPROTO", "ENOTCONN", "EUSER", "EOVERFLOW", NoErr} \subseteq Errors
  BY DEF Errors
<1>1. CASE ChunkStart
  <2>1. RunType'
    BY <1>1, NextStateType
       DEF ChunkStart, Resync, States, ReplyStates, ResumeStates
  <2>2. CmdType'
    <3>1. CASE UNCHANGED cmd
      BY <3>1, Keep
    <3>2. CASE ~UNCHANGED cmd
      <4>1. /\ reply_cmd # NULL
            /\ cmd' = [cmd EXCEPT ![reply_cmd].error =
                                    FirstError(reply_cmd, "EPROTO")]
        BY <1>1, <3>2 DEF ChunkStart
      <4>2. FirstError(reply_cmd, "EPROTO") \in Errors
        BY <1>a, <1>d, <4>1, FirstErrorType
      <4>. QED  BY <1>a, <4>1, <4>2, CmdUpdate, Zenon
    <3>. QED  BY <3>1, <3>2
  <2>3. /\ rbuf' \in {rbuf, "payload", "null"}
        /\ rlen' \in Nat /\ payload_left' \in Nat
    BY <1>1, <1>a, <1>b
       DEF ChunkStart, Resync, UsefulPayload, OffLen, HoleLen, BsHdr, ErrFixed,
           Lower, IsBlockStatus, IsError
  <2>4. RecvType'
    BY <1>1, <1>a, <2>3 DEF ChunkStart, RecvType
  <2>. QED  BY <1>1, <2>1, <2>2, <2>4, Keep DEF ChunkStart
<1>2. CASE RecvChunkError
  <2>. DEFINE left == payload_left - Lower(payload_left, ErrFixed)
  <2>1. left \in Nat
    BY <1>a DEF Lower, ErrFixed
  <2>2. CASE /\ Received("RECV_ERROR") /\ reply_cmd # NULL
             /\ \/ /\ cmd' = [cmd EXCEPT ![reply_cmd].error =
                                        FirstError(reply_cmd, hdr.error)]
                   /\ rbuf' = "null" /\ rlen' = left /\ payload_left' = 0
                   /\ SET_NEXT_STATE("RESYNC")
                \/ /\ ~(hdr.msglen > left)
                   /\ rbuf' = "payload" /\ rlen' = hdr.msglen
                   /\ payload_left' = left - hdr.msglen
                   /\ SET_NEXT_STATE("RECV_ERROR_MESSAGE")
                   /\ UNCHANGED cmd
             /\ UNCHANGED <<reply_cmd, histVars>>
    <3>1. CmdType'
      BY <1>a, <1>b, <2>2, FirstErrorType, CmdUpdate, Keep, Zenon
    <3>2. /\ rbuf' \in {"payload", "null"} /\ rlen' \in Nat
          /\ payload_left' \in Nat
      BY <1>b, <2>1, <2>2
    <3>3. HistType'
      BY <2>2, Keep
    <3>. QED  BY <2>2, <3>1, <3>2, <3>3, AllType
              DEF States, ReplyStates, ResumeStates
  <2>3. CASE At("RECV_ERROR") /\ (RecvError \/ SaveAndReturn)
    BY <2>3, NotAllType DEF ResumeStates
  <2>. QED  BY <1>2, <2>2, <2>3 DEF RecvChunkError, Resync
<1>3. CASE RecvErrorMessage
  <2>1. CASE /\ Received("RECV_ERROR_MESSAGE")
             /\ rbuf' \in {"payload", "null"} /\ rlen' = payload_left
             /\ payload_left' = 0 /\ SET_NEXT_STATE("RECV_ERROR_TAIL")
             /\ UNCHANGED <<cmd, reply_cmd, histVars>>
    BY <1>a, <2>1, AllType, Keep DEF States, ReplyStates, ResumeStates
  <2>. QED  BY <1>3, <2>1, NotAllType DEF RecvErrorMessage, ResumeStates
<1>4. CASE RecvErrorTail
  <2>1. CASE /\ Received("RECV_ERROR_TAIL") /\ reply_cmd # NULL
             /\ \E e \in Errors :
                  cmd' = [cmd EXCEPT ![reply_cmd].error =
                                       FirstError(reply_cmd, e)]
             /\ rlen' = 0 /\ SET_NEXT_STATE("CHUNK.FINISH")
             /\ UNCHANGED <<rbuf, reply_cmd, payload_left, histVars>>
    <3>1. CmdType'
      BY <1>a, <2>1, FirstErrorType, CmdUpdate, Zenon
    <3>. QED  BY <1>a, <2>1, <3>1, AllType, Keep DEF States, ReplyStates
  <2>. QED  BY <1>4, <1>b, <1>d, <2>1, NotAllType
            DEF RecvErrorTail, ResumeStates
<1>5. CASE RecvOffsetData
  <2>1. CASE /\ Received("RECV_OFFSET_DATA") /\ reply_cmd # NULL
             /\ \/ /\ cmd' = [cmd EXCEPT ![reply_cmd].data_seen =
                                      DataSeen(reply_cmd, payload_left)]
                   /\ rbuf' = "data" /\ rlen' = payload_left
                   /\ SET_NEXT_STATE("RECV_OFFSET_DATA_DATA")
                \/ /\ SET_NEXT_STATE("DEAD") /\ rlen' = 0
                   /\ UNCHANGED <<cmd, rbuf>>
             /\ UNCHANGED <<reply_cmd, payload_left, histVars>>
    <3>1. DataSeen(reply_cmd, payload_left) \in Nat
      BY <1>a, <1>c, <2>1 DEF DataSeen
    <3>2. CmdType'
      BY <1>a, <1>d, <2>1, <3>1, CmdUpdate, Keep, Zenon
    <3>. QED  BY <1>a, <2>1, <3>2, AllType, Keep
              DEF States, ReplyStates, ResumeStates
  <2>. QED  BY <1>5, <2>1, NotAllType DEF RecvOffsetData, ResumeStates
<1>e. ASSUME NEW c \in Cookie, NEW n
      PROVE  Stored(c, n) \subseteq Nat
  BY <1>c DEF Stored
<1>f. ASSUME NEW c \in Cookie
      PROVE  AfterCallback(c) \subseteq Errors
  BY <1>d, FirstErrorType DEF AfterCallback
<1>6. CASE RecvOffsetDataData
  <2>1. CASE /\ Received("RECV_OFFSET_DATA_DATA") /\ reply_cmd # NULL
             /\ \E e \in AfterCallback(reply_cmd) :
                  cmd' = [cmd EXCEPT ![reply_cmd].error = e]
             /\ Fill(reply_cmd, Stored(reply_cmd, payload_left))
             /\ rlen' = 0 /\ payload_left' = 0 /\ SET_NEXT_STATE("CHUNK.FINISH")
             /\ UNCHANGED <<rbuf, reply_cmd, calls, told>>
    <3>1. CmdType'
      BY <1>a, <1>f, <2>1, CmdUpdate, Zenon
    <3>2. HistType'
      BY <1>a, <1>e, <2>1, FillType DEF HistType
    <3>. QED  BY <1>a, <2>1, <3>1, <3>2, AllType DEF States, ReplyStates
  <2>. QED  BY <1>6, <2>1, NotAllType DEF RecvOffsetDataData, ResumeStates
<1>7. CASE RecvOffsetHole
  <2>1. CASE /\ Received("RECV_OFFSET_HOLE") /\ reply_cmd # NULL
             /\ \/ /\ \E e \in AfterCallback(reply_cmd) :
                        cmd' = [cmd EXCEPT
                                  ![reply_cmd].error = e,
                                  ![reply_cmd].data_seen =
                                      DataSeen(reply_cmd, hdr.span)]
                   /\ Fill(reply_cmd, Stored(reply_cmd, hdr.span))
                   /\ SET_NEXT_STATE("CHUNK.FINISH")
                \/ SET_NEXT_STATE("DEAD") /\ UNCHANGED <<cmd, cover>>
             /\ rlen' = 0
             /\ UNCHANGED <<rbuf, reply_cmd, payload_left, calls, told>>
    <3>1. DataSeen(reply_cmd, hdr.span) \in Nat
      BY <1>a, <1>b, <1>c, <2>1, SMTT(60) DEF DataSeen
    <3>2. CmdType'
      <4>1. CASE UNCHANGED cmd
        BY <4>1, Keep
      <4>2. CASE ~UNCHANGED cmd
        <5>1. PICK e \in AfterCallback(reply_cmd) :
                cmd' = [cmd EXCEPT ![reply_cmd].error = e,
                                   ![reply_cmd].data_seen =
                                       DataSeen(reply_cmd, hdr.span)]
          BY <2>1, <4>2, Zenon
        <5>2. e \in Errors
          BY <1>a, <1>f, <2>1
        <5>. QED  BY <1>a, <2>1, <3>1, <5>1, <5>2, CmdUpdate, Zenon
      <4>. QED  BY <4>1, <4>2
    <3>3. HistType'
      BY <1>a, <1>e, <2>1, FillType DEF HistType
    <3>. QED  BY <1>a, <2>1, <3>2, <3>3, AllType DEF States, ReplyStates
  <2>. QED  BY <1>7, <2>1, NotAllType, Zenon DEF RecvOffsetHole, ResumeStates
<1>8. CASE RecvBsHeader
  <2>. DEFINE left == payload_left - BsHdr
  <2>1. CASE /\ Received("RECV_BS_HEADER") /\ bs_reply_length_ok(payload_left)
             /\ \/ /\ rbuf' = "null" /\ rlen' = left /\ payload_left' = 0
                   /\ SET_NEXT_STATE("RESYNC")
                \/ /\ rbuf' = "bs_raw" /\ rlen' = left /\ payload_left' = 0
                   /\ SET_NEXT_STATE("RECV_BS_ENTRIES")
                \/ /\ rbuf' = rbuf /\ rlen' = 0 /\ payload_left' = left
                   /\ SET_NEXT_STATE("DEAD")
             /\ UNCHANGED <<cmd, reply_cmd, histVars>>
    <3>1. left \in Nat
      BY <1>a, <2>1 DEF bs_reply_length_ok, BsHdr, BsExtent
    <3>. QED  BY <2>1, <3>1, AllType, Keep DEF States, ReplyStates, ResumeStates
  <2>2. CASE At("RECV_BS_HEADER") /\ (RecvError \/ SaveAndReturn)
    BY <2>2, NotAllType DEF ResumeStates
  <2>. QED  BY <1>8, <2>1, <2>2 DEF RecvBsHeader, Resync
<1>9. CASE RecvBsEntries
  <2>1. CASE /\ Received("RECV_BS_ENTRIES") /\ reply_cmd # NULL
             /\ \E e \in Errors :
                  cmd' = [cmd EXCEPT ![reply_cmd].error =
                                       FirstError(reply_cmd, e)]
             /\ rlen' = 0 /\ SET_NEXT_STATE("CHUNK.FINISH")
             /\ UNCHANGED <<rbuf, reply_cmd, payload_left, histVars>>
    <3>1. CmdType'
      BY <1>a, <2>1, FirstErrorType, CmdUpdate, Zenon
    <3>. QED  BY <1>a, <2>1, <3>1, AllType, Keep DEF States, ReplyStates
  <2>. QED  BY <1>9, <1>d, <2>1, NotAllType DEF RecvBsEntries, ResumeStates
<1>10. CASE ResyncPayload
  <2>1. CASE /\ Received("RESYNC")
             /\ \/ UNCHANGED cmd /\ SET_NEXT_STATE("FINISH_COMMAND")
                \/ /\ reply_cmd # NULL
                   /\ cmd' = [cmd EXCEPT ![reply_cmd].error =
                                           FirstError(reply_cmd, "EPROTO")]
                   /\ SET_NEXT_STATE("CHUNK.FINISH")
             /\ rlen' = 0
             /\ UNCHANGED <<rbuf, reply_cmd, payload_left, histVars>>
    <3>1. CmdType'
      BY <1>a, <1>d, <2>1, FirstErrorType, CmdUpdate, Keep, Zenon
    <3>. QED  BY <1>a, <2>1, <3>1, AllType, Keep DEF States, ReplyStates
  <2>. QED  BY <1>10, <2>1, NotAllType DEF ResyncPayload, ResumeStates
<1>11. CASE ChunkFinish
  <2>1. RunType'
    BY <1>11, NextStateType DEF ChunkFinish, States, ReplyStates
  <2>2. RecvType'
    BY <1>11 DEF ChunkFinish, RecvType
  <2>. QED  BY <1>11, <2>1, <2>2, Keep DEF ChunkFinish
<1>. QED  BY <1>1, <1>2, <1>3, <1>4, <1>5, <1>6, <1>7, <1>8, <1>9, <1>10, <1>11, Zenon
          DEF ChunkStep

(***************************************************************************)
(* The calls, the server and the top level.                                *)
(***************************************************************************)

\* Queueing a command: there is a cookie for it.
LEMMA CommonType ==
  ASSUME TypeInv, NEW t \in Template, nbd_internal_command_common(t),
         unique <= MaxCmds
  PROVE  /\ CmdType' /\ SendType' /\ RecvType' /\ NetType' /\ HistType'
         /\ SendingOne' /\ state' \in States /\ running' \in BOOLEAN
         /\ disconnect_request' \in BOOLEAN => ListType'
         /\ unique' = unique + 1
<1>. USE DEF TypeInv, TypeOK
<1>1. unique \in Cookie /\ unique + 1 \in 1..(MaxCmds + 1)
  BY HandleAssumption, SMTT(60) DEF ListType, Cookie
<1>2. MkCommand(t) \in Command
  BY DEF MkCommand, Template, Command, Errors, NoErr
<1>3. CmdType'
  BY <1>1, <1>2 DEF nbd_internal_command_common, CmdType
<1>4. Append(cmds_to_issue, unique) \in Seq(Cookie)
  BY <1>1 DEF ListType
<1>5. disconnect_request' \in BOOLEAN => ListType'
  BY <1>1, <1>4 DEF nbd_internal_command_common, ListType
<1>6. state' \in States /\ running' \in BOOLEAN
  BY Zenon DEF nbd_internal_command_common, RunType, States, IssueStates
<1>7. /\ unique' = unique + 1
      /\ UNCHANGED <<sendVars, recvVars, netVars, histVars>>
  BY DEF nbd_internal_command_common
<1>. QED  BY <1>3, <1>5, <1>6, <1>7, Keep

\* Unlinking a completed command.
LEMMA CompletedType ==
  ASSUME TypeInv, NEW c \in Cookie, nbd_unlocked_aio_command_completed(c)
  PROVE  /\ ListType' /\ CmdType' /\ SendType' /\ RecvType' /\ NetType'
         /\ HistType' /\ CookieLeft' /\ SendingOne' /\ state' \in States
         /\ running' \in BOOLEAN
<1>. USE DEF TypeInv, TypeOK
<1>1. PICK i \in 1..Len(cmds_done) :
        /\ cmds_done' = [j \in 1..(Len(cmds_done) - 1) |->
                           IF j < i THEN cmds_done[j] ELSE cmds_done[j + 1]]
        /\ cmds_done_tail' = IF cmds_done_tail # c THEN cmds_done_tail
                             ELSE IF i = 1 THEN NULL ELSE cmds_done[i - 1]
        /\ told' = [told EXCEPT ![c] = IF Success(c) THEN "ok" ELSE "failed"]
        /\ UNCHANGED <<state, running, cmds_to_issue, cmds_to_issue_tail,
                       cmds_in_flight, in_flight, unique, disconnect_request,
                       cmd, sendVars, recvVars, netVars, calls, cover>>
  BY DEF nbd_unlocked_aio_command_completed, Previous
<1>2. cmds_done' \in Seq(Cookie)
  BY <1>1, RemoveAtType DEF ListType
<1>3. cmds_done_tail' \in Cookie \cup {NULL}
  BY <1>1, SMTT(60) DEF ListType
<1>4. ListType' /\ CookieLeft'
  BY <1>1, <1>2, <1>3 DEF ListType, CookieLeft
<1>5. HistType'
  BY <1>1 DEF HistType
<1>6. state' \in States /\ running' \in BOOLEAN
  BY <1>1 DEF RunType
<1>. QED  BY <1>1, <1>4, <1>5, <1>6, Keep

\* The calls of lib/rw.c, lib/aio.c, lib/disconnect.c, lib/poll.c, nbd_close.
LEMMA ApiType ==
  ASSUME TypeInv, ApiStep
  PROVE  TypeInv'
<1>. USE DEF TypeInv, TypeOK
<1>a. NULL \in Cookie \cup {NULL}
  OBVIOUS
<1>1. CASE \E t \in Templates : AioCommand(t) \/ SyncCommand(t)
  <2>1. PICK t \in Template :
          /\ unique < MaxCmds /\ nbd_internal_command_common(t)
          /\ UNCHANGED disconnect_request
          /\ api' = api \/ api' = [op |-> "wait", c |-> unique]
    BY <1>1, HandleAssumption DEF AioCommand, SyncCommand
  <2>2. unique \in Cookie /\ unique <= MaxCmds /\ unique + 1 <= MaxCmds
    BY <2>1, HandleAssumption, SMTT(60) DEF ListType, Cookie
  <2>3. disconnect_request' \in BOOLEAN
    BY <2>1 DEF ListType
  <2>4. RunType'
    BY <2>1, <2>2, CommonType, SMTT(60) DEF RunType
  <2>5. CookieLeft'
    BY <2>1, <2>2, CommonType DEF CookieLeft
  <2>. QED  BY <2>1, <2>2, <2>3, <2>4, <2>5, CommonType
<1>2. CASE AioDisconnect \/ ShutdownDisconnect
  <2>1. api' \in {api, [op |-> "shutdown", c |-> NULL]}
    BY <1>2 DEF AioDisconnect, ShutdownDisconnect
  <2>2. CASE disconnect_request
    <3>1. UNCHANGED <<state, running, listVars, cmd, sendVars, recvVars,
                      netVars, histVars>>
      BY <1>2, <2>2 DEF AioDisconnect, ShutdownDisconnect,
                        nbd_internal_command_common, Accepting
    <3>2. RunType'
      BY <2>1, <3>1, SMTT(60) DEF RunType
    <3>. QED  BY <3>1, <3>2, Keep
  <2>3. CASE ~disconnect_request
    <3>1. nbd_internal_command_common(DiscTemplate) /\ disconnect_request' = TRUE
      BY <1>2, <2>3 DEF AioDisconnect, ShutdownDisconnect
    <3>2. unique <= MaxCmds
      BY <2>3 DEF CookieLeft
    <3>3. RunType'
      BY <2>1, <3>1, <3>2, CommonType, DiscTemplateType, SMTT(60) DEF RunType
    <3>4. CookieLeft'
      BY <3>1 DEF CookieLeft
    <3>. QED  BY <3>1, <3>2, <3>3, <3>4, CommonType, DiscTemplateType
  <2>. QED  BY <2>2, <2>3
<1>3. CASE \E c \in Cookie : CommandCompleted(c)
  <2>1. PICK c \in Cookie : nbd_unlocked_aio_command_completed(c) /\ api' = api
    BY <1>3 DEF CommandCompleted
  <2>2. RunType'
    BY <2>1, CompletedType DEF RunType
  <2>. QED  BY <2>1, <2>2, CompletedType
<1>4. CASE \E f \in ShutdownFlags : Shutdown(f)
  <2>1. /\ api' = [op |-> "disc", c |-> NULL]
        /\ UNCHANGED <<state, running, sendVars, recvVars, netVars>>
    BY <1>4 DEF Shutdown
  <2>2. RunType'
    BY <2>1 DEF RunType
  <2>3. CASE UNCHANGED <<listVars, cmd, histVars>>
    BY <2>1, <2>2, <2>3, Keep
  <2>4. CASE \E A \in SUBSET Queued :
               /\ nbd_internal_abort_commands(A)
               /\ \/ cmds_to_issue' = <<>> /\ UNCHANGED cmds_to_issue_tail
                  \/ /\ cmds_to_issue # <<>>
                     /\ cmds_to_issue' = <<Head(cmds_to_issue)>>
                     /\ cmds_to_issue_tail' = Head(cmds_to_issue)
               /\ UNCHANGED <<cmds_in_flight, in_flight, unique,
                              disconnect_request, cover>>
    <3>1. Queued \subseteq Cookie
      BY SMTT(60) DEF Queued, ListType
    <3>2. PICK A \in SUBSET Cookie : nbd_internal_abort_commands(A)
      BY <2>4, <3>1
    <3>3. /\ cmd' \in [Cookie -> Command]
          /\ cmds_done' \in Seq(Cookie)
          /\ cmds_done_tail' \in Cookie \cup {NULL}
          /\ calls' \in [Cookie -> Nat]
          /\ told' \in [Cookie -> {"none", "ok", "failed"}]
      BY <3>2, AbortType
    <3>4. /\ cmds_to_issue' \in Seq(Cookie)
          /\ cmds_to_issue_tail' \in Cookie \cup {NULL}
      <4>1. cmds_to_issue # <<>> => Head(cmds_to_issue) \in Cookie
        BY SMTT(60) DEF ListType
      <4>2. \A c \in Cookie : <<c>> \in Seq(Cookie)
        OBVIOUS
      <4>3. <<>> \in Seq(Cookie)
        OBVIOUS
      <4>. QED  BY <2>4, <4>1, <4>2, <4>3, Zenon DEF ListType
    <3>5. ListType' /\ CookieLeft'
      BY <2>4, <3>3, <3>4 DEF ListType, CookieLeft
    <3>6. HistType' /\ CmdType'
      BY <2>4, <3>3 DEF HistType, CmdType
    <3>. QED  BY <2>1, <2>2, <3>5, <3>6, Keep
  <2>. QED
    <3>1. Abandoned \in SUBSET Queued
      BY DEF Abandoned
    <3>. QED  BY <1>4, <2>3, <2>4, <3>1 DEF Shutdown, KeptQueue
<1>5. CASE WaitForCommand
  <2>1. CASE api' = Idle /\ nbd_unlocked_aio_command_completed(api.c)
    <3>1. api.c \in Cookie
      <4>1. \E i \in 1..Len(cmds_done) : cmds_done[i] = api.c
        BY <2>1, Zenon DEF nbd_unlocked_aio_command_completed
      <4>. QED  BY <4>1 DEF ListType
    <3>2. RunType'
      BY <2>1, <3>1, CompletedType DEF RunType, Idle
    <3>. QED  BY <2>1, <3>1, <3>2, CompletedType
  <2>2. CASE /\ api' = Idle
             /\ UNCHANGED <<state, running, listVars, cmd, sendVars, recvVars,
                            netVars, histVars>>
    <3>1. RunType'
      BY <2>2 DEF RunType, Idle
    <3>. QED  BY <2>2, <3>1, Keep
  <2>. QED  BY <1>5, <2>1, <2>2 DEF WaitForCommand
<1>6. CASE ShutdownReturn \/ PollError
  <2>1. RunType'
    BY <1>6, SMTT(60) DEF ShutdownReturn, PollError, RunType, Idle
  <2>. QED  BY <1>6, <2>1, Keep DEF ShutdownReturn, PollError
<1>7. CASE NotifyRead \/ NotifyWrite
  <2>1. state' \in States /\ running' \in BOOLEAN
    BY <1>7, Zenon DEF NotifyRead, NotifyWrite, RunType, States, IssueStates, ReplyStates
  <2>2. api' \in {api, [api EXCEPT !.op = "poll"]}
    BY <1>7 DEF NotifyRead, NotifyWrite, Polled
  <2>3. RunType'
    BY <2>1, <2>2 DEF RunType
  <2>. QED  BY <1>7, <2>3, Keep DEF NotifyRead, NotifyWrite
<1>8. CASE Close
  <2>1. RunType'
    BY <1>8, Zenon DEF Close, RunType, States
  <2>2. ListType' /\ CookieLeft'
    BY <1>8 DEF Close, ListType, CookieLeft
  <2>3. HistType'
    BY <1>8, SMTT(60) DEF Close, HistType
  <2>. QED  BY <1>8, <2>1, <2>2, <2>3, Keep, Zenon DEF Close
<1>. QED  BY <1>1, <1>2, <1>3, <1>4, <1>5, <1>6, <1>7, <1>8, Zenon DEF ApiStep

\* generator/states.c: READY, DEAD and CLOSED.
LEMMA TopType ==
  ASSUME TypeInv, Ready \/ Dead \/ Closed
  PROVE  TypeInv'
<1>. USE DEF TypeInv, TypeOK
<1>1. CASE Ready
  <2>1. RunType'
    BY <1>1, NextStateType
       DEF Ready, States, IssueStates, ReplyStates, Block, RunType
  <2>. QED  BY <1>1, <2>1, Keep DEF Ready
<1>2. ASSUME NEW s \in {"DEAD", "CLOSED"}, Terminal(s)
      PROVE  TypeInv'
  <2>1. RunType'
    BY <1>2, NextStateType DEF Terminal, Block, RunType
  <2>2. Queued \cup cmds_in_flight \subseteq Cookie
    BY SMTT(60) DEF Queued, ListType
  <2>3. /\ cmd' \in [Cookie -> Command]
        /\ cmds_done' \in Seq(Cookie)
        /\ cmds_done_tail' \in Cookie \cup {NULL}
        /\ calls' \in [Cookie -> Nat]
        /\ told' \in [Cookie -> {"none", "ok", "failed"}]
    BY <1>2, <2>2, AbortType DEF Terminal
  <2>4. ListType' /\ CookieLeft'
    BY <1>2, <2>3, SMTT(60) DEF Terminal, ListType, CookieLeft
  <2>5. HistType' /\ CmdType'
    BY <1>2, <2>3 DEF Terminal, HistType, CmdType
  <2>. QED  BY <1>2, <2>1, <2>4, <2>5, Keep DEF Terminal
<1>. QED  BY <1>1, <1>2 DEF Dead, Closed

\* The other end of the socket.
LEMMA ServerType ==
  ASSUME TypeInv, Server
  PROVE  TypeInv'
<1>. USE DEF TypeInv, TypeOK
<1>1. ASSUME NEW m \in Message, Transmit(m), ans' \subseteq Cookie
      PROVE  TypeInv'
  <2>1. Size(m) \in Nat
    BY SMTT(60) DEF Size, Message, HdrLen, RemLen
  <2>2. NetType'
    BY <1>1, <2>1, SMTT(60) DEF Transmit, NetType
  <2>. QED  BY <1>1, <2>2, Keep DEF Transmit
<1>2. ASSUME NEW m \in Shapes, NEW c \in Cookie \cup {NULL}
      PROVE  [m EXCEPT !.cookie = c] \in Message
  <2>1. m \in Message
    BY HandleAssumption, Zenon
  <2>. QED  BY <2>1, Zenon DEF Message
<1>3. CASE \E c \in Cookie, m \in Shapes : ServerReply(c, m)
  BY <1>1, <1>2, <1>3 DEF ServerReply, NetType
<1>4. CASE \E m \in Shapes : ServerStray(m)
  BY <1>1, <1>2, <1>4 DEF ServerStray, NetType
<1>5. CASE Deliver
  <2>1. NetType'
    BY <1>5, SMTT(60) DEF Deliver, NetType
  <2>. QED  BY <1>5, <2>1, Keep DEF Deliver
<1>6. CASE Drain
  <2>1. NetType'
    BY <1>6, HandleAssumption, SMTT(60) DEF Drain, NetType
  <2>. QED  BY <1>6, <2>1, Keep DEF Drain
<1>7. CASE ServerClose
  <2>1. NetType'
    BY <1>7, Zenon DEF ServerClose, NetType
  <2>. QED  BY <1>7, <2>1, Keep DEF ServerClose
<1>8. CASE ConnectionLost
  <2>1. NetType'
    <3>1. PICK l \in Nat : inb' = [inb EXCEPT !.left = l] /\ inb.avail <= l
      <4>1. inb.left \in Nat /\ inb.avail \in Nat /\ inb.avail <= inb.left
        BY DEF NetType
      <4>. QED  BY <1>8, <4>1, SMTT(60) DEF ConnectionLost
    <3>2. up' = FALSE /\ UNCHANGED <<room, rx, got, ans>>
      BY <1>8 DEF ConnectionLost
    <3>. QED  BY <3>1, <3>2, Zenon DEF NetType
  <2>. QED  BY <1>8, <2>1, Keep DEF ConnectionLost
<1>. QED  BY <1>3, <1>4, <1>5, <1>6, <1>7, <1>8 DEF Server

\* The sizes among the constants.
LEMMA Sizes == MaxCmds \in Nat /\ 1 <= MaxCmds /\ SockBuf \in Nat
BY HandleAssumption, SMTT(60)

\* A handle that has just become READY.
LEMMA InitType == Init => TypeInv
<1>. SUFFICES ASSUME Init PROVE TypeInv
  OBVIOUS
<1>1. RunType
  BY Zenon DEF Init, RunType, States, Idle
<1>8. SendType /\ SendingOne
  <2>1. wlen = 0 /\ wbuf = "req" /\ req = NULL /\ in_write_payload = FALSE
        /\ in_write_shutdown = FALSE
    BY Zenon DEF Init
  <2>2. SendingOne
    BY <2>1 DEF SendingOne
  <2>3. 0 \in Nat
    OBVIOUS
  <2>. QED  BY <2>1, <2>2, <2>3, Zenon DEF SendType
<1>2. ListType /\ CookieLeft
  <2>1. 1 \in 1..(MaxCmds + 1) /\ 1 <= MaxCmds /\ 0 \in Int
    BY Sizes
  <2>2. <<>> \in Seq(Cookie) /\ {} \subseteq Cookie
    OBVIOUS
  <2>. QED  BY <2>1, <2>2, Zenon DEF Init, ListType, CookieLeft
<1>3. CmdType
  <2>1. MkCommand(DiscTemplate) \in Command
    BY Zenon DEF MkCommand, DiscTemplate, Command, CmdTypes, Errors, NoErr
  <2>. QED  BY <2>1, Zenon DEF Init, CmdType
<1>4. Garbage \in Message
  BY Zenon DEF Garbage, Message, Magics, ChunkTypes, Errors, NoErr, NULL
<1>5. RecvType
  BY <1>4, Zenon DEF Init, RecvType
<1>6. NetType
  <2>1. SockBuf \in 0..SockBuf /\ 0 <= 0 /\ 0 \in Int /\ 0 \in Nat
    BY Sizes
  <2>2. inb \in [msg : Message, left : Nat, avail : Nat, fresh : BOOLEAN]
    BY <1>4, <2>1, Zenon DEF Init
  <2>3. inb.avail = 0 /\ inb.left = 0
    BY Zenon DEF Init
  <2>. QED  BY <2>1, <2>2, <2>3, Zenon DEF Init, NetType
<1>7. HistType
  BY Zenon DEF Init, HistType
<1>. QED  BY <1>1, <1>2, <1>3, <1>5, <1>6, <1>7, <1>8 DEF TypeInv, TypeOK

\* Every step of the handle, the program and the server.
LEMMA NextType == TypeInv /\ [Next]_vars => TypeInv'
<1>. SUFFICES ASSUME TypeInv, [Next]_vars PROVE TypeInv'
  OBVIOUS
<1>1. CASE Next
  BY <1>1, IssueType, ReplyType, ChunkType, TopType, ApiType, ServerType
     DEF Next, Engine
<1>2. CASE UNCHANGED vars
  BY <1>2, Keep DEF vars, TypeInv, TypeOK
<1>. QED  BY <1>1, <1>2

(***************************************************************************)
(* Where the state machine waits, and what wakes it up.                    *)
(***************************************************************************)

\* A handler of a reply goes on running, except in REPLY.START where there is
\* nothing to read.
LEMMA ReplyMoves ==
  ASSUME TypeInv, ReplyStep \/ ChunkStep
  PROVE  \/ running' /\ state' \notin ReadStates
         \/ /\ state' = "REPLY.START" /\ state = "REPLY.START" /\ running
            /\ Spurious \/ (inb.avail = 0 /\ ~Eof)
<1>. USE DEF ReadStates, At, SET_NEXT_STATE
<1>1. CASE ReplyStart
  BY <1>1 DEF ReplyStart, Block, SET_NEXT_STATE_AND_BLOCK, TypeInv, TypeOK,
              RecvType, ResumeStates
<1>2. CASE RecvReply \/ CheckReplyMagic
  BY <1>2 DEF RecvReply, RecvError, CheckReplyMagic
<1>3. CASE ~ReplyStart /\ ~RecvReply /\ ~CheckReplyMagic
  <2>1. \E t \in {"READY", "DEAD", "CHUNK.START", "FINISH_COMMAND",
                  "RECV_READ_PAYLOAD", "CHUNK.FINISH", "RESYNC",
                  "RECV_OFFSET_DATA", "RECV_OFFSET_HOLE", "RECV_BS_HEADER",
                  "RECV_ERROR", "RECV_ERROR_MESSAGE", "RECV_ERROR_TAIL",
                  "RECV_OFFSET_DATA_DATA", "RECV_BS_ENTRIES"} :
          SET_NEXT_STATE(t)
    BY <1>3, ZenonT(120)
       DEF ReplyStep, ChunkStep, RecvStructuredRemaining, SimpleStart,
           RecvReadPayload, FinishCommand, ChunkStart, RecvChunkError,
           RecvErrorMessage, RecvErrorTail, RecvOffsetData,
           RecvOffsetDataData, RecvOffsetHole, RecvBsHeader, RecvBsEntries,
           ResyncPayload, ChunkFinish, RecvError, SaveAndReturn, Resync
  <2>. QED  BY <2>1
<1>. QED  BY <1>1, <1>2, <1>3

\* What made a socket readable stays there until it is read.
LEMMA ServerAwake ==
  ASSUME TypeInv, Server, inb.avail > 0 \/ Eof
  PROVE  (inb.avail > 0 \/ Eof)'
<1>1. /\ inb.avail \in Nat /\ inb.left \in Nat /\ inb.avail <= inb.left
      /\ inb \in [msg : Message, left : Nat, avail : Nat, fresh : BOOLEAN]
  BY DEF TypeInv, TypeOK, NetType
<1>2. CASE \E m : Transmit(m)
  BY <1>1, <1>2 DEF Transmit, Eof
<1>3. CASE Deliver \/ ConnectionLost
  BY <1>1, <1>3, SMTT(60) DEF Deliver, ConnectionLost, Eof
<1>4. CASE Drain \/ ServerClose
  BY <1>4 DEF Drain, ServerClose, Eof
<1>. QED  BY <1>2, <1>3, <1>4, Zenon DEF Server, ServerReply, ServerStray

\* A call starts the state machine only through READY, an event or the end.
LEMMA ApiMoves ==
  ASSUME TypeInv, ApiStep
  PROVE  /\ ~running /\ UNCHANGED <<up, inb>>
         /\ \/ UNCHANGED <<state, running>>
            \/ state' = "FREED"
            \/ running' /\ state' \notin ReadStates
            \/ NotifyRead
<1>. USE DEF ReadStates, Calling, CanCall, Polling
<1>1. CASE \E t \in Templates : AioCommand(t) \/ SyncCommand(t)
  BY <1>1 DEF AioCommand, SyncCommand, nbd_internal_command_common, netVars
<1>2. CASE (\E c \in Cookie : CommandCompleted(c)) \/ WaitForCommand
  BY <1>2 DEF CommandCompleted, WaitForCommand, netVars,
              nbd_unlocked_aio_command_completed
<1>3. CASE \E f \in ShutdownFlags : Shutdown(f)
  BY <1>3, Zenon DEF Shutdown, netVars
<1>4. CASE AioDisconnect \/ ShutdownDisconnect
  BY <1>4 DEF AioDisconnect, ShutdownDisconnect, nbd_internal_command_common,
              netVars
<1>5. CASE ShutdownReturn \/ NotifyRead \/ NotifyWrite \/ PollError \/ Close
  BY <1>5 DEF ShutdownReturn, NotifyRead, NotifyWrite, PollError, Close, netVars,
              TypeInv, TypeOK, RunType
<1>. QED  BY <1>1, <1>2, <1>3, <1>4, <1>5 DEF ApiStep

\* AwakeInv is inductive.
LEMMA NextAwake == TypeInv /\ AwakeInv /\ [Next]_vars => AwakeInv'
<1>. SUFFICES ASSUME TypeInv, WaitsInPlace, ReadAwake, [Next]_vars PROVE AwakeInv'
  BY DEF AwakeInv
<1>. USE DEF AwakeInv, WaitsInPlace
<1>0. running \in BOOLEAN
  BY DEF TypeInv, TypeOK, RunType
<1>1. CASE ReplyStep \/ ChunkStep
  BY <1>1, ReplyMoves DEF ReadAwake, ReadStates, WaitStates
<1>2. CASE IssueStep
  BY <1>2, IssueMoves DEF ReadAwake, ReadStates, Eof
<1>3. CASE Ready
  BY <1>3 DEF Ready, At, Block, SET_NEXT_STATE, SET_NEXT_STATE_AND_BLOCK, ReadAwake,
              ReadStates, WaitStates, netVars
<1>4. CASE Dead \/ Closed
  BY <1>4 DEF Dead, Closed, Terminal, At, Block, SET_NEXT_STATE_AND_BLOCK,
              ReadAwake, ReadStates, Stopped
<1>5. CASE Server
  <2>1. UNCHANGED <<state, running>>
    BY <1>5, ServerFrom DEF runVars
  <2>. QED  BY <1>5, <2>1, ServerAwake DEF ReadAwake, Stopped
<1>6. CASE NotifyRead
  BY <1>6 DEF NotifyRead, Readable, ReadAwake, ReadStates, netVars, Eof
<1>7. CASE ApiStep /\ ~NotifyRead
  BY <1>0, <1>7, ApiMoves DEF ReadAwake, ReadStates, Eof, Stopped
<1>8. CASE UNCHANGED vars
  BY <1>8 DEF vars, runVars, netVars, ReadAwake, Eof, Stopped
<1>. QED  BY <1>1, <1>2, <1>3, <1>4, <1>5, <1>6, <1>7, <1>8 DEF Next, Engine

\* A new handle is READY.
LEMMA InitAwake == Init => AwakeInv
<1>1. Init => state = "READY"
  BY DEF Init
<1>. QED  BY <1>1 DEF AwakeInv, WaitsInPlace, ReadAwake, WaitStates, ReadStates

(***************************************************************************)
(* The assertions of the calls.                                            *)
(***************************************************************************)

\* The assertions of nbd_internal_command_common and nbd_shutdown.
LEMMA CallAsserts ==
  ASSUME TypeInv, ListInv, SendInv, EndInv, AwakeInv,
         "abandon_pending" \in ShutdownFlags => ~Spurious
  PROVE  ApiAsserts
<1>1. TailsOK /\ FreedEmpty /\ SendControl
  BY DEF EndInv, SendInv
<1>2. ASSUME Connected, ~running
      PROVE  IF cmds_to_issue # <<>> THEN is_state_processing
             ELSE cmds_to_issue_tail = NULL
  BY <1>1, <1>2, ConnectedRuns DEF TailsOK, SendControl, QueueSeen, Connected,
                                   is_state_ready, Stopped
<1>3. ASSUME ~running, is_state_processing, "abandon_pending" \in ShutdownFlags
      PROVE  cmds_to_issue # <<>>
  <2>1. state \in WaitStates \ {"READY", "REPLY.START"} /\ ~Stopped
    BY <1>3 DEF AwakeInv, WaitsInPlace, ReadAwake, is_state_processing,
                IssueStates, ReplyStates, ResumeStates, Stopped
  <2>. QED  BY <1>1, <2>1 DEF SendControl, BufferIsHead, HeadIsReq, SendStates,
                              IssueStates, WaitStates
<1>4. \A c \in Done : cmd[c].type # "DISC"
  <2>1. CASE state = "FREED"
    BY <1>1, <2>1, ListFacts, ShortSeqs DEF FreedEmpty
  <2>2. CASE state # "FREED"
    BY <2>2, ListFacts DEF ListInv, OneList, Issued
  <2>. QED  BY <2>1, <2>2
<1>5. cmds_done_tail = NULL => cmds_done = <<>>
  <2>1. CASE state = "FREED"
    BY <1>1, <2>1 DEF FreedEmpty
  <2>2. CASE state # "FREED" /\ cmds_done # <<>>
    <3>1. cmds_done_tail = cmds_done[Len(cmds_done)]
      BY <1>1, <2>2 DEF TailsOK
    <3>2. cmds_done[Len(cmds_done)] \in Cookie
      BY <2>2, EmptyLen, ListFacts, SMTT(60)
    <3>. QED  BY <3>1, <3>2, NotNull
  <2>. QED  BY <2>1, <2>2
<1>. QED  BY <1>2, <1>3, <1>4, <1>5 DEF ApiAsserts, Calling

(***************************************************************************)
(* NBD_CMD_DISC is never answered, and so never lost.                      *)
(***************************************************************************)

\* The command a reply completes is one the server has read and answers.
LEMMA FinishNotDisc ==
  ASSUME TypeInv, ListInv, RecvInv, FinishCommand, reply_cmd # NULL
  PROVE  cmd[reply_cmd].type # "DISC"
<1>1. reply_cmd = hdr.cookie
  BY DEF FinishCommand, Lookup
<1>. QED  BY <1>1 DEF RecvInv, CookiesKnown, KnownCookie

\* Asking for a disconnect queues NBD_CMD_DISC.
LEMMA QueuedDisc ==
  ASSUME TypeInv, ListInv, unique <= MaxCmds,
         nbd_internal_command_common(DiscTemplate)
  PROVE  unique \in Live' /\ cmd'[unique].type = "DISC"
<1>1. unique \in Cookie
  BY HandleAssumption, SMTT(60) DEF TypeInv, TypeOK, ListType, Cookie
<1>2. unique \notin Rng(cmds_to_issue)
  BY <1>1, FreshCookie, ListFacts, SMTT(60)
<1>3. Queued' = Queued \cup {unique}
  BY <1>1, <1>2, ListFacts, AppendInj, SMTT(60) DEF nbd_internal_command_common
<1>4. cmd'[unique].type = "DISC"
  BY <1>1 DEF nbd_internal_command_common, MkCommand, DiscTemplate, TypeInv,
              TypeOK, CmdType
<1>. QED  BY <1>3, <1>4, ListFacts

\* disconnect_request is set only where NBD_CMD_DISC is queued.
LEMMA DiscFlag ==
  ASSUME TypeInv, [Next]_vars
  PROVE  \/ UNCHANGED disconnect_request
         \/ nbd_internal_command_common(DiscTemplate)
<1>1. CASE ReplyStep \/ ChunkStep
  BY <1>1, ReplyFrame DEF ReplyKeeps
<1>2. CASE IssueStep
  BY <1>2, Zenon DEF IssueStep, IssueStart, SendRequest, PauseSendRequest,
              PrepareWritePayload, SendWritePayload, PauseWritePayload,
              SendWriteShutdown, PauseWriteShutdown, IssueFinish, SendThen,
              SendError, listVars
<1>3. CASE Ready \/ Dead \/ Closed
  BY <1>3 DEF Ready, Dead, Closed, Terminal, listVars
<1>4. CASE Server
  BY <1>4, ServerFrom, Zenon DEF listVars
<1>5. CASE ApiStep
  BY <1>5, ZenonT(60)
     DEF ApiStep, AioCommand, SyncCommand, CommandCompleted, WaitForCommand,
         nbd_unlocked_aio_command_completed, Shutdown, AioDisconnect,
         ShutdownDisconnect, ShutdownReturn, NotifyRead, NotifyWrite, PollError,
         Close, listVars
<1>6. CASE UNCHANGED vars
  BY <1>6 DEF vars, listVars
<1>. QED  BY <1>1, <1>2, <1>3, <1>4, <1>5, <1>6 DEF Next, Engine

\* Only FINISH_COMMAND takes a command out of flight, until all are aborted.
LEMMA FlightKept ==
  ASSUME TypeInv, ListInv, [Next]_vars, ~Stopped',
         ~(FinishCommand /\ reply_cmd # NULL)
  PROVE  cmds_in_flight \subseteq cmds_in_flight'
<1>1. CASE ReplyStep
  BY <1>1, ZenonT(60) DEF ReplyStep, ReplyStart, RecvReply, RecvError, CheckReplyMagic,
     RecvStructuredRemaining, SaveAndReturn, Received, SimpleStart,
     RecvReadPayload, FinishCommand, listVars
<1>2. CASE ChunkStep
  BY <1>2, Zenon DEF ChunkStep, ChunkStart, RecvChunkError, RecvErrorMessage,
     RecvErrorTail, RecvOffsetData, RecvOffsetDataData, RecvOffsetHole,
     RecvBsHeader, RecvBsEntries, ResyncPayload, ChunkFinish, RecvError,
     SaveAndReturn, Received, listVars
<1>3. CASE IssueStep
  BY <1>3, IssueOutside
<1>4. CASE Ready \/ Dead \/ Closed
  BY <1>4, TopOutside
<1>5. CASE Server
  BY <1>5, ServerFrom, ZenonT(60) DEF listVars
<1>6. CASE Close
  BY <1>6, ZenonT(60) DEF Close, Stopped
<1>7. CASE ApiStep /\ ~Close
  BY <1>7, ApiOutside, Zenon DEF Outside
<1>8. CASE UNCHANGED vars
  BY <1>8 DEF vars, listVars
<1>. QED  BY <1>1, <1>2, <1>3, <1>4, <1>5, <1>6, <1>7, <1>8 DEF Next, Engine

\* A NBD_CMD_DISC stays queued or in flight: the server never answers it.
LEMMA NextDisc ==
  ASSUME "abandon_pending" \notin ShutdownFlags
  PROVE  TypeInv /\ ListInv /\ SendInv /\ DiscWaits /\ RecvInv /\ DiscNotLost
           /\ [Next]_vars => DiscNotLost'
<1>. SUFFICES ASSUME TypeInv, ListInv, SendInv, DiscWaits, RecvInv, DiscNotLost,
                     [Next]_vars, disconnect_request', ~Stopped'
              PROVE  \E c \in Live' : cmd'[c].type = "DISC"
  BY DEF DiscNotLost, Stopped
<1>1. ListStep /\ ~Stopped
  BY NextListStep, StaysStopped
<1>2. CASE ~UNCHANGED disconnect_request
  <2>1. nbd_internal_command_common(DiscTemplate)
    BY <1>2, DiscFlag, Zenon
  <2>2. unique <= MaxCmds
    BY <2>1 DEF TypeInv, CookieLeft, nbd_internal_command_common, Accepting
  <2>. QED  BY <2>1, <2>2, QueuedDisc
<1>3. CASE UNCHANGED disconnect_request
  <2>1. PICK d \in Live : cmd[d].type = "DISC"
    BY <1>1, <1>3 DEF DiscNotLost, Stopped
  <2>2. cmd'[d].type = "DISC"
    BY <2>1, NextFixed, ListFacts DEF Fixed
  <2>3. CASE FinishCommand /\ reply_cmd # NULL
    <3>1. d # reply_cmd /\ cmds_in_flight' = cmds_in_flight \ {reply_cmd}
          /\ UNCHANGED cmds_to_issue
      BY <2>1, <2>3, FinishNotDisc, Zenon DEF FinishCommand
    <3>. QED  BY <2>1, <2>2, <3>1, ListFacts
  <2>4. CASE ~(FinishCommand /\ reply_cmd # NULL)
    <3>1. cmds_in_flight \subseteq cmds_in_flight' /\ ~AbandonSome
      BY <2>4, FlightKept DEF AbandonSome
    <3>. QED  BY <1>1, <2>1, <2>2, <3>1, LiveKept
  <2>. QED  BY <2>3, <2>4
<1>. QED  BY <1>2, <1>3, Zenon
=============================================================================
