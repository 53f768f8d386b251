----------------------------- MODULE Exchanges ------------------------------
(***************************************************************************)
(* The two directions of an exchange.  Sending: h->wbuf belongs to the head*)
(* of the queue from the first byte of a request to the last, whatever     *)
(* comes between.  Receiving: the command looked up for a reply is still   *)
(* in flight while its chunk is read, and the assertions of the handlers   *)
(* hold.                                                                   *)
(***************************************************************************)
EXTENDS TransmissionFacts

\* A step is tried with Zenon for three seconds, then with the solver.
USE ZenonT(3), SMTT(30), SMTT(60)

(***************************************************************************)
(* Steps that send nothing.                                                *)
(***************************************************************************)

\* What a request carries depends only on what its caller fixed.
LEMMA PayloadSame ==
  ASSUME TypeInv, SameCommands
  PROVE  \A c \in Cookie : Payload(c)' = Payload(c)
BY DEF SameCommands, Payload

\* The length of what follows the header of a request.
LEMMA PayloadType ==
  ASSUME TypeInv
  PROVE  \A c \in Cookie : Payload(c) \in Nat
BY DEF TypeInv, TypeOK, CmdType, Command, Payload

\* The end of the connection is the end of sending.
LEMMA StopsSend ==
  ASSUME TypeInv, ListInv, SendInv, Stopped', got' \subseteq got,
         unique <= unique', UNCHANGED <<rx, in_write_shutdown>>, unique' \in Int
  PROVE  SendInv'
<1>1. SendControl' /\ StreamInStep'
  BY DEF SendControl, StreamInStep
<1>2. GotSent'
  <2>1. Issued \subseteq Issued'
    BY ListFacts, SMTT(60) DEF Issued
  <2>. QED  BY <2>1 DEF SendInv, WireInv, GotSent
<1>. QED  BY <1>1, <1>2 DEF SendInv, WireInv,
                         WholeUpToDisc, RequestsWhole

\* A handler of the REPLY group.
LEMMA ReplySend ==
  ASSUME TypeInv, ListInv, SendInv, ReplyKeeps
  PROVE  SendInv'
<1>1. CASE state' \in {"DEAD", "CLOSED"}
  BY <1>1, StopsSend, ListFacts, SMTT(60) DEF ReplyKeeps, Stopped, sendVars
<1>2. CASE state' \notin {"DEAD", "CLOSED"}
  <2>1. /\ state \in ReplyStates /\ state' \in ReplyStates \cup {"READY"}
        /\ ~Stopped /\ state \notin IssueStates /\ state' \notin IssueStates
        /\ ~Stopped' /\ (state' = "READY" => running')
        /\ UNCHANGED <<wbuf, wlen, req, in_write_payload, in_write_shutdown, up,
                       rx, got, cmds_to_issue, unique, disconnect_request>>
    BY <1>2, SMTT(60) DEF ReplyKeeps, Stopped, ReplyStates, ResumeStates, IssueStates,
                sendVars
  <2>. USE <2>1
  <2>2. /\ Queued' = Queued /\ Issued' = Issued /\ (HeadIsReq' <=> HeadIsReq)
    BY DEF Queued, Issued, HeadIsReq
  <2>3. HeadIsReq => Payload(req)' = Payload(req) /\ cmd'[req].type = cmd[req].type
    BY HeadFacts, PayloadSame DEF ReplyKeeps, SameCommands
  <2>4. SendControl'
    <3>1. BufferIsHead' /\ QueueSeen' /\ BufferHolds'
      BY <2>2 DEF SendInv, SendControl, BufferIsHead, QueueSeen, BufferHolds,
             SendStates, IssueStates
    <3>2. ShutdownLast'
      BY <2>2, <2>3 DEF SendInv, SendControl, ShutdownLast, IssueStates
    <3>. QED  BY <3>1, <3>2 DEF SendControl
  <2>5. GotSent'
    <3>1. \A c \in got \cap Queued : AllSent(c)
      BY DEF SendInv, WireInv, GotSent
    <3>2. ASSUME NEW c \in got \cap Queued PROVE AllSent(c)'
      <4>1. cmd'[c].type = cmd[c].type
        BY ListFacts DEF ReplyKeeps, SameCommands
      <4>. QED  BY <3>1, <4>1 DEF AllSent, IssueStates
    <3>. QED  BY <2>2, <3>2 DEF SendInv, WireInv, GotSent
  <2>6. StreamInStep'
    BY <2>3 DEF SendInv, WireInv, StreamInStep, Outstanding, IssueStates,
           SendControl, BufferIsHead
  <2>. QED  BY <2>4, <2>5, <2>6 DEF SendInv, WireInv, WholeUpToDisc,
                   RequestsWhole
<1>. QED  BY <1>1, <1>2

\* A step that changes only the state, and where the server stands.
LEMMA MoveSend ==
  ASSUME TypeInv, ListInv, SendInv,
         UNCHANGED <<listVars, cmd, sendVars, rx, got>>,
         up' \in BOOLEAN, up' => up,
         \/ UNCHANGED <<state, running>>
         \/ /\ state \in {"READY", "REPLY.START"} /\ ~running'
            /\ state' = state /\ (state = "READY" => cmds_to_issue = <<>>)
         \/ /\ state \in {"READY", "REPLY.START"}
            /\ state' = "REPLY.START" /\ running'
         \/ /\ state = "READY" /\ running' /\ state' = "ISSUE.START"
            /\ cmds_to_issue # <<>>
         \/ /\ state = "SEND_REQUEST" /\ running'
            /\ state' \in {"SEND_REQUEST", "PAUSE_SEND_REQUEST"}
         \/ /\ state = "SEND_WRITE_PAYLOAD" /\ running'
            /\ state' = "SEND_WRITE_PAYLOAD"
         \/ /\ state = "SEND_WRITE_PAYLOAD" /\ running' /\ ~running
            /\ state' = "PAUSE_WRITE_PAYLOAD"
         \/ /\ state = "SEND_WRITE_SHUTDOWN" /\ running'
            /\ state' \in {"SEND_WRITE_SHUTDOWN", "PAUSE_WRITE_SHUTDOWN"}
            /\ Tls
  PROVE  SendInv'
<1>1. /\ UNCHANGED <<wbuf, wlen, req, in_write_payload, in_write_shutdown, rx,
                     got, cmds_to_issue, unique, disconnect_request, cmd>>
      /\ Queued' = Queued /\ Issued' = Issued /\ (HeadIsReq' <=> HeadIsReq)
      /\ (Stopped' <=> Stopped)
  BY DEF listVars, sendVars, Queued, Issued, HeadIsReq, Stopped
<1>. USE <1>1
<1>2. SendControl'
  <2>1. Stopped \/ (BufferIsHead' /\ QueueSeen')
    BY DEF SendInv, SendControl, BufferIsHead, QueueSeen, SendStates,
           IssueStates, Stopped
  <2>2. Stopped \/ BufferHolds'
    BY DEF SendInv, SendControl, BufferHolds, SendStates, IssueStates, Stopped
  <2>3. Stopped \/ ShutdownLast'
    BY DEF SendInv, SendControl, ShutdownLast, Stopped
  <2>. QED  BY <2>1, <2>2, <2>3 DEF SendControl
<1>3. GotSent'
  <2>1. ASSUME ~Stopped, NEW c \in got \cap Queued PROVE AllSent(c)'
    <3>1. AllSent(c)
      BY <2>1 DEF SendInv, WireInv, GotSent
    <3>2. Payload(c)' = Payload(c)
      BY DEF Payload
    <3>. QED  BY <2>1, <3>1, <3>2, SMTT(60) DEF AllSent, SendInv, SendControl,
                     BufferHolds, Stopped
  <2>. QED  BY <2>1 DEF SendInv, WireInv, GotSent
<1>4. StreamInStep'
  <2>1. Payload(req)' = Payload(req)
    BY DEF Payload
  <2>. QED  BY <2>1 DEF SendInv, WireInv, StreamInStep, Outstanding, Stopped
<1>. QED  BY <1>2, <1>3, <1>4 DEF SendInv, WireInv, WholeUpToDisc, RequestsWhole

(***************************************************************************)
(* generator/states-issue-command.c.                                       *)
(***************************************************************************)

\* START: a suspended request is resumed, or the next one prepared.
LEMMA IssueStartSend ==
  ASSUME TypeInv, ListInv, SendInv, IssueStart
  PROVE  SendInv'
<1>1. /\ state = "ISSUE.START" /\ running /\ cmds_to_issue # <<>>
      /\ UNCHANGED <<cmds_to_issue, unique, disconnect_request, cmd, up, rx, got,
                     in_write_payload, in_write_shutdown>>
      /\ \/ /\ ~in_write_shutdown /\ wlen > 0 /\ UNCHANGED <<wbuf, wlen, req>>
            /\ state' = (IF in_write_payload THEN "SEND_WRITE_PAYLOAD"
                         ELSE "SEND_REQUEST")
            /\ ~running'
         \/ /\ in_write_shutdown \/ wlen = 0
            /\ req' = Head(cmds_to_issue) /\ wlen' = ReqLen /\ wbuf' = "req"
            /\ state' = "SEND_REQUEST" /\ running'
  BY DEF IssueStart, At, SET_NEXT_STATE, SET_NEXT_STATE_AND_BLOCK, listVars,
         sendVars, netVars
<1>. USE <1>1
<1>2. /\ ~Stopped /\ ~Stopped' /\ wbuf \in {"req", "data"} /\ wlen \in Nat
      /\ Queued' = Queued /\ Issued' = Issued
      /\ \A c \in Cookie : Payload(c)' = Payload(c)
  BY DEF Stopped, Queued, Issued, Payload, TypeInv, TypeOK, SendType
<1>. USE <1>2
<1>3. HeadIsReq' /\ (~in_write_shutdown /\ wlen > 0 => HeadIsReq)
  BY DEF HeadIsReq, SendInv, SendControl, BufferIsHead
<1>4. SendControl'
  <2>1. BufferIsHead' /\ QueueSeen' /\ BufferHolds'
    BY <1>3 DEF BufferIsHead, QueueSeen, BufferHolds, SendStates, IssueStates,
           SendInv, SendControl, ReqLen
  <2>2. ShutdownLast'
    BY <1>3 DEF ShutdownLast, SendInv, SendControl, HeadIsReq
  <2>. QED  BY <2>1, <2>2 DEF SendControl
<1>5. GotSent'
  <2>1. ASSUME NEW c \in got \cap Queued PROVE AllSent(c)'
    <3>1. AllSent(c)
      BY DEF SendInv, WireInv, GotSent
    <3>2. in_write_shutdown /\ c = req /\ cmd[c].type = "DISC"
      BY <3>1 DEF AllSent
    <3>3. req' = req
      BY <3>2 DEF SendInv, SendControl, ShutdownLast, HeadIsReq
    <3>. QED  BY <3>2, <3>3 DEF AllSent
  <2>. QED  BY <2>1 DEF SendInv, WireInv, GotSent
<1>6. StreamInStep'
  <2>1. wlen > 0 /\ ~in_write_shutdown => req \in Cookie
    BY <1>3, HeadFacts
  <2>. QED  BY <2>1 DEF SendInv, WireInv, StreamInStep, Outstanding, ReqLen
<1>. QED  BY <1>4, <1>5, <1>6 DEF SendInv, WireInv, WholeUpToDisc, RequestsWhole

\* What SendSome does to the buffer and to the server, in the two states that
\* send.
LEMMA SendStep ==
  ASSUME TypeInv, ListInv, SendInv, SendSome, UNCHANGED cmd,
         state \in {"SEND_REQUEST", "SEND_WRITE_PAYLOAD"}, running
  PROVE  /\ HeadIsReq /\ req \in Cookie /\ Payload(req) \in Nat
         /\ UNCHANGED <<wbuf, req, in_write_payload, in_write_shutdown, up>>
         /\ wlen \in Nat /\ wlen' \in Nat /\ wlen' <= wlen
         /\ UNCHANGED <<rx, got>> \/ (up /\ got' = got \cup {req})
                                  \/ (up /\ got' = got)
         /\ up /\ ~in_write_shutdown =>
              \/ /\ wlen' = wlen /\ UNCHANGED <<rx, got>>
              \/ /\ wlen' < wlen
                 /\ rx'.need = Outstanding' /\ rx'.cookie = req
                 /\ rx'.ok = rx.ok
                 /\ got' = IF rx'.need = 0 THEN got \cup {req} ELSE got
         /\ ~up => UNCHANGED <<rx, got>>
<1>. DEFINE k == Lower(wlen, room)
<1>1. /\ wlen \in Nat /\ k \in Nat /\ k <= wlen /\ wlen' = wlen - k /\ Arrive(k)
      /\ UNCHANGED <<wbuf, req, in_write_payload, in_write_shutdown, up, inb,
                     ans>>
  BY HandleAssumption, SMTT(60) DEF SendSome, Lower, TypeInv, TypeOK, SendType, NetType
<1>. USE <1>1
<1>. HIDE DEF k
<1>2. ~Stopped /\ HeadIsReq
  BY DEF Stopped, SendInv, SendControl, BufferIsHead, SendStates, IssueStates
<1>3. req \in Cookie /\ req \in Queued /\ Payload(req) \in Nat
  BY <1>2, HeadFacts, PayloadType
<1>4. ASSUME up, ~in_write_shutdown, k > 0
      PROVE  /\ wlen' < wlen /\ rx'.need = Outstanding' /\ rx'.cookie = req
             /\ rx'.ok = rx.ok
             /\ got' = IF rx'.need = 0 THEN got \cup {req} ELSE got
  <2>. USE <1>4
  <2>1. wlen > 0 /\ wlen' < wlen /\ k # 0
    OBVIOUS
  <2>. USE <2>1
  <2>2. InStep
    BY <1>2 DEF InStep, SendInv, WireInv, StreamInStep, Outstanding
  <2>3. req \notin got
    BY <1>2, <1>3 DEF SendInv, WireInv, GotSent, AllSent
  <2>. DEFINE need == IF rx.need = 0 THEN ReqLen + Payload(req) ELSE rx.need
  <2>4. /\ rx' = [cookie |-> req, need |-> need - k,
                  ok |-> rx.ok /\ InStep /\ req \notin got]
        /\ got' = IF need = k THEN got \cup {req} ELSE got
    BY Zenon DEF Arrive
  <2>5. need = wlen + (IF wbuf = "req" THEN Payload(req) ELSE 0)
    BY <1>3, <2>2 DEF InStep, ReqLen
  <2>6. rx'.cookie = req /\ rx'.need = need - k /\ rx'.ok = rx.ok
    <3>1. rx.ok \in BOOLEAN
      BY DEF TypeInv, TypeOK, NetType
    <3>. QED  BY <2>2, <2>3, <2>4, <3>1, Zenon
  <2>7. Payload(req)' = Payload(req)
    BY DEF Payload
  <2>. QED  BY <1>3, <2>4, <2>5, <2>6, <2>7 DEF Outstanding
<1>5. UNCHANGED <<rx, got>> \/ (up /\ got' = got \cup {req}) \/ (up /\ got' = got)
  BY DEF Arrive
<1>6. k = 0 \/ ~up => UNCHANGED <<rx, got>>
  BY Zenon DEF Arrive
<1>7. wlen' \in Nat /\ wlen' <= wlen /\ (k = 0 => wlen' = wlen)
  OBVIOUS
<1>. QED  BY <1>2, <1>3, <1>4, <1>5, <1>6, <1>7

\* SEND_REQUEST and SEND_WRITE_PAYLOAD: send_from_wbuf, and on when all is sent.
LEMMA SendThenSend ==
  ASSUME TypeInv, ListInv, SendInv,
         SendRequest \/ SendWritePayload
  PROVE  SendInv'
<1>1. CASE SendError
  <2>1. Stopped' /\ UNCHANGED <<got, unique, rx, in_write_shutdown>>
    BY <1>1 DEF SendError, SET_NEXT_STATE, Stopped, listVars, netVars, sendVars
  <2>. QED  BY <2>1, StopsSend, ListFacts, SMTT(60)
<1>2. CASE ~SendError
  <2>1. /\ SendSome /\ running /\ running' \in BOOLEAN
        /\ \/ /\ state = "SEND_REQUEST"
              /\ state' = (IF wlen' = 0 THEN "PREPARE_WRITE_PAYLOAD" ELSE state)
           \/ /\ state = "SEND_WRITE_PAYLOAD"
              /\ state' = (IF wlen' = 0 THEN "ISSUE.FINISH" ELSE state)
        /\ UNCHANGED <<cmds_to_issue, unique, disconnect_request, cmd>>
    BY <1>2, Zenon DEF SendRequest, SendWritePayload, SendThen, At, Block,
                SET_NEXT_STATE, SET_NEXT_STATE_AND_BLOCK, listVars
  <2>2. /\ HeadIsReq /\ req \in Cookie /\ Payload(req) \in Nat
        /\ UNCHANGED <<wbuf, req, in_write_payload, in_write_shutdown, up>>
        /\ wlen \in Nat /\ wlen' \in Nat /\ wlen' <= wlen
    BY <2>1, SendStep
  <2>. USE <2>2
  <2>3. /\ ~Stopped /\ ~Stopped' /\ Queued' = Queued /\ Issued' = Issued
        /\ HeadIsReq' /\ \A c \in Cookie : Payload(c)' = Payload(c)
    BY <2>1 DEF Stopped, Queued, Issued, Payload, HeadIsReq
  <2>4. /\ state = "SEND_REQUEST" => wbuf = "req" /\ wlen > 0
        /\ state = "SEND_WRITE_PAYLOAD" => wbuf = "data"
    BY <2>3 DEF SendInv, SendControl, BufferHolds
  <2>5. SendControl'
    <3>1. BufferIsHead' /\ QueueSeen' /\ BufferHolds'
      BY <2>1, <2>3, <2>4 DEF BufferIsHead, QueueSeen, BufferHolds, SendStates,
             IssueStates
    <3>2. ShutdownLast'
      BY <2>1, <2>3 DEF ShutdownLast, SendInv, SendControl, HeadIsReq
    <3>. QED  BY <3>1, <3>2 DEF SendControl
  <2>6. ASSUME ~in_write_shutdown, up
        PROVE  \/ wlen' = wlen /\ UNCHANGED <<rx, got>>
               \/ /\ wlen' < wlen /\ rx'.need = Outstanding'
                  /\ rx'.cookie = req /\ rx'.ok = rx.ok
                  /\ got' = IF rx'.need = 0 THEN got \cup {req} ELSE got
    BY <2>1, <2>6, SendStep, Zenon
  <2>7. Outstanding' = wlen' + (IF wbuf = "req" THEN Payload(req) ELSE 0)
    BY <2>3 DEF Outstanding
  <2>8. GotSent'
    <3>1. got' \subseteq got \cup {req}
      BY <2>1, SendStep
    <3>2. ASSUME NEW c \in got' \cap Queued PROVE AllSent(c)'
      <4>1. CASE c \in got
        <5>1. AllSent(c)
          BY <2>3, <4>1 DEF SendInv, WireInv, GotSent
        <5>. QED  BY <2>1, <2>3, <2>4, <5>1 DEF AllSent
      <4>2. CASE c \notin got /\ in_write_shutdown
        <5>1. c = req /\ cmd[req].type = "DISC"
          BY <2>3, <3>1, <4>2 DEF SendInv, SendControl, ShutdownLast, HeadIsReq
        <5>. QED  BY <2>1, <4>2, <5>1 DEF AllSent
      <4>3. CASE c \notin got /\ ~in_write_shutdown
        <5>1. up
          BY <2>1, <4>3, SendStep
        <5>2. c = req /\ rx'.need = 0 /\ rx'.need = Outstanding'
          BY <2>6, <3>1, <4>3, <5>1
        <5>3. wlen' = 0 /\ (wbuf = "req" => Payload(req) = 0)
          BY <2>7, <5>2
        <5>. QED  BY <2>1, <2>3, <2>4, <5>2, <5>3 DEF AllSent
      <4>. QED  BY <4>1, <4>2, <4>3
    <3>3. got' \subseteq Issued
      BY <3>1, HeadFacts DEF SendInv, WireInv, GotSent
    <3>. QED  BY <2>3, <3>2, <3>3 DEF GotSent
  <2>9. StreamInStep'
    <3>0. CASE ~up \/ in_write_shutdown
      BY <3>0 DEF StreamInStep
    <3>1. CASE wlen' = wlen /\ UNCHANGED <<rx, got>>
      BY <2>1, <2>3, <2>4, <2>7, <3>1 DEF SendInv, WireInv, StreamInStep,
             Outstanding
    <3>2. CASE rx'.need = Outstanding' /\ rx'.cookie = req /\ wlen' < wlen
      <4>1. /\ Payload(req)' = Payload(req)
            /\ wbuf = "req" => rx'.need = wlen' + Payload(req)
            /\ wbuf # "req" => rx'.need = wlen'
        <5>1. wlen' \in Nat /\ Payload(req)' = Payload(req)
          BY <2>3
        <5>2. \A n \in Nat : n + 0 = n
          OBVIOUS
        <5>3. rx'.need = wlen' + (IF wbuf = "req" THEN Payload(req) ELSE 0)
          BY <2>7, <3>2, Zenon
        <5>. QED  BY <5>1, <5>2, <5>3, Zenon
      <4>. USE <4>1
      <4>2. CASE rx'.need = 0
        <5>1. wlen' = 0 /\ (wbuf = "req" => Payload(req) = 0)
          BY <4>2
        <5>2. state' = "PREPARE_WRITE_PAYLOAD" => wbuf = "req"
          BY <2>1, <2>4
        <5>. QED  BY <4>2, <5>1, <5>2 DEF StreamInStep
      <4>3. CASE rx'.need > 0
        <5>1. wlen' > 0 \/ state' = "PREPARE_WRITE_PAYLOAD"
          BY <2>1, <2>4, <4>3
        <5>. QED  BY <3>2, <4>3, <5>1 DEF StreamInStep
      <4>4. rx'.need \in Nat
        OBVIOUS
      <4>. QED  BY <4>2, <4>3, <4>4
    <3>. QED  BY <2>6, <3>0, <3>1, <3>2
  <2>10. WholeUpToDisc'
    <3>1. in_write_shutdown => Tls
      BY <2>1, <2>3 DEF SendInv, SendControl, ShutdownLast, HeadIsReq
    <3>2. WholeUpToDisc
      BY DEF SendInv, WireInv
    <3>3. ~up => UNCHANGED rx
      BY <2>1, SendStep
    <3>. QED  BY <2>6, <3>1, <3>2, <3>3 DEF WholeUpToDisc, RequestsWhole
  <2>. QED  BY <2>5, <2>8, <2>9, <2>10 DEF SendInv, WireInv
<1>. QED  BY <1>1, <1>2

\* PAUSE_SEND_REQUEST, PAUSE_WRITE_PAYLOAD, PAUSE_WRITE_SHUTDOWN: a reply comes
\* first, and what is left in wbuf stays there.
LEMMA PauseSend ==
  ASSUME TypeInv, ListInv, SendInv,
         PauseSendRequest \/ PauseWritePayload \/ PauseWriteShutdown
  PROVE  SendInv'
<1>1. /\ state \in {"PAUSE_SEND_REQUEST", "PAUSE_WRITE_PAYLOAD",
                    "PAUSE_WRITE_SHUTDOWN"}
      /\ state' = "REPLY.START" /\ running'
      /\ state = "PAUSE_SEND_REQUEST" => in_write_payload' = FALSE
      /\ state = "PAUSE_WRITE_PAYLOAD" => in_write_payload' = TRUE
      /\ UNCHANGED <<wbuf, wlen, req, in_write_shutdown, up, rx, got, cmd,
                     cmds_to_issue, unique, disconnect_request>>
  BY DEF PauseSendRequest, PauseWritePayload, PauseWriteShutdown, At,
         SET_NEXT_STATE, listVars, sendVars, netVars
<1>. USE <1>1
<1>2. /\ ~Stopped /\ ~Stopped' /\ Queued' = Queued /\ Issued' = Issued
      /\ (HeadIsReq' <=> HeadIsReq)
      /\ Payload(req)' = Payload(req)
  BY DEF Stopped, Queued, Issued, HeadIsReq, Payload
<1>. USE <1>2
<1>3. SendControl'
  <2>1. BufferIsHead' /\ QueueSeen' /\ BufferHolds'
    BY DEF SendInv, SendControl, BufferIsHead, QueueSeen, BufferHolds,
           SendStates, IssueStates
  <2>2. ShutdownLast'
    BY DEF SendInv, SendControl, ShutdownLast
  <2>. QED  BY <2>1, <2>2 DEF SendControl
<1>4. GotSent'
  <2>1. \A c \in got \cap Queued : AllSent(c) /\ AllSent(c)'
    BY DEF SendInv, WireInv, GotSent, AllSent
  <2>. QED  BY <2>1 DEF SendInv, WireInv, GotSent
<1>5. StreamInStep'
  BY DEF SendInv, WireInv, StreamInStep, Outstanding
<1>. QED  BY <1>3, <1>4, <1>5 DEF SendInv, WireInv, WholeUpToDisc, RequestsWhole

\* PREPARE_WRITE_PAYLOAD: the payload, the shutdown of the socket, or nothing.
LEMMA PrepareSend ==
  ASSUME TypeInv, ListInv, SendInv, PrepareWritePayload
  PROVE  SendInv'
<1>1. /\ state = "PREPARE_WRITE_PAYLOAD" /\ HeadIsReq
      /\ running' /\ UNCHANGED <<req, up, rx, got, cmd, cmds_to_issue, unique,
                                 disconnect_request, in_write_payload>>
      /\ \/ /\ wbuf' = "data" /\ wlen' = Payload(req)
            /\ state' = "SEND_WRITE_PAYLOAD" /\ UNCHANGED in_write_shutdown
         \/ /\ cmd[req].type = "DISC" /\ Payload(req) = 0
            /\ in_write_shutdown' = TRUE
            /\ state' = "SEND_WRITE_SHUTDOWN" /\ UNCHANGED <<wbuf, wlen>>
         \/ /\ Payload(req) = 0 /\ state' = "ISSUE.FINISH"
            /\ UNCHANGED <<wbuf, wlen, in_write_shutdown>>
  BY DEF PrepareWritePayload, At, SET_NEXT_STATE, listVars, netVars, HeadIsReq,
         Payload
<1>. USE <1>1
<1>2. /\ ~Stopped /\ ~Stopped' /\ Queued' = Queued /\ Issued' = Issued
      /\ HeadIsReq' /\ Payload(req)' = Payload(req) /\ Payload(req) \in Nat
      /\ req \in Issued /\ wbuf = "req" /\ wlen = 0
  <2>1. ~Stopped /\ ~Stopped' /\ Queued' = Queued /\ Issued' = Issued /\ HeadIsReq'
        /\ Payload(req)' = Payload(req)
    BY DEF Stopped, Queued, Issued, HeadIsReq, Payload
  <2>2. wbuf = "req" /\ wlen = 0
    BY <2>1 DEF SendInv, SendControl, BufferHolds
  <2>. QED  BY <2>1, <2>2, HeadFacts, PayloadType
<1>. USE <1>2
<1>3. SendControl'
  <2>1. BufferIsHead' /\ QueueSeen' /\ BufferHolds'
    BY DEF BufferIsHead, QueueSeen, BufferHolds, SendStates, IssueStates
  <2>2. cmd[req].type = "DISC" => disconnect_request
    BY DEF ListInv, DiscAsked
  <2>3. ~Tls => ~in_write_shutdown
    BY DEF SendInv, SendControl, ShutdownLast, HeadIsReq
  <2>4. ShutdownLast'
    BY <2>2, <2>3 DEF SendInv, SendControl, ShutdownLast
  <2>. QED  BY <2>1, <2>4 DEF SendControl
<1>4. GotSent'
  <2>1. ASSUME NEW c \in got \cap Queued PROVE AllSent(c)'
    <3>1. AllSent(c)
      BY DEF SendInv, WireInv, GotSent
    <3>. QED  BY <3>1 DEF AllSent
  <2>. QED  BY <2>1 DEF SendInv, WireInv, GotSent
<1>5. StreamInStep'
  BY DEF SendInv, WireInv, StreamInStep, Outstanding
<1>. QED  BY <1>3, <1>4, <1>5 DEF SendInv, WireInv, WholeUpToDisc, RequestsWhole

\* SEND_WRITE_SHUTDOWN: the socket is shut down, or TLS asks to be called again.
LEMMA ShutSend ==
  ASSUME TypeInv, ListInv, SendInv, SendWriteShutdown
  PROVE  SendInv'
<1>1. /\ state = "SEND_WRITE_SHUTDOWN" /\ running
      /\ \/ state' = "ISSUE.FINISH" /\ running'
         \/ state' = "SEND_WRITE_SHUTDOWN" /\ ~running' /\ Tls
      /\ UNCHANGED <<wbuf, wlen, req, in_write_payload, in_write_shutdown, up, rx,
                     got, cmd, cmds_to_issue, unique, disconnect_request>>
  BY DEF SendWriteShutdown, At, Block, SET_NEXT_STATE, SET_NEXT_STATE_AND_BLOCK,
         listVars, sendVars, netVars
<1>. USE <1>1
<1>2. /\ ~Stopped /\ ~Stopped' /\ Queued' = Queued /\ Issued' = Issued
      /\ (HeadIsReq' <=> HeadIsReq) /\ in_write_shutdown
  BY DEF Stopped, Queued, Issued, HeadIsReq, SendInv, SendControl, ShutdownLast
<1>. USE <1>2
<1>3. SendControl'
  <2>1. BufferIsHead' /\ QueueSeen' /\ BufferHolds'
    BY DEF SendInv, SendControl, BufferIsHead, QueueSeen, BufferHolds,
           SendStates, IssueStates
  <2>2. ShutdownLast'
    BY DEF SendInv, SendControl, ShutdownLast
  <2>. QED  BY <2>1, <2>2 DEF SendControl
<1>4. GotSent'
  <2>1. \A c \in got \cap Queued : AllSent(c) /\ AllSent(c)'
    BY DEF SendInv, WireInv, GotSent, AllSent
  <2>. QED  BY <2>1 DEF SendInv, WireInv, GotSent
<1>5. StreamInStep'
  BY DEF StreamInStep
<1>. QED  BY <1>3, <1>4, <1>5 DEF SendInv, WireInv, WholeUpToDisc, RequestsWhole

\* FINISH: the head of the queue goes to cmds_in_flight.
LEMMA FinishSend ==
  ASSUME TypeInv, ListInv, SendInv, IssueFinish
  PROVE  SendInv'
<1>1. /\ state = "ISSUE.FINISH" /\ state' = "READY" /\ running' /\ wlen = 0
      /\ HeadIsReq /\ cmds_to_issue' = Tail(cmds_to_issue)
      /\ UNCHANGED <<wbuf, wlen, req, in_write_payload, in_write_shutdown, up, rx,
                     got, cmd, unique, disconnect_request>>
  BY DEF IssueFinish, At, SET_NEXT_STATE, sendVars, netVars, HeadIsReq
<1>. USE <1>1
<1>2. /\ ~Stopped /\ ~Stopped' /\ Issued' = Issued /\ Queued' = Queued \ {req}
  <2>1. cmds_to_issue # <<>> /\ Head(cmds_to_issue) = req
    BY DEF HeadIsReq
  <2>2. Queued' = Queued \ {req}
    BY <2>1, ListFacts, TailInj
  <2>. QED  BY <2>2 DEF Stopped, Issued
<1>. USE <1>2
<1>3. in_write_shutdown => cmds_to_issue' = <<>>
  <2>. SUFFICES ASSUME in_write_shutdown PROVE cmds_to_issue' = <<>>
    OBVIOUS
  <2>1. cmd[Head(cmds_to_issue)].type = "DISC" /\ cmds_to_issue # <<>>
    BY DEF SendInv, SendControl, ShutdownLast, HeadIsReq
  <2>2. cmds_to_issue \in Seq(Cookie)
    BY ListFacts
  <2>3. Head(cmds_to_issue) = cmds_to_issue[1] /\ 1 \in 1..Len(cmds_to_issue)
    BY <2>1, <2>2
  <2>4. Len(cmds_to_issue) = 1
    BY <2>1, <2>3, Zenon DEF ListInv, DiscIsLast
  <2>. QED  BY <2>2, <2>4
<1>4. SendControl'
  <2>1. BufferIsHead' /\ QueueSeen' /\ BufferHolds'
    BY DEF BufferIsHead, QueueSeen, BufferHolds, SendStates, IssueStates
  <2>2. ShutdownLast'
    BY <1>3 DEF SendInv, SendControl, ShutdownLast
  <2>. QED  BY <2>1, <2>2 DEF SendControl
<1>5. GotSent'
  <2>1. \A c \in got \cap Queued : c = req
    BY DEF SendInv, WireInv, GotSent, AllSent
  <2>. QED  BY <2>1 DEF SendInv, WireInv, GotSent
<1>6. StreamInStep'
  BY DEF SendInv, WireInv, StreamInStep
<1>. QED  BY <1>4, <1>5, <1>6 DEF SendInv, WireInv, WholeUpToDisc, RequestsWhole

\* The handlers of states-issue-command.c keep the buffer and the queue in step.
LEMMA IssueSend ==
  ASSUME TypeInv, ListInv, SendInv, IssueStep
  PROVE  SendInv'
BY IssueStartSend, SendThenSend, PauseSend, PrepareSend, ShutSend, FinishSend
   DEF IssueStep

(***************************************************************************)
(* generator/states.c, the calls, the server.                              *)
(***************************************************************************)

\* READY, DEAD and CLOSED.
LEMMA TopSend ==
  ASSUME TypeInv, ListInv, SendInv, Ready \/ Dead \/ Closed
  PROVE  SendInv'
<1>1. CASE Ready
  <2>1. /\ state = "READY"
        /\ \/ cmds_to_issue # <<>> /\ state' = "ISSUE.START" /\ running'
           \/ state' = "REPLY.START" /\ running'
           \/ cmds_to_issue = <<>> /\ state' = state /\ ~running'
        /\ UNCHANGED <<listVars, cmd, sendVars, rx, got, up>>
    BY <1>1 DEF Ready, At, Block, SET_NEXT_STATE, SET_NEXT_STATE_AND_BLOCK,
                netVars
  <2>2. up \in BOOLEAN
    BY DEF TypeInv, TypeOK, NetType
  <2>. QED  BY <2>1, <2>2, MoveSend
<1>2. ASSUME NEW s \in {"DEAD", "CLOSED"}, Terminal(s)
      PROVE  SendInv'
  <2>1. Stopped' /\ UNCHANGED <<got, unique, rx, in_write_shutdown>>
    BY <1>2 DEF Terminal, At, Block, SET_NEXT_STATE_AND_BLOCK, Stopped, netVars,
                sendVars
  <2>. QED  BY <2>1, StopsSend, ListFacts, SMTT(60)
<1>. QED  BY <1>1, <1>2 DEF Dead, Closed

\* A command is queued behind what is being sent.
LEMMA CommonSend ==
  ASSUME TypeInv, ListInv, SendInv, NEW t \in Template, ~Stopped, ~running,
         nbd_internal_command_common(t), unique <= MaxCmds,
         disconnect_request' \in BOOLEAN
  PROVE  SendInv'
<1>1. /\ ~disconnect_request
      /\ cmd' = [cmd EXCEPT ![unique] = MkCommand(t)] /\ unique' = unique + 1
      /\ cmds_to_issue' = Append(cmds_to_issue, unique)
      /\ \/ /\ cmds_to_issue = <<>> /\ state = "READY"
            /\ state' = "ISSUE.START" /\ running'
         \/ /\ ~(cmds_to_issue = <<>> /\ state = "READY")
            /\ UNCHANGED <<state, running>>
      /\ UNCHANGED <<wbuf, wlen, req, in_write_payload, in_write_shutdown, up, rx,
                     got>>
  BY DEF nbd_internal_command_common, Accepting, is_state_ready, sendVars,
         netVars
<1>. USE <1>1
<1>2. /\ unique \in Cookie /\ unique \notin Issued
      /\ Issued' = Issued \cup {unique} /\ Queued' = Queued \cup {unique}
  <2>1. unique \in Cookie /\ unique \notin Issued /\ Issued' = Issued \cup {unique}
    BY ListFacts, SMTT(60) DEF Issued, Cookie
  <2>. USE <2>1
  <2>2. unique \notin Rng(cmds_to_issue)
    BY ListFacts
  <2>3. Rng(cmds_to_issue') = Rng(cmds_to_issue) \cup {unique}
    BY <2>2, ListFacts, AppendInj, SMTT(60)
  <2>. QED  BY <2>3, ListFacts
<1>3. \A c \in Issued : cmd'[c] = cmd[c] /\ Payload(c)' = Payload(c)
  <2>1. \A c \in Issued : cmd'[c] = cmd[c]
    BY <1>2, ListFacts DEF TypeInv, TypeOK, CmdType
  <2>. QED  BY <2>1, SMTT(60) DEF Payload
<1>4. /\ cmds_to_issue' # <<>>
      /\ cmds_to_issue # <<>> => Head(cmds_to_issue') = Head(cmds_to_issue)
      /\ HeadIsReq => HeadIsReq'
  <2>1. cmds_to_issue \in Seq(Cookie)
    BY ListFacts
  <2>2. /\ cmds_to_issue' # <<>>
        /\ cmds_to_issue # <<>> => Head(cmds_to_issue') = Head(cmds_to_issue)
    BY <1>2, <2>1
  <2>. QED  BY <2>2 DEF HeadIsReq
<1>5. ~Stopped' /\ ~in_write_shutdown
  BY DEF Stopped, SendInv, SendControl, ShutdownLast
<1>6. /\ BufferIsHead /\ QueueSeen /\ BufferHolds /\ ShutdownLast
      /\ state = "READY" => cmds_to_issue = <<>> /\ ~(wlen > 0)
  BY DEF SendInv, SendControl, QueueSeen, BufferIsHead, HeadIsReq
<1>7. SendControl'
  <2>1. BufferIsHead' /\ QueueSeen' /\ BufferHolds'
    BY <1>4, <1>6 DEF BufferIsHead, QueueSeen, BufferHolds, SendStates,
           IssueStates
  <2>2. ShutdownLast'
    BY <1>4, <1>5, <1>6 DEF ShutdownLast
  <2>. QED  BY <2>1, <2>2 DEF SendControl
<1>8. GotSent'
  <2>1. got \subseteq Issued /\ \A c \in got \cap Queued : AllSent(c)
    BY DEF SendInv, WireInv, GotSent
  <2>. USE <2>1
  <2>2. ASSUME NEW c \in got' \cap Queued' PROVE AllSent(c)'
    <3>1. c \in got \cap Queued /\ c \in Issued
      BY <1>2
    <3>2. AllSent(c)
      BY <3>1
    <3>3. state' = state \/ state = "READY"
      OBVIOUS
    <3>4. cmd'[c] = cmd[c] /\ Payload(c)' = Payload(c)
      BY <1>3, <3>1
    <3>. QED  BY <1>5, <3>2, <3>3, <3>4 DEF AllSent
  <2>. QED  BY <1>2, <2>2 DEF GotSent
<1>9. StreamInStep'
  <2>1. HeadIsReq => Payload(req)' = Payload(req)
    BY <1>3, HeadFacts
  <2>2. wlen > 0 \/ state = "PREPARE_WRITE_PAYLOAD" => HeadIsReq
    BY <1>6 DEF BufferIsHead, SendStates, IssueStates
  <2>. QED  BY <1>5, <2>1, <2>2 DEF SendInv, WireInv, StreamInStep, Outstanding
<1>. QED  BY <1>7, <1>8, <1>9 DEF SendInv, WireInv, WholeUpToDisc, RequestsWhole

\* nbd_shutdown may abandon what is queued, but not what is being sent.
LEMMA ShutdownSend ==
  ASSUME TypeInv, ListInv, SendInv, NEW f, Shutdown(f)
  PROVE  SendInv'
<1>1. /\ ~running /\ state # "FREED" /\ ~Stopped
      /\ UNCHANGED <<state, running, wbuf, wlen, req, in_write_payload,
                     in_write_shutdown, up, rx, got>>
  BY DEF Shutdown, CanCall, Calling, Connected, is_state_ready,
         is_state_processing, Stopped, IssueStates, ReplyStates, ResumeStates,
         sendVars, netVars
<1>. USE <1>1
<1>2. CASE UNCHANGED <<listVars, cmd, histVars>>
  <2>1. up \in BOOLEAN /\ UNCHANGED sendVars
    BY DEF TypeInv, TypeOK, NetType, sendVars
  <2>. QED  BY <1>2, <2>1, MoveSend
<1>3. CASE ~UNCHANGED <<listVars, cmd, histVars>>
  <2>1. /\ is_state_ready \/ cmds_to_issue # <<>>
        /\ nbd_internal_abort_commands(Abandoned)
        /\ cmds_to_issue' = KeptQueue
        /\ UNCHANGED <<unique, disconnect_request>>
    BY <1>3 DEF Shutdown
  <2>2. SameCommands
    <3>1. Abandoned \in SUBSET Live
      BY ListFacts DEF Abandoned
    <3>. QED  BY <2>1, <3>1, AbortLists
  <2>3. /\ BufferIsHead /\ QueueSeen /\ BufferHolds /\ ShutdownLast
        /\ state = "READY" => cmds_to_issue = <<>> /\ ~(wlen > 0)
    BY DEF SendInv, SendControl, QueueSeen, BufferIsHead, HeadIsReq
  <2>4. /\ state = "READY" => cmds_to_issue' = <<>>
        /\ state # "READY" => /\ cmds_to_issue # <<>> /\ cmds_to_issue' # <<>>
                              /\ Head(cmds_to_issue') = Head(cmds_to_issue)
    BY <2>1 DEF is_state_ready, KeptQueue
  <2>5. Queued' \subseteq Queued
    <3>1. Queued' = Rng(cmds_to_issue')
      BY ListFacts
    <3>2. CASE state = "READY"
      BY <2>4, <3>1, <3>2, ShortSeqs
    <3>3. CASE state # "READY"
      <4>1. cmds_to_issue' = <<Head(cmds_to_issue)>>
        BY <2>1, <3>3 DEF is_state_ready, KeptQueue
      <4>2. Head(cmds_to_issue) \in Queued
        BY <2>4, <3>3, HeadFacts
      <4>. QED  BY <3>1, <4>1, <4>2, ShortSeqs
    <3>. QED  BY <3>2, <3>3
  <2>6. /\ HeadIsReq' <=> HeadIsReq
        /\ cmds_to_issue' = <<>> <=> cmds_to_issue = <<>>
        /\ ~Stopped' /\ Issued' = Issued
    BY <2>1, <2>3, <2>4 DEF HeadIsReq, Stopped, Issued
  <2>7. HeadIsReq => Payload(req)' = Payload(req) /\ cmd'[req].type = cmd[req].type
    BY <2>2, HeadFacts, PayloadSame DEF SameCommands
  <2>8. SendControl'
    <3>1. BufferIsHead' /\ QueueSeen' /\ BufferHolds'
      BY <2>3, <2>6 DEF BufferIsHead, QueueSeen, BufferHolds, SendStates,
             IssueStates
    <3>2. ShutdownLast'
      BY <2>1, <2>3, <2>6, <2>7 DEF ShutdownLast
    <3>. QED  BY <3>1, <3>2 DEF SendControl
  <2>9. GotSent'
    <3>1. got \subseteq Issued /\ \A c \in got \cap Queued : AllSent(c)
      BY DEF SendInv, WireInv, GotSent
    <3>2. ASSUME NEW c \in got' \cap Queued' PROVE AllSent(c)'
      <4>1. AllSent(c) /\ c \in Cookie
        BY <2>5, <3>1, <3>2, ListFacts
      <4>2. Payload(c)' = Payload(c) /\ cmd'[c].type = cmd[c].type
        BY <2>2, <4>1, PayloadSame DEF SameCommands
      <4>. QED  BY <4>1, <4>2 DEF AllSent
    <3>. QED  BY <2>6, <3>1, <3>2 DEF GotSent
  <2>10. StreamInStep'
    <3>1. wlen > 0 \/ state = "PREPARE_WRITE_PAYLOAD" => HeadIsReq
      BY <2>3 DEF BufferIsHead, SendStates, IssueStates
    <3>. QED  BY <2>6, <2>7, <3>1 DEF SendInv, WireInv, StreamInStep,
                     Outstanding
  <2>. QED  BY <2>8, <2>9, <2>10 DEF SendInv, WireInv, WholeUpToDisc,
                   RequestsWhole
<1>. QED  BY <1>2, <1>3

\* The calls of lib/rw.c, lib/aio.c, lib/disconnect.c and nbd_close.
LEMMA ApiSend ==
  ASSUME TypeInv, ListInv, SendInv, ApiStep
  PROVE  SendInv'
<1>. USE DEF Calling, CanCall
<1>0. up \in BOOLEAN
  BY DEF TypeInv, TypeOK, NetType
<1>1. ASSUME NEW t \in Template, nbd_internal_command_common(t), ~running,
             unique <= MaxCmds, disconnect_request' \in BOOLEAN
      PROVE  SendInv'
  <2>1. CASE ~Stopped
    BY <1>1, <2>1, CommonSend
  <2>2. CASE Stopped
    <3>1. /\ Stopped' /\ unique' = unique + 1
          /\ UNCHANGED <<got, rx, in_write_shutdown>>
      BY <1>1, <2>2 DEF nbd_internal_command_common, Stopped, is_state_ready,
                        netVars, sendVars
    <3>2. unique <= unique' /\ unique' \in Int
      BY <3>1, ListFacts, SMTT(60)
    <3>. QED  BY <3>1, <3>2, StopsSend
  <2>. QED  BY <2>1, <2>2
<1>2. CASE UNCHANGED <<state, running, listVars, cmd, sendVars, netVars>>
  BY <1>0, <1>2, MoveSend DEF netVars
<1>3. CASE \E t \in Templates : AioCommand(t) \/ SyncCommand(t)
  <2>1. PICK t \in Templates :
          /\ unique < MaxCmds /\ nbd_internal_command_common(t)
          /\ UNCHANGED disconnect_request /\ ~running
    BY <1>3 DEF AioCommand, SyncCommand
  <2>2. t \in Template /\ unique <= MaxCmds /\ disconnect_request' \in BOOLEAN
    BY <2>1, HandleAssumption, ListFacts, SMTT(60) DEF TypeInv, TypeOK, ListType
  <2>. QED  BY <1>1, <2>1, <2>2
<1>4. CASE AioDisconnect \/ ShutdownDisconnect
  <2>1. CASE /\ nbd_internal_command_common(DiscTemplate) /\ ~running
             /\ disconnect_request' = TRUE
    <3>1. unique <= MaxCmds
      BY <2>1 DEF nbd_internal_command_common, Accepting, TypeInv, CookieLeft
    <3>. QED  BY <1>1, <2>1, <3>1, DiscTemplateType
  <2>. QED  BY <1>2, <1>4, <2>1, Zenon DEF AioDisconnect, ShutdownDisconnect
<1>5. CASE (\E c \in Cookie : CommandCompleted(c)) \/ WaitForCommand
  <2>1. ASSUME NEW d, nbd_unlocked_aio_command_completed(d)
        PROVE  SendInv'
    <3>1. UNCHANGED <<state, running, cmds_to_issue, unique, disconnect_request,
                      cmd, sendVars, netVars>>
      BY <2>1 DEF nbd_unlocked_aio_command_completed
    <3>. USE <3>1
    <3>2. /\ Queued' = Queued /\ Issued' = Issued /\ (Stopped' <=> Stopped)
          /\ (HeadIsReq' <=> HeadIsReq) /\ \A c : Payload(c)' = Payload(c)
          /\ UNCHANGED <<wbuf, wlen, req, in_write_payload, in_write_shutdown,
                         up, rx, got>>
      BY DEF Queued, Issued, Stopped, HeadIsReq, Payload, sendVars, netVars
    <3>. USE <3>2
    <3>3. SendControl'
      BY DEF SendInv, SendControl, BufferIsHead, QueueSeen, BufferHolds,
             ShutdownLast
    <3>4. \A c : AllSent(c)' <=> AllSent(c)
      BY DEF AllSent
    <3>5. GotSent'
      BY <3>4 DEF SendInv, WireInv, GotSent
    <3>6. StreamInStep'
      BY DEF SendInv, WireInv, StreamInStep, Outstanding
    <3>. QED  BY <3>3, <3>5, <3>6 DEF SendInv, WireInv, WholeUpToDisc,
                     RequestsWhole
  <2>. QED  BY <1>2, <1>5, <2>1 DEF CommandCompleted, WaitForCommand
<1>6. CASE \E f \in ShutdownFlags : Shutdown(f)
  BY <1>6, ShutdownSend
<1>7. CASE ShutdownReturn \/ PollError
  BY <1>2, <1>7 DEF ShutdownReturn, PollError
<1>8. CASE NotifyRead \/ NotifyWrite
  <2>1. /\ ~running /\ running'
        /\ \/ state = "READY" /\ state' = "REPLY.START"
           \/ state = "REPLY.START" /\ state' = "REPLY.START"
           \/ /\ state = "SEND_REQUEST"
              /\ state' \in {"SEND_REQUEST", "PAUSE_SEND_REQUEST"}
           \/ /\ state = "SEND_WRITE_PAYLOAD"
              /\ state' \in {"SEND_WRITE_PAYLOAD", "PAUSE_WRITE_PAYLOAD"}
           \/ /\ state = "SEND_WRITE_SHUTDOWN"
              /\ state' \in {"SEND_WRITE_SHUTDOWN", "PAUSE_WRITE_SHUTDOWN"}
        /\ UNCHANGED <<listVars, cmd, sendVars, rx, got, up>>
    BY <1>8 DEF NotifyRead, NotifyWrite, Polling, netVars
  <2>2. state = "SEND_WRITE_SHUTDOWN" => Tls
    BY <2>1 DEF SendInv, SendControl, ShutdownLast, Stopped
  <2>. QED  BY <1>0, <2>1, <2>2, MoveSend, Zenon
<1>9. CASE Close
  <2>1. Stopped' /\ UNCHANGED <<got, unique, rx, in_write_shutdown>>
    BY <1>9 DEF Close, Stopped, netVars, sendVars
  <2>. QED  BY <2>1, StopsSend, ListFacts, SMTT(60)
<1>. QED  BY <1>3, <1>4, <1>5, <1>6, <1>7, <1>8, <1>9 DEF ApiStep

\* The server changes nothing here but whether it is there.
LEMMA ServerSend ==
  ASSUME TypeInv, ListInv, SendInv, Server
  PROVE  SendInv'
<1>1. /\ UNCHANGED <<state, running, listVars, cmd, sendVars, rx, got>>
      /\ up' = up \/ up' = FALSE
  BY Zenon DEF Server, ServerReply, ServerStray, Transmit, Deliver, Drain,
               ServerClose, ConnectionLost, runVars
<1>. USE <1>1
<1>2. up \in BOOLEAN
  BY DEF TypeInv, TypeOK, NetType
<1>3. CASE up' = up
  BY <1>2, <1>3, MoveSend
<1>4. CASE up' = FALSE
  BY <1>4, MoveSend, Zenon
<1>. QED  BY <1>3, <1>4, Zenon

(***************************************************************************)
(* SendInv is inductive.                                                   *)
(***************************************************************************)

\* A new handle sends nothing.
LEMMA InitSend == Init => SendInv
<1>. SUFFICES ASSUME Init PROVE SendInv
  OBVIOUS
<1>1. /\ state = "READY" /\ cmds_to_issue = <<>> /\ wlen = 0
      /\ in_write_shutdown = FALSE /\ got = {}
      /\ rx = [cookie |-> NULL, need |-> 0, ok |-> TRUE]
  BY Zenon DEF Init
<1>2. SendControl
  BY <1>1 DEF SendControl, BufferIsHead, QueueSeen, BufferHolds, ShutdownLast,
              SendStates, IssueStates
<1>3. WireInv
  BY <1>1 DEF WireInv, GotSent, StreamInStep, WholeUpToDisc, RequestsWhole
<1>. QED  BY <1>2, <1>3 DEF SendInv

\* SendInv is inductive.
LEMMA NextSend == TypeInv /\ ListInv /\ SendInv /\ [Next]_vars => SendInv'
<1>. SUFFICES ASSUME TypeInv, ListInv, SendInv, [Next]_vars PROVE SendInv'
  OBVIOUS
<1>1. CASE Next
  BY <1>1, IssueSend, ReplyFrame, ReplySend, TopSend, ApiSend, ServerSend
     DEF Next, Engine
<1>2. CASE UNCHANGED vars
  <2>1. up \in BOOLEAN
    BY DEF TypeInv, TypeOK, NetType
  <2>. QED  BY <1>2, <2>1, MoveSend DEF vars, runVars, netVars
<1>. QED  BY <1>1, <1>2

(***************************************************************************)
(* What the steps leave alone.                                             *)
(***************************************************************************)

\* The queue grows by new cookies only.
LEMMA QueueGrows ==
  ASSUME TypeInv, ListInv, ListStep
  PROVE  Queued' \subseteq Queued \cup {unique}
<1>1. CASE KeepLists \/ (\E c \in Cookie : FinishOne(c))
           \/ (\E i \in 1..Len(cmds_done) : RetireOne(i))
  <2>1. cmds_to_issue' = cmds_to_issue
    BY <1>1 DEF KeepLists, FinishOne, RetireOne, listVars
  <2>. QED  BY <2>1 DEF Queued
<1>2. CASE QueueOne
  <2>1. unique \in Cookie
    BY <1>2, HandleAssumption, SMTT(60) DEF QueueOne, TypeInv, TypeOK, ListType, Cookie
  <2>2. unique \notin Rng(cmds_to_issue)
    BY <2>1, FreshCookie, ListFacts, SMTT(60) DEF TypeInv, TypeOK, ListType
  <2>. QED  BY <1>2, <2>1, <2>2, ListFacts, AppendInj, SMTT(60) DEF QueueOne
<1>3. CASE SendOne
  BY <1>3, ListFacts, TailInj, SMTT(60) DEF SendOne
<1>4. CASE EndAll \/ FreeAll
  BY <1>4, ListFacts, ShortSeqs, SMTT(60) DEF EndAll, FreeAll
<1>5. CASE AbandonSome
  <2>1. CASE is_state_ready
    BY <1>5, <2>1, ListFacts, ShortSeqs, SMTT(60) DEF AbandonSome, KeptQueue
  <2>2. CASE ~is_state_ready
    BY <1>5, <2>2, ListFacts, HeadFacts, ShortSeqs, SMTT(60) DEF AbandonSome, KeptQueue
  <2>. QED  BY <2>1, <2>2
<1>. QED  BY <1>1, <1>2, <1>3, <1>4, <1>5 DEF ListStep

(***************************************************************************)
(* Steps outside a reply.                                                  *)
(***************************************************************************)

\* The reply stays where it is.
LEMMA SamePhase ==
  ASSUME TypeInv, ListInv, SendInv, InReply, CookiesKnown, ListStep, Fixed,
         ~Stopped, ~Stopped', ResumeOK', Phase' = Phase,
         UNCHANGED <<rbuf, hdr, reply_cmd, payload_left>>,
         \/ UNCHANGED cmds_in_flight
         \/ /\ cmds_to_issue # <<>>
            /\ cmds_in_flight' = cmds_in_flight \cup {Head(cmds_to_issue)}
  PROVE  InReply'
<1>1. ResumeOK /\ Attached /\ Needs(Phase)
  BY DEF InReply
<1>2. hdr.cookie = NULL \/ hdr.cookie \in Issued
  BY DEF CookiesKnown, KnownCookie, SendInv, WireInv, GotSent
<1>3. unique # NULL /\ unique \notin Issued /\ NULL \notin Queued
  BY ListFacts, NotNull, HandleAssumption, SMTT(60) DEF TypeInv, TypeOK, ListType, Issued, NULL
<1>4. Attached'
  <2>1. CASE Phase \in Unattached
    BY <1>1, <2>1 DEF Attached
  <2>2. CASE Phase \notin Unattached
    <3>1. reply_cmd = Lookup(hdr.cookie) /\ hdr.cookie \notin Queued
      BY <1>1, <2>2 DEF Attached
    <3>. USE <3>1
    <3>2. hdr.cookie \notin Queued'
      BY <1>2, <1>3, QueueGrows
    <3>3. cmds_to_issue # <<>> => Head(cmds_to_issue) # hdr.cookie
      BY HeadFacts
    <3>4. hdr.cookie \in cmds_in_flight' <=> hdr.cookie \in cmds_in_flight
      BY <3>3
    <3>. QED  BY <2>2, <3>2, <3>4 DEF Attached, Lookup
  <2>. QED  BY <2>1, <2>2
<1>5. Needs(Phase)'
  <2>1. Phase \in WithCommand => reply_cmd \in Issued
    <3>1. Phase \in WithCommand => Phase \notin Unattached /\ reply_cmd # NULL
      BY <1>1 DEF Needs, WithCommand, Unattached
    <3>2. reply_cmd # NULL /\ Phase \notin Unattached => reply_cmd \in cmds_in_flight
      BY <1>1 DEF Attached, Lookup
    <3>. QED  BY <3>1, <3>2, ListFacts
  <2>2. Phase \in WithCommand => cmd'[reply_cmd].type = cmd[reply_cmd].type
    BY <2>1 DEF Fixed
  <2>. QED  BY <1>1, <2>2 DEF Needs, WithCommand
<1>. QED  BY <1>4, <1>5 DEF InReply

\* Outside the REPLY group, and whatever the server does.
LEMMA OutsideRecv ==
  ASSUME TypeInv, ListInv, SendInv, InReply, CookiesKnown, ListStep, Fixed,
         Stopped => Stopped', UNCHANGED recvVars,
         state' = state \/ (state \notin Inner /\ state' \notin Inner),
         \/ Stopped' \/ UNCHANGED cmds_in_flight
         \/ /\ cmds_to_issue # <<>>
            /\ cmds_in_flight' = cmds_in_flight \cup {Head(cmds_to_issue)}
  PROVE  InReply'
<1>1. CASE Stopped'
  BY <1>1 DEF InReply
<1>2. CASE ~Stopped'
  <2>1. /\ ~Stopped /\ Phase' = Phase
        /\ UNCHANGED <<rbuf, hdr, reply_cmd, payload_left>>
    BY <1>2 DEF Phase, recvVars
  <2>2. ResumeOK'
    BY <2>1 DEF InReply, ResumeOK, recvVars, Inner, NoReceive, ReplyStates,
                ResumeStates
  <2>. QED  BY <1>2, <2>1, <2>2, SamePhase
<1>. QED  BY <1>1, <1>2

(***************************************************************************)
(* generator/states-reply.c and states-reply-simple.c.                     *)
(***************************************************************************)

\* A short read is saved and resumed without loss.
LEMMA SaveRecv ==
  ASSUME TypeInv, ListInv, SendInv, InReply, CookiesKnown, ListStep,
         NEW s \in ResumeStates, At(s), RecvError \/ SaveAndReturn
  PROVE  InReply'
<1>1. CASE RecvError
  BY <1>1 DEF RecvError, SET_NEXT_STATE, InReply, Stopped
<1>2. CASE SaveAndReturn
  <2>1. /\ state = s /\ state' = "READY" /\ reply_state' = s
        /\ UNCHANGED <<rbuf, hdr, reply_cmd, payload_left, listVars, cmd>>
        /\ rlen' # 0
    BY <1>2, SMTT(60) DEF SaveAndReturn, RecvShort, StillToRead, At, SET_NEXT_STATE,
                TypeInv, TypeOK, NetType, RecvType
  <2>. USE <2>1
  <2>2. Fixed /\ UNCHANGED cmds_in_flight
    BY SameIsFixed DEF listVars, SameCommands
  <2>3. ~Stopped /\ ~Stopped' /\ Phase = s /\ Phase' = s /\ ResumeOK'
    BY DEF Stopped, Phase, Inner, ReplyStates, ResumeStates, ResumeOK, NoReceive
  <2>. QED  BY <2>2, <2>3, SamePhase
<1>. QED  BY <1>1, <1>2

\* A handler goes on with the same reply, in state t.
LEMMA StepTo ==
  ASSUME TypeInv, ListInv, InReply,
         state \in Inner \ {"RECV_REPLY", "CHECK_REPLY_MAGIC"},
         NEW t \in Inner \ {"RECV_REPLY", "CHECK_REPLY_MAGIC"}, state' = t,
         UNCHANGED <<listVars, hdr, reply_state, reply_cmd>>,
         t \in NoReceive => rlen' = 0, Needs(t)'
  PROVE  InReply'
<1>1. /\ ~Stopped /\ Phase = state /\ Phase' = t
      /\ Phase \notin Unattached /\ t \notin Unattached
  BY DEF Stopped, Phase, Inner, ReplyStates, ResumeStates, Unattached
<1>. USE <1>1
<1>2. ResumeOK'
  BY DEF InReply, ResumeOK
<1>3. Attached'
  BY DEF InReply, Attached, Lookup, Queued, listVars
<1>. QED  BY <1>2, <1>3 DEF InReply

\* A reply is over.
LEMMA ReplyOver ==
  ASSUME InReply, state \in Inner, state \in NoReceive, state' = "READY",
         UNCHANGED <<rlen, reply_state, payload_left>>, reply_cmd' = NULL,
         payload_left = 0
  PROVE  InReply'
<1>1. ~Stopped /\ rlen' = 0 /\ reply_state' = "START"
  BY DEF Stopped, Inner, ReplyStates, ResumeStates, InReply, ResumeOK
<1>2. Phase' = "NONE"
  BY <1>1 DEF Phase, Inner, ReplyStates, ResumeStates
<1>3. ResumeOK' /\ Attached' /\ Needs(Phase)'
  BY <1>1, <1>2 DEF ResumeOK, Attached, Needs, Unattached, NoReceive,
                    WithCommand, MoreToCome
<1>. QED  BY <1>3 DEF InReply

\* REPLY.START begins a reply or resumes the one suspended.
LEMMA StartRecv ==
  ASSUME TypeInv, ListInv, SendInv, InReply, CookiesKnown, ListStep, ReplyStart
  PROVE  InReply'
<1>1. /\ state = "REPLY.START" /\ UNCHANGED <<listVars, cmd, reply_cmd, payload_left>>
      /\ ~Stopped /\ rlen \in Nat /\ inb.avail \in Nat
      /\ reply_state \in ResumeStates \cup {"START"}
  BY DEF ReplyStart, At, Stopped, TypeInv, TypeOK, RecvType, NetType
<1>. USE <1>1
<1>2. Fixed /\ UNCHANGED cmds_in_flight
  BY SameIsFixed DEF listVars, SameCommands
<1>3. CASE rlen > 0
  <2>1. /\ state' = IF reply_state # "START" THEN reply_state ELSE "RECV_REPLY"
        /\ reply_state' = "START" /\ UNCHANGED <<rbuf, rlen, hdr>>
    BY <1>3 DEF ReplyStart, SET_NEXT_STATE
  <2>2. ~Stopped' /\ Phase' = Phase /\ ResumeOK'
    BY <1>3, <2>1, SMTT(60) DEF Stopped, Phase, Inner, ReplyStates, ResumeStates,
           ResumeOK, NoReceive
  <2>. QED  BY <1>2, <2>1, <2>2, SamePhase
<1>4. CASE rlen = 0
  <2>1. Phase = "NONE" /\ reply_state = "START" /\ reply_cmd = NULL
        /\ payload_left = 0
    BY <1>4 DEF Phase, Inner, InReply, ResumeOK, Attached, Unattached, Needs,
           MoreToCome
  <2>2. CASE state' \in {"CLOSED", "DEAD"}
    BY <2>2 DEF Stopped, InReply
  <2>3. CASE state' \notin {"CLOSED", "DEAD"}
    <3>1. /\ state' \in {"REPLY.START", "RECV_REPLY"} /\ reply_state' = "START"
          /\ state' = "REPLY.START" => rlen' = HdrLen
      BY <1>4, <2>1, <2>3 DEF ReplyStart, SET_NEXT_STATE, Block,
             SET_NEXT_STATE_AND_BLOCK
    <3>2. Phase' = "RECV_REPLY"
      BY <3>1 DEF Phase, Inner, ReplyStates, ResumeStates, HdrLen
    <3>3. ResumeOK' /\ Attached' /\ Needs(Phase)'
      BY <2>1, <3>1, <3>2 DEF ResumeOK, Attached, Needs, Unattached, NoReceive,
             WithCommand, MoreToCome
    <3>. QED  BY <3>3 DEF InReply
  <2>. QED  BY <2>2, <2>3
<1>. QED  BY <1>3, <1>4

\* RECV_REPLY reads on.
LEMMA HeaderRecv ==
  ASSUME TypeInv, InReply, RecvReply
  PROVE  InReply'
<1>1. CASE state' = "DEAD"
  BY <1>1 DEF Stopped, InReply
<1>2. CASE state' # "DEAD"
  <2>1. /\ state = "RECV_REPLY" /\ UNCHANGED <<reply_state, reply_cmd, payload_left>>
        /\ \/ state' = "READY" /\ rlen' # 0
           \/ state' = "CHECK_REPLY_MAGIC" /\ rlen' = 0
    BY <1>2, SMTT(60) DEF RecvReply, RecvError, RecvShort, StillToRead, At, SET_NEXT_STATE,
                TypeInv, TypeOK, RecvType, NetType
  <2>. USE <2>1
  <2>2. reply_state = "START" /\ reply_cmd = NULL /\ payload_left = 0
    BY DEF InReply, ResumeOK, Attached, Needs, Phase, Unattached, Inner,
           ReplyStates, MoreToCome, Stopped
  <2>3. Phase' \in {"RECV_REPLY", "CHECK_REPLY_MAGIC"}
    BY <2>2 DEF Phase, Inner, ReplyStates, ResumeStates
  <2>4. ResumeOK' /\ Attached' /\ Needs(Phase)'
    BY <2>2, <2>3 DEF ResumeOK, Attached, Needs, Unattached, NoReceive,
           WithCommand, MoreToCome, Inner, ReplyStates, ResumeStates
  <2>. QED  BY <2>4 DEF InReply
<1>. QED  BY <1>1, <1>2

\* The server has not answered a request that is still in the queue.
LEMMA NotQueued ==
  ASSUME TypeInv, ListInv, SendInv, state \in ReplyStates, CookiesKnown
  PROVE  hdr.cookie \notin Queued
<1>1. ~Stopped /\ state \notin IssueStates
  BY DEF Stopped, ReplyStates, ResumeStates, IssueStates
<1>2. \A c \in got \cap Queued : cmd[c].type = "DISC"
  BY <1>1 DEF SendInv, WireInv, GotSent, AllSent, IssueStates
<1>3. NULL \notin Queued
  BY ListFacts, NotNull
<1>. QED  BY <1>2, <1>3 DEF CookiesKnown, KnownCookie

\* CHECK_REPLY_MAGIC looks the command up.
LEMMA MagicRecv ==
  ASSUME TypeInv, ListInv, SendInv, InReply, CookiesKnown, CheckReplyMagic
  PROVE  InReply'
<1>1. CASE state' = "DEAD"
  BY <1>1 DEF Stopped, InReply
<1>2. CASE state' # "DEAD"
  <2>1. /\ state = "CHECK_REPLY_MAGIC" /\ reply_cmd' = Lookup(hdr.cookie)
        /\ UNCHANGED <<listVars, hdr, reply_state, payload_left>>
        /\ \/ state' \in {"SIMPLE.START", "CHUNK.START"} /\ rlen' = rlen
           \/ state' = "RECV_STRUCTURED_REMAINING"
    BY <1>2 DEF CheckReplyMagic, At, SET_NEXT_STATE
  <2>. USE <2>1
  <2>2. rlen = 0 /\ reply_state = "START" /\ payload_left = 0
    BY DEF InReply, ResumeOK, Needs, Phase, Inner, ReplyStates, MoreToCome,
           Stopped, NoReceive
  <2>3. hdr.cookie \notin Queued
    BY NotQueued DEF ReplyStates
  <2>4. Phase' = state'
    BY DEF Phase, Inner, ReplyStates, ResumeStates
  <2>5. ResumeOK' /\ Needs(Phase)'
    BY <2>2, <2>4 DEF ResumeOK, Needs, NoReceive, WithCommand, MoreToCome
  <2>6. Attached'
    BY <2>3, <2>4 DEF Attached, Lookup, Queued, listVars, Unattached
  <2>. QED  BY <2>5, <2>6 DEF InReply
<1>. QED  BY <1>1, <1>2

\* SIMPLE_REPLY.START goes on to the payload of a read, or to the end.
LEMMA SimpleRecv ==
  ASSUME TypeInv, ListInv, InReply, SimpleStart
  PROVE  InReply'
<1>1. CASE state' = "DEAD"
  BY <1>1 DEF Stopped, InReply
<1>2. CASE state' # "DEAD"
  <2>1. /\ state = "SIMPLE.START"
        /\ UNCHANGED <<listVars, hdr, reply_state, reply_cmd, payload_left>>
        /\ \/ state' = "FINISH_COMMAND" /\ UNCHANGED rlen
           \/ state' = "RECV_READ_PAYLOAD" /\ reply_cmd # NULL
    BY <1>2, ZenonT(60) DEF SimpleStart, At, SET_NEXT_STATE
  <2>. USE <2>1
  <2>2. rlen = 0 /\ payload_left = 0
    BY DEF InReply, ResumeOK, Needs, Phase, Inner, ReplyStates, MoreToCome,
           Stopped, NoReceive
  <2>3. ASSUME NEW t \in {"FINISH_COMMAND", "RECV_READ_PAYLOAD"}, state' = t
        PROVE  InReply'
    <3>1. Needs(t)' /\ (t \in NoReceive => rlen' = 0)
      BY <2>2, <2>3 DEF Needs, WithCommand, MoreToCome, NoReceive
    <3>. QED  BY <2>3, <3>1, StepTo DEF Inner, ReplyStates, ResumeStates
  <2>. QED  BY <2>3
<1>. QED  BY <1>1, <1>2

\* The rest of a structured header, and the payload of a simple reply.
LEMMA PayloadRecv ==
  ASSUME TypeInv, ListInv, SendInv, InReply, CookiesKnown, ListStep,
         RecvStructuredRemaining \/ RecvReadPayload
  PROVE  InReply'
<1>1. ASSUME NEW s \in ResumeStates, At(s), RecvError \/ SaveAndReturn
      PROVE  InReply'
  BY <1>1, SaveRecv
<1>2. ASSUME NEW s \in {"RECV_STRUCTURED_REMAINING", "RECV_READ_PAYLOAD"},
             NEW t \in {"CHUNK.START", "FINISH_COMMAND"}, Received(s),
             SET_NEXT_STATE(t), rlen' = 0, UNCHANGED <<reply_cmd, payload_left>>
      PROVE  InReply'
  <2>. USE <1>2
  <2>1. /\ state = s /\ state' = t
        /\ UNCHANGED <<listVars, hdr, reply_state, reply_cmd>>
    BY DEF Received, At, SET_NEXT_STATE
  <2>2. payload_left = 0
    BY <2>1 DEF InReply, Needs, Phase, Inner, ReplyStates, ResumeStates,
                MoreToCome, Stopped
  <2>3. Needs(t)'
    BY <2>2 DEF Needs, WithCommand, MoreToCome
  <2>. QED  BY <2>1, <2>3, StepTo DEF Inner, ReplyStates, ResumeStates
<1>3. CASE RecvStructuredRemaining
  BY <1>1, <1>2, <1>3 DEF RecvStructuredRemaining, ResumeStates
<1>4. CASE RecvReadPayload
  BY <1>1, <1>2, <1>4 DEF RecvReadPayload, ResumeStates
<1>. QED  BY <1>3, <1>4

\* FINISH_COMMAND ends the reply.
LEMMA FinishRecv ==
  ASSUME InReply, FinishCommand
  PROVE  InReply'
<1>1. /\ state = "FINISH_COMMAND" /\ state' = "READY" /\ reply_cmd' = NULL
      /\ UNCHANGED <<rlen, reply_state, payload_left>>
  BY ZenonT(60) DEF FinishCommand, At, SET_NEXT_STATE
<1>2. state \in Inner /\ state \in NoReceive /\ payload_left = 0
  BY <1>1 DEF InReply, Needs, Phase, Inner, ReplyStates, MoreToCome, Stopped,
              NoReceive, ResumeStates
<1>. QED  BY <1>1, <1>2, ReplyOver

\* The handlers of states-reply.c and states-reply-simple.c.
LEMMA ReplyRecv ==
  ASSUME TypeInv, ListInv, SendInv, InReply, CookiesKnown, ListStep, ReplyStep
  PROVE  InReply'
BY StartRecv, HeaderRecv, MagicRecv, SimpleRecv, PayloadRecv, FinishRecv
   DEF ReplyStep

(***************************************************************************)
(* generator/states-reply-chunk.c.                                         *)
(***************************************************************************)

\* CHUNK_REPLY.START checks the length before it picks the next handler.
LEMMA ChunkStartRecv ==
  ASSUME TypeInv, ListInv, InReply, ChunkStart, SameCommands
  PROVE  InReply'
<1>1. CASE state' = "DEAD"
  BY <1>1 DEF Stopped, InReply
<1>2. CASE state' # "DEAD"
  <2>1. /\ state = "CHUNK.START" /\ UNCHANGED <<listVars, hdr, reply_state, reply_cmd>>
    BY DEF ChunkStart, At
  <2>. USE <2>1
  <2>2. rlen = 0
    BY DEF InReply, ResumeOK, Stopped, NoReceive
  <2>. DEFINE Useful == reply_cmd # NULL /\ UsefulPayload(reply_cmd)
  <2>3. \/ state' = "RESYNC" /\ rbuf' = "null" /\ payload_left' = 0
        \/ /\ state' = "CHUNK.FINISH" /\ payload_left' = 0 /\ rlen' = rlen
        \/ /\ Useful /\ hdr.type = "OFFSET_DATA" /\ state' = "RECV_OFFSET_DATA"
        \/ /\ Useful /\ hdr.type = "OFFSET_HOLE" /\ payload_left' = 0
           /\ state' = "RECV_OFFSET_HOLE"
        \/ /\ Useful /\ IsBlockStatus(hdr.type) /\ payload_left' = hdr.length
           /\ state' = "RECV_BS_HEADER"
        \/ /\ Useful /\ IsError(hdr.type) /\ payload_left' = hdr.length
           /\ state' = "RECV_ERROR"
    BY <1>2, ZenonT(60) DEF ChunkStart, Resync, SET_NEXT_STATE
  <2>. USE <2>3
  <2>4. Useful =>
          /\ hdr.type \in {"OFFSET_DATA", "OFFSET_HOLE"} => cmd[reply_cmd].type = "READ"
          /\ IsBlockStatus(hdr.type) => /\ cmd[reply_cmd].type = "BLOCK_STATUS"
                                        /\ meta_contexts # {}
                                        /\ bs_reply_length_ok(hdr.length)
          /\ IsError(hdr.type) => hdr.length >= ErrCode
    BY DEF UsefulPayload, IsBlockStatus, IsError
  <2>5. reply_cmd # NULL => cmd'[reply_cmd].type = cmd[reply_cmd].type
    BY DEF SameCommands, TypeInv, TypeOK, RecvType
  <2>. HIDE DEF Useful
  <2>6. Useful => reply_cmd # NULL
    BY DEF Useful
  <2>. USE <2>6
  <2>7. ASSUME NEW t \in {"RESYNC", "CHUNK.FINISH", "RECV_OFFSET_DATA",
                          "RECV_OFFSET_HOLE", "RECV_BS_HEADER", "RECV_ERROR"},
               state' = t
        PROVE  InReply'
    <3>. USE <2>7
    <3>1. t \in {"RESYNC", "CHUNK.FINISH"} => Needs(t)'
      BY DEF Needs, WithCommand, MoreToCome
    <3>2. t \in {"RECV_OFFSET_DATA", "RECV_OFFSET_HOLE"} => Needs(t)'
      BY <2>4, <2>5 DEF Needs, WithCommand, MoreToCome
    <3>3. t = "RECV_BS_HEADER" => Needs(t)'
      BY <2>4, <2>5 DEF Needs, WithCommand, MoreToCome, bs_reply_length_ok
    <3>4. t = "RECV_ERROR" => Needs(t)'
      BY <2>4 DEF Needs, WithCommand, MoreToCome
    <3>5. t \in NoReceive => rlen' = 0
      BY <2>2 DEF NoReceive
    <3>. QED  BY <3>1, <3>2, <3>3, <3>4, <3>5, StepTo DEF Inner, ReplyStates,
                     ResumeStates
  <2>. QED  BY <2>7
<1>. QED  BY <1>1, <1>2

\* The handlers that received all they asked for.
LEMMA ChunkFullRecv ==
  ASSUME TypeInv, ListInv, InReply, SameCommands,
         NEW s \in ResumeStates, Received(s),
         \/ s = "RECV_ERROR" /\ RecvChunkError
         \/ s = "RECV_ERROR_MESSAGE" /\ RecvErrorMessage
         \/ s = "RECV_ERROR_TAIL" /\ RecvErrorTail
         \/ s = "RECV_OFFSET_DATA" /\ RecvOffsetData
         \/ s = "RECV_OFFSET_DATA_DATA" /\ RecvOffsetDataData
         \/ s = "RECV_OFFSET_HOLE" /\ RecvOffsetHole
         \/ s = "RECV_BS_HEADER" /\ RecvBsHeader
         \/ s = "RECV_BS_ENTRIES" /\ RecvBsEntries
         \/ s = "RESYNC" /\ ResyncPayload,
         ~RecvError, ~SaveAndReturn
  PROVE  InReply'
<1>1. CASE state' = "DEAD"
  BY <1>1 DEF Stopped, InReply
<1>2. CASE state' # "DEAD"
  <2>1. state = s /\ UNCHANGED <<listVars, hdr, reply_state>>
    BY DEF Received, At
  <2>2. Needs(s)
    BY <2>1 DEF InReply, Phase, Inner, ReplyStates, ResumeStates, Stopped
  <2>3. reply_cmd # NULL => cmd'[reply_cmd].type = cmd[reply_cmd].type
    BY DEF SameCommands, TypeInv, TypeOK, RecvType
  <2>4. \/ /\ s = "RECV_ERROR" /\ state' = "RESYNC" /\ rbuf' = "null"
           /\ payload_left' = 0
        \/ s = "RECV_ERROR" /\ state' = "RECV_ERROR_MESSAGE"
        \/ /\ s = "RECV_ERROR_MESSAGE" /\ state' = "RECV_ERROR_TAIL"
           /\ payload_left' = 0
        \/ /\ s \in {"RECV_ERROR_TAIL", "RECV_OFFSET_HOLE", "RECV_BS_ENTRIES"}
           /\ state' = "CHUNK.FINISH" /\ rlen' = 0 /\ UNCHANGED payload_left
        \/ s = "RECV_OFFSET_DATA" /\ state' = "RECV_OFFSET_DATA_DATA"
        \/ /\ s = "RECV_OFFSET_DATA_DATA" /\ state' = "CHUNK.FINISH"
           /\ rlen' = 0 /\ payload_left' = 0
        \/ /\ s = "RECV_BS_HEADER" /\ state' = "RESYNC" /\ rbuf' = "null"
           /\ payload_left' = 0
        \/ /\ s = "RECV_BS_HEADER" /\ state' = "RECV_BS_ENTRIES"
           /\ payload_left' = 0
        \/ /\ s = "RESYNC" /\ state' \in {"FINISH_COMMAND", "CHUNK.FINISH"}
           /\ rlen' = 0 /\ UNCHANGED payload_left
    BY <1>2, ZenonT(120) DEF RecvChunkError, RecvErrorMessage, RecvErrorTail,
       RecvOffsetData, RecvOffsetDataData, RecvOffsetHole, RecvBsHeader,
       RecvBsEntries, ResyncPayload, Resync, SET_NEXT_STATE
  <2>. USE <2>4
  <2>5. UNCHANGED reply_cmd
    BY ZenonT(120) DEF RecvChunkError, RecvErrorMessage, RecvErrorTail,
       RecvOffsetData, RecvOffsetDataData, RecvOffsetHole, RecvBsHeader,
       RecvBsEntries, ResyncPayload
  <2>6. ASSUME NEW t \in {"RESYNC", "RECV_ERROR_MESSAGE", "RECV_ERROR_TAIL",
                          "CHUNK.FINISH", "RECV_OFFSET_DATA_DATA",
                          "RECV_BS_ENTRIES", "FINISH_COMMAND"}, state' = t
        PROVE  InReply'
    <3>. USE <2>6
    <3>1. Needs(t)'
      <4>1. CASE t \in {"RESYNC", "CHUNK.FINISH", "FINISH_COMMAND"}
        BY <2>2, <4>1 DEF Needs, WithCommand, MoreToCome
      <4>2. CASE t \in {"RECV_ERROR_MESSAGE", "RECV_ERROR_TAIL",
                        "RECV_OFFSET_DATA_DATA"}
        BY <2>2, <2>5, <4>2 DEF Needs, WithCommand, MoreToCome
      <4>3. CASE t = "RECV_BS_ENTRIES"
        <5>1. s = "RECV_BS_HEADER" /\ payload_left' = 0
          BY <4>3
        <5>2. /\ reply_cmd # NULL /\ cmd[reply_cmd].type = "BLOCK_STATUS"
              /\ hdr.length >= BsHdr + BsExtent /\ meta_contexts # {}
          BY <2>2, <5>1 DEF Needs, WithCommand, bs_reply_length_ok
        <5>. QED  BY <2>1, <2>3, <2>5, <4>3, <5>1, <5>2
                  DEF Needs, WithCommand, MoreToCome
      <4>. QED  BY <4>1, <4>2, <4>3
    <3>2. t \in NoReceive => rlen' = 0
      BY DEF NoReceive
    <3>. QED  BY <2>1, <2>5, <3>1, <3>2, StepTo DEF Inner, ReplyStates,
                     ResumeStates
  <2>. QED  BY <2>6
<1>. QED  BY <1>1, <1>2

\* The handlers of states-reply-chunk.c.
LEMMA ChunkRecv ==
  ASSUME TypeInv, ListInv, SendInv, InReply, CookiesKnown, ListStep, ChunkStep,
         SameCommands
  PROVE  InReply'
<1>1. ASSUME NEW s \in ResumeStates, At(s), RecvError \/ SaveAndReturn
      PROVE  InReply'
  BY <1>1, SaveRecv
<1>2. CASE ChunkFinish
  <2>1. /\ state = "CHUNK.FINISH" /\ payload_left = 0
        /\ UNCHANGED <<listVars, rlen, hdr, reply_state, payload_left>>
        /\ \/ state' = "FINISH_COMMAND" /\ UNCHANGED reply_cmd
           \/ state' = "READY" /\ reply_cmd' = NULL
    BY <1>2 DEF ChunkFinish, At, SET_NEXT_STATE
  <2>. USE <2>1
  <2>2. CASE state' = "READY"
    BY <2>2, ReplyOver DEF Inner, ReplyStates, ResumeStates, NoReceive
  <2>3. CASE state' = "FINISH_COMMAND"
    <3>1. rlen' = 0 /\ Needs("FINISH_COMMAND")'
      BY DEF InReply, ResumeOK, Stopped, NoReceive, Needs, WithCommand,
             MoreToCome
    <3>. QED  BY <2>3, <3>1, StepTo DEF Inner, ReplyStates, ResumeStates
  <2>. QED  BY <2>2, <2>3
<1>3. CASE ~ChunkFinish /\ ~ChunkStart
  <2>. DEFINE Full(s) ==
         \/ s = "RECV_ERROR" /\ RecvChunkError
         \/ s = "RECV_ERROR_MESSAGE" /\ RecvErrorMessage
         \/ s = "RECV_ERROR_TAIL" /\ RecvErrorTail
         \/ s = "RECV_OFFSET_DATA" /\ RecvOffsetData
         \/ s = "RECV_OFFSET_DATA_DATA" /\ RecvOffsetDataData
         \/ s = "RECV_OFFSET_HOLE" /\ RecvOffsetHole
         \/ s = "RECV_BS_HEADER" /\ RecvBsHeader
         \/ s = "RECV_BS_ENTRIES" /\ RecvBsEntries
         \/ s = "RESYNC" /\ ResyncPayload
  <2>1. \E s \in ResumeStates : Full(s)
    BY <1>3 DEF ChunkStep, ResumeStates
  <2>2. PICK s \in ResumeStates : Full(s)
    BY <2>1
  <2>3. (At(s) /\ (RecvError \/ SaveAndReturn)) \/ Received(s)
    BY <2>2, ZenonT(60)
       DEF RecvChunkError, RecvErrorMessage, RecvErrorTail, RecvOffsetData,
           RecvOffsetDataData, RecvOffsetHole, RecvBsHeader, RecvBsEntries,
           ResyncPayload
  <2>4. At(s)
    BY <2>3 DEF Received
  <2>. QED  BY <1>1, <2>2, <2>3, <2>4, ChunkFullRecv, Zenon
<1>. QED  BY <1>2, <1>3, ChunkStartRecv

(***************************************************************************)
(* The cookies of the replies.                                             *)
(***************************************************************************)

\* A header comes from the socket, or is not yet whole.
LEMMA HeaderFrom ==
  ASSUME TypeInv, ReplyStep \/ ChunkStep
  PROVE  inb'.msg = inb.msg /\ hdr' \in {hdr, inb.msg, Garbage}
<1>1. ASSUME NEW k, Consume(k)
      PROVE  inb'.msg = inb.msg
  BY <1>1 DEF Consume, TypeInv, TypeOK, NetType
<1>2. CASE ReplyStart \/ RecvReply
  <2>1. inb'.msg = inb.msg
    BY <1>1, <1>2 DEF ReplyStart, RecvReply, RecvError, netVars
  <2>2. hdr' \in {hdr, inb.msg, Garbage}
    BY <1>2 DEF ReplyStart, RecvReply, RecvError, HeaderRead, recvVars
  <2>. QED  BY <2>1, <2>2
<1>3. CASE ~ReplyStart /\ ~RecvReply
  <2>1. UNCHANGED hdr /\ (UNCHANGED inb \/ \E k : Consume(k))
    BY <1>3, ZenonT(120)
       DEF ReplyStep, ChunkStep, CheckReplyMagic, RecvStructuredRemaining,
           SimpleStart, RecvReadPayload, FinishCommand, ChunkStart,
           RecvChunkError, RecvErrorMessage, RecvErrorTail, RecvOffsetData,
           RecvOffsetDataData, RecvOffsetHole, RecvBsHeader, RecvBsEntries,
           ResyncPayload, ChunkFinish, Received, RecvError, SaveAndReturn,
           recvVars, netVars
  <2>. QED  BY <1>1, <2>1
<1>. QED  BY <1>2, <1>3

\* Cookies stay known while the server reads more requests.
LEMMA KeepCookies ==
  ASSUME SendInv, CookiesKnown, Fixed, got \subseteq got',
         hdr'.cookie \in {hdr.cookie, inb.msg.cookie, NULL},
         \/ inb'.msg.cookie \in {inb.msg.cookie, NULL}
         \/ KnownCookie(inb'.msg.cookie)
  PROVE  CookiesKnown'
<1>1. \A c \in got : cmd'[c].type = cmd[c].type
  BY DEF SendInv, WireInv, GotSent, Fixed
<1>2. \A c : KnownCookie(c) => c = NULL \/ (c \in got' /\ cmd'[c].type # "DISC")
  BY <1>1 DEF KnownCookie
<1>. QED  BY <1>2 DEF CookiesKnown, KnownCookie

\* No command loses its extent callback.
LEMMA KeepExtents ==
  ASSUME ExtentCallbacks, Fixed, unique' = unique
  PROVE  ExtentCallbacks'
BY DEF ExtentCallbacks, Fixed, Issued

(***************************************************************************)
(* RecvInv is inductive.                                                   *)
(***************************************************************************)

\* RecvInv is inductive.
LEMMA NextRecv == TypeInv /\ ListInv /\ SendInv /\ DiscWaits /\ RecvInv /\ [Next]_vars
                    => RecvInv'
<1>. SUFFICES ASSUME TypeInv, ListInv, SendInv, DiscWaits, RecvInv, [Next]_vars
              PROVE  RecvInv'
  OBVIOUS
<1>1. InReply /\ CookiesKnown /\ ExtentCallbacks
  BY DEF RecvInv
<1>. USE <1>1
<1>2. ListStep
  BY NextListStep
<1>3. Stopped => Stopped'
  BY StaysStopped
<1>4. CASE ReplyStep \/ ChunkStep
  <2>. USE <1>4
  <2>1. ReplyKeeps
    BY ReplyFrame
  <2>2. SameCommands /\ UNCHANGED <<unique, got>>
    BY <2>1 DEF ReplyKeeps
  <2>. USE <2>2
  <2>3. Fixed
    BY SameIsFixed
  <2>4. inb'.msg = inb.msg /\ hdr' \in {hdr, inb.msg, Garbage}
    BY HeaderFrom
  <2>5. CookiesKnown'
    BY <2>3, <2>4, KeepCookies DEF Garbage
  <2>6. InReply'
    BY <1>2, ReplyRecv, ChunkRecv
  <2>. QED  BY <2>3, <2>5, <2>6, KeepExtents DEF RecvInv
<1>5. ASSUME UNCHANGED <<recvVars, unique>>, SameCommands, got \subseteq got',
             \/ inb'.msg.cookie \in {inb.msg.cookie, NULL}
             \/ KnownCookie(inb'.msg.cookie),
             state' = state \/ (state \notin Inner /\ state' \notin Inner),
             \/ Stopped' \/ UNCHANGED cmds_in_flight
             \/ /\ cmds_to_issue # <<>>
                /\ cmds_in_flight' = cmds_in_flight \cup {Head(cmds_to_issue)}
      PROVE  RecvInv'
  <2>. USE <1>5
  <2>1. Fixed
    BY SameIsFixed
  <2>. USE <2>1
  <2>2. CookiesKnown'
    BY KeepCookies DEF recvVars
  <2>3. InReply'
    BY <1>2, <1>3, OutsideRecv
  <2>. QED  BY <2>2, <2>3, KeepExtents DEF RecvInv
<1>6. CASE IssueStep
  BY <1>5, <1>6, IssueOutside DEF SameCommands
<1>7. CASE Ready \/ Dead \/ Closed
  BY <1>5, <1>7, TopOutside
<1>8. CASE Server
  BY <1>5, <1>8, ServerFrom DEF SameCommands, runVars, listVars
<1>9. CASE UNCHANGED vars
  BY <1>5, <1>9 DEF vars, SameCommands, runVars, listVars, netVars
<1>10. CASE Close
  <2>1. /\ UNCHANGED <<recvVars, cmd, unique, netVars>> /\ Stopped'
    BY <1>10, Zenon DEF Close, Stopped
  <2>. USE <2>1
  <2>2. Fixed
    BY SameIsFixed DEF SameCommands
  <2>3. CookiesKnown'
    BY <2>2, KeepCookies DEF recvVars, netVars
  <2>. QED  BY <2>2, <2>3, KeepExtents DEF RecvInv, InReply
<1>11. CASE ApiStep /\ ~Close
  <2>1. Outside /\ Fixed /\ ExtentCallbacks'
    BY <1>11, ApiOutside
  <2>. USE <2>1
  <2>2. CookiesKnown'
    BY KeepCookies DEF Outside, recvVars
  <2>3. InReply'
    BY <1>2, <1>3, OutsideRecv DEF Outside
  <2>. QED  BY <2>2, <2>3 DEF RecvInv
<1>. QED  BY <1>4, <1>6, <1>7, <1>8, <1>9, <1>10, <1>11 DEF Next, Engine

\* A new handle reads nothing.
LEMMA InitRecv == Init => RecvInv
<1>. SUFFICES ASSUME Init PROVE RecvInv
  OBVIOUS
<1>1. /\ state = "READY" /\ rlen = 0 /\ reply_state = "START" /\ reply_cmd = NULL
      /\ payload_left = 0 /\ unique = 1 /\ hdr.cookie = NULL
      /\ inb.msg.cookie = NULL
  <2>1. hdr = Garbage /\ inb.msg = Garbage
    BY DEF Init
  <2>. QED  BY <2>1 DEF Init, Garbage
<1>. USE <1>1
<1>2. Phase = "NONE"
  BY DEF Phase, Inner, ReplyStates, ResumeStates
<1>3. InReply
  BY <1>2 DEF InReply, ResumeOK, Attached, Needs, Unattached, NoReceive,
         WithCommand, MoreToCome
<1>4. Issued = {}
  BY DEF Issued
<1>. QED  BY <1>3, <1>4 DEF RecvInv, CookiesKnown, KnownCookie, ExtentCallbacks

\* What RecvInv says in each phase implies the assertions of its handler.
LEMMA RecvAsserts ==
  ASSUME TypeInv, ListInv, RecvInv,
         state # "FREED" /\ cmds_in_flight # {} => in_flight > 0
  PROVE  ReplyAsserts /\ ChunkAsserts
<1>1. InReply /\ ExtentCallbacks
  BY DEF RecvInv
<1>2. CASE state \in Inner
  <2>1. ~Stopped /\ Phase = state /\ ResumeOK /\ Attached /\ Needs(state)
    BY <1>1, <1>2 DEF InReply, Stopped, Phase, Inner, ReplyStates, ResumeStates
  <2>. USE <2>1
  <2>2. reply_state = "START" /\ state # "REPLY.START"
    BY <1>2 DEF ResumeOK, Inner
  <2>3. state \notin Unattached => reply_cmd = Lookup(hdr.cookie)
    BY DEF Attached
  <2>4. state \notin Unattached /\ reply_cmd # NULL => reply_cmd \in cmds_in_flight
    BY <2>3 DEF Lookup
  <2>5. state = "FINISH_COMMAND" /\ reply_cmd # NULL => in_flight > 0
    BY <2>4 DEF Unattached
  <2>6. ReplyAsserts
    BY <2>2, <2>3, <2>5 DEF ReplyAsserts, Needs, WithCommand, Unattached
  <2>7. state \in {"RECV_BS_HEADER", "RECV_BS_ENTRIES"} => cmd[reply_cmd].chunk
    BY <1>1, <2>4, ListFacts DEF ExtentCallbacks, Needs, WithCommand, Unattached
  <2>8. ChunkAsserts
    BY <2>7 DEF ChunkAsserts, Needs, WithCommand, MoreToCome
  <2>. QED  BY <2>6, <2>8
<1>3. CASE state \notin Inner
  <2>1. state = "REPLY.START" /\ rlen = 0 => reply_cmd = NULL
    BY <1>1, <1>3 DEF InReply, Stopped, Attached, Phase, Unattached
  <2>2. reply_state \in ResumeStates \cup {"START"}
    BY DEF TypeInv, TypeOK, RecvType
  <2>. QED  BY <1>3, <2>1, <2>2 DEF ReplyAsserts, ChunkAsserts, Inner, ReplyStates,
                                    ResumeStates
<1>. QED  BY <1>2, <1>3
=============================================================================
