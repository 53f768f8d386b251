----------------------------- MODULE Alignment ------------------------------
(***************************************************************************)
(* The reply stream: the units of the current message still in the socket  *)
(* are just those that the handlers will read or skip, so the next header  *)
(* is read where it begins.                                                *)
(***************************************************************************)
EXTENDS TransmissionFacts

\* A step is tried with Zenon for three seconds, then with the solver.
USE ZenonT(3), SMTT(30), SMTT(60)

\* What the code relies on: replies to cookies that nobody has are simple
\* replies, which have no payload, and a server that gets the offset of an
\* extended header wrong sends no payload with it.  CHUNK_REPLY.START skips
\* nothing of an unexpected chunk, for payload_left is not set yet.
\* A header with a wrong magic is what a misread one looks like, so the server
\* sends none.
Orderly ==
  /\ UnknownCookie \subseteq {"simple"}
  /\ \A m \in Shapes : /\ m.magic # "garbage"
                       /\ m.magic = "extended" /\ ~m.echo => m.length = 0

\* A message has been read in part, and hdr holds its header.
Present == Phase # "NONE" /\ ~(Phase = "RECV_REPLY" /\ rlen = HdrLen)

\* What follows the header of message m.
Rest(m) == m.length + (IF m.magic = "structured" THEN RemLen ELSE 0)

\* Units of the message that phase p has still to read.
ToRead(p) ==
  IF p \in {"NONE", "CHUNK.FINISH", "FINISH_COMMAND"} THEN 0
  ELSE IF p = "RECV_REPLY" THEN IF rlen = HdrLen THEN 0 ELSE rlen + Rest(hdr)
  ELSE IF p = "CHECK_REPLY_MAGIC" THEN Rest(hdr)
  ELSE IF p \in {"SIMPLE.START", "CHUNK.START"} THEN hdr.length
  ELSE IF p = "RECV_STRUCTURED_REMAINING" THEN rlen + hdr.length
  ELSE IF p = "RECV_ERROR"
       THEN rlen + (payload_left - Lower(payload_left, ErrFixed))
  ELSE IF p \in {"RECV_ERROR_MESSAGE", "RECV_OFFSET_DATA"}
       THEN rlen + payload_left
  ELSE IF p = "RECV_BS_HEADER" THEN rlen + (payload_left - BsHdr)
  ELSE rlen

(***************************************************************************)
(* The inductive invariant.                                                *)
(***************************************************************************)

\* The socket has n more units of the message being read, or fewer if the
\* connection was lost; with n = 0 it is at the start of a message.
StreamAt(n) ==
  IF n = 0 THEN inb.fresh \/ inb.left = 0
  ELSE ~inb.fresh /\ inb.left <= n /\ (up => inb.left = n)

FreshWhole ==
  inb.fresh => inb.left <= Size(inb.msg) /\ (up => inb.left = Size(inb.msg))

\* What phase p knows of the header.
SimplePhases == {"SIMPLE.START", "RECV_READ_PAYLOAD"}

Kind(p) ==
  /\ p = "RECV_REPLY" => rlen <= HdrLen
  /\ p \in SimplePhases => hdr.magic = "simple"
  /\ p = "FINISH_COMMAND" => Final(hdr)
  /\ p \notin Unattached \cup SimplePhases \cup {"FINISH_COMMAND"}
       => hdr.magic # "simple"

\* Message m was framed for the command it answers.
Fits(m) ==
  /\ m.magic # "garbage" /\ (m.magic = "extended" <=> extended_headers)
  /\ m.magic = "structured" => structured_replies
  /\ m.magic = "simple" =>
       m.length = (IF /\ m.cookie # NULL /\ cmd[m.cookie].type = "READ"
                      /\ m.error = NoErr
                   THEN cmd[m.cookie].count ELSE 0)
  /\ m.cookie = NULL => m.magic = "simple"
  /\ m.magic = "extended" /\ ~m.echo => m.length = 0

Framing == (Present => Fits(hdr)) /\ (inb.fresh => Fits(inb.msg))

\* A command that is no longer queued or in flight was answered, and nothing
\* more about it is to be read.
Pending(c) ==
  \/ Present /\ hdr.cookie = c
  \/ inb.fresh /\ inb.msg.cookie = c

Answered ==
  \A c \in got : cmd[c].type # "DISC" /\ c \notin Live => c \in ans /\ ~Pending(c)

\* The last chunk of a reply is the last message about its cookie.
LastWord ==
  /\ Present /\ Final(hdr) /\ hdr.cookie # NULL
       => hdr.cookie \in ans /\ ~(inb.fresh /\ inb.msg.cookie = hdr.cookie)
  /\ inb.fresh /\ Final(inb.msg) /\ inb.msg.cookie # NULL
       => inb.msg.cookie \in ans

Exchange == FreshWhole /\ Framing /\ Answered /\ LastWord

AlignInv ==
  Stopped \/ (StreamAt(ToRead(Phase)) /\ Kind(Phase) /\ Exchange)

(***************************************************************************)
(* Reading on.                                                             *)
(***************************************************************************)

\* The types the arithmetic of the stream needs.
LEMMA StreamTypes ==
  ASSUME TypeInv
  PROVE  /\ inb \in [msg : Message, left : Nat, avail : Nat, fresh : BOOLEAN]
         /\ inb.left \in Nat /\ inb.avail \in Nat /\ inb.avail <= inb.left
         /\ inb.fresh \in BOOLEAN /\ up \in BOOLEAN /\ inb.msg \in Message
         /\ rlen \in Nat /\ payload_left \in Nat /\ hdr \in Message
         /\ hdr.length \in Nat /\ Rest(hdr) \in Nat /\ Size(inb.msg) \in Nat
         /\ hdr.msglen \in Nat
         /\ Size(inb.msg) = HdrLen + Rest(inb.msg) /\ Rest(inb.msg) \in Nat
<1>1. /\ inb \in [msg : Message, left : Nat, avail : Nat, fresh : BOOLEAN]
      /\ inb.avail <= inb.left /\ up \in BOOLEAN
      /\ rlen \in Nat /\ payload_left \in Nat /\ hdr \in Message
  BY DEF TypeInv, TypeOK, NetType, RecvType
<1>2. \A m \in Message : /\ m.length \in Nat /\ m.msglen \in Nat /\ Rest(m) \in Nat
                         /\ Size(m) = HdrLen + Rest(m) /\ Size(m) \in Nat
  BY SMTT(60) DEF Message, Rest, Size, RemLen, HdrLen
<1>. QED  BY <1>1, <1>2

\* The number of units still to be read.
LEMMA ToReadType ==
  ASSUME TypeInv, InReply, ~Stopped
  PROVE  ToRead(Phase) \in Nat
<1>1. Phase = "RECV_BS_HEADER" => payload_left - BsHdr \in Nat
  <2>1. Phase = "RECV_BS_HEADER" => bs_reply_length_ok(payload_left)
    BY DEF InReply, Needs
  <2>. QED  BY <2>1, StreamTypes, SMTT(60) DEF bs_reply_length_ok, BsHdr, BsExtent
<1>2. payload_left - Lower(payload_left, ErrFixed) \in Nat
  BY StreamTypes, SMTT(60) DEF Lower, ErrFixed
<1>. QED  BY <1>1, <1>2, StreamTypes, SMTT(60) DEF ToRead

\* Reading k units leaves k fewer to be read.
LEMMA Consumed ==
  ASSUME TypeInv, NEW n \in Nat, StreamAt(n), NEW k \in Nat, k <= n,
         k <= inb.avail, Consume(k), up' = up
  PROVE  StreamAt(n - k)'
<1>1. /\ inb'.left = inb.left - k /\ (inb'.fresh <=> inb.fresh /\ k = 0)
  BY StreamTypes, Zenon DEF Consume
<1>2. CASE n = 0
  BY <1>1, <1>2, StreamTypes DEF StreamAt
<1>3. CASE n # 0
  BY <1>1, <1>3, StreamTypes DEF StreamAt
<1>. QED  BY <1>2, <1>3

\* The fields of inb that a handler does not touch.
OnlyConsumes == UNCHANGED inb \/ \E k \in Nat : Consume(k)

\* Reading changes no message and makes none fresh.
LEMMA FreshKept ==
  ASSUME TypeInv, OnlyConsumes
  PROVE  /\ inb'.msg = inb.msg /\ inb'.fresh \in BOOLEAN
         /\ inb'.fresh => inb.fresh /\ inb'.left = inb.left
<1>1. ASSUME NEW k \in Nat, Consume(k)
      PROVE  /\ inb'.msg = inb.msg /\ inb'.fresh \in BOOLEAN
             /\ inb'.fresh => inb.fresh /\ inb'.left = inb.left
  <2>1. /\ inb'.msg = inb.msg /\ inb'.left = inb.left - k
        /\ inb'.fresh = (inb.fresh /\ k = 0)
    BY <1>1, StreamTypes DEF Consume
  <2>2. k = 0 => inb.left - k = inb.left
    BY StreamTypes
  <2>. QED  BY <2>1, <2>2, Zenon
<1>. QED  BY <1>1, StreamTypes DEF OnlyConsumes

\* The commands that are over were over before.
NoneEnds ==
  \A c \in got' : cmd'[c].type # "DISC" /\ c \notin Live' => c \in got /\ c \notin Live

\* No new message, and no command ends.
LEMMA ExchangeKept ==
  ASSUME TypeInv, SendInv, CookiesKnown, Fixed, Exchange, OnlyConsumes, NoneEnds,
         UNCHANGED <<up, ans, hdr>>, Present' => Present
  PROVE  Exchange'
<1>1. /\ inb'.msg = inb.msg /\ inb'.fresh \in BOOLEAN
      /\ inb'.fresh => inb.fresh /\ inb'.left = inb.left
  BY FreshKept
<1>2. FreshWhole'
  BY <1>1 DEF Exchange, FreshWhole
<1>3. Framing'
  <2>1. ASSUME NEW c, KnownCookie(c), c # NULL
        PROVE  /\ cmd'[c].type = cmd[c].type /\ cmd'[c].count = cmd[c].count
    BY <2>1 DEF KnownCookie, SendInv, WireInv, GotSent, Fixed
  <2>2. Present' => Fits(hdr)'
    BY <2>1 DEF Exchange, Framing, Fits, CookiesKnown
  <2>3. inb'.fresh => Fits(inb.msg)'
    BY <1>1, <2>1, SMTT(60) DEF Exchange, Framing, Fits, CookiesKnown
  <2>. QED  BY <2>2, <2>3 DEF Framing
<1>4. Answered'
  <2>1. \A c : Pending(c)' => Pending(c)
    BY <1>1 DEF Pending
  <2>2. \A c \in got : cmd'[c].type = cmd[c].type
    BY DEF SendInv, WireInv, GotSent, Fixed
  <2>. QED  BY <2>1, <2>2 DEF Exchange, Answered, NoneEnds
<1>5. LastWord'
  BY <1>1 DEF Exchange, LastWord, Final
<1>. QED  BY <1>2, <1>3, <1>4, <1>5 DEF Exchange

(***************************************************************************)
(* Steps outside a reply.                                                  *)
(***************************************************************************)

\* The reply stays where it is.
LEMMA OutsideAlign ==
  ASSUME TypeInv, SendInv, CookiesKnown, Fixed, AlignInv, Stopped => Stopped',
         UNCHANGED <<recvVars, up, inb, ans>>, Stopped' \/ NoneEnds,
         state' = state \/ (state \notin Inner /\ state' \notin Inner)
  PROVE  AlignInv'
<1>1. CASE Stopped'
  BY <1>1 DEF AlignInv
<1>2. CASE ~Stopped'
  <2>1. StreamAt(ToRead(Phase)) /\ Kind(Phase) /\ Exchange
    BY <1>2 DEF AlignInv
  <2>2. Phase' = Phase /\ UNCHANGED <<rlen, hdr, payload_left>>
    BY DEF Phase, recvVars
  <2>3. StreamAt(ToRead(Phase))' /\ Kind(Phase)'
    BY <2>1, <2>2 DEF StreamAt, ToRead, Kind, Rest, Final
  <2>4. Exchange'
    BY <1>2, <2>1, <2>2, ExchangeKept DEF Present, OnlyConsumes
  <2>. QED  BY <2>3, <2>4 DEF AlignInv
<1>. QED  BY <1>1, <1>2

\* A request that has just arrived is that of the head of the queue.
LEMMA IssueKeeps ==
  ASSUME TypeInv, ListInv, SendInv, ListStep, IssueStep
  PROVE  Stopped' \/ NoneEnds
<1>1. ~Stopped /\ running /\ UNCHANGED <<cmd, unique>>
  <2>1. running
    BY IssueMoves
  <2>2. state \in IssueStates
    BY DEF IssueStep, IssueStart, SendRequest, PauseSendRequest,
           PrepareWritePayload, SendWritePayload, PauseWritePayload,
           SendWriteShutdown, PauseWriteShutdown, IssueFinish, At, IssueStates
  <2>. QED  BY <2>1, <2>2, IssueOutside DEF Stopped, IssueStates
<1>2. CASE SendRequest \/ SendWritePayload
  <2>1. CASE SendError
    BY <2>1 DEF SendError, SET_NEXT_STATE, Stopped
  <2>2. CASE ~SendError
    <3>1. /\ SendSome /\ UNCHANGED listVars
          /\ state \in {"SEND_REQUEST", "SEND_WRITE_PAYLOAD"}
      BY <1>2, <2>2 DEF SendRequest, SendWritePayload, SendThen, At
    <3>2. got' \subseteq got \cup {req}
      BY <3>1, Zenon DEF SendSome, Arrive
    <3>3. req \in Queued
      <4>1. cmds_to_issue # <<>> /\ Head(cmds_to_issue) = req
        BY <1>1, <3>1 DEF SendInv, SendControl, BufferIsHead, SendStates, HeadIsReq,
                          IssueStates
      <4>. QED  BY <4>1, HeadFacts
    <3>4. Live' = Live
      BY <3>1, ListFacts, Zenon DEF listVars
    <3>. QED  BY <3>2, <3>3, <3>4, ListFacts DEF NoneEnds
  <2>. QED  BY <2>1, <2>2
<1>3. CASE ~SendRequest /\ ~SendWritePayload
  <2>1. UNCHANGED got
    BY <1>3 DEF IssueStep, IssueStart, PauseSendRequest, PrepareWritePayload,
                PauseWritePayload, SendWriteShutdown, PauseWriteShutdown,
                IssueFinish, netVars
  <2>2. cmds_in_flight \subseteq cmds_in_flight' /\ ~AbandonSome
    BY <1>1, IssueOutside DEF AbandonSome
  <2>. QED  BY <2>1, <2>2, LiveKept DEF NoneEnds
<1>. QED  BY <1>2, <1>3

\* nbd_shutdown abandons no command that the server has all of.
LEMMA ApiKeeps ==
  ASSUME TypeInv, ListInv, SendInv, AwakeInv, ListStep, UNCHANGED <<got, cmds_in_flight>>,
         Fixed, Stopped => Stopped'
  PROVE  Stopped' \/ NoneEnds
<1>1. CASE Stopped' \/ ~AbandonSome
  BY <1>1, LiveKept DEF NoneEnds
<1>2. CASE ~Stopped' /\ AbandonSome
  <2>1. SUFFICES ASSUME NEW c \in got, cmd[c].type # "DISC", c \in Live
                 PROVE  c \in Live'
    BY DEF NoneEnds, Fixed, SendInv, WireInv, GotSent
  <2>2. c \notin Queued
    <3>1. SUFFICES ASSUME c \in Queued PROVE FALSE
      OBVIOUS
    <3>2. wlen = 0 /\ state \in {"SEND_WRITE_PAYLOAD", "ISSUE.FINISH",
                                 "PREPARE_WRITE_PAYLOAD"}
      BY <1>2, <2>1, <3>1 DEF SendInv, WireInv, GotSent, AllSent, AbandonSome
    <3>3. state = "SEND_WRITE_PAYLOAD"
      BY <1>2, <3>2 DEF AbandonSome, AwakeInv, WaitsInPlace, Stopped, WaitStates
    <3>. QED  BY <1>2, <3>2, <3>3 DEF AbandonSome, SendInv, SendControl, BufferHolds
  <2>. QED  BY <2>1, <2>2, ListFacts
<1>. QED  BY <1>1, <1>2

(***************************************************************************)
(* The server.                                                             *)
(***************************************************************************)

\* The server sends a message only after the one before it has been sent whole.
LEMMA TransmitAlign ==
  ASSUME TypeInv, ListInv, SendInv, CookiesKnown, AlignInv, ~Stopped,
         NEW m \in Message, Transmit(m), Fits(m), KnownCookie(m.cookie),
         m.cookie \notin ans,
         ans' = IF Final(m) /\ m.cookie # NULL THEN ans \cup {m.cookie} ELSE ans
  PROVE  AlignInv'
<1>1. /\ StreamAt(ToRead(Phase)) /\ Kind(Phase) /\ Exchange
      /\ up /\ inb.left = 0 /\ up' = up
      /\ inb' = [msg |-> m, left |-> Size(m), avail |-> 0, fresh |-> TRUE]
      /\ UNCHANGED <<runVars, listVars, cmd, recvVars, got>>
  BY DEF AlignInv, Transmit
<1>2. UNCHANGED <<state, cmds_to_issue, cmds_in_flight, rlen, hdr, reply_state,
                  payload_left>>
  BY <1>1 DEF runVars, listVars, recvVars
<1>3. Phase' = Phase /\ Present' = Present /\ ToRead(Phase)' = ToRead(Phase)
      /\ Kind(Phase)'
  BY <1>1, <1>2 DEF Phase, Present, ToRead, Rest, Kind, Final
<1>4. ToRead(Phase) = 0
  BY <1>1 DEF StreamAt
<1>5. StreamAt(ToRead(Phase))'
  BY <1>1, <1>3, <1>4 DEF StreamAt
<1>6. FreshWhole' /\ Framing'
  <2>1. Size(m) \in Nat
    BY SMTT(60) DEF Message, Size, HdrLen, RemLen
  <2>2. inb'.msg = m /\ inb'.left = Size(m)
    BY <1>1
  <2>. QED  BY <1>1, <1>2, <1>3, <2>1, <2>2 DEF FreshWhole, Exchange, Framing, Fits
<1>7. Live' = Live
  BY <1>2, ListFacts, Zenon
<1>8. Answered'
  <2>1. SUFFICES ASSUME NEW c \in got, cmd[c].type # "DISC", c \notin Live
                 PROVE  c \in ans' /\ ~Pending(c)'
    BY <1>1, <1>7 DEF Answered
  <2>2. c \in ans /\ ~Pending(c)
    BY <1>1, <2>1 DEF Exchange, Answered
  <2>. QED  BY <1>1, <1>2, <1>3, <2>2 DEF Pending
<1>9. LastWord'
  BY <1>1, <1>2, <1>3 DEF Exchange, LastWord, Final
<1>. QED  BY <1>3, <1>5, <1>6, <1>8, <1>9 DEF AlignInv, Exchange

\* The messages of an orderly server are framed for the handle.
LEMMA ServerReplyAlign ==
  ASSUME TypeInv, ListInv, SendInv, CookiesKnown, AlignInv, ~Stopped, Orderly,
         NEW c \in Cookie, NEW m \in Shapes, ServerReply(c, m)
  PROVE  AlignInv'
<1>. DEFINE n == [m EXCEPT !.cookie = c]
<1>1. m \in Message /\ m.magic # "garbage"
      /\ (m.magic = "extended" /\ ~m.echo => m.length = 0)
  BY HandleAssumption DEF Orderly
<1>2. /\ n \in Message /\ n.cookie = c /\ n.magic = m.magic /\ n.length = m.length
      /\ n.echo = m.echo /\ n.error = m.error /\ n.done = m.done
  BY <1>1 DEF Message
<1>3. /\ c \in got \ ans /\ cmd[c].type # "DISC" /\ Framed(c, m) /\ Transmit(n)
      /\ ans' = IF Final(m) THEN ans \cup {c} ELSE ans
  BY DEF ServerReply
<1>4. c # NULL
  BY NotNull
<1>. HIDE DEF n
<1>5. Fits(n)
  BY <1>1, <1>2, <1>3, <1>4 DEF Fits, Framed
<1>6. KnownCookie(n.cookie) /\ n.cookie \notin ans
      /\ ans' = IF Final(n) /\ n.cookie # NULL THEN ans \cup {n.cookie} ELSE ans
  BY <1>2, <1>3, <1>4 DEF KnownCookie, Final
<1>. QED  BY <1>2, <1>3, <1>5, <1>6, TransmitAlign

\* Under Orderly, a reply nobody asked for is skipped to its end.
LEMMA ServerStrayAlign ==
  ASSUME TypeInv, ListInv, SendInv, CookiesKnown, AlignInv, ~Stopped, Orderly,
         NEW m \in Shapes, ServerStray(m)
  PROVE  AlignInv'
<1>. DEFINE n == [m EXCEPT !.cookie = NULL]
<1>1. m \in Message /\ m.magic = "simple" /\ m.length = 0
      /\ (m.magic = "extended" <=> extended_headers)
  BY HandleAssumption DEF Orderly, ServerStray
<1>2. /\ n \in Message /\ n.cookie = NULL /\ n.magic = m.magic
      /\ n.length = m.length
  BY <1>1 DEF Message
<1>3. Transmit(n) /\ ans' = ans
  BY DEF ServerStray
<1>4. NULL \notin ans
  BY NotNull DEF TypeInv, TypeOK, NetType
<1>. HIDE DEF n
<1>5. Fits(n)
  BY <1>1, <1>2 DEF Fits
<1>6. KnownCookie(n.cookie) /\ n.cookie \notin ans
      /\ ans' = IF Final(n) /\ n.cookie # NULL THEN ans \cup {n.cookie} ELSE ans
  BY <1>2, <1>3, <1>4 DEF KnownCookie
<1>. QED  BY <1>2, <1>3, <1>5, <1>6, TransmitAlign

\* The network delivers what was sent, or loses the end of it for good.
LEMMA NetworkAlign ==
  ASSUME TypeInv, ListInv, InReply, AlignInv, ~Stopped,
         Deliver \/ Drain \/ ServerClose \/ ConnectionLost
  PROVE  AlignInv'
<1>1. StreamAt(ToRead(Phase)) /\ Kind(Phase) /\ Exchange
  BY DEF AlignInv
<1>2. UNCHANGED <<runVars, listVars, cmd, recvVars, got, ans>>
  BY DEF Deliver, Drain, ServerClose, ConnectionLost
<1>3. /\ inb'.msg = inb.msg /\ inb'.fresh = inb.fresh
      /\ inb'.left \in Nat /\ inb'.left <= inb.left
      /\ up' => up /\ inb'.left = inb.left
  BY StreamTypes, SMTT(60) DEF Deliver, Drain, ServerClose, ConnectionLost
<1>4. UNCHANGED <<state, cmds_to_issue, cmds_in_flight, rlen, hdr, reply_state,
                  payload_left>>
  BY <1>2 DEF runVars, listVars, recvVars
<1>5. Phase' = Phase /\ Present' = Present /\ ToRead(Phase)' = ToRead(Phase)
      /\ Kind(Phase)'
  BY <1>1, <1>4 DEF Phase, Present, ToRead, Rest, Kind, Final
<1>6. ToRead(Phase) \in Nat
  BY ToReadType
<1>7. StreamAt(ToRead(Phase))'
  BY <1>1, <1>3, <1>5, <1>6, StreamTypes DEF StreamAt
<1>8. FreshWhole'
  BY <1>1, <1>3, StreamTypes DEF Exchange, FreshWhole
<1>9. Framing' /\ Answered' /\ LastWord'
  <2>1. Live' = Live
    BY <1>4, ListFacts, Zenon
  <2>. QED  BY <1>1, <1>2, <1>3, <1>4, <1>5, <2>1
            DEF Exchange, Framing, Fits, Answered, Pending, LastWord, Final
<1>. QED  BY <1>5, <1>7, <1>8, <1>9 DEF AlignInv, Exchange

(***************************************************************************)
(* Handlers of the REPLY group.                                            *)
(***************************************************************************)

\* k units are taken from the stream.
Takes(k) == k <= inb.avail /\ (Consume(k) \/ (k = 0 /\ UNCHANGED inb))

\* A handler reads k units more of the message and goes on to phase p.
LEMMA GoOn ==
  ASSUME TypeInv, ListInv, SendInv, CookiesKnown, AlignInv, SameCommands,
         ~Stopped, NEW p, Phase' = p, NEW k \in Nat, Takes(k),
         NEW n \in Nat, ToRead(Phase) = n, k <= n, ToRead(p)' = n - k, Kind(p)',
         Present' => Present,
         UNCHANGED <<listVars, hdr, up, got, ans>>
  PROVE  AlignInv'
<1>1. StreamAt(n) /\ Exchange
  BY DEF AlignInv
<1>2. StreamAt(n - k)'
  <2>1. CASE Consume(k)
    BY <1>1, <2>1, Consumed DEF Takes
  <2>2. CASE k = 0 /\ UNCHANGED inb
    BY <1>1, <2>2 DEF StreamAt
  <2>. QED  BY <2>1, <2>2 DEF Takes
<1>3. Fixed /\ NoneEnds /\ OnlyConsumes
  <2>1. Live' = Live
    BY ListFacts, Zenon DEF listVars
  <2>2. Fixed
    BY SameIsFixed DEF listVars
  <2>3. NoneEnds
    BY <2>1 DEF NoneEnds
  <2>4. OnlyConsumes
    BY DEF OnlyConsumes, Takes
  <2>. QED  BY <2>2, <2>3, <2>4
<1>4. Exchange'
  BY <1>1, <1>3, ExchangeKept
<1>. QED  BY <1>2, <1>4 DEF AlignInv, StreamAt

\* The read that starts a header starts at a message.
LEMMA HeaderAlign ==
  ASSUME TypeInv, ListInv, AlignInv, SameCommands, ~Stopped,
         NEW k \in 1..HdrLen, k <= inb.avail, Consume(k), ToRead(Phase) = 0,
         hdr' = HeaderRead(HdrLen, k), rlen' = HdrLen - k,
         \/ Phase' = "RECV_REPLY"
         \/ Phase' = "CHECK_REPLY_MAGIC" /\ k = HdrLen,
         CookiesKnown, SendInv, UNCHANGED <<listVars, up, got, ans>>
  PROVE  AlignInv'
<1>1. StreamAt(0) /\ Exchange
  BY DEF AlignInv, StreamAt
<1>2. inb.fresh
  BY <1>1, StreamTypes, SMTT(60) DEF StreamAt, HdrLen
<1>3. hdr' = inb.msg /\ k > 0
  BY <1>2 DEF HeaderRead, HdrLen
<1>4. /\ inb'.left = inb.left - k /\ ~inb'.fresh
  <2>1. inb'.left = inb.left - k /\ inb'.fresh = (inb.fresh /\ k = 0)
    BY StreamTypes DEF Consume
  <2>2. k # 0
    BY <1>3
  <2>. QED  BY <2>1, <2>2, Zenon
<1>5. ToRead(Phase)' = (HdrLen - k) + Rest(inb.msg)
  BY <1>3, StreamTypes, SMTT(60) DEF ToRead, Rest, HdrLen
<1>6. StreamAt(ToRead(Phase))'
  BY <1>1, <1>2, <1>4, <1>5, StreamTypes, SMTT(60) DEF StreamAt, Exchange, FreshWhole, HdrLen
<1>7. Kind(Phase)'
  BY DEF Kind, Unattached, SimplePhases, HdrLen
<1>8. Exchange'
  <2>1. Fixed
    BY SameIsFixed DEF listVars
  <2>2. ASSUME NEW c, KnownCookie(c), c # NULL
        PROVE  /\ cmd'[c].type = cmd[c].type /\ cmd'[c].count = cmd[c].count
    BY <2>1, <2>2 DEF KnownCookie, SendInv, WireInv, GotSent, Fixed
  <2>3. FreshWhole' /\ Framing'
    BY <1>1, <1>2, <1>3, <1>4, <2>2, SMTT(60)
       DEF FreshWhole, Exchange, Framing, Fits, CookiesKnown
  <2>4. Answered'
    <3>1. \A c : Pending(c)' => Pending(c)
      BY <1>2, <1>3, <1>4 DEF Pending
    <3>2. Live' = Live
      BY ListFacts, Zenon DEF listVars
    <3>3. \A c \in got : cmd'[c].type = cmd[c].type
      BY <2>1 DEF SendInv, WireInv, GotSent, Fixed
    <3>. QED  BY <1>1, <3>1, <3>2, <3>3 DEF Exchange, Answered
  <2>5. LastWord'
    BY <1>1, <1>2, <1>3, <1>4 DEF Exchange, LastWord, Final
  <2>. QED  BY <2>3, <2>4, <2>5 DEF Exchange
<1>. QED  BY <1>6, <1>7, <1>8 DEF AlignInv

\* A short read is resumed at the unit where it stopped.
LEMMA SaveAlign ==
  ASSUME TypeInv, ListInv, SendInv, CookiesKnown, InReply, AlignInv,
         NEW s \in ResumeStates, At(s), RecvError \/ SaveAndReturn
  PROVE  AlignInv'
<1>1. CASE RecvError
  BY <1>1 DEF RecvError, SET_NEXT_STATE, AlignInv, Stopped
<1>2. CASE SaveAndReturn
  <2>1. /\ state = s /\ state' = "READY" /\ reply_state' = s
        /\ UNCHANGED <<hdr, payload_left, listVars, cmd, up, got, ans>>
        /\ inb.avail < rlen /\ rlen' = rlen - inb.avail /\ Consume(inb.avail)
    BY <1>2 DEF SaveAndReturn, RecvShort, StillToRead, At, SET_NEXT_STATE
  <2>2. /\ ~Stopped /\ Phase = s /\ Phase' = s /\ Present
    BY <2>1, StreamTypes, SMTT(60) DEF Stopped, Phase, Inner, ReplyStates, ResumeStates,
                             Present
  <2>3. ToRead(s) \in Nat
    BY <2>2, ToReadType
  <2>4. ToRead(s)' = ToRead(s) - inb.avail /\ inb.avail <= ToRead(s)
    <3>1. payload_left - Lower(payload_left, ErrFixed) \in Nat
      BY StreamTypes, SMTT(60) DEF Lower, ErrFixed
    <3>2. s = "RECV_BS_HEADER" => payload_left - BsHdr \in Nat
      <4>1. s = "RECV_BS_HEADER" => bs_reply_length_ok(payload_left)
        BY <2>2 DEF InReply, Needs
      <4>. QED  BY <4>1, StreamTypes, SMTT(60) DEF bs_reply_length_ok, BsHdr, BsExtent
    <3>. QED  BY <2>1, <3>1, <3>2, StreamTypes, SMTT(60) DEF ToRead, ResumeStates
  <2>5. Kind(s)'
    BY <2>1, <2>2 DEF AlignInv, Kind, Final, ResumeStates
  <2>. QED  BY <2>1, <2>2, <2>3, <2>4, <2>5, StreamTypes, GoOn, SMTT(60) DEF SameCommands, Takes
<1>. QED  BY <1>1, <1>2

\* REPLY.START.
LEMMA StartAlign ==
  ASSUME TypeInv, ListInv, SendInv, CookiesKnown, InReply, AlignInv, ReplyStart
  PROVE  AlignInv'
<1>1. /\ state = "REPLY.START" /\ ~Stopped
      /\ UNCHANGED <<listVars, cmd, payload_left, up, got, ans>>
      /\ reply_state \in ResumeStates \cup {"START"}
      /\ rlen = 0 => reply_state = "START"
  BY DEF ReplyStart, At, Stopped, TypeInv, TypeOK, RecvType, InReply, ResumeOK
<1>2. ToRead(Phase) \in Nat
  BY <1>1, ToReadType
<1>3. CASE rlen > 0
  <2>1. /\ state' = IF reply_state # "START" THEN reply_state ELSE "RECV_REPLY"
        /\ reply_state' = "START" /\ UNCHANGED <<rlen, hdr, inb>>
    BY <1>1, <1>3 DEF ReplyStart, SET_NEXT_STATE
  <2>2. Phase' = Phase
    BY <1>1, <1>3, <2>1, StreamTypes, SMTT(60) DEF Phase, Inner, ReplyStates, ResumeStates
  <2>3. Present' = Present /\ ToRead(Phase)' = ToRead(Phase) /\ Kind(Phase)'
    BY <1>1, <2>1, <2>2 DEF Present, ToRead, Rest, AlignInv, Kind, Final
  <2>4. Exchange'
    <3>1. Live' = Live /\ SameCommands
      BY <1>1, ListFacts, Zenon DEF listVars, SameCommands
    <3>2. NoneEnds /\ Fixed
      BY <1>1, <3>1, SameIsFixed DEF NoneEnds, listVars
    <3>. QED  BY <1>1, <2>1, <2>3, <3>2, ExchangeKept DEF OnlyConsumes, AlignInv
  <2>. QED  BY <1>1, <2>1, <2>2, <2>3, <2>4 DEF AlignInv, StreamAt
<1>4. CASE rlen = 0
  <2>1. Phase = "NONE" /\ reply_state = "START" /\ ToRead(Phase) = 0 /\ ~Present
    BY <1>1, <1>4 DEF Phase, Inner, ToRead, Present
  <2>2. CASE state' \in {"CLOSED", "DEAD"}
    BY <2>2 DEF Stopped, AlignInv
  <2>3. CASE state' = "REPLY.START"
    <3>1. rlen' = HdrLen /\ UNCHANGED <<reply_state, hdr, inb>>
      BY <1>1, <1>4, <2>3 DEF ReplyStart, SET_NEXT_STATE, HdrLen
    <3>2. Phase' = "RECV_REPLY"
      BY <2>1, <2>3, <3>1 DEF Phase, Inner, HdrLen
    <3>3. ToRead("RECV_REPLY")' = 0 /\ Kind("RECV_REPLY")' /\ ~Present'
      BY <3>1, <3>2 DEF ToRead, Kind, Unattached, SimplePhases, Present, HdrLen
    <3>4. Takes(0)
      BY <3>1, StreamTypes DEF Takes
    <3>. QED  BY <1>1, <2>1, <3>1, <3>2, <3>3, <3>4, GoOn, SMTT(60) DEF SameCommands
  <2>4. CASE state' \notin {"CLOSED", "DEAD", "REPLY.START"}
    <3>. DEFINE k == Lower(HdrLen, inb.avail)
    <3>1. /\ state' = "RECV_REPLY" /\ inb.avail > 0 /\ Consume(k)
          /\ rlen' = HdrLen - k /\ hdr' = HeaderRead(HdrLen, k)
      BY <1>1, <1>4, <2>4 DEF ReplyStart, SET_NEXT_STATE, Block,
                              SET_NEXT_STATE_AND_BLOCK
    <3>2. k \in 1..HdrLen /\ k <= inb.avail
      BY <3>1, StreamTypes DEF Lower, HdrLen
    <3>3. Phase' = "RECV_REPLY"
      BY <3>1 DEF Phase, Inner, ReplyStates
    <3>. HIDE DEF k
    <3>. QED  BY <1>1, <2>1, <3>1, <3>2, <3>3, HeaderAlign DEF SameCommands
  <2>. QED  BY <2>2, <2>3, <2>4
<1>. QED  BY <1>3, <1>4, StreamTypes

\* RECV_REPLY.
LEMMA RecvReplyAlign ==
  ASSUME TypeInv, ListInv, SendInv, CookiesKnown, InReply, AlignInv, RecvReply
  PROVE  AlignInv'
<1>1. CASE state' = "DEAD"
  BY <1>1 DEF Stopped, AlignInv
<1>2. CASE state' # "DEAD"
  <2>. DEFINE k == IF rlen <= inb.avail THEN rlen ELSE inb.avail
  <2>1. /\ state = "RECV_REPLY" /\ Consume(k) /\ rlen' = rlen - k
        /\ hdr' = HeaderRead(rlen, k)
        /\ UNCHANGED <<listVars, cmd, reply_state, payload_left, up, got, ans>>
        /\ \/ state' = "READY" /\ rlen' # 0
           \/ state' = "CHECK_REPLY_MAGIC" /\ k = rlen
    BY <1>2, StreamTypes, SMTT(60) DEF RecvReply, RecvError, RecvShort, RecvAll, StillToRead, At,
                             SET_NEXT_STATE
  <2>2. k \in Nat /\ k <= inb.avail /\ k <= rlen
    BY StreamTypes
  <2>. HIDE DEF k
  <2>3. ~Stopped /\ Phase = "RECV_REPLY" /\ reply_state = "START"
    BY <2>1 DEF Stopped, Phase, Inner, ReplyStates, ResumeStates, InReply, ResumeOK
  <2>4. \/ Phase' = "RECV_REPLY"
        \/ Phase' = "CHECK_REPLY_MAGIC" /\ k = rlen
    BY <2>1, <2>3 DEF Phase, Inner, ReplyStates, ResumeStates
  <2>5. rlen <= HdrLen
    BY <2>3 DEF AlignInv, Kind
  <2>6. CASE rlen = HdrLen /\ k > 0
    <3>1. k \in 1..HdrLen /\ ToRead(Phase) = 0
      BY <2>2, <2>3, <2>6 DEF ToRead, HdrLen
    <3>. QED  BY <2>1, <2>2, <2>3, <2>4, <2>6, <3>1, HeaderAlign DEF SameCommands
  <2>7. CASE ~(rlen = HdrLen /\ k > 0)
    <3>1. hdr' = hdr
      BY <2>1, <2>7 DEF HeaderRead
    <3>2. ToRead(Phase) \in Nat
      BY <2>3, ToReadType
    <3>3. CASE rlen = HdrLen
      <4>1. k = 0 /\ rlen' = rlen /\ Phase' = "RECV_REPLY"
        BY <2>1, <2>2, <2>4, <2>7, <3>3, StreamTypes, SMTT(60) DEF HdrLen
      <4>2. /\ ToRead(Phase) = 0 /\ ToRead("RECV_REPLY")' = 0
            /\ Kind("RECV_REPLY")' /\ ~Present'
        BY <2>3, <3>3, <4>1 DEF ToRead, Kind, Unattached, SimplePhases, Present,
                                HdrLen
      <4>. QED  BY <2>1, <2>2, <2>3, <3>1, <4>1, <4>2, GoOn, SMTT(60) DEF SameCommands, Takes
    <3>4. CASE rlen # HdrLen
      <4>1. Present /\ ToRead(Phase) = rlen + Rest(hdr)
        BY <2>3, <3>4 DEF Present, ToRead
      <4>2. rlen' # HdrLen /\ rlen' <= HdrLen
        BY <2>1, <2>2, <2>5, <3>4, StreamTypes, SMTT(60) DEF HdrLen
      <4>3. /\ ToRead("RECV_REPLY")' = (rlen - k) + Rest(hdr)
            /\ ToRead("CHECK_REPLY_MAGIC")' = Rest(hdr)
        BY <2>1, <3>1, <4>2 DEF ToRead, Rest
      <4>4. Kind("RECV_REPLY")' /\ Kind("CHECK_REPLY_MAGIC")'
        BY <4>2 DEF Kind, Unattached, SimplePhases
      <4>5. /\ k <= ToRead(Phase)
            /\ (rlen - k) + Rest(hdr) = ToRead(Phase) - k
            /\ k = rlen => Rest(hdr) = ToRead(Phase) - k
        BY <2>2, <4>1, StreamTypes
      <4>. QED  BY <2>1, <2>2, <2>3, <2>4, <3>1, <3>2, <4>1, <4>3, <4>4, <4>5, GoOn
                DEF SameCommands, Takes
    <3>. QED  BY <3>3, <3>4
  <2>. QED  BY <2>6, <2>7
<1>. QED  BY <1>1, <1>2

\* The command of a message that is being read is in flight.
LEMMA HasCommand ==
  ASSUME TypeInv, ListInv, SendInv, CookiesKnown, InReply, AlignInv,
         state \in Inner \ Unattached, hdr.cookie # NULL
  PROVE  reply_cmd = hdr.cookie
<1>1. ~Stopped /\ Phase = state /\ Present
  BY DEF Stopped, Phase, Inner, ReplyStates, ResumeStates, Unattached, Present
<1>2. reply_cmd = Lookup(hdr.cookie) /\ hdr.cookie \notin Queued
  BY <1>1 DEF InReply, Attached
<1>3. hdr.cookie \in got /\ cmd[hdr.cookie].type # "DISC"
  BY DEF CookiesKnown, KnownCookie
<1>4. hdr.cookie \in Live
  BY <1>1, <1>3 DEF AlignInv, Exchange, Answered, Pending
<1>. QED  BY <1>2, <1>4, ListFacts DEF Lookup

\* A handler reads k units and goes on to state t.
LEMMA GoTo ==
  ASSUME TypeInv, ListInv, SendInv, CookiesKnown, AlignInv, SameCommands,
         state \in Inner \ {"RECV_REPLY"}, NEW t \in Inner \ {"RECV_REPLY"},
         state' = t, NEW k \in Nat, Takes(k), NEW n \in Nat, ToRead(state) = n,
         k <= n, ToRead(t)' = n - k, Kind(t)',
         UNCHANGED <<listVars, hdr, up, got, ans>>
  PROVE  AlignInv'
<1>1. ~Stopped /\ Phase = state /\ Present /\ Phase' = t
  BY DEF Stopped, Phase, Inner, ReplyStates, ResumeStates, Present
<1>. QED  BY <1>1, GoOn

\* CHECK_REPLY_MAGIC, which decides what follows the header.
LEMMA MagicAlign ==
  ASSUME TypeInv, ListInv, SendInv, CookiesKnown, AlignInv, CheckReplyMagic
  PROVE  AlignInv'
<1>1. CASE state' = "DEAD"
  BY <1>1 DEF Stopped, AlignInv
<1>2. CASE state' # "DEAD"
  <2>1. /\ state = "CHECK_REPLY_MAGIC" /\ UNCHANGED <<listVars, cmd, hdr, netVars>>
        /\ \/ state' = "SIMPLE.START" /\ hdr.magic = "simple"
           \/ state' = "CHUNK.START" /\ hdr.magic = "extended"
           \/ /\ state' = "RECV_STRUCTURED_REMAINING" /\ hdr.magic = "structured"
              /\ rlen' = RemLen
    BY <1>2 DEF CheckReplyMagic, At, SET_NEXT_STATE
  <2>2. ToRead(state) = Rest(hdr) /\ Takes(0)
    BY <2>1, StreamTypes, SMTT(60) DEF ToRead, Takes, netVars
  <2>3. ASSUME NEW t \in {"SIMPLE.START", "CHUNK.START", "RECV_STRUCTURED_REMAINING"},
               state' = t
        PROVE  AlignInv'
    <3>1. ToRead(t)' = Rest(hdr) - 0
      BY <2>1, <2>3, StreamTypes, SMTT(60) DEF ToRead, Rest, RemLen
    <3>2. Kind(t)'
      BY <2>1, <2>3 DEF Kind, SimplePhases
    <3>. QED  BY <2>1, <2>2, <2>3, <3>1, <3>2, StreamTypes, GoTo, SMTT(60)
              DEF Inner, ReplyStates, ResumeStates, SameCommands, netVars
  <2>. QED  BY <2>1, <2>3
<1>. QED  BY <1>1, <1>2

\* The header of the message that is being read fits its command.
LEMMA InnerFacts ==
  ASSUME TypeInv, AlignInv, state \in Inner \ Unattached
  PROVE  /\ ~Stopped /\ Phase = state /\ Present
         /\ Fits(hdr) /\ Kind(state) /\ Exchange /\ StreamAt(ToRead(state))
<1>1. ~Stopped /\ Phase = state /\ Present
  BY DEF Stopped, Phase, Inner, ReplyStates, ResumeStates, Unattached, Present
<1>. QED  BY <1>1 DEF AlignInv, Exchange, Framing

\* SIMPLE_REPLY.START: the payload of a successful read is still to be read.
LEMMA SimpleAlign ==
  ASSUME TypeInv, ListInv, SendInv, CookiesKnown, InReply, AlignInv, SameCommands,
         SimpleStart
  PROVE  AlignInv'
<1>1. CASE state' = "DEAD"
  BY <1>1 DEF Stopped, AlignInv
<1>2. CASE state' # "DEAD"
  <2>. DEFINE read == hdr.error = NoErr /\ cmd[reply_cmd].type = "READ"
  <2>1. /\ state = "SIMPLE.START" /\ UNCHANGED <<listVars, hdr, netVars>>
        /\ \/ state' = "FINISH_COMMAND" /\ (reply_cmd = NULL \/ ~read)
           \/ /\ state' = "RECV_READ_PAYLOAD" /\ reply_cmd # NULL /\ read
              /\ rlen' = cmd[reply_cmd].count
    BY <1>2, ZenonT(60) DEF SimpleStart, At, SET_NEXT_STATE
  <2>2. state \in Inner \ Unattached
    BY <2>1 DEF Inner, ReplyStates, Unattached
  <2>3. Fits(hdr) /\ hdr.magic = "simple"
    BY <2>1, <2>2, InnerFacts DEF Kind, SimplePhases
  <2>4. reply_cmd \in {NULL, hdr.cookie} /\ (hdr.cookie # NULL => reply_cmd = hdr.cookie)
    <3>1. reply_cmd = Lookup(hdr.cookie)
      BY <2>2, InnerFacts DEF InReply, Attached
    <3>. QED  BY <2>2, <3>1, HasCommand DEF Lookup
  <2>5. state' = "RECV_READ_PAYLOAD" => rlen' = hdr.length
    BY <2>1, <2>3, <2>4 DEF Fits
  <2>6. state' = "FINISH_COMMAND" => hdr.length = 0
    BY <2>1, <2>3, <2>4 DEF Fits
  <2>7. ToRead(state) = hdr.length /\ Takes(0)
    BY <2>1, StreamTypes, SMTT(60) DEF ToRead, Takes, netVars
  <2>8. ASSUME NEW t \in {"FINISH_COMMAND", "RECV_READ_PAYLOAD"}, state' = t
        PROVE  AlignInv'
    <3>1. ToRead(t)' = hdr.length - 0
      BY <2>5, <2>6, <2>8, StreamTypes, SMTT(60) DEF ToRead
    <3>2. Kind(t)'
      BY <2>1, <2>3, <2>8 DEF Kind, SimplePhases, Final
    <3>. QED  BY <2>1, <2>7, <2>8, <3>1, <3>2, StreamTypes, GoTo, SMTT(60)
              DEF Inner, ReplyStates, ResumeStates, netVars
  <2>. QED  BY <2>1, <2>8
<1>. QED  BY <1>1, <1>2

\* The reply is over: its command, if it ends, has nothing more to come.
LEMMA OverAlign ==
  ASSUME TypeInv, ListInv, SendInv, CookiesKnown, InReply, AlignInv, SameCommands,
         state \in {"CHUNK.FINISH", "FINISH_COMMAND"}, state' = "READY",
         UNCHANGED <<rlen, reply_state, hdr, netVars, unique>>,
         \/ Live \subseteq Live'
         \/ state = "FINISH_COMMAND" /\ reply_cmd # NULL /\ Live \ {reply_cmd} \subseteq Live'
  PROVE  AlignInv'
<1>1. state \in Inner \ Unattached
  BY DEF Inner, ReplyStates, Unattached
<1>2. ~Stopped /\ Phase = state /\ Present /\ Kind(state) /\ Exchange
      /\ StreamAt(ToRead(state))
  BY <1>1, InnerFacts
<1>3. rlen' = 0 /\ Phase' = "NONE" /\ ~Present'
  BY <1>2 DEF InReply, ResumeOK, NoReceive, Phase, Inner, ReplyStates, ResumeStates,
              Present
<1>4. StreamAt(ToRead(Phase))' /\ Kind(Phase)'
  BY <1>2, <1>3 DEF StreamAt, ToRead, Kind, Unattached, SimplePhases, netVars
<1>5. FreshWhole' /\ Framing' /\ LastWord'
  <2>1. Fixed
    BY SameIsFixed
  <2>2. ASSUME NEW c, KnownCookie(c), c # NULL
        PROVE  /\ cmd'[c].type = cmd[c].type /\ cmd'[c].count = cmd[c].count
    BY <2>1, <2>2 DEF KnownCookie, SendInv, WireInv, GotSent, Fixed
  <2>. QED  BY <1>2, <1>3, <2>2, Zenon DEF Exchange, FreshWhole, Framing, LastWord, Fits,
                                    Final, CookiesKnown, netVars
<1>6. Answered'
  <2>1. SUFFICES ASSUME NEW c \in got, cmd[c].type # "DISC", c \notin Live'
                 PROVE  c \in ans /\ ~(inb.fresh /\ inb.msg.cookie = c)
    BY <1>3, SameIsFixed DEF Answered, Pending, netVars, Fixed, SendInv, WireInv,
                             GotSent
  <2>2. CASE c \notin Live
    BY <1>2, <2>1, <2>2 DEF Exchange, Answered, Pending
  <2>3. CASE c \in Live
    <3>1. state = "FINISH_COMMAND" /\ c = reply_cmd /\ c # NULL
      BY <2>1, <2>3
    <3>2. hdr.cookie = c
      BY <1>2, <3>1 DEF InReply, Attached, Lookup, Unattached
    <3>. QED  BY <1>2, <3>1, <3>2 DEF Exchange, LastWord, Kind
  <2>. QED  BY <2>2, <2>3
<1>. QED  BY <1>4, <1>5, <1>6 DEF AlignInv, Exchange

\* FINISH_COMMAND has nothing left to read.
LEMMA FinishAlign ==
  ASSUME TypeInv, ListInv, SendInv, CookiesKnown, InReply, AlignInv, SameCommands,
         FinishCommand
  PROVE  AlignInv'
<1>1. /\ state = "FINISH_COMMAND" /\ state' = "READY"
      /\ UNCHANGED <<rlen, reply_state, hdr, netVars, unique, cmds_to_issue>>
      /\ \/ UNCHANGED cmds_in_flight
         \/ reply_cmd # NULL /\ cmds_in_flight' = cmds_in_flight \ {reply_cmd}
  BY ZenonT(60) DEF FinishCommand, At, SET_NEXT_STATE, listVars
<1>. QED  BY <1>1, ListFacts, OverAlign

\* CHUNK_REPLY.START accounts for every unit of the payload, one way or another.
LEMMA ChunkStartAlign ==
  ASSUME TypeInv, ListInv, SendInv, CookiesKnown, InReply, AlignInv, SameCommands,
         ChunkStart
  PROVE  AlignInv'
<1>1. CASE state' = "DEAD"
  BY <1>1 DEF Stopped, AlignInv
<1>2. CASE state' # "DEAD"
  <2>1. state = "CHUNK.START" /\ UNCHANGED <<listVars, hdr, netVars>>
    BY DEF ChunkStart, At
  <2>2. state \in Inner \ Unattached
    BY <2>1 DEF Inner, ReplyStates, Unattached
  <2>3. Fits(hdr) /\ hdr.magic # "simple" /\ rlen = 0 /\ payload_left = 0
    <3>1. Fits(hdr) /\ Kind(state) /\ Phase = state /\ ~Stopped
      BY <2>2, InnerFacts
    <3>. QED  BY <2>1, <3>1 DEF Kind, Unattached, SimplePhases, InReply, ResumeOK,
                                NoReceive, Needs, MoreToCome
  <2>. DEFINE unexpected == \/ reply_cmd = NULL \/ ~structured_replies
                            \/ extended_headers /\ ~hdr.echo
  <2>4. unexpected => hdr.length = 0
    <3>1. reply_cmd # NULL
      BY <2>2, <2>3, HasCommand DEF Fits
    <3>2. structured_replies
      <4>1. hdr.magic \in {"structured", "extended"}
        BY <2>3, StreamTypes DEF Fits, Message, Magics
      <4>. QED  BY <2>3, <4>1, HandleAssumption DEF Fits
    <3>3. extended_headers /\ ~hdr.echo => hdr.length = 0
      BY <2>3 DEF Fits
    <3>. QED  BY <3>1, <3>2, <3>3
  <2>5. \/ unexpected /\ state' = "RESYNC" /\ rlen' = payload_left
        \/ state' = "RESYNC" /\ rlen' = hdr.length
        \/ state' = "CHUNK.FINISH" /\ UsefulPayload(reply_cmd) /\ hdr.type = "NONE"
        \/ /\ UsefulPayload(reply_cmd) /\ hdr.type = "OFFSET_DATA"
           /\ rlen' = OffLen /\ payload_left' = hdr.length - OffLen
           /\ state' = "RECV_OFFSET_DATA"
        \/ /\ UsefulPayload(reply_cmd) /\ hdr.type = "OFFSET_HOLE"
           /\ rlen' = HoleLen /\ state' = "RECV_OFFSET_HOLE"
        \/ /\ rlen' = BsHdr /\ payload_left' = hdr.length
           /\ UsefulPayload(reply_cmd) /\ IsBlockStatus(hdr.type)
           /\ state' = "RECV_BS_HEADER"
        \/ /\ rlen' = Lower(hdr.length, ErrFixed) /\ payload_left' = hdr.length
           /\ state' = "RECV_ERROR"
    BY <1>2, ZenonT(60) DEF ChunkStart, Resync, SET_NEXT_STATE
  <2>. HIDE DEF unexpected
  <2>6. ToRead(state) = hdr.length /\ Takes(0)
    BY <2>1, StreamTypes DEF ToRead, Takes, netVars
  <2>7. ASSUME NEW t \in {"RESYNC", "CHUNK.FINISH", "RECV_OFFSET_DATA",
                          "RECV_OFFSET_HOLE", "RECV_BS_HEADER", "RECV_ERROR"},
               state' = t
        PROVE  AlignInv'
    <3>1. ToRead(t)' = hdr.length
      <4>1. CASE t = "RESYNC"
        BY <2>3, <2>4, <2>5, <2>7, <4>1 DEF ToRead
      <4>2. CASE t = "CHUNK.FINISH"
        BY <2>5, <2>7, <4>2 DEF ToRead, UsefulPayload, IsBlockStatus, IsError
      <4>3. CASE t = "RECV_OFFSET_DATA"
        BY <2>5, <2>7, <4>3, StreamTypes, SMTT(60) DEF ToRead, OffLen
      <4>4. CASE t = "RECV_OFFSET_HOLE"
        <5>1. hdr.length = HoleLen
          BY <2>5, <2>7, <4>4 DEF UsefulPayload, IsBlockStatus, IsError
        <5>. QED  BY <2>5, <2>7, <4>4, <5>1 DEF ToRead
      <4>5. CASE t = "RECV_BS_HEADER"
        BY <2>5, <2>7, <4>5, StreamTypes, SMTT(60) DEF ToRead, BsHdr
      <4>6. CASE t = "RECV_ERROR"
        BY <2>5, <2>7, <4>6, StreamTypes, SMTT(60) DEF ToRead, Lower, ErrFixed
      <4>. QED  BY <4>1, <4>2, <4>3, <4>4, <4>5, <4>6
    <3>2. Kind(t)'
      BY <2>1, <2>3, <2>7 DEF Kind, SimplePhases
    <3>3. hdr.length - 0 = hdr.length
      BY StreamTypes, SMTT(60)
    <3>. QED  BY <2>1, <2>6, <2>7, <3>1, <3>2, <3>3, StreamTypes, GoTo, SMTT(60)
              DEF Inner, ReplyStates, ResumeStates, netVars
  <2>. QED  BY <2>5, <2>7
<1>. QED  BY <1>1, <1>2

\* A state that asked for rlen units has received them.
LEMMA FullAlign ==
  ASSUME TypeInv, ListInv, SendInv, CookiesKnown, InReply, AlignInv, SameCommands,
         NEW s \in ResumeStates, Received(s),
         \/ s = "RECV_STRUCTURED_REMAINING" /\ RecvStructuredRemaining
         \/ s = "RECV_READ_PAYLOAD" /\ RecvReadPayload
         \/ s = "RECV_ERROR" /\ RecvChunkError
         \/ s = "RECV_ERROR_MESSAGE" /\ RecvErrorMessage
         \/ s = "RECV_ERROR_TAIL" /\ RecvErrorTail
         \/ s = "RECV_OFFSET_DATA" /\ RecvOffsetData
         \/ s = "RECV_OFFSET_DATA_DATA" /\ RecvOffsetDataData
         \/ s = "RECV_OFFSET_HOLE" /\ RecvOffsetHole
         \/ s = "RECV_BS_HEADER" /\ RecvBsHeader
         \/ s = "RECV_BS_ENTRIES" /\ RecvBsEntries
         \/ s = "RESYNC" /\ ResyncPayload,
         ~RecvError, ~SaveAndReturn
  PROVE  AlignInv'
<1>1. CASE state' = "DEAD"
  BY <1>1 DEF Stopped, AlignInv
<1>2. CASE state' # "DEAD"
  <2>. DEFINE left == payload_left - Lower(payload_left, ErrFixed)
  <2>1. /\ state = s /\ rlen <= inb.avail /\ Consume(rlen)
        /\ UNCHANGED <<listVars, hdr, up, got, ans>>
    BY DEF Received, At, RecvAll
  <2>2. state \in Inner \ Unattached
    BY <2>1 DEF Inner, ReplyStates, Unattached, ResumeStates
  <2>3. Fits(hdr) /\ Kind(s) /\ Needs(s)
    BY <2>1, <2>2, InnerFacts DEF InReply
  <2>4. \/ s = "RECV_STRUCTURED_REMAINING" /\ state' = "CHUNK.START"
        \/ s = "RECV_READ_PAYLOAD" /\ state' = "FINISH_COMMAND"
        \/ s = "RECV_ERROR" /\ state' = "RESYNC" /\ rlen' = left
        \/ /\ s = "RECV_ERROR" /\ state' = "RECV_ERROR_MESSAGE"
           /\ rlen' = hdr.msglen /\ payload_left' = left - hdr.msglen
        \/ /\ s = "RECV_ERROR_MESSAGE" /\ state' = "RECV_ERROR_TAIL"
           /\ rlen' = payload_left
        \/ /\ s \in {"RECV_ERROR_TAIL", "RECV_OFFSET_HOLE", "RECV_BS_ENTRIES",
                     "RECV_OFFSET_DATA_DATA"}
           /\ state' = "CHUNK.FINISH"
        \/ /\ s = "RECV_OFFSET_DATA" /\ state' = "RECV_OFFSET_DATA_DATA"
           /\ rlen' = payload_left
        \/ /\ s = "RECV_BS_HEADER" /\ state' \in {"RESYNC", "RECV_BS_ENTRIES"}
           /\ rlen' = payload_left - BsHdr
        \/ s = "RESYNC" /\ state' = "FINISH_COMMAND" /\ reply_cmd = NULL
        \/ s = "RESYNC" /\ state' = "CHUNK.FINISH"
    BY <1>2, ZenonT(120)
       DEF RecvStructuredRemaining, RecvReadPayload, RecvChunkError,
           RecvErrorMessage, RecvErrorTail, RecvOffsetData, RecvOffsetDataData,
           RecvOffsetHole, RecvBsHeader, RecvBsEntries, ResyncPayload, Resync,
           SET_NEXT_STATE
  <2>5. left \in Nat
    BY StreamTypes, SMTT(60) DEF Lower, ErrFixed
  <2>6. s = "RECV_BS_HEADER" => payload_left - BsHdr \in Nat
    <3>1. s = "RECV_BS_HEADER" => bs_reply_length_ok(payload_left)
      BY <2>3 DEF Needs
    <3>. QED  BY <3>1, StreamTypes, SMTT(60) DEF bs_reply_length_ok, BsHdr, BsExtent
  <2>. DEFINE more == IF s = "RECV_STRUCTURED_REMAINING" THEN hdr.length
                      ELSE IF s = "RECV_ERROR" THEN left
                      ELSE IF s \in {"RECV_ERROR_MESSAGE", "RECV_OFFSET_DATA"}
                      THEN payload_left
                      ELSE IF s = "RECV_BS_HEADER" THEN payload_left - BsHdr
                      ELSE 0
  <2>7. more \in Nat /\ ToRead(state) = rlen + more
    BY <2>1, <2>5, <2>6, StreamTypes, SMTT(60) DEF ToRead, ResumeStates
  <2>8. rlen + more \in Nat /\ rlen <= rlen + more /\ (rlen + more) - rlen = more
    BY <2>7, StreamTypes, SMTT(60)
  <2>9. ASSUME NEW t \in {"CHUNK.START", "FINISH_COMMAND", "RESYNC",
                          "RECV_ERROR_MESSAGE", "RECV_ERROR_TAIL", "CHUNK.FINISH",
                          "RECV_OFFSET_DATA_DATA", "RECV_BS_ENTRIES"}, state' = t
        PROVE  AlignInv'
    <3>1. ToRead(t)' = more
      <4>1. CASE t \in {"CHUNK.START", "FINISH_COMMAND", "CHUNK.FINISH"}
        BY <2>1, <2>4, <2>9, <4>1 DEF ToRead
      <4>2. CASE t \in {"RESYNC", "RECV_ERROR_TAIL", "RECV_OFFSET_DATA_DATA",
                        "RECV_BS_ENTRIES"}
        BY <2>4, <2>9, <4>2 DEF ToRead
      <4>3. CASE t = "RECV_ERROR_MESSAGE"
        <5>1. rlen' = hdr.msglen /\ payload_left' = left - hdr.msglen
              /\ s = "RECV_ERROR"
          BY <2>4, <2>9, <4>3
        <5>2. hdr.msglen + (left - hdr.msglen) = left
          BY <2>5, StreamTypes, SMTT(60)
        <5>. QED  BY <4>3, <5>1, <5>2 DEF ToRead
      <4>. QED  BY <4>1, <4>2, <4>3
    <3>2. Kind(t)'
      <4>1. CASE t # "FINISH_COMMAND"
        BY <2>1, <2>3, <2>4, <2>9, <4>1 DEF Kind, SimplePhases, Unattached
      <4>2. CASE t = "FINISH_COMMAND" /\ s = "RECV_READ_PAYLOAD"
        BY <2>1, <2>3, <4>2 DEF Kind, SimplePhases, Unattached, Final
      <4>3. CASE t = "FINISH_COMMAND" /\ s # "RECV_READ_PAYLOAD"
        <5>1. s = "RESYNC" /\ reply_cmd = NULL
          BY <2>4, <2>9, <4>3
        <5>2. hdr.magic # "simple" /\ hdr.cookie # NULL
          BY <2>3, <5>1 DEF Kind, SimplePhases, Unattached, Fits
        <5>. QED  BY <2>2, <5>1, <5>2, HasCommand
      <4>. QED  BY <4>1, <4>2, <4>3
    <3>3. Takes(rlen)
      BY <2>1 DEF Takes
    <3>. HIDE DEF more
    <3>4. t \in Inner \ {"RECV_REPLY"} /\ state \in Inner \ {"RECV_REPLY"}
      BY <2>2 DEF Inner, ReplyStates, ResumeStates, Unattached
    <3>. QED  BY <2>1, <2>7, <2>8, <2>9, <3>1, <3>2, <3>3, <3>4, StreamTypes, GoTo
  <2>. QED  BY <2>4, <2>9
<1>. QED  BY <1>1, <1>2

\* CHUNK_REPLY.FINISH has nothing left to read.
LEMMA ChunkFinishAlign ==
  ASSUME TypeInv, ListInv, SendInv, CookiesKnown, InReply, AlignInv, SameCommands,
         ChunkFinish
  PROVE  AlignInv'
<1>1. /\ state = "CHUNK.FINISH"
      /\ UNCHANGED <<listVars, rlen, hdr, reply_state, netVars>>
      /\ \/ hdr.done /\ state' = "FINISH_COMMAND"
         \/ state' = "READY"
  BY DEF ChunkFinish, At, SET_NEXT_STATE
<1>2. CASE state' = "READY"
  <2>1. Live' = Live
    <3>1. UNCHANGED <<cmds_to_issue, cmds_in_flight>>
      BY <1>1 DEF listVars
    <3>. QED  BY <3>1, Zenon DEF Live, Queued
  <2>. QED  BY <1>1, <1>2, <2>1, OverAlign DEF listVars
<1>3. CASE hdr.done /\ state' = "FINISH_COMMAND"
  <2>1. ToRead(state) = 0 /\ ToRead("FINISH_COMMAND")' = 0 /\ Takes(0)
    BY <1>1, StreamTypes, SMTT(60) DEF ToRead, Takes, netVars
  <2>2. Kind("FINISH_COMMAND")'
    BY <1>1, <1>3 DEF Kind, SimplePhases, Final
  <2>. QED  BY <1>1, <1>3, <2>1, <2>2, GoTo, SMTT(60)
            DEF Inner, ReplyStates, ResumeStates, netVars
<1>. QED  BY <1>1, <1>2, <1>3

\* Every handler of a reply.
LEMMA HandlerAlign ==
  ASSUME TypeInv, ListInv, SendInv, CookiesKnown, InReply, AlignInv, SameCommands,
         ReplyStep \/ ChunkStep
  PROVE  AlignInv'
<1>. DEFINE Full(s) ==
       \/ s = "RECV_STRUCTURED_REMAINING" /\ RecvStructuredRemaining
       \/ s = "RECV_READ_PAYLOAD" /\ RecvReadPayload
       \/ s = "RECV_ERROR" /\ RecvChunkError
       \/ s = "RECV_ERROR_MESSAGE" /\ RecvErrorMessage
       \/ s = "RECV_ERROR_TAIL" /\ RecvErrorTail
       \/ s = "RECV_OFFSET_DATA" /\ RecvOffsetData
       \/ s = "RECV_OFFSET_DATA_DATA" /\ RecvOffsetDataData
       \/ s = "RECV_OFFSET_HOLE" /\ RecvOffsetHole
       \/ s = "RECV_BS_HEADER" /\ RecvBsHeader
       \/ s = "RECV_BS_ENTRIES" /\ RecvBsEntries
       \/ s = "RESYNC" /\ ResyncPayload
<1>1. CASE \E s \in ResumeStates : Full(s)
  <2>1. PICK s \in ResumeStates : Full(s)
    BY <1>1
  <2>2. (At(s) /\ (RecvError \/ SaveAndReturn)) \/ Received(s)
    BY <2>1, ZenonT(60)
       DEF RecvStructuredRemaining, RecvReadPayload, RecvChunkError,
           RecvErrorMessage, RecvErrorTail, RecvOffsetData, RecvOffsetDataData,
           RecvOffsetHole, RecvBsHeader, RecvBsEntries, ResyncPayload
  <2>3. At(s)
    BY <2>2 DEF Received
  <2>4. CASE RecvError \/ SaveAndReturn
    BY <2>3, <2>4, SaveAlign
  <2>5. CASE ~RecvError /\ ~SaveAndReturn
    BY <2>1, <2>2, <2>5, FullAlign, Zenon
  <2>. QED  BY <2>4, <2>5
<1>2. CASE ~\E s \in ResumeStates : Full(s)
  <2>1. \/ ReplyStart \/ RecvReply \/ CheckReplyMagic \/ SimpleStart
        \/ FinishCommand \/ ChunkStart \/ ChunkFinish
    BY <1>2 DEF ReplyStep, ChunkStep, ResumeStates
  <2>. QED  BY <2>1, StartAlign, RecvReplyAlign, MagicAlign, SimpleAlign,
               FinishAlign, ChunkStartAlign, ChunkFinishAlign
<1>. QED  BY <1>1, <1>2

(***************************************************************************)
(* AlignInv is inductive.                                                  *)
(***************************************************************************)

\* AlignInv is inductive.
LEMMA NextAlign ==
  ASSUME Orderly
  PROVE  TypeInv /\ ListInv /\ SendInv /\ DiscWaits /\ RecvInv /\ AwakeInv
           /\ AlignInv /\ [Next]_vars => AlignInv'
<1>. SUFFICES ASSUME TypeInv, ListInv, SendInv, DiscWaits, RecvInv, AwakeInv,
                     AlignInv, [Next]_vars
              PROVE  AlignInv'
  OBVIOUS
<1>1. InReply /\ CookiesKnown
  BY DEF RecvInv
<1>2. ListStep /\ Fixed /\ (Stopped => Stopped')
  BY NextListStep, NextFixed, StaysStopped
<1>3. CASE Stopped
  BY <1>2, <1>3 DEF AlignInv
<1>4. CASE ~Stopped /\ (ReplyStep \/ ChunkStep)
  BY <1>1, <1>4, ReplyFrame, HandlerAlign DEF ReplyKeeps
<1>5. CASE IssueStep
  BY <1>1, <1>2, <1>5, IssueOutside, IssueKeeps, OutsideAlign
<1>6. CASE Ready \/ Dead \/ Closed
  <2>1. UNCHANGED <<recvVars, up, inb, got, ans>> /\ state \notin Inner
        /\ state' \notin Inner /\ (Stopped' \/ UNCHANGED cmds_in_flight)
    BY <1>6, TopOutside
  <2>. QED  BY <1>1, <1>2, <2>1, ApiKeeps, OutsideAlign DEF AlignInv
<1>7. CASE ~Stopped /\ Server
  <2>1. CASE \E c \in Cookie, m \in Shapes : ServerReply(c, m)
    BY <1>1, <1>7, <2>1, ServerReplyAlign
  <2>2. CASE \E m \in Shapes : ServerStray(m)
    BY <1>1, <1>7, <2>2, ServerStrayAlign
  <2>3. CASE Deliver \/ Drain \/ ServerClose \/ ConnectionLost
    BY <1>1, <1>7, <2>3, NetworkAlign
  <2>. QED  BY <1>7, <2>1, <2>2, <2>3 DEF Server
<1>8. CASE Close
  BY <1>8 DEF Close, Stopped, AlignInv
<1>9. CASE ApiStep /\ ~Close
  <2>1. Outside
    BY <1>9, ApiOutside
  <2>. QED  BY <1>1, <1>2, <2>1, ApiKeeps, OutsideAlign DEF Outside
<1>10. CASE UNCHANGED vars
  <2>1. UNCHANGED <<recvVars, up, inb, got, ans, cmds_in_flight, state>>
    BY <1>10 DEF vars, runVars, listVars, netVars
  <2>. QED  BY <1>1, <1>2, <2>1, ApiKeeps, OutsideAlign
<1>. QED  BY <1>3, <1>4, <1>5, <1>6, <1>7, <1>8, <1>9, <1>10 DEF Next, Engine

\* Initially there is nothing to read.
LEMMA InitAlign == Init => AlignInv
<1>. SUFFICES ASSUME Init PROVE AlignInv
  OBVIOUS
<1>1. /\ state = "READY" /\ rlen = 0 /\ reply_state = "START" /\ reply_cmd = NULL
      /\ got = {} /\ inb.fresh = FALSE /\ inb.left = 0
  BY DEF Init
<1>2. Phase = "NONE"
  BY <1>1 DEF Phase, Inner, ReplyStates, ResumeStates
<1>3. ~Present
  BY <1>2 DEF Present
<1>4. StreamAt(ToRead(Phase)) /\ Kind(Phase)
  BY <1>1, <1>2 DEF StreamAt, ToRead, Kind, Unattached, SimplePhases
<1>5. Exchange
  BY <1>1, <1>3 DEF Exchange, FreshWhole, Framing, Answered, LastWord
<1>. QED  BY <1>4, <1>5 DEF AlignInv
=============================================================================
