------------------------- MODULE TransmissionSafety -------------------------
(***************************************************************************)
(* The theorems about Transmission, for every value of its constants: the  *)
(* invariants shown to be kept by every step in the modules extended here, *)
(* put together.                                                           *)
(***************************************************************************)
EXTENDS TransmissionTypes, CommandLists, Exchanges, Alignment, ReadData

\* A step is tried with Zenon for three seconds, then with the solver.
USE ZenonT(3), SMTT(30), SMTT(60)

\* Every reachable state of a handle is well typed, whatever commands the
\* program issues, whatever chunks the server answers with and wherever
\* sends and receives are cut short: in particular payload_left and rlen,
\* unsigned in the code, never go below zero (generator/states-reply-chunk.c).
THEOREM TypeCorrect == Spec => []TypeOK
<1>1. TypeInv => TypeOK
  BY DEF TypeInv
<1>. QED  BY <1>1, InitType, NextType, PTL DEF Spec

\* In every reachable state TypeInv and ListInv hold.
LEMMA ListsCorrect == Spec => [](TypeInv /\ ListInv)
BY InitType, NextType, InitLists, NextLists, PTL DEF Spec

\* However many commands are issued and however they end (a reply, the death
\* or the end of the connection, nbd_shutdown abandoning what is pending), a
\* command is on exactly one of cmds_to_issue, cmds_in_flight and cmds_done
\* until the user has been told of it.
THEOREM NoCommandLost == Spec => []OneList
<1>1. ListInv => OneList
  BY DEF ListInv
<1>. QED  BY <1>1, ListsCorrect, PTL

\* Until nbd_close, FINISH_COMMAND and nbd_internal_abort_commands between
\* them call the completion callback of every command once, when it leaves
\* cmds_to_issue and cmds_in_flight.
THEOREM CallbacksOnce == Spec => []CompletionOnceWhileOpen
<1>1. ListInv => CompletionOnceWhileOpen
  BY DEF ListInv
<1>. QED  BY <1>1, ListsCorrect, PTL

\* nbd_internal_command_common queues nothing behind NBD_CMD_DISC, because
\* h->disconnect_request is set with it.
THEOREM NothingAfterDisc == Spec => []DiscIsLast
<1>1. ListInv => DiscIsLast
  BY DEF ListInv
<1>. QED  BY <1>1, ListsCorrect, PTL

\* In every reachable state SendInv holds too.
LEMMA SendCorrect == Spec => [](TypeInv /\ ListInv /\ SendInv)
BY InitType, NextType, InitLists, NextLists, InitSend, NextSend, PTL DEF Spec

\* A half-sent request survives interruption: what is left in wbuf belongs to
\* the head of cmds_to_issue, and an idle READY handle has nothing to send
\* (generator/states-issue-command.c, READY).
THEOREM SendingSurvives == Spec => []SuspendedRequest
<1>1. TypeInv /\ SendInv => SuspendedRequest
  <2>1. TypeInv => wlen \in Nat
    BY DEF TypeInv, TypeOK, SendType
  <2>. QED  BY <2>1, SMTT(60) DEF SendInv, SendControl, SuspendedRequest, BufferIsHead,
                        QueueSeen, HeadIsReq, Stopped
<1>. QED  BY <1>1, SendCorrect, PTL

\* The assert()s of generator/states-issue-command.c never fail.
THEOREM IssueAssertsHold == Spec => []IssueAsserts
<1>1. SendInv => IssueAsserts
  BY DEF SendInv, SendControl, IssueAsserts, BufferIsHead, QueueSeen,
         BufferHolds, ShutdownLast, HeadIsReq, Stopped, SendStates, IssueStates
<1>. QED  BY <1>1, SendCorrect, PTL

\* The server reads a sequence of whole requests, each sent once, however often
\* sending was interrupted by replies; over TLS this is so until NBD_CMD_DISC,
\* whose request START may prepare a second time.
THEOREM StreamOfRequests == Spec => []WholeUpToDisc
<1>1. SendInv => WholeUpToDisc
  BY DEF SendInv, WireInv
<1>. QED  BY <1>1, SendCorrect, PTL

\* On a plain socket, without exception.
THEOREM PlainStreamOfRequests ==
  ASSUME ~Tls
  PROVE  Spec => []RequestsWhole
<1>1. SendInv => RequestsWhole
  BY DEF SendInv, WireInv, WholeUpToDisc
<1>. QED  BY <1>1, SendCorrect, PTL

\* In every reachable state EndInv holds too.
LEMMA EndsCorrect == Spec => [](TypeInv /\ ListInv /\ SendInv /\ DiscWaits /\ EndInv)
BY SendCorrect, InitDiscWaits, NextDiscWaits, InitEnds, NextEnds, PTL DEF Spec

\* The tail pointers of cmds_to_issue and cmds_done designate the last elements
\* of the lists, whatever was issued, answered, abandoned, retired or aborted
\* (lib/rw.c, lib/aio.c, lib/disconnect.c, FINISH and FINISH_COMMAND).
THEOREM TailsCorrect == Spec => []TailsOK
<1>1. EndInv => TailsOK
  BY DEF EndInv
<1>. QED  BY <1>1, EndsCorrect, PTL

\* h->in_flight is the number of commands queued or in flight, as lib/internal.h
\* says, in a program that never asks nbd_shutdown to abandon pending commands.
THEOREM InFlightCorrect ==
  ASSUME "abandon_pending" \notin ShutdownFlags
  PROVE  Spec => []InFlightCount
<1>1. EndInv => InFlightCount
  BY DEF EndInv, Counted, InFlightCount
<1>. QED  BY <1>1, EndsCorrect, PTL

\* A handle in transmission implements CommandLifecycle: whatever the engine,
\* the calls and the server do, each command goes once through queued, sent,
\* done and retired, in issue order, and an ended connection leaves none live
\* (generator/states*.c, lib/rw.c, lib/aio.c, lib/disconnect.c, nbd_close).
THEOREM LifecycleImplemented == Spec => ImplementsLifecycle
<1>1. Init => Abstract!Init
  <2>. SUFFICES ASSUME Init PROVE Abstract!Init
    OBVIOUS
  <2>1. unique = 1 /\ state = "READY"
    BY Zenon DEF Init
  <2>2. phase = [c \in Cookie |-> "new"]
    BY <2>1, SMTT(60) DEF phase, Cookie
  <2>. QED  BY <2>1, <2>2 DEF Abstract!Init, HasSocket
<1>2. TypeInv /\ ListInv /\ SendInv /\ DiscWaits /\ EndInv /\ [Next]_vars
        => [Abstract!Next]_Abstract!vars
  <2>. SUFFICES ASSUME TypeInv, ListInv, DiscWaits, EndInv, [Next]_vars
                PROVE  Abstract!Next \/ UNCHANGED Abstract!vars
    OBVIOUS
  <2>. QED  BY NextListStep, KeepMaps, QueueMaps, SendMaps, AnswerMaps, EndMaps,
               AbandonMaps, RetireMaps, FreeMaps DEF ListStep
<1>. QED  BY <1>1, <1>2, EndsCorrect, PTL
          DEF Spec, ImplementsLifecycle, Abstract!Spec

\* In every reachable state RecvInv holds too.
LEMMA RecvCorrect ==
  Spec => [](TypeInv /\ ListInv /\ SendInv /\ DiscWaits /\ EndInv /\ RecvInv)
BY EndsCorrect, InitRecv, NextRecv, PTL DEF Spec

\* Whenever a handler that receives a reply runs, its assert()s hold: what was
\* saved by save_reply_state is resumed as it was, the command found again by
\* its cookie in FINISH_COMMAND is the one the reply started with and is still
\* counted, and every chunk has a command of its type (generator/states-reply.c,
\* states-reply-simple.c, states-reply-chunk.c).
THEOREM ReplyAssertsHold == Spec => [](ReplyAsserts /\ ChunkAsserts)
<1>1. TypeInv /\ ListInv /\ EndInv /\ RecvInv => ReplyAsserts /\ ChunkAsserts
  BY FlightCounted, RecvAsserts
<1>. QED  BY <1>1, RecvCorrect, PTL

\* In every reachable state AwakeInv holds too.
LEMMA AwakeCorrect ==
  Spec => [](TypeInv /\ ListInv /\ SendInv /\ EndInv /\ RecvInv /\ AwakeInv)
BY RecvCorrect, InitAwake, NextAwake, PTL DEF Spec

\* The assert()s of the handlers that send requests and receive replies, and of
\* the calls that queue, abandon and retire commands, all hold, however replies
\* and sending interrupt each other.  nbd_shutdown's own, that a busy handle has
\* a command being sent, needs what the hypothesis says: a program that abandons
\* pending commands is never woken up by a socket without data to read.
THEOREM AssertsHold ==
  ASSUME "abandon_pending" \in ShutdownFlags => ~Spurious
  PROVE  Spec => []Asserts
<1>1. TypeInv /\ ListInv /\ EndInv /\ RecvInv => ReplyAsserts /\ ChunkAsserts
  BY FlightCounted, RecvAsserts
<1>2. TypeInv /\ ListInv /\ SendInv /\ EndInv /\ AwakeInv => ApiAsserts
  BY CallAsserts
<1>3. IssueAsserts /\ ReplyAsserts /\ ChunkAsserts /\ ApiAsserts => Asserts
  BY DEF Asserts
<1>. QED  BY <1>1, <1>2, <1>3, AwakeCorrect, IssueAssertsHold, PTL

\* Once nbd_aio_disconnect or nbd_shutdown has asked for a disconnect, the
\* NBD_CMD_DISC is queued or in flight until the connection ends, in a program
\* that never asks nbd_shutdown to abandon pending commands.
THEOREM DiscKept ==
  ASSUME "abandon_pending" \notin ShutdownFlags
  PROVE  Spec => []DiscNotLost
<1>1. Init => DiscNotLost
  BY DEF Init, DiscNotLost
<1>. QED  BY <1>1, NextDisc, RecvCorrect, PTL DEF Spec

\* REPLY.START and the handlers after it read every reply header where the
\* server's message starts, whatever the interleaving of partial reads,
\* interrupted sends and calls, and wherever the connection is lost: the
\* payload of each earlier message has been consumed to its last unit, by the
\* handler of its type or by RESYNC, and no more.
THEOREM HeadersAligned ==
  ASSUME Orderly
  PROVE  Spec => []HeaderAligned
<1>1. TypeInv /\ AlignInv => HeaderAligned
  <2>1. SUFFICES ASSUME AlignInv, state = "CHECK_REPLY_MAGIC"
                 PROVE  hdr.magic # "garbage"
    BY DEF HeaderAligned, At
  <2>2. Phase = state /\ Present /\ ~Stopped
    BY <2>1 DEF Phase, Present, Stopped, Inner, ReplyStates, ResumeStates
  <2>. QED  BY <2>1, <2>2 DEF AlignInv, Exchange, Framing, Fits
<1>2. Spec => [](TypeInv /\ ListInv /\ SendInv /\ DiscWaits /\ RecvInv /\ AwakeInv)
  BY RecvCorrect, AwakeCorrect, PTL
<1>. QED  BY <1>1, <1>2, InitAlign, NextAlign, PTL DEF Spec

\* A read that nbd_aio_command_completed reports as successful has had every
\* byte of its buffer filled, unless the server sent some byte twice: whatever
\* mixture of data, holes, errors and simple replies the server sends, and
\* wherever the connection is lost, data_seen has not reached the count.  A
\* completion callback that returns 1 retires the command itself, before
\* anything looks at data_seen, so the theorem leaves it out.
THEOREM ReadsComplete ==
  ASSUME "1" \notin CbRet
  PROVE  Spec => []ReadComplete
<1>1. TypeInv /\ ListInv /\ DataInv => ReadComplete
  <2>1. SUFFICES ASSUME TypeInv, ListInv, DataInv, NEW c \in Cookie,
                        told[c] = "ok", cmd[c].type = "READ", ~cover[c].again
                 PROVE  cover[c].bytes = 0..(cmd[c].count - 1)
    BY DEF ReadComplete
  <2>2. c \in Issued
    <3>1. ~(c >= unique)
      BY <2>1 DEF ListInv, NoHistory
    <3>. QED  BY <2>1, <3>1, HandleAssumption, ListFacts, SMTT(60) DEF Issued, Cookie
  <2>. QED  BY <2>1, <2>2 DEF DataInv, ReadOK, Buffer
<1>. QED  BY <1>1, RecvCorrect, InitData, NextData, PTL DEF Spec
=============================================================================
