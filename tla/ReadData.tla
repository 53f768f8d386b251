------------------------------ MODULE ReadData ------------------------------
(***************************************************************************)
(* The data of a read: the bytes counted in data_seen are those stored in  *)
(* the buffer and those still in transit, so that a read which succeeds has*)
(* stored every byte.                                                      *)
(***************************************************************************)
EXTENDS TransmissionFacts, FiniteSetTheorems

\* A step is tried with Zenon for three seconds, then with the solver.
USE ZenonT(3), SMTT(30), SMTT(60)

DataPhases == {"RECV_OFFSET_DATA_DATA", "RECV_READ_PAYLOAD"}

\* Bytes of command c that have been counted and are still to be stored.
Transit(c) ==
  IF reply_cmd # c \/ Phase \notin DataPhases THEN 0
  ELSE IF Phase = "RECV_OFFSET_DATA_DATA" THEN payload_left
  ELSE cmd[c].count

(***************************************************************************)
(* The inductive invariant.                                                *)
(***************************************************************************)

\* data_seen is what was stored and n more, or already too much.
Tally(c, n) ==
  \/ cmd[c].data_seen > cmd[c].count
  \/ cmd[c].data_seen = Cardinality(cover[c].bytes) + n

Buffer(c) == 0..(cmd[c].count - 1)

ReadOK(c) ==
  cmd[c].type = "READ" /\ ~cover[c].again =>
    /\ cover[c].bytes \subseteq Buffer(c)
    /\ told[c] = "ok" => cover[c].bytes = Buffer(c)
    /\ c \in Live /\ ~Stopped => Tally(c, Transit(c))
    /\ c \in Done /\ cmd[c].error = NoErr => Tally(c, 0)

\* The bytes in transit were asked for.
InBounds ==
  Stopped \/
    /\ Phase \in DataPhases => cmd[reply_cmd].type = "READ"
    /\ Phase = "RECV_OFFSET_DATA_DATA"
         => structured_reply_in_bounds(hdr.offset, payload_left, reply_cmd)

\* Nothing has been stored for a command that was not issued yet.
NoData == \A c \in Cookie : c >= unique => cover[c].bytes = {}

DataInv == (\A c \in Issued : ReadOK(c)) /\ InBounds /\ NoData

(***************************************************************************)
(* Counting bytes.                                                         *)
(***************************************************************************)

\* The buffer of a read has count bytes.
LEMMA BufferCard ==
  ASSUME TypeInv, NEW c \in Cookie
  PROVE  /\ cmd[c].count \in Nat /\ cmd[c].data_seen \in Nat /\ cmd[c].offset \in Nat
         /\ IsFiniteSet(Buffer(c)) /\ Cardinality(Buffer(c)) = cmd[c].count
         /\ cover[c] \in [bytes : SUBSET Nat, again : BOOLEAN]
         /\ \A b \in SUBSET Buffer(c) : IsFiniteSet(b) /\ Cardinality(b) \in Nat
<1>1. /\ cmd[c].count \in Nat /\ cmd[c].data_seen \in Nat /\ cmd[c].offset \in Nat
      /\ cover[c] \in [bytes : SUBSET Nat, again : BOOLEAN]
  BY DEF TypeInv, TypeOK, CmdType, Command, HistType
<1>2. /\ 0 \in Int /\ cmd[c].count - 1 \in Int
      /\ (IF 0 > cmd[c].count - 1 THEN 0 ELSE (cmd[c].count - 1) - 0 + 1) = cmd[c].count
  BY <1>1
<1>3. IsFiniteSet(Buffer(c)) /\ Cardinality(Buffer(c)) = cmd[c].count
  BY <1>2, FS_Interval, Zenon DEF Buffer
<1>. QED  BY <1>1, <1>3, FS_Subset, FS_CardinalityType

\* A buffer that has as many bytes as were asked for has them all.
LEMMA AllBytes ==
  ASSUME TypeInv, NEW c \in Cookie, NEW b \in SUBSET Buffer(c),
         Cardinality(b) = cmd[c].count
  PROVE  b = Buffer(c)
BY BufferCard, FS_Subset

\* New bytes add up.
LEMMA MoreBytes ==
  ASSUME TypeInv, NEW c \in Cookie, NEW a \in SUBSET Buffer(c),
         NEW b \in SUBSET Buffer(c), a \cap b = {}
  PROVE  Cardinality(a \cup b) = Cardinality(a) + Cardinality(b)
<1>1. /\ IsFiniteSet(a) /\ IsFiniteSet(b)
      /\ Cardinality(a) \in Nat /\ Cardinality(b) \in Nat
  BY BufferCard
<1>2. Cardinality(a \cup b) = Cardinality(a) + Cardinality(b) - Cardinality({})
  BY <1>1, FS_Union
<1>. QED  BY <1>1, <1>2, FS_EmptySet, SMTT(60)

\* A chunk that is in bounds is stored whole.
LEMMA StoredCard ==
  ASSUME TypeInv, NEW c \in Cookie, NEW n \in Nat, hdr.offset \in Nat,
         structured_reply_in_bounds(hdr.offset, n, c)
  PROVE  Stored(c, n) \subseteq Buffer(c) /\ Cardinality(Stored(c, n)) = n
<1>1. cmd[c].count \in Nat /\ cmd[c].offset \in Nat
  BY BufferCard
<1>. DEFINE o == hdr.offset - cmd[c].offset
<1>2. o \in Nat /\ o + n <= cmd[c].count
  BY <1>1 DEF structured_reply_in_bounds
<1>3. Stored(c, n) = {i \in 0..(cmd[c].count - 1) : o <= i /\ i < o + n}
  BY DEF Stored
<1>. HIDE DEF o
<1>4. Stored(c, n) = o..(o + n - 1)
  BY <1>1, <1>2, <1>3, SMTT(60)
<1>5. /\ o \in Int /\ o + n - 1 \in Int
      /\ (IF o > o + n - 1 THEN 0 ELSE (o + n - 1) - o + 1) = n
  BY <1>2
<1>6. Cardinality(Stored(c, n)) = n
  BY <1>4, <1>5, FS_Interval, Zenon
<1>. QED  BY <1>3, <1>6 DEF Buffer

(***************************************************************************)
(* Steps that store nothing.                                               *)
(***************************************************************************)

DataFrame ==
  /\ UNCHANGED cover
  /\ \A c \in Issued :
       /\ cmd'[c].type = cmd[c].type /\ cmd'[c].count = cmd[c].count
       /\ cmd'[c].data_seen = cmd[c].data_seen
       /\ told'[c] = "ok" => told[c] = "ok" \/ (c \in Done /\ Success(c))
       /\ c \in Done' /\ cmd'[c].error = NoErr =>
            /\ cmd[c].error = NoErr
            /\ c \in Done \/ (c \in Live /\ ~Stopped /\ Transit(c) = 0)
       /\ c \in Live' /\ ~Stopped' =>
            c \in Live /\ ~Stopped /\ Transit(c)' = Transit(c)

\* A step that neither stores nor counts bytes.
LEMMA FrameReads ==
  ASSUME TypeInv, ListInv, NEW c \in Issued, ReadOK(c), DataFrame
  PROVE  ReadOK(c)'
<1>1. c \in Cookie
  BY ListFacts
<1>2. SUFFICES ASSUME cmd[c].type = "READ", ~cover[c].again
               PROVE  /\ cover[c].bytes \subseteq Buffer(c)
                      /\ told'[c] = "ok" => cover[c].bytes = Buffer(c)
                      /\ c \in Live' /\ ~Stopped' => Tally(c, Transit(c))'
                      /\ c \in Done' /\ cmd'[c].error = NoErr => Tally(c, 0)'
  BY DEF ReadOK, DataFrame, Buffer
<1>3. /\ cover[c].bytes \subseteq Buffer(c)
      /\ told[c] = "ok" => cover[c].bytes = Buffer(c)
      /\ c \in Live /\ ~Stopped => Tally(c, Transit(c))
      /\ c \in Done /\ cmd[c].error = NoErr => Tally(c, 0)
  BY <1>2 DEF ReadOK
<1>4. c \in Done /\ Success(c) => cover[c].bytes = Buffer(c)
  <2>1. SUFFICES ASSUME c \in Done, Success(c) PROVE cover[c].bytes = Buffer(c)
    OBVIOUS
  <2>2. cmd[c].data_seen = cmd[c].count /\ Tally(c, 0)
    BY <1>2, <1>3, <2>1 DEF Success
  <2>3. Cardinality(cover[c].bytes) = cmd[c].count
    BY <1>1, <1>3, <2>2, BufferCard, SMTT(60) DEF Tally
  <2>. QED  BY <1>1, <1>3, <2>3, AllBytes, SMTT(60)
<1>5. c \in Live' /\ ~Stopped' => Tally(c, Transit(c))'
  BY <1>3 DEF DataFrame, Tally
<1>6. c \in Done' /\ cmd'[c].error = NoErr => Tally(c, 0)'
  BY <1>3 DEF DataFrame, Tally
<1>. QED  BY <1>3, <1>4, <1>5, <1>6 DEF DataFrame

\* The command of a reply that carries data.
LEMMA DataCommand ==
  ASSUME TypeInv, ListInv, InReply, ~Stopped, Phase \notin Unattached,
         reply_cmd # NULL
  PROVE  /\ reply_cmd \in cmds_in_flight /\ reply_cmd \in Live
         /\ reply_cmd \in Issued /\ reply_cmd \in Cookie /\ reply_cmd \notin Done
<1>1. reply_cmd \in cmds_in_flight
  BY DEF InReply, Attached, Lookup
<1>. QED  BY <1>1, ListFacts

\* Steps that leave the reply alone: the reads issued before.
LEMMA OutsideReads ==
  ASSUME TypeInv, ListInv, InReply, DataInv, Fixed, Stopped => Stopped',
         UNCHANGED <<recvVars, cover>>,
         state' = state \/ (state \notin Inner /\ state' \notin Inner),
         \A c \in Issued :
           /\ cmd'[c].data_seen = cmd[c].data_seen
           /\ told'[c] = "ok" => told[c] = "ok" \/ (c \in Done /\ Success(c))
           /\ c \in Done' /\ cmd'[c].error = NoErr
                => c \in Done /\ cmd[c].error = NoErr
           /\ c \in Live' /\ ~Stopped' => c \in Live
  PROVE  (\A c \in Issued : ReadOK(c)') /\ InBounds'
<1>1. Phase' = Phase /\ UNCHANGED <<reply_cmd, payload_left, hdr>>
  BY DEF Phase, recvVars
<1>2. \A c \in Issued : Transit(c)' = Transit(c)
  BY <1>1 DEF Transit, Fixed
<1>3. DataFrame
  BY <1>2 DEF DataFrame, Fixed
<1>4. \A c \in Issued : ReadOK(c)'
  BY <1>3, FrameReads DEF DataInv
<1>5. InBounds'
  <2>1. SUFFICES ASSUME ~Stopped, Phase \in DataPhases PROVE InBounds'
    BY <1>1 DEF InBounds, DataPhases
  <2>2. reply_cmd # NULL /\ Phase \notin Unattached
    BY <2>1 DEF InReply, Needs, WithCommand, DataPhases, Unattached
  <2>3. reply_cmd \in Issued
    BY <2>1, <2>2, DataCommand
  <2>. QED  BY <1>1, <2>1, <2>3 DEF InBounds, DataInv, Fixed,
                                    structured_reply_in_bounds
<1>. QED  BY <1>4, <1>5

\* Steps that leave the reply alone and issue nothing.
LEMMA OutsideData ==
  ASSUME TypeInv, ListInv, InReply, DataInv, Fixed, Stopped => Stopped',
         UNCHANGED <<recvVars, cover, unique>>,
         state' = state \/ (state \notin Inner /\ state' \notin Inner),
         \A c \in Issued :
           /\ cmd'[c].data_seen = cmd[c].data_seen
           /\ told'[c] = "ok" => told[c] = "ok" \/ (c \in Done /\ Success(c))
           /\ c \in Done' /\ cmd'[c].error = NoErr
                => c \in Done /\ cmd[c].error = NoErr
           /\ c \in Live' /\ ~Stopped' => c \in Live
  PROVE  DataInv'
<1>1. (\A c \in Issued : ReadOK(c)') /\ InBounds'
  BY OutsideReads
<1>2. Issued' = Issued
  BY DEF Issued
<1>. QED  BY <1>1, <1>2 DEF DataInv, NoData

\* Nothing at all happens to the commands.
LEMMA QuietData ==
  ASSUME TypeInv, ListInv, InReply, DataInv, Stopped => Stopped',
         UNCHANGED <<recvVars, cover, unique, cmd, told>>,
         state' = state \/ (state \notin Inner /\ state' \notin Inner),
         Live' \subseteq Live, Done' \subseteq Done
  PROVE  DataInv'
<1>1. Fixed
  BY SameIsFixed DEF SameCommands
<1>. QED  BY <1>1, OutsideData

\* An aborted command has an error.
LEMMA AbortErrors ==
  ASSUME TypeInv, ListInv, NEW A \in SUBSET Live, nbd_internal_abort_commands(A)
  PROVE  /\ \A c \in Cookie :
              /\ cmd'[c].data_seen = cmd[c].data_seen
              /\ IF c \in A THEN cmd'[c].error # NoErr ELSE cmd'[c] = cmd[c]
              /\ told'[c] = "ok" => told[c] = "ok"
         /\ Done' \subseteq Done \cup A
<1>1. PICK r \in [A -> CbRet] :
        LET retire(c) == \/ cmd[c].type = "DISC"
                         \/ cmd[c].completion /\ r[c] = "1"
            err(c) == IF cmd[c].completion /\ r[c] = "-1"
                      THEN "EUSER" ELSE FirstError(c, "ENOTCONN")
            kept == {c \in A : ~retire(c)}
        IN  /\ cmd' = [c \in Cookie |->
                         IF c \in A THEN [cmd[c] EXCEPT !.error = err(c)]
                         ELSE cmd[c]]
            /\ told' = [c \in Cookie |->
                          IF c \in A \ kept /\ cmd[c].type # "DISC"
                          THEN "failed" ELSE told[c]]
  BY Zenon DEF nbd_internal_abort_commands
<1>2. \A c \in Cookie : told'[c] = "ok" => told[c] = "ok"
  BY <1>1
<1>3. \A c \in Cookie : \E e : /\ e # NoErr
                               /\ cmd'[c] = IF c \in A THEN [cmd[c] EXCEPT !.error = e]
                                            ELSE cmd[c]
  <2>. SUFFICES ASSUME NEW c \in Cookie
                PROVE  \E e : /\ e # NoErr
                              /\ cmd'[c] = IF c \in A THEN [cmd[c] EXCEPT !.error = e]
                                           ELSE cmd[c]
    BY Zenon
  <2>. DEFINE e == IF cmd[c].completion /\ r[c] = "-1"
                  THEN "EUSER" ELSE FirstError(c, "ENOTCONN")
  <2>1. e # NoErr
    BY DEF FirstError, NoErr
  <2>2. cmd'[c] = IF c \in A THEN [cmd[c] EXCEPT !.error = e] ELSE cmd[c]
    BY <1>1, Zenon
  <2>. QED  BY <2>1, <2>2, Zenon
<1>4. \A c \in Cookie : cmd[c] \in Command
  BY DEF TypeInv, TypeOK, CmdType
<1>5. \A c \in Cookie :
              /\ cmd'[c].data_seen = cmd[c].data_seen
              /\ IF c \in A THEN cmd'[c].error # NoErr ELSE cmd'[c] = cmd[c]
  BY <1>3, <1>4, Zenon DEF Command
<1>6. Done' \subseteq Done \cup A
  BY AbortLists, SMTT(60)
<1>. QED  BY <1>2, <1>5, <1>6

\* The handlers of states-issue-command.c store nothing.
LEMMA IssueData ==
  ASSUME TypeInv, ListInv, InReply, DataInv, IssueStep, ListStep, Stopped => Stopped'
  PROVE  DataInv'
<1>1. UNCHANGED <<recvVars, cmd, unique>> /\ state \notin Inner /\ state' \notin Inner
  BY IssueOutside
<1>2. UNCHANGED <<told, cover, cmds_done>> /\ Live' \subseteq Live
  <2>1. CASE IssueFinish
    <3>1. /\ UNCHANGED <<told, cover, cmds_done>> /\ cmds_to_issue # <<>>
          /\ cmds_to_issue' = Tail(cmds_to_issue)
          /\ cmds_in_flight' \subseteq cmds_in_flight \cup {Head(cmds_to_issue)}
      BY <2>1 DEF IssueFinish, FlightAfterIssue, histVars
    <3>. QED  BY <3>1, ListFacts, TailInj
  <2>2. CASE ~IssueFinish
    <3>1. UNCHANGED <<told, cover, listVars>>
      BY <2>2, Zenon DEF IssueStep, IssueStart, PauseSendRequest, PrepareWritePayload,
                  PauseWritePayload, SendWriteShutdown, PauseWriteShutdown,
                  SendRequest, SendWritePayload, SendError, SendThen, SendSome,
                  histVars
    <3>. QED  BY <3>1 DEF listVars, Live, Queued
  <2>. QED  BY <2>1, <2>2
<1>3. Done' = Done
  BY <1>2 DEF Done
<1>. QED  BY <1>1, <1>2, <1>3, QuietData

\* READY, DEAD and CLOSED: an aborted read has an error.
LEMMA TopData ==
  ASSUME TypeInv, ListInv, InReply, DataInv, Ready \/ Dead \/ Closed,
         Stopped => Stopped'
  PROVE  DataInv'
<1>1. CASE Ready
  <2>1. UNCHANGED <<listVars, cmd, recvVars, told, cover>>
        /\ state \notin Inner /\ state' \notin Inner
    BY <1>1, TopOutside DEF Ready, histVars
  <2>2. Live' = Live /\ Done' = Done
    BY <2>1 DEF listVars, Live, Queued, Done
  <2>. QED  BY <2>1, <2>2, QuietData DEF listVars
<1>2. CASE Dead \/ Closed
  <2>1. /\ UNCHANGED <<recvVars, unique, cover>>
        /\ state \notin Inner /\ state' \notin Inner /\ SameCommands
    BY <1>2, TopOutside DEF Dead, Closed, Terminal
  <2>2. /\ nbd_internal_abort_commands(Live) /\ Live \in SUBSET Live /\ Stopped'
    BY <1>2 DEF Dead, Closed, Terminal, At, Block, SET_NEXT_STATE_AND_BLOCK, Live,
                Stopped
  <2>3. Fixed
    BY <2>1, SameIsFixed
  <2>4. Live \cap Done = {} /\ Issued \subseteq Cookie
    BY ListFacts
  <2>5. \A c \in Cookie :
              /\ cmd'[c].data_seen = cmd[c].data_seen
              /\ IF c \in Live THEN cmd'[c].error # NoErr ELSE cmd'[c] = cmd[c]
              /\ told'[c] = "ok" => told[c] = "ok"
    BY <2>2, AbortErrors
  <2>6. Done' \subseteq Done \cup Live
    BY <2>2, AbortErrors
  <2>. QED  BY <2>1, <2>2, <2>3, <2>4, <2>5, <2>6, OutsideData
<1>. QED  BY <1>1, <1>2

\* The server.
LEMMA ServerData ==
  ASSUME TypeInv, ListInv, InReply, DataInv, Server, Stopped => Stopped'
  PROVE  DataInv'
<1>1. UNCHANGED <<runVars, listVars, cmd, recvVars>>
  BY ServerFrom
<1>2. UNCHANGED <<told, cover>>
  BY Zenon DEF Server, ServerReply, ServerStray, Transmit, Deliver, Drain, ServerClose,
         ConnectionLost, histVars
<1>3. Live' = Live /\ Done' = Done
  BY <1>1 DEF listVars, Live, Queued, Done
<1>. QED  BY <1>1, <1>2, <1>3, QuietData DEF listVars, runVars

\* A new command has no data yet.
LEMMA QueueData ==
  ASSUME TypeInv, ListInv, InReply, DataInv, NEW t \in Template,
         t.type = "BLOCK_STATUS" => t.chunk,
         unique <= MaxCmds, nbd_internal_command_common(t), Stopped => Stopped'
  PROVE  DataInv'
<1>1. /\ UNCHANGED <<recvVars, cmds_in_flight, cmds_done, told, cover>>
      /\ cmd' = [cmd EXCEPT ![unique] = MkCommand(t)] /\ unique' = unique + 1
      /\ cmds_to_issue' = Append(cmds_to_issue, unique)
  BY DEF nbd_internal_command_common, histVars
<1>2. Fixed /\ (state' = state \/ (state \notin Inner /\ state' \notin Inner))
  BY CommonOutside DEF Outside
<1>3. /\ unique \in Cookie /\ unique \in Int /\ cmd \in [Cookie -> Command]
      /\ Issued \subseteq Cookie /\ unique \notin Issued
      /\ Issued' = Issued \cup {unique}
  BY <1>1, HandleAssumption, SMTT(60) DEF TypeInv, TypeOK, ListType, CmdType, Issued, Cookie
<1>4. unique \notin Live \cup Done
  BY <1>3, FreshCookie, SMTT(60)
<1>5. Live' = Live \cup {unique} /\ Done' = Done
  <2>1. unique \notin Rng(cmds_to_issue)
    BY <1>4, ListFacts
  <2>2. Queued' = Queued \cup {unique}
    BY <1>1, <1>3, <2>1, ListFacts, AppendInj, SMTT(60)
  <2>. QED  BY <1>1, <2>2, ListFacts DEF Done
<1>6. \A c \in Issued : cmd'[c] = cmd[c]
  BY <1>1, <1>3
<1>7. (\A c \in Issued : ReadOK(c)') /\ InBounds'
  BY <1>1, <1>2, <1>3, <1>5, <1>6, OutsideReads
<1>8. cover[unique].bytes = {} /\ told[unique] = "none"
  BY <1>3, SMTT(60) DEF DataInv, NoData, ListInv, NoHistory
<1>9. cmd'[unique].data_seen = 0
  BY <1>1, <1>3 DEF MkCommand
<1>10. reply_cmd # unique \/ Stopped \/ Phase \in Unattached
  <2>1. unique # NULL
    BY <1>3, NotNull
  <2>. QED  BY <1>3, <2>1, DataCommand
<1>11. PICK u \in Cookie : u = unique
  BY <1>3
<1>12. ReadOK(u)'
  <2>1. ~Stopped' => Transit(u)' = 0
    <3>1. Phase' = Phase /\ reply_cmd' = reply_cmd
      BY <1>1, <1>2 DEF Phase, recvVars
    <3>. QED  BY <1>10, <1>11, <3>1 DEF Transit, DataPhases, Unattached
  <2>2. Cardinality(cover'[u].bytes) = 0 /\ cmd'[u].data_seen = 0
    BY <1>1, <1>8, <1>9, <1>11, FS_EmptySet, Zenon
  <2>3. Tally(u, 0)'
    BY <2>2 DEF Tally
  <2>4. u \notin Done' /\ told'[u] # "ok" /\ cover'[u].bytes = {}
    BY <1>1, <1>4, <1>5, <1>8, <1>11
  <2>. QED  BY <2>1, <2>3, <2>4 DEF ReadOK
<1>13. NoData'
  BY <1>1, <1>3, SMTT(60) DEF DataInv, NoData
<1>. QED  BY <1>3, <1>7, <1>11, <1>12, <1>13 DEF DataInv

\* nbd_aio_command_completed reports success only for a read without error
\* whose data_seen is its count.
LEMMA CompletedData ==
  ASSUME TypeInv, ListInv, InReply, DataInv, NEW d,
         nbd_unlocked_aio_command_completed(d), Stopped => Stopped'
  PROVE  DataInv'
<1>1. PICK i \in 1..Len(cmds_done) :
        /\ cmds_done[i] = d
        /\ cmds_done' = [j \in 1..(Len(cmds_done) - 1) |->
                           IF j < i THEN cmds_done[j] ELSE cmds_done[j + 1]]
        /\ told' = [told EXCEPT ![d] = IF Success(d) THEN "ok" ELSE "failed"]
        /\ UNCHANGED <<state, cmds_to_issue, cmds_in_flight, unique, cmd, recvVars,
                       cover>>
  BY DEF nbd_unlocked_aio_command_completed
<1>2. Live' = Live
  BY <1>1 DEF Live, Queued
<1>3. d \in Done /\ Done' \subseteq Done
  <2>1. Done' = Done \ {d}
    BY <1>1, ListFacts, RemoveInj, Zenon
  <2>. QED  BY <1>1, <2>1 DEF Done
<1>4. Fixed
  BY <1>1, SameIsFixed DEF SameCommands
<1>5. \A c \in Issued : told'[c] = "ok" => told[c] = "ok" \/ (c \in Done /\ Success(c))
  BY <1>1, <1>3, ListFacts DEF TypeInv, TypeOK, HistType
<1>. QED  BY <1>1, <1>2, <1>3, <1>4, <1>5, OutsideData

\* The calls of lib/rw.c, lib/aio.c, lib/disconnect.c and nbd_close.
LEMMA ApiData ==
  ASSUME TypeInv, ListInv, InReply, DataInv, ApiStep, Stopped => Stopped'
  PROVE  DataInv'
<1>. USE DEF Calling, CanCall
<1>1. ASSUME UNCHANGED <<listVars, cmd, recvVars, histVars>>,
             state' = state \/ (state \notin Inner /\ state' \notin Inner)
      PROVE  DataInv'
  <2>1. Live' = Live /\ Done' = Done
    BY <1>1 DEF listVars, Live, Queued, Done
  <2>. QED  BY <1>1, <2>1, QuietData DEF listVars, histVars
<1>2. CASE \E t \in Templates : AioCommand(t) \/ SyncCommand(t)
  <2>1. PICK t \in Templates : unique < MaxCmds /\ nbd_internal_command_common(t)
    BY <1>2 DEF AioCommand, SyncCommand
  <2>2. t \in Template /\ (t.type = "BLOCK_STATUS" => t.chunk)
    BY HandleAssumption
  <2>3. unique <= MaxCmds
    BY <2>1, HandleAssumption, SMTT(60) DEF TypeInv, TypeOK, ListType
  <2>. QED  BY <2>1, <2>2, <2>3, QueueData
<1>3. CASE (\E c \in Cookie : CommandCompleted(c)) \/ WaitForCommand
  <2>1. CASE \E c : nbd_unlocked_aio_command_completed(c)
    BY <2>1, CompletedData
  <2>2. CASE UNCHANGED <<state, listVars, cmd, recvVars, histVars>>
    BY <1>1, <2>2
  <2>. QED  BY <1>3, <2>1, <2>2 DEF CommandCompleted, WaitForCommand
<1>4. CASE \E f \in ShutdownFlags : Shutdown(f)
  <2>1. PICK f \in ShutdownFlags : Shutdown(f)
    BY <1>4
  <2>2. CASE UNCHANGED <<listVars, cmd, histVars>>
    BY <1>1, <2>1, <2>2 DEF Shutdown
  <2>3. CASE /\ nbd_internal_abort_commands(Abandoned)
             /\ is_state_ready \/ cmds_to_issue # <<>>
             /\ cmds_to_issue' = KeptQueue
             /\ UNCHANGED <<cmds_in_flight, unique, cover>>
    <3>1. Abandoned \in SUBSET Live
      BY ListFacts DEF Abandoned
    <3>2. SameCommands
      BY <2>3, <3>1, AbortLists
    <3>3. Fixed
      BY <2>3, <3>2, SameIsFixed
    <3>4. \A c \in Cookie :
              /\ cmd'[c].data_seen = cmd[c].data_seen
              /\ IF c \in Abandoned THEN cmd'[c].error # NoErr ELSE cmd'[c] = cmd[c]
              /\ told'[c] = "ok" => told[c] = "ok"
      BY <2>3, <3>1, AbortErrors
    <3>5. Done' \subseteq Done \cup Abandoned
      BY <2>3, <3>1, AbortErrors
    <3>6. Live' \subseteq Live
      <4>1. CASE is_state_ready
        BY <2>3, <4>1, ListFacts, ShortSeqs DEF KeptQueue
      <4>2. CASE ~is_state_ready
        BY <2>3, <4>2, ListFacts, HeadFacts, ShortSeqs, SMTT(60) DEF KeptQueue
      <4>. QED  BY <4>1, <4>2
    <3>7. \A c \in Issued :
           /\ cmd'[c].data_seen = cmd[c].data_seen
           /\ told'[c] = "ok" => told[c] = "ok" \/ (c \in Done /\ Success(c))
           /\ c \in Done' /\ cmd'[c].error = NoErr
                => c \in Done /\ cmd[c].error = NoErr
           /\ c \in Live' /\ ~Stopped' => c \in Live
      BY <3>4, <3>5, <3>6, ListFacts
    <3>8. UNCHANGED <<state, recvVars>>
      BY <2>1 DEF Shutdown
    <3>. QED  BY <2>3, <3>3, <3>7, <3>8, OutsideData
  <2>. QED  BY <2>1, <2>2, <2>3 DEF Shutdown
<1>5. CASE AioDisconnect \/ ShutdownDisconnect
  <2>1. DiscTemplate \in Template /\ DiscTemplate.type # "BLOCK_STATUS"
    BY DiscTemplateType DEF DiscTemplate
  <2>2. ~disconnect_request => unique <= MaxCmds
    BY DEF TypeInv, CookieLeft
  <2>3. CASE nbd_internal_command_common(DiscTemplate)
    BY <2>1, <2>2, <2>3, QueueData, Zenon DEF nbd_internal_command_common, Accepting
  <2>. QED  BY <1>1, <1>5, <2>3 DEF AioDisconnect, ShutdownDisconnect
<1>6. CASE ShutdownReturn \/ PollError \/ NotifyWrite
  BY <1>1, <1>6 DEF ShutdownReturn, PollError, NotifyWrite
<1>7. CASE NotifyRead
  BY <1>1, <1>7 DEF NotifyRead, Inner, ReplyStates, ResumeStates
<1>8. CASE Close
  <2>1. /\ UNCHANGED <<recvVars, unique, cmd, told, cover>> /\ state' = "FREED"
        /\ cmds_to_issue' = <<>> /\ cmds_in_flight' = {} /\ cmds_done' = <<>>
    BY <1>8 DEF Close
  <2>2. Live' = {} /\ Done' = {}
    BY <2>1, ListFacts, ShortSeqs
  <2>3. Fixed
    BY <2>1, SameIsFixed DEF SameCommands
  <2>4. DataFrame
    BY <2>1, <2>2, <2>3 DEF DataFrame, Fixed
  <2>5. Issued' = Issued /\ Stopped'
    BY <2>1 DEF Issued, Stopped
  <2>. QED  BY <2>1, <2>4, <2>5, FrameReads DEF DataInv, InBounds, NoData
<1>. QED  BY <1>2, <1>3, <1>4, <1>5, <1>6, <1>7, <1>8 DEF ApiStep

(***************************************************************************)
(* The handlers of the REPLY group.                                        *)
(***************************************************************************)

\* A handler deals with the command of the reply, and no other.
LEMMA HandlerReads ==
  ASSUME TypeInv, ListInv, InReply, DataInv, ~Stopped,
         UNCHANGED <<listVars, told>>, SameCommands,
         reply_cmd' = reply_cmd \/ Phase' \notin DataPhases \/ Stopped',
         \A c \in Cookie \ {reply_cmd} :
           /\ cover'[c] = cover[c] /\ cmd'[c].data_seen = cmd[c].data_seen
           /\ cmd'[c].error = cmd[c].error,
         \A c \in Live \ Done :
           c = reply_cmd /\ cmd[c].type = "READ" /\ ~cover'[c].again =>
             cover'[c].bytes \subseteq Buffer(c) /\ (Stopped' \/ Tally(c, Transit(c))'),
         InBounds'
  PROVE  DataInv'
<1>1. /\ Live' = Live /\ Done' = Done /\ Issued' = Issued /\ unique' = unique
      /\ UNCHANGED cmds_in_flight
  BY DEF listVars, Live, Queued, Done, Issued
<1>2. reply_cmd = NULL \/ (reply_cmd \in Live /\ reply_cmd \in Issued
                           /\ reply_cmd \in Cookie /\ reply_cmd \notin Done)
  BY DataCommand DEF InReply, Attached
<1>3. Issued \subseteq Cookie /\ NULL \notin Cookie
  BY ListFacts, NotNull
<1>4. ASSUME NEW c \in Issued PROVE ReadOK(c)'
  <2>1. c \in Cookie /\ ReadOK(c)
    BY <1>3, <1>4 DEF DataInv
  <2>2. Buffer(c)' = Buffer(c) /\ cmd'[c].type = cmd[c].type
        /\ cmd'[c].count = cmd[c].count
    BY <2>1 DEF Buffer, SameCommands
  <2>3. CASE c # reply_cmd
    <3>1. Transit(c) = 0 /\ (Stopped' \/ Transit(c)' = 0)
      BY <2>3 DEF Transit
    <3>2. /\ cover'[c] = cover[c] /\ cmd'[c].data_seen = cmd[c].data_seen
          /\ cmd'[c].error = cmd[c].error
      BY <2>1, <2>3
    <3>3. Tally(c, 0)' <=> Tally(c, 0)
      BY <2>2, <3>2 DEF Tally
    <3>. QED  BY <1>1, <2>1, <2>2, <3>1, <3>2, <3>3 DEF ReadOK
  <2>4. CASE c = reply_cmd
    <3>1. c \in Live /\ c \notin Done
      BY <1>2, <1>3, <1>4, <2>4
    <3>2. told[c] = "none"
      BY <1>4, <3>1 DEF ListInv, OneList, Issued, Stopped
    <3>. QED  BY <1>1, <2>2, <2>4, <3>1, <3>2 DEF ReadOK
  <2>. QED  BY <2>3, <2>4
<1>5. NoData'
  <2>1. \A c \in Cookie : c >= unique => c # reply_cmd
    <3>1. reply_cmd \in Issued => ~(reply_cmd >= unique)
      BY ListFacts, SMTT(60) DEF Issued
    <3>. QED  BY <1>2, <1>3, <3>1
  <2>. QED  BY <1>1, <2>1 DEF DataInv, NoData
<1>. QED  BY <1>1, <1>4, <1>5 DEF DataInv

\* The handler stores nothing and counts nothing.
LEMMA NoDataStep ==
  ASSUME TypeInv, ListInv, InReply, DataInv, ~Stopped,
         UNCHANGED <<listVars, told, cover>>, SameCommands,
         \A c \in Cookie : /\ cmd'[c].data_seen = cmd[c].data_seen
                           /\ c # reply_cmd => cmd'[c].error = cmd[c].error,
         \/ Stopped'
         \/ Phase' = Phase /\ UNCHANGED <<reply_cmd, payload_left, hdr>>
         \/ Phase \notin DataPhases /\ Phase' \notin DataPhases
  PROVE  DataInv'
<1>1. InBounds'
  <2>1. CASE Stopped' \/ Phase' \notin DataPhases
    BY <2>1 DEF InBounds, DataPhases
  <2>2. CASE Phase \in DataPhases /\ Phase' = Phase
             /\ UNCHANGED <<reply_cmd, payload_left, hdr>>
    <3>1. reply_cmd # NULL /\ Phase \notin Unattached
      BY <2>2 DEF InReply, Needs, WithCommand, DataPhases, Unattached
    <3>2. reply_cmd \in Cookie
      BY <3>1, DataCommand
    <3>. QED  BY <2>2, <3>2 DEF InBounds, DataInv, SameCommands,
                                structured_reply_in_bounds
  <2>. QED  BY <2>1, <2>2
<1>2. ASSUME NEW c \in Live \ Done, c = reply_cmd, cmd[c].type = "READ",
             ~cover[c].again
      PROVE  cover[c].bytes \subseteq Buffer(c) /\ (Stopped' \/ Tally(c, Transit(c))')
  <2>1. c \in Issued /\ c \in Cookie
    BY <1>2, ListFacts
  <2>2. cover[c].bytes \subseteq Buffer(c) /\ Tally(c, Transit(c))
    BY <1>2, <2>1, Zenon DEF DataInv, ReadOK
  <2>3. Stopped' \/ Transit(c)' = Transit(c)
    BY <2>1 DEF Transit, SameCommands
  <2>4. cmd'[c].data_seen = cmd[c].data_seen /\ cmd'[c].count = cmd[c].count
    BY <2>1 DEF SameCommands
  <2>. QED  BY <2>2, <2>3, <2>4 DEF Tally
<1>. QED  BY <1>1, <1>2, HandlerReads

\* cmd' differs in the error of one command.
LEMMA ErrorSet ==
  ASSUME TypeInv, NEW d, NEW e, cmd' = cmd \/ cmd' = [cmd EXCEPT ![d].error = e]
  PROVE  \A c \in Cookie : /\ cmd'[c].data_seen = cmd[c].data_seen
                           /\ c # d => cmd'[c].error = cmd[c].error
<1>1. cmd \in [Cookie -> Command]
  BY DEF TypeInv, TypeOK, CmdType
<1>. QED  BY <1>1, SMTT(60) DEF Command

\* A short read, or a lost connection.
LEMMA SaveData ==
  ASSUME TypeInv, ListInv, InReply, DataInv, NEW s \in ResumeStates, At(s),
         RecvError \/ SaveAndReturn, SameCommands
  PROVE  DataInv'
<1>1. /\ state = s /\ UNCHANGED <<listVars, cmd, told, cover>>
      /\ ~Stopped
  BY DEF At, RecvError, SaveAndReturn, histVars, Stopped, ResumeStates
<1>2. CASE RecvError
  <2>1. Stopped'
    BY <1>2 DEF RecvError, SET_NEXT_STATE, Stopped
  <2>. QED  BY <1>1, <2>1, NoDataStep
<1>3. CASE SaveAndReturn
  <2>1. /\ state' = "READY" /\ reply_state' = s /\ rlen' # 0
        /\ UNCHANGED <<reply_cmd, payload_left, hdr>>
    BY <1>1, <1>3, SMTT(60) DEF SaveAndReturn, SET_NEXT_STATE, RecvShort, StillToRead,
                      TypeInv, TypeOK, RecvType, NetType
  <2>2. Phase = s /\ Phase' = s
    BY <1>1, <2>1 DEF Phase, Inner, ReplyStates, ResumeStates
  <2>. QED  BY <1>1, <2>1, <2>2, NoDataStep
<1>. QED  BY <1>2, <1>3

\* Reading a header stores nothing.
LEMMA HeaderData ==
  ASSUME TypeInv, ListInv, InReply, DataInv, SameCommands,
         ReplyStart \/ RecvReply \/ CheckReplyMagic
  PROVE  DataInv'
<1>1. UNCHANGED <<listVars, cmd, told, cover>> /\ ~Stopped
  BY Zenon DEF ReplyStart, RecvReply, RecvError, CheckReplyMagic, At, Stopped, histVars
<1>2. CASE ReplyStart
  <2>1. /\ state = "REPLY.START" /\ rlen \in Nat
        /\ reply_state \in ResumeStates \cup {"START"}
    BY <1>2 DEF ReplyStart, At, TypeInv, TypeOK, RecvType
  <2>2. CASE rlen > 0
    <3>1. /\ state' = IF reply_state # "START" THEN reply_state ELSE "RECV_REPLY"
          /\ UNCHANGED <<rlen, hdr, reply_cmd, payload_left>>
      BY <1>2, <2>1, <2>2, SMTT(60) DEF ReplyStart, SET_NEXT_STATE
    <3>2. Phase' = Phase
      BY <2>1, <2>2, <3>1, SMTT(60) DEF Phase, Inner, ReplyStates, ResumeStates
    <3>. QED  BY <1>1, <3>1, <3>2, NoDataStep
  <2>3. CASE rlen = 0
    <3>1. Phase = "NONE" /\ reply_state = "START"
      BY <1>1, <2>1, <2>3 DEF Phase, Inner, InReply, ResumeOK
    <3>2. \/ state' \in {"CLOSED", "DEAD"}
          \/ /\ state' \in {"REPLY.START", "RECV_REPLY"} /\ reply_state' = "START"
             /\ state' = "REPLY.START" => rlen' = HdrLen
      BY <1>2, <2>1, <2>3, <3>1 DEF ReplyStart, SET_NEXT_STATE, Block,
                                    SET_NEXT_STATE_AND_BLOCK
    <3>3. Stopped' \/ Phase' = "RECV_REPLY"
      BY <3>2, SMTT(60) DEF Phase, Inner, ReplyStates, ResumeStates, HdrLen, Stopped
    <3>. QED  BY <1>1, <3>1, <3>3, NoDataStep DEF DataPhases
  <2>. QED  BY <2>1, <2>2, <2>3, SMTT(60)
<1>3. CASE RecvReply
  <2>1. /\ state = "RECV_REPLY"
        /\ \/ state' = "READY" /\ rlen' # 0 /\ UNCHANGED reply_state
           \/ state' \in {"DEAD", "CHECK_REPLY_MAGIC"}
    BY <1>3, SMTT(60) DEF RecvReply, RecvError, RecvShort, StillToRead, At, SET_NEXT_STATE,
                TypeInv, TypeOK, RecvType, NetType
  <2>2. reply_state = "START" /\ Phase = "RECV_REPLY"
    BY <1>1, <2>1 DEF InReply, ResumeOK, Phase, Inner, ReplyStates
  <2>3. Stopped' \/ Phase' \in {"RECV_REPLY", "CHECK_REPLY_MAGIC"}
    BY <2>1, <2>2 DEF Phase, Inner, ReplyStates, ResumeStates, Stopped
  <2>. QED  BY <1>1, <2>2, <2>3, NoDataStep DEF DataPhases
<1>4. CASE CheckReplyMagic
  <2>1. /\ state = "CHECK_REPLY_MAGIC"
        /\ state' \in {"SIMPLE.START", "RECV_STRUCTURED_REMAINING", "CHUNK.START",
                       "DEAD"}
    BY <1>4 DEF CheckReplyMagic, At, SET_NEXT_STATE
  <2>2. Phase \notin DataPhases /\ (Stopped' \/ Phase' \notin DataPhases)
    BY <2>1 DEF Phase, Inner, ReplyStates, ResumeStates, Stopped, DataPhases
  <2>. QED  BY <1>1, <2>2, NoDataStep
<1>. QED  BY <1>2, <1>3, <1>4

\* Handlers that at most set the error of the command.
LEMMA ErrorData ==
  ASSUME TypeInv, ListInv, InReply, DataInv, SameCommands,
         state \in Inner \ DataPhases, UNCHANGED <<listVars, told, cover>>,
         NEW e, cmd' = cmd \/ cmd' = [cmd EXCEPT ![reply_cmd].error = e],
         \/ state' \in {"DEAD"} \cup (Inner \ DataPhases)
         \/ state' = "READY" /\ UNCHANGED <<rlen, reply_state>>
            /\ state \in NoReceive
  PROVE  DataInv'
<1>1. ~Stopped /\ Phase \notin DataPhases
  BY DEF Stopped, Inner, ReplyStates, ResumeStates, Phase
<1>2. Stopped' \/ Phase' \notin DataPhases
  <2>1. CASE state' = "READY" /\ UNCHANGED <<rlen, reply_state>>
             /\ state \in NoReceive
    <3>1. rlen' = 0
      BY <1>1, <2>1 DEF InReply, ResumeOK
    <3>. QED  BY <2>1, <3>1 DEF Phase, DataPhases, Inner, ReplyStates, ResumeStates
  <2>2. CASE state' \in {"DEAD"} \cup (Inner \ DataPhases)
    BY <2>2 DEF Phase, Stopped
  <2>. QED  BY <2>1, <2>2
<1>3. \A c \in Cookie : /\ cmd'[c].data_seen = cmd[c].data_seen
                        /\ c # reply_cmd => cmd'[c].error = cmd[c].error
  BY ErrorSet, SMTT(60)
<1>. QED  BY <1>1, <1>2, <1>3, NoDataStep

\* The chunks without data store nothing.
LEMMA ChunkErrorData ==
  ASSUME TypeInv, ListInv, InReply, DataInv, SameCommands,
         NEW s \in ResumeStates, Received(s),
         \/ s = "RECV_STRUCTURED_REMAINING" /\ RecvStructuredRemaining
         \/ s = "RECV_ERROR" /\ RecvChunkError
         \/ s = "RECV_ERROR_MESSAGE" /\ RecvErrorMessage
         \/ s = "RECV_ERROR_TAIL" /\ RecvErrorTail
         \/ s = "RECV_BS_HEADER" /\ RecvBsHeader
         \/ s = "RECV_BS_ENTRIES" /\ RecvBsEntries
         \/ s = "RESYNC" /\ ResyncPayload,
         ~RecvError, ~SaveAndReturn
  PROVE  DataInv'
<1>1. state = s /\ UNCHANGED listVars
  BY DEF Received, At
<1>2. /\ UNCHANGED <<told, cover>>
      /\ state' \in {"CHUNK.START", "RESYNC", "RECV_ERROR_MESSAGE", "RECV_ERROR_TAIL",
                     "CHUNK.FINISH", "RECV_BS_ENTRIES", "FINISH_COMMAND", "DEAD"}
      /\ \E e : cmd' = cmd \/ cmd' = [cmd EXCEPT ![reply_cmd].error = e]
  BY ZenonT(120)
     DEF RecvStructuredRemaining, RecvChunkError, RecvErrorMessage, RecvErrorTail,
         RecvBsHeader, RecvBsEntries, ResyncPayload, Resync, SET_NEXT_STATE, histVars
<1>3. PICK e : cmd' = cmd \/ cmd' = [cmd EXCEPT ![reply_cmd].error = e]
  BY <1>2
<1>. QED  BY <1>1, <1>2, <1>3, ErrorData DEF Inner, ReplyStates, ResumeStates,
                                             DataPhases

\* CHUNK_REPLY.START and FINISH store nothing.
LEMMA ChunkEndsData ==
  ASSUME TypeInv, ListInv, InReply, DataInv, SameCommands, ChunkStart \/ ChunkFinish
  PROVE  DataInv'
<1>1. CASE ChunkStart
  <2>1. /\ UNCHANGED <<listVars, told, cover>> /\ state = "CHUNK.START"
        /\ state' \in {"DEAD", "RESYNC", "CHUNK.FINISH", "RECV_OFFSET_DATA",
                       "RECV_OFFSET_HOLE", "RECV_BS_HEADER", "RECV_ERROR"}
        /\ \E e : cmd' = cmd \/ cmd' = [cmd EXCEPT ![reply_cmd].error = e]
    BY <1>1, ZenonT(60) DEF ChunkStart, Resync, SET_NEXT_STATE, histVars, At
  <2>2. PICK e : cmd' = cmd \/ cmd' = [cmd EXCEPT ![reply_cmd].error = e]
    BY <2>1
  <2>. QED  BY <2>1, <2>2, ErrorData DEF Inner, ReplyStates, ResumeStates, DataPhases
<1>2. CASE ChunkFinish
  <2>1. /\ UNCHANGED <<listVars, told, cover, cmd, rlen, reply_state>>
        /\ state = "CHUNK.FINISH" /\ state' \in {"READY", "FINISH_COMMAND"}
    BY <1>2 DEF ChunkFinish, SET_NEXT_STATE, histVars, At
  <2>. QED  BY <2>1, ErrorData DEF Inner, ReplyStates, ResumeStates, DataPhases,
                                   NoReceive
<1>. QED  BY <1>1, <1>2

\* Setting data_seen of one command.
LEMMA CountSet ==
  ASSUME TypeInv, NEW d \in Cookie, NEW e, NEW n,
         \/ cmd' = [cmd EXCEPT ![d].data_seen = n]
         \/ cmd' = [cmd EXCEPT ![d].error = e, ![d].data_seen = n]
  PROVE  cmd'[d].data_seen = n /\ \A c \in Cookie \ {d} : cmd'[c] = cmd[c]
<1>1. cmd \in [Cookie -> Command]
  BY DEF TypeInv, TypeOK, CmdType
<1>2. CASE cmd' = [cmd EXCEPT ![d].data_seen = n]
  BY <1>1, <1>2, SMTT(60) DEF Command
<1>3. CASE cmd' = [cmd EXCEPT ![d].error = e, ![d].data_seen = n]
  BY <1>1, <1>3 DEF Command
<1>. QED  BY <1>2, <1>3

\* Storing bytes for one command.
LEMMA Filled ==
  ASSUME TypeInv, NEW d \in Cookie, NEW s, Fill(d, s)
  PROVE  /\ cover'[d].bytes = cover[d].bytes \cup s
         /\ cover'[d].again <=> cover[d].again \/ cover[d].bytes \cap s # {}
         /\ \A c \in Cookie \ {d} : cover'[c] = cover[c]
<1>1. cover \in [Cookie -> [bytes : SUBSET Nat, again : BOOLEAN]]
  BY DEF TypeInv, TypeOK, HistType
<1>2. cover' = [cover EXCEPT ![d] =
                  [bytes |-> cover[d].bytes \cup s,
                   again |-> cover[d].again \/ cover[d].bytes \cap s # {}]]
  BY Zenon DEF Fill
<1>. QED  BY <1>1, <1>2, Zenon

\* Before its data is counted or stored, a read has counted what it has.
LEMMA ReadSoFar ==
  ASSUME TypeInv, ListInv, InReply, DataInv, state \in Inner \ Unattached,
         reply_cmd # NULL
  PROVE  /\ ~Stopped /\ Phase = state /\ reply_cmd \in Cookie /\ reply_cmd \in Live
         /\ cmd[reply_cmd].type = "READ" /\ ~cover[reply_cmd].again =>
              /\ cover[reply_cmd].bytes \subseteq Buffer(reply_cmd)
              /\ Tally(reply_cmd, Transit(reply_cmd))
         /\ NULL \notin Cookie
<1>1. ~Stopped /\ Phase = state
  BY DEF Stopped, Inner, ReplyStates, ResumeStates, Phase
<1>2. reply_cmd \in Cookie /\ reply_cmd \in Live /\ reply_cmd \in Issued
  BY <1>1, DataCommand
<1>. QED  BY <1>1, <1>2, NotNull DEF DataInv, ReadOK

\* Counting: RECV_OFFSET_DATA and SIMPLE_REPLY.START.
LEMMA CountData ==
  ASSUME TypeInv, ListInv, InReply, DataInv, SameCommands,
         state \in Inner \ (Unattached \cup DataPhases), reply_cmd # NULL,
         UNCHANGED <<listVars, told, cover, reply_cmd>>, state' \in DataPhases,
         NEW n \in Nat, InBounds', Transit(reply_cmd)' = n,
         NEW e, NEW m \in Nat,
         \/ cmd' = [cmd EXCEPT ![reply_cmd].data_seen = m]
         \/ cmd' = [cmd EXCEPT ![reply_cmd].error = e, ![reply_cmd].data_seen = m],
         IF cmd[reply_cmd].data_seen > cmd[reply_cmd].count
         THEN m > cmd[reply_cmd].count ELSE m = cmd[reply_cmd].data_seen + n
  PROVE  DataInv'
<1>. DEFINE d == reply_cmd
<1>1. /\ ~Stopped /\ Phase = state /\ d \in Cookie /\ d \in Live
      /\ cmd[d].type = "READ" /\ ~cover[d].again =>
           cover[d].bytes \subseteq Buffer(d) /\ Tally(d, 0)
  BY ReadSoFar DEF Transit
<1>2. /\ cmd'[d].data_seen = m /\ \A c \in Cookie \ {d} : cmd'[c] = cmd[c]
  BY <1>1, CountSet, Zenon
<1>3. cmd'[d].count = cmd[d].count /\ cmd[d].count \in Nat /\ cmd[d].data_seen \in Nat
  BY <1>1, BufferCard DEF SameCommands
<1>4. ASSUME cmd[d].type = "READ", ~cover[d].again
      PROVE  cover[d].bytes \subseteq Buffer(d) /\ Tally(d, Transit(d))'
  <2>1. cover[d].bytes \subseteq Buffer(d) /\ Tally(d, 0)
    BY <1>1, <1>4
  <2>2. Cardinality(cover[d].bytes) \in Nat
    BY <1>1, <2>1, BufferCard
  <2>3. m > cmd[d].count \/ m = Cardinality(cover[d].bytes) + n
    BY <1>3, <2>1, <2>2, SMTT(60) DEF Tally
  <2>. QED  BY <1>2, <1>3, <2>1, <2>3 DEF Tally
<1>. QED  BY <1>1, <1>2, <1>4, HandlerReads

\* Storing: RECV_OFFSET_DATA_DATA, RECV_OFFSET_HOLE and RECV_READ_PAYLOAD.
LEMMA StoreData ==
  ASSUME TypeInv, ListInv, InReply, DataInv, SameCommands,
         state \in Inner \ Unattached, reply_cmd # NULL,
         UNCHANGED <<listVars, told, reply_cmd>>, state' \in Inner \ DataPhases,
         NEW s, Fill(reply_cmd, s), s \subseteq Buffer(reply_cmd),
         \A c \in Cookie \ {reply_cmd} : cmd'[c] = cmd[c],
         LET d == reply_cmd
             n == cmd'[d].data_seen
         IN  \/ n > cmd[d].count
             \/ /\ cmd[d].data_seen <= cmd[d].count
                /\ n + Transit(d) = cmd[d].data_seen + Cardinality(s)
                /\ n \in Nat /\ Transit(d) \in Nat
  PROVE  DataInv'
<1>. DEFINE d == reply_cmd
<1>1. /\ ~Stopped /\ Phase = state /\ d \in Cookie /\ d \in Live
      /\ cmd[d].type = "READ" /\ ~cover[d].again =>
           cover[d].bytes \subseteq Buffer(d) /\ Tally(d, Transit(d))
  BY ReadSoFar
<1>2. /\ cover'[d].bytes = cover[d].bytes \cup s
      /\ cover'[d].again <=> cover[d].again \/ cover[d].bytes \cap s # {}
      /\ \A c \in Cookie \ {d} : cover'[c] = cover[c]
  BY <1>1, Filled, ZenonT(60)
<1>3. Phase' = state' /\ Transit(d)' = 0
  BY DEF Phase, Transit
<1>4. cmd'[d].count = cmd[d].count /\ cmd[d].count \in Nat /\ cmd[d].data_seen \in Nat
  BY <1>1, BufferCard DEF SameCommands
<1>5. ASSUME cmd[d].type = "READ", ~cover'[d].again
      PROVE  cover'[d].bytes \subseteq Buffer(d) /\ Tally(d, Transit(d))'
  <2>1. /\ cover[d].bytes \subseteq Buffer(d) /\ Tally(d, Transit(d))
        /\ cover[d].bytes \cap s = {}
    BY <1>1, <1>2, <1>5
  <2>2. /\ Cardinality(cover[d].bytes) \in Nat /\ Cardinality(s) \in Nat
        /\ Cardinality(cover'[d].bytes) = Cardinality(cover[d].bytes) + Cardinality(s)
    <3>1. cover[d].bytes \in SUBSET Buffer(d) /\ s \in SUBSET Buffer(d)
      BY <2>1
    <3>2. Cardinality(cover[d].bytes) \in Nat /\ Cardinality(s) \in Nat
      BY <1>1, <3>1, BufferCard
    <3>3. Cardinality(cover[d].bytes \cup s)
            = Cardinality(cover[d].bytes) + Cardinality(s)
      BY <1>1, <2>1, <3>1, MoreBytes, SMTT(60)
    <3>. QED  BY <1>2, <3>2, <3>3
  <2>3. \/ cmd'[d].data_seen > cmd[d].count
        \/ cmd'[d].data_seen = Cardinality(cover'[d].bytes)
    BY <1>4, <2>1, <2>2, SMTT(60) DEF Tally
  <2>4. Tally(d, Transit(d))'
    <3>1. /\ cmd'[d].data_seen = Cardinality(cover'[d].bytes)
               => cmd'[d].data_seen = Cardinality(cover'[d].bytes) + 0
          /\ d' = d
      BY <2>2, SMTT(60)
    <3>. QED  BY <1>3, <1>4, <2>3, <3>1 DEF Tally
  <2>. QED  BY <1>2, <2>1, <2>4
<1>6. InBounds'
  BY <1>3 DEF InBounds, DataPhases
<1>. QED  BY <1>1, <1>2, <1>5, <1>6, HandlerReads, ZenonT(60)

\* SIMPLE_REPLY.START counts the whole read before its payload is stored.
LEMMA SimpleData ==
  ASSUME TypeInv, ListInv, InReply, DataInv, SameCommands, SimpleStart
  PROVE  DataInv'
<1>1. /\ state = "SIMPLE.START" /\ UNCHANGED <<listVars, told, cover, reply_cmd>>
  BY DEF SimpleStart, At, histVars
<1>2. CASE state' = "RECV_READ_PAYLOAD"
  <2>1. /\ reply_cmd # NULL /\ cmd[reply_cmd].type = "READ"
        /\ \E e : cmd' = [cmd EXCEPT ![reply_cmd].error = e,
                                     ![reply_cmd].data_seen = @ + cmd[reply_cmd].count]
    BY <1>2, ZenonT(60) DEF SimpleStart, SET_NEXT_STATE
  <2>. DEFINE m == cmd[reply_cmd].data_seen + cmd[reply_cmd].count
  <2>2. PICK e : cmd' = [cmd EXCEPT ![reply_cmd].error = e, ![reply_cmd].data_seen = m]
    <3>1. PICK e : cmd' = [cmd EXCEPT ![reply_cmd].error = e,
                             ![reply_cmd].data_seen = @ + cmd[reply_cmd].count]
      BY <2>1, Zenon
    <3>2. reply_cmd \in Cookie /\ cmd \in [Cookie -> Command]
      BY <1>1, <2>1, ReadSoFar DEF Inner, ReplyStates, Unattached, TypeInv, TypeOK, CmdType
    <3>3. cmd' = [cmd EXCEPT ![reply_cmd].error = e, ![reply_cmd].data_seen = m]
      BY <3>1, <3>2 DEF Command
    <3>. QED  BY <3>3, Zenon
  <2>3. reply_cmd \in Cookie
    BY <1>1, <2>1, ReadSoFar DEF Inner, ReplyStates, Unattached
  <2>4. /\ cmd[reply_cmd].count \in Nat /\ m \in Nat /\ cmd[reply_cmd].data_seen \in Nat
        /\ cmd[reply_cmd].data_seen > cmd[reply_cmd].count
             => m > cmd[reply_cmd].count
        /\ cmd'[reply_cmd].count = cmd[reply_cmd].count
        /\ cmd'[reply_cmd].type = cmd[reply_cmd].type
    BY <2>3, BufferCard, SMTT(60) DEF SameCommands
  <2>5. Phase' = "RECV_READ_PAYLOAD"
    BY <1>2 DEF Phase, Inner, ReplyStates, ResumeStates
  <2>6. Transit(reply_cmd)' = cmd[reply_cmd].count /\ InBounds'
    BY <1>1, <2>1, <2>4, <2>5 DEF Transit, DataPhases, InBounds
  <2>. HIDE DEF m
  <2>7. /\ state \in Inner \ (Unattached \cup DataPhases) /\ state' \in DataPhases
    BY <1>1, <1>2 DEF Inner, ReplyStates, Unattached, DataPhases
  <2>8. ~(cmd[reply_cmd].data_seen > cmd[reply_cmd].count)
          => m = cmd[reply_cmd].data_seen + cmd[reply_cmd].count
    BY DEF m
  <2>. QED  BY <1>1, <2>1, <2>2, <2>4, <2>6, <2>7, <2>8, CountData, Zenon
<1>3. CASE state' # "RECV_READ_PAYLOAD"
  <2>1. /\ state' \in {"DEAD", "FINISH_COMMAND"}
        /\ \E e : cmd' = cmd \/ cmd' = [cmd EXCEPT ![reply_cmd].error = e]
    BY <1>3, ZenonT(60) DEF SimpleStart, SET_NEXT_STATE
  <2>2. PICK e : cmd' = cmd \/ cmd' = [cmd EXCEPT ![reply_cmd].error = e]
    BY <2>1
  <2>. QED  BY <1>1, <2>1, <2>2, ErrorData DEF Inner, ReplyStates, ResumeStates,
                                               DataPhases
<1>. QED  BY <1>2, <1>3

\* RECV_OFFSET_DATA counts the chunk before its payload is stored.
LEMMA OffsetData ==
  ASSUME TypeInv, ListInv, InReply, DataInv, SameCommands, RecvOffsetData,
         Received("RECV_OFFSET_DATA"), ~RecvError, ~SaveAndReturn
  PROVE  DataInv'
<1>. DEFINE d == reply_cmd
            m == DataSeen(d, payload_left)
<1>1. /\ state = "RECV_OFFSET_DATA"
      /\ UNCHANGED <<listVars, told, cover, reply_cmd, payload_left, hdr>>
      /\ d # NULL /\ cmd[d].type = "READ"
      /\ \/ /\ structured_reply_in_bounds(hdr.offset, payload_left, d)
            /\ cmd' = [cmd EXCEPT ![d].data_seen = m]
            /\ state' = "RECV_OFFSET_DATA_DATA"
         \/ state' = "DEAD" /\ cmd' = cmd
  BY DEF RecvOffsetData, Received, At, SET_NEXT_STATE, histVars
<1>2. CASE state' = "DEAD" /\ cmd' = cmd
  BY <1>1, <1>2, ErrorData DEF Inner, ReplyStates, ResumeStates, DataPhases
<1>3. CASE state' # "DEAD"
  <2>1. /\ structured_reply_in_bounds(hdr.offset, payload_left, d)
        /\ cmd' = [cmd EXCEPT ![d].data_seen = m]
        /\ state' = "RECV_OFFSET_DATA_DATA"
    BY <1>1, <1>3
  <2>2. state \in Inner \ (Unattached \cup DataPhases) /\ state' \in DataPhases
    BY <1>1, <2>1 DEF Inner, ReplyStates, ResumeStates, Unattached, DataPhases
  <2>3. d \in Cookie
    BY <1>1, <2>2, ReadSoFar
  <2>4. cmd[d].count \in Nat /\ cmd[d].data_seen \in Nat /\ payload_left \in Nat
    BY <2>3, BufferCard DEF TypeInv, TypeOK, RecvType
  <2>5. /\ m \in Nat
        /\ IF cmd[d].data_seen > cmd[d].count THEN m > cmd[d].count
           ELSE m = cmd[d].data_seen + payload_left
    BY <2>4 DEF DataSeen
  <2>6. Phase' = "RECV_OFFSET_DATA_DATA"
    BY <2>1 DEF Phase, Inner, ReplyStates, ResumeStates
  <2>7. Transit(d)' = payload_left /\ InBounds'
    BY <1>1, <2>1, <2>3, <2>6 DEF Transit, DataPhases, InBounds, SameCommands,
                                  structured_reply_in_bounds
  <2>. HIDE DEF m
  <2>. QED  BY <1>1, <2>1, <2>2, <2>4, <2>5, <2>7, CountData, Zenon
<1>. QED  BY <1>1, <1>2, <1>3

\* RECV_OFFSET_DATA_DATA has stored what was counted.
LEMMA OffsetDataData ==
  ASSUME TypeInv, ListInv, InReply, DataInv, SameCommands, RecvOffsetDataData,
         Received("RECV_OFFSET_DATA_DATA"), ~RecvError, ~SaveAndReturn
  PROVE  DataInv'
<1>. DEFINE d == reply_cmd
            s == Stored(d, payload_left)
<1>1. /\ state = "RECV_OFFSET_DATA_DATA" /\ UNCHANGED <<listVars, told, reply_cmd>>
      /\ d # NULL /\ state' = "CHUNK.FINISH" /\ Fill(d, s)
      /\ \E e : cmd' = cmd \/ cmd' = [cmd EXCEPT ![d].error = e]
  BY DEF RecvOffsetDataData, Received, At, SET_NEXT_STATE
<1>2. state \in Inner \ Unattached /\ state' \in Inner \ DataPhases
  BY <1>1 DEF Inner, ReplyStates, ResumeStates, Unattached, DataPhases
<1>3. ~Stopped /\ Phase = state /\ d \in Cookie
  BY <1>1, <1>2, ReadSoFar
<1>4. structured_reply_in_bounds(hdr.offset, payload_left, d)
      /\ payload_left \in Nat /\ hdr.offset \in Nat
  BY <1>1, <1>3 DEF DataInv, InBounds, TypeInv, TypeOK, RecvType, Message
<1>5. s \subseteq Buffer(d) /\ Cardinality(s) = payload_left
  BY <1>3, <1>4, StoredCard
<1>6. Transit(d) = payload_left
  BY <1>1, <1>3 DEF Transit, DataPhases
<1>7. /\ cmd'[d].data_seen = cmd[d].data_seen
      /\ \A c \in Cookie \ {d} : cmd'[c] = cmd[c]
  <2>1. cmd \in [Cookie -> Command]
    BY DEF TypeInv, TypeOK, CmdType
  <2>. QED  BY <1>1, <1>3, <2>1 DEF Command
<1>8. cmd[d].count \in Nat /\ cmd[d].data_seen \in Nat
  BY <1>3, BufferCard
<1>9. \/ cmd'[d].data_seen > cmd[d].count
      \/ /\ cmd[d].data_seen <= cmd[d].count
         /\ cmd'[d].data_seen + Transit(d) = cmd[d].data_seen + Cardinality(s)
         /\ cmd'[d].data_seen \in Nat /\ Transit(d) \in Nat
  BY <1>4, <1>5, <1>6, <1>7, <1>8, SMTT(60)
<1>. HIDE DEF s
<1>. QED  BY <1>1, <1>2, <1>5, <1>7, <1>9, StoreData

\* RECV_READ_PAYLOAD has stored what was counted.
LEMMA ReadPayloadData ==
  ASSUME TypeInv, ListInv, InReply, DataInv, SameCommands, RecvReadPayload,
         Received("RECV_READ_PAYLOAD"), ~RecvError, ~SaveAndReturn
  PROVE  DataInv'
<1>. DEFINE d == reply_cmd
<1>1. /\ state = "RECV_READ_PAYLOAD" /\ UNCHANGED <<listVars, told, reply_cmd>>
      /\ d # NULL /\ state' = "FINISH_COMMAND" /\ Fill(d, Buffer(d))
      /\ \E e : cmd' = cmd \/ cmd' = [cmd EXCEPT ![d].error = e]
  BY DEF RecvReadPayload, Received, At, SET_NEXT_STATE, Buffer
<1>2. state \in Inner \ Unattached /\ state' \in Inner \ DataPhases
  BY <1>1 DEF Inner, ReplyStates, ResumeStates, Unattached, DataPhases
<1>3. ~Stopped /\ Phase = state /\ d \in Cookie
  BY <1>1, <1>2, ReadSoFar
<1>4. Transit(d) = cmd[d].count
  BY <1>1, <1>3 DEF Transit, DataPhases
<1>5. /\ cmd'[d].data_seen = cmd[d].data_seen
      /\ \A c \in Cookie \ {d} : cmd'[c] = cmd[c]
  <2>1. cmd \in [Cookie -> Command]
    BY DEF TypeInv, TypeOK, CmdType
  <2>. QED  BY <1>1, <1>3, <2>1 DEF Command
<1>6. /\ cmd[d].count \in Nat /\ cmd[d].data_seen \in Nat
      /\ Cardinality(Buffer(d)) = cmd[d].count
  BY <1>3, BufferCard
<1>7. \/ cmd'[d].data_seen > cmd[d].count
      \/ /\ cmd[d].data_seen <= cmd[d].count
         /\ cmd'[d].data_seen + Transit(d) = cmd[d].data_seen + Cardinality(Buffer(d))
         /\ cmd'[d].data_seen \in Nat /\ Transit(d) \in Nat
  BY <1>4, <1>5, <1>6, SMTT(60)
<1>. QED  BY <1>1, <1>2, <1>5, <1>7, StoreData

\* RECV_OFFSET_HOLE counts and stores zeroes in one step.
LEMMA HoleData ==
  ASSUME TypeInv, ListInv, InReply, DataInv, SameCommands, RecvOffsetHole,
         Received("RECV_OFFSET_HOLE"), ~RecvError, ~SaveAndReturn
  PROVE  DataInv'
<1>. DEFINE d == reply_cmd
            m == DataSeen(d, hdr.span)
            s == Stored(d, hdr.span)
<1>1. /\ state = "RECV_OFFSET_HOLE" /\ UNCHANGED <<listVars, told, reply_cmd>>
      /\ d # NULL
      /\ \/ /\ structured_reply_in_bounds(hdr.offset, hdr.span, d)
            /\ \E e : cmd' = [cmd EXCEPT ![d].error = e, ![d].data_seen = m]
            /\ Fill(d, s) /\ state' = "CHUNK.FINISH"
         \/ state' = "DEAD" /\ cmd' = cmd /\ cover' = cover
  BY Zenon DEF RecvOffsetHole, Received, At, SET_NEXT_STATE
<1>2. CASE state' = "DEAD" /\ cmd' = cmd /\ cover' = cover
  BY <1>1, <1>2, ErrorData DEF Inner, ReplyStates, ResumeStates, DataPhases
<1>3. CASE state' # "DEAD"
  <2>1. /\ structured_reply_in_bounds(hdr.offset, hdr.span, d)
        /\ \E e : cmd' = [cmd EXCEPT ![d].error = e, ![d].data_seen = m]
        /\ Fill(d, s) /\ state' = "CHUNK.FINISH"
    BY <1>1, <1>3, Zenon
  <2>2. state \in Inner \ Unattached /\ state' \in Inner \ DataPhases
    BY <1>1, <2>1 DEF Inner, ReplyStates, ResumeStates, Unattached, DataPhases
  <2>3. ~Stopped /\ Phase = state /\ d \in Cookie
    BY <1>1, <2>2, ReadSoFar
  <2>4. cmd[d].count \in Nat /\ cmd[d].data_seen \in Nat
    BY <2>3, BufferCard
  <2>5. hdr.span \in Nat /\ hdr.offset \in Nat
    BY DEF TypeInv, TypeOK, RecvType, Message
  <2>6. s \subseteq Buffer(d) /\ Cardinality(s) = hdr.span
    BY <2>1, <2>3, <2>5, StoredCard
  <2>7. Transit(d) = 0
    BY <1>1, <2>3 DEF Transit, DataPhases
  <2>8. /\ cmd'[d].data_seen = m
        /\ \A c \in Cookie \ {d} : cmd'[c] = cmd[c]
    BY <2>1, <2>3, CountSet, Zenon
  <2>9. \/ m > cmd[d].count
        \/ /\ cmd[d].data_seen <= cmd[d].count
           /\ m + Transit(d) = cmd[d].data_seen + Cardinality(s)
           /\ m \in Nat /\ Transit(d) \in Nat
    BY <2>4, <2>5, <2>6, <2>7, SMTT(60) DEF DataSeen
  <2>. HIDE DEF s, m
  <2>. QED  BY <1>1, <2>1, <2>2, <2>6, <2>8, <2>9, StoreData, Zenon
<1>. QED  BY <1>1, <1>2, <1>3

\* FINISH_COMMAND hands over a read that has counted what it has.
LEMMA FinishData ==
  ASSUME "1" \notin CbRet, TypeInv, ListInv, InReply, DataInv, SameCommands,
         FinishCommand
  PROVE  DataInv'
<1>1. state = "FINISH_COMMAND" /\ state' = "READY"
      /\ UNCHANGED <<rlen, reply_state, cover>>
  BY DEF FinishCommand, At, SET_NEXT_STATE
<1>2. CASE reply_cmd = NULL
  <2>1. UNCHANGED <<listVars, cmd, told>>
    BY <1>2 DEF FinishCommand
  <2>. QED  BY <1>1, <2>1, ErrorData DEF Inner, ReplyStates, ResumeStates,
                                         DataPhases, NoReceive
<1>3. CASE reply_cmd # NULL
  <2>. DEFINE d == reply_cmd
  <2>1. /\ UNCHANGED <<told, cmds_to_issue, unique>>
        /\ cmds_done' \in {cmds_done, Append(cmds_done, d)}
        /\ cmds_in_flight' = cmds_in_flight \ {d}
        /\ cmd' \in {cmd, [cmd EXCEPT ![d].error = "EUSER"]}
    BY <1>3, ZenonT(60) DEF FinishCommand
  <2>2. ~Stopped /\ Phase = state /\ d \in Cookie /\ d \in Live /\ d \in Issued
        /\ d \notin Done
    <3>1. ~Stopped /\ Phase = state /\ Phase \notin Unattached
      BY <1>1 DEF Stopped, Phase, Inner, ReplyStates, Unattached
    <3>. QED  BY <1>3, <3>1, DataCommand
  <2>3. Phase' = "NONE"
    <3>1. rlen' = 0
      BY <1>1, <2>2 DEF InReply, ResumeOK, NoReceive
    <3>. QED  BY <1>1, <3>1 DEF Phase, Inner, ReplyStates, ResumeStates
  <2>4. \A c : Transit(c) = 0 /\ Transit(c)' = 0
    BY <1>1, <2>2, <2>3 DEF Transit, DataPhases
  <2>5. Live' \subseteq Live /\ Issued' = Issued
    BY <2>1, ListFacts DEF Issued, Queued
  <2>6. Done' \subseteq Done \cup {d}
    <3>1. CASE cmds_done' = cmds_done
      BY <3>1 DEF Done
    <3>2. CASE cmds_done' = Append(cmds_done, d)
      BY <2>2, <3>2, ListFacts, AppendInj, SMTT(60)
    <3>. QED  BY <2>1, <3>1, <3>2
  <2>7. \A c \in Cookie : /\ cmd'[c].data_seen = cmd[c].data_seen
                          /\ cmd'[c].error = NoErr => cmd[c].error = NoErr
    <3>1. cmd \in [Cookie -> Command]
      BY DEF TypeInv, TypeOK, CmdType
    <3>. QED  BY <2>1, <3>1, SMTT(60) DEF Command, NoErr
  <2>8. Issued \subseteq Cookie
    BY ListFacts
  <2>9. DataFrame
    BY <1>1, <2>1, <2>2, <2>4, <2>5, <2>6, <2>7, <2>8 DEF DataFrame, SameCommands
  <2>10. InBounds' /\ NoData'
    BY <1>1, <2>1, <2>3 DEF InBounds, DataPhases, DataInv, NoData
  <2>. QED  BY <2>5, <2>9, <2>10, FrameReads DEF DataInv
<1>. QED  BY <1>2, <1>3

\* Every handler of a reply, where no callback retires its command.
LEMMA HandlerData ==
  ASSUME "1" \notin CbRet, TypeInv, ListInv, InReply, DataInv, SameCommands,
         ReplyStep \/ ChunkStep
  PROVE  DataInv'
<1>. DEFINE Sets(s) ==
       \/ s = "RECV_STRUCTURED_REMAINING" /\ RecvStructuredRemaining
       \/ s = "RECV_ERROR" /\ RecvChunkError
       \/ s = "RECV_ERROR_MESSAGE" /\ RecvErrorMessage
       \/ s = "RECV_ERROR_TAIL" /\ RecvErrorTail
       \/ s = "RECV_BS_HEADER" /\ RecvBsHeader
       \/ s = "RECV_BS_ENTRIES" /\ RecvBsEntries
       \/ s = "RESYNC" /\ ResyncPayload
            Data(s) ==
       \/ s = "RECV_READ_PAYLOAD" /\ RecvReadPayload
       \/ s = "RECV_OFFSET_DATA" /\ RecvOffsetData
       \/ s = "RECV_OFFSET_DATA_DATA" /\ RecvOffsetDataData
       \/ s = "RECV_OFFSET_HOLE" /\ RecvOffsetHole
<1>1. CASE \E s \in ResumeStates : Sets(s) \/ Data(s)
  <2>1. PICK s \in ResumeStates : Sets(s) \/ Data(s)
    BY <1>1
  <2>2. (At(s) /\ (RecvError \/ SaveAndReturn)) \/ Received(s)
    BY <2>1, ZenonT(60)
       DEF RecvStructuredRemaining, RecvReadPayload, RecvChunkError,
           RecvErrorMessage, RecvErrorTail, RecvOffsetData, RecvOffsetDataData,
           RecvOffsetHole, RecvBsHeader, RecvBsEntries, ResyncPayload
  <2>3. At(s)
    BY <2>2 DEF Received
  <2>4. CASE RecvError \/ SaveAndReturn
    BY <2>3, <2>4, SaveData
  <2>5. CASE ~RecvError /\ ~SaveAndReturn /\ Sets(s)
    BY <2>2, <2>5, ChunkErrorData, Zenon
  <2>6. CASE ~RecvError /\ ~SaveAndReturn /\ Data(s)
    BY <2>2, <2>6, ReadPayloadData, OffsetData, OffsetDataData, HoleData, Zenon
  <2>. QED  BY <2>1, <2>4, <2>5, <2>6
<1>2. CASE ~\E s \in ResumeStates : Sets(s) \/ Data(s)
  <2>1. \/ ReplyStart \/ RecvReply \/ CheckReplyMagic \/ SimpleStart
        \/ FinishCommand \/ ChunkStart \/ ChunkFinish
    BY <1>2 DEF ReplyStep, ChunkStep, ResumeStates
  <2>. QED  BY <2>1, HeaderData, SimpleData, FinishData, ChunkEndsData
<1>. QED  BY <1>1, <1>2

(***************************************************************************)
(* DataInv is inductive.                                                   *)
(***************************************************************************)

\* DataInv is inductive.
LEMMA NextData ==
  ASSUME "1" \notin CbRet
  PROVE  TypeInv /\ ListInv /\ DiscWaits /\ SendInv /\ RecvInv /\ DataInv /\ [Next]_vars
           => DataInv'
<1>. SUFFICES ASSUME TypeInv, ListInv, DiscWaits, SendInv, RecvInv, DataInv,
                     [Next]_vars
              PROVE  DataInv'
  OBVIOUS
<1>1. InReply /\ ListStep /\ (Stopped => Stopped')
  BY NextListStep, StaysStopped DEF RecvInv
<1>2. CASE ReplyStep \/ ChunkStep
  BY <1>1, <1>2, ReplyFrame, HandlerData DEF ReplyKeeps
<1>3. CASE IssueStep
  BY <1>1, <1>3, IssueData
<1>4. CASE Ready \/ Dead \/ Closed
  BY <1>1, <1>4, TopData
<1>5. CASE Server
  BY <1>1, <1>5, ServerData
<1>6. CASE ApiStep
  BY <1>1, <1>6, ApiData
<1>7. CASE UNCHANGED vars
  <2>1. UNCHANGED <<state, listVars, cmd, recvVars, told, cover>>
    BY <1>7 DEF vars, runVars, histVars
  <2>2. Live' = Live /\ Done' = Done
    BY <2>1 DEF listVars, Live, Queued, Done
  <2>. QED  BY <1>1, <2>1, <2>2, QuietData DEF listVars
<1>. QED  BY <1>2, <1>3, <1>4, <1>5, <1>6, <1>7 DEF Next, Engine

\* Nothing has been stored.
LEMMA InitData == Init => DataInv
<1>. SUFFICES ASSUME Init PROVE DataInv
  OBVIOUS
<1>1. state = "READY" /\ rlen = 0 /\ unique = 1
      /\ cover = [c \in Cookie |-> [bytes |-> {}, again |-> FALSE]]
  BY DEF Init
<1>2. Phase = "NONE"
  BY <1>1 DEF Phase, Inner, ReplyStates, ResumeStates
<1>3. Issued = {}
  BY <1>1 DEF Issued
<1>. QED  BY <1>1, <1>2, <1>3 DEF DataInv, InBounds, NoData, DataPhases
=============================================================================
