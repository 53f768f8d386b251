---------------------------- MODULE CommandLists ----------------------------
(***************************************************************************)
(* The three lists of a handle: every step keeps ListInv and EndInv, and   *)
(* is a step of CommandLifecycle or a stuttering step.                     *)
(***************************************************************************)
EXTENDS TransmissionFacts, Lifecycle, FiniteSetTheorems

\* A step is tried with Zenon for three seconds, then with the solver.
USE ZenonT(3), SMTT(30), SMTT(60)

(***************************************************************************)
(* Steps that move no command.                                             *)
(***************************************************************************)

\* Only nbd_close frees a handle, and nothing revives it.
StaysFreed == state = "FREED" => state' = "FREED"

\* A step that leaves the lists and what was reported alone.
LEMMA ListsKept ==
  ASSUME TypeInv, ListInv, UNCHANGED <<listVars, calls, told>>, SameCommands,
         StaysFreed
  PROVE  ListInv'
<1>1. /\ Queued' = Queued /\ Done' = Done /\ Live' = Live /\ Issued' = Issued
      /\ UNCHANGED <<cmds_to_issue, cmds_in_flight, cmds_done, unique,
                     disconnect_request, calls, told>>
  BY DEF listVars, Queued, Done, Live, Issued
<1>. USE <1>1
<1>2. unique - 1 <= MaxCmds /\ Issued \subseteq Cookie
  BY HandleAssumption, SMTT(60) DEF TypeInv, TypeOK, ListType, Issued, Cookie
<1>. USE <1>2
<1>3. OneList'
  BY SMTT(60) DEF ListInv, OneList, SameCommands, StaysFreed, Issued
<1>4. CompletionOnceWhileOpen'
  BY DEF ListInv, CompletionOnceWhileOpen, CompletionOnce, SameCommands,
         StaysFreed, Issued
<1>5. DiscIsLast'
  <2>1. \A i \in 1..Len(cmds_to_issue) : cmds_to_issue[i] \in Cookie
    BY DEF TypeInv, TypeOK, ListType
  <2>. QED  BY <2>1 DEF ListInv, DiscIsLast, SameCommands
<1>6. OnlyIssued' /\ NoHistory' /\ DiscAsked'
  BY DEF ListInv, OnlyIssued, NoHistory, DiscAsked, SameCommands
<1>. QED  BY <1>3, <1>4, <1>5, <1>6 DEF ListInv

(***************************************************************************)
(* Steps that complete commands.                                           *)
(***************************************************************************)

\* The commands of set G leave cmds_to_issue and cmds_in_flight, those of K
\* for cmds_done; each callback runs once and the user is told of the others.
Completes(G, K) ==
  /\ SameCommands /\ StaysFreed /\ UNCHANGED <<unique, disconnect_request>>
  /\ Live' = Live \ G /\ Queued' \cap cmds_in_flight' = {}
  /\ Done' = Done \cup K
  /\ Inj(cmds_to_issue') /\ Inj(cmds_done') /\ DiscIsLast'
  /\ \A c \in K : cmd[c].type # "DISC"
  /\ \A c \in Cookie :
       /\ told'[c] = "none"
            <=> told[c] = "none" /\ ~(c \in G \ K /\ cmd[c].type # "DISC")
       /\ calls'[c] = IF c \in G /\ cmd[c].completion
                      THEN calls[c] + 1 ELSE calls[c]

\* Commands that end together, by FINISH_COMMAND or nbd_internal_abort_commands.
LEMMA CompletesInv ==
  ASSUME TypeInv, ListInv, NEW G \in SUBSET Live, NEW K \in SUBSET G,
         Completes(G, K)
  PROVE  ListInv'
<1>1. unique' = unique /\ Issued' = Issued /\ Issued \subseteq Cookie
  BY HandleAssumption, SMTT(60)
     DEF TypeInv, TypeOK, ListType, Issued, Cookie, Completes
<1>2. Live \subseteq Issued /\ Done \subseteq Issued /\ Live \cap Done = {}
  BY DEF ListInv, OnlyIssued, OneList
<1>3. Live' \cap Done' = {}
  BY <1>2 DEF Completes
<1>4. OneList'
  <2>1. ASSUME state' # "FREED", NEW c \in Issued
        PROVE  c \in Live' \cup Done'
               <=> told'[c] = "none" /\ (cmd'[c].type = "DISC" => c \in Live')
    <3>1. c \in Live \cup Done
          <=> told[c] = "none" /\ (cmd[c].type = "DISC" => c \in Live)
      BY <2>1 DEF ListInv, OneList, Completes, StaysFreed, Issued
    <3>2. c \in Cookie /\ cmd'[c].type = cmd[c].type
      BY <1>1 DEF Completes, SameCommands
    <3>3. CASE c \in G
      BY <1>2, <1>3, <3>1, <3>2, <3>3 DEF Completes
    <3>4. CASE c \notin G
      BY <1>2, <1>3, <3>1, <3>2, <3>4 DEF Completes
    <3>. QED  BY <3>3, <3>4
  <2>2. /\ \A i, j \in 1..Len(cmds_to_issue') :
             cmds_to_issue'[i] = cmds_to_issue'[j] => i = j
        /\ \A i, j \in 1..Len(cmds_done') :
             cmds_done'[i] = cmds_done'[j] => i = j
        /\ Queued' \cap cmds_in_flight' = {}
    BY DEF Completes, Inj
  <2>. QED  BY <1>1, <1>3, <2>1, <2>2 DEF OneList, Issued
<1>5. CompletionOnceWhileOpen'
  <2>. SUFFICES ASSUME state' # "FREED", NEW c \in Issued, cmd'[c].completion
                PROVE  calls'[c] = IF c \in Live' THEN 0 ELSE 1
    BY <1>1 DEF CompletionOnceWhileOpen, CompletionOnce, Issued
  <2>1. c \in Cookie /\ cmd[c].completion
    BY <1>1 DEF Completes, SameCommands
  <2>2. calls[c] = IF c \in Live THEN 0 ELSE 1
    BY <2>1 DEF ListInv, CompletionOnceWhileOpen, CompletionOnce, Completes,
                StaysFreed, Issued
  <2>. QED  BY <2>1, <2>2, SMTT(60) DEF Completes
<1>6. OnlyIssued'
  BY <1>1, <1>2 DEF OnlyIssued, Completes
<1>7. NoHistory'
  <2>1. \A c \in Cookie : c >= unique => c \notin G
    BY <1>2 DEF Issued, Cookie, TypeInv, TypeOK, ListType
  <2>. QED  BY <1>1, <2>1 DEF ListInv, NoHistory, Completes
<1>8. DiscAsked'
  BY <1>1 DEF ListInv, DiscAsked, Completes, SameCommands
<1>. QED  BY <1>4, <1>5, <1>6, <1>7, <1>8 DEF ListInv, Completes

(***************************************************************************)
(* Sending.                                                                *)
(***************************************************************************)

\* The handlers of states-issue-command.c.
LEMMA IssueLists ==
  ASSUME TypeInv, ListInv, IssueStep
  PROVE  ListInv'
<1>1. CASE IssueFinish
  <2>1. /\ cmds_to_issue # <<>> /\ Head(cmds_to_issue) = req
        /\ cmds_to_issue' = Tail(cmds_to_issue)
        /\ cmds_in_flight' = cmds_in_flight \cup {req}
        /\ UNCHANGED <<cmds_done, unique, disconnect_request, cmd, calls, told>>
        /\ state # "FREED"
    BY <1>1 DEF IssueFinish, FlightAfterIssue, At, histVars
  <2>. USE <2>1
  <2>2. /\ Inj(cmds_to_issue') /\ Queued' = Queued \ {req} /\ req \in Queued
    BY ListFacts, TailInj
  <2>3. /\ Live' = Live /\ Queued' \cap cmds_in_flight' = {}
        /\ Done' = Done /\ Inj(cmds_done')
    <3>1. /\ Live = Queued \cup cmds_in_flight
          /\ Live' = Queued' \cup cmds_in_flight'
          /\ Queued \cap cmds_in_flight = {}
      BY ListFacts
    <3>2. Live' = Live /\ Queued' \cap cmds_in_flight' = {}
      BY <2>2, <3>1
    <3>3. Done' = Done /\ Inj(cmds_done')
      BY ListFacts
    <3>. QED  BY <3>2, <3>3
  <2>4. DiscIsLast'
    <3>1. /\ Len(cmds_to_issue) \in Nat /\ Len(cmds_to_issue) > 0
          /\ Len(cmds_to_issue') = Len(cmds_to_issue) - 1
          /\ \A i \in 1..(Len(cmds_to_issue) - 1) :
               cmds_to_issue'[i] = cmds_to_issue[i + 1]
      BY ListFacts, SMTT(60)
    <3>. USE <3>1
    <3>. SUFFICES ASSUME NEW i \in 1..Len(cmds_to_issue'),
                         cmd[cmds_to_issue'[i]].type = "DISC"
                  PROVE  i = Len(cmds_to_issue')
      BY DEF DiscIsLast
    <3>2. i + 1 \in 1..Len(cmds_to_issue) /\ i \in Nat
      BY SMTT(60)
    <3>3. i + 1 = Len(cmds_to_issue)
      BY <3>2 DEF ListInv, DiscIsLast
    <3>. QED  BY <3>2, <3>3, SMTT(60)
  <2>5. Completes({}, {})
    BY <2>3, <2>4, <2>2 DEF Completes, SameCommands, StaysFreed
  <2>. QED  BY <2>5, CompletesInv
<1>2. CASE ~IssueFinish
  <2>1. UNCHANGED <<listVars, calls, told, cmd>> /\ state # "FREED"
    <3>1. CASE IssueStart \/ PrepareWritePayload
      BY <3>1 DEF IssueStart, PrepareWritePayload, At, histVars
    <3>2. CASE SendRequest \/ SendWritePayload
      BY <3>2 DEF SendRequest, SendWritePayload, SendThen, SendError, At,
                  histVars
    <3>3. CASE \/ PauseSendRequest \/ PauseWritePayload \/ SendWriteShutdown
               \/ PauseWriteShutdown
      BY <3>3 DEF PauseSendRequest, PauseWritePayload, SendWriteShutdown,
                  PauseWriteShutdown, At, histVars
    <3>. QED  BY <1>2, <3>1, <3>2, <3>3 DEF IssueStep
  <2>. QED  BY <2>1, ListsKept DEF SameCommands, StaysFreed
<1>. QED  BY <1>1, <1>2

(***************************************************************************)
(* Receiving.                                                              *)
(***************************************************************************)

\* FINISH_COMMAND: the command in flight is retired or appended to cmds_done.
LEMMA FinishLists ==
  ASSUME TypeInv, ListInv, FinishCommand
  PROVE  ListInv'
<1>1. CASE reply_cmd = NULL
  BY <1>1, ListsKept DEF FinishCommand, SameCommands, StaysFreed, At
<1>2. CASE reply_cmd # NULL
  <2>. DEFINE c == reply_cmd
  <2>1. PICK r \in CbRet :
          LET retire == \/ cmd[c].type = "DISC"
                        \/ cmd[c].completion /\ r = "1"
              fails  == cmd[c].completion /\ r = "-1"
          IN  /\ cmd' = IF fails THEN [cmd EXCEPT ![c].error = "EUSER"] ELSE cmd
              /\ calls' = IF cmd[c].completion
                          THEN [calls EXCEPT ![c] = @ + 1] ELSE calls
              /\ told' = IF retire /\ cmd[c].type # "DISC"
                         THEN [told EXCEPT ![c] =
                                 IF cmd[c].error = NoErr THEN "ok" ELSE "failed"]
                         ELSE told
              /\ cmds_done' = IF retire THEN cmds_done ELSE Append(cmds_done, c)
              /\ cmds_in_flight' = cmds_in_flight \ {c}
    BY <1>2, Zenon DEF FinishCommand
  <2>2. /\ c \in cmds_in_flight /\ state # "FREED"
        /\ UNCHANGED <<cmds_to_issue, unique, disconnect_request>>
    BY <1>2 DEF FinishCommand, Lookup, At
  <2>. DEFINE K == IF \/ cmd[c].type = "DISC"
                      \/ cmd[c].completion /\ r = "1"
                   THEN {} ELSE {c}
  <2>3. SameCommands
    BY <2>1, FieldsSet, Zenon DEF TypeInv, TypeOK
  <2>4. /\ Live' = Live \ {c} /\ Queued' \cap cmds_in_flight' = {}
        /\ Inj(cmds_to_issue') /\ c \in Live /\ c \in Cookie /\ c \notin Done
    <3>1. c \in Live /\ c \in Cookie /\ c \notin Done /\ c \notin Queued
      BY <2>2, ListFacts
    <3>2. Queued' = Queued /\ Inj(cmds_to_issue')
      BY <2>2, ListFacts
    <3>3. cmds_in_flight' = cmds_in_flight \ {c}
      BY <2>1
    <3>4. Live' = Live \ {c} /\ Queued' \cap cmds_in_flight' = {}
      BY <3>1, <3>2, <3>3, ListFacts
    <3>. QED  BY <3>1, <3>2, <3>4
  <2>. USE <2>4
  <2>5. Done' = Done \cup K /\ Inj(cmds_done')
    BY <2>1, ListFacts, AppendInj, SMTT(60)
  <2>6. DiscIsLast'
    <3>1. \A i \in 1..Len(cmds_to_issue) : cmds_to_issue[i] \in Cookie
      BY ListFacts, SMTT(60)
    <3>. QED  BY <2>2, <2>3, <3>1 DEF ListInv, DiscIsLast, SameCommands
  <2>7. \A d \in Cookie :
          /\ told'[d] = "none"
               <=> told[d] = "none" /\ ~(d \in {c} \ K /\ cmd[d].type # "DISC")
          /\ calls'[d] = IF d \in {c} /\ cmd[d].completion
                         THEN calls[d] + 1 ELSE calls[d]
    BY <2>1 DEF TypeInv, TypeOK, HistType
  <2>8. \A d \in K : cmd[d].type # "DISC"
    OBVIOUS
  <2>. HIDE DEF K
  <2>9. Completes({c}, K)
    BY <2>2, <2>3, <2>5, <2>6, <2>7, <2>8 DEF Completes, StaysFreed
  <2>10. K \in SUBSET {c}
    BY DEF K
  <2>. QED  BY <2>9, <2>10, CompletesInv
<1>. QED  BY <1>1, <1>2

\* The other handlers of generator/states-reply.c and states-reply-simple.c.
LEMMA ReplyLists ==
  ASSUME TypeInv, ListInv, ReplyStep
  PROVE  ListInv'
<1>1. CASE FinishCommand
  BY <1>1, FinishLists
<1>2. CASE ~FinishCommand
  <2>1. UNCHANGED <<listVars, calls, told>> /\ state # "FREED" /\ SameCommands
    <3>1. CASE ReplyStart \/ CheckReplyMagic
      BY <3>1 DEF ReplyStart, CheckReplyMagic, At, histVars, SameCommands
    <3>2. CASE RecvReply
      BY <3>2 DEF RecvReply, RecvError, At, histVars, SameCommands
    <3>3. CASE RecvStructuredRemaining
      BY <3>3 DEF RecvStructuredRemaining, RecvError, SaveAndReturn, Received,
                  At, histVars, SameCommands
    <3>4. CASE SimpleStart
      <4>1. /\ UNCHANGED <<listVars, calls, told>> /\ state # "FREED"
            /\ \E e, n : \/ cmd' = cmd
                         \/ cmd' = [cmd EXCEPT ![reply_cmd].error = e]
                         \/ cmd' = [cmd EXCEPT ![reply_cmd].error = e,
                                               ![reply_cmd].data_seen = n]
        BY <3>4, ZenonT(60) DEF SimpleStart, At, histVars
      <4>. QED  BY <4>1, FieldsSet DEF TypeInv, TypeOK
    <3>5. CASE RecvReadPayload
      <4>1. /\ UNCHANGED <<listVars, calls, told>> /\ state # "FREED"
            /\ \E e : cmd' = cmd \/ cmd' = [cmd EXCEPT ![reply_cmd].error = e]
        BY <3>5, Zenon DEF RecvReadPayload, RecvError, SaveAndReturn, Received,
                           At, histVars
      <4>. QED  BY <4>1, FieldsSet, Zenon DEF TypeInv, TypeOK
    <3>. QED  BY <1>2, <3>1, <3>2, <3>3, <3>4, <3>5 DEF ReplyStep
  <2>. QED  BY <2>1, ListsKept DEF StaysFreed
<1>. QED  BY <1>1, <1>2

\* The handlers of generator/states-reply-chunk.c.
LEMMA ChunkLists ==
  ASSUME TypeInv, ListInv, ChunkStep
  PROVE  ListInv'
<1>1. ASSUME /\ UNCHANGED <<listVars, calls, told>> /\ state # "FREED"
             /\ \E e, n :
                  \/ cmd' = cmd
                  \/ cmd' = [cmd EXCEPT ![reply_cmd].error = e]
                  \/ cmd' = [cmd EXCEPT ![reply_cmd].data_seen = n]
                  \/ cmd' = [cmd EXCEPT ![reply_cmd].error = e,
                                        ![reply_cmd].data_seen = n]
      PROVE  ListInv'
  <2>1. SameCommands
    BY <1>1, FieldsSet DEF TypeInv, TypeOK
  <2>. QED  BY <1>1, <2>1, ListsKept DEF StaysFreed
<1>. USE <1>1
<1>. USE DEF At, histVars, RecvError, SaveAndReturn, Received
<1>2. CASE ChunkStart
  BY <1>2, Zenon DEF ChunkStart
<1>3. CASE RecvChunkError \/ RecvErrorMessage \/ RecvErrorTail
  BY <1>3, Zenon DEF RecvChunkError, RecvErrorMessage, RecvErrorTail
<1>4. CASE RecvOffsetData \/ RecvOffsetDataData
  BY <1>4, Zenon DEF RecvOffsetData, RecvOffsetDataData
<1>5. CASE RecvOffsetHole
  BY <1>5, Zenon DEF RecvOffsetHole
<1>6. CASE RecvBsHeader \/ RecvBsEntries
  BY <1>6, Zenon DEF RecvBsHeader, RecvBsEntries
<1>7. CASE ResyncPayload \/ ChunkFinish
  BY <1>7, Zenon DEF ResyncPayload, ChunkFinish
<1>. QED  BY <1>2, <1>3, <1>4, <1>5, <1>6, <1>7 DEF ChunkStep

(***************************************************************************)
(* generator/states.c: READY, DEAD and CLOSED.                             *)
(***************************************************************************)

\* READY, DEAD and CLOSED.
LEMMA TopLists ==
  ASSUME TypeInv, ListInv, Ready \/ Dead \/ Closed
  PROVE  ListInv'
<1>1. CASE Ready
  BY <1>1, ListsKept DEF Ready, SameCommands, StaysFreed, At, histVars
<1>2. ASSUME NEW s \in {"DEAD", "CLOSED"}, Terminal(s)
      PROVE  ListInv'
  <2>1. /\ nbd_internal_abort_commands(Live)
        /\ cmds_to_issue' = <<>> /\ cmds_in_flight' = {}
        /\ UNCHANGED <<unique, disconnect_request>> /\ state # "FREED"
    BY <1>2 DEF Terminal, Live, At
  <2>. USE <2>1
  <2>2. PICK K \in SUBSET Live :
          /\ SameCommands
          /\ Inj(cmds_done') /\ Done' = Done \cup K
          /\ \A c \in K : cmd[c].type # "DISC"
          /\ \A c \in Cookie :
               /\ told'[c] = "none"
                    <=> told[c] = "none"
                        /\ ~(c \in Live \ K /\ cmd[c].type # "DISC")
               /\ calls'[c] = IF c \in Live /\ cmd[c].completion
                              THEN calls[c] + 1 ELSE calls[c]
    BY AbortLists
  <2>3. /\ Queued' = {} /\ Live' = Live \ Live
        /\ Queued' \cap cmds_in_flight' = {} /\ Inj(cmds_to_issue')
    BY ListFacts, ShortSeqs
  <2>4. DiscIsLast'
    BY DEF DiscIsLast
  <2>5. Completes(Live, K)
    BY <2>2, <2>3, <2>4 DEF Completes, StaysFreed
  <2>. QED  BY <2>5, CompletesInv
<1>. QED  BY <1>1, <1>2 DEF Dead, Closed

(***************************************************************************)
(* The calls.                                                              *)
(***************************************************************************)

\* nbd_internal_command_common: the new command goes to the back of the queue.
\* Either it is NBD_CMD_DISC and the caller sets h->disconnect_request, or it
\* is not.
LEMMA CommonLists ==
  ASSUME TypeInv, ListInv, NEW t \in Template, nbd_internal_command_common(t),
         unique <= MaxCmds,
         \/ t.type = "DISC" /\ disconnect_request' = TRUE
         \/ t.type # "DISC" /\ UNCHANGED disconnect_request
  PROVE  ListInv'
<1>1. /\ cmd' = [cmd EXCEPT ![unique] = MkCommand(t)] /\ unique' = unique + 1
      /\ cmds_to_issue' = Append(cmds_to_issue, unique)
      /\ UNCHANGED <<cmds_in_flight, cmds_done, calls, told>>
      /\ StaysFreed /\ ~disconnect_request
  BY DEF nbd_internal_command_common, histVars, StaysFreed, Accepting,
         is_state_ready
<1>. USE <1>1
<1>2. unique \in Cookie /\ unique \notin Issued /\ Issued' = Issued \cup {unique}
  BY ListFacts, SMTT(60) DEF Issued, Cookie
<1>3. /\ Inj(cmds_to_issue') /\ Queued' = Queued \cup {unique}
      /\ Done' = Done /\ Live' = Live \cup {unique}
      /\ unique \notin Live /\ unique \notin Done
  BY <1>2, ListFacts, AppendInj, SMTT(60)
<1>4. /\ cmd'[unique].type = t.type
      /\ \A c \in Cookie : c # unique => cmd'[c] = cmd[c]
  BY <1>2 DEF TypeInv, TypeOK, CmdType, MkCommand
<1>5. told[unique] = "none" /\ calls[unique] = 0
  BY <1>2 DEF ListInv, NoHistory, Cookie
<1>6. OneList'
  <2>1. ASSUME state' # "FREED", NEW c \in Issued'
        PROVE  c \in Live' \cup Done'
               <=> told'[c] = "none" /\ (cmd'[c].type = "DISC" => c \in Live')
    <3>1. CASE c = unique
      BY <1>3, <1>5, <3>1
    <3>2. CASE c # unique
      <4>1. c \in Issued /\ c \in Cookie
        BY <1>2, <3>2, ListFacts
      <4>2. c \in Live \cup Done
            <=> told[c] = "none" /\ (cmd[c].type = "DISC" => c \in Live)
        BY <2>1, <4>1 DEF ListInv, OneList, StaysFreed, Issued
      <4>. QED  BY <1>3, <1>4, <3>2, <4>1, <4>2
    <3>. QED  BY <3>1, <3>2
  <2>2. /\ Queued' \cap cmds_in_flight' = {} /\ Live' \cap Done' = {}
        /\ Inj(cmds_done')
    BY <1>3, ListFacts, SMTT(60)
  <2>. QED  BY <1>3, <2>1, <2>2 DEF OneList, Inj, Issued
<1>7. CompletionOnceWhileOpen'
  <2>. SUFFICES ASSUME state' # "FREED", NEW c \in Issued', cmd'[c].completion
                PROVE  calls'[c] = IF c \in Live' THEN 0 ELSE 1
    BY DEF CompletionOnceWhileOpen, CompletionOnce, Issued
  <2>1. CASE c = unique
    BY <1>3, <1>5, <2>1
  <2>2. CASE c # unique
    <3>1. c \in Issued /\ c \in Cookie /\ cmd[c].completion
      BY <1>2, <1>4, <2>2, ListFacts
    <3>2. calls[c] = IF c \in Live THEN 0 ELSE 1
      BY <3>1 DEF ListInv, CompletionOnceWhileOpen, CompletionOnce, StaysFreed,
             Issued
    <3>. QED  BY <1>3, <2>2, <3>2
  <2>. QED  BY <2>1, <2>2
<1>8. \A c \in Issued : cmd[c].type # "DISC"
  BY DEF ListInv, DiscAsked
<1>9. DiscIsLast'
  <2>. SUFFICES ASSUME NEW i \in 1..Len(cmds_to_issue'),
                       i # Len(cmds_to_issue')
                PROVE  cmd'[cmds_to_issue'[i]].type # "DISC"
    BY DEF DiscIsLast
  <2>1. i \in 1..Len(cmds_to_issue) /\ cmds_to_issue'[i] = cmds_to_issue[i]
    BY <1>2, ListFacts, SMTT(60)
  <2>2. cmds_to_issue[i] \in Issued
    BY <2>1, ListFacts DEF Rng
  <2>. QED  BY <1>2, <1>4, <1>8, <2>1, <2>2, ListFacts
<1>10. OnlyIssued'
  BY <1>2, <1>3, ListFacts DEF OnlyIssued
<1>11. NoHistory'
  BY ListFacts, SMTT(60) DEF ListInv, NoHistory, Cookie
<1>12. DiscAsked'
  BY <1>2, <1>4, <1>8, ListFacts DEF DiscAsked
<1>. QED  BY <1>6, <1>7, <1>9, <1>10, <1>11, <1>12 DEF ListInv

\* nbd_aio_command_completed: the user is told of a command, which is gone.
LEMMA CompletedLists ==
  ASSUME TypeInv, ListInv, NEW d, nbd_unlocked_aio_command_completed(d)
  PROVE  ListInv'
<1>1. PICK i \in 1..Len(cmds_done) :
        /\ cmds_done[i] = d
        /\ cmds_done' = [j \in 1..(Len(cmds_done) - 1) |->
                           IF j < i THEN cmds_done[j] ELSE cmds_done[j + 1]]
        /\ told' = [told EXCEPT ![d] = IF Success(d) THEN "ok" ELSE "failed"]
        /\ UNCHANGED <<state, cmds_to_issue, cmds_in_flight, unique,
                       disconnect_request, cmd, calls>>
  BY DEF nbd_unlocked_aio_command_completed
<1>. USE <1>1
<1>2. Inj(cmds_done') /\ Done' = Done \ {d} /\ d \in Done
  <2>1. Inj(cmds_done') /\ Rng(cmds_done') = Rng(cmds_done) \ {cmds_done[i]}
    <3>1. cmds_done \in Seq(Cookie) /\ Inj(cmds_done)
      BY ListFacts
    <3>2. cmds_done' = [j \in 1..(Len(cmds_done) - 1) |->
                          IF j < i THEN cmds_done[j] ELSE cmds_done[j + 1]]
      OBVIOUS
    <3>. QED  BY <3>1, <3>2, RemoveInj, Zenon
  <2>2. d \in Rng(cmds_done)
    BY DEF Rng
  <2>. QED  BY <2>1, <2>2, ListFacts, Zenon
<1>. USE <1>2
<1>3. Queued' = Queued /\ Live' = Live /\ Issued' = Issued
  BY ListFacts, Zenon DEF Issued
<1>. USE <1>3
<1>4. /\ d \in Cookie /\ d \notin Live /\ told'[d] # "none"
      /\ \A c \in Cookie : c # d => told'[c] = told[c]
  BY ListFacts DEF TypeInv, TypeOK, HistType
<1>5. OneList'
  <2>1. ASSUME state' # "FREED", NEW c \in Issued
        PROVE  c \in Live' \cup Done'
               <=> told'[c] = "none" /\ (cmd'[c].type = "DISC" => c \in Live')
    <3>1. c \in Live \cup Done
          <=> told[c] = "none" /\ (cmd[c].type = "DISC" => c \in Live)
      BY <2>1 DEF ListInv, OneList, Issued
    <3>. QED  BY <1>4, <3>1, ListFacts
  <2>2. /\ Queued' \cap cmds_in_flight' = {} /\ Live' \cap Done' = {}
        /\ Inj(cmds_to_issue')
    BY ListFacts
  <2>. QED  BY <2>1, <2>2, Zenon DEF OneList, Inj, Issued
<1>6. CompletionOnceWhileOpen'
  BY DEF ListInv, CompletionOnceWhileOpen, CompletionOnce
<1>7. DiscIsLast'
  BY DEF ListInv, DiscIsLast
<1>8. OnlyIssued'
  BY DEF ListInv, OnlyIssued
<1>9. NoHistory'
  BY <1>4, ListFacts, SMTT(60) DEF ListInv, NoHistory, Issued, Cookie
<1>10. DiscAsked'
  BY DEF ListInv, DiscAsked
<1>. QED  BY <1>5, <1>6, <1>7, <1>8, <1>9, <1>10 DEF ListInv

\* nbd_shutdown with the flag that abandons what has not been sent.
LEMMA ShutdownLists ==
  ASSUME TypeInv, ListInv, NEW f \in ShutdownFlags, Shutdown(f)
  PROVE  ListInv'
<1>1. CASE UNCHANGED <<listVars, cmd, histVars>>
  BY <1>1, ListsKept DEF Shutdown, SameCommands, StaysFreed, histVars
<1>2. CASE /\ is_state_ready \/ cmds_to_issue # <<>>
           /\ nbd_internal_abort_commands(Abandoned)
           /\ cmds_to_issue' = KeptQueue
           /\ UNCHANGED <<cmds_in_flight, unique, disconnect_request>>
  <2>. USE <1>2
  <2>1. /\ Abandoned \in SUBSET Queued /\ Inj(cmds_to_issue')
        /\ Queued' = Queued \ Abandoned
    <3>1. CASE is_state_ready
      BY <3>1, ShortSeqs, ListFacts DEF Abandoned, KeptQueue
    <3>2. CASE ~is_state_ready
      <4>1. Head(cmds_to_issue) \in Queued
        BY <3>2, ListFacts, TailInj
      <4>. QED  BY <3>2, <4>1, ShortSeqs, ListFacts, SMTT(60) DEF Abandoned, KeptQueue
    <3>. QED  BY <3>1, <3>2
  <2>2. PICK K \in SUBSET Abandoned :
          /\ SameCommands
          /\ Inj(cmds_done') /\ Done' = Done \cup K
          /\ \A c \in K : cmd[c].type # "DISC"
          /\ \A c \in Cookie :
               /\ told'[c] = "none"
                    <=> told[c] = "none"
                        /\ ~(c \in Abandoned \ K /\ cmd[c].type # "DISC")
               /\ calls'[c] = IF c \in Abandoned /\ cmd[c].completion
                              THEN calls[c] + 1 ELSE calls[c]
    <3>1. Abandoned \in SUBSET Live
      BY <2>1, ListFacts
    <3>. QED  BY <3>1, AbortLists
  <2>3. Live' = Live \ Abandoned /\ Queued' \cap cmds_in_flight' = {}
    BY <2>1, ListFacts
  <2>4. DiscIsLast'
    <3>1. cmds_to_issue' = <<>> \/ \E x : cmds_to_issue' = <<x>>
      BY DEF KeptQueue
    <3>2. \A i \in 1..Len(cmds_to_issue') : i = Len(cmds_to_issue')
      <4>1. CASE cmds_to_issue' = <<>>
        BY <4>1
      <4>2. ASSUME NEW x, cmds_to_issue' = <<x>>
            PROVE  \A i \in 1..Len(cmds_to_issue') : i = Len(cmds_to_issue')
        BY <4>2
      <4>. QED  BY <3>1, <4>1, <4>2
    <3>. QED  BY <3>2 DEF DiscIsLast
  <2>5. StaysFreed
    BY DEF Shutdown, StaysFreed
  <2>6. Completes(Abandoned, K)
    BY <2>1, <2>2, <2>3, <2>4, <2>5, ZenonT(60) DEF Completes
  <2>. QED  BY <2>1, <2>6, ListFacts, CompletesInv
<1>. QED  BY <1>1, <1>2 DEF Shutdown

\* The calls of lib/rw.c, lib/aio.c, lib/disconnect.c and nbd_close.
LEMMA ApiLists ==
  ASSUME TypeInv, ListInv, ApiStep
  PROVE  ListInv'
<1>1. CASE \E t \in Templates : AioCommand(t) \/ SyncCommand(t)
  <2>1. PICK t \in Templates :
          /\ unique < MaxCmds /\ nbd_internal_command_common(t)
          /\ UNCHANGED disconnect_request
    BY <1>1 DEF AioCommand, SyncCommand
  <2>2. t \in Template /\ t.type # "DISC"
    BY HandleAssumption
  <2>3. unique <= MaxCmds
    BY <2>1, ListFacts, SMTT(60)
  <2>. QED  BY <2>1, <2>2, <2>3, CommonLists, Zenon
<1>2. CASE AioDisconnect \/ ShutdownDisconnect
  <2>1. CASE UNCHANGED <<state, listVars, cmd, histVars>>
    BY <2>1, ListsKept DEF SameCommands, StaysFreed, histVars
  <2>2. CASE nbd_internal_command_common(DiscTemplate)
             /\ disconnect_request' = TRUE
    <3>1. unique <= MaxCmds
      BY <2>2 DEF nbd_internal_command_common, Accepting, TypeInv, CookieLeft
    <3>2. DiscTemplate.type = "DISC"
      BY DEF DiscTemplate
    <3>. QED  BY <2>2, <3>1, <3>2, DiscTemplateType, CommonLists, Zenon
  <2>. QED  BY <1>2, <2>1, <2>2, Zenon DEF AioDisconnect, ShutdownDisconnect
<1>3. CASE \E c \in Cookie : CommandCompleted(c)
  BY <1>3, CompletedLists DEF CommandCompleted
<1>4. CASE \E f \in ShutdownFlags : Shutdown(f)
  BY <1>4, ShutdownLists
<1>5. CASE \/ ShutdownReturn \/ PollError \/ NotifyRead \/ NotifyWrite
  BY <1>5, ListsKept DEF ShutdownReturn, PollError, NotifyRead, NotifyWrite,
                         Polling, SameCommands, StaysFreed, histVars
<1>6. CASE WaitForCommand
  <2>1. CASE UNCHANGED <<state, listVars, cmd, histVars>>
    BY <2>1, ListsKept DEF SameCommands, StaysFreed, histVars
  <2>. QED  BY <1>6, <2>1, CompletedLists DEF WaitForCommand
<1>7. CASE Close
  <2>1. /\ cmds_to_issue' = <<>> /\ cmds_in_flight' = {} /\ cmds_done' = <<>>
        /\ state' = "FREED"
        /\ UNCHANGED <<unique, disconnect_request, cmd, told>>
        /\ \A c \in Cookie : c \notin Live \cup Done => calls'[c] = calls[c]
    BY <1>7, Zenon DEF Close, Live
  <2>. USE <2>1
  <2>2. Queued' = {} /\ Done' = {} /\ Live' = {} /\ Issued' = Issued
    BY ListFacts, ShortSeqs DEF Issued
  <2>3. OneList' /\ CompletionOnceWhileOpen' /\ DiscIsLast'
    BY <2>2, ShortSeqs, SMTT(60) DEF OneList, CompletionOnceWhileOpen, DiscIsLast, Inj
  <2>4. OnlyIssued' /\ DiscAsked'
    BY <2>2 DEF ListInv, OnlyIssued, DiscAsked
  <2>5. NoHistory'
    <3>1. \A c \in Cookie : c >= unique => calls'[c] = calls[c]
      BY FreshCookie
    <3>. QED  BY <3>1 DEF ListInv, NoHistory
  <2>. QED  BY <2>3, <2>4, <2>5 DEF ListInv
<1>. QED  BY <1>1, <1>2, <1>3, <1>4, <1>5, <1>6, <1>7 DEF ApiStep

\* The other end of the socket touches no list.
LEMMA ServerLists ==
  ASSUME TypeInv, ListInv, Server
  PROVE  ListInv'
<1>1. UNCHANGED <<state, listVars, cmd, histVars>>
  BY Zenon DEF Server, ServerReply, ServerStray, Transmit, Deliver, Drain,
         ServerClose, ConnectionLost, runVars
<1>. QED  BY <1>1, ListsKept DEF SameCommands, StaysFreed, histVars

(***************************************************************************)
(* ListInv is inductive.                                                   *)
(***************************************************************************)

\* A new handle has empty lists.
LEMMA InitLists == Init => ListInv
<1>. SUFFICES ASSUME Init PROVE ListInv
  OBVIOUS
<1>1. /\ cmds_to_issue = <<>> /\ cmds_done = <<>> /\ cmds_in_flight = {}
      /\ unique = 1 /\ calls = [c \in Cookie |-> 0]
      /\ told = [c \in Cookie |-> "none"]
  BY Zenon DEF Init
<1>2. /\ Queued = {} /\ Done = {} /\ Live = {} /\ Issued = {}
      /\ 1..(unique - 1) = {}
      /\ 1..Len(cmds_to_issue) = {} /\ 1..Len(cmds_done) = {}
  BY <1>1 DEF Queued, Done, Live, Issued
<1>3. OneList /\ CompletionOnceWhileOpen /\ DiscIsLast
  BY <1>2, Zenon DEF OneList, CompletionOnceWhileOpen, CompletionOnce,
                     DiscIsLast
<1>4. OnlyIssued /\ NoHistory /\ DiscAsked
  BY <1>1, <1>2, Zenon DEF OnlyIssued, NoHistory, DiscAsked
<1>. QED  BY <1>3, <1>4 DEF ListInv

\* ListInv is inductive.
LEMMA NextLists == TypeInv /\ ListInv /\ [Next]_vars => ListInv'
<1>. SUFFICES ASSUME TypeInv, ListInv, [Next]_vars PROVE ListInv'
  OBVIOUS
<1>1. CASE Next
  BY <1>1, IssueLists, ReplyLists, ChunkLists, TopLists, ApiLists, ServerLists
     DEF Next, Engine
<1>2. CASE UNCHANGED vars
  BY <1>2, ListsKept DEF vars, runVars, histVars, SameCommands, StaysFreed
<1>. QED  BY <1>1, <1>2

LastOf(s) == IF s = <<>> THEN NULL ELSE s[Len(s)]

(***************************************************************************)
(* Last elements.                                                          *)
(***************************************************************************)

\* The length of an empty list.
LEMMA LenEmpty == Len(<<>>) = 0
OBVIOUS

\* The last element after one is appended.
LEMMA LastAppend ==
  ASSUME NEW S, NEW s \in Seq(S), NEW e \in S
  PROVE  LastOf(Append(s, e)) = e
BY DEF LastOf

\* Taking the head off changes the last element only if it was the only one.
LEMMA LastTail ==
  ASSUME NEW s \in Seq(Cookie), s # <<>>, Inj(s)
  PROVE  LastOf(Tail(s)) = IF LastOf(s) = Head(s) THEN NULL ELSE LastOf(s)
<1>1. Len(s) \in Nat /\ Len(s) > 0 /\ LastOf(s) = s[Len(s)] /\ Head(s) = s[1]
  BY DEF LastOf
<1>. USE <1>1
<1>2. CASE Len(s) = 1
  <2>1. Tail(s) = <<>>
    <3>1. Tail(s) \in Seq(Cookie) /\ Len(Tail(s)) = 0
      BY <1>2, EmptyLen, SMTT(60)
    <3>. QED  BY <3>1, EmptyLen, Zenon
  <2>. QED  BY <1>2, <2>1 DEF LastOf
<1>3. CASE Len(s) > 1
  <2>. USE <1>3
  <2>1. Tail(s) # <<>> /\ Tail(s)[Len(Tail(s))] = s[Len(s)]
    <3>1. /\ Tail(s) \in Seq(Cookie) /\ Len(Tail(s)) = Len(s) - 1
          /\ \A i \in 1..(Len(s) - 1) : Tail(s)[i] = s[i + 1]
      BY EmptyLen
    <3>2. Len(Tail(s)) # 0
      BY <3>1
    <3>4. Tail(s) # <<>>
      BY <3>2, LenEmpty, Zenon
    <3>3. /\ Len(s) - 1 \in 1..(Len(s) - 1) /\ (Len(s) - 1) + 1 = Len(s)
      OBVIOUS
    <3>. QED  BY <3>1, <3>3, <3>4
  <2>2. s[Len(s)] # s[1]
    BY SMTT(60) DEF Inj
  <2>. QED  BY <2>1, <2>2 DEF LastOf
<1>. QED  BY <1>2, <1>3

\* Unlinking the i-th element.
LEMMA LastRemove ==
  ASSUME NEW s \in Seq(Cookie), NEW i \in 1..Len(s), Inj(s), NEW t,
         t = [j \in 1..(Len(s) - 1) |-> IF j < i THEN s[j] ELSE s[j + 1]]
  PROVE  LastOf(t) = IF LastOf(s) # s[i] THEN LastOf(s)
                     ELSE IF i = 1 THEN NULL ELSE s[i - 1]
<1>1. /\ Len(s) \in Nat /\ Len(s) > 0 /\ LastOf(s) = s[Len(s)]
      /\ t \in Seq(Cookie)
  BY RemoveAtType DEF LastOf
<1>. USE <1>1
<1>2. Len(t) = Len(s) - 1
  OBVIOUS
<1>3. LastOf(s) = s[i] <=> i = Len(s)
  BY SMTT(60) DEF Inj
<1>4. CASE Len(s) = 1
  <2>1. t = <<>> /\ i = 1
    <3>1. Len(t) = 0 /\ i = 1
      BY <1>2, <1>4
    <3>. QED  BY <3>1, EmptyLen
  <2>. QED  BY <1>3, <1>4, <2>1 DEF LastOf
<1>5. CASE Len(s) > 1
  <2>0. Len(t) # 0 /\ Len(s) - 1 \in 1..(Len(s) - 1)
    BY <1>2, <1>5
  <2>1. t # <<>> /\ LastOf(t) = t[Len(s) - 1]
    BY <1>2, <2>0, LenEmpty, Zenon DEF LastOf
  <2>2. t[Len(s) - 1] = IF Len(s) - 1 < i THEN s[Len(s) - 1] ELSE s[Len(s)]
    BY <2>0
  <2>3. CASE i = Len(s)
    <3>1. Len(s) - 1 < i /\ i # 1
      BY <1>5, <2>3
    <3>. QED  BY <1>3, <2>1, <2>2, <2>3, <3>1
  <2>4. CASE i # Len(s)
    <3>1. ~(Len(s) - 1 < i)
      BY <2>4
    <3>. QED  BY <1>3, <2>1, <2>2, <2>4, <3>1, Zenon
  <2>. QED  BY <2>3, <2>4
<1>6. Len(s) = 1 \/ Len(s) > 1
  <2>1. \A n \in Nat : n > 0 => n = 1 \/ n > 1
    OBVIOUS
  <2>. QED  BY <2>1, Zenon
<1>. QED  BY <1>4, <1>5, <1>6, Zenon

\* nbd_internal_abort_commands moves the tail to the last command it appends.
LEMMA AbortTail ==
  ASSUME TypeInv, NEW A, A \subseteq Cookie, nbd_internal_abort_commands(A),
         cmds_done_tail = LastOf(cmds_done)
  PROVE  cmds_done_tail' = LastOf(cmds_done')
<1>0. PICK K \in SUBSET A : \E n \in 0..MaxCmds : \E s \in [1..n -> K] :
        /\ cmds_done' = cmds_done \o s
        /\ cmds_done_tail' = IF n = 0 THEN cmds_done_tail ELSE s[n]
  <2>1. \A r : {c \in A : ~(\/ cmd[c].type = "DISC"
                            \/ (cmd[c].completion /\ r[c] = "1"))} \in SUBSET A
    OBVIOUS
  <2>. QED  BY <2>1, Zenon DEF nbd_internal_abort_commands
<1>7. PICK n \in 0..MaxCmds : \E s \in [1..n -> K] :
        /\ cmds_done' = cmds_done \o s
        /\ cmds_done_tail' = IF n = 0 THEN cmds_done_tail ELSE s[n]
  BY <1>0, Zenon
<1>1. PICK s \in [1..n -> K] :
        /\ cmds_done' = cmds_done \o s
        /\ cmds_done_tail' = IF n = 0 THEN cmds_done_tail ELSE s[n]
  BY <1>7, Zenon
<1>2. K \subseteq Cookie /\ n \in Nat
  OBVIOUS
<1>3. s \in Seq(Cookie) /\ Len(s) = n
  BY <1>2, FunctionIsSeq
<1>. USE <1>3
<1>4. cmds_done \in Seq(Cookie)
  BY DEF TypeInv, TypeOK, ListType
<1>5. CASE n = 0
  <2>1. cmds_done \o s = cmds_done
    BY <1>4, <1>5
  <2>. QED  BY <1>1, <1>5, <2>1
<1>6. CASE n # 0
  <2>1. /\ cmds_done \o s # <<>>
        /\ (cmds_done \o s)[Len(cmds_done \o s)] = s[Len(s)]
    BY <1>2, <1>4, <1>6, SMTT(60)
  <2>. QED  BY <1>1, <1>6, <2>1 DEF LastOf
<1>. QED  BY <1>5, <1>6

(***************************************************************************)
(* What a step may do to the lists.                                        *)
(***************************************************************************)

\* Initially nbd_shutdown is not under way.
LEMMA InitDiscWaits == Init => DiscWaits
<1>1. Init => api = Idle
  BY Zenon DEF Init
<1>. QED  BY <1>1 DEF DiscWaits, Idle

\* The state machine runs inside a call and leaves the next one alone.
LEMMA EngineRuns ==
  ASSUME TypeInv, Engine
  PROVE  running /\ UNCHANGED api
<1>1. CASE IssueStep
  BY <1>1, Zenon DEF IssueStep, IssueStart, SendRequest, PauseSendRequest,
              PrepareWritePayload, SendWritePayload, PauseWritePayload,
              SendWriteShutdown, PauseWriteShutdown, IssueFinish, SendThen,
              SendError, At, Block, SET_NEXT_STATE, SET_NEXT_STATE_AND_BLOCK
<1>2. CASE ReplyStep \/ ChunkStep
  BY <1>2, ReplyFrame DEF ReplyKeeps
<1>3. CASE Ready \/ Dead \/ Closed
  BY <1>3 DEF Ready, Dead, Closed, Terminal, At, Block, SET_NEXT_STATE,
              SET_NEXT_STATE_AND_BLOCK
<1>. QED  BY <1>1, <1>2, <1>3 DEF Engine

\* DiscWaits is inductive.
LEMMA NextDiscWaits == TypeInv /\ DiscWaits /\ [Next]_vars => DiscWaits'
<1>. SUFFICES ASSUME TypeInv, DiscWaits, [Next]_vars PROVE DiscWaits'
  OBVIOUS
<1>1. CASE Engine
  BY <1>1, EngineRuns DEF DiscWaits
<1>2. ASSUME UNCHANGED <<state, running, api>> PROVE DiscWaits'
  BY <1>2 DEF DiscWaits, Connected, is_state_ready, is_state_processing
<1>3. CASE Server
  <2>1. UNCHANGED <<state, running, api>>
    BY <1>3, Zenon DEF Server, ServerReply, ServerStray, Transmit, Deliver,
       Drain, ServerClose, ConnectionLost, runVars
  <2>. QED  BY <1>2, <2>1
<1>4. CASE ApiStep
  <2>0. api \in [op : {"idle", "wait", "poll", "disc", "shutdown"},
                 c : Cookie \cup {NULL}]
    BY DEF TypeInv, TypeOK, RunType
  <2>1. CASE \E f \in ShutdownFlags : Shutdown(f)
    BY <2>1 DEF Shutdown, CanCall, Calling, DiscWaits, Connected,
                is_state_ready, is_state_processing
  <2>2. CASE ~\E f \in ShutdownFlags : Shutdown(f)
    <3>1. \/ api' = Idle
          \/ (UNCHANGED api \/ api' = Polled) /\ api.op # "disc"
          \/ \E c : api' = [op |-> "wait", c |-> c]
          \/ api' = [op |-> "shutdown", c |-> NULL]
      BY <1>4, <2>2, ZenonT(60) DEF ApiStep, AioCommand, SyncCommand, CommandCompleted,
         AioDisconnect, ShutdownDisconnect, ShutdownReturn, WaitForCommand,
         NotifyRead, NotifyWrite, PollError, Close, CanCall, Calling, Polling
    <3>2. api'.op # "disc"
      BY <2>0, <3>1, SMTT(60) DEF Idle, Polled
    <3>. QED  BY <3>2 DEF DiscWaits
  <2>. QED  BY <2>1, <2>2
<1>5. CASE UNCHANGED vars
  BY <1>2, <1>5 DEF vars, runVars
<1>. QED  BY <1>1, <1>3, <1>4, <1>5 DEF Next

(***************************************************************************)
(* The ends, the count and the order of the lists.                         *)
(***************************************************************************)

\* Sets of cookies are finite, so they have a cardinality.
LEMMA CookieCard ==
  ASSUME NEW K, K \subseteq Cookie
  PROVE  IsFiniteSet(K) /\ Cardinality(K) \in Nat
<1>1. IsFiniteSet(Cookie)
  <2>1. MaxCmds \in Int
    BY HandleAssumption, SMTT(60)
  <2>. QED  BY <2>1, FS_Interval DEF Cookie
<1>2. IsFiniteSet(K)
  BY <1>1, FS_Subset
<1>. QED  BY <1>2, FS_CardinalityType

\* What EndInv is about, with the types the arithmetic needs.
LEMMA EndFacts ==
  ASSUME TypeInv, ListInv
  PROVE  /\ Len(cmds_to_issue) \in Nat /\ in_flight \in Int /\ unique \in Int
         /\ IsFiniteSet(cmds_in_flight) /\ Cardinality(cmds_in_flight) \in Nat
         /\ \A i \in 1..Len(cmds_to_issue) :
              cmds_to_issue[i] \in Cookie /\ cmds_to_issue[i] < unique
         /\ Cookie \subseteq Int
<1>1. cmds_in_flight \subseteq Cookie /\ cmds_to_issue \in Seq(Cookie)
      /\ in_flight \in Int /\ unique \in Int
  BY HandleAssumption, SMTT(60) DEF TypeInv, TypeOK, ListType
<1>. USE <1>1
<1>2. Queued \subseteq Issued
  BY ListFacts
<1>3. \A i \in 1..Len(cmds_to_issue) : cmds_to_issue[i] \in Issued
  BY <1>2 DEF Queued
<1>4. \A i \in 1..Len(cmds_to_issue) :
        cmds_to_issue[i] \in Cookie /\ cmds_to_issue[i] < unique
  BY <1>3 DEF Issued
<1>5. Len(cmds_to_issue) \in Nat /\ Cookie \subseteq Int
  BY DEF Cookie
<1>. QED  BY <1>4, <1>5, CookieCard, Zenon

\* A handle that still has a command in flight counts it.
LEMMA FlightCounted ==
  ASSUME TypeInv, ListInv, EndInv, state # "FREED", cmds_in_flight # {}
  PROVE  in_flight > 0
<1>1. /\ Len(cmds_to_issue) \in Nat /\ in_flight \in Int
      /\ IsFiniteSet(cmds_in_flight) /\ Cardinality(cmds_in_flight) \in Nat
  BY EndFacts, Zenon
<1>2. Cardinality(cmds_in_flight) # 0
  BY <1>1, FS_EmptySet
<1>3. in_flight >= Len(cmds_to_issue) + Cardinality(cmds_in_flight)
  BY DEF EndInv, Counted
<1>. QED  BY <1>1, <1>2, <1>3, SMTT(60)

\* Steps that move no command.
LEMMA KeepEnds ==
  ASSUME EndInv, KeepLists
  PROVE  EndInv'
<1>1. UNCHANGED <<cmds_to_issue, cmds_to_issue_tail, cmds_in_flight, cmds_done,
                  cmds_done_tail, in_flight, unique>>
  BY DEF KeepLists, listVars
<1>. QED  BY <1>1 DEF KeepLists, Stopped, EndInv, TailsOK, FreedEmpty, Counted,
                      QueueOrder

\* nbd_internal_command_common sets the tail to the new command.
LEMMA QueueEnds ==
  ASSUME TypeInv, ListInv, EndInv, QueueOne
  PROVE  EndInv'
<1>1. /\ cmds_to_issue' = Append(cmds_to_issue, unique) /\ unique \in Cookie
      /\ cmds_to_issue_tail' = unique /\ in_flight' = in_flight + 1
      /\ UNCHANGED <<cmds_in_flight, cmds_done, cmds_done_tail>>
      /\ cmds_to_issue \in Seq(Cookie)
  BY HandleAssumption, SMTT(60) DEF QueueOne, TypeInv, TypeOK, ListType, Cookie
<1>2. /\ Len(cmds_to_issue') = Len(cmds_to_issue) + 1
      /\ cmds_to_issue'[Len(cmds_to_issue) + 1] = unique
      /\ \A i \in 1..Len(cmds_to_issue) : cmds_to_issue'[i] = cmds_to_issue[i]
      /\ cmds_to_issue' # <<>>
  BY <1>1
<1>3. TailsOK'
  BY <1>1, <1>2, EndFacts DEF EndInv, TailsOK, QueueOne, Stopped
<1>4. FreedEmpty'
  BY DEF FreedEmpty, QueueOne, Stopped
<1>5. Counted'
  <2>1. state # "FREED" /\ Len(cmds_to_issue') = Len(cmds_to_issue) + 1
    BY <1>2 DEF QueueOne, Stopped
  <2>. DEFINE n == Len(cmds_to_issue) + Cardinality(cmds_in_flight)
  <2>2. n' = n + 1 /\ n \in Int /\ in_flight \in Int
    BY <1>1, <2>1, EndFacts, SMTT(60)
  <2>3. in_flight >= n /\ ("abandon_pending" \notin ShutdownFlags => in_flight = n)
    BY <2>1, Zenon DEF EndInv, Counted
  <2>. HIDE DEF n
  <2>4. in_flight' >= n' /\ ("abandon_pending" \notin ShutdownFlags => in_flight' = n')
    BY <1>1, <2>2, <2>3, SMTT(60)
  <2>. QED  BY <2>4, Zenon DEF Counted, n
<1>6. QueueOrder'
  <2>1. \A i \in 1..(Len(cmds_to_issue) + 1) :
          i \in 1..Len(cmds_to_issue) \/ i = Len(cmds_to_issue) + 1
    BY EndFacts
  <2>2. \A i \in 1..Len(cmds_to_issue) : cmds_to_issue[i] < unique
    BY EndFacts
  <2>3. ASSUME NEW i \in 1..(Len(cmds_to_issue) + 1),
               NEW j \in 1..(Len(cmds_to_issue) + 1), i < j
        PROVE  cmds_to_issue'[i] < cmds_to_issue'[j]
    <3>1. i \in 1..Len(cmds_to_issue)
      BY <2>3, EndFacts
    <3>2. CASE j \in 1..Len(cmds_to_issue)
      BY <1>2, <2>3, <3>1, <3>2 DEF EndInv, QueueOrder
    <3>3. CASE j = Len(cmds_to_issue) + 1
      BY <1>2, <2>2, <3>1, <3>3
    <3>. QED  BY <2>1, <3>2, <3>3
  <2>. QED  BY <1>2, <2>3 DEF QueueOrder
<1>. QED  BY <1>3, <1>4, <1>5, <1>6 DEF EndInv

\* ISSUE_COMMAND.FINISH clears the tail when it takes the last command.
LEMMA SendEnds ==
  ASSUME TypeInv, ListInv, EndInv, SendOne
  PROVE  EndInv'
<1>. DEFINE c == Head(cmds_to_issue)
<1>1. /\ ~Stopped /\ ~Stopped' /\ cmds_to_issue # <<>>
      /\ cmds_in_flight' = cmds_in_flight \cup {c}
      /\ cmds_to_issue_tail' = IF cmds_to_issue_tail = c THEN NULL
                               ELSE cmds_to_issue_tail
      /\ cmds_to_issue' = Tail(cmds_to_issue)
      /\ UNCHANGED <<cmds_done, cmds_done_tail, in_flight, unique>>
  BY DEF SendOne
<1>. USE <1>1
<1>2. cmds_to_issue \in Seq(Cookie) /\ Inj(cmds_to_issue) /\ c \notin cmds_in_flight
  BY HeadFacts, ListFacts
<1>3. /\ Len(cmds_to_issue') = Len(cmds_to_issue) - 1
      /\ \A i \in 1..(Len(cmds_to_issue) - 1) :
           cmds_to_issue'[i] = cmds_to_issue[i + 1]
  BY <1>2, EmptyLen
<1>4. TailsOK'
  <2>1. cmds_to_issue_tail = LastOf(cmds_to_issue)
    BY Zenon DEF EndInv, TailsOK, LastOf, Stopped
  <2>2. cmds_to_issue_tail' = LastOf(cmds_to_issue')
    BY <1>2, <2>1, LastTail, Zenon
  <2>. QED  BY <2>2 DEF EndInv, TailsOK, LastOf, Stopped
<1>5. FreedEmpty'
  BY DEF FreedEmpty, Stopped
<1>6. Counted'
  <2>1. Cardinality(cmds_in_flight') = Cardinality(cmds_in_flight) + 1
    BY <1>2, EndFacts, FS_AddElement, Zenon
  <2>2. state # "FREED"
    BY DEF Stopped
  <2>. HIDE DEF c
  <2>. QED  BY <1>3, <2>1, <2>2, EndFacts, SMTT(60) DEF EndInv, Counted
<1>7. QueueOrder'
  <2>1. ASSUME NEW i \in 1..(Len(cmds_to_issue) - 1),
               NEW j \in 1..(Len(cmds_to_issue) - 1), i < j
        PROVE  cmds_to_issue'[i] < cmds_to_issue'[j]
    <3>1. /\ i + 1 \in 1..Len(cmds_to_issue) /\ j + 1 \in 1..Len(cmds_to_issue)
          /\ i + 1 < j + 1
      BY <2>1, EndFacts, SMTT(60)
    <3>2. cmds_to_issue[i + 1] < cmds_to_issue[j + 1]
      BY <3>1 DEF EndInv, QueueOrder
    <3>. QED  BY <1>3, <3>2
  <2>. QED  BY <1>3, <2>1 DEF QueueOrder
<1>. QED  BY <1>4, <1>5, <1>6, <1>7 DEF EndInv

\* FINISH_COMMAND counts down by one.
LEMMA FinishEnds ==
  ASSUME TypeInv, ListInv, EndInv, NEW c \in Cookie, FinishOne(c)
  PROVE  EndInv'
<1>1. TailsOK'
  <2>1. cmds_done \in Seq(Cookie)
    BY ListFacts
  <2>2. cmds_done' = Append(cmds_done, c) =>
          cmds_done' # <<>> /\ cmds_done'[Len(cmds_done')] = c
    BY <2>1
  <2>. QED  BY <2>2 DEF FinishOne, EndInv, TailsOK, Stopped
<1>2. Counted'
  <2>1. Cardinality(cmds_in_flight') = Cardinality(cmds_in_flight) - 1
    BY EndFacts, FS_RemoveElement, Zenon DEF FinishOne
  <2>2. state # "FREED" /\ in_flight' = in_flight - 1 /\ cmds_to_issue' = cmds_to_issue
    BY DEF Stopped, FinishOne
  <2>. QED  BY <2>1, <2>2, EndFacts DEF EndInv, Counted
<1>3. FreedEmpty' /\ QueueOrder'
  BY DEF FinishOne, Stopped, EndInv, FreedEmpty, QueueOrder
<1>. QED  BY <1>1, <1>2, <1>3 DEF EndInv

\* Lists of no and of one element.
LEMMA ShortLists ==
  /\ Len(<<>>) = 0 /\ Cardinality({}) = 0
  /\ \A x : <<x>> # <<>> /\ Len(<<x>>) = 1 /\ <<x>>[1] = x
BY FS_EmptySet

\* DEAD and CLOSED leave nothing and count nothing.
LEMMA EndAllEnds ==
  ASSUME TypeInv, ListInv, EndInv, EndAll
  PROVE  EndInv'
<1>1. /\ state \in {"DEAD", "CLOSED"} /\ state' = state
      /\ cmds_to_issue' = <<>> /\ cmds_in_flight' = {} /\ in_flight' = 0
      /\ nbd_internal_abort_commands(Live) /\ Live \subseteq Cookie
  BY ListFacts DEF EndAll
<1>. USE <1>1
<1>2. TailsOK'
  <2>1. cmds_done_tail = LastOf(cmds_done)
    BY Zenon DEF EndInv, TailsOK, LastOf
  <2>2. cmds_done_tail' = LastOf(cmds_done')
    BY <2>1, AbortTail
  <2>. QED  BY <2>2, Zenon DEF TailsOK, LastOf
<1>3. Counted'
  BY ShortLists, SMTT(60) DEF Counted
<1>4. FreedEmpty' /\ QueueOrder'
  BY DEF FreedEmpty, QueueOrder
<1>. QED  BY <1>2, <1>3, <1>4 DEF EndInv

\* nbd_shutdown leaves only the command being sent, and the tail at it.
LEMMA AbandonEnds ==
  ASSUME TypeInv, ListInv, SendInv, EndInv, AbandonSome
  PROVE  EndInv'
<1>1. /\ ~Stopped /\ state' = state /\ ~running
      /\ state = "READY" => cmds_to_issue' = <<>> /\ UNCHANGED cmds_to_issue_tail
      /\ state # "READY" => /\ cmds_to_issue # <<>>
                            /\ cmds_to_issue' = <<Head(cmds_to_issue)>>
                            /\ cmds_to_issue_tail' = Head(cmds_to_issue)
      /\ UNCHANGED <<cmds_in_flight, in_flight>>
      /\ nbd_internal_abort_commands(Abandoned)
  BY DEF AbandonSome, is_state_ready, KeptQueue
<1>. USE <1>1
<1>2. Abandoned \subseteq Cookie
  BY ListFacts DEF Abandoned
<1>3. state = "READY" => cmds_to_issue = <<>>
  BY DEF SendInv, SendControl, QueueSeen
<1>4. TailsOK'
  <2>1. cmds_done_tail' = LastOf(cmds_done')
    <3>1. cmds_done_tail = LastOf(cmds_done)
      BY Zenon DEF EndInv, TailsOK, LastOf, Stopped
    <3>. QED  BY <1>2, <3>1, AbortTail
  <2>2. cmds_to_issue_tail' = LastOf(cmds_to_issue')
    <3>1. CASE state = "READY"
      BY <1>3, <3>1 DEF EndInv, TailsOK, LastOf
    <3>2. CASE state # "READY"
      BY <3>2, ShortLists, Zenon DEF LastOf
    <3>. QED  BY <3>1, <3>2
  <2>. QED  BY <2>1, <2>2, Zenon DEF TailsOK, LastOf
<1>5. Counted'
  <2>1. Len(cmds_to_issue') <= Len(cmds_to_issue) /\ Len(cmds_to_issue') \in Nat
    <3>1. CASE state = "READY"
      BY <1>3, <3>1, ShortLists, SMTT(60)
    <3>2. CASE state # "READY"
      <4>1. Len(cmds_to_issue) \in Nat /\ Len(cmds_to_issue) # 0
        BY <3>2, EmptyLen, ListFacts
      <4>2. Len(cmds_to_issue') = 1
        BY <3>2, ShortLists
      <4>. QED  BY <4>1, <4>2
    <3>. QED  BY <3>1, <3>2
  <2>2. "abandon_pending" \in ShutdownFlags
    BY DEF AbandonSome
  <2>3. in_flight >= Len(cmds_to_issue) + Cardinality(cmds_in_flight)
    BY DEF EndInv, Counted, Stopped
  <2>4. in_flight' >= Len(cmds_to_issue') + Cardinality(cmds_in_flight')
    BY <2>1, <2>3, EndFacts, SMTT(60)
  <2>. QED  BY <2>2, <2>4, Zenon DEF Counted
<1>6. FreedEmpty'
  BY DEF FreedEmpty, Stopped
<1>7. QueueOrder'
  <2>1. Len(cmds_to_issue') \in {0, 1}
    BY ShortLists
  <2>. QED  BY <2>1 DEF QueueOrder
<1>. QED  BY <1>4, <1>5, <1>6, <1>7 DEF EndInv

\* nbd_aio_command_completed moves the tail back when it unlinks the last.
LEMMA RetireEnds ==
  ASSUME TypeInv, ListInv, EndInv, NEW i \in 1..Len(cmds_done), RetireOne(i)
  PROVE  EndInv'
<1>1. cmds_done \in Seq(Cookie) /\ Inj(cmds_done)
  BY ListFacts
<1>2. /\ UNCHANGED <<state, cmds_to_issue, cmds_to_issue_tail, cmds_in_flight,
                     in_flight>>
      /\ cmds_done' = [j \in 1..(Len(cmds_done) - 1) |->
                         IF j < i THEN cmds_done[j] ELSE cmds_done[j + 1]]
      /\ cmds_done_tail' = IF cmds_done_tail # cmds_done[i] THEN cmds_done_tail
                           ELSE IF i = 1 THEN NULL ELSE cmds_done[i - 1]
  BY Zenon DEF RetireOne, Previous
<1>. USE <1>2
<1>3. state # "FREED"
  <2>1. Len(cmds_done) # 0
    BY <1>1
  <2>. QED  BY <2>1, LenEmpty, Zenon DEF EndInv, FreedEmpty
<1>4. cmds_done_tail' = LastOf(cmds_done')
  <2>1. cmds_done_tail = LastOf(cmds_done)
    BY <1>3, Zenon DEF EndInv, TailsOK, LastOf
  <2>2. LastOf(cmds_done') =
          IF LastOf(cmds_done) # cmds_done[i] THEN LastOf(cmds_done)
          ELSE IF i = 1 THEN NULL ELSE cmds_done[i - 1]
    BY <1>1, LastRemove, Zenon
  <2>. QED  BY <2>1, <2>2, Zenon
<1>5. TailsOK'
  BY <1>4, Zenon DEF TailsOK, EndInv, LastOf
<1>. QED  BY <1>3, <1>5 DEF EndInv, FreedEmpty, Counted, QueueOrder

\* nbd_close.
LEMMA FreeEnds ==
  ASSUME FreeAll
  PROVE  EndInv'
BY DEF FreeAll, EndInv, TailsOK, FreedEmpty, Counted, QueueOrder

\* EndInv is inductive.
LEMMA NextEnds ==
  TypeInv /\ ListInv /\ SendInv /\ DiscWaits /\ EndInv /\ [Next]_vars => EndInv'
BY NextListStep, KeepEnds, QueueEnds, SendEnds, FinishEnds, EndAllEnds,
   AbandonEnds, RetireEnds, FreeEnds DEF ListStep

\* A new handle has no tails and counts nothing.
LEMMA InitEnds == Init => EndInv
<1>. SUFFICES ASSUME Init PROVE EndInv
  OBVIOUS
<1>1. /\ state = "READY" /\ cmds_to_issue = <<>> /\ cmds_to_issue_tail = NULL
      /\ cmds_in_flight = {} /\ cmds_done = <<>> /\ cmds_done_tail = NULL
      /\ in_flight = 0
  BY Zenon DEF Init
<1>. QED  BY <1>1, ShortLists, SMTT(60)
          DEF EndInv, TailsOK, FreedEmpty, Counted, QueueOrder

(***************************************************************************)
(* The handle implements CommandLifecycle.                                 *)
(***************************************************************************)

\* The phases, given the next cookie and what is on the lists.
Phases(u, q, f, d) ==
  [c \in Cookie |-> IF c >= u THEN "new" ELSE IF c \in q THEN "queued"
                    ELSE IF c \in f THEN "sent" ELSE IF c \in d THEN "done"
                    ELSE "retired"]

\* The lists give the phase of every command.
LEMMA PhaseFacts ==
  ASSUME TypeInv, ListInv
  PROVE  /\ phase = Phases(unique, Queued, cmds_in_flight, Done)
         /\ phase' = Phases(unique', Queued', cmds_in_flight', Done')
         /\ Abstract!In("new") = {c \in Cookie : c >= unique}
         /\ Abstract!In("queued") = Queued
         /\ Abstract!In("sent") = cmds_in_flight
         /\ Abstract!In("done") = Done
         /\ \A c \in Queued \cup cmds_in_flight \cup Done :
              c \in Cookie /\ ~(c >= unique)
         /\ Queued \cap cmds_in_flight = {}
         /\ (Queued \cup cmds_in_flight) \cap Done = {}
<1>1. /\ phase = Phases(unique, Queued, cmds_in_flight, Done)
      /\ phase' = Phases(unique', Queued', cmds_in_flight', Done')
  BY DEF phase, Phases
<1>2. /\ \A c \in Queued \cup cmds_in_flight \cup Done :
           c \in Cookie /\ ~(c >= unique)
      /\ Queued \cap cmds_in_flight = {}
      /\ (Queued \cup cmds_in_flight) \cap Done = {}
  BY ListFacts, FreshCookie
<1>3. /\ Abstract!In("new") = {c \in Cookie : c >= unique}
      /\ Abstract!In("queued") = Queued
      /\ Abstract!In("sent") = cmds_in_flight
      /\ Abstract!In("done") = Done
  BY <1>1, <1>2 DEF Phases, Abstract!In
<1>. QED  BY <1>1, <1>2, <1>3

\* A connection that has not ended has its socket.
LEMMA OpenFacts ==
  /\ ~Stopped => HasSocket
  /\ ~Stopped' => HasSocket'
  /\ UNCHANGED <<state, running>> => HasSocket' = HasSocket
BY DEF Stopped, HasSocket

\* Ending the commands of set G, those of K with a result left to collect.
LEMMA FinishMaps ==
  ASSUME TypeInv, ListInv, NEW G \in SUBSET Live, NEW K \in SUBSET G,
         Queued' = Queued \ G, cmds_in_flight' = cmds_in_flight \ G,
         Done' = Done \cup K, unique' = unique
  PROVE  Abstract!Finish(G)
<1>1. phase' = [c \in Cookie |-> IF c \in K THEN "done"
                                 ELSE IF c \in G THEN "retired" ELSE phase[c]]
  <2>1. \A c \in G : c \in Cookie /\ ~(c >= unique) /\ c \notin Done
    BY PhaseFacts DEF Live
  <2>2. ASSUME NEW c \in Cookie
        PROVE  phase'[c] = IF c \in K THEN "done"
                           ELSE IF c \in G THEN "retired" ELSE phase[c]
    <3>1. CASE c \in G
      BY <2>1, <3>1, PhaseFacts DEF Phases
    <3>2. CASE c \notin G
      BY <3>2, PhaseFacts DEF Phases
    <3>. QED  BY <3>1, <3>2
  <2>. QED  BY <2>2, PhaseFacts DEF Phases
<1>. QED  BY <1>1 DEF Abstract!Finish

\* Queueing a command is the abstract step of that name.
LEMMA QueueMaps ==
  ASSUME TypeInv, ListInv, QueueOne
  PROVE  Abstract!Next
<1>1. unique \in Cookie /\ unique' = unique + 1 /\ Cookie \subseteq Int
  BY HandleAssumption, SMTT(60) DEF QueueOne, TypeInv, TypeOK, ListType, Cookie
<1>. USE <1>1
<1>2. /\ Queued' = Queued \cup {unique}
      /\ UNCHANGED <<cmds_in_flight, cmds_done>> /\ Done' = Done
  <2>1. unique \notin Rng(cmds_to_issue)
    BY FreshCookie, ListFacts, SMTT(60)
  <2>. QED  BY <2>1, ListFacts, AppendInj, SMTT(60) DEF QueueOne, Done
<1>3. phase' = [phase EXCEPT ![unique] = "queued"]
  <2>1. \A c \in Cookie : c >= unique + 1 <=> c >= unique /\ c # unique
    OBVIOUS
  <2>2. \A c \in Cookie : phase'[c] = IF c = unique THEN "queued" ELSE phase[c]
    BY <1>2, <2>1, PhaseFacts DEF Phases
  <2>. QED  BY <2>2, PhaseFacts DEF Phases
<1>4. unique \in Abstract!In("new") /\ \A d \in Abstract!In("new") : unique <= d
  BY PhaseFacts, SMTT(60)
<1>5. HasSocket /\ HasSocket' = HasSocket
  BY OpenFacts DEF QueueOne
<1>6. Abstract!Issue(unique)
  BY <1>3, <1>4, <1>5 DEF Abstract!Issue
<1>. QED  BY <1>6 DEF Abstract!Next

\* Sending the head is the abstract step: the head has the least cookie.
LEMMA SendMaps ==
  ASSUME TypeInv, ListInv, EndInv, SendOne
  PROVE  Abstract!Next
<1>. DEFINE c == Head(cmds_to_issue)
<1>1. /\ c \in Queued /\ c \in Cookie /\ cmds_to_issue # <<>>
      /\ cmds_in_flight' = cmds_in_flight \cup {c}
      /\ UNCHANGED <<cmds_done, unique>> /\ Done' = Done
      /\ Queued' = Queued \ {c}
  BY HeadFacts, ListFacts, TailInj DEF SendOne, Done
<1>2. \A d \in Queued : c <= d
  <2>1. cmds_to_issue \in Seq(Cookie) /\ c = cmds_to_issue[1]
        /\ Len(cmds_to_issue) \in Nat
    BY <1>1, ListFacts, SMTT(60)
  <2>. USE <2>1
  <2>2. ASSUME NEW i \in 1..Len(cmds_to_issue) PROVE c <= cmds_to_issue[i]
    <3>1. CASE i = 1
      BY <1>1, <3>1 DEF Cookie
    <3>2. CASE i # 1
      <4>1. 1 \in 1..Len(cmds_to_issue) /\ 1 < i
        BY <3>2
      <4>2. cmds_to_issue[1] < cmds_to_issue[i]
        BY <4>1 DEF EndInv, QueueOrder
      <4>3. cmds_to_issue[1] \in Int /\ cmds_to_issue[i] \in Int
        BY <4>1, EndFacts
      <4>. QED  BY <4>2, <4>3
    <3>. QED  BY <3>1, <3>2
  <2>. QED  BY <2>2 DEF Queued
<1>. HIDE DEF c
<1>3. phase' = [phase EXCEPT ![c] = "sent"]
  <2>1. \A d \in Cookie : phase'[d] = IF d = c THEN "sent" ELSE phase[d]
    BY <1>1, PhaseFacts DEF Phases
  <2>. QED  BY <2>1, PhaseFacts DEF Phases
<1>4. HasSocket /\ HasSocket' = HasSocket
  BY OpenFacts DEF SendOne
<1>5. Abstract!Send(c)
  BY <1>1, <1>2, <1>3, <1>4, PhaseFacts DEF Abstract!Send
<1>. QED  BY <1>1, <1>5 DEF Abstract!Next

\* FINISH_COMMAND answers one command, and may retire it at once.
LEMMA AnswerMaps ==
  ASSUME TypeInv, ListInv, NEW c \in Cookie, FinishOne(c)
  PROVE  Abstract!Next
<1>1. /\ c \in cmds_in_flight /\ cmds_in_flight' = cmds_in_flight \ {c}
      /\ UNCHANGED <<cmds_to_issue, unique>> /\ Queued' = Queued
      /\ Queued \cap cmds_in_flight = {} /\ c \in Live
  BY ListFacts DEF FinishOne, Queued
<1>2. \E K \in SUBSET {c} : Done' = Done \cup K
  <2>1. c \notin Rng(cmds_done)
    BY <1>1, ListFacts
  <2>2. CASE cmds_done' = Append(cmds_done, c)
    <3>1. Rng(Append(cmds_done, c)) = Rng(cmds_done) \cup {c}
      BY <2>1, ListFacts, AppendInj, SMTT(60)
    <3>2. Done' = Done \cup {c} /\ {c} \in SUBSET {c}
      BY <2>2, <3>1, ListFacts
    <3>. QED  BY <3>2, Zenon
  <2>3. CASE UNCHANGED cmds_done
    <3>1. Done' = Done \cup {} /\ {} \in SUBSET {c}
      BY <2>3 DEF Done
    <3>. QED  BY <3>1, Zenon
  <2>. QED  BY <2>2, <2>3, Zenon DEF FinishOne
<1>3. Abstract!Finish({c})
  <2>1. PICK K \in SUBSET {c} : Done' = Done \cup K
    BY <1>2
  <2>2. Queued' = Queued \ {c} /\ {c} \in SUBSET Live
    BY <1>1
  <2>. QED  BY <1>1, <2>1, <2>2, FinishMaps
<1>4. HasSocket /\ HasSocket' = HasSocket
  BY OpenFacts DEF FinishOne
<1>5. Abstract!Answer(c)
  BY <1>1, <1>3, <1>4, PhaseFacts DEF Abstract!Answer
<1>. QED  BY <1>5 DEF Abstract!Next

\* DEAD and CLOSED end every command that was live.
LEMMA EndMaps ==
  ASSUME TypeInv, ListInv, EndAll
  PROVE  Abstract!Next
<1>1. /\ cmds_to_issue' = <<>> /\ cmds_in_flight' = {} /\ UNCHANGED unique
      /\ nbd_internal_abort_commands(Live) /\ Live \in SUBSET Live
  BY DEF EndAll
<1>. USE <1>1
<1>2. PICK K \in SUBSET Live : Done' = Done \cup K
  BY AbortLists, Zenon
<1>3. Queued' = Queued \ Live /\ cmds_in_flight' = cmds_in_flight \ Live
  BY ListFacts, ShortSeqs
<1>4. Abstract!Finish(Live)
  BY <1>2, <1>3, FinishMaps
<1>5. HasSocket /\ HasSocket' = FALSE
  BY DEF EndAll, HasSocket
<1>6. Abstract!End
  BY <1>4, <1>5, PhaseFacts DEF Abstract!End, Live
<1>. QED  BY <1>6 DEF Abstract!Next

\* nbd_shutdown abandons commands of the queue.
LEMMA AbandonMaps ==
  ASSUME TypeInv, ListInv, EndInv, AbandonSome
  PROVE  Abstract!Next
<1>1. /\ nbd_internal_abort_commands(Abandoned) /\ cmds_to_issue' = KeptQueue
      /\ UNCHANGED <<cmds_in_flight, unique>>
      /\ is_state_ready \/ cmds_to_issue # <<>>
  BY DEF AbandonSome
<1>2. /\ Abandoned \subseteq Queued /\ Queued' = Queued \ Abandoned
      /\ Queued \ Abandoned \subseteq {Head(cmds_to_issue)}
  <2>1. CASE is_state_ready
    BY <1>1, <2>1, ListFacts, ShortSeqs DEF Abandoned, KeptQueue
  <2>2. CASE ~is_state_ready
    <3>1. Queued' = {Head(cmds_to_issue)} /\ Head(cmds_to_issue) \in Queued
      BY <1>1, <2>2, ListFacts, HeadFacts, ShortSeqs DEF KeptQueue
    <3>. QED  BY <2>2, <3>1 DEF Abandoned
  <2>. QED  BY <2>1, <2>2
<1>. USE <1>2
<1>3. Abandoned \in SUBSET Live
  BY ListFacts
<1>4. PICK K \in SUBSET Abandoned : Done' = Done \cup K
  BY <1>1, <1>3, AbortLists
<1>5. Abstract!Finish(Abandoned)
  <2>1. cmds_in_flight' = cmds_in_flight \ Abandoned
    BY <1>1, ListFacts
  <2>. QED  BY <1>1, <1>3, <1>4, <2>1, FinishMaps, Zenon
<1>6. \A c \in Abandoned, d \in Queued \ Abandoned : d < c
  <2>. SUFFICES ASSUME NEW c \in Abandoned, NEW d \in Queued \ Abandoned
                PROVE  d < c
    OBVIOUS
  <2>1. d = Head(cmds_to_issue) /\ c # d /\ cmds_to_issue \in Seq(Cookie)
    BY ListFacts
  <2>2. PICK i \in 1..Len(cmds_to_issue) : c = cmds_to_issue[i]
    BY DEF Queued
  <2>. USE <2>2
  <2>3. d = cmds_to_issue[1] /\ 1 \in 1..Len(cmds_to_issue) /\ 1 < i
    <3>1. Len(cmds_to_issue) \in Nat
      BY EndFacts
    <3>2. 1 \in 1..Len(cmds_to_issue) /\ cmds_to_issue # <<>>
      BY <3>1, LenEmpty, SMTT(60)
    <3>3. d = cmds_to_issue[1]
      BY <2>1, <3>2, SMTT(60)
    <3>. QED  BY <2>1, <3>2, <3>3, SMTT(60)
  <2>. QED  BY <2>3 DEF EndInv, QueueOrder
<1>7. HasSocket /\ HasSocket' = HasSocket
  BY OpenFacts DEF AbandonSome
<1>8. Abstract!Abandon
  BY <1>5, <1>6, <1>7, PhaseFacts DEF Abstract!Abandon
<1>. QED  BY <1>8 DEF Abstract!Next

\* nbd_aio_command_completed retires one command that is done.
LEMMA RetireMaps ==
  ASSUME TypeInv, ListInv, NEW i \in 1..Len(cmds_done), RetireOne(i)
  PROVE  Abstract!Next
<1>. DEFINE c == cmds_done[i]
<1>1. /\ c \in Done /\ c \in Cookie /\ Done' = Done \ {c}
      /\ Queued' = Queued /\ UNCHANGED <<cmds_in_flight, unique>>
  <2>1. cmds_done \in Seq(Cookie) /\ Inj(cmds_done)
    BY ListFacts
  <2>2. Rng(cmds_done') = Rng(cmds_done) \ {c}
    BY <2>1, RemoveInj DEF RetireOne
  <2>3. c \in Done /\ c \in Cookie
    BY <2>1, SMTT(60) DEF Done
  <2>. QED  BY <2>2, <2>3, ListFacts, Zenon DEF RetireOne, Queued
<1>. USE <1>1
<1>. HIDE DEF c
<1>2. phase' = [phase EXCEPT ![c] = "retired"]
  <2>1. \A d \in Cookie : phase'[d] = IF d = c THEN "retired" ELSE phase[d]
    BY PhaseFacts DEF Phases
  <2>. QED  BY <2>1, PhaseFacts DEF Phases
<1>3. HasSocket' = HasSocket
  BY OpenFacts DEF RetireOne
<1>4. Abstract!Retire(c)
  BY <1>2, <1>3, PhaseFacts DEF Abstract!Retire
<1>. QED  BY <1>4 DEF Abstract!Next

\* nbd_close drops every command.
LEMMA FreeMaps ==
  ASSUME TypeInv, ListInv, FreeAll
  PROVE  Abstract!Next
<1>1. /\ Queued' = {} /\ cmds_in_flight' = {} /\ Done' = {} /\ UNCHANGED unique
  BY ListFacts, ShortSeqs DEF FreeAll
<1>2. phase' = [c \in Cookie |-> IF phase[c] = "new" THEN "new" ELSE "retired"]
  <2>1. \A c \in Cookie :
          phase'[c] = IF phase[c] = "new" THEN "new" ELSE "retired"
    BY <1>1, PhaseFacts DEF Phases
  <2>. QED  BY <2>1, PhaseFacts DEF Phases
<1>3. HasSocket' = FALSE
  BY DEF FreeAll, HasSocket
<1>4. Abstract!Free
  BY <1>2, <1>3 DEF Abstract!Free
<1>. QED  BY <1>4 DEF Abstract!Next

\* A step that moves no command is a stuttering step.
LEMMA KeepMaps ==
  ASSUME TypeInv, ListInv, KeepLists
  PROVE  UNCHANGED Abstract!vars
<1>1. /\ Queued' = Queued /\ Done' = Done /\ UNCHANGED <<cmds_in_flight, unique>>
  BY DEF KeepLists, listVars, Queued, Done
<1>2. phase' = phase
  BY <1>1, PhaseFacts
<1>3. HasSocket' = HasSocket
  BY DEF KeepLists, HasSocket
<1>. QED  BY <1>2, <1>3 DEF Abstract!vars
=============================================================================
