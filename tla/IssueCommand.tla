---------------------------- MODULE IssueCommand ----------------------------
(***************************************************************************)
(* generator/states-issue-command.c: sending the request at the head of    *)
(* cmds_to_issue, which a readable socket may interrupt at any point.      *)
(***************************************************************************)
EXTENDS Handle

IssueAgain ==
  /\ At("ISSUE.START")
  /\ cmds_to_issue # <<>>
  /\ req' = Head(cmds_to_issue)
  /\ wlen' = ReqLen
  /\ wbuf' = "req"
  /\ SET_NEXT_STATE("SEND_REQUEST")
  /\ UNCHANGED <<in_write_payload, in_write_shutdown, listVars, cmd, recvVars,
                 netVars, histVars>>

IssueStart ==
  /\ At("ISSUE.START")
  /\ cmds_to_issue # <<>>
  /\ \/ /\ ~in_write_shutdown /\ wlen > 0
        /\ SET_NEXT_STATE_AND_BLOCK(IF in_write_payload
                                    THEN "SEND_WRITE_PAYLOAD"
                                    ELSE "SEND_REQUEST")
        /\ UNCHANGED sendVars
     \* SET_NEXT_STATE_AND_BLOCK (%SEND_WRITE_SHUTDOWN) does not return: the
     \* request is prepared again and the state overwritten.
     \/ /\ in_write_shutdown \/ wlen = 0
        /\ req' = Head(cmds_to_issue)
        /\ wlen' = ReqLen
        /\ wbuf' = "req"
        /\ SET_NEXT_STATE("SEND_REQUEST")
        /\ UNCHANGED <<in_write_payload, in_write_shutdown>>
  /\ UNCHANGED <<listVars, cmd, recvVars, netVars, histVars>>

\* SEND_REQUEST and SEND_WRITE_PAYLOAD differ only in what comes next.
SendThen(next) ==
  \/ SendError
  \/ /\ SendSome
     /\ IF wlen' = 0 THEN SET_NEXT_STATE(next) ELSE Block
     /\ UNCHANGED <<listVars, cmd, recvVars, histVars>>

SendRequest == At("SEND_REQUEST") /\ SendThen("PREPARE_WRITE_PAYLOAD")

SendWritePayload == At("SEND_WRITE_PAYLOAD") /\ SendThen("ISSUE.FINISH")

PauseSendRequest ==
  /\ At("PAUSE_SEND_REQUEST")
  /\ wlen > 0 /\ cmds_to_issue # <<>>
  /\ in_write_payload' = FALSE
  /\ SET_NEXT_STATE("REPLY.START")
  /\ UNCHANGED <<listVars, cmd, wbuf, wlen, req, in_write_shutdown, recvVars,
                 netVars, histVars>>

PrepareWritePayload ==
  /\ At("PREPARE_WRITE_PAYLOAD")
  /\ cmds_to_issue # <<>>
  /\ LET c == Head(cmds_to_issue)
     IN  /\ c = req
         /\ \/ /\ \/ cmd[c].type = "WRITE"
                  \/ /\ extended_headers /\ cmd[c].type = "BLOCK_STATUS"
                     /\ cmd[c].payload
               /\ wbuf' = "data"
               /\ wlen' = cmd[c].count
               /\ SET_NEXT_STATE("SEND_WRITE_PAYLOAD")
               /\ UNCHANGED in_write_shutdown
            \/ /\ cmd[c].type = "DISC"
               /\ in_write_shutdown' = TRUE
               /\ SET_NEXT_STATE("SEND_WRITE_SHUTDOWN")
               /\ UNCHANGED <<wbuf, wlen>>
            \/ /\ \/ cmd[c].type \in {"READ", "OTHER"}
                  \/ /\ cmd[c].type = "BLOCK_STATUS"
                     /\ ~(extended_headers /\ cmd[c].payload)
               /\ SET_NEXT_STATE("ISSUE.FINISH")
               /\ UNCHANGED <<wbuf, wlen, in_write_shutdown>>
  /\ UNCHANGED <<listVars, cmd, req, in_write_payload, recvVars, netVars,
                 histVars>>

PauseWritePayload ==
  /\ At("PAUSE_WRITE_PAYLOAD")
  /\ wlen > 0 /\ cmds_to_issue # <<>>
  /\ in_write_payload' = TRUE
  /\ SET_NEXT_STATE("REPLY.START")
  /\ UNCHANGED <<listVars, cmd, wbuf, wlen, req, in_write_shutdown, recvVars,
                 netVars, histVars>>

\* shut_writes of a plain socket is shutdown(2) and always succeeds; that of a
\* TLS session is gnutls_bye, which may want to be called again.
SendWriteShutdown ==
  /\ At("SEND_WRITE_SHUTDOWN")
  /\ \/ SET_NEXT_STATE("ISSUE.FINISH")
     \/ Tls /\ Block
  /\ UNCHANGED <<listVars, cmd, sendVars, recvVars, netVars, histVars>>

PauseWriteShutdown ==
  /\ At("PAUSE_WRITE_SHUTDOWN")
  /\ in_write_shutdown
  /\ SET_NEXT_STATE("REPLY.START")
  /\ UNCHANGED <<listVars, cmd, sendVars, recvVars, netVars, histVars>>

SameTail == cmds_to_issue_tail
\* The queue and the list in flight once req has been moved between them.
TailAfterIssue == IF cmds_to_issue_tail = req THEN NULL ELSE cmds_to_issue_tail

SameFlight == cmds_in_flight
FlightAfterIssue == cmds_in_flight \cup {req}

IssueFinish ==
  /\ At("ISSUE.FINISH")
  /\ wlen = 0 /\ cmds_to_issue # <<>> /\ Head(cmds_to_issue) = req
  /\ cmds_to_issue' = Tail(cmds_to_issue)
  /\ cmds_to_issue_tail' = TailAfterIssue
  /\ cmds_in_flight' = FlightAfterIssue
  /\ SET_NEXT_STATE("READY")
  /\ UNCHANGED <<cmds_done, cmds_done_tail, in_flight, unique,
                 disconnect_request, cmd, sendVars, recvVars, netVars, histVars>>

IssueStep ==
  \/ IssueStart \/ SendRequest \/ PauseSendRequest \/ PrepareWritePayload
  \/ SendWritePayload \/ PauseWritePayload \/ SendWriteShutdown
  \/ PauseWriteShutdown \/ IssueFinish

(***************************************************************************)
(* The assert()s of these handlers, each at the state whose handler makes  *)
(* it.                                                                     *)
(***************************************************************************)

\* Whenever a handler of generator/states-issue-command.c runs, its assert()s
\* hold: there is a command to issue, it is the one whose header is in h->req,
\* a paused send has something left and a finished one nothing.
IssueAsserts ==
  running =>
    /\ state \in IssueStates \ {"SEND_REQUEST", "SEND_WRITE_PAYLOAD",
                                "SEND_WRITE_SHUTDOWN", "PAUSE_WRITE_SHUTDOWN"}
         => cmds_to_issue # <<>>
    /\ state \in {"PAUSE_SEND_REQUEST", "PAUSE_WRITE_PAYLOAD"} => wlen > 0
    /\ state \in {"PREPARE_WRITE_PAYLOAD", "ISSUE.FINISH"}
         => cmds_to_issue # <<>> /\ Head(cmds_to_issue) = req
    /\ state = "PAUSE_WRITE_SHUTDOWN" => in_write_shutdown
    /\ state = "ISSUE.FINISH" => wlen = 0
=============================================================================
