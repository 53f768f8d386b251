----------------------------- MODULE StateGraph -----------------------------
(***************************************************************************)
(* The control graph of the state machine of a handle: for the handler of  *)
(* each state (lib/states.c, generated from generator/states*.c), where it *)
(* can send the machine.  A handler that calls SET_NEXT_STATE lets         *)
(* nbd_internal_run go on to a state of next; one that does not, or calls  *)
(* SET_NEXT_STATE_AND_BLOCK, stops it in a state of waits; one that        *)
(* returns -1 stops it, with an error, in a state of fails.                *)
(*                                                                         *)
(* The modules Connect, Negotiation, IssueCommand, Reply and ChunkReply    *)
(* say what the handlers do; this one keeps only where they lead.  The     *)
(* groups NEWSTYLE, ISSUE_COMMAND and REPLY are left out of the names of   *)
(* their states where no two states would have the same name.              *)
(***************************************************************************)

\* The state whose handler it is.
Itself == "itself"

\* The handler calls SET_NEXT_STATE on every path.
Goes(next) == [next |-> next, waits |-> {}, fails |-> {}]

\* Some path calls neither SET_NEXT_STATE nor returns -1.
Waits(next) == [next |-> next, waits |-> {Itself}, fails |-> {}]

\* Some path sets the next state and returns -1.
Fails(next, s) == [next |-> next, waits |-> {}, fails |-> {s}]

\* recv_into_rbuf or send_from_wbuf: an error kills the handle, a transfer
\* that is not complete waits for the socket.
Transfers(next) == Waits(next \cup {"DEAD"})

\* The same in the reply states, which give way to READY instead of waiting.
ReplyTransfers(next) == Goes(next \cup {"DEAD", "READY"})

\* h->reply_state: where save_reply_state makes REPLY.START come back to.
Resumable == {"RECV_STRUCTURED_REMAINING", "RECV_READ_PAYLOAD", "RECV_ERROR",
              "RECV_ERROR_MESSAGE", "RECV_ERROR_TAIL", "RECV_OFFSET_DATA",
              "RECV_OFFSET_DATA_DATA", "RECV_OFFSET_HOLE", "RECV_BS_HEADER",
              "RECV_BS_ENTRIES", "RESYNC"}

-----------------------------------------------------------------------------
(* Top level *)

enter_STATE_START == Waits({})
enter_STATE_NEGOTIATING == Waits({})
enter_STATE_READY == Waits({"ISSUE.START", "REPLY.START"})
enter_STATE_DEAD == Fails({}, "DEAD")
enter_STATE_CLOSED == Waits({})

-----------------------------------------------------------------------------
(* Connecting *)

enter_STATE_CONNECT_START == Waits({"DEAD"})
enter_STATE_CONNECT_CONNECTING == Goes({"DEAD", "MAGIC.START"})
enter_STATE_CONNECT_TCP_START == Fails({"CONNECT_TCP.CONNECT"}, "START")
enter_STATE_CONNECT_TCP_CONNECT ==
  Fails({"CONNECT_TCP.CONNECTING", "CONNECT_TCP.NEXT_ADDRESS", "DEAD"}, "START")
enter_STATE_CONNECT_TCP_CONNECTING ==
  Goes({"CONNECT_TCP.NEXT_ADDRESS", "DEAD", "MAGIC.START"})
enter_STATE_CONNECT_TCP_NEXT_ADDRESS == Goes({"CONNECT_TCP.CONNECT"})
enter_STATE_CONNECT_COMMAND_START == Goes({"DEAD", "MAGIC.START"})
enter_STATE_CONNECT_SA_START == Goes({"DEAD", "CONNECT.START"})

-----------------------------------------------------------------------------
(* Magic and oldstyle *)

enter_STATE_MAGIC_START == Goes({"MAGIC.RECV_MAGIC"})
enter_STATE_MAGIC_RECV_MAGIC == Transfers({"MAGIC.CHECK_MAGIC"})
enter_STATE_MAGIC_CHECK_MAGIC == Goes({"DEAD", "NEWSTYLE.START", "OLDSTYLE.START"})
enter_STATE_OLDSTYLE_START == Goes({"OLDSTYLE.RECV_REMAINING"})
enter_STATE_OLDSTYLE_RECV_REMAINING == Transfers({"OLDSTYLE.CHECK"})
enter_STATE_OLDSTYLE_CHECK == Goes({"DEAD", "READY"})

-----------------------------------------------------------------------------
(* Newstyle *)

enter_STATE_NEWSTYLE_START ==
  Goes({"DEAD", "NEWSTYLE.PREPARE_OPT_ABORT", "NEWSTYLE.RECV_GFLAGS",
        "OPT_EXPORT_NAME.START", "OPT_EXTENDED_HEADERS.START", "OPT_LIST.START",
        "OPT_META_CONTEXT.START", "OPT_STARTTLS.START", "OPT_STRUCTURED_REPLY.START"})
enter_STATE_NEWSTYLE_RECV_GFLAGS == Transfers({"NEWSTYLE.CHECK_GFLAGS"})
enter_STATE_NEWSTYLE_CHECK_GFLAGS == Goes({"DEAD", "NEWSTYLE.SEND_CFLAGS"})
enter_STATE_NEWSTYLE_SEND_CFLAGS ==
  Transfers({"NEGOTIATING", "OPT_EXPORT_NAME.START", "OPT_STARTTLS.START"})
enter_STATE_NEWSTYLE_PREPARE_OPT_ABORT == Goes({"NEWSTYLE.SEND_OPT_ABORT"})
enter_STATE_NEWSTYLE_SEND_OPT_ABORT == Transfers({"NEWSTYLE.SEND_OPTION_SHUTDOWN"})
enter_STATE_NEWSTYLE_SEND_OPTION_SHUTDOWN == Waits({"CLOSED", "DEAD"})
enter_STATE_NEWSTYLE_FINISHED == Goes({"READY"})

-----------------------------------------------------------------------------
(* NEWSTYLE.OPT_STARTTLS *)

enter_STATE_NEWSTYLE_OPT_STARTTLS_START ==
  Goes({"OPT_EXTENDED_HEADERS.START", "OPT_STARTTLS.SEND"})
enter_STATE_NEWSTYLE_OPT_STARTTLS_SEND == Transfers({"OPT_STARTTLS.RECV_REPLY"})
enter_STATE_NEWSTYLE_OPT_STARTTLS_RECV_REPLY ==
  Transfers({"OPT_STARTTLS.RECV_REPLY_PAYLOAD"})
enter_STATE_NEWSTYLE_OPT_STARTTLS_RECV_REPLY_PAYLOAD ==
  Transfers({"OPT_STARTTLS.CHECK_REPLY"})
enter_STATE_NEWSTYLE_OPT_STARTTLS_CHECK_REPLY ==
  Goes({"DEAD", "NEGOTIATING", "NEWSTYLE.PREPARE_OPT_ABORT",
        "OPT_EXTENDED_HEADERS.START", "OPT_STARTTLS.TLS_HANDSHAKE_READ",
        "OPT_STARTTLS.TLS_HANDSHAKE_WRITE"})
enter_STATE_NEWSTYLE_OPT_STARTTLS_TLS_HANDSHAKE_READ ==
  Goes({"DEAD", "OPT_STARTTLS.TLS_HANDSHAKE_DONE", "OPT_STARTTLS.TLS_HANDSHAKE_READ",
        "OPT_STARTTLS.TLS_HANDSHAKE_WRITE"})
enter_STATE_NEWSTYLE_OPT_STARTTLS_TLS_HANDSHAKE_WRITE ==
  Goes({"DEAD", "OPT_STARTTLS.TLS_HANDSHAKE_DONE", "OPT_STARTTLS.TLS_HANDSHAKE_READ",
        "OPT_STARTTLS.TLS_HANDSHAKE_WRITE"})
enter_STATE_NEWSTYLE_OPT_STARTTLS_TLS_HANDSHAKE_DONE ==
  Goes({"NEGOTIATING", "OPT_EXTENDED_HEADERS.START"})

-----------------------------------------------------------------------------
(* NEWSTYLE.OPT_EXTENDED_HEADERS *)

enter_STATE_NEWSTYLE_OPT_EXTENDED_HEADERS_START ==
  Goes({"OPT_EXTENDED_HEADERS.SEND", "OPT_STRUCTURED_REPLY.START"})
enter_STATE_NEWSTYLE_OPT_EXTENDED_HEADERS_SEND ==
  Transfers({"OPT_EXTENDED_HEADERS.RECV_REPLY"})
enter_STATE_NEWSTYLE_OPT_EXTENDED_HEADERS_RECV_REPLY ==
  Transfers({"OPT_EXTENDED_HEADERS.RECV_REPLY_PAYLOAD"})
enter_STATE_NEWSTYLE_OPT_EXTENDED_HEADERS_RECV_REPLY_PAYLOAD ==
  Transfers({"OPT_EXTENDED_HEADERS.CHECK_REPLY"})
enter_STATE_NEWSTYLE_OPT_EXTENDED_HEADERS_CHECK_REPLY ==
  Goes({"DEAD", "NEGOTIATING", "OPT_STRUCTURED_REPLY.START"})

-----------------------------------------------------------------------------
(* NEWSTYLE.OPT_STRUCTURED_REPLY *)

enter_STATE_NEWSTYLE_OPT_STRUCTURED_REPLY_START ==
  Goes({"NEGOTIATING", "OPT_META_CONTEXT.START", "OPT_STRUCTURED_REPLY.SEND"})
enter_STATE_NEWSTYLE_OPT_STRUCTURED_REPLY_SEND ==
  Transfers({"OPT_STRUCTURED_REPLY.RECV_REPLY"})
enter_STATE_NEWSTYLE_OPT_STRUCTURED_REPLY_RECV_REPLY ==
  Transfers({"OPT_STRUCTURED_REPLY.RECV_REPLY_PAYLOAD"})
enter_STATE_NEWSTYLE_OPT_STRUCTURED_REPLY_RECV_REPLY_PAYLOAD ==
  Transfers({"OPT_STRUCTURED_REPLY.CHECK_REPLY"})
enter_STATE_NEWSTYLE_OPT_STRUCTURED_REPLY_CHECK_REPLY ==
  Goes({"DEAD", "NEGOTIATING", "OPT_META_CONTEXT.START"})

-----------------------------------------------------------------------------
(* NEWSTYLE.OPT_META_CONTEXT *)

enter_STATE_NEWSTYLE_OPT_META_CONTEXT_START ==
  Goes({"DEAD", "OPT_GO.START", "OPT_META_CONTEXT.SEND"})
enter_STATE_NEWSTYLE_OPT_META_CONTEXT_SEND ==
  Transfers({"OPT_META_CONTEXT.SEND_EXPORTNAMELEN"})
enter_STATE_NEWSTYLE_OPT_META_CONTEXT_SEND_EXPORTNAMELEN ==
  Transfers({"OPT_META_CONTEXT.SEND_EXPORTNAME"})
enter_STATE_NEWSTYLE_OPT_META_CONTEXT_SEND_EXPORTNAME ==
  Transfers({"OPT_META_CONTEXT.SEND_NRQUERIES"})
enter_STATE_NEWSTYLE_OPT_META_CONTEXT_SEND_NRQUERIES ==
  Transfers({"OPT_META_CONTEXT.PREPARE_NEXT_QUERY"})
enter_STATE_NEWSTYLE_OPT_META_CONTEXT_PREPARE_NEXT_QUERY ==
  Goes({"OPT_META_CONTEXT.PREPARE_FOR_REPLY", "OPT_META_CONTEXT.SEND_QUERYLEN"})
enter_STATE_NEWSTYLE_OPT_META_CONTEXT_SEND_QUERYLEN ==
  Transfers({"OPT_META_CONTEXT.SEND_QUERY"})
enter_STATE_NEWSTYLE_OPT_META_CONTEXT_SEND_QUERY ==
  Transfers({"OPT_META_CONTEXT.PREPARE_NEXT_QUERY"})
enter_STATE_NEWSTYLE_OPT_META_CONTEXT_PREPARE_FOR_REPLY ==
  Goes({"OPT_META_CONTEXT.RECV_REPLY"})
enter_STATE_NEWSTYLE_OPT_META_CONTEXT_RECV_REPLY ==
  Transfers({"OPT_META_CONTEXT.RECV_REPLY_PAYLOAD"})
enter_STATE_NEWSTYLE_OPT_META_CONTEXT_RECV_REPLY_PAYLOAD ==
  Transfers({"OPT_META_CONTEXT.CHECK_REPLY"})
enter_STATE_NEWSTYLE_OPT_META_CONTEXT_CHECK_REPLY ==
  Goes({"DEAD", "NEGOTIATING", "OPT_GO.START", "OPT_META_CONTEXT.PREPARE_FOR_REPLY"})

-----------------------------------------------------------------------------
(* NEWSTYLE.OPT_GO *)

enter_STATE_NEWSTYLE_OPT_GO_START == Goes({"OPT_GO.SEND"})
enter_STATE_NEWSTYLE_OPT_GO_SEND == Transfers({"OPT_GO.SEND_EXPORTNAMELEN"})
enter_STATE_NEWSTYLE_OPT_GO_SEND_EXPORTNAMELEN == Transfers({"OPT_GO.SEND_EXPORT"})
enter_STATE_NEWSTYLE_OPT_GO_SEND_EXPORT == Transfers({"OPT_GO.SEND_NRINFOS"})
enter_STATE_NEWSTYLE_OPT_GO_SEND_NRINFOS == Transfers({"OPT_GO.SEND_INFO"})
enter_STATE_NEWSTYLE_OPT_GO_SEND_INFO == Transfers({"OPT_GO.RECV_REPLY"})
enter_STATE_NEWSTYLE_OPT_GO_RECV_REPLY == Transfers({"OPT_GO.RECV_REPLY_PAYLOAD"})
enter_STATE_NEWSTYLE_OPT_GO_RECV_REPLY_PAYLOAD == Transfers({"OPT_GO.CHECK_REPLY"})
enter_STATE_NEWSTYLE_OPT_GO_CHECK_REPLY ==
  Goes({"DEAD", "NEGOTIATING", "NEWSTYLE.FINISHED", "NEWSTYLE.PREPARE_OPT_ABORT",
        "OPT_EXPORT_NAME.START", "OPT_GO.RECV_REPLY"})

-----------------------------------------------------------------------------
(* NEWSTYLE.OPT_EXPORT_NAME *)

enter_STATE_NEWSTYLE_OPT_EXPORT_NAME_START == Goes({"OPT_EXPORT_NAME.SEND"})
enter_STATE_NEWSTYLE_OPT_EXPORT_NAME_SEND == Transfers({"OPT_EXPORT_NAME.SEND_EXPORT"})
enter_STATE_NEWSTYLE_OPT_EXPORT_NAME_SEND_EXPORT ==
  Transfers({"OPT_EXPORT_NAME.RECV_REPLY"})
enter_STATE_NEWSTYLE_OPT_EXPORT_NAME_RECV_REPLY ==
  Transfers({"OPT_EXPORT_NAME.CHECK_REPLY"})
enter_STATE_NEWSTYLE_OPT_EXPORT_NAME_CHECK_REPLY == Goes({"DEAD", "NEWSTYLE.FINISHED"})

-----------------------------------------------------------------------------
(* NEWSTYLE.OPT_LIST *)

enter_STATE_NEWSTYLE_OPT_LIST_START == Goes({"OPT_LIST.SEND"})
enter_STATE_NEWSTYLE_OPT_LIST_SEND == Transfers({"OPT_LIST.RECV_REPLY"})
enter_STATE_NEWSTYLE_OPT_LIST_RECV_REPLY == Transfers({"OPT_LIST.RECV_REPLY_PAYLOAD"})
enter_STATE_NEWSTYLE_OPT_LIST_RECV_REPLY_PAYLOAD == Transfers({"OPT_LIST.CHECK_REPLY"})
enter_STATE_NEWSTYLE_OPT_LIST_CHECK_REPLY ==
  Goes({"DEAD", "NEGOTIATING", "OPT_LIST.RECV_REPLY"})

-----------------------------------------------------------------------------
(* Issuing a command *)

\* The first branch, after an interrupted shutdown, has no return: the
\* SET_NEXT_STATE at the end of the handler has the last word.
enter_STATE_ISSUE_COMMAND_START ==
  [next |-> {"SEND_REQUEST"}, fails |-> {},
   waits |-> {"SEND_REQUEST",
        "SEND_WRITE_PAYLOAD"}]
enter_STATE_ISSUE_COMMAND_SEND_REQUEST == Transfers({"PREPARE_WRITE_PAYLOAD"})
enter_STATE_ISSUE_COMMAND_PAUSE_SEND_REQUEST == Goes({"REPLY.START"})
enter_STATE_ISSUE_COMMAND_PREPARE_WRITE_PAYLOAD ==
  Goes({"ISSUE.FINISH", "SEND_WRITE_PAYLOAD", "SEND_WRITE_SHUTDOWN"})
enter_STATE_ISSUE_COMMAND_SEND_WRITE_PAYLOAD == Transfers({"ISSUE.FINISH"})
enter_STATE_ISSUE_COMMAND_PAUSE_WRITE_PAYLOAD == Goes({"REPLY.START"})
enter_STATE_ISSUE_COMMAND_SEND_WRITE_SHUTDOWN == Waits({"ISSUE.FINISH"})
enter_STATE_ISSUE_COMMAND_PAUSE_WRITE_SHUTDOWN == Goes({"REPLY.START"})
enter_STATE_ISSUE_COMMAND_FINISH == Goes({"READY"})

-----------------------------------------------------------------------------
(* Replies *)

enter_STATE_REPLY_START == Waits({"CLOSED", "DEAD", "RECV_REPLY"} \cup Resumable)
enter_STATE_REPLY_RECV_REPLY == ReplyTransfers({"CHECK_REPLY_MAGIC"})
enter_STATE_REPLY_CHECK_REPLY_MAGIC ==
  Goes({"CHUNK.START", "DEAD", "RECV_STRUCTURED_REMAINING", "SIMPLE.START"})
enter_STATE_REPLY_RECV_STRUCTURED_REMAINING == ReplyTransfers({"CHUNK.START"})
enter_STATE_REPLY_FINISH_COMMAND == Goes({"READY"})

-----------------------------------------------------------------------------
(* Simple replies and chunks *)

enter_STATE_REPLY_SIMPLE_REPLY_START ==
  Goes({"DEAD", "FINISH_COMMAND", "RECV_READ_PAYLOAD"})
enter_STATE_REPLY_SIMPLE_REPLY_RECV_READ_PAYLOAD == ReplyTransfers({"FINISH_COMMAND"})
enter_STATE_REPLY_CHUNK_REPLY_START ==
  Goes({"CHUNK.FINISH", "DEAD", "RECV_BS_HEADER", "RECV_ERROR", "RECV_OFFSET_DATA",
        "RECV_OFFSET_HOLE", "RESYNC"})
enter_STATE_REPLY_CHUNK_REPLY_RECV_ERROR ==
  ReplyTransfers({"RECV_ERROR_MESSAGE", "RESYNC"})
enter_STATE_REPLY_CHUNK_REPLY_RECV_ERROR_MESSAGE == ReplyTransfers({"RECV_ERROR_TAIL"})
enter_STATE_REPLY_CHUNK_REPLY_RECV_ERROR_TAIL == ReplyTransfers({"CHUNK.FINISH"})
enter_STATE_REPLY_CHUNK_REPLY_RECV_OFFSET_DATA ==
  ReplyTransfers({"RECV_OFFSET_DATA_DATA"})
enter_STATE_REPLY_CHUNK_REPLY_RECV_OFFSET_DATA_DATA == ReplyTransfers({"CHUNK.FINISH"})
enter_STATE_REPLY_CHUNK_REPLY_RECV_OFFSET_HOLE == ReplyTransfers({"CHUNK.FINISH"})
enter_STATE_REPLY_CHUNK_REPLY_RECV_BS_HEADER ==
  ReplyTransfers({"RECV_BS_ENTRIES", "RESYNC"})
enter_STATE_REPLY_CHUNK_REPLY_RECV_BS_ENTRIES == ReplyTransfers({"CHUNK.FINISH"})
enter_STATE_REPLY_CHUNK_REPLY_RESYNC ==
  ReplyTransfers({"CHUNK.FINISH", "FINISH_COMMAND"})
enter_STATE_REPLY_CHUNK_REPLY_FINISH == Goes({"FINISH_COMMAND", "READY"})

-----------------------------------------------------------------------------
\* The switch in the loop of nbd_internal_run: the handler of each state.
CONNECT_handlers ==
  {<<"START", enter_STATE_START>>,
   <<"CONNECT.START", enter_STATE_CONNECT_START>>,
   <<"CONNECT.CONNECTING", enter_STATE_CONNECT_CONNECTING>>,
   <<"CONNECT_TCP.START", enter_STATE_CONNECT_TCP_START>>,
   <<"CONNECT_TCP.CONNECT", enter_STATE_CONNECT_TCP_CONNECT>>,
   <<"CONNECT_TCP.CONNECTING", enter_STATE_CONNECT_TCP_CONNECTING>>,
   <<"CONNECT_TCP.NEXT_ADDRESS", enter_STATE_CONNECT_TCP_NEXT_ADDRESS>>,
   <<"CONNECT_COMMAND.START", enter_STATE_CONNECT_COMMAND_START>>,
   <<"CONNECT_SA.START", enter_STATE_CONNECT_SA_START>>,
   <<"MAGIC.START", enter_STATE_MAGIC_START>>,
   <<"MAGIC.RECV_MAGIC", enter_STATE_MAGIC_RECV_MAGIC>>,
   <<"MAGIC.CHECK_MAGIC", enter_STATE_MAGIC_CHECK_MAGIC>>,
   <<"OLDSTYLE.START", enter_STATE_OLDSTYLE_START>>,
   <<"OLDSTYLE.RECV_REMAINING", enter_STATE_OLDSTYLE_RECV_REMAINING>>,
   <<"OLDSTYLE.CHECK", enter_STATE_OLDSTYLE_CHECK>>}

NEWSTYLE_handlers ==
  {<<"NEWSTYLE.START", enter_STATE_NEWSTYLE_START>>,
   <<"NEWSTYLE.RECV_GFLAGS", enter_STATE_NEWSTYLE_RECV_GFLAGS>>,
   <<"NEWSTYLE.CHECK_GFLAGS", enter_STATE_NEWSTYLE_CHECK_GFLAGS>>,
   <<"NEWSTYLE.SEND_CFLAGS", enter_STATE_NEWSTYLE_SEND_CFLAGS>>,
   <<"OPT_STARTTLS.START", enter_STATE_NEWSTYLE_OPT_STARTTLS_START>>,
   <<"OPT_STARTTLS.SEND", enter_STATE_NEWSTYLE_OPT_STARTTLS_SEND>>,
   <<"OPT_STARTTLS.RECV_REPLY", enter_STATE_NEWSTYLE_OPT_STARTTLS_RECV_REPLY>>,
   <<"OPT_STARTTLS.RECV_REPLY_PAYLOAD", enter_STATE_NEWSTYLE_OPT_STARTTLS_RECV_REPLY_PAYLOAD>>,
   <<"OPT_STARTTLS.CHECK_REPLY", enter_STATE_NEWSTYLE_OPT_STARTTLS_CHECK_REPLY>>,
   <<"OPT_STARTTLS.TLS_HANDSHAKE_READ", enter_STATE_NEWSTYLE_OPT_STARTTLS_TLS_HANDSHAKE_READ>>,
   <<"OPT_STARTTLS.TLS_HANDSHAKE_WRITE", enter_STATE_NEWSTYLE_OPT_STARTTLS_TLS_HANDSHAKE_WRITE>>,
   <<"OPT_STARTTLS.TLS_HANDSHAKE_DONE", enter_STATE_NEWSTYLE_OPT_STARTTLS_TLS_HANDSHAKE_DONE>>,
   <<"OPT_EXTENDED_HEADERS.START", enter_STATE_NEWSTYLE_OPT_EXTENDED_HEADERS_START>>,
   <<"OPT_EXTENDED_HEADERS.SEND", enter_STATE_NEWSTYLE_OPT_EXTENDED_HEADERS_SEND>>,
   <<"OPT_EXTENDED_HEADERS.RECV_REPLY", enter_STATE_NEWSTYLE_OPT_EXTENDED_HEADERS_RECV_REPLY>>,
   <<"OPT_EXTENDED_HEADERS.RECV_REPLY_PAYLOAD", enter_STATE_NEWSTYLE_OPT_EXTENDED_HEADERS_RECV_REPLY_PAYLOAD>>,
   <<"OPT_EXTENDED_HEADERS.CHECK_REPLY", enter_STATE_NEWSTYLE_OPT_EXTENDED_HEADERS_CHECK_REPLY>>}

OPT_META_CONTEXT_handlers ==
  {<<"OPT_STRUCTURED_REPLY.START", enter_STATE_NEWSTYLE_OPT_STRUCTURED_REPLY_START>>,
   <<"OPT_STRUCTURED_REPLY.SEND", enter_STATE_NEWSTYLE_OPT_STRUCTURED_REPLY_SEND>>,
   <<"OPT_STRUCTURED_REPLY.RECV_REPLY", enter_STATE_NEWSTYLE_OPT_STRUCTURED_REPLY_RECV_REPLY>>,
   <<"OPT_STRUCTURED_REPLY.RECV_REPLY_PAYLOAD", enter_STATE_NEWSTYLE_OPT_STRUCTURED_REPLY_RECV_REPLY_PAYLOAD>>,
   <<"OPT_STRUCTURED_REPLY.CHECK_REPLY", enter_STATE_NEWSTYLE_OPT_STRUCTURED_REPLY_CHECK_REPLY>>,
   <<"OPT_META_CONTEXT.START", enter_STATE_NEWSTYLE_OPT_META_CONTEXT_START>>,
   <<"OPT_META_CONTEXT.SEND", enter_STATE_NEWSTYLE_OPT_META_CONTEXT_SEND>>,
   <<"OPT_META_CONTEXT.SEND_EXPORTNAMELEN", enter_STATE_NEWSTYLE_OPT_META_CONTEXT_SEND_EXPORTNAMELEN>>,
   <<"OPT_META_CONTEXT.SEND_EXPORTNAME", enter_STATE_NEWSTYLE_OPT_META_CONTEXT_SEND_EXPORTNAME>>,
   <<"OPT_META_CONTEXT.SEND_NRQUERIES", enter_STATE_NEWSTYLE_OPT_META_CONTEXT_SEND_NRQUERIES>>,
   <<"OPT_META_CONTEXT.PREPARE_NEXT_QUERY", enter_STATE_NEWSTYLE_OPT_META_CONTEXT_PREPARE_NEXT_QUERY>>,
   <<"OPT_META_CONTEXT.SEND_QUERYLEN", enter_STATE_NEWSTYLE_OPT_META_CONTEXT_SEND_QUERYLEN>>,
   <<"OPT_META_CONTEXT.SEND_QUERY", enter_STATE_NEWSTYLE_OPT_META_CONTEXT_SEND_QUERY>>,
   <<"OPT_META_CONTEXT.PREPARE_FOR_REPLY", enter_STATE_NEWSTYLE_OPT_META_CONTEXT_PREPARE_FOR_REPLY>>,
   <<"OPT_META_CONTEXT.RECV_REPLY", enter_STATE_NEWSTYLE_OPT_META_CONTEXT_RECV_REPLY>>,
   <<"OPT_META_CONTEXT.RECV_REPLY_PAYLOAD", enter_STATE_NEWSTYLE_OPT_META_CONTEXT_RECV_REPLY_PAYLOAD>>,
   <<"OPT_META_CONTEXT.CHECK_REPLY", enter_STATE_NEWSTYLE_OPT_META_CONTEXT_CHECK_REPLY>>}

OPT_GO_handlers ==
  {<<"OPT_GO.START", enter_STATE_NEWSTYLE_OPT_GO_START>>,
   <<"OPT_GO.SEND", enter_STATE_NEWSTYLE_OPT_GO_SEND>>,
   <<"OPT_GO.SEND_EXPORTNAMELEN", enter_STATE_NEWSTYLE_OPT_GO_SEND_EXPORTNAMELEN>>,
   <<"OPT_GO.SEND_EXPORT", enter_STATE_NEWSTYLE_OPT_GO_SEND_EXPORT>>,
   <<"OPT_GO.SEND_NRINFOS", enter_STATE_NEWSTYLE_OPT_GO_SEND_NRINFOS>>,
   <<"OPT_GO.SEND_INFO", enter_STATE_NEWSTYLE_OPT_GO_SEND_INFO>>,
   <<"OPT_GO.RECV_REPLY", enter_STATE_NEWSTYLE_OPT_GO_RECV_REPLY>>,
   <<"OPT_GO.RECV_REPLY_PAYLOAD", enter_STATE_NEWSTYLE_OPT_GO_RECV_REPLY_PAYLOAD>>,
   <<"OPT_GO.CHECK_REPLY", enter_STATE_NEWSTYLE_OPT_GO_CHECK_REPLY>>,
   <<"OPT_EXPORT_NAME.START", enter_STATE_NEWSTYLE_OPT_EXPORT_NAME_START>>,
   <<"OPT_EXPORT_NAME.SEND", enter_STATE_NEWSTYLE_OPT_EXPORT_NAME_SEND>>,
   <<"OPT_EXPORT_NAME.SEND_EXPORT", enter_STATE_NEWSTYLE_OPT_EXPORT_NAME_SEND_EXPORT>>,
   <<"OPT_EXPORT_NAME.RECV_REPLY", enter_STATE_NEWSTYLE_OPT_EXPORT_NAME_RECV_REPLY>>,
   <<"OPT_EXPORT_NAME.CHECK_REPLY", enter_STATE_NEWSTYLE_OPT_EXPORT_NAME_CHECK_REPLY>>}

OPT_LIST_handlers ==
  {<<"OPT_LIST.START", enter_STATE_NEWSTYLE_OPT_LIST_START>>,
   <<"OPT_LIST.SEND", enter_STATE_NEWSTYLE_OPT_LIST_SEND>>,
   <<"OPT_LIST.RECV_REPLY", enter_STATE_NEWSTYLE_OPT_LIST_RECV_REPLY>>,
   <<"OPT_LIST.RECV_REPLY_PAYLOAD", enter_STATE_NEWSTYLE_OPT_LIST_RECV_REPLY_PAYLOAD>>,
   <<"OPT_LIST.CHECK_REPLY", enter_STATE_NEWSTYLE_OPT_LIST_CHECK_REPLY>>,
   <<"NEWSTYLE.PREPARE_OPT_ABORT", enter_STATE_NEWSTYLE_PREPARE_OPT_ABORT>>,
   <<"NEWSTYLE.SEND_OPT_ABORT", enter_STATE_NEWSTYLE_SEND_OPT_ABORT>>,
   <<"NEWSTYLE.SEND_OPTION_SHUTDOWN", enter_STATE_NEWSTYLE_SEND_OPTION_SHUTDOWN>>,
   <<"NEWSTYLE.FINISHED", enter_STATE_NEWSTYLE_FINISHED>>}

ISSUE_handlers ==
  {<<"NEGOTIATING", enter_STATE_NEGOTIATING>>,
   <<"READY", enter_STATE_READY>>,
   <<"ISSUE.START", enter_STATE_ISSUE_COMMAND_START>>,
   <<"SEND_REQUEST", enter_STATE_ISSUE_COMMAND_SEND_REQUEST>>,
   <<"PAUSE_SEND_REQUEST", enter_STATE_ISSUE_COMMAND_PAUSE_SEND_REQUEST>>,
   <<"PREPARE_WRITE_PAYLOAD", enter_STATE_ISSUE_COMMAND_PREPARE_WRITE_PAYLOAD>>,
   <<"SEND_WRITE_PAYLOAD", enter_STATE_ISSUE_COMMAND_SEND_WRITE_PAYLOAD>>,
   <<"PAUSE_WRITE_PAYLOAD", enter_STATE_ISSUE_COMMAND_PAUSE_WRITE_PAYLOAD>>,
   <<"SEND_WRITE_SHUTDOWN", enter_STATE_ISSUE_COMMAND_SEND_WRITE_SHUTDOWN>>,
   <<"PAUSE_WRITE_SHUTDOWN", enter_STATE_ISSUE_COMMAND_PAUSE_WRITE_SHUTDOWN>>,
   <<"ISSUE.FINISH", enter_STATE_ISSUE_COMMAND_FINISH>>}

REPLY_handlers ==
  {<<"REPLY.START", enter_STATE_REPLY_START>>,
   <<"RECV_REPLY", enter_STATE_REPLY_RECV_REPLY>>,
   <<"CHECK_REPLY_MAGIC", enter_STATE_REPLY_CHECK_REPLY_MAGIC>>,
   <<"RECV_STRUCTURED_REMAINING", enter_STATE_REPLY_RECV_STRUCTURED_REMAINING>>,
   <<"SIMPLE.START", enter_STATE_REPLY_SIMPLE_REPLY_START>>,
   <<"RECV_READ_PAYLOAD", enter_STATE_REPLY_SIMPLE_REPLY_RECV_READ_PAYLOAD>>,
   <<"CHUNK.START", enter_STATE_REPLY_CHUNK_REPLY_START>>,
   <<"RECV_ERROR", enter_STATE_REPLY_CHUNK_REPLY_RECV_ERROR>>,
   <<"RECV_ERROR_MESSAGE", enter_STATE_REPLY_CHUNK_REPLY_RECV_ERROR_MESSAGE>>,
   <<"RECV_ERROR_TAIL", enter_STATE_REPLY_CHUNK_REPLY_RECV_ERROR_TAIL>>,
   <<"RECV_OFFSET_DATA", enter_STATE_REPLY_CHUNK_REPLY_RECV_OFFSET_DATA>>,
   <<"RECV_OFFSET_DATA_DATA", enter_STATE_REPLY_CHUNK_REPLY_RECV_OFFSET_DATA_DATA>>,
   <<"RECV_OFFSET_HOLE", enter_STATE_REPLY_CHUNK_REPLY_RECV_OFFSET_HOLE>>,
   <<"RECV_BS_HEADER", enter_STATE_REPLY_CHUNK_REPLY_RECV_BS_HEADER>>,
   <<"RECV_BS_ENTRIES", enter_STATE_REPLY_CHUNK_REPLY_RECV_BS_ENTRIES>>,
   <<"RESYNC", enter_STATE_REPLY_CHUNK_REPLY_RESYNC>>,
   <<"CHUNK.FINISH", enter_STATE_REPLY_CHUNK_REPLY_FINISH>>,
   <<"FINISH_COMMAND", enter_STATE_REPLY_FINISH_COMMAND>>,
   <<"DEAD", enter_STATE_DEAD>>,
   <<"CLOSED", enter_STATE_CLOSED>>}

Handlers ==
  UNION {CONNECT_handlers, NEWSTYLE_handlers, OPT_META_CONTEXT_handlers, OPT_GO_handlers,
         OPT_LIST_handlers, ISSUE_handlers, REPLY_handlers}

\* A handler lets the machine go on, blocks it, or fails: from the state whose
\* handler it is to the state it leaves.
Continues == UNION {{<<h[1], s>> : s \in h[2].next} : h \in Handlers}
StopsIn == UNION {{<<h[1], IF s = Itself THEN h[1] ELSE s>> : s \in h[2].waits} : h \in Handlers}
FailsIn == UNION {{<<h[1], s>> : s \in h[2].fails} : h \in Handlers}
=============================================================================
