------------------------------ MODULE Dispatch ------------------------------
(***************************************************************************)
(* lib/states-run.c and lib/is-state.c: which external events a state      *)
(* accepts and where they lead, which way a state waits for the socket,    *)
(* the groups of states and the classes the API asks about.                *)
(***************************************************************************)
EXTENDS StateGraph

-----------------------------------------------------------------------------
(* The first switch of nbd_internal_run, by group: <<state, event, state>>. *)

\* The event is accepted and the handler of the same state runs again.
Again(event, S) == {<<s, event, s>> : s \in S}

START_events ==
  {<<"START", "cmd_create", "START">>,
   <<"START", "cmd_connect_sockaddr", "CONNECT.START">>,
   <<"START", "cmd_connect_tcp", "CONNECT_TCP.START">>,
   <<"START", "cmd_connect_command", "CONNECT_COMMAND.START">>,
   <<"START", "cmd_connect_sa", "CONNECT_SA.START">>,
   <<"START", "cmd_connect_socket", "MAGIC.START">>}

CONNECT_events ==
  {<<"CONNECT.START", "notify_write", "CONNECT.CONNECTING">>,
   <<"CONNECT_TCP.CONNECT", "notify_write", "CONNECT_TCP.CONNECTING">>}
  \cup Again("notify_write", {"CONNECT.CONNECTING", "CONNECT_TCP.CONNECTING"})

MAGIC_events == Again("notify_read", {"MAGIC.RECV_MAGIC", "OLDSTYLE.RECV_REMAINING"})

NEWSTYLE_events ==
  Again("notify_read", {"NEWSTYLE.RECV_GFLAGS"})
  \cup Again("notify_write", {"NEWSTYLE.SEND_CFLAGS"})

OPT_STARTTLS_events ==
  Again("notify_read", {"OPT_STARTTLS.RECV_REPLY", "OPT_STARTTLS.RECV_REPLY_PAYLOAD",
                        "OPT_STARTTLS.TLS_HANDSHAKE_READ"})
  \cup Again("notify_write", {"OPT_STARTTLS.SEND", "OPT_STARTTLS.TLS_HANDSHAKE_WRITE"})

OPT_EXTENDED_HEADERS_events ==
  Again("notify_read", {"OPT_EXTENDED_HEADERS.RECV_REPLY",
                        "OPT_EXTENDED_HEADERS.RECV_REPLY_PAYLOAD"})
  \cup Again("notify_write", {"OPT_EXTENDED_HEADERS.SEND"})

OPT_STRUCTURED_REPLY_events ==
  Again("notify_read", {"OPT_STRUCTURED_REPLY.RECV_REPLY",
                        "OPT_STRUCTURED_REPLY.RECV_REPLY_PAYLOAD"})
  \cup Again("notify_write", {"OPT_STRUCTURED_REPLY.SEND"})

OPT_META_CONTEXT_events ==
  Again("notify_read", {"OPT_META_CONTEXT.RECV_REPLY",
                        "OPT_META_CONTEXT.RECV_REPLY_PAYLOAD"})
  \cup Again("notify_write", {"OPT_META_CONTEXT.SEND", "OPT_META_CONTEXT.SEND_EXPORTNAMELEN",
                              "OPT_META_CONTEXT.SEND_EXPORTNAME",
                              "OPT_META_CONTEXT.SEND_NRQUERIES",
                              "OPT_META_CONTEXT.SEND_QUERYLEN",
                              "OPT_META_CONTEXT.SEND_QUERY"})

OPT_GO_events ==
  Again("notify_read", {"OPT_GO.RECV_REPLY", "OPT_GO.RECV_REPLY_PAYLOAD"})
  \cup Again("notify_write", {"OPT_GO.SEND", "OPT_GO.SEND_EXPORTNAMELEN",
                              "OPT_GO.SEND_EXPORT", "OPT_GO.SEND_NRINFOS",
                              "OPT_GO.SEND_INFO"})

OPT_EXPORT_NAME_events ==
  Again("notify_read", {"OPT_EXPORT_NAME.RECV_REPLY"})
  \cup Again("notify_write", {"OPT_EXPORT_NAME.SEND", "OPT_EXPORT_NAME.SEND_EXPORT"})

OPT_LIST_events ==
  Again("notify_read", {"OPT_LIST.RECV_REPLY", "OPT_LIST.RECV_REPLY_PAYLOAD"})
  \cup Again("notify_write", {"OPT_LIST.SEND"})

OPT_ABORT_events ==
  Again("notify_write", {"NEWSTYLE.SEND_OPT_ABORT", "NEWSTYLE.SEND_OPTION_SHUTDOWN"})

READY_events ==
  {<<"NEGOTIATING", "cmd_issue", "NEWSTYLE.START">>,
   <<"READY", "cmd_issue", "ISSUE.START">>, <<"READY", "notify_read", "REPLY.START">>}

ISSUE_events ==
  Again("notify_write", {"SEND_REQUEST", "SEND_WRITE_PAYLOAD", "SEND_WRITE_SHUTDOWN"})
  \cup {<<"SEND_REQUEST", "notify_read", "PAUSE_SEND_REQUEST">>,
        <<"SEND_WRITE_PAYLOAD", "notify_read", "PAUSE_WRITE_PAYLOAD">>,
        <<"SEND_WRITE_SHUTDOWN", "notify_read", "PAUSE_WRITE_SHUTDOWN">>}

REPLY_events == Again("notify_read", {"REPLY.START"})

ExternalEvents ==
  UNION {START_events, CONNECT_events, MAGIC_events, NEWSTYLE_events,
         OPT_STARTTLS_events, OPT_EXTENDED_HEADERS_events, OPT_STRUCTURED_REPLY_events,
         OPT_META_CONTEXT_events, OPT_GO_events, OPT_EXPORT_NAME_events,
         OPT_LIST_events, OPT_ABORT_events, READY_events, ISSUE_events, REPLY_events}

\* The states an event leads to from s: one, or none when it is invalid there.
Raised(s, event) == {t[3] : t \in {u \in ExternalEvents : u[1] = s /\ u[2] = event}}

-----------------------------------------------------------------------------
(* nbd_internal_aio_get_direction *)

WRITE_states ==
  {"CONNECT.START", "CONNECT.CONNECTING", "CONNECT_TCP.CONNECT", "CONNECT_TCP.CONNECTING",
   "NEWSTYLE.SEND_CFLAGS", "OPT_STARTTLS.SEND", "OPT_STARTTLS.TLS_HANDSHAKE_WRITE",
   "OPT_EXTENDED_HEADERS.SEND", "OPT_STRUCTURED_REPLY.SEND",
   "OPT_META_CONTEXT.SEND", "OPT_META_CONTEXT.SEND_EXPORTNAMELEN",
   "OPT_META_CONTEXT.SEND_EXPORTNAME", "OPT_META_CONTEXT.SEND_NRQUERIES",
   "OPT_META_CONTEXT.SEND_QUERYLEN", "OPT_META_CONTEXT.SEND_QUERY",
   "OPT_GO.SEND", "OPT_GO.SEND_EXPORTNAMELEN", "OPT_GO.SEND_EXPORT",
   "OPT_GO.SEND_NRINFOS", "OPT_GO.SEND_INFO", "OPT_EXPORT_NAME.SEND",
   "OPT_EXPORT_NAME.SEND_EXPORT", "OPT_LIST.SEND", "NEWSTYLE.SEND_OPT_ABORT",
   "NEWSTYLE.SEND_OPTION_SHUTDOWN", "SEND_REQUEST", "SEND_WRITE_PAYLOAD",
   "SEND_WRITE_SHUTDOWN"}

READ_states ==
  {"MAGIC.RECV_MAGIC", "OLDSTYLE.RECV_REMAINING", "NEWSTYLE.RECV_GFLAGS",
   "OPT_STARTTLS.RECV_REPLY", "OPT_STARTTLS.RECV_REPLY_PAYLOAD",
   "OPT_STARTTLS.TLS_HANDSHAKE_READ",
   "OPT_EXTENDED_HEADERS.RECV_REPLY", "OPT_EXTENDED_HEADERS.RECV_REPLY_PAYLOAD",
   "OPT_STRUCTURED_REPLY.RECV_REPLY", "OPT_STRUCTURED_REPLY.RECV_REPLY_PAYLOAD",
   "OPT_META_CONTEXT.RECV_REPLY", "OPT_META_CONTEXT.RECV_REPLY_PAYLOAD",
   "OPT_GO.RECV_REPLY", "OPT_GO.RECV_REPLY_PAYLOAD", "OPT_EXPORT_NAME.RECV_REPLY",
   "OPT_LIST.RECV_REPLY", "OPT_LIST.RECV_REPLY_PAYLOAD",
   "READY", "SEND_REQUEST", "SEND_WRITE_PAYLOAD", "SEND_WRITE_SHUTDOWN", "REPLY.START"}

nbd_internal_aio_get_direction(s) ==
  {d \in {"READ", "WRITE"} : s \in IF d = "READ" THEN READ_states ELSE WRITE_states}

-----------------------------------------------------------------------------
(* nbd_internal_state_group, with nbd_internal_state_group_parent: the      *)
(* states of a group and of the groups inside it.                           *)

GROUP_CONNECT == {"CONNECT.START", "CONNECT.CONNECTING"}
GROUP_CONNECT_TCP == {"CONNECT_TCP.START", "CONNECT_TCP.CONNECT", "CONNECT_TCP.CONNECTING",
                      "CONNECT_TCP.NEXT_ADDRESS"}
GROUP_CONNECT_COMMAND == {"CONNECT_COMMAND.START"}
GROUP_MAGIC == {"MAGIC.START", "MAGIC.RECV_MAGIC", "MAGIC.CHECK_MAGIC"}
GROUP_OLDSTYLE == {"OLDSTYLE.START", "OLDSTYLE.RECV_REMAINING", "OLDSTYLE.CHECK"}

GROUP_NEWSTYLE_OPT ==
  {"OPT_STARTTLS.START", "OPT_STARTTLS.SEND", "OPT_STARTTLS.RECV_REPLY",
   "OPT_STARTTLS.RECV_REPLY_PAYLOAD", "OPT_STARTTLS.CHECK_REPLY",
   "OPT_STARTTLS.TLS_HANDSHAKE_READ", "OPT_STARTTLS.TLS_HANDSHAKE_WRITE",
   "OPT_STARTTLS.TLS_HANDSHAKE_DONE",
   "OPT_EXTENDED_HEADERS.START", "OPT_EXTENDED_HEADERS.SEND",
   "OPT_EXTENDED_HEADERS.RECV_REPLY", "OPT_EXTENDED_HEADERS.RECV_REPLY_PAYLOAD",
   "OPT_EXTENDED_HEADERS.CHECK_REPLY",
   "OPT_STRUCTURED_REPLY.START", "OPT_STRUCTURED_REPLY.SEND",
   "OPT_STRUCTURED_REPLY.RECV_REPLY", "OPT_STRUCTURED_REPLY.RECV_REPLY_PAYLOAD",
   "OPT_STRUCTURED_REPLY.CHECK_REPLY",
   "OPT_META_CONTEXT.START", "OPT_META_CONTEXT.SEND",
   "OPT_META_CONTEXT.SEND_EXPORTNAMELEN", "OPT_META_CONTEXT.SEND_EXPORTNAME",
   "OPT_META_CONTEXT.SEND_NRQUERIES", "OPT_META_CONTEXT.PREPARE_NEXT_QUERY",
   "OPT_META_CONTEXT.SEND_QUERYLEN", "OPT_META_CONTEXT.SEND_QUERY",
   "OPT_META_CONTEXT.PREPARE_FOR_REPLY", "OPT_META_CONTEXT.RECV_REPLY",
   "OPT_META_CONTEXT.RECV_REPLY_PAYLOAD", "OPT_META_CONTEXT.CHECK_REPLY",
   "OPT_GO.START", "OPT_GO.SEND", "OPT_GO.SEND_EXPORTNAMELEN", "OPT_GO.SEND_EXPORT",
   "OPT_GO.SEND_NRINFOS", "OPT_GO.SEND_INFO", "OPT_GO.RECV_REPLY",
   "OPT_GO.RECV_REPLY_PAYLOAD", "OPT_GO.CHECK_REPLY",
   "OPT_EXPORT_NAME.START", "OPT_EXPORT_NAME.SEND", "OPT_EXPORT_NAME.SEND_EXPORT",
   "OPT_EXPORT_NAME.RECV_REPLY", "OPT_EXPORT_NAME.CHECK_REPLY",
   "OPT_LIST.START", "OPT_LIST.SEND", "OPT_LIST.RECV_REPLY",
   "OPT_LIST.RECV_REPLY_PAYLOAD", "OPT_LIST.CHECK_REPLY"}

GROUP_NEWSTYLE ==
  {"NEWSTYLE.START", "NEWSTYLE.RECV_GFLAGS", "NEWSTYLE.CHECK_GFLAGS",
   "NEWSTYLE.SEND_CFLAGS", "NEWSTYLE.PREPARE_OPT_ABORT", "NEWSTYLE.SEND_OPT_ABORT",
   "NEWSTYLE.SEND_OPTION_SHUTDOWN", "NEWSTYLE.FINISHED"}
  \cup GROUP_NEWSTYLE_OPT

GROUP_ISSUE_COMMAND ==
  {"ISSUE.START", "SEND_REQUEST", "PAUSE_SEND_REQUEST", "PREPARE_WRITE_PAYLOAD",
   "SEND_WRITE_PAYLOAD", "PAUSE_WRITE_PAYLOAD", "SEND_WRITE_SHUTDOWN",
   "PAUSE_WRITE_SHUTDOWN", "ISSUE.FINISH"}

GROUP_REPLY ==
  {"REPLY.START", "RECV_REPLY", "CHECK_REPLY_MAGIC", "RECV_STRUCTURED_REMAINING",
   "SIMPLE.START", "RECV_READ_PAYLOAD", "CHUNK.START", "RECV_ERROR",
   "RECV_ERROR_MESSAGE", "RECV_ERROR_TAIL", "RECV_OFFSET_DATA", "RECV_OFFSET_DATA_DATA",
   "RECV_OFFSET_HOLE", "RECV_BS_HEADER", "RECV_BS_ENTRIES", "RESYNC", "CHUNK.FINISH",
   "FINISH_COMMAND"}

-----------------------------------------------------------------------------
(* lib/is-state.c.  is_connecting_group has no case for CONNECT_SA.         *)

is_connecting ==
  UNION {GROUP_CONNECT, GROUP_CONNECT_TCP, GROUP_CONNECT_COMMAND, GROUP_MAGIC,
         GROUP_OLDSTYLE, GROUP_NEWSTYLE}

\* A slip of the same kind in the other class: no case for ISSUE_COMMAND.
ProcessingReplies == GROUP_REPLY
is_processing == GROUP_ISSUE_COMMAND \cup GROUP_REPLY

Class ==
  [created |-> {"START"}, connecting |-> is_connecting, negotiating |-> {"NEGOTIATING"},
   ready |-> {"READY"}, processing |-> is_processing, dead |-> {"DEAD"},
   closed |-> {"CLOSED"}]

\* The nbd_aio_is_* calls that answer true in state s.
ClassesOf(s) == {c \in DOMAIN Class : s \in Class[c]}

-----------------------------------------------------------------------------
(* A specification that takes several handlers in one step still follows   *)
(* the graph if the handlers it passes lie on one of its paths.            *)

Compose(R, S) == UNION {{<<r[1], s[2]>> : s \in {u \in S : u[1] = r[2]}} : r \in R}
Continues2 == Continues \cup Compose(Continues, Continues)
GoesFar == Continues2 \cup Compose(Continues2, Continues)
StaysFar == StopsIn \cup FailsIn \cup Compose(Continues2, StopsIn \cup FailsIn)
=============================================================================
