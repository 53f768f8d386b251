---------------------------- MODULE Negotiation ----------------------------
(***************************************************************************)
(* The handshake after the socket is connected: the server's magic         *)
(* (generator/states-magic.c), the oldstyle and newstyle protocols         *)
(* (generator/states-oldstyle.c, generator/states-newstyle*.c), and the    *)
(* knowledge of the server and the export they leave in the handle.        *)
(*                                                                         *)
(* An export name is represented by its length; the data of an option is   *)
(* counted in units (a length or a count is one unit, a query one).  What  *)
(* the handle is told about an export carries the export asked about and   *)
(* whether the session was under TLS, so that stale knowledge shows.       *)
(***************************************************************************)
EXTENDS Connect, ExportInfo

CONSTANTS
  Exports,             \* export names, by length; 0 is the default ""
  MaxQueries,          \* bound: contexts requested
  Contexts,            \* contexts the server may name
  EFlags,              \* export flags the server may send
  BlockSizes,          \* block size constraints the server may send
  MaxReplies           \* bound: replies to one option before the last

VARIABLES
  cfg,                 \* what the user asks for
  fixed,               \* gflags has FIXED_NEWSTYLE
  opt_current, opt_cb, \* the option in progress and its callbacks
  querylist, querynum, \* queries of a meta context option; those sent
  owed,                \* data units announced for the option, not yet sent
  reply, replies,      \* the reply received; replies so far to this option
  tls_negotiated, structured_replies, extended_headers,
  meta_valid, meta_contexts, info,
  ready,               \* the event the blocked state waited for has come
  ended                \* history: calls of the current completion callback (-1:
                       \* there is none), and whether it was told of success

optVars  == <<opt_current, opt_cb, ended>>
sendVars == <<querylist, querynum, owed>>
recvVars == <<reply, replies>>
sessVars == <<tls_negotiated, structured_replies, extended_headers>>
metaVars == <<meta_valid, meta_contexts>>
negVars  == <<cfg, fixed, optVars, sendVars, recvVars, sessVars, metaVars, info>>

Tls     == {"disable", "allow", "require"}
Session == [export |-> cfg.export_name, tls |-> tls_negotiated]

ErrorReplies == {"unsup", "invalid", "refused"}
ReplyTypes   == {"ack", "garbage", "server", "context", "export", "block", "other",
                 "bad_info"} \cup ErrorReplies
NoBlock  == [min |-> 0, pref |-> 0, max |-> 0]
Plain(t) == [type |-> t, context |-> "", eflags |-> {}, block |-> NoBlock]

DefaultSettings ==
  [opt_mode |-> FALSE, tls |-> "disable", request_eh |-> TRUE, request_sr |-> TRUE,
   request_meta |-> TRUE, request_block_size |-> TRUE, full_info |-> FALSE,
   contexts |-> 0, export_name |-> 0]

NegInit ==
  /\ cfg = DefaultSettings
  /\ fixed = TRUE /\ ready = FALSE
  /\ opt_current = "none" /\ opt_cb = [completion |-> FALSE, fn |-> "none"]
  /\ ended = [n |-> -1, ok |-> TRUE]
  /\ querylist = 0 /\ querynum = 0 /\ owed = 0
  /\ reply = Plain("ack") /\ replies = 0
  /\ tls_negotiated = FALSE /\ structured_replies = FALSE /\ extended_headers = FALSE
  /\ meta_valid = FALSE /\ meta_contexts = {} /\ info = ResetSizeAndFlags

-----------------------------------------------------------------------------
(* Sending and receiving.  A step that sends or receives may find that it  *)
(* would block, or that the connection is gone.                            *)

WouldBlockOrFail ==
  /\ \/ ~ready /\ StayBlocked
     \/ link # "pending" /\ SET_NEXT_STATE("DEAD")
  /\ UNCHANGED negVars

Arrives == link = "up"

\* An event the blocked state waits for (external_events in state_machine.ml).
IoStates ==
  {"MAGIC.RECV_MAGIC", "OLDSTYLE.RECV_REMAINING", "NEWSTYLE.RECV_GFLAGS",
   "NEWSTYLE.SEND_CFLAGS", "NEWSTYLE.SEND_OPT_ABORT", "NEWSTYLE.SEND_OPTION_SHUTDOWN",
   "OPT_STARTTLS.SEND", "OPT_STARTTLS.RECV_REPLY", "OPT_STARTTLS.RECV_REPLY_PAYLOAD",
   "OPT_EXTENDED_HEADERS.SEND", "OPT_EXTENDED_HEADERS.RECV_REPLY",
   "OPT_EXTENDED_HEADERS.RECV_REPLY_PAYLOAD",
   "OPT_STRUCTURED_REPLY.SEND", "OPT_STRUCTURED_REPLY.RECV_REPLY",
   "OPT_STRUCTURED_REPLY.RECV_REPLY_PAYLOAD",
   "OPT_META_CONTEXT.SEND", "OPT_META_CONTEXT.SEND_EXPORTNAMELEN",
   "OPT_META_CONTEXT.SEND_EXPORTNAME", "OPT_META_CONTEXT.SEND_NRQUERIES",
   "OPT_META_CONTEXT.SEND_QUERYLEN", "OPT_META_CONTEXT.SEND_QUERY",
   "OPT_META_CONTEXT.RECV_REPLY", "OPT_META_CONTEXT.RECV_REPLY_PAYLOAD",
   "OPT_GO.SEND", "OPT_GO.SEND_EXPORTNAMELEN", "OPT_GO.SEND_EXPORT",
   "OPT_GO.SEND_NRINFOS", "OPT_GO.SEND_INFO",
   "OPT_GO.RECV_REPLY", "OPT_GO.RECV_REPLY_PAYLOAD",
   "OPT_LIST.SEND", "OPT_LIST.RECV_REPLY", "OPT_LIST.RECV_REPLY_PAYLOAD",
   "OPT_EXPORT_NAME.SEND", "OPT_EXPORT_NAME.SEND_EXPORT", "OPT_EXPORT_NAME.RECV_REPLY"}

(* nbd_internal_free_option, and the callback called before it *)
FreedCallbacks ==
  [completion |-> FALSE,
   fn |-> IF opt_current \in {"LIST", "LIST_META_CONTEXT", "SET_META_CONTEXT"}
          THEN "none" ELSE opt_cb.fn]

CallCompletion(ok) ==
  /\ ended' = IF opt_cb.completion THEN [n |-> ended.n + 1, ok |-> ok] ELSE ended
  /\ opt_cb' = FreedCallbacks
  /\ UNCHANGED opt_current

-----------------------------------------------------------------------------
(* The magic, and the oldstyle protocol. *)

MagicStart ==
  /\ Entering("MAGIC.START")
  /\ SET_NEXT_STATE("MAGIC.RECV_MAGIC")
  /\ UNCHANGED negVars

MagicRecv ==
  /\ Entering("MAGIC.RECV_MAGIC")
  /\ \/ WouldBlockOrFail
     \/ /\ Arrives
        /\ \E next \in {"NEWSTYLE.START", "OLDSTYLE.RECV_REMAINING", "DEAD"} :
             SET_NEXT_STATE(next)
        /\ UNCHANGED negVars

\* nbd_internal_set_size_and_flags, with what it may do to meta_valid.
LearnExport(eflags) ==
  /\ info' = SetSizeAndFlags(info, Session, eflags, structured_replies, extended_headers)
  /\ meta_valid' = (meta_valid \/ (cfg.request_meta /\ (~structured_replies \/ cfg.contexts = 0)))
  /\ UNCHANGED meta_contexts

LearnExportAndPayload(eflags) ==
  /\ info' = SetPayload(SetSizeAndFlags(info, Session, eflags, structured_replies,
                                        extended_headers))
  /\ meta_valid' = (meta_valid \/ (cfg.request_meta /\ (~structured_replies \/ cfg.contexts = 0)))
  /\ UNCHANGED meta_contexts

\* A plausible slip: the TLS setting is not looked at.
TlsNeverRequired == FALSE

TlsRequired == cfg.tls = "require"

OldstyleRecv ==
  /\ Entering("OLDSTYLE.RECV_REMAINING")
  /\ \/ WouldBlockOrFail
     \/ /\ Arrives
        /\ \/ SET_NEXT_STATE("DEAD") /\ UNCHANGED <<info, metaVars>>  \* gflags set
           \/ \E eflags \in EFlags :
                IF TlsRequired \/ eflags = {}
                THEN SET_NEXT_STATE("DEAD") /\ UNCHANGED <<info, metaVars>>
                ELSE SET_NEXT_STATE("READY") /\ LearnExportAndPayload(eflags)
        /\ UNCHANGED <<cfg, fixed, optVars, sendVars, recvVars, sessVars>>

-----------------------------------------------------------------------------
(* NEWSTYLE: the server's flags, then the options. *)

\* A plausible slip: a server that is not fixed newstyle is sent new options.
AlwaysNew == "OPT_META_CONTEXT.START"

StartGo == IF fixed THEN "OPT_META_CONTEXT.START" ELSE "OPT_EXPORT_NAME.START"

\* Where an option asked for by nbd_opt_* starts.
OptionStart ==
  CASE opt_current \in {"GO", "INFO"} -> StartGo
    [] opt_current = "LIST" -> "OPT_LIST.START"
    [] opt_current = "ABORT" -> IF fixed THEN "NEWSTYLE.PREPARE_OPT_ABORT" ELSE "DEAD"
    [] opt_current \in {"LIST_META_CONTEXT", "SET_META_CONTEXT"} -> "OPT_META_CONTEXT.START"
    [] opt_current = "STRUCTURED_REPLY" -> "OPT_STRUCTURED_REPLY.START"
    [] opt_current = "EXTENDED_HEADERS" -> "OPT_EXTENDED_HEADERS.START"
    [] opt_current = "STARTTLS" -> "OPT_STARTTLS.START"
    [] OTHER -> "NEWSTYLE.RECV_GFLAGS"

NewstyleStart ==
  /\ Entering("NEWSTYLE.START")
  /\ SET_NEXT_STATE(IF cfg.opt_mode THEN OptionStart ELSE "NEWSTYLE.RECV_GFLAGS")
  /\ UNCHANGED negVars

NewstyleGflags ==
  /\ Entering("NEWSTYLE.RECV_GFLAGS")
  /\ \/ WouldBlockOrFail
     \/ /\ Arrives
        /\ fixed' \in {fixed, FALSE}
        /\ SET_NEXT_STATE(IF ~fixed' /\ TlsRequired THEN "DEAD" ELSE "NEWSTYLE.SEND_CFLAGS")
        /\ UNCHANGED <<cfg, optVars, sendVars, recvVars, sessVars, metaVars, info>>

NewstyleCflags ==
  /\ Entering("NEWSTYLE.SEND_CFLAGS")
  /\ \/ WouldBlockOrFail
     \/ /\ SET_NEXT_STATE(IF fixed THEN "OPT_STARTTLS.START"
                          ELSE IF cfg.opt_mode THEN "NEGOTIATING" ELSE "OPT_EXPORT_NAME.START")
        /\ UNCHANGED negVars

NewstylePrepareAbort ==
  /\ Entering("NEWSTYLE.PREPARE_OPT_ABORT")
  /\ owed' = 0
  /\ SET_NEXT_STATE("NEWSTYLE.SEND_OPT_ABORT")
  /\ UNCHANGED <<cfg, fixed, optVars, querylist, querynum, recvVars, sessVars, metaVars, info>>

NewstyleSendAbort ==
  /\ Entering("NEWSTYLE.SEND_OPT_ABORT")
  /\ \/ WouldBlockOrFail
     \/ SET_NEXT_STATE("NEWSTYLE.SEND_OPTION_SHUTDOWN") /\ UNCHANGED negVars

NewstyleShutdown ==
  /\ Entering("NEWSTYLE.SEND_OPTION_SHUTDOWN")
  /\ \/ ~ready /\ StayBlocked                    \* gnutls_bye is not done yet
     \/ SET_NEXT_STATE(IF cfg.opt_mode THEN "CLOSED" ELSE "DEAD")
  /\ UNCHANGED negVars

NewstyleFinished ==
  /\ Entering("NEWSTYLE.FINISHED")
  /\ SET_NEXT_STATE("READY")
  /\ UNCHANGED negVars

\* Announce an option with len units of data.
Announce(len, s) ==
  /\ owed' = len /\ replies' = 0
  /\ SET_NEXT_STATE(s)
  /\ UNCHANGED reply

Skip(s) == SET_NEXT_STATE(s) /\ UNCHANGED <<owed, recvVars>>

StarttlsStart ==
  /\ Entering("OPT_STARTTLS.START")
  /\ IF opt_current # "STARTTLS" /\ cfg.tls = "disable"
     THEN Skip("OPT_EXTENDED_HEADERS.START")
     ELSE Announce(0, "OPT_STARTTLS.SEND")
  /\ UNCHANGED <<cfg, fixed, optVars, querylist, querynum, sessVars, metaVars, info>>

ExtendedHeadersStart ==
  /\ Entering("OPT_EXTENDED_HEADERS.START")
  /\ IF opt_current # "EXTENDED_HEADERS" /\ ~(cfg.request_eh /\ cfg.request_sr)
     THEN Skip("OPT_STRUCTURED_REPLY.START")
     ELSE Announce(0, "OPT_EXTENDED_HEADERS.SEND")
  /\ UNCHANGED <<cfg, fixed, optVars, querylist, querynum, sessVars, metaVars, info>>

StructuredReplyStart ==
  /\ Entering("OPT_STRUCTURED_REPLY.START")
  /\ IF opt_current # "STRUCTURED_REPLY" /\ (~cfg.request_sr \/ structured_replies)
     THEN Skip(IF cfg.opt_mode THEN "NEGOTIATING" ELSE "OPT_META_CONTEXT.START")
     ELSE Announce(0, "OPT_STRUCTURED_REPLY.SEND")
  /\ UNCHANGED <<cfg, fixed, optVars, querylist, querynum, sessVars, metaVars, info>>

ListStart ==
  /\ Entering("OPT_LIST.START")
  /\ Announce(0, "OPT_LIST.SEND")
  /\ UNCHANGED <<cfg, fixed, optVars, querylist, querynum, sessVars, metaVars, info>>

\* The option OPT_META_CONTEXT sends.
MetaOption == IF opt_current = "LIST_META_CONTEXT" THEN opt_current ELSE "SET_META_CONTEXT"

ForgetContexts ==
  MetaOption = "SET_META_CONTEXT" /\ (cfg.request_meta \/ opt_current = MetaOption)

MetaContextStart ==
  /\ Entering("OPT_META_CONTEXT.START")
  /\ meta_contexts' = IF ForgetContexts THEN {} ELSE meta_contexts
  /\ meta_valid' = (meta_valid /\ ~ForgetContexts)
  /\ IF /\ MetaOption # opt_current
        /\ ~cfg.request_meta \/ ~structured_replies \/ cfg.contexts = 0
     THEN Skip("OPT_GO.START") /\ UNCHANGED querylist
     ELSE /\ querylist' = IF MetaOption # opt_current THEN cfg.contexts ELSE querylist
          /\ Announce(1 + cfg.export_name + 1 + 2 * querylist', "OPT_META_CONTEXT.SEND")
  /\ UNCHANGED <<cfg, fixed, optVars, querynum, sessVars, info>>

NrInfos == (IF cfg.request_block_size THEN 1 ELSE 0) + (IF cfg.full_info THEN 2 ELSE 0)

GoStart ==
  /\ Entering("OPT_GO.START")
  /\ info' = ResetSizeAndFlags
  /\ opt_current' = IF opt_current = "none" THEN "GO" ELSE opt_current
  /\ Announce(1 + cfg.export_name + 1 + NrInfos, "OPT_GO.SEND")
  /\ UNCHANGED <<cfg, fixed, opt_cb, ended, querylist, querynum, sessVars, metaVars>>

ExportNameStart ==
  /\ Entering("OPT_EXPORT_NAME.START")
  /\ Announce(cfg.export_name, "OPT_EXPORT_NAME.SEND")
  /\ UNCHANGED <<cfg, fixed, optVars, querylist, querynum, sessVars, metaVars, info>>

-----------------------------------------------------------------------------
(* Sending an option: the part each state sends and the state after it.    *)

SendTo ==
  "OPT_STARTTLS.SEND"                   :> "OPT_STARTTLS.RECV_REPLY" @@
  "OPT_EXTENDED_HEADERS.SEND"           :> "OPT_EXTENDED_HEADERS.RECV_REPLY" @@
  "OPT_STRUCTURED_REPLY.SEND"           :> "OPT_STRUCTURED_REPLY.RECV_REPLY" @@
  "OPT_LIST.SEND"                       :> "OPT_LIST.RECV_REPLY" @@
  "OPT_META_CONTEXT.SEND"               :> "OPT_META_CONTEXT.SEND_EXPORTNAMELEN" @@
  "OPT_META_CONTEXT.SEND_EXPORTNAMELEN" :> "OPT_META_CONTEXT.SEND_EXPORTNAME" @@
  "OPT_META_CONTEXT.SEND_EXPORTNAME"    :> "OPT_META_CONTEXT.SEND_NRQUERIES" @@
  "OPT_META_CONTEXT.SEND_NRQUERIES"     :> "OPT_META_CONTEXT.PREPARE_NEXT_QUERY" @@
  "OPT_META_CONTEXT.SEND_QUERYLEN"      :> "OPT_META_CONTEXT.SEND_QUERY" @@
  "OPT_META_CONTEXT.SEND_QUERY"         :> "OPT_META_CONTEXT.PREPARE_NEXT_QUERY" @@
  "OPT_GO.SEND"                         :> "OPT_GO.SEND_EXPORTNAMELEN" @@
  "OPT_GO.SEND_EXPORTNAMELEN"           :> "OPT_GO.SEND_EXPORT" @@
  "OPT_GO.SEND_EXPORT"                  :> "OPT_GO.SEND_NRINFOS" @@
  "OPT_GO.SEND_NRINFOS"                 :> "OPT_GO.SEND_INFO" @@
  "OPT_GO.SEND_INFO"                    :> "OPT_GO.RECV_REPLY" @@
  "OPT_EXPORT_NAME.SEND"                :> "OPT_EXPORT_NAME.SEND_EXPORT" @@
  "OPT_EXPORT_NAME.SEND_EXPORT"         :> "OPT_EXPORT_NAME.RECV_REPLY"

Names  == {"OPT_META_CONTEXT.SEND_EXPORTNAME", "OPT_GO.SEND_EXPORT",
           "OPT_EXPORT_NAME.SEND_EXPORT"}
Counts == {"OPT_META_CONTEXT.SEND_EXPORTNAMELEN", "OPT_META_CONTEXT.SEND_NRQUERIES",
           "OPT_META_CONTEXT.SEND_QUERYLEN", "OPT_META_CONTEXT.SEND_QUERY",
           "OPT_GO.SEND_EXPORTNAMELEN", "OPT_GO.SEND_NRINFOS"}

Part(s) == CASE s \in Names -> cfg.export_name
             [] s \in Counts -> 1
             [] s = "OPT_GO.SEND_INFO" -> NrInfos
             [] OTHER -> 0

Send ==
  /\ running /\ state \in DOMAIN SendTo
  /\ \/ WouldBlockOrFail
     \/ /\ SET_NEXT_STATE(SendTo[state])
        /\ owed' = owed - Part(state)
        /\ querynum' = CASE state = "OPT_META_CONTEXT.SEND_NRQUERIES" -> 0
                         [] state = "OPT_META_CONTEXT.SEND_QUERY" -> querynum + 1
                         [] OTHER -> querynum
        /\ UNCHANGED <<cfg, fixed, optVars, querylist, recvVars, sessVars, metaVars, info>>

\* A plausible slip: one query too few.
MoreQueriesButOne == querynum + 1 < querylist

MoreQueries == querynum < querylist

MetaContextNextQuery ==
  /\ Entering("OPT_META_CONTEXT.PREPARE_NEXT_QUERY")
  /\ SET_NEXT_STATE(IF MoreQueries THEN "OPT_META_CONTEXT.SEND_QUERYLEN"
                    ELSE "OPT_META_CONTEXT.RECV_REPLY")
  /\ querynum' = IF MoreQueries THEN querynum ELSE 0
  /\ UNCHANGED <<cfg, fixed, optVars, querylist, owed, recvVars, sessVars, metaVars, info>>

-----------------------------------------------------------------------------
(* Receiving the replies to an option. *)

RecvTo ==
  "OPT_STARTTLS.RECV_REPLY"         :> "OPT_STARTTLS.RECV_REPLY_PAYLOAD" @@
  "OPT_EXTENDED_HEADERS.RECV_REPLY" :> "OPT_EXTENDED_HEADERS.RECV_REPLY_PAYLOAD" @@
  "OPT_STRUCTURED_REPLY.RECV_REPLY" :> "OPT_STRUCTURED_REPLY.RECV_REPLY_PAYLOAD" @@
  "OPT_META_CONTEXT.RECV_REPLY"     :> "OPT_META_CONTEXT.RECV_REPLY_PAYLOAD" @@
  "OPT_GO.RECV_REPLY"               :> "OPT_GO.RECV_REPLY_PAYLOAD" @@
  "OPT_LIST.RECV_REPLY"             :> "OPT_LIST.RECV_REPLY_PAYLOAD"

PayloadTo ==
  "OPT_STARTTLS.RECV_REPLY_PAYLOAD"         :> "OPT_STARTTLS.CHECK_REPLY" @@
  "OPT_EXTENDED_HEADERS.RECV_REPLY_PAYLOAD" :> "OPT_EXTENDED_HEADERS.CHECK_REPLY" @@
  "OPT_STRUCTURED_REPLY.RECV_REPLY_PAYLOAD" :> "OPT_STRUCTURED_REPLY.CHECK_REPLY" @@
  "OPT_META_CONTEXT.RECV_REPLY_PAYLOAD"     :> "OPT_META_CONTEXT.CHECK_REPLY" @@
  "OPT_GO.RECV_REPLY_PAYLOAD"               :> "OPT_GO.CHECK_REPLY" @@
  "OPT_LIST.RECV_REPLY_PAYLOAD"             :> "OPT_LIST.CHECK_REPLY"

\* Replies before the last one.  "other" is any information or list entry the
\* handle keeps nothing of; "bad_info" an INFO of the wrong length.
Partial ==
  IF replies >= MaxReplies THEN {}
  ELSE CASE state = "OPT_META_CONTEXT.RECV_REPLY" ->
              {[Plain("context") EXCEPT !.context = c] : c \in Contexts}
         [] state = "OPT_GO.RECV_REPLY" ->
              {[Plain("export") EXCEPT !.eflags = f] : f \in EFlags}
              \cup {[Plain("block") EXCEPT !.block = b] : b \in BlockSizes}
              \cup {Plain("other"), Plain("bad_info")}
         [] state = "OPT_LIST.RECV_REPLY" -> {Plain("server")}
         [] OTHER -> {}

\* Last replies.  "garbage" is what handle_reply_error refuses: not an error
\* reply at all, or one with an over-long message.
Last == {Plain(t) : t \in {"ack", "garbage"} \cup ErrorReplies}

RecvReply ==
  /\ running /\ state \in DOMAIN RecvTo
  /\ \/ WouldBlockOrFail
     \/ /\ Arrives                               \* prepare_for_reply_payload accepts it
        /\ reply' \in Last \cup Partial
        /\ replies' = IF reply'.type \in {r.type : r \in Last} THEN replies ELSE replies + 1
        /\ SET_NEXT_STATE(RecvTo[state])
        /\ UNCHANGED <<cfg, fixed, optVars, sendVars, sessVars, metaVars, info>>

RecvPayload ==
  /\ running /\ state \in DOMAIN PayloadTo
  /\ \/ WouldBlockOrFail
     \/ SET_NEXT_STATE(PayloadTo[state]) /\ UNCHANGED negVars

\* The reply has been dealt with and its buffer is used for something else.
NextReply == reply' = Plain("ack") /\ UNCHANGED replies
LastReply == reply' = Plain("ack") /\ replies' = 0

Garbage ==
  /\ running /\ state \in {PayloadTo[s] : s \in DOMAIN PayloadTo}
  /\ reply.type \in {"garbage", "bad_info"}
     \/ (reply.type = "export" /\ reply.eflags = {})
  /\ SET_NEXT_STATE("DEAD")
  /\ LastReply
  /\ UNCHANGED <<cfg, fixed, optVars, sendVars, sessVars, metaVars, info>>

Checking(g) == Entering(g) /\ reply.type \notin {"garbage", "bad_info"}

ForgetBeforeTls ==
  /\ info' = ResetSizeAndFlags
  /\ structured_replies' = FALSE /\ extended_headers' = FALSE /\ meta_valid' = FALSE

StarttlsAccepted ==
  /\ Checking("OPT_STARTTLS.CHECK_REPLY") /\ reply.type = "ack"
  /\ IF tls_negotiated
     THEN SET_NEXT_STATE("DEAD") /\ UNCHANGED <<info, sessVars, meta_valid>>
     ELSE /\ ForgetBeforeTls /\ UNCHANGED tls_negotiated
          /\ \E next \in {"OPT_STARTTLS.TLS_HANDSHAKE_READ",
                        "OPT_STARTTLS.TLS_HANDSHAKE_WRITE", "DEAD"} : SET_NEXT_STATE(next)
  /\ LastReply
  /\ UNCHANGED <<cfg, fixed, optVars, sendVars, meta_contexts>>

AfterStarttls ==
  IF opt_current = "STARTTLS" THEN "NEGOTIATING" ELSE "OPT_EXTENDED_HEADERS.START"

StarttlsRefused ==
  /\ Checking("OPT_STARTTLS.CHECK_REPLY") /\ reply.type \in ErrorReplies
  /\ IF TlsRequired
     THEN SET_NEXT_STATE("NEWSTYLE.PREPARE_OPT_ABORT") /\ UNCHANGED optVars
     ELSE SET_NEXT_STATE(AfterStarttls) /\ CallCompletion(FALSE)
  /\ LastReply
  /\ UNCHANGED <<cfg, fixed, sendVars, sessVars, metaVars, info>>

\* The handshake fails, is done, or goes on; with nothing to read yet,
\* TLS_HANDSHAKE_READ is entered again at once and nothing changes.
TlsRounds ==
  {"DEAD", "OPT_STARTTLS.TLS_HANDSHAKE_DONE"}
  \cup (IF replies < MaxReplies
        THEN {"OPT_STARTTLS.TLS_HANDSHAKE_READ", "OPT_STARTTLS.TLS_HANDSHAKE_WRITE"} ELSE {})

TlsHandshake ==
  /\ \/ Entering("OPT_STARTTLS.TLS_HANDSHAKE_READ") /\ ready
     \/ Entering("OPT_STARTTLS.TLS_HANDSHAKE_WRITE")
  /\ \E next \in TlsRounds :
       /\ SET_NEXT_STATE(next)
       /\ replies' = IF replies < MaxReplies THEN replies + 1 ELSE replies
  /\ UNCHANGED <<cfg, fixed, optVars, sendVars, reply, sessVars, metaVars, info>>

TlsHandshakeDone ==
  /\ Entering("OPT_STARTTLS.TLS_HANDSHAKE_DONE")
  /\ tls_negotiated' = TRUE
  /\ CallCompletion(TRUE) /\ SET_NEXT_STATE(AfterStarttls)
  /\ LastReply
  /\ UNCHANGED <<cfg, fixed, sendVars, structured_replies, extended_headers,
                 metaVars, info>>

ExtendedHeadersCheck ==
  /\ Checking("OPT_EXTENDED_HEADERS.CHECK_REPLY")
  /\ extended_headers' = (extended_headers \/ reply.type = "ack")
  /\ structured_replies' = (structured_replies \/ reply.type = "ack")
  /\ SET_NEXT_STATE(IF opt_current = "EXTENDED_HEADERS" THEN "NEGOTIATING"
                    ELSE "OPT_STRUCTURED_REPLY.START")
  /\ CallCompletion(reply.type = "ack")
  /\ LastReply
  /\ UNCHANGED <<cfg, fixed, sendVars, tls_negotiated, metaVars, info>>

StructuredReplyCheck ==
  /\ Checking("OPT_STRUCTURED_REPLY.CHECK_REPLY")
  /\ structured_replies' = (structured_replies \/ reply.type = "ack")
  /\ SET_NEXT_STATE(IF cfg.opt_mode THEN "NEGOTIATING" ELSE "OPT_META_CONTEXT.START")
  /\ CallCompletion(reply.type = "ack")
  /\ LastReply
  /\ UNCHANGED <<cfg, fixed, sendVars, tls_negotiated, extended_headers,
                 metaVars, info>>

\* One context of the list: kept when it is the answer to SET.
MetaContextOne ==
  /\ Checking("OPT_META_CONTEXT.CHECK_REPLY") /\ reply.type = "context"
  /\ meta_contexts' = IF MetaOption = "SET_META_CONTEXT"
                      THEN meta_contexts \cup {<<reply.context, Session>>}
                      ELSE meta_contexts
  /\ SET_NEXT_STATE("OPT_META_CONTEXT.RECV_REPLY")
  /\ NextReply
  /\ UNCHANGED <<cfg, fixed, optVars, sendVars, sessVars, meta_valid, info>>

MetaContextEnd ==
  /\ Checking("OPT_META_CONTEXT.CHECK_REPLY") /\ reply.type \in {"ack"} \cup ErrorReplies
  /\ meta_valid' = IF MetaOption = "LIST_META_CONTEXT" THEN meta_valid
                   ELSE \/ reply.type = "ack"
                        \/ opt_current # MetaOption /\ meta_contexts = {}
                        \/ opt_current = MetaOption /\ meta_valid
  /\ IF MetaOption = opt_current
     THEN SET_NEXT_STATE("NEGOTIATING") /\ CallCompletion(reply.type = "ack")
     ELSE SET_NEXT_STATE("OPT_GO.START") /\ UNCHANGED optVars
  /\ LastReply
  /\ UNCHANGED <<cfg, fixed, sendVars, sessVars, meta_contexts, info>>

ListOne ==
  /\ Checking("OPT_LIST.CHECK_REPLY") /\ reply.type = "server"
  /\ SET_NEXT_STATE("OPT_LIST.RECV_REPLY")
  /\ NextReply
  /\ UNCHANGED <<cfg, fixed, optVars, sendVars, sessVars, metaVars, info>>

ListEnd ==
  /\ Checking("OPT_LIST.CHECK_REPLY") /\ reply.type # "server"
  /\ SET_NEXT_STATE("NEGOTIATING") /\ CallCompletion(reply.type = "ack")
  /\ LastReply
  /\ UNCHANGED <<cfg, fixed, sendVars, sessVars, metaVars, info>>

GoInfo ==
  /\ Checking("OPT_GO.CHECK_REPLY") /\ reply.type \in {"export", "block", "other"}
  /\ \/ reply.type = "export" /\ reply.eflags # {} /\ LearnExport(reply.eflags)
     \/ reply.type = "block" /\ info' = SetBlockSize(info, reply.block) /\ UNCHANGED metaVars
     \/ reply.type = "other" /\ UNCHANGED <<info, metaVars>>
  /\ SET_NEXT_STATE("OPT_GO.RECV_REPLY")
  /\ NextReply
  /\ UNCHANGED <<cfg, fixed, optVars, sendVars, sessVars>>

\* A plausible slip: the option the server does not know is sent again.
GoAgain == "OPT_GO.START"

AfterUnsupported == "OPT_EXPORT_NAME.START"

\* "server is confused by NBD_OPT_GO, continuing anyway"
GoUnsupported ==
  /\ Checking("OPT_GO.CHECK_REPLY") /\ reply.type = "unsup" /\ opt_current = "GO"
  /\ SET_NEXT_STATE(AfterUnsupported)
  /\ LastReply
  /\ UNCHANGED <<cfg, fixed, optVars, sendVars, sessVars, metaVars, info>>

AfterRefusal == IF cfg.opt_mode THEN "NEGOTIATING" ELSE "NEWSTYLE.PREPARE_OPT_ABORT"

GoRefused ==
  /\ Checking("OPT_GO.CHECK_REPLY") /\ reply.type \in ErrorReplies
  /\ ~(reply.type = "unsup" /\ opt_current = "GO")
  /\ info' = ResetSizeAndFlags /\ meta_valid' = FALSE
  /\ SET_NEXT_STATE(AfterRefusal)
  /\ CallCompletion(FALSE)
  /\ LastReply
  /\ UNCHANGED <<cfg, fixed, sendVars, sessVars, meta_contexts>>

GoAccepted ==
  /\ Checking("OPT_GO.CHECK_REPLY") /\ reply.type = "ack"
  /\ info' = SetPayload(info)
  /\ SET_NEXT_STATE(IF opt_current = "GO" THEN "NEWSTYLE.FINISHED" ELSE "NEGOTIATING")
  /\ CallCompletion(TRUE)
  /\ LastReply
  /\ UNCHANGED <<cfg, fixed, sendVars, sessVars, metaVars>>

ExportNameReply ==
  /\ Entering("OPT_EXPORT_NAME.RECV_REPLY")
  /\ \/ WouldBlockOrFail
     \/ /\ Arrives
        /\ \E eflags \in EFlags :
             IF eflags = {}
             THEN SET_NEXT_STATE("DEAD") /\ UNCHANGED <<optVars, metaVars, info>>
             ELSE /\ LearnExportAndPayload(eflags)
                  /\ SET_NEXT_STATE("NEWSTYLE.FINISHED") /\ CallCompletion(TRUE)
        /\ UNCHANGED <<cfg, fixed, sendVars, recvVars, sessVars>>

-----------------------------------------------------------------------------
(* The states outside the handshake (generator/states.c). *)

ReadyOrNegotiating ==
  /\ running /\ state \in {"READY", "NEGOTIATING"}
  /\ StayBlocked
  /\ UNCHANGED <<sock, link, negVars>>

\* A plausible slip: the option in progress is forgotten.
OptionForgotten == UNCHANGED optVars

(* abort_option *)
AbortOption == CallCompletion(FALSE)

Ended ==
  /\ running /\ state \in {"DEAD", "CLOSED"}
  /\ AbortOption
  /\ sock' = FALSE /\ link' = "none"
  /\ running' = FALSE /\ failed' = (state = "DEAD") /\ UNCHANGED state
  /\ querynum' = 0 /\ owed' = 0 /\ LastReply
  /\ UNCHANGED <<cfg, fixed, querylist, sessVars, metaVars, info>>

Handler ==
  \/ MagicStart \/ MagicRecv \/ OldstyleRecv
  \/ NewstyleStart \/ NewstyleGflags \/ NewstyleCflags
  \/ NewstylePrepareAbort \/ NewstyleSendAbort \/ NewstyleShutdown \/ NewstyleFinished
  \/ StarttlsStart \/ ExtendedHeadersStart \/ StructuredReplyStart \/ ListStart
  \/ MetaContextStart \/ GoStart \/ ExportNameStart
  \/ Send \/ MetaContextNextQuery \/ RecvReply \/ RecvPayload \/ Garbage
  \/ StarttlsAccepted \/ StarttlsRefused \/ TlsHandshake \/ TlsHandshakeDone
  \/ ExtendedHeadersCheck \/ StructuredReplyCheck
  \/ MetaContextOne \/ MetaContextEnd \/ ListOne \/ ListEnd
  \/ GoInfo \/ GoUnsupported \/ GoRefused \/ GoAccepted \/ ExportNameReply

NegotiationStep ==
  /\ \/ Handler /\ UNCHANGED <<sock, link>>
     \/ ReadyOrNegotiating
     \/ Ended
  /\ ready' = FALSE
  /\ TcpUnchanged /\ UNCHANGED held

\* The socket is ready for what a blocked state waits for, or, while the
\* handler spins, the server's part of the TLS handshake has come.
SocketReady ==
  /\ \/ ~running /\ state \in IoStates /\ link # "pending" /\ RunFrom(state)
     \/ Entering("OPT_STARTTLS.TLS_HANDSHAKE_READ") /\ ~ready
        /\ UNCHANGED <<state, running, failed>>
  /\ ready' = TRUE
  /\ UNCHANGED <<sock, link, rp, held, negVars>>
=============================================================================
