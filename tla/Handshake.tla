----------------------------- MODULE Handshake -----------------------------
(***************************************************************************)
(* A handle from nbd_create until it is ready for commands: connecting     *)
(* (Connect), the handshake (Negotiation), and the user's calls, those of  *)
(* lib/connect.c, lib/opt.c and the setters of lib/handle.c.  A            *)
(* synchronous call holds the lock until it returns; after an aio_ call    *)
(* the user may make any call the state permits.                           *)
(***************************************************************************)
EXTENDS Negotiation

CONSTANTS
  How,                 \* the ways the user may connect
  Settable,            \* the settings the user may change
  Asked,               \* the options the user may ask for in opt mode
  MaxCalls             \* bound: calls in opt mode

VARIABLES
  api,                 \* the synchronous call in progress
  calls                \* calls so far in opt mode

vars == <<connectVars, negVars, ready, api, calls>>

NoCall == [op |-> "none", polled |-> FALSE]

Init ==
  /\ ConnectInit /\ NegInit
  /\ api = NoCall /\ calls = 0

-----------------------------------------------------------------------------
(* The settings. *)

Idle(states) == api.op = "none" /\ ~running /\ state \in states

Created       == {"START"}
Negotiating   == {"NEGOTIATING"}
HandleOnly    == UNCHANGED <<connectVars, ready, fixed, optVars, sendVars, recvVars, sessVars,
                             meta_contexts, api>>
CountCall     == IF state = "NEGOTIATING" THEN calls < MaxCalls /\ calls' = calls + 1
                 ELSE UNCHANGED calls

SetCreated ==
  /\ Idle(Created)
  /\ \/ \E f \in {"opt_mode", "request_eh", "request_sr"} \cap Settable, b \in BOOLEAN :
          cfg' = [cfg EXCEPT ![f] = b]
     \/ "tls" \in Settable /\ \E t \in Tls : cfg' = [cfg EXCEPT !.tls = t]
  /\ UNCHANGED <<info, meta_valid, calls>> /\ HandleOnly

SetFlag ==
  /\ Idle(Created \cup Negotiating) /\ CountCall
  /\ \E f \in {"request_meta", "request_block_size", "full_info"} \cap Settable, b \in BOOLEAN :
       b # cfg[f] /\ cfg' = [cfg EXCEPT ![f] = b]
  /\ UNCHANGED <<info, meta_valid>> /\ HandleOnly

AddMetaContext ==
  /\ Idle(Created \cup Negotiating) /\ CountCall
  /\ cfg.contexts < MaxQueries /\ cfg' = [cfg EXCEPT !.contexts = @ + 1]
  /\ UNCHANGED <<info, meta_valid>> /\ HandleOnly

ClearMetaContexts ==
  /\ Idle(Created \cup Negotiating) /\ CountCall
  /\ cfg.contexts > 0 /\ cfg' = [cfg EXCEPT !.contexts = 0]
  /\ UNCHANGED <<info, meta_valid>> /\ HandleOnly

\* A plausible slip: only the name is changed.
RenameOnly(e) ==
  cfg' = [cfg EXCEPT !.export_name = e] /\ UNCHANGED <<info, meta_valid>>

Rename(e) ==
  /\ cfg' = [cfg EXCEPT !.export_name = e]
  /\ info' = ResetSizeAndFlags /\ meta_valid' = FALSE

SetExportName ==
  /\ Idle(Created \cup Negotiating) /\ CountCall
  /\ \E e \in Exports \ {cfg.export_name} : Rename(e)
  /\ HandleOnly

-----------------------------------------------------------------------------
(* Connecting. *)

ConnectTo ==
  "sockaddr" :> "CONNECT.START" @@ "tcp" :> "CONNECT_TCP.START" @@
  "command" :> "CONNECT_COMMAND.START" @@ "socket activation" :> "CONNECT_SA.START" @@
  "socket" :> "MAGIC.START"

\* The lock is kept (sync) or given up (aio).
Calling(op) == api' \in {NoCall, [op |-> op, polled |-> FALSE]}

AioConnect ==
  /\ Idle(Created)
  /\ \E how \in How :
       /\ RunFrom(ConnectTo[how])
       /\ IF how = "socket" THEN sock' = TRUE /\ link' = "up" ELSE UNCHANGED <<sock, link>>
  /\ Calling("connect")
  /\ UNCHANGED <<rp, held, negVars, ready, calls>>

-----------------------------------------------------------------------------
(* The options of opt mode. *)

CallbackFor(op) ==
  CASE op = "LIST" -> "list"
    [] op \in {"LIST_META_CONTEXT", "SET_META_CONTEXT"} -> "context"
    [] OTHER -> opt_cb.fn

\* nbd_internal_set_querylist: the contexts added, or those given.
Queries(op) == IF op \in {"LIST_META_CONTEXT", "SET_META_CONTEXT"}
               THEN 0..MaxQueries ELSE {querylist}

AioOption ==
  /\ Idle(Negotiating) /\ CountCall
  /\ \E op \in Asked \ {"ABORT"} :
       /\ fixed \/ op = "GO"
       /\ opt_current' = op
       /\ opt_cb' = [completion |-> TRUE, fn |-> CallbackFor(op)]
       /\ querylist' \in Queries(op)
       /\ Calling(op)
  /\ ended' = [n |-> 0, ok |-> TRUE]
  /\ RunFrom("NEWSTYLE.START")
  /\ UNCHANGED <<sock, link, rp, held, ready, cfg, fixed, querynum, owed,
                 recvVars, sessVars, metaVars, info>>

\* nbd_aio_opt_abort, and nbd_shutdown in opt mode.
AioAbort ==
  /\ Idle(Negotiating) /\ "ABORT" \in Asked
  /\ opt_current' = "ABORT" /\ ended' = [n |-> -1, ok |-> TRUE]
  /\ Calling("ABORT") \/ Calling("shutdown")
  /\ RunFrom("NEWSTYLE.START")
  /\ UNCHANGED <<sock, link, rp, held, ready, cfg, fixed, opt_cb, sendVars,
                 recvVars, sessVars, metaVars, info, calls>>

-----------------------------------------------------------------------------
(* Waiting and returning (wait_for_option, nbd_internal_wait_until_connected). *)

Connecting == state \notin {"START", "NEGOTIATING", "READY", "DEAD", "CLOSED", "FREED",
                            "CONNECT_SA.START"}

Returning == api.op # "none" /\ ~running /\ ~Connecting

Return ==
  /\ Returning
  /\ api' = NoCall
  /\ UNCHANGED <<connectVars, negVars, ready, calls>>

\* nbd_close: callbacks are freed, not called, and the handle is gone.
Close ==
  /\ Idle({state}) /\ state # "FREED"
  /\ state' = "FREED" /\ sock' = FALSE /\ link' = "none" /\ held' = {}
  /\ opt_cb' = FreedCallbacks
  /\ failed' = FALSE /\ rp' = 0
  /\ cfg' = DefaultSettings /\ fixed' = TRUE
  /\ opt_current' = "none" /\ ended' = [n |-> -1, ok |-> TRUE]
  /\ querylist' = 0 /\ querynum' = 0 /\ owed' = 0 /\ LastReply
  /\ tls_negotiated' = FALSE /\ structured_replies' = FALSE /\ extended_headers' = FALSE
  /\ meta_valid' = FALSE /\ meta_contexts' = {} /\ info' = ResetSizeAndFlags
  /\ ready' = FALSE /\ calls' = 0
  /\ UNCHANGED <<running, api>>

Polled == api' = IF api.op = "none" \/ running THEN api ELSE [api EXCEPT !.polled = TRUE]

Step ==
  \/ ConnectStep /\ UNCHANGED <<negVars, ready, api, calls>>
  \/ NegotiationStep /\ UNCHANGED <<api, calls>>

Event ==
  \/ ConnectWritable /\ Polled /\ UNCHANGED <<negVars, ready, calls>>
  \/ KernelConnects /\ UNCHANGED <<negVars, ready, api, calls>>
  \/ SocketReady /\ Polled /\ UNCHANGED calls

User ==
  \/ SetCreated \/ SetFlag \/ AddMetaContext \/ ClearMetaContexts \/ SetExportName
  \/ AioConnect \/ AioOption \/ AioAbort \/ Close

Next == Step \/ Event \/ User \/ Return

Spec == Init /\ [][Next]_vars

\* nbd_internal_run runs its handlers; nothing is asked of the server.
RunSpec == Spec /\ WF_vars(Step) /\ WF_vars(Return)

\* And the peer and the kernel answer, one way or the other, and the user polls.
FairSpec == RunSpec /\ WF_vars(Event)

-----------------------------------------------------------------------------
(* The assert()s of the handshake: in NEWSTYLE.START, in the START state   *)
(* of every option (which callbacks must be there, or must not), before an *)
(* option is aborted, in nbd_internal_set_size_and_flags, and in           *)
(* nbd_aio_opt_list and aio_opt_meta_context_queries.                      *)
NegotiationAsserts ==
  LET Automatic == ~opt_cb.completion
      Own(op) == IF opt_current = op THEN cfg.opt_mode ELSE Automatic
  IN
  /\ Entering("NEWSTYLE.RECV_GFLAGS") => opt_current = "none"
  /\ running /\ state \in {"NEWSTYLE.PREPARE_OPT_ABORT", "OPT_STARTTLS.START",
                           "OPT_EXTENDED_HEADERS.START", "OPT_STRUCTURED_REPLY.START",
                           "OPT_META_CONTEXT.START", "OPT_GO.START", "OPT_LIST.START"}
       => fixed
  /\ Entering("OPT_STARTTLS.START") => Own("STARTTLS")
  /\ Entering("OPT_EXTENDED_HEADERS.START") => Own("EXTENDED_HEADERS")
  /\ Entering("OPT_STRUCTURED_REPLY.START") => Own("STRUCTURED_REPLY")
  /\ Entering("OPT_META_CONTEXT.START") =>
       /\ opt_current = "LIST_META_CONTEXT" => cfg.opt_mode
       /\ (opt_cb.fn # "none") = (opt_current \in {"LIST_META_CONTEXT", "SET_META_CONTEXT"})
  /\ Entering("OPT_GO.START") =>
       /\ opt_current = "INFO" => cfg.opt_mode
       /\ opt_current = "none" => ~cfg.opt_mode /\ Automatic
  /\ Entering("OPT_LIST.START") => cfg.opt_mode /\ opt_current = "LIST" /\ opt_cb.fn # "none"
  /\ \/ Checking("OPT_GO.CHECK_REPLY") /\ reply.type = "export"
     \/ running /\ state \in {"OPT_EXPORT_NAME.RECV_REPLY", "OLDSTYLE.RECV_REMAINING"}
       => (cfg.request_meta /\ (~structured_replies \/ cfg.contexts = 0) => meta_contexts = {})
  /\ Idle(Negotiating) => opt_cb.fn = "none"

(* An option's data is as long as its header announced (optlen in          *)
(* OPT_META_CONTEXT.START, OPT_GO.START and OPT_EXPORT_NAME.START),        *)
(* however often its sending is suspended: the wait for the reply begins   *)
(* when, and only when, all of it has been sent.                           *)
OptionWhole ==
  /\ owed >= 0
  /\ state \in DOMAIN RecvTo \cup {"OPT_EXPORT_NAME.RECV_REPLY", "NEGOTIATING", "READY"}
       => owed = 0

(* The completion callback of an option is called once: never again after  *)
(* that, and before the handle is seen to be negotiating, ready, dead or   *)
(* closed.  nbd_close frees callbacks of an option still in progress, and  *)
(* loses none (nbd_internal_free_option).                                  *)
OptionEndsOnce ==
  /\ ended.n <= 1 /\ (opt_cb.completion => ended.n = 0)
  /\ ~running /\ state \in {"NEGOTIATING", "READY", "DEAD", "CLOSED"} =>
       ended.n # 0 /\ opt_cb = [completion |-> FALSE, fn |-> "none"]
  /\ state = "FREED" => opt_cb = [completion |-> FALSE, fn |-> "none"]

(* nbd_set_tls with LIBNBD_TLS_REQUIRE: whatever protocol the server talks *)
(* and whatever it answers, the handle is not handed over without TLS.     *)
TlsHonoured ==
  cfg.tls = "require" /\ state \in {"NEGOTIATING", "READY"} => tls_negotiated

(* What the handle reports was said by the server about the export now     *)
(* selected, in the session now in use: nothing survives a new export      *)
(* name (nbd_unlocked_set_export_name) or NBD_OPT_STARTTLS, whatever       *)
(* options come in between.                                                *)
KnowledgeFresh ==
  /\ info.eflags # {} => info.exportsize = Session
  /\ meta_valid => \A m \in meta_contexts : m[2] = Session

(* The flags kept are those the negotiated protocol can honour             *)
(* (nbd_internal_set_size_and_flags), also after the protocol is           *)
(* negotiated anew, and extended headers come with structured replies.     *)
FlagsHonourable ==
  /\ "df" \in info.eflags => structured_replies
  /\ "block_status_payload" \in info.eflags => extended_headers
  /\ extended_headers => structured_replies

(* A ready handle knows how much it may send in one request, and it never  *)
(* is less than the protocol guarantees nor more than it can allocate      *)
(* (nbd_internal_set_payload on every way to READY); block sizes come      *)
(* from one server message, whole or not at all.                           *)
PayloadKnown ==
  /\ state = "READY" => info.payload_maximum \in PayloadFloor..MAX_REQUEST_SIZE
  /\ info.block_minimum <= info.block_preferred /\ info.block_preferred <= info.block_maximum
  /\ info.block_maximum # 0 => info.block_minimum # 0

(* The assert()s after wait_for_option in the synchronous nbd_opt_* calls, *)
(* the uninitialised err of nbd_unlocked_opt_extended_headers, and the     *)
(* state error_unless_ready says should never happen.                      *)
SyncAsserts ==
  Returning /\ ~(failed /\ api.polled) =>
    /\ api.op = "GO" => IF ended.ok THEN state = "READY" ELSE state \in {"NEGOTIATING", "DEAD"}
    /\ api.op = "INFO" /\ ~ended.ok => state \in {"NEGOTIATING", "DEAD"}
    /\ api.op \in {"STARTTLS", "EXTENDED_HEADERS", "STRUCTURED_REPLY"} =>
         state \in {"NEGOTIATING", "DEAD"}
    /\ api.op = "EXTENDED_HEADERS" => ended.n = 1
    /\ api.op = "connect" /\ ~failed => state \in {"READY", "NEGOTIATING", "CLOSED", "DEAD"}

(* The assert()s of connecting, of negotiating and of the calls that wait, *)
(* but for the one of nbd_opt_starttls when TLS is required.               *)
HandshakeAsserts ==
  /\ ConnectAsserts
  /\ NegotiationAsserts
  /\ ~(api.op = "STARTTLS" /\ cfg.tls = "require") => SyncAsserts

(* A closed handle has removed the directory and socket of socket          *)
(* activation and reaped its child.                                        *)
CloseReleases == NothingLeaked /\ (state = "FREED" => held = {} /\ ~sock)

(* If kernel and server answer one way or the other, a handle does not     *)
(* stay in the connecting states (nbd_aio_is_connecting) for ever: a       *)
(* connect or nbd_opt_* call returns.                                      *)
ConnectingEnds == Connecting ~> ~Connecting

=============================================================================
