------------------------------ MODULE ApiTable ------------------------------
(***************************************************************************)
(* The nbd_* functions of lib/api.c, generated from generator/API.ml: for  *)
(* each one whether it takes h->lock, the states it is permitted in (its   *)
(* *_in_permitted_state), whether it rejects an argument (NULL, a flag or  *)
(* an enumeration out of range), the closures it is given and frees unless *)
(* the call has taken them, and what the nbd_unlocked_* function it calls  *)
(* does to the handle.  ApiCalls runs them.                                *)
(***************************************************************************)

\* Permitted states, as classes of lib/is-state.c.
Anytime == {"created", "connecting", "negotiating", "ready", "processing", "dead", "closed"}
Created == {"created"}
Configurable == {"created", "negotiating"}
Negotiating == {"negotiating"}
Negotiated == {"negotiating", "ready", "processing", "closed"}
Connected == {"ready", "processing"}
Stoppable == {"negotiating", "ready", "processing"}
OnceConnected == {"ready", "processing", "closed", "dead"}
NotCreated == Anytime \ Created

Locked(permitted, does) ==
  [locked |-> TRUE, permitted |-> permitted, checked |-> FALSE, closures |-> {},
   does |-> does, asks |-> "none", raises |-> {}, sync |-> FALSE]

\* Reads an atomic or a constant field, without the lock.
Unlocked == [Locked(Anytime, "nothing") EXCEPT !.locked = FALSE]

\* Reads or writes fields of the handle.
Field(permitted) == Locked(permitted, "nothing")
SetsDebugCallback == [Locked(Anytime, "set debug") EXCEPT !.closures = {"debug"}]
ClearsDebugCallback == Locked(Anytime, "clear debug")

\* Raises one of the events in state START.
Connects(events) == [Locked(Created, "connect") EXCEPT !.raises = events]

\* Starts an option; META_CONTEXT stands for LIST_ and SET_META_CONTEXT.
Asks(option, closures) ==
  [Locked(Negotiating, "option") EXCEPT !.asks = option, !.closures = closures]
Aborts == Locked(Negotiating, "abort")

\* Queues a command.
Issues(closures) == [Locked(Connected, "command") EXCEPT !.closures = closures]
Disconnects == Locked(Connected, "disconnect")
ShutsDown == [Locked(Stoppable, "shutdown") EXCEPT !.sync = TRUE]

Notifies(event) == [Locked(Anytime, "notify") EXCEPT !.raises = {event}]
Polls == Locked(Anytime, "poll")
Retires == Locked(Anytime, "retire")

Checked(row) == [row EXCEPT !.checked = TRUE]

\* Polls until what it started is over.
Sync(row) == [row EXCEPT !.sync = TRUE]

-----------------------------------------------------------------------------
nbd_set_debug == Field(Anytime)
nbd_get_debug == Field(Anytime)
nbd_set_debug_callback == Checked(SetsDebugCallback)
nbd_clear_debug_callback == ClearsDebugCallback
nbd_stats_bytes_sent == Field(Anytime)
nbd_stats_chunks_sent == Field(Anytime)
nbd_stats_bytes_received == Field(Anytime)
nbd_stats_chunks_received == Field(Anytime)
nbd_set_handle_name == Checked(Field(Anytime))
nbd_get_handle_name == Field(Anytime)
nbd_set_private_data == Unlocked
nbd_get_private_data == Unlocked
nbd_set_export_name == Checked(Field(Configurable))
nbd_get_export_name == Field(Anytime)
nbd_set_request_block_size == Field(Configurable)
nbd_get_request_block_size == Field(Anytime)
nbd_set_full_info == Field(Configurable)
nbd_get_full_info == Field(Anytime)
nbd_get_canonical_export_name == Field(Negotiated)
nbd_get_export_description == Field(Negotiated)
nbd_set_tls == Checked(Field(Created))
nbd_get_tls == Field(Anytime)
nbd_get_tls_negotiated == Field(Negotiated)
nbd_set_tls_certificates == Checked(Field(Created))
nbd_set_tls_verify_peer == Field(Created)
nbd_get_tls_verify_peer == Field(Anytime)
nbd_set_tls_username == Checked(Field(Created))
nbd_get_tls_username == Field(Anytime)
nbd_set_tls_hostname == Checked(Field(Created))
nbd_get_tls_hostname == Field(Anytime)
nbd_set_tls_psk_file == Checked(Field(Created))
nbd_set_request_extended_headers == Field(Created)
nbd_get_request_extended_headers == Field(Anytime)
nbd_get_extended_headers_negotiated == Field(Negotiated)
nbd_set_request_structured_replies == Field(Created)
nbd_get_request_structured_replies == Field(Anytime)
nbd_get_structured_replies_negotiated == Field(Negotiated)
nbd_set_request_meta_context == Field(Configurable)
nbd_get_request_meta_context == Field(Anytime)
nbd_set_handshake_flags == Checked(Field(Created))
nbd_get_handshake_flags == Field(Anytime)
nbd_set_pread_initialize == Field(Anytime)
nbd_get_pread_initialize == Field(Anytime)
nbd_set_strict_mode == Checked(Field(Anytime))
nbd_get_strict_mode == Field(Anytime)
nbd_set_opt_mode == Field(Created)
nbd_get_opt_mode == Field(Anytime)
nbd_opt_go == Sync(Asks("GO", {}))
nbd_opt_abort == Sync(Aborts)
nbd_opt_starttls == Sync(Asks("STARTTLS", {}))
nbd_opt_extended_headers == Sync(Asks("EXTENDED_HEADERS", {}))
nbd_opt_structured_reply == Sync(Asks("STRUCTURED_REPLY", {}))
nbd_opt_list == Checked(Sync(Asks("LIST", {"fn"})))
nbd_opt_info == Sync(Asks("INFO", {}))
nbd_opt_list_meta_context == Checked(Sync(Asks("META_CONTEXT", {"fn"})))
nbd_opt_list_meta_context_queries == Checked(Sync(Asks("META_CONTEXT", {"fn"})))
nbd_opt_set_meta_context == Checked(Sync(Asks("META_CONTEXT", {"fn"})))
nbd_opt_set_meta_context_queries == Checked(Sync(Asks("META_CONTEXT", {"fn"})))
nbd_add_meta_context == Checked(Field(Configurable))
nbd_get_nr_meta_contexts == Field(Anytime)
nbd_get_meta_context == Field(Anytime)
nbd_clear_meta_contexts == Field(Configurable)
nbd_set_uri_allow_transports == Checked(Field(Created))
nbd_set_uri_allow_tls == Checked(Field(Created))
nbd_set_uri_allow_local_file == Field(Created)
nbd_connect_uri ==
  Checked(Sync(Connects({"cmd_connect_tcp",
                         "cmd_connect_sockaddr", "cmd_connect_command"})))
nbd_connect_unix == Checked(Sync(Connects({"cmd_connect_sockaddr"})))
nbd_connect_vsock == Sync(Connects({"cmd_connect_sockaddr"}))
nbd_connect_tcp == Checked(Sync(Connects({"cmd_connect_tcp"})))
nbd_connect_socket == Sync(Connects({"cmd_connect_socket"}))
nbd_connect_command == Checked(Sync(Connects({"cmd_connect_command"})))
nbd_connect_systemd_socket_activation == Checked(Sync(Connects({"cmd_connect_sa"})))
nbd_set_socket_activation_name == Checked(Field(Created))
nbd_get_socket_activation_name == Field(Anytime)
nbd_is_read_only == Field(Negotiated)
nbd_can_flush == Field(Negotiated)
nbd_can_fua == Field(Negotiated)
nbd_is_rotational == Field(Negotiated)
nbd_can_trim == Field(Negotiated)
nbd_can_zero == Field(Negotiated)
nbd_can_fast_zero == Field(Negotiated)
nbd_can_block_status_payload == Field(Negotiated)
nbd_can_df == Field(Negotiated)
nbd_can_multi_conn == Field(Negotiated)
nbd_can_cache == Field(Negotiated)
nbd_can_meta_context == Checked(Field(Negotiated))
nbd_get_protocol == Field(Negotiated)
nbd_get_size == Field(Negotiated)
nbd_get_block_size == Checked(Field(Negotiated))
nbd_pread == Checked(Sync(Issues({})))
nbd_pread_structured == Checked(Sync(Issues({"fn"})))
nbd_pwrite == Checked(Sync(Issues({})))
nbd_shutdown == Checked(ShutsDown)
nbd_flush == Checked(Sync(Issues({})))
nbd_trim == Checked(Sync(Issues({})))
nbd_cache == Checked(Sync(Issues({})))
nbd_zero == Checked(Sync(Issues({})))
nbd_block_status == Checked(Sync(Issues({"fn"})))
nbd_block_status_64 == Checked(Sync(Issues({"fn"})))
nbd_block_status_filter == Checked(Sync(Issues({"fn"})))
nbd_poll == Polls
nbd_poll2 == Polls
nbd_aio_connect == Checked(Connects({"cmd_connect_sockaddr"}))
nbd_aio_connect_uri ==
  Checked(Connects({"cmd_connect_tcp", "cmd_connect_sockaddr", "cmd_connect_command"}))
nbd_aio_connect_unix == Checked(Connects({"cmd_connect_sockaddr"}))
nbd_aio_connect_vsock == Connects({"cmd_connect_sockaddr"})
nbd_aio_connect_tcp == Checked(Connects({"cmd_connect_tcp"}))
nbd_aio_connect_socket == Connects({"cmd_connect_socket"})
nbd_aio_connect_command == Checked(Connects({"cmd_connect_command"}))
nbd_aio_connect_systemd_socket_activation == Checked(Connects({"cmd_connect_sa"}))
nbd_aio_opt_go == Asks("GO", {"completion"})
nbd_aio_opt_abort == Aborts
nbd_aio_opt_starttls == Asks("STARTTLS", {"completion"})
nbd_aio_opt_extended_headers == Asks("EXTENDED_HEADERS", {"completion"})
nbd_aio_opt_structured_reply == Asks("STRUCTURED_REPLY", {"completion"})
nbd_aio_opt_list == Checked(Asks("LIST", {"fn", "completion"}))
nbd_aio_opt_info == Asks("INFO", {"completion"})
nbd_aio_opt_list_meta_context == Checked(Asks("META_CONTEXT", {"fn", "completion"}))
nbd_aio_opt_list_meta_context_queries == Checked(Asks("META_CONTEXT", {"fn", "completion"}))
nbd_aio_opt_set_meta_context == Checked(Asks("META_CONTEXT", {"fn", "completion"}))
nbd_aio_opt_set_meta_context_queries == Checked(Asks("META_CONTEXT", {"fn", "completion"}))
nbd_aio_pread == Checked(Issues({"completion"}))
nbd_aio_pread_structured == Checked(Issues({"fn", "completion"}))
nbd_aio_pwrite == Checked(Issues({"completion"}))
nbd_aio_disconnect == Checked(Disconnects)
nbd_aio_flush == Checked(Issues({"completion"}))
nbd_aio_trim == Checked(Issues({"completion"}))
nbd_aio_cache == Checked(Issues({"completion"}))
nbd_aio_zero == Checked(Issues({"completion"}))
nbd_aio_block_status == Checked(Issues({"fn", "completion"}))
nbd_aio_block_status_64 == Checked(Issues({"fn", "completion"}))
nbd_aio_block_status_filter == Checked(Issues({"fn", "completion"}))
nbd_aio_get_fd == Field(Anytime)
nbd_aio_get_direction == Unlocked
nbd_aio_notify_read == Notifies("notify_read")
nbd_aio_notify_write == Notifies("notify_write")
nbd_aio_is_created == Unlocked
nbd_aio_is_connecting == Unlocked
nbd_aio_is_negotiating == Unlocked
nbd_aio_is_ready == Unlocked
nbd_aio_is_processing == Unlocked
nbd_aio_is_dead == Unlocked
nbd_aio_is_closed == Unlocked
nbd_aio_command_completed == Retires
nbd_aio_peek_command_completed == Field(Anytime)
nbd_aio_in_flight == Field(OnceConnected)
nbd_connection_state == Field(Anytime)
nbd_get_package_name == Unlocked
nbd_get_version == Unlocked
nbd_kill_subprocess == Field(Anytime)
nbd_get_subprocess_pid == Field(Anytime)
nbd_supports_tls == Unlocked
nbd_supports_vsock == Unlocked
nbd_supports_uri == Unlocked
nbd_get_uri == Field(NotCreated)
nbd_is_uri == Checked(Field(Anytime))

-----------------------------------------------------------------------------
Calls ==
  {nbd_set_debug, nbd_get_debug, nbd_set_debug_callback, nbd_clear_debug_callback,
   nbd_stats_bytes_sent, nbd_stats_chunks_sent, nbd_stats_bytes_received,
   nbd_stats_chunks_received, nbd_set_handle_name, nbd_get_handle_name,
   nbd_set_private_data, nbd_get_private_data, nbd_set_export_name,
   nbd_get_export_name, nbd_set_request_block_size, nbd_get_request_block_size,
   nbd_set_full_info, nbd_get_full_info, nbd_get_canonical_export_name,
   nbd_get_export_description, nbd_set_tls, nbd_get_tls, nbd_get_tls_negotiated,
   nbd_set_tls_certificates, nbd_set_tls_verify_peer, nbd_get_tls_verify_peer,
   nbd_set_tls_username, nbd_get_tls_username, nbd_set_tls_hostname,
   nbd_get_tls_hostname, nbd_set_tls_psk_file, nbd_set_request_extended_headers,
   nbd_get_request_extended_headers, nbd_get_extended_headers_negotiated,
   nbd_set_request_structured_replies, nbd_get_request_structured_replies,
   nbd_get_structured_replies_negotiated, nbd_set_request_meta_context,
   nbd_get_request_meta_context, nbd_set_handshake_flags, nbd_get_handshake_flags,
   nbd_set_pread_initialize, nbd_get_pread_initialize, nbd_set_strict_mode,
   nbd_get_strict_mode, nbd_set_opt_mode, nbd_get_opt_mode, nbd_opt_go, nbd_opt_abort,
   nbd_opt_starttls, nbd_opt_extended_headers, nbd_opt_structured_reply, nbd_opt_list,
   nbd_opt_info, nbd_opt_list_meta_context, nbd_opt_list_meta_context_queries,
   nbd_opt_set_meta_context, nbd_opt_set_meta_context_queries, nbd_add_meta_context,
   nbd_get_nr_meta_contexts, nbd_get_meta_context, nbd_clear_meta_contexts,
   nbd_set_uri_allow_transports, nbd_set_uri_allow_tls, nbd_set_uri_allow_local_file,
   nbd_connect_uri, nbd_connect_unix, nbd_connect_vsock, nbd_connect_tcp,
   nbd_connect_socket, nbd_connect_command, nbd_connect_systemd_socket_activation,
   nbd_set_socket_activation_name, nbd_get_socket_activation_name, nbd_is_read_only,
   nbd_can_flush, nbd_can_fua, nbd_is_rotational, nbd_can_trim, nbd_can_zero,
   nbd_can_fast_zero, nbd_can_block_status_payload, nbd_can_df, nbd_can_multi_conn,
   nbd_can_cache, nbd_can_meta_context, nbd_get_protocol, nbd_get_size,
   nbd_get_block_size, nbd_pread, nbd_pread_structured, nbd_pwrite, nbd_shutdown,
   nbd_flush, nbd_trim, nbd_cache, nbd_zero, nbd_block_status, nbd_block_status_64,
   nbd_block_status_filter, nbd_poll, nbd_poll2, nbd_aio_connect, nbd_aio_connect_uri,
   nbd_aio_connect_unix, nbd_aio_connect_vsock, nbd_aio_connect_tcp,
   nbd_aio_connect_socket, nbd_aio_connect_command,
   nbd_aio_connect_systemd_socket_activation, nbd_aio_opt_go, nbd_aio_opt_abort,
   nbd_aio_opt_starttls, nbd_aio_opt_extended_headers, nbd_aio_opt_structured_reply,
   nbd_aio_opt_list, nbd_aio_opt_info, nbd_aio_opt_list_meta_context,
   nbd_aio_opt_list_meta_context_queries, nbd_aio_opt_set_meta_context,
   nbd_aio_opt_set_meta_context_queries, nbd_aio_pread, nbd_aio_pread_structured,
   nbd_aio_pwrite, nbd_aio_disconnect, nbd_aio_flush, nbd_aio_trim, nbd_aio_cache,
   nbd_aio_zero, nbd_aio_block_status, nbd_aio_block_status_64,
   nbd_aio_block_status_filter, nbd_aio_get_fd, nbd_aio_get_direction,
   nbd_aio_notify_read, nbd_aio_notify_write, nbd_aio_is_created,
   nbd_aio_is_connecting, nbd_aio_is_negotiating, nbd_aio_is_ready,
   nbd_aio_is_processing, nbd_aio_is_dead, nbd_aio_is_closed,
   nbd_aio_command_completed, nbd_aio_peek_command_completed, nbd_aio_in_flight,
   nbd_connection_state, nbd_get_package_name, nbd_get_version, nbd_kill_subprocess,
   nbd_get_subprocess_pid, nbd_supports_tls, nbd_supports_vsock, nbd_supports_uri,
   nbd_get_uri, nbd_is_uri}
=============================================================================
