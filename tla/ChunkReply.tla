----------------------------- MODULE ChunkReply -----------------------------
(***************************************************************************)
(* generator/states-reply-chunk.c: the payload of a structured or extended *)
(* reply chunk.  hdr holds the header, and stands for the fields of the    *)
(* payload buffer as well once they have been received.                    *)
(***************************************************************************)
EXTENDS Reply

\* Fixed parts of a payload, in units: the offset of data, a hole, the errno
\* of an error and the errno with the message length, the context id of a
\* block status and one of its extents.
OffLen    == 1
HoleLen   == 1
ErrCode   == 1
ErrFixed  == 2
BsHdr     == 1
BsExtent  == 2
MaxString == 2

structured_reply_in_bounds(offset, length, c) ==
  /\ offset >= cmd[c].offset
  /\ offset < cmd[c].offset + cmd[c].count
  /\ offset + length <= cmd[c].offset + cmd[c].count

any_length_ok(length) == TRUE
bs_reply_length_ok(length) ==
  length >= BsHdr + BsExtent /\ (length - BsHdr) % BsExtent = 0

IsError(type) == type \in {"ERROR", "ERROR_OFFSET"}
IsBlockStatus(type) == type \in {"BLOCK_STATUS", "BLOCK_STATUS_EXT"}

\* What the error of command c may be after its chunk or extent callback ran.
AfterCallback(c) ==
  {cmd[c].error} \cup (IF cmd[c].chunk THEN {FirstError(c, "EUSER")} ELSE {})

ResyncNothing(n) ==
  rbuf' = "null" /\ rlen' = 0 /\ payload_left' = 0 /\ SET_NEXT_STATE("RESYNC")
\* goto resync: throw the next n units of the payload away.
Resync(n) ==
  /\ rbuf' = "null"
  /\ rlen' = n
  /\ payload_left' = 0
  /\ SET_NEXT_STATE("RESYNC")

\* Which payload the chunk has, if command c can use it.
UsefulPayload(c) ==
  \/ hdr.type = "NONE" /\ hdr.length = 0 /\ hdr.done
  \/ hdr.type = "OFFSET_DATA" /\ cmd[c].type = "READ" /\ hdr.length >= OffLen
  \/ hdr.type = "OFFSET_HOLE" /\ cmd[c].type = "READ" /\ hdr.length = HoleLen
  \/ /\ IsBlockStatus(hdr.type) /\ cmd[c].type = "BLOCK_STATUS"
     /\ meta_contexts # {} /\ bs_reply_length_ok(hdr.length)
  \/ IsError(hdr.type) /\ hdr.length >= ErrCode

ChunkStart ==
  /\ At("CHUNK.START")
  /\ LET c == reply_cmd
         unexpected == \/ c = NULL \/ ~structured_replies
                       \/ extended_headers /\ ~hdr.echo
         tooLong == hdr.length > MAX_REQUEST_SIZE + OffLen
         useful == ~tooLong /\ ~unexpected /\ UsefulPayload(c)
     IN  \/ /\ tooLong
            /\ SET_NEXT_STATE("DEAD")
            /\ UNCHANGED <<cmd, rbuf, rlen, payload_left>>
         \* The length of this chunk has not been stored yet.
         \/ /\ ~tooLong /\ unexpected
            /\ Resync(payload_left)
            /\ UNCHANGED cmd
         \/ /\ ~tooLong /\ ~unexpected /\ ~UsefulPayload(c)
            /\ Resync(hdr.length)
            /\ UNCHANGED cmd
         \/ /\ useful /\ hdr.type = "NONE"
            /\ payload_left' = 0
            /\ SET_NEXT_STATE("CHUNK.FINISH")
            /\ UNCHANGED <<cmd, rbuf, rlen>>
         \/ /\ useful /\ hdr.type = "OFFSET_DATA"
            /\ rbuf' = "payload" /\ rlen' = OffLen
            /\ payload_left' = hdr.length - OffLen
            /\ SET_NEXT_STATE("RECV_OFFSET_DATA")
            /\ UNCHANGED cmd
         \/ /\ useful /\ hdr.type = "OFFSET_HOLE"
            /\ rbuf' = "payload" /\ rlen' = HoleLen
            /\ payload_left' = 0
            /\ SET_NEXT_STATE("RECV_OFFSET_HOLE")
            /\ UNCHANGED cmd
         \/ /\ useful /\ IsBlockStatus(hdr.type)
            /\ cmd' = IF extended_headers # (hdr.type = "BLOCK_STATUS_EXT")
                      THEN [cmd EXCEPT ![c].error = FirstError(c, "EPROTO")]
                      ELSE cmd
            /\ rbuf' = "payload" /\ rlen' = BsHdr
            /\ payload_left' = hdr.length
            /\ SET_NEXT_STATE("RECV_BS_HEADER")
         \/ /\ useful /\ IsError(hdr.type)
            /\ rbuf' = "payload" /\ rlen' = Lower(hdr.length, ErrFixed)
            /\ payload_left' = hdr.length
            /\ SET_NEXT_STATE("RECV_ERROR")
            /\ UNCHANGED cmd
  /\ UNCHANGED <<listVars, sendVars, hdr, reply_state, reply_cmd, netVars,
                 histVars>>

RecvChunkError ==
  \/ At("RECV_ERROR") /\ (RecvError \/ SaveAndReturn)
  \/ /\ Received("RECV_ERROR")
     /\ reply_cmd # NULL /\ payload_left >= ErrCode
     /\ LET c    == reply_cmd
            left == payload_left - Lower(payload_left, ErrFixed)
        IN  IF \/ payload_left < ErrFixed
               \/ hdr.msglen > left \/ hdr.msglen > MaxString
            \* Favour the packet's error over RESYNC's EPROTO.
            THEN /\ cmd' = [cmd EXCEPT ![c].error = FirstError(c, hdr.error)]
                 /\ Resync(left)
            ELSE /\ rbuf' = "payload" /\ rlen' = hdr.msglen
                 /\ payload_left' = left - hdr.msglen
                 /\ SET_NEXT_STATE("RECV_ERROR_MESSAGE")
                 /\ UNCHANGED cmd
     /\ UNCHANGED <<reply_cmd, histVars>>

RecvErrorMessage ==
  \/ At("RECV_ERROR_MESSAGE") /\ (RecvError \/ SaveAndReturn)
  \/ /\ Received("RECV_ERROR_MESSAGE")
     /\ rbuf' = IF hdr.type = "ERROR_OFFSET" /\ payload_left = OffLen
                THEN "payload" ELSE "null"
     /\ rlen' = payload_left
     /\ payload_left' = 0
     /\ SET_NEXT_STATE("RECV_ERROR_TAIL")
     /\ UNCHANGED <<cmd, reply_cmd, histVars>>

RecvErrorTail ==
  \/ At("RECV_ERROR_TAIL") /\ (RecvError \/ SaveAndReturn)
  \/ /\ Received("RECV_ERROR_TAIL")
     /\ reply_cmd # NULL
     /\ LET c   == reply_cmd
            err == IF hdr.error = NoErr THEN "EPROTO" ELSE hdr.error
            callback == /\ hdr.type = "ERROR_OFFSET" /\ rbuf # "null"
                        /\ structured_reply_in_bounds(hdr.offset, 0, c)
                        /\ cmd[c].type = "READ" /\ cmd[c].chunk
        IN  \E e \in {err} \cup (IF callback THEN {"EUSER"} ELSE {}) :
              cmd' = [cmd EXCEPT ![c].error = FirstError(c, e)]
     /\ rlen' = 0
     /\ SET_NEXT_STATE("CHUNK.FINISH")
     /\ UNCHANGED <<rbuf, reply_cmd, payload_left, histVars>>

\* data_seen stops counting once it has passed the size of the request.
DataSeen(c, length) ==
  IF cmd[c].data_seen <= cmd[c].count THEN cmd[c].data_seen + length
  ELSE cmd[c].data_seen

RecvOffsetData ==
  \/ At("RECV_OFFSET_DATA") /\ (RecvError \/ SaveAndReturn)
  \/ /\ Received("RECV_OFFSET_DATA")
     /\ LET c == reply_cmd
        IN  /\ c # NULL /\ cmd[c].type = "READ"
            /\ IF structured_reply_in_bounds(hdr.offset, payload_left, c)
               THEN /\ cmd' = [cmd EXCEPT ![c].data_seen =
                                            DataSeen(c, payload_left)]
                    /\ rbuf' = "data" /\ rlen' = payload_left
                    /\ SET_NEXT_STATE("RECV_OFFSET_DATA_DATA")
               ELSE /\ SET_NEXT_STATE("DEAD")
                    /\ rlen' = 0
                    /\ UNCHANGED <<cmd, rbuf>>
     /\ UNCHANGED <<reply_cmd, payload_left, histVars>>

\* The bytes a chunk of the given length stores in the buffer of command c.
Stored(c, length) ==
  {i \in 0..(cmd[c].count - 1) :
     /\ hdr.offset - cmd[c].offset <= i
     /\ i < hdr.offset - cmd[c].offset + length}

RecvOffsetDataData ==
  \/ At("RECV_OFFSET_DATA_DATA") /\ (RecvError \/ SaveAndReturn)
  \/ /\ Received("RECV_OFFSET_DATA_DATA")
     /\ LET c == reply_cmd
        IN  /\ c # NULL
            /\ \E e \in AfterCallback(c) : cmd' = [cmd EXCEPT ![c].error = e]
            /\ Fill(c, Stored(c, payload_left))
     /\ rlen' = 0
     /\ payload_left' = 0
     /\ SET_NEXT_STATE("CHUNK.FINISH")
     /\ UNCHANGED <<rbuf, reply_cmd, calls, told>>

RecvOffsetHole ==
  \/ At("RECV_OFFSET_HOLE") /\ (RecvError \/ SaveAndReturn)
  \/ /\ Received("RECV_OFFSET_HOLE")
     /\ LET c == reply_cmd
        IN  /\ c # NULL /\ cmd[c].type = "READ"
            /\ IF structured_reply_in_bounds(hdr.offset, hdr.span, c)
               THEN /\ \E e \in AfterCallback(c) :
                         cmd' = [cmd EXCEPT
                                   ![c].error = e,
                                   ![c].data_seen = DataSeen(c, hdr.span)]
                    /\ Fill(c, Stored(c, hdr.span))
                    /\ SET_NEXT_STATE("CHUNK.FINISH")
               ELSE SET_NEXT_STATE("DEAD") /\ UNCHANGED <<cmd, cover>>
     /\ rlen' = 0
     /\ UNCHANGED <<rbuf, reply_cmd, payload_left, calls, told>>

RecvBsHeader ==
  \/ At("RECV_BS_HEADER") /\ (RecvError \/ SaveAndReturn)
  \/ /\ Received("RECV_BS_HEADER")
     /\ reply_cmd # NULL /\ bs_reply_length_ok(payload_left)
     /\ LET left  == payload_left - BsHdr
            count == left \div BsExtent
        IN  \/ /\ hdr.type = "BLOCK_STATUS_EXT" /\ count # hdr.span
               /\ Resync(left)
            \/ /\ hdr.type = "BLOCK_STATUS" \/ count = hdr.span
               /\ \/ /\ rbuf' = "bs_raw" /\ rlen' = left
                     /\ payload_left' = 0
                     /\ SET_NEXT_STATE("RECV_BS_ENTRIES")
                  \/ /\ payload_left' = left          \* malloc failed
                     /\ SET_NEXT_STATE("DEAD")
                     /\ rlen' = 0 /\ UNCHANGED rbuf
     /\ UNCHANGED <<cmd, reply_cmd, histVars>>

\* Converting the extents may itself find fault with them (see BlockStatus).
RecvBsEntries ==
  \/ At("RECV_BS_ENTRIES") /\ (RecvError \/ SaveAndReturn)
  \/ /\ Received("RECV_BS_ENTRIES")
     /\ reply_cmd # NULL
     /\ LET c == reply_cmd
        IN  \E e \in {NoErr} \cup
                     (IF hdr.known THEN {"EPROTO", "EOVERFLOW", "EUSER"}
                      ELSE {}) :
              cmd' = [cmd EXCEPT ![c].error = FirstError(c, e)]
     /\ rlen' = 0
     /\ SET_NEXT_STATE("CHUNK.FINISH")
     /\ UNCHANGED <<rbuf, reply_cmd, payload_left, histVars>>

ResyncPayload ==
  \/ At("RESYNC") /\ (RecvError \/ SaveAndReturn)
  \/ /\ Received("RESYNC")
     /\ rbuf = "null"
     /\ IF reply_cmd = NULL
        THEN UNCHANGED cmd /\ SET_NEXT_STATE("FINISH_COMMAND")
        ELSE /\ cmd' = [cmd EXCEPT ![reply_cmd].error =
                                     FirstError(reply_cmd, "EPROTO")]
             /\ SET_NEXT_STATE("CHUNK.FINISH")
     /\ rlen' = 0
     /\ UNCHANGED <<rbuf, reply_cmd, payload_left, histVars>>

FinishKeepingCommand ==
  /\ At("CHUNK.FINISH")
  /\ payload_left = 0
  /\ SET_NEXT_STATE(IF hdr.done THEN "FINISH_COMMAND" ELSE "READY")
  /\ UNCHANGED <<listVars, cmd, sendVars, recvVars, netVars, histVars>>

ChunkFinish ==
  /\ At("CHUNK.FINISH")
  /\ payload_left = 0
  /\ \/ hdr.done /\ SET_NEXT_STATE("FINISH_COMMAND") /\ UNCHANGED reply_cmd
     \/ ~hdr.done /\ SET_NEXT_STATE("READY") /\ reply_cmd' = NULL
  /\ UNCHANGED <<listVars, cmd, sendVars, rbuf, rlen, hdr, reply_state,
                 payload_left, netVars, histVars>>

ChunkStep ==
  \/ ChunkStart \/ RecvChunkError \/ RecvErrorMessage \/ RecvErrorTail
  \/ RecvOffsetData \/ RecvOffsetDataData \/ RecvOffsetHole \/ RecvBsHeader
  \/ RecvBsEntries \/ ResyncPayload \/ ChunkFinish

\* Whenever a handler of generator/states-reply-chunk.c runs, its assert()s
\* hold: the chunk has its command, of the right type; an error chunk is long
\* enough to hold an errno; a block status has whole extents; what is thrown
\* away goes nowhere; and a finished chunk has no payload left.
ChunkAsserts ==
  running =>
    /\ state \in {"RECV_ERROR", "RECV_ERROR_TAIL", "RECV_OFFSET_DATA_DATA"}
         => reply_cmd # NULL
    /\ state = "RECV_ERROR" => payload_left >= ErrCode
    /\ state \in {"RECV_OFFSET_DATA", "RECV_OFFSET_HOLE"}
         => reply_cmd # NULL /\ cmd[reply_cmd].type = "READ"
    /\ state \in {"RECV_BS_HEADER", "RECV_BS_ENTRIES"}
         => /\ reply_cmd # NULL
            /\ cmd[reply_cmd].type = "BLOCK_STATUS" /\ cmd[reply_cmd].chunk
    /\ state = "RECV_BS_HEADER" => bs_reply_length_ok(payload_left)
    /\ state = "RECV_BS_ENTRIES"
         => hdr.length >= BsHdr + BsExtent /\ meta_contexts # {}
    /\ state = "RESYNC" => rbuf = "null"
    /\ state = "CHUNK.FINISH" => payload_left = 0
=============================================================================
