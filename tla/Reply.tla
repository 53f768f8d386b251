------------------------------- MODULE Reply --------------------------------
(***************************************************************************)
(* generator/states-reply.c and generator/states-reply-simple.c: reading   *)
(* the header of a reply, finding its command, simple replies, and the     *)
(* completion of a command.                                                *)
(***************************************************************************)
EXTENDS Handle

\* The command a reply is about: amongst the commands in flight.
Lookup(cookie) == IF cookie \in cmds_in_flight THEN cookie ELSE NULL

ReplyStart ==
  /\ At("REPLY.START")
  \* Resume an earlier reply cycle.
  /\ \/ /\ rlen > 0
        /\ SET_NEXT_STATE(IF reply_state # "START" THEN reply_state
                          ELSE "RECV_REPLY")
        /\ reply_state' = "START"
        /\ UNCHANGED <<rbuf, rlen, hdr, inb>>
     \* recv returns something.
     \/ /\ rlen = 0 /\ reply_cmd = NULL
        /\ inb.avail > 0
        /\ LET k == Lower(HdrLen, inb.avail)
           IN  /\ Consume(k)
               /\ rlen' = HdrLen - k
               /\ hdr' = HeaderRead(HdrLen, k)
        /\ rbuf' = "hdr"
        /\ SET_NEXT_STATE("RECV_REPLY")
        /\ UNCHANGED reply_state
     \* EAGAIN: stay here until the socket is readable again.
     \/ /\ rlen = 0 /\ reply_cmd = NULL
        /\ Spurious \/ (inb.avail = 0 /\ ~Eof)
        /\ rlen' = HdrLen /\ rbuf' = "hdr"
        /\ Block
        /\ UNCHANGED <<reply_state, hdr, inb>>
     \* End of file, or the connection was reset.
     \/ /\ rlen = 0 /\ reply_cmd = NULL
        /\ Eof
        /\ rlen' = HdrLen /\ rbuf' = "hdr"
        /\ SET_NEXT_STATE("CLOSED") \/ SET_NEXT_STATE("DEAD")
        /\ UNCHANGED <<reply_state, hdr, inb>>
  /\ UNCHANGED <<listVars, cmd, sendVars, reply_cmd, payload_left, up, room,
                 rx, got, ans, histVars>>

\* With extended headers a short read that holds the magic number checks it,
\* or a shorter reply would be waited for in vain.
RecvReply ==
  /\ At("RECV_REPLY")
  /\ \/ RecvError
     \/ /\ RecvShort
        /\ Consume(inb.avail)
        /\ rlen' = StillToRead
        /\ hdr' = HeaderRead(rlen, inb.avail)
        /\ SET_NEXT_STATE(IF extended_headers /\ rlen' < HdrLen
                             /\ hdr'.magic # "extended"
                          THEN "DEAD" ELSE "READY")
        /\ UNCHANGED <<listVars, cmd, sendVars, rbuf, reply_state, reply_cmd,
                       payload_left, up, room, rx, got, ans, histVars>>
     \/ /\ RecvAll
        /\ Consume(rlen)
        /\ rlen' = 0
        /\ hdr' = HeaderRead(rlen, rlen)
        /\ SET_NEXT_STATE("CHECK_REPLY_MAGIC")
        /\ UNCHANGED <<listVars, cmd, sendVars, rbuf, reply_state, reply_cmd,
                       payload_left, up, room, rx, got, ans, histVars>>

CheckReplyMagic ==
  /\ At("CHECK_REPLY_MAGIC")
  /\ \/ /\ hdr.magic = "simple" /\ ~extended_headers
        /\ SET_NEXT_STATE("SIMPLE.START")
        /\ reply_cmd' = Lookup(hdr.cookie)
        /\ UNCHANGED rlen
     \/ /\ hdr.magic = "structured" /\ ~extended_headers
        /\ SET_NEXT_STATE("RECV_STRUCTURED_REMAINING")
        /\ rlen' = RemLen
        /\ reply_cmd' = Lookup(hdr.cookie)
     \/ /\ hdr.magic = "extended" /\ extended_headers
        /\ SET_NEXT_STATE("CHUNK.START")
        /\ reply_cmd' = Lookup(hdr.cookie)
        /\ UNCHANGED rlen
     \/ /\ \/ hdr.magic = "garbage"
           \/ hdr.magic = "extended" /\ ~extended_headers
           \/ hdr.magic \in {"simple", "structured"} /\ extended_headers
        /\ SET_NEXT_STATE("DEAD")
        /\ UNCHANGED <<rlen, reply_cmd>>
  /\ UNCHANGED <<listVars, cmd, sendVars, rbuf, hdr, reply_state, payload_left,
                 netVars, histVars>>

\* A receiving state that has all it asked for.
Received(s) ==
  /\ At(s) /\ RecvAll
  /\ Consume(rlen)
  /\ UNCHANGED <<listVars, sendVars, hdr, reply_state, up, room, rx, got, ans>>

RecvStructuredRemaining ==
  \/ At("RECV_STRUCTURED_REMAINING") /\ (RecvError \/ SaveAndReturn)
  \/ /\ Received("RECV_STRUCTURED_REMAINING")
     /\ rlen' = 0
     /\ SET_NEXT_STATE("CHUNK.START")
     /\ UNCHANGED <<cmd, rbuf, reply_cmd, payload_left, histVars>>

\* states-reply-simple.c.  The error of an unexpected simple reply to a read
\* comes before the server's.
SimpleStart ==
  /\ At("SIMPLE.START")
  /\ LET c == reply_cmd
         e == IF c # NULL /\ cmd[c].type = "READ" /\ structured_replies
              THEN FirstError(c, "EPROTO")
              ELSE IF c # NULL THEN FirstError(c, hdr.error) ELSE NoErr
     IN  \/ /\ c = NULL
            /\ SET_NEXT_STATE(IF hdr.error # NoErr \/ structured_replies
                              THEN "FINISH_COMMAND" ELSE "DEAD")
            /\ UNCHANGED <<cmd, rbuf, rlen>>
         \/ /\ c # NULL
            /\ hdr.error = NoErr /\ cmd[c].type = "READ"
            /\ cmd' = [cmd EXCEPT ![c].error = e,
                                  ![c].data_seen = @ + cmd[c].count]
            /\ rbuf' = "data"
            /\ rlen' = cmd[c].count
            /\ SET_NEXT_STATE("RECV_READ_PAYLOAD")
         \/ /\ c # NULL
            /\ hdr.error # NoErr \/ cmd[c].type # "READ"
            /\ cmd' = [cmd EXCEPT ![c].error = e]
            /\ SET_NEXT_STATE("FINISH_COMMAND")
            /\ UNCHANGED <<rbuf, rlen>>
  /\ UNCHANGED <<listVars, sendVars, hdr, reply_state, reply_cmd, payload_left,
                 netVars, histVars>>

\* Bytes s of the buffer of command c have been stored.
Fill(c, s) ==
  cover' = [cover EXCEPT ![c] =
              [bytes |-> @.bytes \cup s,
               again |-> @.again \/ @.bytes \cap s # {}]]

\* The chunk callback may fail; here, unlike in the chunk handlers, its error
\* replaces an earlier one.
RecvReadPayload ==
  \/ At("RECV_READ_PAYLOAD") /\ (RecvError \/ SaveAndReturn)
  \/ /\ Received("RECV_READ_PAYLOAD")
     /\ LET c == reply_cmd
        IN  /\ c # NULL
            /\ \E e \in {cmd[c].error} \cup
                        (IF cmd[c].chunk THEN {"EUSER"} ELSE {}) :
                 cmd' = [cmd EXCEPT ![c].error = e]
            /\ Fill(c, 0..(cmd[c].count - 1))
     /\ rlen' = 0
     /\ SET_NEXT_STATE("FINISH_COMMAND")
     /\ UNCHANGED <<rbuf, reply_cmd, payload_left, calls, told>>

\* Notify the user, then retire the command or move it to cmds_done.
FinishCommand ==
  /\ At("FINISH_COMMAND")
  /\ Lookup(hdr.cookie) = reply_cmd
  /\ \/ /\ reply_cmd = NULL
        /\ UNCHANGED <<listVars, cmd, reply_cmd, calls, told>>
     \/ /\ reply_cmd # NULL
        /\ LET c == reply_cmd
           IN \E r \in CbRet :
                LET retire == \/ cmd[c].type = "DISC"
                              \/ cmd[c].completion /\ r = "1"
                    fails  == cmd[c].completion /\ r = "-1"
                IN  /\ ~cmd[c].completion => r = CHOOSE x \in CbRet : TRUE
                    /\ cmd' = IF fails THEN [cmd EXCEPT ![c].error = "EUSER"]
                              ELSE cmd
                    /\ calls' = IF cmd[c].completion
                                THEN [calls EXCEPT ![c] = @ + 1] ELSE calls
                    /\ told' = IF retire /\ cmd[c].type # "DISC"
                               THEN [told EXCEPT ![c] =
                                       IF cmd[c].error = NoErr THEN "ok"
                                       ELSE "failed"]
                               ELSE told
                    /\ cmds_done' = IF retire THEN cmds_done
                                    ELSE Append(cmds_done, c)
                    /\ cmds_done_tail' = IF retire THEN cmds_done_tail ELSE c
                    /\ cmds_in_flight' = cmds_in_flight \ {c}
        /\ reply_cmd' = NULL
        /\ in_flight' = in_flight - 1
        /\ UNCHANGED <<cmds_to_issue, cmds_to_issue_tail, unique,
                       disconnect_request>>
  /\ SET_NEXT_STATE("READY")
  /\ UNCHANGED <<sendVars, rbuf, rlen, hdr, reply_state, payload_left, netVars,
                 cover>>

ReplyStep ==
  \/ ReplyStart \/ RecvReply \/ CheckReplyMagic \/ RecvStructuredRemaining
  \/ SimpleStart \/ RecvReadPayload \/ FinishCommand

\* Whenever a handler of generator/states-reply.c or states-reply-simple.c
\* runs, its assert()s hold: a new reply starts with no command attached, a
\* suspended one is resumed where it was, a simple payload has its command,
\* and the command found again by cookie is the one the reply started with.
ReplyAsserts ==
  running =>
    /\ state = "REPLY.START" /\ rlen = 0 => reply_cmd = NULL
    /\ state = "REPLY.START" /\ reply_state # "START"
         => reply_state \in ReplyStates
    /\ state \in ResumeStates => reply_state = "START"
    /\ state = "RECV_READ_PAYLOAD" => reply_cmd # NULL
    /\ state = "FINISH_COMMAND"
         => /\ Lookup(hdr.cookie) = reply_cmd
            /\ reply_cmd # NULL => in_flight > 0
=============================================================================
