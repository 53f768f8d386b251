---------------------------- MODULE MCHandshake ----------------------------
(* Instances of Handshake for model checking. *)
EXTENDS Handshake, Dispatch

AllFlags  == {{}, {"has_flags", "df", "block_status_payload"}}
Blocks    == {[min |-> 1, pref |-> 4, max |-> 63], [min |-> 3, pref |-> 4, max |-> 6]}
AllHow    == {"sockaddr", "tcp", "command", "socket activation", "socket"}
AnySocket == {"socket"}

(***************************************************************************)
(* Every step of Handshake is an event that the state accepts             *)
(* or a path of handlers of the state machine as StateGraph and Dispatch   *)
(* have them from the generated code: the hand-written handlers and the    *)
(* tables the generator makes of the state machine agree.                  *)
(***************************************************************************)
Machine == INSTANCE StateMachine WITH Onward <- GoesFar, Halting <- StaysFar

\* Every handler goes, waits and fails where lib/states.c says, and only an event
\* that lib/states-run.c accepts starts the machine.
ImplementsMachine == Machine!Spec
=============================================================================
