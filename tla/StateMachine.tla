---------------------------- MODULE StateMachine ----------------------------
(***************************************************************************)
(* The state machine of a handle as the rest of the library may rely on it *)
(* (nbd_internal_run of lib/states-run.c): an external event that the      *)
(* current state accepts starts it, and it then enters one handler after   *)
(* another until one of them stops it.  nbd_create and nbd_close begin and *)
(* end a handle, whose state is "FREED" while it does not exist.           *)
(*                                                                         *)
(* The constants are those of Dispatch and StateGraph.                     *)
(***************************************************************************)
CONSTANTS
  ExternalEvents,   \* <<state, event, state>>
  Onward, Halting      \* from the state of a handler to the one it leaves, when
                    \* the machine goes on and when it stops

VARIABLES state, running

Raise ==
  /\ ~running /\ running' = TRUE
  /\ \E t \in ExternalEvents : t[1] = state /\ t[3] = state'

Handler ==
  /\ running
  /\ <<state, state'>> \in IF running' THEN Onward ELSE Halting

Create == ~running /\ state = "FREED" /\ state' = "START" /\ UNCHANGED running
Close == ~running /\ state' = "FREED" /\ UNCHANGED running

Init == running = FALSE

Next == Raise \/ Handler \/ Create \/ Close

Spec == Init /\ [][Next]_<<state, running>>
=============================================================================
