----------------------------- MODULE Lifecycle ------------------------------
(***************************************************************************)
(* A handle in transmission implements CommandLifecycle: the phase of a    *)
(* command is the list it is on.                                           *)
(***************************************************************************)
EXTENDS Transmission

phase ==
  [c \in Cookie |-> IF c >= unique THEN "new"
                    ELSE IF c \in Queued THEN "queued"
                    ELSE IF c \in cmds_in_flight THEN "sent"
                    ELSE IF c \in Done THEN "done"
                    ELSE "retired"]

Abstract == INSTANCE CommandLifecycle WITH phase <- phase, open <- HasSocket

\* Every step of the handle is a step CommandLifecycle allows, or leaves the
\* phases alone: the lists are queues in issue order, no handler loses,
\* repeats or resurrects a command, and DEAD and CLOSED leave none live.
ImplementsLifecycle == Abstract!Spec
=============================================================================
