-------------------------- MODULE CommandLifecycle --------------------------
(***************************************************************************)
(* What a handle promises about its commands, with the state machine, the  *)
(* socket and the server left out: every command goes once through         *)
(*                                                                         *)
(*    new -> queued -> sent -> done -> retired                             *)
(*                                                                         *)
(* in this direction only.  Cookies are given out, and requests sent, in   *)
(* increasing order; a command ends by being answered, or by being aborted *)
(* when it was abandoned in the queue or the connection ended, and an end  *)
(* of the connection leaves no command behind.                             *)
(***************************************************************************)
EXTENDS Integers

CONSTANT Cookie
VARIABLES phase, open
vars == <<phase, open>>

In(p) == {c \in Cookie : phase[c] = p}

Init == phase = [c \in Cookie |-> "new"] /\ open = TRUE

Issue(c) ==
  /\ open /\ c \in In("new") /\ \A d \in In("new") : c <= d
  /\ phase' = [phase EXCEPT ![c] = "queued"]
  /\ UNCHANGED open

Send(c) ==
  /\ open /\ c \in In("queued") /\ \A d \in In("queued") : c <= d
  /\ phase' = [phase EXCEPT ![c] = "sent"]
  /\ UNCHANGED open

\* The commands of set A end; some still have to be retired by the program.
Finish(A) ==
  \E kept \in SUBSET A :
    phase' = [c \in Cookie |-> IF c \in kept THEN "done"
                               ELSE IF c \in A THEN "retired" ELSE phase[c]]

Answer(c) == open /\ c \in In("sent") /\ Finish({c}) /\ UNCHANGED open

\* A tail of the queue is given up.
Abandon ==
  /\ open
  /\ \E A \in SUBSET In("queued") :
       /\ \A c \in A, d \in In("queued") \ A : d < c
       /\ Finish(A)
  /\ UNCHANGED open

End == open /\ Finish(In("queued") \cup In("sent")) /\ open' = FALSE

Retire(c) ==
  /\ c \in In("done")
  /\ phase' = [phase EXCEPT ![c] = "retired"]
  /\ UNCHANGED open

Free ==
  /\ phase' = [c \in Cookie |-> IF phase[c] = "new" THEN "new" ELSE "retired"]
  /\ open' = FALSE

Next ==
  \/ \E c \in Cookie : Issue(c) \/ Send(c) \/ Answer(c) \/ Retire(c)
  \/ Abandon \/ End \/ Free

Spec == Init /\ [][Next]_vars
=============================================================================
