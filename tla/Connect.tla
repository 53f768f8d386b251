------------------------------ MODULE Connect ------------------------------
(***************************************************************************)
(* How a handle gets its socket (generator/states-connect.c,               *)
(* generator/states-connect-socket-activation.c): connect(2) to one        *)
(* address, to each address of a host in turn, to a subprocess over a      *)
(* socket pair, or to a subprocess by socket activation.                   *)
(*                                                                         *)
(* state and running are those of nbd_internal_run: a handler that calls   *)
(* SET_NEXT_STATE goes on (running), one that does not is blocked until    *)
(* an event of generator/state_machine.ml.  The kernel finishes a          *)
(* connect(2) at any time, between two handlers too.                       *)
(***************************************************************************)
EXTENDS Integers, Sequences, FiniteSets, TLC

CONSTANT MaxAddrs      \* bound: addresses getaddrinfo may return

VARIABLES
  state, running,      \* h->state, and whether nbd_internal_run is looping
  failed,              \* the last handler returned -1
  sock,                \* h->sock # NULL
  link,                \* the kernel's side of the connection
  rp,                  \* addresses from h->rp on, while they are tried
  held                 \* what the setup of a subprocess holds

connectVars == <<state, running, failed, sock, link, rp, held>>

ConnectInit ==
  /\ state = "START" /\ running = FALSE /\ failed = FALSE
  /\ sock = FALSE /\ link = "none"
  /\ rp = 0
  /\ held = {}

-----------------------------------------------------------------------------
(* The loop of nbd_internal_run. *)

Entering(s) == running /\ state = s

SET_NEXT_STATE(s) == state' = s /\ UNCHANGED <<running, failed>>

StayBlocked == running' = FALSE /\ UNCHANGED <<state, failed>>

\* SET_NEXT_STATE and return -1: the loop stops and the caller sees the error.
FailIn(s) == state' = s /\ running' = FALSE /\ failed' = TRUE

\* nbd_internal_run with an event that leads to s.
RunFrom(s) == state' = s /\ running' = TRUE /\ failed' = FALSE

SockUnchanged == UNCHANGED <<sock, link>>
TcpUnchanged  == UNCHANGED rp

Die == SET_NEXT_STATE("DEAD") /\ SockUnchanged

\* What SO_ERROR says: nothing yet while the connection is in progress.
SoErrorClear == link # "refused"

\* connect(2) finishes.
KernelConnects ==
  /\ link = "pending"
  /\ link' \in {"up", "refused"}
  /\ UNCHANGED <<state, running, failed, sock, rp, held>>

-----------------------------------------------------------------------------
(* One address. *)

ConnectStart ==
  /\ Entering("CONNECT.START")
  /\ \/ Die                                      \* no socket
     \/ /\ sock' = TRUE
        /\ \/ link' \in {"up", "pending"} /\ StayBlocked
           \/ link' = "refused" /\ SET_NEXT_STATE("DEAD")
  /\ TcpUnchanged /\ UNCHANGED held

ConnectConnecting ==
  /\ Entering("CONNECT.CONNECTING")
  /\ \/ Die                                      \* getsockopt fails
     \/ /\ SET_NEXT_STATE(IF SoErrorClear THEN "MAGIC.START" ELSE "DEAD")
        /\ SockUnchanged
  /\ TcpUnchanged /\ UNCHANGED held

\* The socket became writable: the connection is made, or refused.
ConnectWritable ==
  /\ ~running /\ state = "CONNECT.START" /\ link # "pending"
  /\ RunFrom("CONNECT.CONNECTING")
  /\ SockUnchanged /\ TcpUnchanged /\ UNCHANGED held

-----------------------------------------------------------------------------
(* Each address of a host. *)

TcpStart ==
  /\ Entering("CONNECT_TCP.START")
  /\ \/ FailIn("START") /\ UNCHANGED rp           \* getaddrinfo fails
     \/ rp' \in 1..MaxAddrs /\ SET_NEXT_STATE("CONNECT_TCP.CONNECT")
  /\ SockUnchanged /\ UNCHANGED held

TcpNoAddressLeft ==
  /\ Entering("CONNECT_TCP.CONNECT") /\ rp = 0
  /\ FailIn("START")
  /\ SockUnchanged /\ TcpUnchanged /\ UNCHANGED held

TcpConnect ==
  /\ Entering("CONNECT_TCP.CONNECT") /\ rp > 0
  /\ \/ SET_NEXT_STATE("CONNECT_TCP.NEXT_ADDRESS") /\ SockUnchanged /\ TcpUnchanged
     \/ Die /\ TcpUnchanged
     \/ /\ sock' = TRUE
        /\ \/ link' = "refused" /\ SET_NEXT_STATE("CONNECT_TCP.NEXT_ADDRESS")
           \/ link' \in {"up", "pending"} /\ SET_NEXT_STATE("CONNECT_TCP.CONNECTING")
        /\ UNCHANGED rp
  /\ UNCHANGED held

\* On success the addresses left are not looked at again.
TcpConnecting ==
  /\ Entering("CONNECT_TCP.CONNECTING")
  /\ \/ Die /\ TcpUnchanged                      \* getsockopt fails
     \/ SoErrorClear /\ SET_NEXT_STATE("MAGIC.START") /\ rp' = 0 /\ SockUnchanged
     \/ ~SoErrorClear /\ SET_NEXT_STATE("CONNECT_TCP.NEXT_ADDRESS") /\ TcpUnchanged
        /\ SockUnchanged
  /\ UNCHANGED held

\* A plausible slip: the socket of the address given up is kept.
SocketKept == sock

SocketAfterAddress == FALSE

TcpNextAddress ==
  /\ Entering("CONNECT_TCP.NEXT_ADDRESS")
  /\ sock' = SocketAfterAddress /\ link' = "none"
  /\ rp' = IF rp > 0 THEN rp - 1 ELSE rp
  /\ SET_NEXT_STATE("CONNECT_TCP.CONNECT")
  /\ UNCHANGED held

-----------------------------------------------------------------------------
(* Subprocesses.  Each step of the setup gets something; when a step fails  *)
(* the handler jumps to a label and runs through all the labels after it.  *)

\* What is still held when step i of steps has failed.
AfterFailure(steps, frees, i) ==
  LET has == UNION {steps[j].gets : j \in 1..(i - 1)}
  IN has \ UNION {IF "sock" \in has THEN frees[k].withSock ELSE frees[k].without :
                   k \in steps[i].label..Len(frees)}

Label(resources) == [withSock |-> resources, without |-> resources]

CommandSteps == <<
  [gets |-> {"sv0", "sv1"}, label |-> 4],        \* socketpair
  [gets |-> {},             label |-> 3],        \* fcntl: non-blocking
  [gets |-> {"sock"},       label |-> 3],        \* nbd_internal_socket_create
  [gets |-> {"execvpe"},    label |-> 2],        \* nbd_internal_execvpe_init
  [gets |-> {"pid"},        label |-> 1]>>       \* fork

CommandFrees == <<
  Label({"execvpe"}),                            \* uninit_execvpe
  Label({"sock", "sv0"}),                        \* close_high_level_socket
  [withSock |-> {"sv1"}, without |-> {"sv0", "sv1"}], \* close_socket_pair
  Label({})>>                                    \* done

CommandStart ==
  /\ Entering("CONNECT_COMMAND.START")
  /\ \/ \E i \in 1..Len(CommandSteps) :
          /\ held' = AfterFailure(CommandSteps, CommandFrees, i)
          /\ Die
     \/ /\ held' = {"pid"} /\ sock' = TRUE /\ link' = "up"
        /\ SET_NEXT_STATE("MAGIC.START")
  /\ TcpUnchanged

\* A plausible slip: a failing listen skips unlinking the socket.
SaStepsListenLate == <<
  [gets |-> {"tmpdir name"}, label |-> 8], [gets |-> {"tmpdir"}, label |-> 7],
  [gets |-> {"sockpath"}, label |-> 6], [gets |-> {"listener"}, label |-> 5],
  [gets |-> {"socket file"}, label |-> 4], [gets |-> {}, label |-> 4],
  [gets |-> {"execvpe"}, label |-> 3], [gets |-> {"env"}, label |-> 2],
  [gets |-> {"pid"}, label |-> 1]>>

SaSteps == <<
  [gets |-> {"tmpdir name"}, label |-> 8],       \* strdup
  [gets |-> {"tmpdir"},      label |-> 7],       \* mkdtemp
  [gets |-> {"sockpath"},    label |-> 6],       \* asprintf
  [gets |-> {"listener"},    label |-> 5],       \* nbd_internal_socket
  [gets |-> {"socket file"}, label |-> 4],       \* bind
  [gets |-> {},              label |-> 3],       \* listen
  [gets |-> {"execvpe"},     label |-> 3],       \* nbd_internal_execvpe_init
  [gets |-> {"env"},         label |-> 2],       \* prepare_socket_activation_environment
  [gets |-> {"pid"},         label |-> 1]>>      \* fork

SaFrees == <<
  Label({"env"}),                                \* empty_env
  Label({"execvpe"}),                            \* uninit_execvpe
  Label({"socket file"}),                        \* unlink_sockpath
  Label({"listener"}),                           \* close_socket
  Label({"sockpath"}),                           \* free_sockpath
  Label({"tmpdir"}),                             \* rmdir_tmpdir
  Label({"tmpdir name"}),                        \* free_tmpdir
  Label({})>>                                    \* done

\* h->sact_tmpdir, h->sact_sockpath and what they name, and h->pid.
SaOwned == {"tmpdir name", "tmpdir", "sockpath", "socket file", "pid"}

SaStart ==
  /\ Entering("CONNECT_SA.START")
  /\ \/ \E i \in 1..Len(SaSteps) :
          held' = AfterFailure(SaSteps, SaFrees, i) /\ SET_NEXT_STATE("DEAD")
     \/ held' = SaOwned /\ SET_NEXT_STATE("CONNECT.START")
  /\ SockUnchanged /\ TcpUnchanged

ConnectStep ==
  \/ ConnectStart \/ ConnectConnecting
  \/ TcpStart \/ TcpNoAddressLeft \/ TcpConnect \/ TcpConnecting \/ TcpNextAddress
  \/ CommandStart \/ SaStart

-----------------------------------------------------------------------------
(* assert() in the handlers above: there is no socket yet.                 *)
ConnectAsserts ==
  /\ running /\ state \in {"CONNECT.START", "CONNECT_TCP.CONNECT",
                           "CONNECT_COMMAND.START", "CONNECT_SA.START"} => ~sock
  /\ running /\ state \in {"CONNECT.CONNECTING", "CONNECT_TCP.CONNECTING"} => sock

(* Whatever step of starting a subprocess fails, and in whatever order the *)
(* labels of CONNECT_COMMAND.START and CONNECT_SA.START run, a handle      *)
(* either owns a child (and, for socket activation, the directory and      *)
(* socket nbd_close will remove) or nothing is left behind.                *)
NothingLeaked == held \in {{}, {"pid"}, SaOwned}

=============================================================================
