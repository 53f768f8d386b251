# A TLA+ model of libnbd

libnbd is a client library for the Network Block Device protocol, with a few
tools built on it.  This directory holds TLA+ modules that model the library's
core, its public calls and nbdcopy, TLC configurations that check them on small
instances, and proofs, checked by TLAPS, of what matters most.  `PROJECT.json` lists
the runs, the source lines every definition stands for, the hazards the properties
were chosen for, and the disagreements found.

## The system

A program creates a handle (`struct nbd_handle`, lib/internal.h), connects it to
a server, and issues commands on it: synchronously (`nbd_pread`) or
asynchronously (`nbd_aio_pread`, then `nbd_aio_notify_read`,
`nbd_aio_notify_write` or `nbd_poll`).  Inside the handle a generated state
machine does all the work a piece at a time.  generator/state_machine.ml lists
its states and the events each one waits for; generator/states*.c holds the
bodies.  A handler either sets the next state, and nbd_internal_run
(lib/states-run.c) enters it at once, or leaves the state alone and the machine
is blocked until the next event.  Every API call holds the handle's lock
(lib/api.c), a synchronous one while it polls as well.

| part | sources | modules | status |
|---|---|---|---|
| lists of commands, READY/DEAD/CLOSED | lib/internal.h, generator/states.c | Handle, Transmission | modelled |
| sending requests | generator/states-issue-command.c | IssueCommand | modelled |
| simple replies, completion | generator/states-reply.c, states-reply-simple.c | Reply | modelled |
| structured and extended replies | generator/states-reply-chunk.c | ChunkReply | modelled |
| commands, completion, shutdown, polling | lib/rw.c, aio.c, disconnect.c, poll.c | Api, ApiCalls | partly |
| connecting | generator/states-connect*.c, lib/connect.c | Connect, Handshake | modelled |
| handshake | generator/states-magic.c, -oldstyle.c, -newstyle*.c | Negotiation | modelled |
| option mode | lib/opt.c | Handshake, ApiCalls | modelled |
| what is known of the export | lib/flags.c | ExportInfo | partly |
| settings, creation, nbd_close | lib/handle.c | Handshake, Api, ApiCalls | partly |
| the generated state machine | lib/states.c, states-run.c, is-state.c | StateGraph, Dispatch, StateMachine | modelled |
| the generated API wrappers | lib/api.c, generator/C.ml | ApiTable, ApiCalls, ApiLock | modelled |
| debug callback | lib/debug.c | ApiCalls | partly |
| TLS | lib/crypto.c | Transmission, Negotiation | partly |
| plain sockets | lib/socket.c | Handle | partly |
| nbdcopy | copy/ | CopyMain, CopyThreads, SynchCopy, Extents, NbdCopy, DiskCopy | partly |
| errors, utilities, URI | lib/errors.c, utils.c, uri.c | | not modelled |
| nbdfuse, nbdublk | fuse/, ublk/ | | not modelled |
| nbdinfo, nbddump | info/, dump/ | | not modelled |
| nbdsh, bindings, code generator | python/, ocaml/, golang/, sh/, generator/*.ml | | not modelled |

How they meet: `Transmission` and `Handshake` are the same handle before and after
READY, each with the data its own half needs.  `StateMachine` is what they have in
common, the control graph of the whole handle, and both are shown to follow it.
`ApiCalls` stands on that graph in place of the two: any number of threads, the
lock, and the closures.  `NbdCopy` is a program that uses the library through
commands that complete in any order.

## The modules

### Transmission: a connected handle

`Handle` declares the state.  The variables keep the names of the fields of
`struct nbd_handle`; `state` and `running` together say which handler runs next
(`running`) or where the machine is blocked (`~running`).  `api` is the
synchronous call that holds the lock between two polls.  `cmd` maps a cookie to
its `struct command`.  `cmds_in_flight` is a set: commands are looked up in it by
cookie, and the only order that shows is that of nbd_internal_abort_commands,
which `AbortOrder` gives.  `up`, `inb` and `room` are the socket; `rx`, `got` and
`ans` are the server's side of the stream; `calls`, `told` and `cover` are history
(completion callbacks run, results reported, bytes stored by a read).

Lengths are counted in units: a request header is two units, a reply header two,
the rest of a structured header one, each fixed part of a payload one, each byte
of data one.  recv and send may be cut at every unit, so each receiving and
sending state is interrupted at its start, in its middle and at its end.  That is
what the handlers can tell apart; the byte lengths themselves are not.

One action stands for one handler, from its entry to its return:

* `IssueCommand`: the nine states of states-issue-command.c, which send the
  command at the head of `cmds_to_issue` and can be left for REPLY in the header,
  in the payload and in the TLS shutdown.
* `Reply`: RECV_REPLY to FINISH_COMMAND.  `FinishCommand` runs the completion
  callback (every return value in `CbRet`) and retires the command or moves it
  to `cmds_done`.
* `ChunkReply`: the eleven states of states-reply-chunk.c with the bounds checks,
  the resynchronisation and data_seen.  The values in block status extents are not
  represented; their number and whether the context is known are.
* `Api`: nbd_internal_command_common, nbd_aio_command_completed,
  wait_for_command, nbd_aio_disconnect, nbd_shutdown, nbd_poll and the notify
  calls, nbd_close.
* `Transmission`: READY, DEAD and CLOSED, the server, the specification and its
  properties.  The server answers only requests it has read in full, announces
  the length it sends, and otherwise may answer with any chunk in `Shapes`.

`CommandLifecycle` is the abstract specification: a command goes from new to
queued, sent, done and retired, forwards only and in cookie order, and the end of
the connection leaves nothing behind.  `Lifecycle` maps a handle to it (the phase
of a command is the list it is on).

### Handshake: from nbd_create to READY

`Connect` models the five ways to connect.  A system call succeeds or fails.  The
two functions that start a subprocess are tables: what each step acquires, the
label its failure jumps to, and what each label releases.  `ExportInfo` holds the
functions of lib/flags.c that check and store what the server says of an export.
`Negotiation` models the handshake.  A state that only sends the next part of an
option is a row of `SendTo`, one that only receives a row of `RecvTo` or
`PayloadTo`; `owed` counts the units of option data that were announced and not
yet sent.  A reply is one record.  What the handle learns of an export is tagged
with the export name asked about and with whether TLS was on, so that stale
knowledge is visible.  `Handshake` adds the calls: settings, connecting, every
nbd_opt_* call (synchronous or not), returning, and nbd_close.  Values nobody
reads again (the last reply, the counter of queries sent) are reset when they go
dead, which keeps the state space small and changes no behaviour.

The two halves meet at READY: Handshake ends there, and Transmission starts from
a READY handle with what was negotiated as constants (`structured_replies`,
`extended_headers`, `meta_contexts`, `Tls`).

### StateMachine: the generated tables

`StateGraph` has one definition for each of the 103 handlers of lib/states.c: the
states it may pass the machine on to, those it may leave it waiting in, and those
it may leave it in with an error.  `Dispatch` has the tables of lib/states-run.c
and lib/is-state.c: which event each state accepts and where it leads, which
direction it polls for, its group and its class.  `StateMachine` is the loop of
nbd_internal_run over such tables, an abstract specification of a handle that knows
nothing of commands or options.

Transmission and Handshake were written from the handlers' bodies, the tables from
what the generator made of the state machine; `ImplementsMachine` says that each
step of the former is one of the latter.  An action of Negotiation may stand for up
to three handlers when those in between decide nothing (a START state that only
fills a buffer), so the graph is taken up to that many steps (`GoesFar`,
`StaysFar`).

### ApiCalls: threads, the lock and closures

`ApiTable` has one row for each function of lib/api.c: whether it takes the lock,
the states it is permitted in, whether it may reject an argument, the closures it
is given, and what the function behind it does to the handle.  Rows that do the
same are equal, so that the 156 functions make a few dozen behaviours.  `ApiCalls`
runs them: `Begin` and `Enter` (the lock and the checks), `Body` (one disjunct for
each kind of effect), `Handler` (one handler of nbd_internal_run, following
StateGraph), `Wait` (the loops that poll under the lock), `Out` (closures freed,
state published, lock released), `Close` and `Create`.  A closure is a callback
with its free function; the model keeps who holds it: the arguments of a call, a
command, the option in progress, the debug callback.  Calls without the lock are seen
only through the debug callback they report themselves with (`ReadDebugCallback`,
`CallDebugCallback`).  What a call is (`call`) is kept only as long as a later step
depends on it: once the function has run, only for a call that waits (`Awaited`).

`opt` is h->opt_current with h->opt_cb.  A call of lib/opt.c sets both;
nbd_internal_free_option frees the callbacks that go with h->opt_current, and each
handler that calls it does so on its own exits (`EndsOption`), as DEAD and CLOSED do.
Nothing else resets the option: one that is not ended where it should be is met by
the next one (`OptionOver`).  Which way a handler of the handshake goes depends on
h->opt_current too (`Routed`): STARTTLS, for one, ends in NEGOTIATING when it was asked
for, and goes on to the next option when it was only passed by.  A synchronous option
call puts callbacks of its own stack frame into the handle (`frame`), and when polling
fails it returns with them still there; the closure they name is then `lost`.

### NbdCopy

`CopyMain` is main: how the options and the two ends become the number of threads,
connections and the sizes the copy runs with, with its early exits.  `CopyThreads`
has the worker threads: a work range is fetched, its extents asked for, data read,
and the completion callback of the read splits it into writes and zeroes.  A
callback runs inside a call of whichever thread polls the handle, so what it still
has to do is that thread's `agenda`.  worker->queue_size has no lock: a change of it
is a load and a later store (`store`).  `SynchCopy` is the single-threaded copy,
pipes included.  A read, a write, a zero or a query of extents may fail wherever the
end it is made on may, and the process then exits with failure (`Exits`).  `Extents` has the conversions of block status descriptors and file
holes into extents as pure functions; `ExtentsRight` compares them, for every list
of descriptors over a small disk, with what they are to mean.  `DiskCopy` is the
abstract copy: blocks take the contents of the source, in any order, a right block
stays right, and success is reported only when all are.

## The runs

`tlc -config <run>.cfg <module>`, the module being MCTransmission (commands,
interrupt, chunks, extended, liveness, stray_chunk), MCHandshake (connect, options),
MCNbdCopy (copy, copy_handle0) or MCApiCalls (api, debug_race).

| run | instance | what it shows |
|---|---|---|
| commands | two commands and a disconnect, every callback return, faults | lists, tails, count and callbacks stay consistent; a disconnect is last and not lost |
| interrupt | two long writes and a disconnect, both kinds of shutdown, faults | the server reads whole requests, each once; a half-sent one is resumed; no assert fails; the handle refines CommandLifecycle |
| chunks | one structured read, 14 kinds of answer, simple replies to unknown cookies | headers are read where they start; no assert fails; a successful read has filled its buffer; the handlers follow the generated state machine |
| extended | one block status with extended headers, filtered or not, over TLS, with spurious wakeups and faults | the same asserts and alignment, with id payloads, wrong extent counts and unknown contexts |
| liveness | two long writes, by nbd_pwrite, which waits, or nbd_aio_pwrite, with and without a callback, and a disconnect; faults, fair | every command ends, every synchronous call returns |
| connect | every way to connect, every TLS setting, automatic handshake, fair | no assert fails, nothing leaked, TLS not skipped, payload limit known, connecting ends |
| options | option mode, three calls, two export names | asserts of the handshake and of the synchronous calls, options sent whole and completed once, no stale knowledge; the handlers follow the generated state machine |
| api | two threads making any of the calls, over the whole state machine | the public state is fresh and usable, closures have one owner, an option is ended by its own handler before the next begins |
| copy | two workers between two servers; every backend and option on a small disk, fair | queue and buffer accounts are exact, each block is handed out once, no assert fails, extents mean what they should, the copy refines DiskCopy and ends |
| stray_chunk, copy_handle0, debug_race | the smallest instance that shows it | disagreements, see below |

`Asserts` joins the assert()s of the transmission phase (`IssueAsserts`,
`ReplyAsserts`, `ChunkAsserts`, `ApiAsserts`), `HandshakeAsserts` those of the
handshake.

### Bounds

* `MaxCmds` cookies, the last kept for NBD_CMD_DISC.  Two commands and a
  disconnect put a command on each list at once, unlink from the head, the middle
  and the end of a list, and queue behind a half-sent request.  The theorems
  cover every number.
* `SockBuf` = 1 makes every send stop after each unit.  chunks, extended and liveness
  use 2: in the last two a send still stops inside the header and inside the payload.
* A read is two bytes, so that a chunk can cover the first, the second, both or
  none, once or twice.
* Requests are limited to four units (`MAX_REQUEST_SIZE`), so that a payload one
  too long exists.
* `MaxAddrs` = 2: one address fails and another follows.  `MaxReplies` = 1: one
  information reply before the last.  `MaxQueries` = 1: none or one context.
* `MaxCalls` = 3 calls in option mode: learn something, change something, look.
  connect has none, and explores the ways to connect instead.
* Export names are their lengths, 0 (the default) and 1.
* The sizes of ExportInfo keep the order of the real ones (`SizesOrdered`).
* `UnknownCookie` are the kinds of header a server may send for a cookie nobody waits
  for: simple replies in chunks; structured ones are what stray_chunk is about.
* api: two threads, one closure of each kind and a second debug callback to replace
  the first, `MaxCommands` = 1 beside the disconnect.  One command can be queued, sent,
  done or abandoned by its waiter while the other thread does anything.  The theorems
  of ApiLock cover every number.
* copy: disks of five and three blocks, requests of two, so that extents begin and end
  inside a request; two workers; a queue of two blocks, so that waiting for it happens.
  A destination with several connections that cannot zero is left to copy_handle0.
  `NullSize` stands for INT64_MAX.  A work range is four blocks, so that a worker
  fetches twice.

### Deadlock

It is checked in api and copy, where a step is always possible (a finished copy
stutters in its last state).  In the other runs it is not: a handle that is closed,
or that nobody calls, may stop.

### Fairness

Transmission: the state machine does not stop half-way (nbd_internal_run is a
loop).  The program, or the synchronous call it is in, keeps polling: that is what
docs/libnbd.pod asks of a program, and what the loops in lib/poll.c and lib/aio.c
do.  Polling is strongly fair, because poll(2) may fail and the call be made
anew.  The network delivers and drains.  The server finishes each request it has
read and closes after a disconnect, unless the connection is lost, which may
happen at any moment.  Of the steps of a synchronous call only one can be next, so one
condition covers them.  Liveness is checked without TLS: gnutls_bye may ask to be
called again for ever.

Handshake: `RunSpec` has the state machine and returning calls only; `FairSpec`
adds that kernel and server answer, one way or the other, and that the user polls.

NbdCopy: as long as some thread or server can take a step, one is taken
(`WF_vars(Next)`).  Nothing more is needed, because no step of a copy can be repeated
without progress; a waiting worker does not spin, it is blocked in poll(2).

api has no liveness property: that a call returns depends on the server, which is
Transmission's and Handshake's subject.

### Assumptions of the models

NBD_REP_SERVER and NBD_REP_INFO replies are at least as long as their fixed part.
A failed allocation is one of the failures of its step.  The server never reuses a
cookie it has finished with; a reply to a cookie nobody is waiting for is modelled
by `UnknownCookie`.  A callback makes no call on its own handle.  Nobody calls
nbd_close while another call is running, as docs/libnbd.pod asks.  In ApiCalls a
handler may take any successor the graph gives it, except that READY issues exactly
when something is queued and that the handlers of the handshake look at
h->opt_current (`Routed`).  The servers of nbdcopy answer block status as the protocol
asks (copy/nbd-ops.c:467 asserts it), and the source does not change.

## The proofs

The theorems of `TransmissionSafety` are for every value of the constants that
satisfies `HandleAssumption` (Handle): any number of commands, any set of commands
and chunks of the right types, any socket buffer, TLS or not, both kinds of shutdown.
Those of `ApiLock` are for every set of threads and closures and every `MaxCommands`
(`ApiAssumption`, ApiCalls).

| theorem | states | under |
|---|---|---|
| TypeCorrect | Spec => []TypeOK | |
| NoCommandLost | Spec => []OneList | |
| CallbacksOnce | Spec => []CompletionOnceWhileOpen | |
| NothingAfterDisc | Spec => []DiscIsLast | |
| SendingSurvives | Spec => []SuspendedRequest | |
| StreamOfRequests | Spec => []WholeUpToDisc | |
| PlainStreamOfRequests | Spec => []RequestsWhole | no TLS |
| TailsCorrect | Spec => []TailsOK | |
| InFlightCorrect | Spec => []InFlightCount | nobody abandons commands |
| LifecycleImplemented | Spec => ImplementsLifecycle | |
| IssueAssertsHold | Spec => []IssueAsserts | |
| ReplyAssertsHold | Spec => [](ReplyAsserts /\ ChunkAsserts) | |
| AssertsHold | Spec => []Asserts | with abandon_pending, no spurious wake-ups |
| DiscKept | Spec => []DiscNotLost | nobody abandons commands |
| HeadersAligned | Spec => []HeaderAligned | `Orderly` |
| ReadsComplete | Spec => []ReadComplete | no completion callback returns 1 |
| ApiLock!PublicStateAlwaysFresh | Spec => []PublicStateFresh | |
| ApiLock!MutualExclusion | Spec => []OneInside | |
| ApiLock!PublicStateAlwaysUsable | Spec => []PublicStateUsable | |
| ApiLock!OptionAlwaysOver | Spec => []OptionOver | |
| ApiLock!ClosuresAlwaysOwned | Spec => []ClosuresOwned | |

Each hypothesis rules out a case in which the code really breaks the property; but for
one, noted with `Orderly`, the cases are among the disagreements listed below.  Over TLS
NBD_CMD_DISC can be sent twice.  Abandoned commands stay counted, and an abandoned
NBD_CMD_DISC is not replaced.  A handle that blocks in REPLY.START fails an assert on
ABANDON_PENDING, which needs a socket that polls readable with nothing to read.
`Orderly` says that a reply to an unknown cookie is a simple one, and that an extended
header with the wrong offset has no payload: for these CHUNK_REPLY.START jumps to
RESYNC before `payload_left` is known and skips nothing, which is the finding of
stray_chunk.  It also says that the server sends no header with a wrong magic: such a
header is what HeaderAligned calls misread, and the code, which cannot tell the two
apart, goes to DEAD on it.  A completion callback that returns 1 retires a read before its bytes are counted.
Where a run checks the same property, its cfg satisfies the hypothesis.

**Layout.**  `TransmissionFacts` has the inductive invariants and the lemmas that
several proofs share.  Five modules extend it, one per subject, and do not see each
other: `TransmissionTypes` (types, where the machine waits, the assertions of the
calls, NBD_CMD_DISC), `CommandLists` (lists and the life of a command), `Exchanges`
(sending and receiving), `Alignment` and `ReadData`.  Each shows that its invariants
hold initially and are kept by every action, one lemma per handler, call or message,
with the invariants they depend on as hypotheses.  `TransmissionSafety` extends all
five and combines them into the theorems.  `ApiLock` stands alone on ApiCalls.

**Types.**  TypeOK is more than typing: `rlen` and `payload_left` are natural
numbers, while the handlers compute them by subtracting lengths the server
chose, and no more is consumed from the socket than was delivered.  The inductive
invariant `TypeInv` adds `CookieLeft` (until a disconnect is requested a cookie
remains for it) and `SendingOne` (what is being sent belongs to a command), which
nbd_internal_command_common and send_from_wbuf need.

**Lists.**  None of OneList, CompletionOnceWhileOpen and DiscIsLast is inductive
alone.  `ListInv` joins them (a callback has run exactly when its command left the
live lists, so each needs the other) and adds `OnlyIssued` (the lists hold only
cookies that were given out, so the next one is new), `NoHistory` (a new cookie has
neither been reported nor called back) and `DiscAsked` (`disconnect_request` is set
once a NBD_CMD_DISC exists, so nothing is queued behind it).  A frame lemma
`ListsKept` serves the steps that move no command, and `CompletesInv` treats every
way a command can end in one place: `Completes(G, K)` says that the commands G leave
the live lists, K of them for cmds_done.  nbd_internal_abort_commands is an instance
because what it appends is a sequence without repetition of just the commands K
(`AbortLists`).

**Sending.**  That the head of the queue is what `h->wbuf` holds can be lost in many
ways: a reply is read between two writes of a request, commands are queued or
abandoned meanwhile, the payload follows the header in another state.  `SendInv` says
which command the buffer belongs to (`BufferIsHead`), what it holds in each state
(`BufferHolds`), when the queue may be empty (`QueueSeen`), and what is left once the
header of NBD_CMD_DISC is out (`ShutdownLast`).  `WireInv` adds the server's end: it
has only commands that have been sent (`GotSent`) and lacks of the current one just
what is still in the buffer (`StreamInStep`).  `ReplyFrame` shows once for all
handlers of the REPLY group that they leave all of this alone.

**Tails, counts, the life of a command.**  `NextListStep` says that every action does
one of eight things to the lists (`ListStep`): nothing, queue one, send one, finish
one, end all, abandon some, retire one, free all.  Everything about lists is then
proved by these eight cases.  `EndInv` has the tail pointers, the count and the order
of the queue (`QueueOrder`, needed because CommandLifecycle sends in issue order).  The
refinement maps each case to the action of CommandLifecycle of that name, or to a
stuttering step (`KeepMaps`, `QueueMaps`, ...).

**Receiving.**  The handlers of a reply run in one call of nbd_internal_run or in
many, with anything in between.  `Phase` is the state that reads the reply now or
will when more arrives, and `RecvInv` says what holds in each phase: the command
looked up is still the one in flight with the cookie of the header (`Attached`), its
type is the one the handler expects and the lengths are large enough for the next
field (`Needs`), and the server answers only what it was sent (`CookiesKnown`).
`AwakeInv` says where the state machine can stop and that, without spurious wake-ups,
REPLY.START never does.  The assertions follow from these; that NBD_CMD_DISC is never
completed follows from `CookiesKnown`.

**Alignment.**  `AlignInv` gives, for every phase, the number of units of the message
still to be read (`ToRead`) and says that the socket has just these (`StreamAt`).
That the header was framed for the command it answers (`Fits`) makes the length in it
the one the handlers use.  The simple reply is the difficult case, since only the
type of its command says whether a payload follows: the command must still be the
one the server answered, so `Answered` and `LastWord` say that after its last chunk
nothing more about a command comes.

**Data.**  `DataInv` says that `data_seen` is the number of bytes of the buffer that
were stored, plus those counted and still in transit (`Transit`), or already exceeds
the count.  A set of as many bytes as the buffer has is the whole buffer.

**The lock.**  PublicStateFresh is not inductive: while a thread holds the lock the
public state is stale, and what makes it fresh again is that the thread which
unlocks is the one that locked.  `LockInv` says that the lock belongs to a thread
that is at one of the places between lock and unlock (`Holding`), that the state
machine runs only while the thread with the lock is in nbd_internal_run, and that
with the lock free the public state is the state.  One lemma per part of a call shows
that it is kept; the parts of `Body` need only where they leave the thread and whether
the machine runs, which is the same for every row of ApiTable.

**Resting states and options.**  These theorems do depend on the tables.
`HandlersLead` goes through all handlers of StateGraph: the machine stops only in a
state of `Resting`, and the states that negotiate an option are left only for DEAD or
CLOSED, by an exit that frees it, or where none was asked for.  `HandlerGoes` says the same of a step, given
`Routed`; `EventsLead` and `DirectionsAccepted` do so for the events, `Rows` for the
calls of ApiTable.  `RestInv` carries this through the threads.  `OptInv` says that
there are callbacks only in the states that negotiate an option, and then of the option
that is current, or in DEAD and CLOSED until their handlers run (`OptionAt`); that the
current option is the one the state belongs to, or none if it is passed by (`Fits`);
that the callback of a list or a context query is there when its handler asserts it
(`Second`); and that a call which passed its check of the state still finds that state
when its body runs (`CallAt`), which is where the lock comes in.  `FreedOption` shows
that nbd_internal_free_option leaves no callback of the current option, hence none.

**Closures.**  `ClosuresOwned` says it closure by closure; `OwnInv` says it part by
part.  The live closures are the disjoint union of the arguments of
the threads, the three lists, the option, the debug callback and the lost ones
(`Held`, `Parts`), no two threads and no two commands of a list share one, and a
thread has arguments only from `Begin` on until its function took them (`ArgsInv`).
`IssueInv` (a machine in ISSUE_COMMAND has a command to issue) is what makes moving the
head of cmds_to_issue safe; it rests on the guard of READY and on `HandlerGoes`, by
which only READY leads into that group.  The lemmas on lists say what joining,
cutting and filtering do to the closures on them.  Then one lemma per function or
handler says which part its closures come from and which they go to; `OwnStep`
reduces a step to the thread that makes it.  That h->opt_cb is empty when an option
is asked for is `OptInv`.

TLC checked every inductive invariant on small instances before it was proved.
`TypeOK` is proved and no longer checked by a run.

Only model-checked: the liveness properties (the prover does not treat fairness), the
refinements of StateMachine and DiskCopy, `DebugCallbackLive` (which does not hold),
and all of Handshake and NbdCopy.

## Where the code and its own words disagree

Three runs end in a counterexample, each to something the source itself says.

* **stray_chunk** (generator/states-reply-chunk.c:109).  The jump to resync for an
  unknown cookie comes before `payload_left` is assigned, so nothing is skipped and
  the next header is read inside the payload.
* **copy_handle0** (copy/nbd-ops.c:293).  A worker that has to write zeroes because
  the destination cannot zero does so with a synchronous write on handle 0.  That call
  polls handle 0 and runs the completion callbacks of worker 0, so two threads change
  worker 0's `queue_size`, which has no lock, against copy/nbdcopy.h:105.  The same call
  can take the replies worker 0 is waiting for and leave it in poll(2) with nothing to
  come, so CopyEnds is claimed only for destinations that can zero or have one
  connection.
* **debug_race** (lib/debug.c:46).  A call that takes no lock still calls the debug
  callback, which another thread may be replacing and freeing under the lock, against
  docs/libnbd.pod:100 and generator/API.mli:30.

The following have no run of their own.

In the library:

* With `in_write_shutdown` set, ISSUE_COMMAND.START sets the next state and, there
  being no return, goes on to build the request again: over TLS NBD_CMD_DISC can be
  sent twice (generator/states-issue-command.c:34; RequestsWhole with `Tls` TRUE).
* With TLS required and on, a refused second nbd_opt_starttls closes the handle, and
  the assert that it is dead fails (lib/opt.c:159).  `HandshakeAsserts` leaves out
  this one case of `SyncAsserts`.
* The status of a TCP connection is read while it is in progress
  (generator/states-connect.c:210); a refusal then comes in the middle of the
  handshake, and the other addresses are not tried.
* nbd_aio_disconnect behind a command being sent, then nbd_shutdown with
  ABANDON_PENDING: the queued NBD_CMD_DISC is abandoned and not replaced
  (lib/disconnect.c:51; commands with `ShutdownFlags` including abandon_pending,
  DiscNotLost).  The same instance violates InFlightCount: abandoned commands stay
  counted in `in_flight`, against lib/internal.h:365.
* A handle blocked in REPLY.START after EAGAIN, with nothing queued, fails the assert
  of lib/disconnect.c:47 on ABANDON_PENDING (`Spurious` TRUE, ApiAsserts).  That it
  can block there contradicts generator/states-reply.c:29.
* nbd_close runs the completion callbacks of `cmds_done` again
  (lib/handle.c:151; CompletionOnce), against docs/libnbd.pod:985.  The property
  checked and proved is therefore the one while the handle is open.
* A structured read that ends without all its data and without an error chunk is
  reported as a success to a completion callback; only nbd_aio_command_completed
  counts (lib/aio.c:107), and a callback that returns 1 retires the command before
  that.
* While the peer is silent the TLS handshake states follow each other without
  blocking (generator/states-newstyle-opt-starttls.c:149), so nbd_internal_run does
  not return, against lib/states-run.c:33.
* When polling fails, nbd_opt_list and the other synchronous option calls return with
  callbacks of their stack frame still in `h->opt_cb`; the closure they wrap is not
  freed, against docs/libnbd.pod:886 (`lost` in ApiCalls).
* do_poll treats POLLHUP as readable (lib/poll.c:84) in states that wait only to write,
  where notify_read is an error; the call fails and leaves the state as it was.
* An NBD_REP_ACK to NBD_OPT_GO without NBD_INFO_EXPORT before it leaves a READY handle
  with flags and size 0; KnowledgeFresh allows it, as nothing untrue is reported.
* lib/internal.h:164 says the payload cap is always non-zero; it is 0 until the
  handshake sets it.  PayloadKnown states it for READY.
* is_connecting_group (lib/is-state.c) has no case for the group CONNECT_SA.  The
  machine never stops in its one state, so no call can see it.

In nbdcopy:

* Truncating a regular file sets `target_is_zero` (copy/file-ops.c:385), so zeroes are
  skipped and the file is sparse with `--allocated` too, against
  copy/nbdcopy.pod:105.
* A preferred block size above 32M fails the assert of copy/main.c:406.
* file_synch_zero takes the 0 that fallocate(2) returns for a failure
  (copy/file-ops.c:597) and gives up that way of zeroing after its first success; the
  caller then writes zeroes.

## What is not modelled

* Which argument a call refuses (strict mode, flags, bounds): that it may refuse, and
  who frees the closures then, is modelled.  The getters are rows without effect.
* Names, strings, error and debug messages, statistics.
* The values of block status extents inside the library (their conversion is in
  Extents), certificates and the record layer of TLS.
* The lifetime of buffers a caller passes: a synchronous read that fails in poll(2)
  leaves a command in flight that still points to one.
* Memory exhaustion, where the handler has no exit of its own for it; fork and exec beyond their success or failure.
* In nbdcopy: the command line, `--flush`, `--progress`, the page cache hints, and what
  is allocated on the destination as opposed to what it reads as.
* nbdfuse and nbdublk: their threads belong to libfuse and to the kernel's ublk queues,
  and what they ask of the library is what ApiCalls lets any thread ask.
* nbdinfo, nbddump and nbdsh are sequential and print; URI parsing is libxml2's; the
  bindings are generated glue to the calls of ApiTable; the generator runs at build
  time, and its output is what is modelled.
