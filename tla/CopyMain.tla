------------------------------ MODULE CopyMain ------------------------------
(***************************************************************************)
(* nbdcopy before the copy starts (copy/main.c): how the command line and  *)
(* the two ends of the copy become the settings the threads run with.      *)
(* An end is a record; sizes and offsets are counted in blocks, -1 being a *)
(* stream of unknown size.                                                 *)
(***************************************************************************)
EXTENDS Integers, FiniteSets, FiniteSetsExt

CONSTANTS
  CommandLines,       \* the options and the two ends, as main parses and opens them
  MAX_REQUEST_SIZE,
  THREAD_WORK_SIZE,
  Cores,              \* what sysconf says
  NullSize            \* the size of null:, INT64_MAX in the code

ASSUME CopySizes ==
  /\ {MAX_REQUEST_SIZE, THREAD_WORK_SIZE, Cores} \subseteq Nat \ {0}
  /\ THREAD_WORK_SIZE % MAX_REQUEST_SIZE = 0

VARIABLES
  opt,      \* the command line, then the settings
  exited    \* "no", or how the process ended: "success", "failure", "abort"

isPowerOf2(n) == \E k \in 0..n : 2^k = n

Streams(o) == "pipe" \in {o.src.kind, o.dst.kind}

\* rw_ops.can_multi_conn: files and null: always, pipes never, NBD as the server says
can_multi_conn(rw) ==
  \/ rw.kind \in {"file", "block", "null"}
  \/ rw.kind = "nbd" /\ rw.multi_conn

\* rw_ops.can_extents
can_extents(rw) ==
  \/ rw.kind \in {"file", "block"}
  \/ rw.kind = "nbd" /\ rw.base_allocation

\* A plausible slip: the ends are asked, but threads are not lowered to match.
UnequalThreads(o) ==
  LET conn == IF o.src.subprocess \/ o.dst.subprocess \/ o.synchronous \/ Streams(o)
                 \/ ~can_multi_conn(o.src) \/ ~can_multi_conn(o.dst)
              THEN 1 ELSE o.connections
  IN  [connections |-> conn, threads |-> IF o.threads = 0 THEN Cores ELSE o.threads]

\* connections and threads are made equal: the smaller of the two
Parallelism(o) ==
  LET conn == IF o.src.subprocess \/ o.dst.subprocess \/ o.synchronous \/ Streams(o)
                 \/ ~can_multi_conn(o.src) \/ ~can_multi_conn(o.dst)
              THEN 1 ELSE o.connections
      thr  == IF o.threads = 0 THEN Cores ELSE o.threads
      n    == Min({conn, thr})
  IN  [connections |-> n, threads |-> n]

\* request_size, queue_size and sparse_size, each raised to what the next one needs
Sizes(o) ==
  LET request == Max({o.request_size, o.src.preferred, o.dst.preferred})
  IN  [request |-> request,
       queue   |-> Max({o.queue_size, request}),
       sparse  |-> IF o.sparse_size > 0 THEN Max({o.sparse_size, o.dst.preferred}) ELSE 0]

MainAsserts(sizes) ==
  /\ sizes.request > 0 /\ isPowerOf2(sizes.request)
  /\ sizes.request <= MAX_REQUEST_SIZE /\ sizes.request <= THREAD_WORK_SIZE
  /\ sizes.sparse = 0 \/ isPowerOf2(sizes.sparse)

(* file_truncate: a regular file takes the size of the source and is zero; *)
(* ftruncate refuses the -1 of a stream.                                   *)
Truncate(o) == [o EXCEPT !.dst.size = o.src.size, !.target_is_zero = TRUE]

TooSmall(o) == o.src.size >= 0 /\ o.dst.size >= 0 /\ o.src.size > o.dst.size

\* The handles an end has: one from the start, up to n when it can have more
start_multi_conn(rw, n) == IF n > 1 /\ can_multi_conn(rw) THEN n ELSE 1

(* main, from the parsed options to the start of the copy *)
Setup ==
  LET sizes == Sizes(opt)
      par   == Parallelism(opt)
      ready == IF opt.dst.kind = "file" THEN Truncate(opt) ELSE opt
  IN  /\ ~opt.running /\ exited = "no"
      /\ IF opt.dst.read_only
         THEN exited' = "failure" /\ UNCHANGED opt
         ELSE IF ~MainAsserts(sizes)
         THEN exited' = "abort" /\ UNCHANGED opt
         ELSE IF (opt.dst.kind = "file" /\ opt.src.size = -1) \/ TooSmall(ready)
         THEN exited' = "failure" /\ UNCHANGED opt
         ELSE /\ opt' = [ready EXCEPT
                           !.running = TRUE,
                           !.connections = par.connections, !.threads = par.threads,
                           !.request_size = sizes.request, !.queue_size = sizes.queue,
                           !.sparse_size = sizes.sparse,
                           !.synchronous = @ \/ Streams(opt),
                           !.extents = @ /\ can_extents(opt.src),
                           !.src.handles = start_multi_conn(opt.src, par.connections),
                           !.dst.handles = start_multi_conn(opt.dst, par.connections)]
              /\ UNCHANGED exited
=============================================================================
