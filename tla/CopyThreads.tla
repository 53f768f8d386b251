---------------------------- MODULE CopyThreads ----------------------------
(***************************************************************************)
(* The threads of nbdcopy (copy/multi-thread-copying.c with nbd-ops.c,     *)
(* file-ops.c and null-ops.c).  Each worker takes ranges of the disk, asks *)
(* for their extents, reads what may be data and, in the completion        *)
(* callback of the read, writes it or zeroes the destination.              *)
(*                                                                         *)
(* A callback runs inside a call of the thread that polls the handle.  The *)
(* steps it still has to make are that thread's agenda; a thread does      *)
(* nothing else until its agenda is empty.  queue_size is not protected by *)
(* any lock: a change of it is a load and a later store.                   *)
(***************************************************************************)
EXTENDS CopyMain, Sequences, SequencesExt

CONSTANT Workers  \* 0 .. n: indexes of threads and of NBD handles

VARIABLES
  content,        \* the source disk, never changed: "zero" or "data" per block
  out,            \* the destination: "old", "hole", "zero" or "data" per block
  next_offset,
  pc,             \* where each worker is in worker_thread
  offset, count,  \* the rest of its work range
  zeros,          \* the blocks of its range that the extents call zero
  zeroing,        \* zeroing_start, -1 when is_zeroing is false
  queue,          \* worker->queue_size
  store,          \* an update of some queue_size that is computed but not stored
  agenda,         \* what the callbacks the thread is inside of have still to do
  reads, writes,  \* commands in flight on each source and destination handle
  refs,           \* buffer->refs; a buffer is named by the offset it was read from
  zcap            \* the ways of zeroing that file_synch_zero still tries

threadVars == <<pc, offset, count, zeros, zeroing>>
vars == <<opt, exited, content, out, next_offset, pc, offset, count, zeros, zeroing,
          queue, store, agenda, reads, writes, refs, zcap>>

NoStore == [worker |-> -1, value |-> 0]
Size == Cardinality(DOMAIN content)
Blocks(o, len) == o .. (o + len - 1)
Live == opt.running /\ exited = "no"

\* A command: slice.buffer is buf, -1 for NULL; sync is the thread that issued it
\* through a synchronous call, -1 for an asynchronous one.
Command(w, o, len, buf) ==
  [worker |-> w, offset |-> o, len |-> len, buf |-> buf, sync |-> -1,
   state |-> "sent"]

\* Is the destination handle 0 locked by another thread, inside a synchronous write?
Awaits(t) == \E k \in DOMAIN agenda[t] : agenda[t][k].op = "await"
Blocked(t, i) == i = 0 /\ \E u \in Workers \ {t} : Awaits(u)

Idle(t) == agenda[t] = <<>> /\ store[t] = NoStore

\* An end that may fail does: the process prints an error and exits.
Exits(rw) ==
  /\ TRUE \in rw.errors
  /\ exited' = "failure"
  /\ UNCHANGED <<opt, content, out, next_offset, threadVars, queue, store, agenda, reads,
                 writes, refs, zcap>>

in_flight(w) == Cardinality(reads[w]) + Cardinality(writes[w])

-----------------------------------------------------------------------------
(* What zeroing a range of a file does: the ways that are left in zcap are   *)
(* tried in turn, one that the kernel refuses is not tried again.            *)

ZeroCaps(rw) ==
  CASE rw.kind = "file"  -> {"punch", "range", "fallocate"}
    [] rw.kind = "block" -> {"punch", "range", "zeroout"}
    [] OTHER             -> {}

Zeroed(ok, now, caps) == [ok |-> ok, now |-> now, caps |-> caps]

(* file_synch_zero.  fallocate(2) returns 0 when it succeeds: the code      *)
(* takes that for a failure, and a failure for a success.                   *)
SynchZero(kernel, caps, allocate, aligned) ==
  LET k1 == IF allocate \/ "punch" \in kernel THEN caps ELSE caps \ {"punch"}
      k2 == IF "range" \in kernel THEN k1 ELSE k1 \ {"range"}
  IN  IF ~allocate /\ "punch" \in caps \cap kernel THEN Zeroed(TRUE, "hole", caps)
      ELSE IF "range" \in caps \cap kernel THEN Zeroed(TRUE, "zero", k1)
      ELSE IF {"punch", "fallocate"} \subseteq k2
      THEN IF "punch" \notin kernel THEN Zeroed(FALSE, "", k2 \ {"punch"})
           ELSE IF "fallocate" \in kernel THEN Zeroed(FALSE, "zero", k2 \ {"fallocate"})
           ELSE Zeroed(TRUE, "hole", k2)
      ELSE IF aligned /\ "zeroout" \in k2
      THEN IF "zeroout" \in kernel THEN Zeroed(TRUE, "zero", k2)
           ELSE Zeroed(FALSE, "", k2 \ {"zeroout"})
      ELSE Zeroed(FALSE, "", k2)

Aligned(o, len) == o % opt.dst.sector = 0 /\ len % opt.dst.sector = 0

\* The destination with what a range now holds; null: keeps nothing
Filled(o, len, what) ==
  [b \in DOMAIN out |-> IF b \in Blocks(o, len) /\ what # "" THEN what ELSE out[b]]
Copied(o, len) ==
  [b \in DOMAIN out |-> IF b \in Blocks(o, len) THEN content[b] ELSE out[b]]

-----------------------------------------------------------------------------
(* finished_read: a read that returned is written whole, or cut into runs   *)
(* of zero blocks and of data.  The blocks looked at are whole and aligned:  *)
(* what comes before the first and after the last of them is data.           *)

IsZero(o, len) == \A b \in Blocks(o, len) : content[b] = "zero"

RoundUp(n, k) == k * ((n + k - 1) \div k)

\* The aligned blocks of [start, end), and where they end
FirstBlock(start, end) == Min({RoundUp(start, opt.sparse_size), end})
AfterBlocks(start, end) ==
  LET first == FirstBlock(start, end)
  IN  first + opt.sparse_size * ((end - first) \div opt.sparse_size)
ZeroBlocksIn(start, end) ==
  {i \in start .. (AfterBlocks(start, end) - 1) :
     /\ i % opt.sparse_size = 0
     /\ IsZero(i, opt.sparse_size)}

\* Where the run that starts at start, zero or not, stops
RunEnd(start, end, zero) ==
  LET after == AfterBlocks(start, end)
      whole == {i \in FirstBlock(start, end) .. (after - 1) : i % opt.sparse_size = 0}
      zeroed == ZeroBlocksIn(start, end)
  IN  Min({after} \cup (IF zero THEN whole \ zeroed ELSE zeroed))

Task(op, c) == [op |-> op, cmd |-> c, zero |-> FALSE]

\* A plausible slip: the queue still counts the part of a read that became a zero command.
NoShrink(c, o, len, zero) ==
  LET sub == Command(c.worker, o, len, IF zero THEN -1 ELSE c.buf)
  IN  IF len = 0 THEN <<>>
      ELSE IF zero THEN <<Task("zero", sub)>>
      ELSE <<Task("retain", sub), Task("write", sub)>>

\* create_subcommand, then the write, or the smaller queue and the zeroing
PieceTasks(c, o, len, zero) ==
  LET sub == Command(c.worker, o, len, IF zero THEN -1 ELSE c.buf)
  IN  IF len = 0 THEN <<>>
      ELSE IF zero THEN <<Task("shrink", sub), Task("zero", sub)>>
      ELSE <<Task("retain", sub), Task("write", sub)>>

FinishedRead(c) ==
  IF opt.allocated \/ opt.sparse_size = 0 THEN <<Task("write", c)>>
  ELSE <<Task("split", c), Task("free", c)>>

(* finished_command *)
FinishedCommand(c) ==
  IF c.buf # -1 THEN <<Task("shrink", c), Task("free", c)>> ELSE <<Task("free", c)>>

-----------------------------------------------------------------------------
(* worker_thread *)

At(w, where) == Live /\ pc[w] = where /\ Idle(w)
Goto(w, where) == pc' = [pc EXCEPT ![w] = where]

\* A plausible slip: the range is handed out, but stays the next one.
HandOutAgain(w) ==
  /\ At(w, "fetch")
  /\ IF next_offset < Size
     THEN /\ offset' = [offset EXCEPT ![w] = next_offset]
          /\ count' = [count EXCEPT ![w] = Min({Size - next_offset, THREAD_WORK_SIZE})]
          /\ Goto(w, "extents")
     ELSE Goto(w, "drain") /\ UNCHANGED <<offset, count>>
  /\ UNCHANGED <<opt, exited, content, out, next_offset, zeros, zeroing, queue, store,
                 agenda, reads, writes, refs, zcap>>

(* get_next_offset, in one critical section *)
Fetch(w) ==
  /\ At(w, "fetch")
  /\ IF next_offset < Size
     THEN /\ offset' = [offset EXCEPT ![w] = next_offset]
          /\ count' = [count EXCEPT ![w] = Min({Size - next_offset, THREAD_WORK_SIZE})]
          /\ next_offset' = next_offset + THREAD_WORK_SIZE
          /\ Goto(w, "extents")
     ELSE Goto(w, "drain") /\ UNCHANGED <<offset, count, next_offset>>
  /\ UNCHANGED <<opt, exited, content, out, zeros, zeroing, queue, store, agenda, reads,
                 writes, refs, zcap>>

\* Extents may call zero any blocks that read as zero, see Extents
ZeroBlocks(o, len) == {b \in Blocks(o, len) : content[b] = "zero"}

(* get_extents, which may fail, or default_get_extents *)
GetExtents(w) ==
  /\ At(w, "extents")
  /\ \/ opt.extents /\ Exits(opt.src)
     \/ /\ \E z \in IF opt.extents THEN SUBSET ZeroBlocks(offset[w], count[w]) ELSE {{}} :
             zeros' = [zeros EXCEPT ![w] = z]
        /\ Goto(w, "loop")
        /\ UNCHANGED <<opt, exited, content, out, next_offset, offset, count, zeroing,
                       queue, store, agenda, reads, writes, refs, zcap>>

RequestLen(w) == Min({count[w], opt.request_size})

\* The part of the range just looked at is behind the worker
Advance(w) ==
  /\ offset' = [offset EXCEPT ![w] = @ + RequestLen(w)]
  /\ count' = [count EXCEPT ![w] = @ - RequestLen(w)]

(* only_zeroes: zeroing is deferred, to send it as one command *)
DeferZero(w) ==
  /\ At(w, "loop") /\ count[w] > 0
  /\ Blocks(offset[w], RequestLen(w)) \subseteq zeros[w]
  /\ zeroing' = [zeroing EXCEPT ![w] = IF @ = -1 THEN offset[w] ELSE @]
  /\ Advance(w)
  /\ UNCHANGED <<opt, exited, content, out, next_offset, pc, zeros, queue, store, agenda,
                 reads, writes, refs, zcap>>

DataNext(w) == count[w] > 0 /\ ~(Blocks(offset[w], RequestLen(w)) \subseteq zeros[w])

(* The deferred zeroing, before data or at the end of the range *)
DoZero(w) ==
  /\ At(w, "loop") /\ zeroing[w] # -1 /\ (DataNext(w) \/ count[w] = 0)
  /\ agenda' = [agenda EXCEPT ![w] =
                  <<Task("zero", Command(w, zeroing[w], offset[w] - zeroing[w], -1))>>]
  /\ zeroing' = [zeroing EXCEPT ![w] = -1]
  /\ UNCHANGED <<opt, exited, content, out, next_offset, pc, offset, count, zeros, queue,
                 store, reads, writes, refs, zcap>>

(* create_command of a read *)
NewRead(w) ==
  /\ At(w, "loop") /\ DataNext(w) /\ zeroing[w] = -1
  /\ refs' = [refs EXCEPT ![offset[w]] = 1]
  /\ Goto(w, "wait")
  /\ UNCHANGED <<opt, exited, content, out, next_offset, offset, count, zeros, zeroing,
                 queue, store, agenda, reads, writes, zcap>>

RangeDone(w) ==
  /\ At(w, "loop") /\ count[w] = 0 /\ zeroing[w] = -1
  /\ Goto(w, "fetch")
  /\ UNCHANGED <<opt, exited, content, out, next_offset, offset, count, zeros, zeroing,
                 queue, store, agenda, reads, writes, refs, zcap>>

NoSlot(w) == in_flight(w) >= opt.requests \/ queue[w] >= opt.queue_size

\* A plausible slip: the loop tests again for a slot, but does not poll in between.
WaitWithoutPolling(w) ==
  /\ At(w, "wait") /\ ~Blocked(w, w)
  /\ IF NoSlot(w) THEN UNCHANGED <<pc, store>>
     ELSE /\ store' = [store EXCEPT ![w] = [worker |-> w, value |-> queue[w] + RequestLen(w)]]
          /\ Goto(w, "read")
  /\ UNCHANGED <<opt, exited, content, out, next_offset, offset, count, zeros, zeroing,
                 queue, agenda, reads, writes, refs, zcap>>

(* wait_for_request_slots, then the first half of increase_queue_size *)
Wait(w) ==
  /\ At(w, "wait") /\ ~Blocked(w, w)
  /\ IF NoSlot(w) THEN Goto(w, "waitpoll") /\ UNCHANGED store
     ELSE /\ store' = [store EXCEPT ![w] = [worker |-> w, value |-> queue[w] + RequestLen(w)]]
          /\ Goto(w, "read")
  /\ UNCHANGED <<opt, exited, content, out, next_offset, offset, count, zeros, zeroing,
                 queue, agenda, reads, writes, refs, zcap>>

(* The other half of a change of queue_size *)
Store(t) ==
  /\ Live /\ store[t] # NoStore
  /\ queue' = [queue EXCEPT ![store[t].worker] = store[t].value]
  /\ store' = [store EXCEPT ![t] = NoStore]
  /\ UNCHANGED <<opt, exited, content, out, next_offset, threadVars, agenda, reads, writes,
                 refs, zcap>>

(* asynch_read: a file is read, and its callback called, on the spot *)
Read(w) ==
  LET c == Command(w, offset[w], RequestLen(w), offset[w])
  IN  /\ At(w, "read")
      /\ \/ Exits(opt.src)
         \/ /\ IF opt.src.kind = "nbd"
               THEN /\ reads' = [reads EXCEPT ![w] = @ \cup {c}]
                    /\ UNCHANGED agenda
               ELSE /\ agenda' = [agenda EXCEPT ![w] = FinishedRead(c)]
                    /\ UNCHANGED reads
            /\ Advance(w)
            /\ Goto(w, "loop")
            /\ UNCHANGED <<opt, exited, content, out, next_offset, zeros, zeroing, queue,
                           store, writes, refs, zcap>>

(* while (in_flight (w->index) > 0) *)
Drain(w) ==
  /\ At(w, "drain") /\ ~Blocked(w, w)
  /\ Goto(w, IF in_flight(w) > 0 THEN "drainpoll" ELSE "done")
  /\ UNCHANGED <<opt, exited, content, out, next_offset, offset, count, zeros, zeroing,
                 queue, store, agenda, reads, writes, refs, zcap>>

-----------------------------------------------------------------------------
(* What a thread does inside a callback: the head of its agenda *)

Head0(t, op) ==
  Live /\ store[t] = NoStore /\ agenda[t] # <<>> /\ Head(agenda[t]).op = op

\* The head is done; what it calls comes before the rest
Then(t, tasks) == agenda' = [agenda EXCEPT ![t] = tasks \o Tail(@)]

\* A plausible slip: the slice is shared without a reference.
NoReference(t) ==
  /\ Head0(t, "retain")
  /\ Then(t, <<>>)
  /\ UNCHANGED <<opt, exited, content, out, next_offset, threadVars, queue, store, reads,
                 writes, refs, zcap>>

(* buffer->refs++ in create_subcommand *)
Retain(t) ==
  /\ Head0(t, "retain")
  /\ refs' = [refs EXCEPT ![Head(agenda[t]).cmd.buf] = @ + 1]
  /\ Then(t, <<>>)
  /\ UNCHANGED <<opt, exited, content, out, next_offset, threadVars, queue, store, reads,
                 writes, zcap>>

(* One piece of the read that is being split: up to the end of the run, and *)
(* with it the unaligned tail if no other run follows                       *)
Split(t) ==
  LET k == Head(agenda[t])
      end == k.cmd.offset + k.cmd.len
      cut == RunEnd(k.cmd.offset, end, k.zero)
      piece == PieceTasks(k.cmd, k.cmd.offset, cut - k.cmd.offset, k.zero)
  IN  /\ Head0(t, "split")
      /\ Then(t, IF cut = AfterBlocks(k.cmd.offset, end)
                 THEN piece \o PieceTasks(k.cmd, cut, end - cut, FALSE)
                 ELSE piece \o <<[k EXCEPT !.cmd.offset = cut, !.cmd.len = end - cut,
                                          !.zero = ~@]>>)
      /\ UNCHANGED <<opt, exited, content, out, next_offset, threadVars, queue, store,
                     reads, writes, refs, zcap>>

(* free_command *)
Free(t) ==
  LET c == Head(agenda[t]).cmd
  IN  /\ Head0(t, "free")
      /\ refs' = IF c.buf = -1 THEN refs ELSE [refs EXCEPT ![c.buf] = @ - 1]
      /\ Then(t, <<>>)
      /\ UNCHANGED <<opt, exited, content, out, next_offset, threadVars, queue, store,
                     reads, writes, zcap>>

(* The first half of decrease_queue_size *)
Shrink(t) ==
  LET c == Head(agenda[t]).cmd
  IN  /\ Head0(t, "shrink")
      /\ store' = [store EXCEPT ![t] = [worker |-> c.worker, value |-> queue[c.worker] - c.len]]
      /\ Then(t, <<>>)
      /\ UNCHANGED <<opt, exited, content, out, next_offset, threadVars, queue, reads,
                     writes, refs, zcap>>

(* asynch_write: on the spot unless the destination is NBD *)
Write(t) ==
  LET c == Head(agenda[t]).cmd
  IN  /\ Head0(t, "write") /\ (opt.dst.kind = "nbd" => ~Blocked(t, c.worker))
      /\ \/ Exits(opt.dst)
         \/ /\ IF opt.dst.kind = "nbd"
               THEN /\ writes' = [writes EXCEPT ![c.worker] = @ \cup {c}]
                    /\ Then(t, <<>>)
                    /\ UNCHANGED out
               ELSE /\ out' = IF opt.dst.kind = "null" THEN out ELSE Copied(c.offset, c.len)
                    /\ Then(t, FinishedCommand(c))
                    /\ UNCHANGED writes
            /\ UNCHANGED <<opt, exited, content, next_offset, threadVars, queue, store,
                           reads, refs, zcap>>

\* A plausible slip: a range the destination could not zero is left as it is.
GiveUpZeroing(t, c) == Then(t, <<Task("free", c)>>)

\* The destination cannot zero efficiently: zeroes are written
FallBack(t, c) == Then(t, <<Task("zeroes", c), Task("free", c)>>)

(* fill_dst_range_with_zeroes, as far as asynch_zero *)
Zero(t) ==
  LET c == Head(agenda[t]).cmd
      z == SynchZero(opt.dst.kernel, zcap, opt.allocated, Aligned(c.offset, c.len))
  IN  /\ Head0(t, "zero")
      /\ \/ /\ opt.target_is_zero \/ opt.dst.kind = "null"
            /\ Then(t, <<Task("free", c)>>)
            /\ UNCHANGED <<exited, out, writes, zcap>>
         \/ /\ ~opt.target_is_zero 
            /\ opt.dst.kind = "nbd" => opt.dst.can_zero /\ ~Blocked(t, c.worker)
            /\ Exits(opt.dst)
         \/ /\ ~opt.target_is_zero /\ opt.dst.kind = "nbd" /\ opt.dst.can_zero
            /\ ~Blocked(t, c.worker)
            /\ writes' = [writes EXCEPT ![c.worker] = @ \cup {c}]
            /\ Then(t, <<>>)
            /\ UNCHANGED <<exited, out, zcap>>
         \/ /\ ~opt.target_is_zero /\ opt.dst.kind = "nbd" /\ ~opt.dst.can_zero
            /\ FallBack(t, c)
            /\ UNCHANGED <<exited, out, writes, zcap>>
         \/ /\ ~opt.target_is_zero /\ opt.dst.kind \in {"file", "block"}
            /\ out' = Filled(c.offset, c.len, z.now)
            /\ zcap' = z.caps
            /\ IF z.ok THEN Then(t, <<Task("free", c)>>) ELSE FallBack(t, c)
            /\ UNCHANGED <<exited, writes>>
      /\ UNCHANGED <<opt, content, next_offset, threadVars, queue, store, reads, refs>>

(* The loop of synchronous writes of zeroes; NBD uses handle 0, whoever calls *)
Zeroes(t) ==
  LET c == Head(agenda[t]).cmd
      n == Min({c.len, opt.request_size})
      rest == IF c.len > n
              THEN <<Task("zeroes", [c EXCEPT !.offset = @ + n, !.len = @ - n])>> ELSE <<>>
  IN  /\ Head0(t, "zeroes") /\ (opt.dst.kind = "nbd" => ~Blocked(t, 0))
      /\ \/ Exits(opt.dst)
         \/ /\ IF opt.dst.kind = "nbd"
               THEN /\ writes' = [writes EXCEPT ![0] =
                                    @ \cup {[c EXCEPT !.len = n, !.sync = t]}]
                    /\ Then(t, <<Task("await", c)>> \o rest)
                    /\ UNCHANGED out
               ELSE /\ out' = Filled(c.offset, n, "zero")
                    /\ Then(t, rest)
                    /\ UNCHANGED writes
            /\ UNCHANGED <<opt, exited, content, next_offset, threadVars, queue, store,
                           reads, refs, zcap>>

-----------------------------------------------------------------------------
(* poll_both_ends, and the polling inside synchronous calls *)

Answered(c) == c.state # "sent"

\* The worker goes back to the test of the loop it polls in
Resume(w) ==
  Goto(w, CASE pc[w] = "waitpoll" -> "wait" [] pc[w] = "drainpoll" -> "drain"
            [] OTHER -> pc[w])

\* A callback that is told of an error exits
Failed(c) ==
  /\ c.state = "failed"
  /\ exited' = "failure"
  /\ UNCHANGED <<opt, content, out, next_offset, threadVars, queue, store, agenda, reads,
                 writes, refs, zcap>>

Polling(w) == pc[w] \in {"waitpoll", "drainpoll"}

(* asynch_notify_read of the source, or nbd_block_status_64 while it waits *)
ReadReturns(w) ==
  /\ Live /\ Idle(w) /\ (Polling(w) \/ (pc[w] = "extents" /\ opt.extents))
  /\ \E c \in reads[w] :
       \/ Failed(c)
       \/ /\ c.state = "done"
          /\ reads' = [reads EXCEPT ![w] = @ \ {c}]
          /\ agenda' = [agenda EXCEPT ![w] = FinishedRead([c EXCEPT !.state = "sent"])]
          /\ Resume(w)
          /\ UNCHANGED <<opt, exited, content, out, next_offset, offset, count, zeros,
                         zeroing, queue, store, writes, refs, zcap>>

(* asynch_notify_read of the destination *)
WriteReturns(w) ==
  /\ Live /\ Idle(w) /\ Polling(w) /\ ~Blocked(w, w)
  /\ \E c \in writes[w] :
       \/ Failed(c)
       \/ /\ c.state = "done"
          /\ writes' = [writes EXCEPT ![w] = @ \ {c}]
          /\ agenda' = [agenda EXCEPT ![w] = FinishedCommand(c)]
          /\ Resume(w)
          /\ UNCHANGED <<opt, exited, content, out, next_offset, offset, count, zeros,
                         zeroing, queue, store, reads, refs, zcap>>

(* nbd_pwrite on handle 0 while it waits: the commands of worker 0 finish   *)
(* in the thread that called it                                             *)
Await(t) ==
  /\ Head0(t, "await")
  /\ \E c \in writes[0] :
       \/ Failed(c)
       \/ /\ c.state = "done"
          /\ writes' = [writes EXCEPT ![0] = @ \ {c}]
          /\ IF c.sync = t THEN Then(t, <<>>)
             ELSE agenda' = [agenda EXCEPT ![t] = FinishedCommand(c) \o @]
          /\ UNCHANGED <<opt, exited, content, out, next_offset, threadVars, queue, store,
                         reads, refs, zcap>>

(* The servers answer the commands in any order, with an error if theirs may *)
ServeRead(i) ==
  /\ Live
  /\ \E c \in reads[i], fails \in opt.src.errors :
       /\ ~Answered(c)
       /\ reads' = [reads EXCEPT ![i] = (@ \ {c}) \cup
                     {[c EXCEPT !.state = IF fails THEN "failed" ELSE "done"]}]
  /\ UNCHANGED <<opt, exited, content, out, next_offset, threadVars, queue, store, agenda,
                 writes, refs, zcap>>

ServeWrite(i) ==
  /\ Live
  /\ \E c \in writes[i], fails \in opt.dst.errors :
       /\ ~Answered(c)
       /\ writes' = [writes EXCEPT ![i] = (@ \ {c}) \cup
                      {[c EXCEPT !.state = IF fails THEN "failed" ELSE "done"]}]
       /\ out' = IF fails THEN out
                 ELSE IF c.buf # -1 THEN Copied(c.offset, c.len)
                 ELSE Filled(c.offset, c.len,
                             IF c.sync # -1 \/ opt.allocated THEN "zero" ELSE "hole")
  /\ UNCHANGED <<opt, exited, content, next_offset, threadVars, queue, store, agenda,
                 reads, refs, zcap>>

Thread(t) ==
  \/ Fetch(t) \/ GetExtents(t) \/ DeferZero(t) \/ DoZero(t) \/ NewRead(t) \/ RangeDone(t)
  \/ Wait(t) \/ Store(t) \/ Read(t) \/ Drain(t)
  \/ Split(t) \/ Retain(t) \/ Free(t) \/ Shrink(t) \/ Write(t) \/ Zero(t) \/ Zeroes(t)
  \/ ReadReturns(t) \/ WriteReturns(t) \/ Await(t)
=============================================================================
