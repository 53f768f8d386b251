------------------------------ MODULE NbdCopy ------------------------------
(***************************************************************************)
(* nbdcopy: main, the worker threads or the synchronous loop, and the      *)
(* servers at both ends.                                                   *)
(***************************************************************************)
EXTENDS SynchCopy, Extents

CONSTANT
  Disks       \* the source disks considered: functions 0..n-1 -> {"zero", "data"}

Init ==
  /\ opt \in CommandLines /\ exited = "no"
  /\ content \in Disks
  /\ opt.src.size \in {-1, Size}
  /\ out = [b \in DOMAIN content |-> IF opt.target_is_zero THEN "hole" ELSE "old"]
  /\ next_offset = 0
  /\ pc = [w \in Workers |-> "unborn"]
  /\ offset = [w \in Workers |-> 0] /\ count = [w \in Workers |-> 0]
  /\ zeros = [w \in Workers |-> {}] /\ zeroing = [w \in Workers |-> -1]
  /\ queue = [w \in Workers |-> 0] /\ store = [w \in Workers |-> NoStore]
  /\ agenda = [w \in Workers |-> <<>>]
  /\ reads = [w \in Workers |-> {}] /\ writes = [w \in Workers |-> {}]
  /\ refs = [b \in DOMAIN content |-> 0]
  /\ zcap = ZeroCaps(opt.dst)

(* main up to the copy: settings, truncation, and the threads are created *)
Main ==
  /\ Setup
  /\ out' = IF opt.dst.kind = "file" /\ opt'.running
            THEN [b \in DOMAIN out |-> "hole"] ELSE out
  /\ pc' = IF ~opt'.running THEN pc
           ELSE [w \in Workers |-> IF w >= opt'.threads THEN "unborn"
                                   ELSE IF opt'.synchronous THEN "synch" ELSE "fetch"]
  /\ UNCHANGED <<content, next_offset, offset, count, zeros, zeroing, queue, store, agenda,
                 reads, writes, refs, zcap>>

(* All threads joined, main shuts down both ends; a handle may fail to. *)
Finish ==
  /\ Live /\ \A w \in Workers : pc[w] \in {"done", "unborn"} /\ Idle(w)
  /\ exited' \in {"success"} \cup (IF TRUE \in opt.src.errors \cup opt.dst.errors THEN {"failure"} ELSE {})
  /\ UNCHANGED <<opt, content, out, next_offset, threadVars, queue, store, agenda, reads,
                 writes, refs, zcap>>

Ended == exited # "no" /\ UNCHANGED vars

Next ==
  \/ Main \/ Finish \/ Ended \/ Synch
  \/ \E t \in Workers : Thread(t) \/ ServeRead(t) \/ ServeWrite(t)

Spec == Init /\ [][Next]_vars

(* All that is assumed of the scheduler and the servers: while some thread   *)
(* can run or some command is unanswered, something happens.                 *)
FairSpec == Spec /\ WF_vars(Next)

-----------------------------------------------------------------------------
(* Properties *)

Commands(side) == UNION {side[w] : w \in Workers}
Tasks == UNION {{<<t, k>> : k \in DOMAIN agenda[t]} : t \in Workers}
task(p) == agenda[p[1]][p[2]]
Covers(c, b) == b \in Blocks(c.offset, c.len)
\* The blocks a worker has queued: reads in flight, and the data of reads that is still
\* to be written or that became zeroes and is still to be taken off.
Held(w) ==
  LET queued == {c \in Commands(reads) \cup Commands(writes) : c.worker = w /\ c.buf # -1}
                \cup {task(p).cmd : p \in {q \in Tasks : /\ task(q).op \in {"split", "write", "shrink"}
                                                       /\ task(q).cmd.worker = w}}
  IN  Cardinality({b \in DOMAIN content : \E c \in queued : Covers(c, b)})
      + (IF pc[w] = "read" THEN RequestLen(w) ELSE 0)

(* worker->queue_size is exactly what the worker has queued, across the       *)
(* splitting of reads into writes and zeroing in finished_read and the        *)
(* completions in finished_command: it neither leaks, which would stop the    *)
(* worker for good in wait_for_request_slots, nor falls below zero.           *)
QueueExact ==
  \A w \in Workers :
    LET pending == {t \in Workers : store[t].worker = w}
    IN  IF pending = {} THEN queue[w] = Held(w)
        ELSE \A t \in pending : store[t].value = Held(w)

\* What holds a reference to the buffer of the read at b
Holders(b) ==
  LET count0(op) == Cardinality({p \in Tasks : task(p).op = op /\ task(p).cmd.buf = b})
      with(S) == Cardinality({c \in S : c.buf = b})
  IN  with(Commands(reads)) + with(Commands(writes))
      + count0("write") + count0("free") - count0("retain")
      + Cardinality({w \in Workers : pc[w] \in {"wait", "waitpoll", "read"} /\ offset[w] = b})

(* buffer->refs counts the commands that use the buffer, the read that was    *)
(* split included: it is freed when the last of them is, and not before.      *)
RefsExact == \A b \in DOMAIN refs : refs[b] = Holders(b)

\* Where a block is that is still to be copied
Places(b) ==
  (IF b >= next_offset THEN 1 ELSE 0)
  + Cardinality({w \in Workers : b \in Blocks(offset[w], count[w])})
  + Cardinality({w \in Workers : zeroing[w] # -1 /\ b \in zeroing[w] .. (offset[w] - 1)})
  + Cardinality({c \in Commands(reads) \cup Commands(writes) : Covers(c, b)})
  + Cardinality({p \in Tasks : /\ task(p).op \in {"split", "write", "zero", "zeroes"}
                               /\ Covers(task(p).cmd, b)})

Reads(b) == IF out[b] = "hole" THEN "zero" ELSE out[b]

(* Work ranges, requests and the pieces of a split read share the disk out:   *)
(* a block is waiting in one place, never in two, and one that is waiting     *)
(* nowhere has arrived.                                                       *)
EachBlockOnce ==
  (opt.running /\ ~opt.synchronous) =>
    \A b \in DOMAIN content :
      /\ Places(b) <= 1
      /\ Places(b) = 0 => opt.dst.kind = "null" \/ Reads(b) = content[b]

(* The asserts of multi_thread_copying, start_multi_conn, create_subcommand,  *)
(* increase_queue_size and decrease_queue_size, and the indexing of the       *)
(* handles of both ends by the number of the worker.                          *)
CopyAsserts ==
  /\ exited # "abort"
  /\ opt.running =>
       /\ opt.threads > 0 /\ opt.threads = opt.connections
       /\ ~opt.synchronous => opt.src.size # -1
       /\ \A w \in 0 .. (opt.threads - 1), rw \in {opt.src, opt.dst} :
            rw.kind = "nbd" => w < rw.handles
  /\ \A t \in Workers : Head0(t, "shrink") =>
       queue[Head(agenda[t]).cmd.worker] >= Head(agenda[t]).cmd.len
  /\ \A t \in Workers : pc[t] = "read" /\ store[t] # NoStore =>
       store[t].value - RequestLen(t) < opt.queue_size
  /\ \A t \in Workers : Head0(t, "split") =>
       LET k == Head(agenda[t])
           end == k.cmd.offset + k.cmd.len
       IN  RunEnd(k.cmd.offset, end, k.zero) \in k.cmd.offset .. end

\* What the destination reads as; null: keeps nothing and a file is about to be truncated
disk == [b \in DOMAIN out |->
           IF opt.dst.kind = "null" THEN content[b]
           ELSE IF opt.dst.kind = "file" /\ ~opt.running THEN "zero" ELSE Reads(b)]

DC == INSTANCE DiskCopy WITH source <- content, ended <- exited

(* However the work is shared, split, reordered and retried in other ways,    *)
(* nbdcopy copies: a block that is right is not overwritten with anything     *)
(* else, and main exits with success only when the whole disk is right.       *)
ImplementsDiskCopy == DC!CSpec

(* Every copy ends: no worker waits in poll for a slot or for a reply that    *)
(* nobody will give it.                                                       *)
CopyEnds == <>(exited # "no")

\* A server's answer from o on: k descriptors at most, that end at the boundaries, the
\* last of them possibly beyond the end of the request
Descriptors(d, boundaries, k, o, end) ==
  LET stops == {b \in boundaries \cup {Cardinality(DOMAIN d)} : b > o}
      ends == SortSeq(SetToSeq({b \in stops : \A c \in stops : c < b => c < end}), <)
      from(i) == IF i = 1 THEN o ELSE ends[i - 1]
  IN  [i \in 1 .. Min({k, Len(ends)}) |->
         [length |-> ends[i] - from(i), big |-> FALSE,
          zero |-> \A b \in from(i) .. (ends[i] - 1) : d[b] = "zero"]]

InZeroExtent(exts, b) ==
  \E i \in DOMAIN exts : exts[i].zero /\ b \in Blocks(exts[i].offset, exts[i].length)

\* The extents cover the range without gaps or overlaps, the zero ones read as zero, and
\* each request of the worker is told zero exactly if all its blocks are in zero extents.
RightExtents(d, exts, o, end, request) ==
  /\ exts # <<>> /\ exts[1].offset = o /\ ExtentEnd(Last(exts)) = end
  /\ \A i \in 1 .. (Len(exts) - 1) : exts[i + 1].offset = ExtentEnd(exts[i])
  /\ \A b \in o .. (end - 1) : InZeroExtent(exts, b) => d[b] = "zero"
  /\ \A r \in Range(ZeroRequests(exts, o, end, request)) :
       /\ r.ok
       /\ r.zero <=> \A b \in Blocks(r.offset, r.len) : InZeroExtent(exts, b)

(* What the workers skip as zero is zero, and the asserts of only_zeroes and   *)
(* nbd_ops_get_extents hold: for every way a server divides the disk into      *)
(* descriptors and replies, long ones being cut by libnbd and by nbdcopy, and  *)
(* for every allocation of a file.                                             *)
ExtentsRight ==
  LET n == Size
      limits == [narrow |-> 2, wide |-> 3, below |-> 1]
      data == {b \in DOMAIN content : content[b] = "data"}
  IN  ~opt.running /\ exited = "no" =>
        \A boundaries \in SUBSET (1 .. (n - 1)), k \in 1..2, request \in 1..3,
           wide \in BOOLEAN :
          \A o \in 0 .. (n - 1) : \A end \in (o + 1)..n :
            LET nbd == nbd_ops_get_extents(
                         [p \in o..end |->
                            BsCooked(Descriptors(content, boundaries, k, p, end), n - p,
                                     wide, limits)],
                         o, end)
            IN  /\ nbd.ok /\ ~nbd.exit
                /\ RightExtents(content, nbd.list, o, end, request)
                /\ RightExtents(content, file_get_extents(data \cup boundaries, n, o, end),
                                o, end, request)
                /\ RightExtents(content, default_get_extents(o, end), o, end, request)

=============================================================================
