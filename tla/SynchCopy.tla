----------------------------- MODULE SynchCopy -----------------------------
(***************************************************************************)
(* Synchronous copying (copy/synch-copying.c): one thread, one request at  *)
(* a time, in order.  It runs as worker 0, which is then the only one.     *)
(***************************************************************************)
EXTENDS CopyThreads

synchUnchanged == <<opt, content, next_offset, zeroing, queue, store, agenda, reads, writes, refs>>

(* A source of unknown size: what each read returns is written, until one   *)
(* returns nothing.  Writing beyond the end of an NBD export fails.         *)
SynchStream ==
  /\ At(0, "synch") /\ opt.src.size = -1
  /\ \/ Exits(opt.src)
     \/ offset[0] < Size /\ Exits(opt.dst)
     \/ /\ IF offset[0] = Size
           THEN Goto(0, "done") /\ UNCHANGED <<out, offset, exited>>
           ELSE \E r \in 1 .. Min({opt.request_size, Size - offset[0]}) :
                  IF opt.dst.size # -1 /\ offset[0] + r > opt.dst.size
                  THEN exited' = "failure" /\ UNCHANGED <<out, offset, pc>>
                  ELSE /\ out' = IF opt.dst.kind = "null" THEN out ELSE Copied(offset[0], r)
                       /\ offset' = [offset EXCEPT ![0] = @ + r]
                       /\ UNCHANGED <<exited, pc>>
        /\ UNCHANGED <<synchUnchanged, count, zeros, zcap>>

(* The extents of the next request *)
SynchExtents ==
  /\ At(0, "synch") /\ opt.src.size # -1 /\ count[0] = 0
  /\ \/ offset[0] < Size /\ opt.extents /\ Exits(opt.src)
     \/ /\ IF offset[0] = Size
           THEN Goto(0, "done") /\ UNCHANGED <<count, zeros>>
           ELSE LET len == Min({opt.request_size, Size - offset[0]})
                IN  /\ count' = [count EXCEPT ![0] = len]
                    /\ \E z \in IF opt.extents THEN SUBSET ZeroBlocks(offset[0], len)
                                ELSE {{}} :
                         zeros' = [zeros EXCEPT ![0] = z]
                    /\ UNCHANGED pc
        /\ UNCHANGED <<synchUnchanged, exited, out, offset, zcap>>

\* synch_zero with a hole, then without one; [now, caps] after both, and what is left
SynchZeroTwice(len) ==
  LET aligned == Aligned(offset[0], len)
      hole == SynchZero(opt.dst.kernel, zcap, FALSE, aligned)
      full == SynchZero(opt.dst.kernel, hole.caps, TRUE, aligned)
  IN  IF opt.dst.kind \notin {"file", "block"}
      THEN Zeroed(TRUE, IF opt.dst.kind = "nbd" /\ opt.dst.can_zero THEN "hole" ELSE "zero", zcap)
      ELSE IF hole.ok THEN hole
      ELSE IF full.ok THEN full
      ELSE Zeroed(TRUE, "zero", full.caps)

(* One extent: zeroed or written with zeroes, or read and written.  A read   *)
(* that fails or comes short ("unexpected end of file") and a write or a     *)
(* zeroing that fails end the copy.                                          *)
SynchExtent ==
  /\ At(0, "synch") /\ opt.src.size # -1 /\ count[0] > 0
  /\ \/ offset[0] \notin zeros[0] /\ Exits(opt.src)
     \/ Exits(opt.dst)
     \/ /\ \E len \in 1..count[0] :
             LET z == SynchZeroTwice(len)
             IN  /\ \/ /\ Blocks(offset[0], len) \subseteq zeros[0]
                       /\ out' = IF opt.dst.kind = "null" THEN out
                                 ELSE Filled(offset[0], len, z.now)
                       /\ zcap' = z.caps
                    \/ /\ Blocks(offset[0], len) \cap zeros[0] = {}
                       /\ out' = IF opt.dst.kind = "null" THEN out
                                 ELSE Copied(offset[0], len)
                       /\ UNCHANGED zcap
                 /\ offset' = [offset EXCEPT ![0] = @ + len]
                 /\ count' = [count EXCEPT ![0] = @ - len]
        /\ UNCHANGED <<synchUnchanged, exited, pc, zeros>>

Synch == SynchStream \/ SynchExtents \/ SynchExtent
=============================================================================
