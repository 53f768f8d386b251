------------------------------ MODULE Extents ------------------------------
(***************************************************************************)
(* From a server's block status descriptors, or a file's holes, to the     *)
(* answer "this request reads as zero" (generator/states-reply-chunk.c,    *)
(* copy/nbd-ops.c, copy/file-ops.c, copy/multi-thread-copying.c): pure     *)
(* algorithms on lists of extents, with their asserts as results.          *)
(* A descriptor is [length, zero, big]; big: its flags need more than 32   *)
(* bits.  An extent is [offset, length, zero].                             *)
(***************************************************************************)
EXTENDS Integers, Sequences, SequencesExt, FiniteSetsExt

Extent(offset, length, zero) == [offset |-> offset, length |-> length, zero |-> zero]
ExtentEnd(e) == e.offset + e.length

-----------------------------------------------------------------------------
(* RECV_BS_ENTRIES: the descriptors as the callback sees them.  limits has  *)
(* the largest length of a 32 bit and of a 64 bit callback, and how far     *)
(* below it a longer one is cut.                                            *)

BsCooked(entries, cap, wide, limits) ==
  LET step(r, e) ==
        LET top  == IF wide THEN limits.wide ELSE limits.narrow
            huge == e.length > top
            len  == IF huge THEN top + 1 - limits.below ELSE e.length
            over == len > cap - r.total
            fits == IF over THEN cap - r.total ELSE len
            narrow == e.big /\ ~wide
            skip == r.list # <<>> /\ (narrow \/ fits = 0)
        IN  IF r.stop THEN r
            ELSE IF r.list # <<>> /\ narrow THEN [r EXCEPT !.stop = TRUE]
            ELSE [list  |-> IF skip THEN r.list ELSE Append(r.list, [e EXCEPT !.length = fits]),
                  total |-> r.total + fits,
                  error |-> r.error \/ over \/ (~skip /\ (narrow \/ fits = 0)),
                  stop  |-> huge \/ over \/ narrow \/ fits = 0]
  IN  FoldLeft(step, [list |-> <<>>, total |-> 0, error |-> FALSE, stop |-> FALSE], entries)

-----------------------------------------------------------------------------
(* nbdcopy's list for a work range *)

(* add_extent, the callback: consecutive extents from offset on *)
add_extent(offset, entries) ==
  LET step(r, e) == [list |-> Append(r.list, Extent(r.offset, e.length, e.zero)),
                     offset |-> r.offset + e.length]
  IN  FoldLeft(step, [list |-> <<>>, offset |-> offset], entries).list

\* An extent that reaches beyond the range is cut
CutTo(e, end) == IF ExtentEnd(e) > end THEN [e EXCEPT !.length = end - e.offset] ELSE e

(* The loop over the extents of one reply; ok: its asserts hold *)
CopyExtents(exts, offset, end) ==
  LET step(r, e) ==
        LET cut == CutTo(e, end)
        IN  [ok   |-> r.ok /\ e.offset = r.offset,
             list |-> IF cut.length = 0 THEN r.list ELSE Append(r.list, cut),
             offset |-> r.offset + cut.length]
  IN  FoldLeft(step, [ok |-> TRUE, list |-> <<>>, offset |-> offset], exts)

(* nbd_ops_get_extents: reply(o) is what the callback is given for a request *)
(* from o on.  exit: the server failed or made no progress.                  *)
nbd_ops_get_extents(reply, offset, end) ==
  LET from[o \in offset..end] ==
        LET answer == reply[o]
            one == CopyExtents(add_extent(o, answer.list), o, end)
            rest == from[one.offset]
        IN  IF o = end THEN [list |-> <<>>, ok |-> TRUE, exit |-> FALSE]
            ELSE IF answer.error \/ one.offset = o \/ ~one.ok
            THEN [list |-> one.list, ok |-> one.ok, exit |-> TRUE]
            ELSE [list |-> one.list \o rest.list, ok |-> rest.ok, exit |-> rest.exit]
  IN  from[offset]

(* lseek on a file of size blocks of which those in data are allocated *)
SEEK_DATA(data, size, offset) == Min({size + 1} \cup {b \in data : b >= offset})
SEEK_HOLE(data, size, offset) == Min({b \in offset..size : b \notin data})

(* file_get_extents: holes and data in turn; the last one is cut *)
file_get_extents(data, size, offset, end) ==
  LET from[o \in offset .. (size + 1)] ==
        LET seek  == SEEK_DATA(data, size, o)
            begin == IF seek > size THEN end ELSE seek    \* ENXIO
            hole  == IF begin > o THEN <<Extent(o, begin - o, TRUE)>> ELSE <<>>
            stop  == SEEK_HOLE(data, size, begin)
        IN  IF begin >= end THEN hole
            ELSE hole \o <<Extent(begin, stop - begin, FALSE)>>
                 \o (IF stop < end THEN from[stop] ELSE <<>>)
      all == from[offset]
  IN  [all EXCEPT ![Len(all)] = CutTo(@, end)]

(* default_get_extents *)
default_get_extents(offset, end) == <<Extent(offset, end - offset, FALSE)>>

-----------------------------------------------------------------------------
(* only_zeroes *)

\* A plausible slip: the search starts at the extent after the one it should.
SearchFromNext(exts, i, offset) ==
  Min({Len(exts), 1 + Max({j \in i..Len(exts) : \A k \in (i + 1)..j : exts[k].offset <= offset})})

\* *i: the last extent in a row that starts at or before offset
LastBefore(exts, i, offset) ==
  Max({j \in i..Len(exts) : \A k \in (i + 1)..j : exts[k].offset <= offset})

(* The answer, the new *i, and whether the asserts hold *)
only_zeroes(exts, i, offset, len) ==
  LET last == LastBefore(exts, i, offset)
      overlap == {j \in last..Len(exts) : \A k \in last..j : exts[k].offset < offset + len}
      seen == {j \in overlap : \A k \in last .. (j - 1) : exts[k].zero}
  IN  [i |-> last,
       zero |-> \A j \in overlap : exts[j].zero,
       ok |-> /\ i <= Len(exts) /\ exts[i].offset <= offset
              /\ exts[last].offset <= offset
              /\ last = Len(exts) \/ exts[last + 1].offset > offset
              /\ \A j \in seen : ExtentEnd(exts[j]) > offset]

(* The calls worker_thread makes over a work range, one per request *)
ZeroRequests(exts, offset, end, request) ==
  LET from[k \in 0 .. ((end - offset) \div request), i \in 1..Len(exts)] ==
        LET o == offset + k * request
            len == Min({request, end - o})
            r == only_zeroes(exts, i, o, len)
        IN  IF o >= end THEN <<>>
            ELSE <<[offset |-> o, len |-> len, zero |-> r.zero, ok |-> r.ok]>>
                 \o (IF o + len < end THEN from[k + 1, r.i] ELSE <<>>)
  IN  from[0, 1]
=============================================================================
