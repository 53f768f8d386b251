---------------------------- MODULE ExportInfo ----------------------------
(***************************************************************************)
(* What a handle knows of its export (lib/flags.c), as a record, and the   *)
(* functions that reset, check and fill it.  Sizes in bytes are scaled     *)
(* down by the constants; eflags is the set of flags, {} for 0; the export *)
(* size is represented by the export (and the kind of session) it is the   *)
(* size of, see Negotiation.                                               *)
(***************************************************************************)
EXTENDS Integers, FiniteSets, FiniteSetsExt

CONSTANTS
  SmallestCap,         \* 64K: a larger minimum block size is ignored
  PreferredFloor,      \* 512: a smaller preferred block size is ignored
  PayloadFloor,        \* 1M: payloads this large are always allowed
  PayloadDefault,      \* 32M: assumed when the server says nothing
  MAX_REQUEST_SIZE,    \* 64M: what the client will allocate
  NoLimit              \* 0xffffffff

ASSUME SizesOrdered ==
  /\ {SmallestCap, PreferredFloor, PayloadFloor, PayloadDefault,
      MAX_REQUEST_SIZE, NoLimit} \subseteq Nat \ {0}
  /\ PreferredFloor <= SmallestCap /\ SmallestCap <= PayloadFloor
  /\ PayloadFloor <= PayloadDefault /\ PayloadDefault <= MAX_REQUEST_SIZE
  /\ MAX_REQUEST_SIZE < NoLimit

NoSize == [export |-> -1, tls |-> FALSE]

(* nbd_internal_reset_size_and_flags *)
ResetSizeAndFlags ==
  [exportsize |-> NoSize, eflags |-> {}, block_minimum |-> 0, block_preferred |-> 0,
   block_maximum |-> 0, payload_maximum |-> 0]

\* A plausible slip: the server's word is taken for every flag.
EveryFlag(eflags, structured_replies, extended_headers) == eflags

\* The flags kept of those the server claims.
Supported(eflags, structured_replies, extended_headers) ==
  eflags \ ((IF structured_replies THEN {} ELSE {"df"})
            \cup (IF extended_headers THEN {} ELSE {"block_status_payload"})
            \cup (IF "write_zeroes" \in eflags THEN {} ELSE {"fast_zero"}))

(* nbd_internal_set_size_and_flags, once eflags # 0 *)
SetSizeAndFlags(info, size, eflags, structured_replies, extended_headers) ==
  [info EXCEPT !.exportsize = size,
               !.eflags = Supported(eflags, structured_replies, extended_headers)]

PowerOf2(n) == \E k \in 0..n : 2^k = n

ProperBlockSize(min, pref, max) ==
  /\ min > 0 /\ min <= SmallestCap /\ min <= pref
  /\ pref >= PreferredFloor /\ pref <= max
  /\ PowerOf2(min) /\ PowerOf2(pref)
  /\ max = NoLimit \/ max % min = 0

(* nbd_internal_set_block_size: improper constraints are ignored *)
SetBlockSize(info, b) ==
  IF ProperBlockSize(b.min, b.pref, b.max)
  THEN [info EXCEPT !.block_minimum = b.min, !.block_preferred = b.pref,
                    !.block_maximum = b.max]
  ELSE info

\* A plausible slip: the server's maximum is not capped.
Uncapped(block_maximum) == Max({PayloadFloor, block_maximum})

Capped(block_maximum) == Min({MAX_REQUEST_SIZE, Max({PayloadFloor, block_maximum})})

(* nbd_internal_set_payload *)
SetPayload(info) ==
  [info EXCEPT !.payload_maximum =
     IF info.block_maximum # 0 THEN Capped(info.block_maximum) ELSE PayloadDefault]

=============================================================================
