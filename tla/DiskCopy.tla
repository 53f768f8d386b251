------------------------------ MODULE DiskCopy ------------------------------
(***************************************************************************)
(* What a copy promises: blocks of the destination take the contents of    *)
(* the source, in any order and grouping; a block that is right stays so;  *)
(* and success is reported only when every block is right.                 *)
(***************************************************************************)
VARIABLES
  source,   \* the contents to copy, a function from blocks
  disk,     \* what the destination reads as
  ended     \* "no", "success", "failure" or "abort"

Right == {b \in DOMAIN source : disk[b] = source[b]}

CInit == ended = "no"

CopyBlocks ==
  /\ ended = "no"
  /\ \A b \in DOMAIN source : disk'[b] \in {disk[b], source[b]}
  /\ UNCHANGED <<source, ended>>

End ==
  /\ ended = "no" /\ ended' \in {"success", "failure", "abort"}
  /\ ended' = "success" => Right = DOMAIN source
  /\ UNCHANGED <<source, disk>>

CNext == CopyBlocks \/ End

CSpec == CInit /\ [][CNext]_<<source, disk, ended>>
=============================================================================
