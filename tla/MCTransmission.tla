--------------------------- MODULE MCTransmission ---------------------------
(***************************************************************************)
(* Small instances of Transmission: the commands a program issues and the  *)
(* replies a server may give.                                              *)
(***************************************************************************)
EXTENDS Lifecycle, Dispatch

Template1(type, count, completion, chunk) ==
  [type |-> type, offset |-> 0, count |-> count, payload |-> FALSE,
   completion |-> completion, chunk |-> chunk]

\* A read with a completion callback and a write without.
ReadWrite ==
  {Template1("READ", 1, TRUE, FALSE), Template1("WRITE", 1, FALSE, FALSE)}

\* A write long enough to be interrupted in its header and in its payload.
LongWrites == {Template1("WRITE", 2, TRUE, FALSE)}
\* Such writes by nbd_pwrite too, which has no completion callback and waits.
WaitedWrites == LongWrites \cup {Template1("WRITE", 2, FALSE, FALSE)}

\* Reads of two bytes, with and without a chunk callback.
ChunkReads == {Template1("READ", 2, FALSE, TRUE)}
PlainReads == {Template1("READ", 2, FALSE, FALSE)}

\* Block status of all contexts, and of chosen ones: that request has a payload.
StatusQueries ==
  {[Template1("BLOCK_STATUS", 2, FALSE, TRUE) EXCEPT !.payload = filtered] :
     filtered \in BOOLEAN}

Shape(magic, type, done, offset, length) ==
  [magic |-> magic, cookie |-> NULL, type |-> type, done |-> done,
   offset |-> offset, echo |-> TRUE, length |-> length, span |-> 0,
   msglen |-> 0, known |-> TRUE, error |-> NoErr]

SimpleOk(length) == Shape("simple", "NONE", TRUE, 0, length)
SimpleError == [Shape("simple", "NONE", TRUE, 0, 0) EXCEPT !.error = "EIO"]
SimpleReplies == {SimpleOk(0), SimpleOk(1), SimpleOk(2), SimpleError}
Acknowledgements == {SimpleOk(0)}

\* Chunks that a read of two bytes at offset 0 may meet: either half, the end
\* of the reply with and without data, a hole, and errors.
ReadChunks(magic) ==
  {Shape(magic, "OFFSET_DATA", FALSE, 0, 2),
   Shape(magic, "OFFSET_DATA", TRUE, 1, 2),
   [Shape(magic, "OFFSET_HOLE", TRUE, 0, 1) EXCEPT !.span = 2],
   [Shape(magic, "ERROR", TRUE, 0, 3) EXCEPT !.error = "EIO", !.msglen = 1]}

\* Chunks with something wrong about them, and with offsets.
OddChunks(magic) ==
  {Shape(magic, "UNKNOWN", FALSE, 0, 1), Shape(magic, "NONE", TRUE, 0, 0),
   Shape(magic, "NONE", TRUE, 0, 1), Shape(magic, "ERROR", FALSE, 0, 1),
   Shape(magic, "OFFSET_DATA", FALSE, 1, 3),
   Shape(magic, "NONE", TRUE, 0, 6),
   [Shape(magic, "OFFSET_HOLE", FALSE, 1, 1) EXCEPT !.span = 2],
   [Shape(magic, "ERROR_OFFSET", TRUE, 1, 3) EXCEPT !.error = "EIO"]}

StatusChunks(magic, type) ==
  {[Shape(magic, type, FALSE, 0, 3) EXCEPT !.span = 1],
   [Shape(magic, type, TRUE, 0, 5) EXCEPT !.span = 2],
   [Shape(magic, type, TRUE, 0, 5) EXCEPT !.span = 1],
   Shape(magic, type, TRUE, 0, 2)}

StructuredReads == ReadChunks("structured")
OddReads == OddChunks("structured") \cup {SimpleOk(2), SimpleError}
AnyReads == StructuredReads \cup OddReads
ExtendedStatus == StatusChunks("extended", "BLOCK_STATUS_EXT") \cup
                  {[Shape("extended", "BLOCK_STATUS", TRUE, 0, 3)
                      EXCEPT !.known = FALSE],
                   [Shape("extended", "NONE", TRUE, 0, 0)
                      EXCEPT !.echo = FALSE]}

(***************************************************************************)
(* Every step of Transmission is an event that the state accepts          *)
(* or a path of handlers of the state machine as StateGraph and Dispatch   *)
(* have them from the generated code: the hand-written handlers and the    *)
(* tables the generator makes of the state machine agree.                  *)
(***************************************************************************)
Machine == INSTANCE StateMachine WITH Onward <- GoesFar, Halting <- StaysFar

\* Every handler goes, waits and fails where lib/states.c says, and only an event
\* that lib/states-run.c accepts starts the machine.
ImplementsMachine == Machine!Spec
=============================================================================
