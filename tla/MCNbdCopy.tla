----------------------------- MODULE MCNbdCopy -----------------------------
(* Instances of NbdCopy for model checking. *)
EXTENDS NbdCopy

\* Ends of a copy
End0 == [kind |-> "nbd", size |-> 0, preferred |-> 1, multi_conn |-> TRUE,
         base_allocation |-> TRUE, can_zero |-> TRUE, read_only |-> FALSE,
         subprocess |-> FALSE, kernel |-> {}, sector |-> 1, handles |-> 0,
         errors |-> {FALSE}]
Nbd(n)      == [End0 EXCEPT !.size = n]
NoZero(n)   == [End0 EXCEPT !.size = n, !.can_zero = FALSE]
File(n, k)  == [End0 EXCEPT !.kind = "file", !.size = n, !.kernel = k]
Block(n, k) == [End0 EXCEPT !.kind = "block", !.size = n, !.kernel = k, !.sector = 2]
Pipe        == [End0 EXCEPT !.kind = "pipe", !.size = -1]
Null        == [End0 EXCEPT !.kind = "null", !.size = NullSize]

Line0 == [src |-> End0, dst |-> End0, running |-> FALSE, connections |-> 2, threads |-> 0,
          requests |-> 2, request_size |-> 2, queue_size |-> 2, sparse_size |-> 1,
          synchronous |-> FALSE, allocated |-> FALSE, target_is_zero |-> FALSE,
          extents |-> TRUE]
Line(src, dst) == [Line0 EXCEPT !.src = src, !.dst = dst]

MCWorkers == 0..1
ToDisk(s) == [b \in 0 .. (Len(s) - 1) |-> s[b + 1]]
D1 == ToDisk(<<"data", "zero", "zero", "data", "zero">>)
D2 == ToDisk(<<"zero", "zero", "data", "data", "zero">>)
D3 == ToDisk(<<"zero", "data", "zero">>)
MCDisks == {D1, D2, D3}

\* Two workers between two NBD servers, every piece of which may be reordered
Threaded == {Line(Nbd(5), Nbd(5))}

\* The other backends and options, on the small disk
Kernels == {{}, {"punch"}, {"range"}, {"punch", "fallocate"}, {"zeroout"}}
Failing(n) == [Nbd(n) EXCEPT !.errors = BOOLEAN]
FailingFile == [File(3, {"punch"}) EXCEPT !.errors = BOOLEAN]
FailingPipe == [Pipe EXCEPT !.errors = BOOLEAN]
Other ==
  {Line(src, dst) : src \in {Nbd(3), File(3, {})},
                    dst \in {[NoZero(3) EXCEPT !.multi_conn = FALSE, !.errors = BOOLEAN], Null}
                          \cup {File(0, {}), Block(4, {"punch"}), Block(4, {"zeroout"})}}
  \cup {[Line(src, dst) EXCEPT !.synchronous = s] :
          src \in {Failing(3), FailingFile},
          dst \in {Failing(3), [FailingFile EXCEPT !.kind = "block"]}, s \in BOOLEAN}
  \cup {Line(FailingPipe, Failing(3)), Line(Nbd(3), Nbd(2)),
        Line(Nbd(3), [Nbd(3) EXCEPT !.read_only = TRUE]),
        Line(Pipe, Nbd(3)), Line(Pipe, Nbd(2)), Line(Pipe, File(0, {})), Line(Nbd(3), Pipe)}
  \cup {[Line(File(3, {}), Block(4, k)) EXCEPT !.allocated = a, !.synchronous = s] :
          k \in Kernels, a \in BOOLEAN, s \in BOOLEAN}
  \cup {[Line(Nbd(3), Nbd(3)) EXCEPT !.target_is_zero = z, !.extents = e,
                                      !.sparse_size = p, !.allocated = a] :
          z \in BOOLEAN, e \in BOOLEAN, p \in {0, 2}, a \in BOOLEAN}

MCLines == Threaded \cup Other

\* Two workers, and a destination that cannot zero
UnzeroableLines == {Line(Nbd(5), NoZero(5))}
=============================================================================
