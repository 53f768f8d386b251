----------------------------- MODULE MCApiCalls -----------------------------
(* ApiCalls for TLC: two threads that may swap their names, and a second   *)
(* debug callback to replace the first.                                    *)
EXTENDS ApiCalls, TLC

MCClosures == {<<"fn", 1>>, <<"completion", 1>>, <<"debug", 1>>, <<"debug", 2>>}
Symmetry == Permutations(Threads)
=============================================================================
