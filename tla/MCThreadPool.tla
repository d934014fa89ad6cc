---------------------------- MODULE MCThreadPool ----------------------------
(* Constants for model-checking ThreadPool on small instances. *)
EXTENDS ThreadPool, TLC

Load(first, second, n) ==
    [fans |-> [c \in Callers |-> IF ToString(c) = "c1" THEN first ELSE second], spurious |-> n]

\* Two callers at once; one that fans out again, and wakes the whole pool.
MostLoads == {Load(<<2>>, <<2>>, 0), Load(<<3, 2>>, << >>, 1)}
=============================================================================
