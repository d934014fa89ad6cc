---------------------------- MODULE MCLockInherit ----------------------------
(* Constants for model-checking LockInherit on small instances. *)
EXTENDS LockInherit, TLC

\* p3 alone on home 1, the rest on home 0.
TwoHomes == [p \in Pids |-> IF ToString(p) = "p3" THEN 1 ELSE 0]

\* One key is enough for a path of two edges that no edge cuts short: a shared
\* request waits for an exclusive one that waits for a shared hold.
OneKey == {"a"}
OnePrefix == {<<"a", "a">>}
OneKeySets == {{"a"}}

\* Processes of one home are interchangeable.
MCSymmetry == Permutations({p \in Pids : HomeOf[p] = 0})
=============================================================================
