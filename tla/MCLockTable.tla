----------------------------- MODULE MCLockTable -----------------------------
(* Constants for model-checking LockTable on small instances. *)
EXTENDS LockTable, TLC

\* One home for all, and two homes: p3 alone on home 1.
OneHome == [p \in Pids |-> 0]
TwoHomes == [p \in Pids |-> IF ToString(p) = "p3" THEN 1 ELSE 0]

\* A key, its child and a sibling tree.
TreeKeys == {"a", "a.x", "b"}
TreePrefix == {<<k, k>> : k \in TreeKeys} \cup {<<"a", "a.x">>}
FlatKeySets == {{"a"}, {"b"}}
PairKeySets == {{"a"}, {"a.x"}, {"a.x", "b"}}

\* Processes of one home are interchangeable.
MCSymmetry == Permutations({p \in Pids : HomeOf[p] = 0})
=============================================================================
