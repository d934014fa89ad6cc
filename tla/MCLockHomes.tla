----------------------------- MODULE MCLockHomes -----------------------------
(* Constants for model-checking LockHomes on small instances. *)
EXTENDS LockHomes, TLC

\* p1 and p2 on one home, p3 on another; or each on its own.
TwoHomes == [p \in Pids |-> IF ToString(p) = "p3" THEN 1 ELSE 0]
OneHome == [p \in Pids |-> 0]
OwnHomes == [p \in Pids |-> IF ToString(p) = "p1" THEN 0 ELSE 1]

TreeKeys == {"a", "a.x", "b"}
TreePrefix == {<<k, k>> : k \in TreeKeys} \cup {<<"a", "a.x">>}
OneKeySet == {{"a"}}
FlatKeySets == {{"a"}, {"b"}}
TreeKeySets == {{"a"}, {"a.x"}}

MCSymmetry == Permutations({p \in Pids : HomeOf[p] = 0})
=============================================================================
