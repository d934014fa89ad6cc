--------------------------- MODULE MCClusterShard ---------------------------
(* Constants for model-checking ClusterShard on small instances. *)
EXTENDS ClusterShard, TLC

Plan(first, second, dials, frail) ==
    [writes |-> 1 :> first @@ 2 :> second, dials |-> dials, frail |-> frail]

\* 2 has dialed 3.  In turn: 1 and 3 dial each other; the same, and one of the two
\* connections fails; both write, and 3 dials 1; both write, 2 and 3 may be cut off,
\* and 2 dials again, before it or after; the same, and 2 alone writes, more often.
Mutual == {<<1, 3, 1>>, <<3, 1, 1>>}
All == Mutual \cup {<<2, 3, 1>>, <<2, 3, 2>>}
Joins == {Plan(2, 0, Mutual, {}),
          Plan(1, 0, Mutual, {<<1, 3, 1>>}),
          Plan(2, 1, {<<3, 1, 1>>}, {}),
          Plan(1, 1, {<<3, 1, 1>>, <<2, 3, 2>>}, {<<2, 3, 1>>}),
          Plan(0, 2, {<<2, 3, 2>>}, {<<2, 3, 1>>})}
ByTwo == {<<2, 3, 1>>}
SecondAhead == 1 :> 0 @@ 2 :> 1 @@ 3 :> 0

OneDial == {<<1, 2, 1>>}
OneEach == {Plan(1, 1, OneDial, {})}
Even == 1 :> 0 @@ 2 :> 0
=============================================================================
