-------------------------- MODULE LockInheritProofs --------------------------
(***************************************************************************)
(* Proofs about LockInherit, for any processes, priorities and bound on    *)
(* the paths they travel: the table knows every base priority, every       *)
(* record's level is what the whole graph gives, and a scheduler with no   *)
(* note on its way uses it.                                                *)
(*                                                                         *)
(* BaseIs is BasesMirrored with the domain of base; it is inductive by     *)
(* itself, because every operation builds base' over the records it        *)
(* leaves, and only Renice changes a priority.  LevelInv rests on it and   *)
(* on what LockTableProofs shows of the queue.  Ball is defined by layers; *)
(* that it is what walks of at most Cap edges reach is shown by induction, *)
(* as the least natural number at which it would fail.  From there on the  *)
(* argument is about walks: one that ends outside the balls of relevel_all *)
(* meets no edge that the operation moves, and so is a walk before exactly *)
(* if it is one after.                                                     *)
(***************************************************************************)
EXTENDS LockInherit, LockTableProofs, TLAPS

BaseIs ==
    /\ base = [p \in DOMAIN recs |-> priority[p]]
    /\ priority \in [Pids -> Priorities]

\* Initially there is no record.
LEMMA InitBase == InheritInit => BaseIs
BY DEF InheritInit, Init, Empty, BaseIs

\* An operation that keeps the priorities and builds base' over the records.
LEMMA KeepsBase ==
  ASSUME BaseIs, KeepBase, UNCHANGED priority
  PROVE  BaseIs'
<1>1. base' = [p \in DOMAIN recs' |-> IF p \in DOMAIN recs THEN base[p] ELSE priority[p]]
  BY DEF KeepBase, Kept
<1>2. base' = [p \in DOMAIN recs' |-> priority'[p]]
  BY <1>1 DEF BaseIs
<1>. QED
  BY <1>2 DEF BaseIs

\* A step that leaves the records, the bases and the priorities alone.
LEMMA StuttersBase ==
  ASSUME BaseIs, UNCHANGED <<recs, base, priority>>
  PROVE  BaseIs'
BY DEF BaseIs

\* A change of priority: the table is told of it if it has a record.
LEMMA ReniceBase ==
  ASSUME BaseIs, NEW p \in Pids, NEW v \in Priorities, Renice(p, v)
  PROVE  BaseIs'
<1>1. priority' = [priority EXCEPT ![p] = v] /\ recs' = recs
  BY DEF Renice, vars
<1>2. base' = IF p \in DOMAIN recs THEN [base EXCEPT ![p] = v] ELSE base
  BY DEF Renice, levels
<1>3. base' = [q \in DOMAIN recs |-> priority'[q]]
  BY <1>1, <1>2 DEF BaseIs
<1>. QED
  BY <1>1, <1>3 DEF BaseIs

\* Every operation keeps BaseIs.
LEMMA NextBase == BaseIs /\ [InheritNext]_ivars => BaseIs'
<1>. SUFFICES ASSUME BaseIs, [InheritNext]_ivars PROVE BaseIs'
  OBVIOUS
<1>1. ASSUME NEW prio \in BOOLEAN, AttachPrioHome(prio) PROVE BaseIs'
  BY <1>1, KeepsBase DEF AttachPrioHome
<1>2. ASSUME NEW h \in homes, DetachPrioHome(h) PROVE BaseIs'
  BY <1>2, KeepsBase DEF DetachPrioHome
<1>3. ASSUME NEW p \in Pids, NEW r \in Requests, TryAcquireHold(p, r) PROVE BaseIs'
  BY <1>3, KeepsBase DEF TryAcquireHold, NoRelevel, homeSide
<1>4. ASSUME NEW p \in Pids, NEW r \in Requests, BlockRequest(p, r) PROVE BaseIs'
  <2>1. KeepBase /\ UNCHANGED priority
    BY <1>4 DEF BlockRequest, Relevel, NoRelevel, homeSide
  <2>. QED
    BY <2>1, KeepsBase
<1>5. ASSUME NEW p \in Pids, ResumeWaiter(p) PROVE BaseIs'
  BY <1>5, KeepsBase DEF ResumeWaiter, NoRelevel, homeSide
<1>6. ASSUME NEW p \in Pids, CancelWait(p) PROVE BaseIs'
  BY <1>6, KeepsBase DEF CancelWait, Relevel
<1>7. ASSUME NEW p \in Pids, ApplyRelevel(p) PROVE BaseIs'
  BY <1>7, StuttersBase DEF ApplyRelevel, vars
<1>8. ASSUME NEW p \in Pids, EndIdle(p) PROVE BaseIs'
  BY <1>8, StuttersBase DEF EndIdle, vars, levels
<1>9. ASSUME NEW p \in Pids, NEW i \in HoldIds(recs, p), StartHold(p, i) PROVE BaseIs'
  BY <1>9, KeepsBase DEF StartHold, NoRelevel, homeSide
<1>10. ASSUME NEW p \in Pids, NEW i \in HoldIds(recs, p), ReleaseHold(p, i) PROVE BaseIs'
  BY <1>10, KeepsBase DEF ReleaseHold, Relevel
<1>11. ASSUME NEW p \in Pids, NEW abandon \in BOOLEAN, EndProcess(p, abandon) PROVE BaseIs'
  BY <1>11, KeepsBase DEF EndProcess, RelevelEnded
<1>12. ASSUME NEW p \in Pids, NEW v \in Priorities, Renice(p, v) PROVE BaseIs'
  BY <1>12, ReniceBase
<1>13. CASE UNCHANGED ivars
  BY <1>13, StuttersBase DEF ivars, vars, levels, homeSide
<1>. QED
  BY <1>1, <1>2, <1>3, <1>4, <1>5, <1>6, <1>7, <1>8, <1>9, <1>10, <1>11, <1>12, <1>13
  DEF InheritNext

\* I8, base clause: whatever is attached, queued, granted or ended, and however
\* priorities change, the table's base is the process's priority.
THEOREM Bases == InheritSpec => []BasesMirrored
<1>1. BaseIs => BasesMirrored
  BY DEF BaseIs, BasesMirrored
<1>. QED
  BY InitBase, NextBase, <1>1, PTL DEF InheritSpec

-----------------------------------------------------------------------------
(* Priorities decide nothing in the table: every step is a step of         *)
(* LockTable or leaves its variables alone, so what is proved of Spec in   *)
(* LockTableProofs holds of InheritSpec.                                   *)

LEMMA StepIsTableStep == [InheritNext]_ivars => [Next]_vars
<1>. SUFFICES ASSUME [InheritNext]_ivars PROVE [Next]_vars
  OBVIOUS
<1>1. ASSUME NEW prio \in BOOLEAN, AttachPrioHome(prio) PROVE Next
  BY <1>1 DEF AttachPrioHome, Next
<1>2. ASSUME NEW h \in homes, DetachPrioHome(h) PROVE Next
  BY <1>2 DEF DetachPrioHome, Next
<1>3. ASSUME NEW p \in Pids, NEW r \in Requests,
             TryAcquireHold(p, r) \/ BlockRequest(p, r)
      PROVE  Next
  BY <1>3 DEF TryAcquireHold, BlockRequest, Next
<1>4. ASSUME NEW p \in Pids, ResumeWaiter(p) \/ CancelWait(p) PROVE Next
  BY <1>4 DEF ResumeWaiter, CancelWait, Next
<1>5. ASSUME NEW p \in Pids, NEW i \in HoldIds(recs, p),
             StartHold(p, i) \/ ReleaseHold(p, i)
      PROVE  Next
  BY <1>5 DEF StartHold, ReleaseHold, Next
<1>6. ASSUME NEW p \in Pids, NEW abandon \in BOOLEAN, EndProcess(p, abandon) PROVE Next
  BY <1>6 DEF EndProcess, Next
<1>7. ASSUME NEW p \in Pids, ApplyRelevel(p) \/ EndIdle(p) PROVE UNCHANGED vars
  BY <1>7 DEF ApplyRelevel, EndIdle
<1>8. ASSUME NEW p \in Pids, NEW v \in Priorities, Renice(p, v) PROVE UNCHANGED vars
  BY <1>8 DEF Renice
<1>9. CASE UNCHANGED ivars
  BY <1>9 DEF ivars
<1>. QED
  BY <1>1, <1>2, <1>3, <1>4, <1>5, <1>6, <1>7, <1>8, <1>9 DEF InheritNext

\* The table under priorities is the table: relevel_all and the homes' notes never
\* grant, queue, drop or reorder anything.
THEOREM InheritsTable == InheritSpec => Spec
<1>1. InheritInit => Init
  BY DEF InheritInit
<1>. QED
  BY <1>1, StepIsTableStep, PTL DEF InheritSpec, Spec

-----------------------------------------------------------------------------
(* Within Cap edges: Ball is what walks of so many steps reach.            *)

Layer(E, S, g, n) ==
    g = [d \in 0 .. n |-> IF d = 0 THEN S
                          ELSE g[d - 1] \cup UNION {E[p] : p \in g[d - 1]}]

LEMMA LayersExist ==
    ASSUME NEW E, NEW S
    PROVE  \A n \in Nat : \E g : Layer(E, S, g, n)
<1>1. PICK T : T = {n \in Nat : \E g : Layer(E, S, g, n)}
  OBVIOUS
<1>2. 0 \in T
  <2>1. PICK g : g = [d \in 0 .. 0 |-> S]
    OBVIOUS
  <2>2. Layer(E, S, g, 0)
    BY <2>1 DEF Layer
  <2>. QED
    BY <1>1, <2>2
<1>3. ASSUME NEW n \in Nat, n \in T
      PROVE  n + 1 \in T
  <2>1. PICK g : Layer(E, S, g, n)
    BY <1>1, <1>3
  <2>2. PICK f : f = [d \in 0 .. n + 1 |->
                        IF d = n + 1 THEN g[n] \cup UNION {E[p] : p \in g[n]} ELSE g[d]]
    OBVIOUS
  <2>3. \A d \in 0 .. n : f[d] = g[d]
    BY <2>2
  <2>4. ASSUME NEW d \in 0 .. n + 1
        PROVE  f[d] = IF d = 0 THEN S ELSE f[d - 1] \cup UNION {E[p] : p \in f[d - 1]}
    <3>1. CASE d = n + 1
      <4>1. d # 0 /\ d - 1 = n /\ n \in 0 .. n
        BY <3>1
      <4>2. f[d] = g[n] \cup UNION {E[p] : p \in g[n]}
        BY <2>2, <3>1
      <4>. QED
        BY <2>3, <4>1, <4>2
    <3>2. CASE d # n + 1
      <4>1. d \in 0 .. n /\ (d # 0 => d - 1 \in 0 .. n)
        BY <3>2
      <4>2. g[d] = IF d = 0 THEN S ELSE g[d - 1] \cup UNION {E[p] : p \in g[d - 1]}
        BY <2>1, <4>1 DEF Layer
      <4>. QED
        BY <2>3, <4>1, <4>2
    <3>. QED
      BY <3>1, <3>2
  <2>5. Layer(E, S, f, n + 1)
    BY <2>2, <2>4 DEF Layer
  <2>. QED
    BY <1>1, <2>5
<1>. QED
  BY <1>1, <1>2, <1>3, AllNaturals

\* Ball is the last of its layers.
LEMMA BallIsLayer ==
    ASSUME NEW E, NEW S
    PROVE  \E g : Layer(E, S, g, Cap) /\ Ball(E, S) = g[Cap]
<1>1. PICK g : g = CHOOSE f : f = [d \in 0 .. Cap |->
                                      IF d = 0 THEN S
                                      ELSE f[d - 1] \cup UNION {E[p] : p \in f[d - 1]}]
  OBVIOUS
<1>2. Ball(E, S) = g[Cap]
  BY <1>1 DEF Ball
<1>3. \E f : Layer(E, S, f, Cap)
  BY LayersExist, InheritAssumption
<1>4. \E f : f = [d \in 0 .. Cap |->
                    IF d = 0 THEN S
                    ELSE f[d - 1] \cup UNION {E[p] : p \in f[d - 1]}]
  BY <1>3 DEF Layer
<1>5. g = [d \in 0 .. Cap |-> IF d = 0 THEN S
                               ELSE g[d - 1] \cup UNION {E[p] : p \in g[d - 1]}]
  BY <1>1, <1>4
<1>6. Layer(E, S, g, Cap)
  BY <1>5 DEF Layer
<1>. QED
  BY <1>2, <1>6

\* f is a walk of n steps along E.
Walk(E, f, n) == f \in [0 .. n -> Pids] /\ \A k \in 0 .. n - 1 : f[k + 1] \in E[f[k]]

Within(E, S, d) ==
    {p \in Pids : \E n \in 0 .. d : \E f : Walk(E, f, n) /\ f[0] \in S /\ f[n] = p}

LEMMA WithinNext ==
    ASSUME NEW E \in [Pids -> SUBSET Pids], NEW S, NEW d \in Nat
    PROVE  Within(E, S, d + 1) =
             Within(E, S, d) \cup UNION {E[p] : p \in Within(E, S, d)}
<1>1. ASSUME NEW p \in Within(E, S, d + 1)
      PROVE  p \in Within(E, S, d) \/ \E q \in Within(E, S, d) : p \in E[q]
  <2>1. PICK n \in 0 .. d + 1 : \E f : Walk(E, f, n) /\ f[0] \in S /\ f[n] = p
    BY DEF Within
  <2>. PICK f : Walk(E, f, n) /\ f[0] \in S /\ f[n] = p
    BY <2>1
  <2>2. CASE n # d + 1
    <3>1. n \in 0 .. d
      BY <2>2
    <3>. QED
      BY <2>1, <3>1 DEF Within
  <2>3. CASE n = d + 1
    <3>1. PICK g : g = [k \in 0 .. d |-> f[k]]
      OBVIOUS
    <3>2. d \in 0 .. d /\ d \in 0 .. n - 1 /\ 0 \in 0 .. d /\ d + 1 = n
      BY <2>3
    <3>3. Walk(E, g, d)
      BY <2>1, <2>3, <3>1 DEF Walk
    <3>4. f[d] \in Within(E, S, d)
      <4>1. g[0] = f[0] /\ g[d] = f[d] /\ f[d] \in Pids
        BY <2>3, <3>1, <3>2 DEF Walk
      <4>. QED
        BY <3>2, <3>3, <4>1 DEF Within
    <3>5. f[d + 1] \in E[f[d]] /\ f[d + 1] = p
      BY <3>2 DEF Walk
    <3>. QED
      BY <3>4, <3>5
  <2>. QED
    BY <2>2, <2>3
<1>2. Within(E, S, d) \subseteq Within(E, S, d + 1)
  BY DEF Within
<1>3. ASSUME NEW q \in Within(E, S, d), NEW p \in E[q]
      PROVE  p \in Within(E, S, d + 1)
  <2>1. PICK n \in 0 .. d : \E f : Walk(E, f, n) /\ f[0] \in S /\ f[n] = q
    BY DEF Within
  <2>. PICK f : Walk(E, f, n) /\ f[0] \in S /\ f[n] = q
    BY <2>1
  <2>2. p \in Pids
    BY DEF Within
  <2>3. PICK g : g = [k \in 0 .. n + 1 |-> IF k = n + 1 THEN p ELSE f[k]]
    OBVIOUS
  <2>4. /\ n \in Nat /\ g \in [0 .. n + 1 -> Pids] /\ g[n + 1] = p /\ g[0] = f[0] /\ g[n] = q
        /\ \A k \in 0 .. n : g[k] = f[k]
    BY <2>1, <2>2, <2>3 DEF Walk
  <2>5. ASSUME NEW k \in 0 .. n
        PROVE  g[k + 1] \in E[g[k]]
    <3>1. CASE k = n
      BY <2>4, <3>1
    <3>2. CASE k # n
      <4>1. k \in 0 .. n - 1 /\ k + 1 \in 0 .. n
        BY <2>4, <3>2
      <4>. QED
        BY <2>1, <2>4, <4>1 DEF Walk
    <3>. QED
      BY <3>1, <3>2
  <2>6. Walk(E, g, n + 1)
    BY <2>4, <2>5 DEF Walk
  <2>7. n + 1 \in 0 .. d + 1
    BY <2>1
  <2>. QED
    BY <2>1, <2>2, <2>4, <2>6, <2>7 DEF Within
<1>. QED
  BY <1>1, <1>2, <1>3

LEMMA BallIsWithin ==
    ASSUME NEW E \in [Pids -> SUBSET Pids], NEW S \in SUBSET Pids
    PROVE  Ball(E, S) = Within(E, S, Cap)
<1>1. PICK g : Layer(E, S, g, Cap) /\ Ball(E, S) = g[Cap]
  BY BallIsLayer
<1>2. Cap \in Nat
  BY InheritAssumption
<1>3. \A d \in 0 .. Cap : g[d] = IF d = 0 THEN S ELSE g[d - 1] \cup UNION {E[p] : p \in g[d - 1]}
  BY <1>1 DEF Layer
<1>4. PICK T : T = {d \in Nat : d <= Cap => g[d] = Within(E, S, d)}
  OBVIOUS
<1>5. 0 \in T
  <2>1. g[0] = S
    <3>1. 0 \in 0 .. Cap
      BY <1>2
    <3>2. g[0] = IF 0 = 0 THEN S ELSE g[0 - 1] \cup UNION {E[p] : p \in g[0 - 1]}
      BY <1>3, <3>1
    <3>. QED
      BY <3>2
  <2>2. ASSUME NEW p \in S
        PROVE  p \in Within(E, S, 0)
    <3>1. PICK f : f = [k \in 0 .. 0 |-> p]
      OBVIOUS
    <3>2. Walk(E, f, 0) /\ f[0] = p /\ 0 \in 0 .. 0
      BY <3>1 DEF Walk
    <3>. QED
      BY <3>2 DEF Within
  <2>3. Within(E, S, 0) \subseteq S
    BY DEF Within
  <2>. QED
    BY <1>4, <2>1, <2>2, <2>3
<1>6. ASSUME NEW d \in Nat, d \in T
      PROVE  d + 1 \in T
  <2>. SUFFICES ASSUME d + 1 <= Cap PROVE g[d + 1] = Within(E, S, d + 1)
    BY <1>4
  <2>1. g[d] = Within(E, S, d)
    BY <1>2, <1>4, <1>6
  <2>2. d + 1 \in 0 .. Cap /\ d + 1 # 0 /\ (d + 1) - 1 = d
    BY <1>2
  <2>3. g[d + 1] = g[d] \cup UNION {E[p] : p \in g[d]}
    BY <1>3, <2>2
  <2>. QED
    BY <2>1, <2>3, WithinNext
<1>7. Cap \in T
  BY <1>2, <1>5, <1>6, AllNaturals
<1>. QED
  BY <1>1, <1>2, <1>4, <1>7

\* p is within Cap edges of q.
Leads(E, q, p) == \E n \in 0 .. Cap : \E f : Walk(E, f, n) /\ f[0] = q /\ f[n] = p

LEMMA BallLeads ==
    ASSUME NEW E \in [Pids -> SUBSET Pids], NEW S \in SUBSET Pids
    PROVE  Ball(E, S) = {p \in Pids : \E q \in S : Leads(E, q, p)}
BY BallIsWithin DEF Within, Leads

\* What is left of a walk is a walk.
LEMMA WalkLeads ==
    ASSUME NEW E, NEW n \in 0 .. Cap, NEW f, Walk(E, f, n), NEW k \in 0 .. n
    PROVE  Leads(E, f[k], f[n])
<1>1. PICK m : m = n - k
  OBVIOUS
<1>2. n \in Nat /\ m \in 0 .. Cap /\ k + m = n /\ m \in Nat /\ 0 \in 0 .. m /\ m \in 0 .. m
      /\ k \in Nat /\ k + 0 = k
  BY <1>1, InheritAssumption
<1>3. PICK g : g = [j \in 0 .. m |-> f[k + j]]
  OBVIOUS
<1>4. Walk(E, g, m)
  <2>1. \A j \in 0 .. m : k + j \in 0 .. n
    BY <1>2
  <2>2. \A j \in 0 .. m - 1 : /\ k + j \in 0 .. n - 1 /\ k + (j + 1) = (k + j) + 1
                              /\ j \in 0 .. m /\ j + 1 \in 0 .. m
    BY <1>2
  <2>3. f \in [0 .. n -> Pids] /\ \A j \in 0 .. n - 1 : f[j + 1] \in E[f[j]]
    BY DEF Walk
  <2>4. g \in [0 .. m -> Pids]
    BY <1>3, <2>1, <2>3
  <2>5. ASSUME NEW j \in 0 .. m - 1
        PROVE  g[j + 1] \in E[g[j]]
    <3>1. g[j + 1] = f[(k + j) + 1] /\ g[j] = f[k + j] /\ k + j \in 0 .. n - 1
      BY <1>3, <2>2
    <3>. QED
      BY <2>3, <3>1
  <2>. QED
    BY <2>4, <2>5 DEF Walk
<1>5. g[0] = f[k] /\ g[m] = f[n]
  BY <1>2, <1>3
<1>. QED
  BY <1>2, <1>4, <1>5 DEF Leads

\* A walk turned round.
LEMMA LeadsBack ==
    ASSUME NEW E, NEW W, \A p, q \in Pids : q \in W[p] => p \in E[q],
           NEW p, NEW q, Leads(W, p, q)
    PROVE  Leads(E, q, p)
<1>1. PICK n \in 0 .. Cap : \E f : Walk(W, f, n) /\ f[0] = p /\ f[n] = q
  BY DEF Leads
<1>2. PICK f : Walk(W, f, n) /\ f[0] = p /\ f[n] = q
  BY <1>1
<1>3. PICK g : g = [k \in 0 .. n |-> f[n - k]]
  OBVIOUS
<1>4. n \in Nat /\ 0 \in 0 .. n /\ n \in 0 .. n /\ n - 0 = n /\ n - n = 0
  BY InheritAssumption
<1>5. f \in [0 .. n -> Pids] /\ \A j \in 0 .. n - 1 : f[j + 1] \in W[f[j]]
  BY <1>2 DEF Walk
<1>6. Walk(E, g, n)
  <2>1. \A k \in 0 .. n : n - k \in 0 .. n
    BY <1>4
  <2>2. g \in [0 .. n -> Pids]
    BY <1>3, <1>5, <2>1
  <2>3. ASSUME NEW k \in 0 .. n - 1
        PROVE  g[k + 1] \in E[g[k]]
    <3>1. PICK j : j = n - (k + 1)
      OBVIOUS
    <3>2. j \in 0 .. n - 1 /\ j \in 0 .. n /\ j + 1 \in 0 .. n /\ j + 1 = n - k
          /\ k \in 0 .. n /\ k + 1 \in 0 .. n
      BY <1>4, <3>1
    <3>3. g[k + 1] = f[j] /\ g[k] = f[j + 1]
      BY <1>3, <3>1, <3>2
    <3>4. f[j + 1] \in W[f[j]] /\ f[j] \in Pids /\ f[j + 1] \in Pids
      BY <1>5, <3>2
    <3>. QED
      BY <3>3, <3>4
  <2>. QED
    BY <2>2, <2>3 DEF Walk
<1>7. g[0] = q /\ g[n] = p
  BY <1>2, <1>3, <1>4
<1>. QED
  BY <1>6, <1>7 DEF Leads

\* A set is in its ball, and so is what it has an edge to.
LEMMA BallHas ==
    ASSUME NEW E \in [Pids -> SUBSET Pids], NEW S \in SUBSET Pids
    PROVE  /\ S \subseteq Ball(E, S) /\ Ball(E, S) \subseteq Pids
           /\ \A q \in S : E[q] \subseteq Ball(E, S)
<1>1. Cap \in Nat \ {0} /\ 0 \in 0 .. Cap /\ 1 \in 0 .. Cap
  BY InheritAssumption
<1>2. ASSUME NEW q \in S
      PROVE  Leads(E, q, q)
  <2>1. PICK f : f = [k \in 0 .. 0 |-> q]
    OBVIOUS
  <2>2. Walk(E, f, 0) /\ f[0] = q
    BY <2>1 DEF Walk
  <2>. QED
    BY <1>1, <2>2 DEF Leads
<1>3. ASSUME NEW q \in S, NEW p \in E[q]
      PROVE  Leads(E, q, p)
  <2>1. PICK f : f = [k \in 0 .. 1 |-> IF k = 0 THEN q ELSE p]
    OBVIOUS
  <2>2. f \in [0 .. 1 -> Pids] /\ f[0] = q /\ f[1] = p /\ \A k \in 0 .. 1 - 1 : k = 0 /\ k + 1 = 1
    BY <2>1
  <2>3. Walk(E, f, 1)
    BY <2>2 DEF Walk
  <2>. QED
    BY <1>1, <2>2, <2>3 DEF Leads
<1>. QED
  BY <1>2, <1>3, BallLeads

\* Where every edge that E has and F doesn't has an end in S, and every one that F
\* has and E doesn't has one in D, what neither reaches is led to as before.
LEMMA LeadsSame ==
    ASSUME NEW E \in [Pids -> SUBSET Pids], NEW F \in [Pids -> SUBSET Pids],
           NEW S \in SUBSET Pids, NEW D \in SUBSET Pids, S \subseteq D,
           \A u \in Pids : \A v \in E[u] : v \in F[u] \/ u \in S \/ v \in S,
           \A u \in Pids : \A v \in F[u] : v \in E[u] \/ u \in D \/ v \in D,
           NEW p \in Pids, p \notin Ball(E, S), p \notin Ball(F, D)
    PROVE  \A q \in Pids : /\ Leads(E, q, p) <=> Leads(F, q, p)
                           /\ Leads(E, q, p) => q \notin S
<1>1. ASSUME NEW q \in Pids, Leads(E, q, p)
      PROVE  Leads(F, q, p) /\ q \notin S
  <2>1. PICK n \in 0 .. Cap : \E f : Walk(E, f, n) /\ f[0] = q /\ f[n] = p
    BY <1>1 DEF Leads
  <2>2. PICK f : Walk(E, f, n) /\ f[0] = q /\ f[n] = p
    BY <2>1
  <2>3. f \in [0 .. n -> Pids] /\ \A k \in 0 .. n - 1 : f[k + 1] \in E[f[k]]
    BY <2>2 DEF Walk
  <2>4. \A k \in 0 .. n : f[k] \notin S
    <3>1. \A k \in 0 .. n : Leads(E, f[k], p)
      BY <2>2, WalkLeads
    <3>. QED
      BY <3>1, BallLeads
  <2>5. ASSUME NEW k \in 0 .. n - 1
        PROVE  f[k + 1] \in F[f[k]]
    <3>1. k \in 0 .. n /\ k + 1 \in 0 .. n
      BY InheritAssumption
    <3>. QED
      BY <2>3, <2>4, <3>1
  <2>6. Walk(F, f, n)
    BY <2>3, <2>5 DEF Walk
  <2>7. 0 \in 0 .. n
    BY InheritAssumption
  <2>. QED
    BY <2>2, <2>4, <2>6, <2>7 DEF Leads
<1>2. ASSUME NEW q \in Pids, Leads(F, q, p)
      PROVE  Leads(E, q, p)
  <2>1. PICK n \in 0 .. Cap : \E f : Walk(F, f, n) /\ f[0] = q /\ f[n] = p
    BY <1>2 DEF Leads
  <2>2. PICK f : Walk(F, f, n) /\ f[0] = q /\ f[n] = p
    BY <2>1
  <2>3. f \in [0 .. n -> Pids] /\ \A k \in 0 .. n - 1 : f[k + 1] \in F[f[k]]
    BY <2>2 DEF Walk
  <2>4. \A k \in 0 .. n : f[k] \notin D
    <3>1. \A k \in 0 .. n : Leads(F, f[k], p)
      BY <2>2, WalkLeads
    <3>. QED
      BY <3>1, BallLeads
  <2>5. ASSUME NEW k \in 0 .. n - 1
        PROVE  f[k + 1] \in E[f[k]]
    <3>1. k \in 0 .. n /\ k + 1 \in 0 .. n
      BY InheritAssumption
    <3>. QED
      BY <2>3, <2>4, <3>1
  <2>6. Walk(E, f, n)
    BY <2>3, <2>5 DEF Walk
  <2>. QED
    BY <2>2, <2>6 DEF Leads
<1>. QED
  BY <1>1, <1>2

\* What leads elsewhere has an edge.
LEMMA LeadsHasEdge ==
    ASSUME NEW E \in [Pids -> SUBSET Pids], NEW p, NEW q, p # q, Leads(E, q, p)
    PROVE  E[q] # {} /\ \E r \in Pids : p \in E[r]
<1>1. PICK n \in 0 .. Cap : \E f : Walk(E, f, n) /\ f[0] = q /\ f[n] = p
  BY DEF Leads
<1>2. PICK f : Walk(E, f, n) /\ f[0] = q /\ f[n] = p
  BY <1>1
<1>3. /\ 0 \in 0 .. n - 1 /\ n - 1 \in 0 .. n - 1 /\ (n - 1) + 1 = n
      /\ n - 1 \in 0 .. n
  BY <1>2, InheritAssumption
<1>4. f[0 + 1] \in E[f[0]] /\ f[(n - 1) + 1] \in E[f[n - 1]] /\ f[n - 1] \in Pids
  BY <1>2, <1>3 DEF Walk
<1>. QED
  BY <1>2, <1>3, <1>4

-----------------------------------------------------------------------------
(* The graph relevel_all searches, told by holds and tickets. *)

\* The wait-for graph, and the same turned round.
EdgesAre ==
    /\ Edges \in [Pids -> SUBSET Pids]
    /\ \A u, v \in Pids : v \in Edges[u] <=> Edge(u, v)

WaitersAre ==
    /\ Waiters \in [Pids -> SUBSET Pids]
    /\ \A p, q \in Pids : q \in Waiters[p] <=> p \in Edges[q]

\* Who waits or is waited for has a record, and nobody waits for itself.
EdgesOfRecs ==
    \A u, v \in Pids : v \in Edges[u] => u \in DOMAIN recs /\ v \in DOMAIN recs /\ u # v

\* Where records match, an edge is one of Edge, between two processes with records.
LEMMA EdgesRead == IInv => EdgesAre /\ EdgesOfRecs
<1>. SUFFICES ASSUME IInv PROVE EdgesAre /\ EdgesOfRecs
  OBVIOUS
<1>1. /\ HoldsLinked(recs, holds) /\ TicketsLinked(recs, tickets)
      /\ \A i \in DOMAIN holds : holds[i].pid \in Pids
      /\ \A t \in DOMAIN tickets : tickets[t].pid \in Pids
  BY TypesAndLinks DEF HoldsOK, Hold, TicketsOK, Ticket
<1>2. \A a, b : b \in Succ(a) <=> Edge(a, b)
  BY Reads DEF Reading, SuccIs
<1>3. ASSUME NEW u, NEW v, Edge(u, v)
      PROVE  u \in DOMAIN recs /\ v \in DOMAIN recs /\ v \in Pids /\ u # v
  <2>1. PICK t \in Queued(tickets) : tickets[t].pid = u /\ Waits(holds, tickets, t, v)
    BY <1>3 DEF Edge
  <2>2. u \in DOMAIN recs
    BY <1>1, <2>1 DEF TicketsLinked, Queued
  <2>3. CASE ByHold(holds, u, tickets[t], v)
    BY <1>1, <2>2, <2>3 DEF ByHold, HoldsLinked
  <2>4. CASE ByWait(holds, tickets, u, tickets[t], t, v)
    BY <1>1, <2>2, <2>4 DEF ByWait, TicketsLinked, Queued
  <2>. QED
    BY <2>1, <2>3, <2>4 DEF Waits, Behind
<1>4. \A u \in Pids : Edges[u] = Succ(u)
  BY DEF Edges
<1>5. Edges = [p \in Pids |-> Succ(p)]
  BY DEF Edges
<1>6. \A u \in Pids : Succ(u) \in SUBSET Pids
  BY <1>2, <1>3
<1>7. Edges \in [Pids -> SUBSET Pids]
  BY <1>5, <1>6
<1>8. EdgesAre
  BY <1>2, <1>4, <1>7 DEF EdgesAre
<1>9. EdgesOfRecs
  BY <1>2, <1>3, <1>4 DEF EdgesOfRecs
<1>. QED
  BY <1>8, <1>9

LEMMA EdgesReadNext == (IInv => EdgesAre /\ EdgesOfRecs)'
BY EdgesRead, PTL

\* What the table finds from a process's holds and ticket are those that wait for it.
LEMMA WaitersRead ==
    ASSUME IInv
    PROVE  WaitersAre
<1>1. /\ HoldsLinked(recs, holds) /\ TicketsLinked(recs, tickets)
      /\ \A t \in DOMAIN tickets : tickets[t].pid \in Pids
      /\ \A t \in DOMAIN tickets : t # 0
  BY TypesAndLinks DEF TicketsOK, Ticket
<1>2. \A p : HoldIds(recs, p) = {i \in DOMAIN holds : holds[i].pid = p}
  BY <1>1 DEF HoldsLinked, HoldIds
<1>3. \A p : \A t \in Queued(tickets) : TicketOf(p) = t <=> tickets[t].pid = p
  BY <1>1 DEF TicketsLinked, TicketOf, Queued
<1>4. \A a, u : Exempt(recs, holds, a, u) <=> Spared(holds, a, u)
  BY <1>1, SparedIsExempt
<1>5. ASSUME NEW p \in Pids, NEW q \in Pids
      PROVE  q \in Predecessors(p) <=> Edge(q, p)
  <2>1. PICK own : own = {TicketOf(p)} \cap Queued(tickets)
    OBVIOUS
  <2>2. PICK front : front = {u \in Queued(tickets) :
                          \E i \in HoldIds(recs, p) : Conflicts(tickets[u], holds[i])}
    OBVIOUS
  <2>3. PICK back : back = {u \in Queued(tickets) : \E t \in own :
                          /\ u > t /\ Conflicts(tickets[u], tickets[t])
                          /\ ~Exempt(recs, holds, tickets[u].pid, tickets[t])}
    OBVIOUS
  <2>4. Predecessors(p) = {tickets[u].pid : u \in front \cup back} \ {p}
    BY <2>1, <2>2, <2>3 DEF Predecessors
  <2>5. \A u \in Queued(tickets) : tickets[u].pid # p =>
            (u \in front <=> ByHold(holds, tickets[u].pid, tickets[u], p))
    BY <1>2, <2>2 DEF ByHold
  <2>6. \A u \in Queued(tickets) : tickets[u].pid # p =>
            (u \in back <=> ByWait(holds, tickets, tickets[u].pid, tickets[u], u, p))
    <3>1. \A t \in Queued(tickets) : t \in own <=> tickets[t].pid = p
      BY <1>3, <2>1
    <3>2. own \subseteq Queued(tickets)
      BY <2>1
    <3>. QED
      BY <1>4, <2>3, <3>1, <3>2 DEF ByWait
  <2>7. \A u \in Queued(tickets) : tickets[u].pid # p =>
            (u \in front \cup back <=> Waits(holds, tickets, u, p))
    BY <2>5, <2>6 DEF Waits, Behind
  <2>8. \A u : ~Waits(holds, tickets, u, tickets[u].pid)
    BY DEF Waits, Behind, ByHold, ByWait
  <2>9. front \cup back \subseteq Queued(tickets)
    BY <2>2, <2>3
  <2>. QED
    BY <2>4, <2>7, <2>8, <2>9 DEF Edge
<1>6. \A p \in Pids : Predecessors(p) \in SUBSET Pids
  <2>. SUFFICES ASSUME NEW p \in Pids, NEW q \in Predecessors(p) PROVE q \in Pids
    OBVIOUS
  <2>1. \E u \in Queued(tickets) : q = tickets[u].pid
    BY DEF Predecessors
  <2>. QED
    BY <1>1, <2>1 DEF Queued
<1>7. Waiters = [p \in Pids |-> Predecessors(p)]
  BY DEF Waiters
<1>8. Waiters \in [Pids -> SUBSET Pids] /\ \A p \in Pids : Waiters[p] = Predecessors(p)
  BY <1>6, <1>7
<1>9. \A u, v \in Pids : v \in Edges[u] <=> Edge(u, v)
  BY EdgesRead DEF EdgesAre
<1>. QED
  BY <1>5, <1>8, <1>9 DEF WaitersAre

-----------------------------------------------------------------------------
(* What the whole graph gives, and that the table's search finds the same. *)

\* Whose priorities p inherits.
Sources(p) == {r \in Pids \ {p} : Lends(r) /\ Leads(Edges, r, p)}

\* The inherited priority that a process's record gives.
Level(p) == IF p \in DOMAIN recs THEN inh[p] ELSE Inf

LevelsAre == \A p \in Pids : Level(p) = InhFormula(p)

\* The best of a set of priorities is one of them or none, and no worse than any.
LEMMA BestIs ==
    ASSUME NEW S \in SUBSET Nat
    PROVE  Best(S) \in S \cup {Inf} /\ \A n \in S \cup {Inf} : Best(S) <= n
<1>1. S \cup {Inf} \in SUBSET Nat /\ S \cup {Inf} # {}
  BY InheritAssumption
<1>2. PICK x \in S \cup {Inf} : \A y \in S \cup {Inf} : ~(y < x)
  BY <1>1, Least
<1>3. \A y \in S \cup {Inf} : x <= y
  BY <1>1, <1>2
<1>. QED
  BY <1>3 DEF Best

LEMMA BestOfNone == Best({}) = Inf
BY BestIs

\* A source waits, and so has a record.
LEMMA SourcesHaveRecs ==
    ASSUME IInv, NEW p \in Pids, NEW q \in Pids, p # q, Leads(Edges, q, p)
    PROVE  q \in DOMAIN recs /\ p \in DOMAIN recs
<1>1. Edges \in [Pids -> SUBSET Pids] /\ EdgesOfRecs
  BY EdgesRead DEF EdgesAre
<1>2. Edges[q] # {} /\ \E r \in Pids : p \in Edges[r]
  BY <1>1, LeadsHasEdge
<1>. QED
  BY <1>1, <1>2 DEF EdgesOfRecs

\* Both are the best base of the sources.
LEMMA FormulaIs ==
    ASSUME IInv, BaseIs, NEW p \in Pids
    PROVE  /\ InhFormula(p) = Best({priority[q] : q \in Sources(p)})
           /\ RecomputeInh(p) = Best({priority[q] : q \in Sources(p)})
<1>1. Edges \in [Pids -> SUBSET Pids]
  BY EdgesRead DEF EdgesAre
<1>2. /\ Waiters \in [Pids -> SUBSET Pids]
      /\ \A a, b \in Pids : b \in Waiters[a] <=> a \in Edges[b]
  BY WaitersRead DEF WaitersAre
<1>3. \A r \in Pids : p \in Ball(Edges, {r}) <=> Leads(Edges, r, p)
  <2>. SUFFICES ASSUME NEW r \in Pids PROVE p \in Ball(Edges, {r}) <=> Leads(Edges, r, p)
    OBVIOUS
  <2>1. Ball(Edges, {r}) = {s \in Pids : \E q \in {r} : Leads(Edges, q, s)}
    BY <1>1, BallLeads
  <2>. QED
    BY <2>1
<1>4. \A r \in Pids : r \in Ball(Waiters, {p}) <=> Leads(Edges, r, p)
  <2>. SUFFICES ASSUME NEW r \in Pids PROVE r \in Ball(Waiters, {p}) <=> Leads(Edges, r, p)
    OBVIOUS
  <2>1. Ball(Waiters, {p}) = {s \in Pids : \E q \in {p} : Leads(Waiters, q, s)}
    BY <1>2, BallLeads
  <2>2. Leads(Waiters, p, r) => Leads(Edges, r, p)
    BY <1>2, LeadsBack
  <2>3. Leads(Edges, r, p) => Leads(Waiters, p, r)
    BY <1>2, LeadsBack
  <2>. QED
    BY <2>1, <2>2, <2>3
<1>5. Ball(Waiters, {p}) \subseteq Pids
  BY <1>2, BallHas
<1>6. {r \in Pids \ {p} : Lends(r) /\ p \in Ball(Edges, {r})} = Sources(p)
  BY <1>3 DEF Sources
<1>7. {r \in Ball(Waiters, {p}) \ {p} : Lends(r)} = Sources(p)
  BY <1>4, <1>5 DEF Sources
<1>8. \A q \in Sources(p) : base[q] = priority[q]
  BY SourcesHaveRecs DEF Sources, BaseIs
<1>9. {base[q] : q \in Sources(p)} = {priority[q] : q \in Sources(p)}
  BY <1>8
<1>. QED
  BY <1>6, <1>7, <1>9 DEF InhFormula, RecomputeInh

LEMMA FormulaIsNext ==
    (IInv /\ BaseIs => \A p \in Pids :
        /\ InhFormula(p) = Best({priority[q] : q \in Sources(p)})
        /\ RecomputeInh(p) = InhFormula(p))'
<1>1. IInv /\ BaseIs => \A p \in Pids :
        /\ InhFormula(p) = Best({priority[q] : q \in Sources(p)})
        /\ RecomputeInh(p) = InhFormula(p)
  BY FormulaIs
<1>. QED
  BY <1>1, PTL

\* What waits for nothing and is waited for by nobody inherits nothing.
LEMMA NoRecNoLevel ==
    ASSUME IInv, BaseIs, NEW p \in Pids, p \notin DOMAIN recs
    PROVE  InhFormula(p) = Inf
<1>1. Sources(p) = {}
  BY SourcesHaveRecs DEF Sources
<1>. QED
  BY <1>1, FormulaIs, BestOfNone

\* Neither does anybody where no home lends, or nothing is queued.
LEMMA NobodyLends ==
    ASSUME IInv, BaseIs, ~Lending \/ Queued(tickets) = {}
    PROVE  \A p \in Pids : InhFormula(p) = Inf
<1>. SUFFICES ASSUME NEW p \in Pids PROVE InhFormula(p) = Inf
  OBVIOUS
<1>1. Sources(p) = {}
  <2>1. CASE ~Lending
    BY <2>1 DEF Lending, Lends, Sources
  <2>2. CASE Queued(tickets) = {}
    <3>1. Edges \in [Pids -> SUBSET Pids] /\ \A q \in Pids : Edges[q] = {}
      BY <2>2, EdgesRead DEF EdgesAre, Edge
    <3>2. \A q \in Pids : q # p => ~Leads(Edges, q, p)
      BY <3>1, LeadsHasEdge
    <3>. QED
      BY <3>2 DEF Sources
  <2>. QED
    BY <2>1, <2>2
<1>. QED
  BY <1>1, FormulaIs, BestOfNone

LEMMA NoLevelNext ==
    (IInv /\ BaseIs =>
        /\ \A p \in Pids : p \notin DOMAIN recs => InhFormula(p) = Inf
        /\ ~Lending \/ Queued(tickets) = {} => \A p \in Pids : InhFormula(p) = Inf)'
<1>1. IInv /\ BaseIs =>
        /\ \A p \in Pids : p \notin DOMAIN recs => InhFormula(p) = Inf
        /\ ~Lending \/ Queued(tickets) = {} => \A p \in Pids : InhFormula(p) = Inf
  BY NoRecNoLevel, NobodyLends
<1>. QED
  BY <1>1, PTL

-----------------------------------------------------------------------------
(* Which edges an operation moves. *)

\* Every edge lost has an end in S, and every edge gained has one in N.
EdgesMove(S, N) ==
    \A u, v \in Pids :
        /\ v \in Edges[u] => v \in Edges'[u] \/ u \in S \/ v \in S
        /\ v \in Edges'[u] => v \in Edges[u] \/ u \in N \/ v \in N

LEMMA EdgesTold ==
    ASSUME IInv, IInv', NEW u \in Pids, NEW v \in Pids
    PROVE  /\ v \in Edges[u] <=> \E t \in Queued(tickets) :
                tickets[t].pid = u /\ Waits(holds, tickets, t, v)
           /\ v \in Edges'[u] <=> \E t \in Queued(tickets') :
                tickets'[t].pid = u /\ Waits(holds', tickets', t, v)
<1>1. EdgesAre /\ EdgesAre'
  BY EdgesRead, EdgesReadNext
<1>. QED
  BY <1>1 DEF EdgesAre, Edge

\* A step that decides nothing moves none.
LEMMA QuietEdges ==
    ASSUME IInv, IInv', Quiet
    PROVE  EdgesMove({}, {})
<1>. SUFFICES ASSUME NEW u \in Pids, NEW v \in Pids PROVE v \in Edges'[u] <=> v \in Edges[u]
  BY DEF EdgesMove
<1>1. /\ Queued(tickets') = Queued(tickets)
      /\ \A t \in Queued(tickets) : tickets'[t] = tickets[t]
  BY DEF Quiet, QueueStays
<1>2. \A t \in Queued(tickets) : Waits(holds', tickets', t, v) <=> Waits(holds, tickets, t, v)
  BY QuietWaits
<1>. QED
  BY <1>1, <1>2, EdgesTold

\* Nor does a grant at the request: a waiter that the new hold blocks was passed
\* by the conversion rule alone, so a hold of the same process blocked it before.
LEMMA AtOnceEdges ==
    ASSUME IInv, IInv', NEW p \in Pids, NEW r \in Requests, AtOnce(p, r)
    PROVE  EdgesMove({}, {})
<1>. SUFFICES ASSUME NEW u \in Pids, NEW v \in Pids PROVE v \in Edges'[u] <=> v \in Edges[u]
  BY DEF EdgesMove
<1>1. /\ Queued(tickets') = Queued(tickets)
      /\ \A t \in Queued(tickets) : tickets'[t] = tickets[t] /\ tickets[t].pid # p /\ t < SeqInf
      /\ DOMAIN holds' = DOMAIN holds \cup {nextHold + 1}
      /\ \A i \in DOMAIN holds : holds'[i] = holds[i]
      /\ holds'[nextHold + 1].pid = p
      /\ holds'[nextHold + 1].mode = r.mode /\ holds'[nextHold + 1].keys = r.keys
  BY DEF AtOnce, QueueStays
<1>2. \A q : ~Behind(holds, tickets, p, r, SeqInf, q)
  BY Reads DEF AtOnce, Reading, GrantableIs
<1>3. ASSUME NEW t \in Queued(tickets), Waits(holds', tickets', t, v)
      PROVE  Waits(holds, tickets, t, v)
  <2>. DEFINE a == tickets[t].pid
  <2>1. CASE v # p
    BY <1>3, <2>1, AtOnceWaits
  <2>2. CASE v = p
    <3>1. CASE Conflicts(tickets[t], holds'[nextHold + 1])
      <4>1. Conflicts(r, tickets[t])
        BY <1>1, <3>1, ConflictsAlike, ConflictsSymmetric
      <4>2. ~ByWait(holds, tickets, p, r, SeqInf, a)
        BY <1>2 DEF Behind
      <4>3. Spared(holds, p, tickets[t])
        BY <1>1, <4>1, <4>2 DEF ByWait
      <4>4. ByHold(holds, a, tickets[t], p)
        BY <1>1, <4>3 DEF Spared, ByHold
      <4>. QED
        BY <2>2, <4>4 DEF Waits, Behind
    <3>2. CASE ~Conflicts(tickets[t], holds'[nextHold + 1])
      <4>1. ~ByWait(holds', tickets', a, tickets[t], t, p)
        BY <1>1 DEF ByWait
      <4>2. tickets'[t] = tickets[t]
        BY <1>1
      <4>3. ByHold(holds', a, tickets[t], p)
        BY <1>3, <2>2, <4>1, <4>2 DEF Waits, Behind
      <4>4. ByHold(holds, a, tickets[t], p)
        BY <1>1, <3>2, <4>3 DEF ByHold
      <4>. QED
        BY <2>2, <4>4 DEF Waits, Behind
    <3>. QED
      BY <3>1, <3>2
  <2>. QED
    BY <2>1, <2>2
<1>4. \A t \in Queued(tickets) : Waits(holds, tickets, t, v) => Waits(holds', tickets', t, v)
  BY AtOnceWaits
<1>. QED
  BY <1>1, <1>3, <1>4, EdgesTold

\* A refused request that queues adds edges from its process, one that fails none.
LEMMA RefusedEdges ==
    ASSUME IInv, IInv', NEW p \in Pids, NEW r \in Requests, Refused(p, r)
    PROVE  /\ EdgesMove({}, {p})
           /\ Queued(tickets') = Queued(tickets) => EdgesMove({}, {})
<1>1. /\ \A t \in Queued(tickets) : tickets'[t] = tickets[t]
      /\ \/ Queued(tickets') = Queued(tickets)
         \/ /\ Queued(tickets') = Queued(tickets) \cup {SeqInf}
            /\ tickets'[SeqInf].pid = p
  BY DEF Refused
<1>2. ASSUME NEW u \in Pids, NEW v \in Pids
      PROVE  /\ v \in Edges[u] => v \in Edges'[u]
             /\ v \in Edges'[u] => v \in Edges[u] \/ u = p
             /\ Queued(tickets') = Queued(tickets) /\ v \in Edges'[u] => v \in Edges[u]
  <2>1. \A t \in Queued(tickets) : Waits(holds', tickets', t, v) <=> Waits(holds, tickets, t, v)
    BY RefusedWaits
  <2>. QED
    BY <1>1, <2>1, EdgesTold
<1>. QED
  BY <1>2 DEF EdgesMove

LEMMA TypesAndLinksNext ==
    (IInv => HoldsOK(holds, nextHold) /\ nextHold \in Nat /\ GrantsLinked(holds, tickets))'
<1>1. IInv => HoldsOK(holds, nextHold) /\ nextHold \in Nat /\ GrantsLinked(holds, tickets)
  BY TypesAndLinks
<1>. QED
  BY <1>1, PTL

\* What a pass grants was queued, with its process's record, and is granted after.
LEMMA PassGrants ==
    ASSUME IInv, IInv', NEW H, NEW T, NEW flags, NEW region, NEW G,
           Passing(H, T, flags, region, G), NEW g \in G
    PROVE  tickets[g].pid \in Granted
<1>1. g \in Queued(tickets)
  BY DEF Passing, Dropping, Granting
<1>2. g \in DOMAIN tickets' /\ tickets'[g].hold = GrantId(G, g)
  BY DEF Passing, Granting
<1>3. GrantId(G, g) \in DOMAIN holds'
  BY DEF Passing, Granting, Extends
<1>4. 0 \notin DOMAIN holds' /\ GrantsLinked(holds', tickets')
  <2>1. (IInv => HoldsOK(holds, nextHold) /\ nextHold \in Nat /\ GrantsLinked(holds, tickets))'
    BY TypesAndLinksNext
  <2>. QED
    BY <2>1 DEF HoldsOK
<1>5. tickets'[g].state = "granted"
  BY <1>2, <1>3, <1>4 DEF GrantsLinked
<1>6. TicketsLinked(recs, tickets)
  BY TypesAndLinks
<1>7. tickets[g].pid \in DOMAIN recs /\ TicketOf(tickets[g].pid) = g
  BY <1>1, <1>6 DEF TicketsLinked, TicketOf, Queued
<1>. QED
  BY <1>1, <1>2, <1>5, <1>7 DEF Granted

\* Drops and a pass take no edge whose ends have lost nothing: what is granted had
\* waited for what is dropped, and what waited for it waits on.
LEMMA PassingLoses ==
    ASSUME IInv, NEW E, NEW H, NEW T, NEW flags, NEW region, NEW G,
           Passing(H, T, flags, region, G), DropsOf(H, T, E),
           NEW t \in Queued(tickets), NEW q, Waits(holds, tickets, t, q),
           tickets[t].pid \notin E, q \notin E
    PROVE  /\ t \in Queued(tickets') /\ tickets'[t] = tickets[t]
           /\ Waits(holds', tickets', t, q)
<1>. DEFINE a == tickets[t].pid
<1>1. /\ DOMAIN H \subseteq DOMAIN holds /\ \A i \in DOMAIN H : H[i] = holds[i]
      /\ Queued(T) \subseteq Queued(tickets) /\ \A u \in Queued(T) : T[u] = tickets[u]
      /\ \A i \in DOMAIN holds \ DOMAIN H : \A u \in Queued(T) : T[u].pid # holds[i].pid
      /\ \A i \in DOMAIN holds \ DOMAIN H : holds[i].pid \in E
      /\ \A u \in Queued(tickets) \ Queued(T) : tickets[u].pid \in E
  BY DEF Passing, Dropping, DropsOf
<1>2. /\ G \in SUBSET Queued(T)
      /\ \A u \in G : \A b : ~Waits(H, T, u, b)
      /\ Queued(tickets') = Queued(T) \ G
      /\ \A u \in Queued(T) \ G : tickets'[u] = T[u]
  BY DEF Passing, Granting
<1>3. /\ DOMAIN holds' = DOMAIN H \cup {GrantId(G, g) : g \in G}
      /\ \A i \in DOMAIN H : holds'[i] = H[i]
      /\ \A g \in G : /\ holds'[GrantId(G, g)].pid = T[g].pid
                      /\ holds'[GrantId(G, g)].mode = T[g].mode
                      /\ holds'[GrantId(G, g)].keys = T[g].keys
  <2>1. Extends(holds', H, T, flags, G)
    BY DEF Passing, Granting
  <2>2. \A g \in G : LET new == GrantedHold(T, G, flags, g)
                    IN  new.pid = T[g].pid /\ new.mode = T[g].mode /\ new.keys = T[g].keys
    BY DEF GrantedHold
  <2>. QED
    BY <2>1, <2>2 DEF Extends
<1>4. t \in Queued(T) /\ T[t] = tickets[t]
  BY <1>1
<1>5. \A c : Spared(H, a, c) <=> Spared(holds, a, c)
  BY <1>1 DEF Spared
<1>6. ByHold(holds, a, tickets[t], q) => ByHold(H, a, tickets[t], q)
  BY <1>1 DEF ByHold
<1>7. ByWait(holds, tickets, a, tickets[t], t, q) => ByWait(H, T, a, tickets[t], t, q)
  BY <1>1, <1>5 DEF ByWait
<1>8. ByHold(H, a, tickets[t], q) \/ ByWait(H, T, a, tickets[t], t, q)
  BY <1>6, <1>7 DEF Waits, Behind
<1>9. Waits(H, T, t, q)
  BY <1>4, <1>8 DEF Waits, Behind
<1>10. t \notin G /\ t \in Queued(tickets') /\ tickets'[t] = tickets[t]
  BY <1>2, <1>4, <1>9
<1>11. CASE ByHold(H, a, tickets[t], q)
  <2>1. ByHold(holds', a, tickets[t], q)
    BY <1>3, <1>11 DEF ByHold
  <2>. QED
    BY <1>10, <2>1 DEF Waits, Behind
<1>12. CASE ByWait(H, T, a, tickets[t], t, q)
  <2>1. PICK u \in Queued(T) : /\ u < t /\ T[u].pid = q /\ q # a
                               /\ Conflicts(tickets[t], T[u]) /\ ~Spared(H, a, T[u])
    BY <1>12 DEF ByWait
  <2>2. CASE u \in G
    <3>1. Conflicts(tickets[t], holds'[GrantId(G, u)])
      BY <1>3, <2>1, <2>2, ConflictsAlike
    <3>2. ByHold(holds', a, tickets[t], q)
      BY <1>3, <2>1, <2>2, <3>1 DEF ByHold
    <3>. QED
      BY <1>10, <3>2 DEF Waits, Behind
  <2>3. CASE u \notin G
    <3>1. \A i : i \in DOMAIN holds' /\ holds'[i].pid = a <=> i \in DOMAIN H /\ H[i].pid = a
      <4>1. \A g \in G : T[g].pid # a
        <5>1. \A v, w \in Queued(tickets) : tickets[v].pid = tickets[w].pid => v = w
          BY Reads DEF Reading, OneTicket, Queued
        <5>. QED
          BY <1>1, <1>2, <1>10, <5>1
      <4>. QED
        BY <1>3, <4>1
    <3>2. \A c : Spared(holds', a, c) <=> Spared(H, a, c)
      BY <1>3, <3>1 DEF Spared
    <3>3. ByWait(holds', tickets', a, tickets[t], t, q)
      BY <1>2, <2>1, <2>3, <3>2 DEF ByWait
    <3>. QED
      BY <1>10, <3>3 DEF Waits, Behind
  <2>. QED
    BY <2>2, <2>3
<1>. QED
  BY <1>8, <1>10, <1>11, <1>12

\* An operation that ends with a pass takes edges at the processes it drops from,
\* and adds edges at those it grants.
LEMMA PassesEdges ==
    ASSUME IInv, IInv', NEW E, Passes(E)
    PROVE  EdgesMove(E, E \cup Granted)
<1>1. PICK H, T, flags, region, G : Passing(H, T, flags, region, G) /\ DropsOf(H, T, E)
  BY DEF Passes
<1>2. ASSUME NEW u \in Pids, NEW v \in Pids, v \in Edges[u], u \notin E, v \notin E
      PROVE  v \in Edges'[u]
  <2>1. PICK t \in Queued(tickets) : tickets[t].pid = u /\ Waits(holds, tickets, t, v)
    BY <1>2, EdgesTold
  <2>2. t \in Queued(tickets') /\ tickets'[t] = tickets[t] /\ Waits(holds', tickets', t, v)
    BY <1>1, <1>2, <2>1, PassingLoses
  <2>. QED
    BY <2>1, <2>2, EdgesTold
<1>3. ASSUME NEW u \in Pids, NEW v \in Pids, v \in Edges'[u], v \notin Granted
      PROVE  v \in Edges[u]
  <2>1. PICK t \in Queued(tickets') : tickets'[t].pid = u /\ Waits(holds', tickets', t, v)
    BY <1>3, EdgesTold
  <2>2. /\ t \in Queued(tickets) /\ tickets'[t] = tickets[t]
        /\ Waits(holds, tickets, t, v) \/ \E g \in G : tickets[g].pid = v
    BY <1>1, <2>1, PassingWaits
  <2>3. \A g \in G : tickets[g].pid \in Granted
    BY <1>1, PassGrants
  <2>. QED
    BY <1>3, <2>1, <2>2, <2>3, EdgesTold
<1>. QED
  BY <1>2, <1>3 DEF EdgesMove

\* The same of larger sets of processes.
LEMMA EdgesMoveMore ==
    ASSUME NEW S, NEW N, EdgesMove(S, N), NEW Q, NEW M, S \subseteq Q, N \subseteq M
    PROVE  EdgesMove(Q, M)
BY DEF EdgesMove

-----------------------------------------------------------------------------
(* The processes that relevel_all does not visit keep their sources. *)

\* Outside the balls the formula gives what it gave, if no other priority changed.
LEMMA FormulaKept ==
    ASSUME IInv, IInv', BaseIs, BaseIs',
           NEW S \in SUBSET Pids, NEW N \in SUBSET Pids, S \subseteq N, EdgesMove(S, N),
           \A q \in DOMAIN recs \ S : priority'[q] = priority[q] /\ (Lends(q)' <=> Lends(q)),
           NEW p \in Pids, p \notin Ball(Edges, S), p \notin Ball(Edges', N)
    PROVE  InhFormula(p)' = InhFormula(p)
<1>1. Edges \in [Pids -> SUBSET Pids] /\ Edges' \in [Pids -> SUBSET Pids]
  BY EdgesRead, EdgesReadNext DEF EdgesAre
<1>2. /\ \A u \in Pids : \A v \in Edges[u] : v \in Edges'[u] \/ u \in S \/ v \in S
      /\ \A u \in Pids : \A v \in Edges'[u] : v \in Edges[u] \/ u \in N \/ v \in N
  <2>1. \A u \in Pids : Edges[u] \subseteq Pids /\ Edges'[u] \subseteq Pids
    BY <1>1
  <2>. QED
    BY <2>1 DEF EdgesMove
<1>3. PICK E, F : E = Edges /\ F = Edges'
  OBVIOUS
<1>4. \A q \in Pids : /\ Leads(E, q, p) <=> Leads(F, q, p)
                      /\ Leads(E, q, p) => q \notin S
  <2>1. /\ E \in [Pids -> SUBSET Pids] /\ F \in [Pids -> SUBSET Pids]
        /\ \A u \in Pids : \A v \in E[u] : v \in F[u] \/ u \in S \/ v \in S
        /\ \A u \in Pids : \A v \in F[u] : v \in E[u] \/ u \in N \/ v \in N
        /\ p \notin Ball(E, S) /\ p \notin Ball(F, N)
    BY <1>1, <1>2, <1>3
  <2>. QED
    BY <2>1, LeadsSame
<1>5. \A q \in Pids \ {p} : Leads(E, q, p) => q \in DOMAIN recs \ S
  BY <1>3, <1>4, SourcesHaveRecs
<1>6. Sources(p)' = {r \in Pids \ {p} : Lends(r)' /\ Leads(F, r, p)}
  BY <1>3 DEF Sources
<1>7. Sources(p) = {r \in Pids \ {p} : Lends(r) /\ Leads(E, r, p)}
  BY <1>3 DEF Sources
<1>8. Sources(p)' = Sources(p)
  BY <1>4, <1>5, <1>6, <1>7
<1>9. \A q \in Sources(p) : priority'[q] = priority[q]
  BY <1>5, <1>7
<1>10. {priority'[q] : q \in Sources(p)'} = {priority[q] : q \in Sources(p)}
  BY <1>8, <1>9
<1>11. InhFormula(p)' = Best({priority'[q] : q \in Sources(p)'})
  BY FormulaIsNext
<1>. QED
  BY <1>10, <1>11, FormulaIs

LEMMA BallOfNone ==
    ASSUME NEW E \in [Pids -> SUBSET Pids]
    PROVE  Ball(E, {}) = {}
BY BallLeads

\* Where no edge moves, and no priority of a process with a record, all keep theirs.
LEMMA FormulaStays ==
    ASSUME IInv, IInv', BaseIs, BaseIs', EdgesMove({}, {}),
           \A q \in DOMAIN recs : priority'[q] = priority[q] /\ (Lends(q)' <=> Lends(q))
    PROVE  \A p \in Pids : InhFormula(p)' = InhFormula(p)
<1>1. Edges \in [Pids -> SUBSET Pids] /\ Edges' \in [Pids -> SUBSET Pids]
  BY EdgesRead, EdgesReadNext DEF EdgesAre
<1>2. Ball(Edges, {}) = {} /\ Ball(Edges', {}) = {}
  BY <1>1, BallOfNone
<1>. QED
  BY <1>2, FormulaKept

-----------------------------------------------------------------------------
(* The notes that relevel_all sends. *)

\* A record's note is thought to be on its way.
Awaited(p) == p \in DOMAIN recs /\ pending[p]

\* Who is not sent a note has the level it had, or is thought to be about to hear.
Told(skip, sent) ==
    /\ notes' \in [Pids -> Nat]
    /\ \A p \in Pids :
        /\ notes'[p] = sent[p] \/ (notes'[p] = sent[p] + 1 /\ HomeOf[p] \in applying')
        /\ Awaited(p)' => notes'[p] = sent[p] + 1 \/ Awaited(p)
        /\ notes'[p] = sent[p] /\ HomeOf[p] \in applying' /\ p \notin skip
              => Level(p)' = Level(p) \/ Awaited(p)

LEMMA KeptPendingIs ==
    ASSUME DOMAIN recs' \subseteq Pids, NEW p \in DOMAIN recs'
    PROVE  KeptPending[p] => Awaited(p)
BY DEF KeptPending, Kept, Awaited

LEMMA NoteIs ==
    ASSUME DOMAIN recs' \subseteq Pids, NEW S, NEW sent \in [Pids -> Nat], Note(S, sent)
    PROVE  /\ notes' \in [Pids -> Nat]
           /\ \A p \in Pids :
                /\ notes'[p] = sent[p] \/ (notes'[p] = sent[p] + 1 /\ p \in S)
                /\ Awaited(p)' => notes'[p] = sent[p] + 1 \/ Awaited(p)
                /\ notes'[p] = sent[p] /\ p \in S => Awaited(p)
<1>1. PICK due : due = {p \in S : p \in DOMAIN recs' => ~KeptPending[p]}
  OBVIOUS
<1>2. /\ pending' = [p \in DOMAIN recs' |-> KeptPending[p] \/ p \in due]
      /\ notes' = [p \in Pids |-> IF p \in due THEN sent[p] + 1 ELSE sent[p]]
  BY <1>1 DEF Note
<1>3. \A p \in Pids : sent[p] \in Nat /\ sent[p] + 1 \in Nat /\ sent[p] + 1 # sent[p]
  OBVIOUS
<1>4. \A p \in Pids : notes'[p] = IF p \in due THEN sent[p] + 1 ELSE sent[p]
  BY <1>2
<1>5. notes' \in [Pids -> Nat]
  BY <1>2, <1>3
<1>6. ASSUME NEW p \in Pids
      PROVE  Awaited(p)' => p \in due \/ Awaited(p)
  <2>1. Awaited(p)' => p \in DOMAIN recs' /\ (KeptPending[p] \/ p \in due)
    BY <1>2 DEF Awaited
  <2>. QED
    BY <2>1, KeptPendingIs
<1>7. ASSUME NEW p \in Pids, p \in S, p \notin due
      PROVE  Awaited(p)
  BY <1>1, <1>7, KeptPendingIs
<1>8. due \subseteq S
  BY <1>1
<1>. QED
  BY <1>3, <1>4, <1>5, <1>6, <1>7, <1>8

-----------------------------------------------------------------------------
(* relevel_all leaves every level what the formula gives. *)

\* What a step has to be for levels: it moves edges at its seeds, or towards what
\* it grants, and changes no other priority.
Moves(seeds) ==
    /\ EdgesMove(seeds, seeds \cup Granted)
    /\ \A q \in DOMAIN recs \ seeds : priority'[q] = priority[q] /\ (Lends(q)' <=> Lends(q))

LEMMA LevelNext ==
    ASSUME IInv', BaseIs', NEW p \in Pids, p \in DOMAIN recs' => inh'[p] = InhFormula(p)'
    PROVE  Level(p)' = InhFormula(p)'
<1>1. p \notin DOMAIN recs' => InhFormula(p)' = Inf
  BY NoLevelNext
<1>. QED
  BY <1>1 DEF Level

LEMMA RecsArePids == IInv => DOMAIN recs \subseteq Pids
BY TypesAndLinks DEF RecsOK

LEMMA RecsArePidsNext == (IInv => DOMAIN recs \subseteq Pids)'
BY RecsArePids, PTL

LEMMA RelevelLevels ==
    ASSUME IInv, IInv', BaseIs, BaseIs', LevelsAre, NEW seeds \in SUBSET Pids, NEW skip,
           NEW sent \in [Pids -> Nat], RelevelAll(seeds, skip, sent), Moves(seeds)
    PROVE  LevelsAre' /\ Told(skip, sent)
<1>. DEFINE old(p) == IF p \in DOMAIN recs THEN inh[p] ELSE Inf
            now(p) == IF p \in DOMAIN recs' THEN inh'[p] ELSE Inf
<1>1. DOMAIN recs \subseteq Pids /\ DOMAIN recs' \subseteq Pids
  BY RecsArePids, RecsArePidsNext
<1>2. \A p \in Pids : old(p) = Level(p) /\ now(p) = Level(p)'
  BY DEF Level
<1>3. PICK A : A = IF Lending THEN SetA(seeds) ELSE DOMAIN recs'
  OBVIOUS
<1>4. ASSUME ~Lending' PROVE LevelsAre' /\ Told(skip, sent)
  <2>1. inh' = [p \in DOMAIN recs' |-> Inf] /\ Note({}, sent)
    BY <1>4 DEF RelevelAll
  <2>2. \A p \in Pids : InhFormula(p)' = Inf
    BY <1>4, NoLevelNext
  <2>3. LevelsAre'
    BY <2>1, <2>2, LevelNext DEF LevelsAre
  <2>4. \A p \in Pids : HomeOf[p] \notin applying'
    BY <1>4 DEF Lending
  <2>5. Told(skip, sent)
    BY <1>1, <2>1, <2>4, NoteIs DEF Told
  <2>. QED
    BY <2>3, <2>5
<1>5. ASSUME Lending', Queued(tickets) \cup Queued(tickets') = {}
      PROVE  LevelsAre' /\ Told(skip, sent)
  <2>1. KeepInh /\ Note({}, sent)
    BY <1>5 DEF RelevelAll
  <2>2. \A p \in Pids : InhFormula(p)' = Inf /\ InhFormula(p) = Inf
    BY <1>5, NoLevelNext, NobodyLends
  <2>3. \A p \in Pids : Level(p) = Inf
    BY <2>2 DEF LevelsAre
  <2>4. \A p \in DOMAIN recs' : inh'[p] = Inf
    BY <1>1, <2>1, <2>3 DEF KeepInh, Kept, Level
  <2>5. LevelsAre'
    BY <2>2, <2>4, LevelNext DEF LevelsAre
  <2>6. \A p \in Pids : Level(p)' = Level(p)
    BY <2>2, <2>3, <2>5 DEF LevelsAre
  <2>7. Told(skip, sent)
    BY <1>1, <2>1, <2>6, NoteIs DEF Told
  <2>. QED
    BY <2>5, <2>7
<1>6. ASSUME Lending', Queued(tickets) \cup Queued(tickets') # {}
      PROVE  LevelsAre' /\ Told(skip, sent)
  <2>1. PICK due : due = {p \in A \ skip : now(p) # old(p) /\ HomeOf[p] \in applying'}
    OBVIOUS
  <2>2. /\ inh' = [p \in DOMAIN recs' |->
                      IF p \in A THEN RecomputeInh(p)'
                      ELSE IF p \in DOMAIN recs THEN inh[p] ELSE Inf]
        /\ Note({p \in {q \in A : now(q) # old(q)} \ skip : HomeOf[p] \in applying'}, sent)
    BY <1>3, <1>6 DEF RelevelAll
  <2>3. {p \in {q \in A : now(q) # old(q)} \ skip : HomeOf[p] \in applying'} = due
    BY <2>1
  <2>. HIDE DEF old, now
  <2>4. Note(due, sent)
    BY <2>2, <2>3
  <2>5. \A p \in Pids : RecomputeInh(p)' = InhFormula(p)'
    BY FormulaIsNext
  <2>6. ASSUME NEW p \in Pids, p \notin A
        PROVE  InhFormula(p)' = InhFormula(p)
    <3>1. CASE Lending
      <4>1. PICK N : N = seeds \cup Granted
        OBVIOUS
      <4>2. p \notin Ball(Edges, seeds) /\ p \notin Ball(Edges', N)
        BY <1>3, <2>6, <3>1, <4>1 DEF SetA
      <4>3. N \in SUBSET Pids /\ seeds \subseteq N
        BY <1>1, <4>1 DEF Granted
      <4>4. EdgesMove(seeds, N)
        BY <4>1 DEF Moves
      <4>5. \A q \in DOMAIN recs \ seeds : priority'[q] = priority[q] /\ (Lends(q)' <=> Lends(q))
        BY DEF Moves
      <4>. QED
        BY <4>2, <4>3, <4>4, <4>5, FormulaKept
    <3>2. CASE ~Lending
      <4>1. InhFormula(p) = Inf
        BY <3>2, NobodyLends
      <4>2. InhFormula(p)' = Inf
        BY <1>3, <2>6, <3>2, NoLevelNext
      <4>. QED
        BY <4>1, <4>2
    <3>. QED
      BY <3>1, <3>2
  <2>7. ASSUME NEW p \in DOMAIN recs'
        PROVE  inh'[p] = InhFormula(p)'
    <3>1. p \in Pids
      BY <1>1
    <3>2. CASE p \in A
      BY <2>2, <2>5, <3>1, <3>2
    <3>3. CASE p \notin A
      <4>1. inh'[p] = Level(p)
        BY <2>2, <3>3 DEF Level
      <4>. QED
        BY <2>6, <3>1, <3>3, <4>1 DEF LevelsAre
    <3>. QED
      BY <3>2, <3>3
  <2>8. LevelsAre'
    BY <2>7, LevelNext DEF LevelsAre
  <2>9. \A p \in Pids : p \notin A => Level(p)' = Level(p)
    BY <2>6, <2>8 DEF LevelsAre
  <2>10. \A p \in Pids : p \notin due /\ HomeOf[p] \in applying' /\ p \notin skip
            => Level(p)' = Level(p)
    BY <1>2, <2>1, <2>9
  <2>11. \A p \in due : HomeOf[p] \in applying'
    BY <2>1
  <2>12. Told(skip, sent)
    BY <1>1, <2>4, <2>10, <2>11, NoteIs DEF Told
  <2>. QED
    BY <2>8, <2>12
<1>. QED
  BY <1>4, <1>5, <1>6

\* An operation that moves no edge keeps every level, and has nobody to tell.
LEMMA LevelsStay ==
    ASSUME IInv, IInv', BaseIs, BaseIs', LevelsAre, EdgesMove({}, {}),
           \A q \in DOMAIN recs : priority'[q] = priority[q] /\ (Lends(q)' <=> Lends(q)),
           \A p \in DOMAIN recs' : inh'[p] = Level(p)
    PROVE  LevelsAre' /\ \A p \in Pids : Level(p)' = Level(p)
<1>1. \A p \in Pids : InhFormula(p)' = InhFormula(p)
  BY FormulaStays
<1>2. DOMAIN recs' \subseteq Pids
  BY RecsArePidsNext
<1>3. \A p \in DOMAIN recs' : inh'[p] = InhFormula(p)'
  BY <1>1, <1>2 DEF LevelsAre
<1>4. LevelsAre'
  BY <1>3, LevelNext DEF LevelsAre
<1>. QED
  BY <1>1, <1>4 DEF LevelsAre

LEMMA NoRelevelKeeps ==
    ASSUME IInv, IInv', BaseIs, BaseIs', LevelsAre, EdgesMove({}, {}), NoRelevel,
           notes \in [Pids -> Nat]
    PROVE  LevelsAre' /\ Told({}, notes)
<1>1. /\ KeepInh /\ pending' = KeptPending
      /\ UNCHANGED <<applying, priority, notes>>
  BY DEF NoRelevel, homeSide
<1>2. DOMAIN recs' \subseteq Pids
  BY RecsArePidsNext
<1>3. \A p \in DOMAIN recs' : inh'[p] = Level(p)
  BY <1>1, <1>2 DEF KeepInh, Kept, Level
<1>4. \A q \in DOMAIN recs : priority'[q] = priority[q] /\ (Lends(q)' <=> Lends(q))
  BY <1>1 DEF Lends
<1>5. LevelsAre' /\ \A p \in Pids : Level(p)' = Level(p)
  BY <1>3, <1>4, LevelsStay
<1>6. \A p \in Pids : Awaited(p)' => Awaited(p)
  BY <1>1, <1>2, KeptPendingIs DEF Awaited
<1>. QED
  BY <1>1, <1>5, <1>6 DEF Told

-----------------------------------------------------------------------------
(* What a scheduler uses. *)

\* A record whose flag is set has a note, notes go to homes that use priorities,
\* and who has none uses the level there is.
NoteInv ==
    /\ notes \in [Pids -> Nat] /\ DOMAIN inherited = Pids /\ applying \subseteq homes
    /\ \A p \in Pids :
        /\ Awaited(p) => notes[p] > 0
        /\ notes[p] > 0 => HomeOf[p] \in applying
        /\ notes[p] = 0 => inherited[p] = IF HomeOf[p] \in applying THEN Level(p) ELSE Inf

\* What a step does to a process besides its notes: nothing; or it has ended; or its
\* home is gone, with its notes; or a home is attached for it.
Untouched(p, skip, sent) ==
    /\ sent[p] = notes[p] /\ inherited'[p] = inherited[p] /\ p \notin skip
    /\ HomeOf[p] \in applying' <=> HomeOf[p] \in applying

Ended(p, sent) ==
    /\ sent[p] = notes[p] /\ inherited'[p] = Inf /\ p \notin DOMAIN recs'
    /\ HomeOf[p] \in applying' <=> HomeOf[p] \in applying

HomeGone(p, sent) ==
    sent[p] = 0 /\ inherited'[p] = Inf /\ p \notin DOMAIN recs' /\ HomeOf[p] \notin applying'

HomeNew(p, sent) ==
    /\ sent[p] = notes[p] /\ inherited'[p] = inherited[p]
    /\ p \notin DOMAIN recs \cup DOMAIN recs' /\ HomeOf[p] \in applying' \ applying

LEMMA NotesKept ==
    ASSUME NoteInv, NEW skip, NEW sent \in [Pids -> Nat], Told(skip, sent),
           DOMAIN inherited' = Pids, applying' \subseteq homes',
           \A p \in Pids : \/ Untouched(p, skip, sent) \/ Ended(p, sent)
                           \/ HomeGone(p, sent) \/ HomeNew(p, sent)
    PROVE  NoteInv'
<1>1. ASSUME NEW p \in Pids
      PROVE  /\ Awaited(p)' => notes'[p] > 0
             /\ notes'[p] > 0 => HomeOf[p] \in applying'
             /\ notes'[p] = 0 =>
                  inherited'[p] = IF HomeOf[p] \in applying' THEN Level(p)' ELSE Inf
  <2>1. /\ notes[p] \in Nat
        /\ Awaited(p) => notes[p] > 0
        /\ notes[p] > 0 => HomeOf[p] \in applying
        /\ notes[p] = 0 => inherited[p] = IF HomeOf[p] \in applying THEN Level(p) ELSE Inf
    BY DEF NoteInv
  <2>2. /\ notes'[p] \in Nat /\ sent[p] \in Nat
        /\ notes'[p] = sent[p] \/ (notes'[p] = sent[p] + 1 /\ HomeOf[p] \in applying')
        /\ Awaited(p)' => notes'[p] = sent[p] + 1 \/ Awaited(p)
        /\ notes'[p] = sent[p] /\ HomeOf[p] \in applying' /\ p \notin skip
              => Level(p)' = Level(p) \/ Awaited(p)
    BY DEF Told
  <2>3. /\ p \notin DOMAIN recs => Level(p) = Inf /\ ~Awaited(p)
        /\ p \notin DOMAIN recs' => Level(p)' = Inf /\ ~Awaited(p)'
    BY DEF Level, Awaited
  <2>4. CASE Untouched(p, skip, sent)
    BY <2>1, <2>2, <2>4 DEF Untouched
  <2>5. CASE Ended(p, sent)
    BY <2>1, <2>2, <2>3, <2>5 DEF Ended
  <2>6. CASE HomeGone(p, sent)
    BY <2>2, <2>3, <2>6 DEF HomeGone
  <2>7. CASE HomeNew(p, sent)
    BY <2>1, <2>2, <2>3, <2>7 DEF HomeNew
  <2>. QED
    BY <2>4, <2>5, <2>6, <2>7
<1>. QED
  BY <1>1 DEF NoteInv, Told

-----------------------------------------------------------------------------
(* Every step. *)

\* One whose relevel_all visits the processes that its edges and priorities change.
LEMMA RelevelKeeps ==
    ASSUME IInv, IInv', BaseIs, BaseIs', LevelsAre, NoteInv,
           NEW seeds \in SUBSET Pids, Moves(seeds), RelevelAll(seeds, {}, notes),
           UNCHANGED <<applying, inherited>>, homes' = homes
    PROVE  LevelsAre' /\ NoteInv'
<1>1. notes \in [Pids -> Nat] /\ DOMAIN inherited = Pids /\ applying \subseteq homes
  BY DEF NoteInv
<1>2. LevelsAre' /\ Told({}, notes)
  BY <1>1, RelevelLevels
<1>3. \A p \in Pids : Untouched(p, {}, notes)
  BY DEF Untouched
<1>. QED
  BY <1>1, <1>2, <1>3, NotesKept

\* One that moves no edge.
LEMMA NoRelevelSteps ==
    ASSUME IInv, IInv', BaseIs, BaseIs', LevelsAre, NoteInv, EdgesMove({}, {}), NoRelevel,
           homes' = homes
    PROVE  LevelsAre' /\ NoteInv'
<1>1. notes \in [Pids -> Nat] /\ DOMAIN inherited = Pids /\ applying \subseteq homes
  BY DEF NoteInv
<1>2. LevelsAre' /\ Told({}, notes)
  BY <1>1, NoRelevelKeeps
<1>3. applying' = applying /\ inherited' = inherited
  BY DEF NoRelevel, homeSide
<1>4. \A p \in Pids : Untouched(p, {}, notes)
  BY <1>3 DEF Untouched
<1>. QED
  BY <1>1, <1>2, <1>3, <1>4, NotesKept

\* One of a home or a scheduler that the table sees nothing of.
LEMMA TableStays ==
    ASSUME IInv, IInv', BaseIs, BaseIs', LevelsAre, UNCHANGED <<vars, applying, inh>>,
           \A q \in DOMAIN recs : priority'[q] = priority[q]
    PROVE  LevelsAre' /\ \A p \in Pids : Level(p)' = Level(p)
<1>1. Quiet /\ recs' = recs
  BY DEF vars, counters, Quiet, QueueStays, Alike
<1>2. EdgesMove({}, {})
  BY <1>1, QuietEdges
<1>3. \A q \in DOMAIN recs : priority'[q] = priority[q] /\ (Lends(q)' <=> Lends(q))
  BY DEF Lends
<1>4. \A p \in DOMAIN recs' : inh'[p] = Level(p)
  BY <1>1 DEF Level
<1>. QED
  BY <1>2, <1>3, <1>4, LevelsStay

LEMMA AttachLevels ==
    ASSUME IInv, IInv', BaseIs, BaseIs', LevelsAre, NoteInv,
           NEW prio \in BOOLEAN, AttachPrioHome(prio)
    PROVE  LevelsAre' /\ NoteInv'
<1>1. /\ AttachHome
      /\ applying' = IF prio THEN applying \cup {nextHome} ELSE applying
      /\ UNCHANGED <<priority, inherited>>
      /\ RelevelAll({}, {}, notes)
  BY DEF AttachPrioHome
<1>2. homes' = homes \cup {nextHome} /\ recs' = recs
  BY <1>1 DEF AttachHome
<1>3. /\ notes \in [Pids -> Nat] /\ DOMAIN inherited = Pids /\ applying \subseteq homes
  BY DEF NoteInv
<1>4. nextHome \notin homes /\ \A p \in DOMAIN recs : HomeOf[p] \in homes
  BY DEF IInv, TypeOK, RecordsMatch
<1>5. EdgesMove({}, {} \cup Granted)
  <2>1. EdgesMove({}, {})
    BY <1>1, AttachHomeIsQuiet, QuietEdges
  <2>. QED
    BY <2>1, EdgesMoveMore
<1>6. \A q \in DOMAIN recs : priority'[q] = priority[q] /\ (Lends(q)' <=> Lends(q))
  BY <1>1, <1>4 DEF Lends
<1>7. Moves({})
  BY <1>5, <1>6 DEF Moves
<1>8. LevelsAre' /\ Told({}, notes)
  BY <1>1, <1>3, <1>7, RelevelLevels
<1>9. \A p \in Pids : Untouched(p, {}, notes) \/ HomeNew(p, notes)
  <2>. SUFFICES ASSUME NEW p \in Pids PROVE Untouched(p, {}, notes) \/ HomeNew(p, notes)
    OBVIOUS
  <2>1. CASE HomeOf[p] = nextHome /\ prio
    <3>1. p \notin DOMAIN recs \cup DOMAIN recs' /\ HomeOf[p] \in applying' \ applying
      BY <1>1, <1>2, <1>3, <1>4, <2>1
    <3>. QED
      BY <1>1, <3>1 DEF HomeNew
  <2>2. CASE ~(HomeOf[p] = nextHome /\ prio)
    <3>1. HomeOf[p] \in applying' <=> HomeOf[p] \in applying
      BY <1>1, <2>2
    <3>. QED
      BY <1>1, <3>1 DEF Untouched
  <2>. QED
    BY <2>1, <2>2
<1>10. DOMAIN inherited' = Pids /\ applying' \subseteq homes'
  BY <1>1, <1>2, <1>3
<1>. QED
  BY <1>3, <1>8, <1>9, <1>10, NotesKept

LEMMA DetachLevels ==
    ASSUME IInv, IInv', TakenOwn(holds), BaseIs, BaseIs', LevelsAre, NoteInv,
           NEW h \in homes, DetachPrioHome(h)
    PROVE  LevelsAre' /\ NoteInv'
<1>1. PICK E : E = {p \in DOMAIN recs : HomeOf[p] = h}
  OBVIOUS
<1>2. PICK mine : mine = {p \in Pids : HomeOf[p] = h}
  OBVIOUS
<1>3. PICK sent : sent = [p \in Pids |-> IF p \in mine THEN 0 ELSE notes[p]]
  OBVIOUS
<1>4. /\ DetachHome(h) /\ applying' = applying \ {h} /\ priority' = priority
      /\ inherited' = [p \in Pids |-> IF p \in mine THEN Inf ELSE inherited[p]]
      /\ RelevelAll(E, E, sent)
  BY <1>1, <1>2, <1>3 DEF DetachPrioHome
<1>5. homes' = homes \ {h}
  BY <1>4 DEF DetachHome
<1>6. notes \in [Pids -> Nat] /\ DOMAIN inherited = Pids /\ applying \subseteq homes
  BY DEF NoteInv
<1>7. sent \in [Pids -> Nat]
  BY <1>3, <1>6
<1>8. DOMAIN recs \subseteq Pids /\ DOMAIN recs' \subseteq Pids
  BY RecsArePids, RecsArePidsNext
<1>9. \A p \in DOMAIN recs' : HomeOf[p] \in homes'
  BY DEF IInv, RecordsMatch
<1>10. EdgesMove(E, E \cup Granted)
  <2>1. Passes({p \in DOMAIN recs : HomeOf[p] = h})
    BY <1>4, DetachHomePasses
  <2>2. Passes(E)
    BY <1>1, <2>1
  <2>. QED
    BY <2>2, PassesEdges
<1>11. \A q \in DOMAIN recs \ E : priority'[q] = priority[q] /\ (Lends(q)' <=> Lends(q))
  BY <1>1, <1>4 DEF Lends
<1>12. Moves(E) /\ E \in SUBSET Pids
  BY <1>1, <1>8, <1>10, <1>11 DEF Moves
<1>13. LevelsAre' /\ Told(E, sent)
  BY <1>4, <1>7, <1>12, RelevelLevels
<1>14. ASSUME NEW p \in Pids
       PROVE  Untouched(p, E, sent) \/ HomeGone(p, sent)
  <2>1. CASE p \in mine
    <3>1. sent[p] = 0 /\ inherited'[p] = Inf
      BY <1>3, <1>4, <2>1
    <3>2. p \notin DOMAIN recs' /\ HomeOf[p] \notin applying'
      BY <1>2, <1>4, <1>5, <1>9, <2>1
    <3>. QED
      BY <3>1, <3>2 DEF HomeGone
  <2>2. CASE p \notin mine
    <3>1. sent[p] = notes[p] /\ inherited'[p] = inherited[p]
      BY <1>3, <1>4, <2>2
    <3>2. p \notin E /\ (HomeOf[p] \in applying' <=> HomeOf[p] \in applying)
      BY <1>1, <1>2, <1>4, <2>2
    <3>. QED
      BY <3>1, <3>2 DEF Untouched
  <2>. QED
    BY <2>1, <2>2
<1>15. DOMAIN inherited' = Pids /\ applying' \subseteq homes'
  BY <1>4, <1>5, <1>6
<1>. QED
  BY <1>7, <1>13, <1>14, <1>15, NotesKept

LEMMA TryAcquireLevels ==
    ASSUME IInv, IInv', BaseIs, BaseIs', LevelsAre, NoteInv,
           NEW p \in Pids, NEW r \in Requests, TryAcquireHold(p, r)
    PROVE  LevelsAre' /\ NoteInv'
<1>1. TryAcquire(p, r) /\ NoRelevel
  BY DEF TryAcquireHold
<1>2. AtOnce(p, r) /\ homes' = homes
  BY <1>1, TryAcquireIsAtOnce DEF TryAcquire
<1>3. EdgesMove({}, {})
  BY <1>2, AtOnceEdges
<1>. QED
  BY <1>1, <1>2, <1>3, NoRelevelSteps

LEMMA BlockLevels ==
    ASSUME IInv, IInv', BaseIs, BaseIs', LevelsAre, NoteInv,
           NEW p \in Pids, NEW r \in Requests, BlockRequest(p, r)
    PROVE  LevelsAre' /\ NoteInv'
<1>1. /\ MayRequest(p, r) /\ homes' = homes
      /\ BlockGranted(p, r) \/ BlockBusy(p, r)
      /\ IF tickets'[nextSeq'].state = "queued" THEN Relevel({p}) ELSE NoRelevel
  BY DEF BlockRequest, Block
<1>2. EdgesMove({}, {p}) /\ (tickets'[nextSeq'].state # "queued" => EdgesMove({}, {}))
  <2>1. CASE BlockGranted(p, r)
    <3>1. EdgesMove({}, {})
      BY <1>1, <2>1, BlockGrantedIsAtOnce, AtOnceEdges
    <3>. QED
      BY <3>1, EdgesMoveMore
  <2>2. CASE BlockBusy(p, r)
    <3>1. Refused(p, r)
      BY <1>1, <2>2, BlockBusyIsRefused
    <3>2. nextSeq' = SeqInf
      BY <2>2 DEF BlockBusy, AddTicket, SeqInf
    <3>3. tickets'[nextSeq'].state # "queued" => Queued(tickets') = Queued(tickets)
      BY <3>1, <3>2 DEF Refused, Queued
    <3>. QED
      BY <3>1, <3>3, RefusedEdges
  <2>. QED
    BY <1>1, <2>1, <2>2
<1>3. CASE tickets'[nextSeq'].state = "queued"
  <2>1. /\ UNCHANGED <<applying, priority, inherited>>
        /\ RelevelAll({p}, {}, notes)
    BY <1>1, <1>3 DEF Relevel
  <2>2. EdgesMove({p}, {p} \cup Granted)
    BY <1>2, EdgesMoveMore
  <2>3. Moves({p})
    BY <2>1, <2>2 DEF Moves, Lends
  <2>. QED
    BY <1>1, <2>1, <2>3, RelevelKeeps
<1>4. CASE tickets'[nextSeq'].state # "queued"
  BY <1>1, <1>2, <1>4, NoRelevelSteps
<1>. QED
  BY <1>3, <1>4

\* Cancel and release, whose seed is the process they take from.
LEMMA PassLevels ==
    ASSUME IInv, IInv', BaseIs, BaseIs', LevelsAre, NoteInv,
           NEW p \in Pids, Passes({p}), Relevel({p}), homes' = homes
    PROVE  LevelsAre' /\ NoteInv'
<1>1. /\ UNCHANGED <<applying, priority, inherited>>
      /\ RelevelAll({p}, {}, notes)
  BY DEF Relevel
<1>2. EdgesMove({p}, {p} \cup Granted)
  BY PassesEdges
<1>3. Moves({p})
  BY <1>1, <1>2 DEF Moves, Lends
<1>. QED
  BY <1>1, <1>3, RelevelKeeps

LEMMA EndLevels ==
    ASSUME IInv, IInv', TakenOwn(holds), BaseIs, BaseIs', LevelsAre, NoteInv,
           NEW p \in Pids, NEW abandon \in BOOLEAN, EndProcess(p, abandon)
    PROVE  LevelsAre' /\ NoteInv'
<1>1. /\ End(p, abandon) /\ UNCHANGED <<applying, priority>>
      /\ inherited' = [q \in Pids |-> IF q \in {p} THEN Inf ELSE inherited[q]]
      /\ RelevelAll({p}, {p}, notes)
  BY DEF EndProcess, RelevelEnded
<1>2. homes' = homes
  BY <1>1 DEF End
<1>3. p \notin DOMAIN recs'
  <2>1. EndAll({p}, abandon)
    BY <1>1 DEF End
  <2>2. PICK R, H, T, flags, region :
            Finish(R, H, T, flags, region, {}) /\ R = [q \in DOMAIN recs \ {p} |-> recs[q]]
    BY <2>1 DEF EndAll
  <2>3. \E G : recs' = DropEmpty(GrantRecs(R, T, G), {})
    BY <2>2 DEF Finish
  <2>4. DOMAIN recs' \subseteq DOMAIN R
    BY <2>3 DEF DropEmpty, GrantRecs
  <2>. QED
    BY <2>2, <2>4
<1>4. Passes({p})
  BY <1>1, EndPasses
<1>5. EdgesMove({p}, {p} \cup Granted)
  BY <1>4, PassesEdges
<1>6. Moves({p})
  BY <1>1, <1>5 DEF Moves, Lends
<1>7. notes \in [Pids -> Nat] /\ DOMAIN inherited = Pids /\ applying \subseteq homes
  BY DEF NoteInv
<1>8. LevelsAre' /\ Told({p}, notes)
  BY <1>1, <1>6, <1>7, RelevelLevels
<1>9. \A q \in Pids : Untouched(q, {p}, notes) \/ Ended(q, notes)
  BY <1>1, <1>3 DEF Untouched, Ended
<1>10. DOMAIN inherited' = Pids /\ applying' \subseteq homes'
  BY <1>1, <1>2, <1>7
<1>. QED
  BY <1>7, <1>8, <1>9, <1>10, NotesKept

LEMMA ReniceLevels ==
    ASSUME IInv, IInv', BaseIs, BaseIs', LevelsAre, NoteInv,
           NEW p \in Pids, NEW v \in Priorities, Renice(p, v)
    PROVE  LevelsAre' /\ NoteInv'
<1>1. /\ priority' = [priority EXCEPT ![p] = v]
      /\ UNCHANGED <<vars, applying, inherited>>
      /\ p \in DOMAIN recs => RelevelAll({p}, {}, notes)
      /\ p \notin DOMAIN recs => UNCHANGED <<levels, notes>>
  BY DEF Renice
<1>2. homes' = homes /\ recs' = recs /\ Quiet
  BY <1>1 DEF vars, counters, Quiet, QueueStays, Alike
<1>3. \A q \in DOMAIN recs : q # p => priority'[q] = priority[q]
  <2>1. DOMAIN priority = Pids /\ DOMAIN recs \subseteq Pids
    BY RecsArePids DEF BaseIs
  <2>. QED
    BY <1>1, <2>1
<1>4. CASE p \in DOMAIN recs
  <2>1. EdgesMove({p}, {p} \cup Granted)
    <3>1. EdgesMove({}, {})
      BY <1>2, QuietEdges
    <3>. QED
      BY <3>1, EdgesMoveMore
  <2>2. Moves({p})
    BY <1>1, <1>3, <2>1 DEF Moves, Lends
  <2>. QED
    BY <1>1, <1>2, <1>4, <2>2, RelevelKeeps
<1>5. CASE p \notin DOMAIN recs
  <2>1. UNCHANGED <<inh, pending, notes>>
    BY <1>1, <1>5 DEF levels
  <2>2. LevelsAre' /\ \A q \in Pids : Level(q)' = Level(q)
    BY <1>1, <1>3, <1>5, <2>1, TableStays
  <2>3. \A q \in Pids : Awaited(q)' <=> Awaited(q)
    BY <1>2, <2>1 DEF Awaited
  <2>4. NoteInv'
    BY <1>1, <1>2, <2>1, <2>2, <2>3 DEF NoteInv
  <2>. QED
    BY <2>2, <2>4
<1>. QED
  BY <1>4, <1>5

LEMMA ApplyLevels ==
    ASSUME IInv, IInv', BaseIs, BaseIs', LevelsAre, NoteInv, NEW p \in Pids, ApplyRelevel(p)
    PROVE  LevelsAre' /\ NoteInv'
<1>1. /\ notes[p] > 0 /\ notes' = [notes EXCEPT ![p] = @ - 1]
      /\ inherited' = [inherited EXCEPT ![p] = IF p \in DOMAIN recs THEN inh[p] ELSE Inf]
      /\ pending' = [q \in DOMAIN recs |-> pending[q] /\ q # p]
      /\ UNCHANGED <<vars, applying, inh, priority>>
  BY DEF ApplyRelevel
<1>2. LevelsAre' /\ \A q \in Pids : Level(q)' = Level(q)
  BY <1>1, TableStays
<1>3. recs' = recs /\ homes' = homes
  BY <1>1 DEF vars
<1>4. /\ notes \in [Pids -> Nat] /\ DOMAIN inherited = Pids /\ applying \subseteq homes
      /\ \A q \in Pids :
          /\ Awaited(q) => notes[q] > 0
          /\ notes[q] > 0 => HomeOf[q] \in applying
          /\ notes[q] = 0 => inherited[q] = IF HomeOf[q] \in applying THEN Level(q) ELSE Inf
  BY DEF NoteInv
<1>5. \A q \in Pids : Awaited(q)' => Awaited(q) /\ q # p
  BY <1>1, <1>3 DEF Awaited
<1>6. /\ notes' \in [Pids -> Nat] /\ DOMAIN inherited' = Pids
      /\ notes'[p] = notes[p] - 1 /\ inherited'[p] = Level(p)
      /\ \A q \in Pids : q # p => notes'[q] = notes[q] /\ inherited'[q] = inherited[q]
  BY <1>1, <1>4 DEF Level
<1>7. ASSUME NEW q \in Pids
      PROVE  /\ Awaited(q)' => notes'[q] > 0
             /\ notes'[q] > 0 => HomeOf[q] \in applying'
             /\ notes'[q] = 0 =>
                  inherited'[q] = IF HomeOf[q] \in applying' THEN Level(q)' ELSE Inf
  <2>1. CASE q = p
    BY <1>1, <1>2, <1>4, <1>5, <1>6, <2>1
  <2>2. CASE q # p
    BY <1>1, <1>2, <1>4, <1>5, <1>6, <2>2
  <2>. QED
    BY <2>1, <2>2
<1>8. applying' \subseteq homes'
  BY <1>1, <1>3, <1>4
<1>9. NoteInv'
  BY <1>6, <1>7, <1>8 DEF NoteInv
<1>. QED
  BY <1>2, <1>9

LEMMA IdleLevels ==
    ASSUME IInv, IInv', BaseIs, BaseIs', LevelsAre, NoteInv, NEW p \in Pids, EndIdle(p)
    PROVE  LevelsAre' /\ NoteInv'
<1>1. /\ p \notin DOMAIN recs /\ inherited' = [inherited EXCEPT ![p] = Inf]
      /\ UNCHANGED <<vars, applying, inh, pending, priority, notes>>
  BY DEF EndIdle, levels
<1>2. LevelsAre' /\ \A q \in Pids : Level(q)' = Level(q)
  BY <1>1, TableStays
<1>3. recs' = recs /\ homes' = homes /\ Level(p) = Inf
  BY <1>1 DEF vars, Level
<1>4. \A q \in Pids : Awaited(q)' <=> Awaited(q)
  BY <1>1, <1>3 DEF Awaited
<1>5. /\ DOMAIN inherited' = Pids /\ inherited'[p] = Inf
      /\ \A q \in Pids : q # p => inherited'[q] = inherited[q]
  BY <1>1 DEF NoteInv
<1>6. NoteInv'
  BY <1>1, <1>2, <1>3, <1>4, <1>5 DEF NoteInv
<1>. QED
  BY <1>2, <1>6

LevelInv == LevelsAre /\ NoteInv

\* At first nothing is held, and so nothing is lent.
LEMMA FirstLevels == InheritInit /\ IInv /\ BaseIs => LevelInv
<1>. SUFFICES ASSUME InheritInit, IInv, BaseIs PROVE LevelInv
  OBVIOUS
<1>1. DOMAIN recs = {} /\ applying = {} /\ inherited = [p \in Pids |-> Inf] /\ notes = [p \in Pids |-> 0]
  BY DEF InheritInit, Init, Empty
<1>2. LevelsAre
  BY <1>1, NoRecNoLevel DEF LevelsAre, Level
<1>3. NoteInv
  BY <1>1 DEF NoteInv, Awaited
<1>. QED
  BY <1>2, <1>3 DEF LevelInv

LEMMA LevelStep ==
    IInv /\ IInv' /\ QueueInv /\ BaseIs /\ BaseIs' /\ LevelInv /\ [InheritNext]_ivars => LevelInv'
<1>. SUFFICES ASSUME IInv, IInv', QueueInv, BaseIs, BaseIs', LevelsAre, NoteInv,
                     [InheritNext]_ivars
              PROVE  LevelInv'
  BY DEF LevelInv
<1>1. TakenOwn(holds)
  BY DEF QueueInv, ReportsInv
<1>2. ASSUME NEW prio \in BOOLEAN, AttachPrioHome(prio) PROVE LevelInv'
  BY <1>2, AttachLevels DEF LevelInv
<1>3. ASSUME NEW h \in homes, DetachPrioHome(h) PROVE LevelInv'
  BY <1>1, <1>3, DetachLevels DEF LevelInv
<1>4. ASSUME NEW p \in Pids, NEW r \in Requests, TryAcquireHold(p, r) PROVE LevelInv'
  BY <1>4, TryAcquireLevels DEF LevelInv
<1>5. ASSUME NEW p \in Pids, NEW r \in Requests, BlockRequest(p, r) PROVE LevelInv'
  BY <1>5, BlockLevels DEF LevelInv
<1>6. ASSUME NEW p \in Pids, ResumeWaiter(p) PROVE LevelInv'
  <2>1. Resume(p) /\ NoRelevel /\ homes' = homes
    BY <1>6 DEF ResumeWaiter, Resume
  <2>2. EdgesMove({}, {})
    BY <2>1, ResumeIsQuiet, QuietEdges
  <2>. QED
    BY <2>1, <2>2, NoRelevelSteps DEF LevelInv
<1>7. ASSUME NEW p \in Pids, CancelWait(p) PROVE LevelInv'
  <2>1. Cancel(p) /\ Relevel({p}) /\ homes' = homes
    BY <1>7 DEF CancelWait, Cancel
  <2>. QED
    BY <2>1, CancelPasses, PassLevels DEF LevelInv
<1>8. ASSUME NEW p \in Pids, NEW i \in HoldIds(recs, p), StartHold(p, i) PROVE LevelInv'
  <2>1. StartBody(p, i) /\ NoRelevel /\ homes' = homes
    BY <1>8 DEF StartHold, StartBody
  <2>2. EdgesMove({}, {})
    BY <2>1, StartBodyIsQuiet, QuietEdges
  <2>. QED
    BY <2>1, <2>2, NoRelevelSteps DEF LevelInv
<1>9. ASSUME NEW p \in Pids, NEW i \in HoldIds(recs, p), ReleaseHold(p, i) PROVE LevelInv'
  <2>1. Release(p, i) /\ Relevel({p}) /\ homes' = homes
    BY <1>9 DEF ReleaseHold, Release
  <2>. QED
    BY <1>1, <2>1, ReleasePasses, PassLevels DEF LevelInv
<1>10. ASSUME NEW p \in Pids, NEW abandon \in BOOLEAN, EndProcess(p, abandon) PROVE LevelInv'
  BY <1>1, <1>10, EndLevels DEF LevelInv
<1>11. ASSUME NEW p \in Pids, NEW v \in Priorities, Renice(p, v) PROVE LevelInv'
  BY <1>11, ReniceLevels DEF LevelInv
<1>12. ASSUME NEW p \in Pids, ApplyRelevel(p) PROVE LevelInv'
  BY <1>12, ApplyLevels DEF LevelInv
<1>13. ASSUME NEW p \in Pids, EndIdle(p) PROVE LevelInv'
  BY <1>13, IdleLevels DEF LevelInv
<1>14. CASE UNCHANGED ivars
  <2>1. UNCHANGED <<vars, applying, inh, pending, priority, inherited, notes>>
    BY <1>14 DEF ivars, levels, homeSide
  <2>2. LevelsAre' /\ \A q \in Pids : Level(q)' = Level(q)
    BY <2>1, TableStays
  <2>3. recs' = recs /\ homes' = homes
    BY <2>1 DEF vars
  <2>4. \A q \in Pids : Awaited(q)' <=> Awaited(q)
    BY <2>1, <2>3 DEF Awaited
  <2>5. NoteInv'
    BY <2>1, <2>2, <2>3, <2>4 DEF NoteInv
  <2>. QED
    BY <2>2, <2>5 DEF LevelInv
<1>. QED
  BY <1>2, <1>3, <1>4, <1>5, <1>6, <1>7, <1>8, <1>9, <1>10, <1>11, <1>12, <1>13, <1>14
  DEF InheritNext

LEMMA LevelInvariance == InheritSpec => [](IInv /\ BaseIs /\ LevelInv)
<1>1. InheritSpec => Spec
  BY InheritsTable
<1>. QED
  BY <1>1, Invariance, QueueInvariance, InitBase, NextBase, FirstLevels, LevelStep, PTL
  DEF InheritSpec

\* I8, manager clause, for any processes and any bound on paths: though relevel_all
\* visits only what is near its seeds, no record's level ever differs from what the
\* whole graph gives.
THEOREM LevelsAreExact == InheritSpec => []LevelsExact
<1>1. IInv /\ LevelInv => LevelsExact
  BY RecsArePids DEF LevelInv, LevelsAre, Level, LevelsExact
<1>. QED
  BY <1>1, LevelInvariance, PTL

\* I8, quiescent clause: a scheduler without a note on its way uses the table's level,
\* though a second change sends no second note.
THEOREM NotesDoArrive == InheritSpec => []NotesArrive
<1>1. LevelInv => NotesArrive
  BY DEF LevelInv, NoteInv, Level, NotesArrive
<1>. QED
  BY <1>1, LevelInvariance, PTL

\* What inheritance is for.  A waiter is a source of whoever blocks it, by a path of
\* one edge, and no level is worse than a source's priority.
LEMMA LevelsPreventInversion == IInv /\ BaseIs /\ LevelInv => NoInversion
<1>. SUFFICES ASSUME IInv, BaseIs, LevelInv, \A p \in Pids : notes[p] = 0,
                     NEW q \in Pids, NEW p \in Succ(q), HomeOf[p] \in applying, Lends(q)
              PROVE  inherited[p] <= priority[q]
  BY DEF NoInversion
<1>1. Edges \in [Pids -> SUBSET Pids] /\ Edges[q] = Succ(q)
  BY EdgesRead DEF EdgesAre, Edges
<1>2. p \in Pids /\ p # q
  BY <1>1, EdgesRead DEF EdgesOfRecs
<1>3. Leads(Edges, q, p)
  <2>1. Ball(Edges, {q}) = {s \in Pids : \E u \in {q} : Leads(Edges, u, s)}
    BY <1>1, BallLeads
  <2>2. p \in Ball(Edges, {q})
    BY <1>1, BallHas
  <2>. QED
    BY <2>1, <2>2
<1>4. q \in Sources(p)
  BY <1>2, <1>3 DEF Sources
<1>5. \A r \in Sources(p) : priority[r] \in Nat
  <2>1. Priorities \subseteq Nat
    BY InheritAssumption
  <2>. QED
    BY <2>1 DEF BaseIs, Sources
<1>6. InhFormula(p) <= priority[q]
  <2>1. PICK S : S = {priority[r] : r \in Sources(p)}
    OBVIOUS
  <2>2. S \in SUBSET Nat /\ priority[q] \in S /\ InhFormula(p) = Best(S)
    BY <1>2, <1>4, <1>5, <2>1, FormulaIs
  <2>3. \A n \in S \cup {Inf} : Best(S) <= n
    BY <2>2, BestIs
  <2>. QED
    BY <2>2, <2>3
<1>7. inherited[p] = InhFormula(p)
  BY <1>2 DEF LevelInv, NoteInv, LevelsAre
<1>. QED
  BY <1>6, <1>7

\* For any processes, priorities and bound on paths: when every note has been applied
\* nobody on a scheduler with priorities delays one that lends a better priority.
THEOREM NoInversionHolds == InheritSpec => []NoInversion
  BY LevelsPreventInversion, LevelInvariance, PTL

=============================================================================
