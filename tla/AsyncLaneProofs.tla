--------------------------- MODULE AsyncLaneProofs ---------------------------
(***************************************************************************)
(* Proofs about AsyncLane for every set of lanes and threads, every        *)
(* relation of who may stop whom, and every bound on jobs and calls.       *)
(*                                                                         *)
(* The stacks are well nested (Proper): a job sits directly on the scope   *)
(* of its own lane, and only a job has anything above it.  One drain of a  *)
(* deferred lane is running at most (Sole), so a lane runs one job at most *)
(* (Alone); its queue holds, in order, all it took after that one (Order), *)
(* and its count is that of both together (Counted).                       *)
(***************************************************************************)
EXTENDS AsyncLane, FiniteSetTheorems, SequenceTheorems, TLAPS

Base == {"loop", "asleep"}
Drains == {"size", "drain", "flush"}
Jobbing == {"job", "count"}
Taking == {"loop", "drain", "flush"}

\* The frame f may be the lowest of thread t.
OnFloor(t, f) == IF t \in Threaded THEN f.op \in Base /\ f.lane = t
                                   ELSE f.op \notin Base \cup Jobbing

\* The frame f may be directly above e.
Above(e, f) ==
    /\ f.op \notin Base
    /\ IF e.op = "job" THEN f.op \notin Jobbing
                       ELSE e.op \in Taking /\ f.op \in Jobbing /\ f.lane = e.lane

Proper(t, s) ==
    /\ s # << >> => OnFloor(t, s[1])
    /\ \A i \in 1 .. Len(s) : i < Len(s) => Above(s[i], s[i + 1])

\* What a frame says of its lane.
Apt(f) ==
    /\ f.op \in Drains \cup {"seize"} => f.lane \notin Threaded
    /\ f.op \in {"wake", "join"} => f.lane \in Threaded

Nested ==
    \A t \in Threads :
        /\ Proper(t, stack[t])
        /\ \A i \in 1 .. Len(stack[t]) : Apt(stack[t][i])

\* A stop that is under way has marked its lane, and so had one before the worker left.
Marked ==
    /\ \A t \in Threads : \A i \in 1 .. Len(stack[t]) :
        stack[t][i].op \in {"wake", "join", "seize", "flush"} => stopping[stack[t][i].lane]
    /\ \A t \in Threaded : stack[t] = << >> => stopping[t] /\ queue[t] = << >>

\* A deferred lane is drained by one call at most, and then its flag is set.
Sole ==
    \A t \in Threads : \A i \in 1 .. Len(stack[t]) : stack[t][i].op \in Drains =>
        /\ draining[stack[t][i].lane]
        /\ \A u \in Threads : \A k \in 1 .. Len(stack[u]) :
            stack[u][k].op \in Drains /\ stack[u][k].lane = stack[t][i].lane => u = t /\ k = i

\* The frame at <<t, i>> runs a job of l, or has just run one.
Runs(t, i, l) == /\ i \in 1 .. Len(stack[t])
                 /\ stack[t][i].op \in Jobbing /\ stack[t][i].lane = l

Alone ==
    \A t, u \in Threads : \A i \in 1 .. Len(stack[t]) : \A k \in 1 .. Len(stack[u]) :
        \A l \in Lanes : Runs(t, i, l) /\ Runs(u, k, l) => u = t /\ k = i

\* The queue of a lane holds, in order, jobs of that lane, and all that are later
\* than one it holds.
Queued ==
    /\ \A j \in Jobs : home[j] # None => j <= made
    /\ \A l \in Lanes :
        /\ \A k, m \in 1 .. Len(queue[l]) : k < m => queue[l][k] < queue[l][m]
        /\ \A k \in 1 .. Len(queue[l]) : home[queue[l][k]] = l
        /\ \A k \in 1 .. Len(queue[l]) : \A j \in Jobs :
            home[j] = l /\ j > queue[l][k] => j \in Range(queue[l])

\* A job that runs is one of the lane's, and those after it are queued.
Order ==
    \A t \in Threads : \A i \in 1 .. Len(stack[t]) : stack[t][i].op \in Jobbing =>
        LET f == stack[t][i] IN
        /\ f.job \in Jobs /\ home[f.job] = f.lane
        /\ \A j \in Jobs : home[j] = f.lane => (j > f.job <=> j \in Range(queue[f.lane]))

Busy(l) == \E t \in Threads : \E i \in 1 .. Len(stack[t]) : Runs(t, i, l)

Counted == \A l \in Lanes : inFlight[l] = Len(queue[l]) + (IF Busy(l) THEN 1 ELSE 0)

\* The job j is queued, or its frame is on a stack.
Waits(j) ==
    \/ \E l \in Lanes : j \in Range(queue[l])
    \/ \E t \in Threads : \E i \in 1 .. Len(stack[t]) :
        stack[t][i].op = "job" /\ stack[t][i].job = j

Answered == \A j \in Jobs : answers[j] = IF j > made \/ Waits(j) THEN 0 ELSE 1

Drained == \A l \in ended : stopping[l] /\ queue[l] = << >> /\ ~Busy(l)

Typed ==
    /\ queue \in [Lanes -> Seq(Jobs)]
    /\ stopping \in [Lanes -> BOOLEAN] /\ draining \in [Lanes -> BOOLEAN]
    /\ inFlight \in [Lanes -> Int]
    /\ stack \in [Threads -> Seq(FrameType)]
    /\ made \in 0 .. MaxJobs
    /\ home \in [Jobs -> Lanes \cup {None}] /\ answers \in [Jobs -> Nat]
    /\ ended \subseteq Lanes

Stacks == Typed /\ Nested /\ Marked /\ Sole
Rest == Queued /\ Order /\ Counted /\ Answered /\ Drained

IInv == Stacks /\ Rest

-----------------------------------------------------------------------------
(* Stacks. *)

LEMMA PushFacts ==
  ASSUME NEW S, NEW s \in Seq(S), NEW f \in S
  PROVE  /\ Append(s, f) \in Seq(S) /\ Append(s, f) # << >>
         /\ Len(s) \in Nat /\ Len(Append(s, f)) = Len(s) + 1
         /\ \A i \in 1 .. Len(s) : Append(s, f)[i] = s[i]
         /\ Append(s, f)[Len(s) + 1] = f
  BY AppendProperties

LEMMA BelowFacts ==
  ASSUME NEW S, NEW s \in Seq(S), s # << >>
  PROVE  LET b == SubSeq(s, 1, Len(s) - 1) IN
         /\ Len(s) \in Nat \ {0} /\ s[Len(s)] \in S
         /\ b \in Seq(S) /\ Len(b) = Len(s) - 1
         /\ \A i \in 1 .. Len(s) - 1 : b[i] = s[i]
  BY EmptySeq, ElementOfSeq

LEMMA StackFacts ==
  ASSUME Typed, NEW t \in Threads
  PROVE  /\ stack[t] \in Seq(FrameType) /\ Len(stack[t]) \in Nat
         /\ stack[t] = << >> <=> Len(stack[t]) = 0
         /\ \A i \in 1 .. Len(stack[t]) : stack[t][i] \in FrameType
  BY ElementOfSeq, EmptySeq DEF Typed

LEMMA FrameFacts ==
  ASSUME NEW f \in FrameType
  PROVE  f.op \in Ops /\ f.lane \in Lanes /\ f.job \in 0 .. MaxJobs /\ f.left \in Nat
  BY DEF FrameType

LEMMA CallFacts ==
  ASSUME NEW op \in Ops, NEW l \in Lanes
  PROVE  Call(op, l) \in FrameType /\ Call(op, l).op = op /\ Call(op, l).lane = l
  BY LaneLimits DEF Call, Frame, FrameType

\* The two frames differ in what is left of their calls at most.
Same(e, f) == e.op = f.op /\ e.lane = f.lane /\ e.job = f.job

Alike(s, r, n) ==
    /\ n <= Len(s) /\ n <= Len(r)
    /\ \A i \in 1 .. n : Same(s[i], r[i])

LEMMA ChargedFacts ==
  ASSUME Typed, NEW t \in Threads, stack[t] # << >> => Top(t).left > 0
  PROVE  /\ Charged(t) \in Seq(FrameType) /\ Len(Charged(t)) = Len(stack[t])
         /\ Alike(Charged(t), stack[t], Len(stack[t]))
  <1>1. CASE stack[t] = << >>
    BY <1>1, StackFacts DEF Charged, Alike
  <1>2. CASE stack[t] # << >>
    <2> DEFINE n == Len(stack[t])
               f == [stack[t][n] EXCEPT !.left = @ - 1]
    <2>1. n \in Nat \ {0} /\ stack[t] \in Seq(FrameType) /\ stack[t][n] \in FrameType
      BY <1>2, BelowFacts, StackFacts
    <2>g. stack[t][n].left \in Nat /\ stack[t][n].left > 0
      BY <1>2, <2>1 DEF Top, FrameType
    <2>h. stack[t][n].left - 1 \in Nat
      BY <2>g
    <2>2. f \in FrameType /\ Same(f, stack[t][n])
      BY <2>1, <2>h DEF FrameType, Same
    <2>3. Charged(t) = [stack[t] EXCEPT ![n] = f]
      BY <1>2 DEF Charged
    <2> HIDE DEF f
    <2>4. Charged(t) \in Seq(FrameType) /\ Len(Charged(t)) = n
      BY <2>1, <2>2, <2>3, ExceptSeq
    <2>5. \A i \in 1 .. n : Charged(t)[i] = IF i = n THEN f ELSE stack[t][i]
      BY <2>1, <2>3
    <2>6. \A i \in 1 .. n : Same(Charged(t)[i], stack[t][i])
      BY <2>2, <2>5 DEF Same
    <2>7. QED
      BY <2>1, <2>4, <2>6 DEF Alike
  <1>3. QED
    BY <1>1, <1>2

-----------------------------------------------------------------------------
(* Steps: t drops its top frame or not, and takes a new one or not, and a   *)
(* sleeping worker may wake.                                                *)

Woken(u) == /\ u \in Threaded /\ Len(stack[u]) = 1 /\ stack[u][1].op = "asleep"
            /\ stack'[u] = <<Call("loop", u)>>

Moves(t, n, F) ==
    /\ stack' \in [Threads -> Seq(FrameType)]
    /\ \A u \in Threads : u # t => stack'[u] = stack[u] \/ Woken(u)
    /\ n \in {Len(stack[t]) - 1, Len(stack[t])} /\ n \in Nat
    /\ Alike(stack'[t], stack[t], n)
    /\ \/ Len(stack'[t]) = n /\ F = {}
       \/ Len(stack'[t]) = n + 1 /\ F = {stack'[t][n + 1]}

LEMMA Cuts ==
  ASSUME Typed, NEW t \in Threads, NEW s \in Seq(FrameType), NEW n \in Nat,
         n \in {Len(stack[t]) - 1, Len(stack[t])},
         Len(s) = n, Alike(s, stack[t], n),
         stack' = [stack EXCEPT ![t] = s]
  PROVE  Moves(t, n, {})
  <1>1. stack' \in [Threads -> Seq(FrameType)] /\ stack'[t] = s
    BY DEF Typed
  <1>2. \A u \in Threads : u # t => stack'[u] = stack[u]
    BY DEF Typed
  <1>3. QED
    BY <1>1, <1>2 DEF Moves

LEMMA Puts ==
  ASSUME Typed, NEW t \in Threads, NEW s \in Seq(FrameType), NEW n \in Nat,
         n \in {Len(stack[t]) - 1, Len(stack[t])},
         Len(s) = n, Alike(s, stack[t], n), NEW f \in FrameType,
         stack' = [stack EXCEPT ![t] = Append(s, f)]
  PROVE  Moves(t, n, {f})
  <1>1. /\ Append(s, f) \in Seq(FrameType) /\ Len(Append(s, f)) = n + 1
        /\ \A i \in 1 .. n : Append(s, f)[i] = s[i]
        /\ Append(s, f)[n + 1] = f
    BY PushFacts
  <1>2. stack' \in [Threads -> Seq(FrameType)] /\ stack'[t] = Append(s, f)
    BY <1>1 DEF Typed
  <1>3. \A u \in Threads : u # t => stack'[u] = stack[u]
    BY DEF Typed
  <1>4. Alike(Append(s, f), stack[t], n)
    BY <1>1 DEF Alike, Same
  <1>5. QED
    BY <1>1, <1>2, <1>3, <1>4 DEF Moves

\* In a well-nested stack, a sleeping worker is in no other frame.
LEMMA AsleepAlone ==
  ASSUME Typed, Nested, NEW u \in Threads, In(u, "asleep")
  PROVE  u \in Threaded /\ Len(stack[u]) = 1 /\ stack[u][1].op = "asleep"
  <1> DEFINE s == stack[u]
             n == Len(stack[u])
  <1>a. n \in Nat /\ n # 0
    BY StackFacts DEF In
  <1>1. s # << >> /\ s[n].op = "asleep" /\ Proper(u, s)
    BY DEF In, Top, Nested
  <1>2. n = 1
    <2> SUFFICES ASSUME n # 1 PROVE FALSE
      OBVIOUS
    <2>1. \A i \in 1 .. n : i < n => Above(s[i], s[i + 1])
      BY <1>1 DEF Proper
    <2> HIDE DEF n
    <2>b. n - 1 \in 1 .. n /\ n - 1 < n /\ (n - 1) + 1 = n
      BY <1>a
    <2>2. Above(s[n - 1], s[n])
      BY <2>1, <2>b
    <2>3. QED
      BY <1>1, <2>2 DEF Above, Base
  <1>3. OnFloor(u, s[1])
    BY <1>1 DEF Proper
  <1>4. QED
    BY <1>1, <1>2, <1>3 DEF OnFloor, Base

\* A notify_all or notify_one moves the notifying thread, and may wake the worker.
LEMMA Notifies ==
  ASSUME Typed, Nested, NEW t \in Threads, NEW r \in Seq(FrameType), NEW l,
         stack' = Notified(t, r, l)
  PROVE  /\ stack' \in [Threads -> Seq(FrameType)] /\ stack'[t] = r
         /\ \A u \in Threads : u # t => stack'[u] = stack[u] \/ Woken(u)
  <1>1. stack'[t] = r
    BY DEF Notified
  <1>2. ASSUME NEW u \in Threads, u # t
        PROVE  stack'[u] = stack[u] \/ Woken(u)
    <2>1. CASE u = l /\ In(l, "asleep")
      <3>1. stack'[u] = <<Call("loop", u)>>
        BY <1>2, <2>1 DEF Notified
      <3>2. QED
        BY <2>1, <3>1, AsleepAlone DEF Woken
    <2>2. CASE ~(u = l /\ In(l, "asleep"))
      BY <1>2, <2>2 DEF Notified
    <2>3. QED
      BY <2>1, <2>2
  <1>3. ASSUME NEW u \in Threads
        PROVE  stack'[u] \in Seq(FrameType)
    <2>1. CASE u = t
      BY <1>1, <2>1
    <2>2. CASE u # t /\ stack'[u] = stack[u]
      BY <2>2, StackFacts
    <2>3. CASE u # t /\ Woken(u)
      <3>1. u \in Lanes /\ "loop" \in Ops
        BY <2>3, LanesAssumption DEF Woken, Ops
      <3>2. Call("loop", u) \in FrameType
        BY <3>1, CallFacts
      <3>3. QED
        BY <2>3, <3>2 DEF Woken
    <2>4. QED
      BY <1>2, <2>1, <2>2, <2>3
  <1>4. stack' = [u \in Threads |-> stack'[u]]
    BY DEF Notified
  <1>5. QED
    BY <1>1, <1>2, <1>3, <1>4

\* Where a frame of the new state comes from ...
LEMMA Back ==
  ASSUME Typed, NEW t \in Threads, NEW n, NEW F, Moves(t, n, F),
         NEW u \in Threads, NEW k \in 1 .. Len(stack'[u])
  PROVE  \/ k \in 1 .. Len(stack[u]) /\ Same(stack'[u][k], stack[u][k])
         \/ k = 1 /\ Woken(u) /\ stack'[u][k] = Call("loop", u)
         \/ u = t /\ k = n + 1 /\ stack'[u][k] \in F
  <1>1. CASE u # t /\ stack'[u] = stack[u]
    BY <1>1 DEF Same
  <1>2. CASE u # t /\ Woken(u)
    BY <1>2 DEF Woken
  <1>3. CASE u = t
    <2>1. n \in Nat /\ Len(stack[t]) \in Nat /\ Alike(stack'[t], stack[t], n)
      BY StackFacts DEF Moves
    <2>2. CASE k <= n
      <3>1. k \in 1 .. n /\ n <= Len(stack[t])
        BY <1>3, <2>1, <2>2 DEF Alike
      <3>2. QED
        BY <1>3, <2>1, <3>1 DEF Alike
    <2>3. CASE k > n
      <3>1. Len(stack'[t]) = n + 1 /\ F = {stack'[t][n + 1]}
        BY <1>3, <2>1, <2>3 DEF Moves
      <3>2. k = n + 1
        BY <1>3, <2>1, <2>3, <3>1
      <3>3. QED
        BY <1>3, <3>1, <3>2
    <2>4. QED
      BY <2>1, <2>2, <2>3
  <1>4. QED
    BY <1>1, <1>2, <1>3 DEF Moves

\* ... and where one of the old state goes.
LEMMA Forth ==
  ASSUME Typed, NEW t \in Threads, NEW n, NEW F, Moves(t, n, F),
         NEW u \in Threads, NEW k \in 1 .. Len(stack[u])
  PROVE  \/ k \in 1 .. Len(stack'[u]) /\ Same(stack'[u][k], stack[u][k])
         \/ k = 1 /\ Woken(u) /\ stack[u][k].op = "asleep"
         \/ u = t /\ k = Len(stack[t]) /\ n = Len(stack[t]) - 1
  <1>1. CASE u # t /\ stack'[u] = stack[u]
    BY <1>1 DEF Same
  <1>2. CASE u # t /\ Woken(u)
    BY <1>2 DEF Woken
  <1>3. CASE u = t
    <2>1. n \in Nat /\ Len(stack[t]) \in Nat /\ Alike(stack'[t], stack[t], n)
      BY StackFacts DEF Moves
    <2>2. Len(stack'[t]) \in Nat
      BY <2>1 DEF Moves
    <2>3. CASE k <= n
      <3>1. k \in 1 .. n /\ n <= Len(stack'[t])
        BY <2>1, <2>3, <1>3 DEF Alike
      <3>2. QED
        BY <1>3, <2>1, <2>2, <3>1 DEF Alike
    <2>4. CASE k > n
      BY <1>3, <2>1, <2>4 DEF Moves
    <2>5. QED
      BY <2>1, <2>3, <2>4
  <1>4. QED
    BY <1>1, <1>2, <1>3 DEF Moves

-----------------------------------------------------------------------------
(* What a step keeps of the stacks, by the frame it takes. *)

\* Properness looks at the op and the lane of a frame only.
LEMMA SameFloor ==
  ASSUME NEW e, NEW f, Same(e, f), NEW t
  PROVE  OnFloor(t, f) => OnFloor(t, e)
  BY DEF Same, OnFloor

LEMMA SameAbove ==
  ASSUME NEW e, NEW f, NEW d, NEW g, Same(e, d), Same(f, g)
  PROVE  Above(d, g) => Above(e, f)
  BY DEF Same, Above

LEMMA ProperKept ==
  ASSUME NEW t, NEW S, NEW s \in Seq(S), NEW r \in Seq(S), NEW n \in Nat, Proper(t, s),
         n <= Len(s), Alike(r, s, n),
         \/ Len(r) = n
         \/ Len(r) = n + 1 /\ (n = 0 => OnFloor(t, r[1])) /\ (n > 0 => Above(s[n], r[n + 1]))
  PROVE  Proper(t, r)
  <1>1. Len(s) \in Nat /\ Len(r) \in Nat /\ (r # << >> => Len(r) # 0) /\ (Len(s) # 0 => s # << >>)
    BY EmptySeq
  <1>2. ASSUME r # << >> PROVE OnFloor(t, r[1])
    <2>1. CASE n = 0
      BY <1>1, <1>2, <2>1
    <2>2. CASE n # 0
      <3>1. 1 \in 1 .. n /\ s # << >>
        BY <1>1, <2>2
      <3>2. Same(r[1], s[1]) /\ OnFloor(t, s[1])
        BY <3>1 DEF Alike, Proper
      <3>3. QED
        BY <3>2, SameFloor
    <2>3. QED
      BY <2>1, <2>2
  <1>3. ASSUME NEW i \in 1 .. Len(r), i < Len(r) PROVE Above(r[i], r[i + 1])
    <2>1. i \in Nat /\ i \in 1 .. n /\ Same(r[i], s[i])
      BY <1>1, <1>3 DEF Alike
    <2>2. CASE i + 1 <= n
      <3>1. i + 1 \in 1 .. n /\ i \in 1 .. Len(s) /\ i < Len(s)
        BY <1>1, <2>1, <2>2
      <3>2. Same(r[i + 1], s[i + 1]) /\ Above(s[i], s[i + 1])
        BY <3>1 DEF Alike, Proper
      <3>3. QED
        BY <2>1, <3>2, SameAbove
    <2>3. CASE ~(i + 1 <= n)
      <3>1. i = n /\ n > 0
        BY <1>1, <1>3, <2>1, <2>3
      <3>2. Above(s[n], r[n + 1])
        BY <1>1, <1>3, <3>1
      <3>3. QED
        BY <2>1, <3>1, <3>2 DEF Above, Same
    <2>4. QED
      BY <2>2, <2>3
  <1>4. QED
    BY <1>2, <1>3 DEF Proper

LEMMA NestedKept ==
  ASSUME Typed, Nested, NEW t \in Threads, NEW n, NEW F, Moves(t, n, F),
         \A f \in F : /\ Apt(f)
                      /\ n = 0 => OnFloor(t, f)
                      /\ n > 0 => Above(stack[t][n], f)
  PROVE  Nested'
  <1>1. ASSUME NEW u \in Threads PROVE Proper(u, stack'[u])
    <2>1. CASE u # t /\ stack'[u] = stack[u]
      BY <2>1 DEF Nested
    <2>2. CASE Woken(u)
      <3>1. u \in Lanes /\ "loop" \in Ops
        BY <2>2, LanesAssumption DEF Woken, Ops
      <3>2. stack'[u][1] = Call("loop", u) /\ Len(stack'[u]) = 1
        BY <2>2 DEF Woken
      <3>3. OnFloor(u, stack'[u][1])
        BY <2>2, <3>1, <3>2, CallFacts DEF OnFloor, Base, Woken
      <3>4. QED
        BY <3>2, <3>3 DEF Proper
    <2>3. CASE u = t
      <3>1. /\ stack'[t] \in Seq(FrameType) /\ stack[t] \in Seq(FrameType)
            /\ Len(stack[t]) \in Nat /\ Proper(t, stack[t])
        BY StackFacts DEF Moves, Nested
      <3>2. n \in Nat /\ n <= Len(stack[t]) /\ Alike(stack'[t], stack[t], n)
        BY <3>1 DEF Moves
      <3>3. \/ Len(stack'[t]) = n
            \/ /\ Len(stack'[t]) = n + 1 /\ (n = 0 => OnFloor(t, stack'[t][1]))
               /\ n > 0 => Above(stack[t][n], stack'[t][n + 1])
        BY DEF Moves
      <3>4. Proper(t, stack'[t])
        BY <3>1, <3>2, <3>3, ProperKept
      <3>5. QED
        BY <2>3, <3>4
    <2>4. QED
      BY <2>1, <2>2, <2>3 DEF Moves
  <1>2. ASSUME NEW u \in Threads, NEW k \in 1 .. Len(stack'[u]) PROVE Apt(stack'[u][k])
    <2>1. CASE k \in 1 .. Len(stack[u]) /\ Same(stack'[u][k], stack[u][k])
      BY <2>1 DEF Nested, Same, Apt
    <2>2. CASE Woken(u) /\ stack'[u][k] = Call("loop", u)
      BY <2>2 DEF Apt, Drains, Call, Frame
    <2>3. CASE stack'[u][k] \in F
      BY <2>3
    <2>4. QED
      BY <2>1, <2>2, <2>3, Back
  <1>3. QED
    BY <1>1, <1>2 DEF Nested

LEMMA MarkedKept ==
  ASSUME Typed, Nested, Marked, NEW t \in Threads, NEW n, NEW F, Moves(t, n, F),
         \A l \in Lanes : stopping[l] => stopping'[l],
         \A l \in Threaded : stopping[l] /\ queue[l] = << >> => queue'[l] = << >>,
         \A f \in F : f.op \in {"wake", "join", "seize", "flush"} => stopping'[f.lane],
         t \in Threaded /\ n = 0 /\ F = {} => stopping'[t] /\ queue'[t] = << >>
  PROVE  Marked'
  <1>1. ASSUME NEW u \in Threads, NEW k \in 1 .. Len(stack'[u]),
               stack'[u][k].op \in {"wake", "join", "seize", "flush"}
        PROVE  stopping'[stack'[u][k].lane]
    <2>1. CASE k \in 1 .. Len(stack[u]) /\ Same(stack'[u][k], stack[u][k])
      <3>1. stack[u][k] \in FrameType
        BY <2>1, StackFacts
      <3>2. stopping[stack[u][k].lane] /\ stack[u][k].lane \in Lanes
        BY <1>1, <2>1, <3>1, FrameFacts DEF Same, Marked
      <3>3. QED
        BY <2>1, <3>2 DEF Same
    <2>2. CASE Woken(u) /\ stack'[u][k] = Call("loop", u)
      BY <1>1, <2>2 DEF Call, Frame
    <2>3. CASE stack'[u][k] \in F
      BY <1>1, <2>3
    <2>4. QED
      BY <2>1, <2>2, <2>3, Back
  <1>2. ASSUME NEW u \in Threaded, stack'[u] = << >>
        PROVE  stopping'[u] /\ queue'[u] = << >>
    <2>0. u \in Threads /\ u \in Lanes
      BY LanesAssumption DEF Threads
    <2>1. CASE u # t /\ stack'[u] = stack[u]
      BY <1>2, <2>0, <2>1 DEF Marked
    <2>2. CASE Woken(u)
      BY <1>2, <2>2 DEF Woken
    <2>3. CASE u = t
      <3>1. n \in Nat /\ Len(stack'[t]) = 0
        BY <1>2, <2>3 DEF Moves
      <3>2. n = 0 /\ F = {}
        BY <3>1 DEF Moves
      <3>3. QED
        BY <2>3, <3>2
    <2>4. QED
      BY <2>0, <2>1, <2>2, <2>3 DEF Moves
  <1>3. QED
    BY <1>1, <1>2 DEF Marked

\* No frame is new that drains a lane.
LEMMA SoleKept ==
  ASSUME Typed, Sole, NEW t \in Threads, NEW n, NEW F, Moves(t, n, F),
         \A l \in Lanes : draining[l] => draining'[l],
         \A f \in F : f.op \in Drains =>
            /\ n = Len(stack[t]) - 1 /\ Top(t).op \in Drains /\ f.lane = Top(t).lane
  PROVE  Sole'
  <1>1. ASSUME NEW u \in Threads, NEW k \in 1 .. Len(stack'[u]), stack'[u][k].op \in Drains
        PROVE  /\ k \in 1 .. Len(stack[u]) /\ stack[u][k] \in FrameType
               /\ stack[u][k].op \in Drains /\ stack'[u][k].lane = stack[u][k].lane
    <2>1. CASE k \in 1 .. Len(stack[u]) /\ Same(stack'[u][k], stack[u][k])
      BY <1>1, <2>1, StackFacts DEF Same
    <2>2. CASE Woken(u) /\ stack'[u][k] = Call("loop", u)
      BY <1>1, <2>2 DEF Call, Frame, Drains
    <2>3. CASE u = t /\ k = n + 1 /\ stack'[u][k] \in F
      <3>1. Len(stack[t]) \in Nat /\ n \in Nat
        BY StackFacts DEF Moves
      <3>2. n = Len(stack[t]) - 1 /\ Top(t).op \in Drains /\ stack'[u][k].lane = Top(t).lane
        BY <1>1, <2>3
      <3>3. k = Len(stack[t]) /\ k \in 1 .. Len(stack[t])
        BY <2>3, <3>1, <3>2
      <3>4. QED
        BY <2>3, <3>2, <3>3, StackFacts DEF Top
    <2>4. QED
      BY <2>1, <2>2, <2>3, Back
  <1>2. ASSUME NEW u \in Threads, NEW k \in 1 .. Len(stack'[u]), stack'[u][k].op \in Drains
        PROVE  draining'[stack'[u][k].lane]
    <2>1. draining[stack[u][k].lane] /\ stack[u][k].lane \in Lanes
      BY <1>1, <1>2, FrameFacts DEF Sole
    <2>2. QED
      BY <1>1, <1>2, <2>1
  <1>3. ASSUME NEW u \in Threads, NEW k \in 1 .. Len(stack'[u]), stack'[u][k].op \in Drains,
               NEW v \in Threads, NEW m \in 1 .. Len(stack'[v]), stack'[v][m].op \in Drains,
               stack'[v][m].lane = stack'[u][k].lane
        PROVE  v = u /\ m = k
    BY <1>1, <1>3 DEF Sole
  <1>4. QED
    BY <1>2, <1>3 DEF Sole

LEMMA SoleNew ==
  ASSUME Typed, Sole, NEW t \in Threads, NEW n, NEW f, Moves(t, n, {f}),
         f.lane \in Lanes, ~draining[f.lane],
         draining' = [draining EXCEPT ![f.lane] = TRUE]
  PROVE  Sole'
  <1>1. ASSUME NEW u \in Threads, NEW k \in 1 .. Len(stack'[u]), stack'[u][k].op \in Drains
        PROVE  \/ u = t /\ k = n + 1 /\ stack'[u][k] = f
               \/ /\ k \in 1 .. Len(stack[u]) /\ stack[u][k].op \in Drains
                  /\ stack'[u][k].lane = stack[u][k].lane /\ stack[u][k].lane \in Lanes
                  /\ draining[stack[u][k].lane] /\ stack[u][k].lane # f.lane
    <2>1. CASE k \in 1 .. Len(stack[u]) /\ Same(stack'[u][k], stack[u][k])
      <3>1. stack[u][k].op \in Drains /\ stack'[u][k].lane = stack[u][k].lane
        BY <1>1, <2>1 DEF Same
      <3>2. stack[u][k].lane \in Lanes
        BY <2>1, StackFacts, FrameFacts
      <3>3. draining[stack[u][k].lane]
        BY <2>1, <3>1 DEF Sole
      <3>4. QED
        BY <2>1, <3>1, <3>2, <3>3
    <2>2. CASE Woken(u) /\ stack'[u][k] = Call("loop", u)
      BY <1>1, <2>2 DEF Call, Frame, Drains
    <2>3. QED
      BY <2>1, <2>2, Back
  <1>2. \A l \in Lanes : draining'[l] <=> draining[l] \/ l = f.lane
    BY DEF Typed
  <1>3. ASSUME NEW u \in Threads, NEW k \in 1 .. Len(stack'[u]), stack'[u][k].op \in Drains
        PROVE  draining'[stack'[u][k].lane]
    BY <1>1, <1>2, <1>3
  <1>4. ASSUME NEW u \in Threads, NEW k \in 1 .. Len(stack'[u]), stack'[u][k].op \in Drains,
               NEW v \in Threads, NEW m \in 1 .. Len(stack'[v]), stack'[v][m].op \in Drains,
               stack'[v][m].lane = stack'[u][k].lane
        PROVE  v = u /\ m = k
    <2>1. CASE u = t /\ k = n + 1 /\ stack'[u][k] = f
      BY <1>1, <1>4, <2>1
    <2>2. CASE v = t /\ m = n + 1 /\ stack'[v][m] = f
      BY <1>1, <1>4, <2>2
    <2>3. CASE /\ ~(u = t /\ k = n + 1 /\ stack'[u][k] = f)
               /\ ~(v = t /\ m = n + 1 /\ stack'[v][m] = f)
      BY <1>1, <1>4, <2>3 DEF Sole
    <2>4. QED
      BY <2>1, <2>2, <2>3
  <1>5. QED
    BY <1>3, <1>4 DEF Sole

LEMMA SoleGone ==
  ASSUME Typed, Sole, NEW t \in Threads, stack[t] # << >>, Top(t).op \in Drains,
         Moves(t, Len(stack[t]) - 1, {}),
         draining' = [draining EXCEPT ![Top(t).lane] = FALSE]
  PROVE  Sole'
  <1> DEFINE n == Len(stack[t])
  <1>0. n \in 1 .. n /\ n \in Nat
    BY StackFacts
  <1>1. ASSUME NEW u \in Threads, NEW k \in 1 .. Len(stack'[u]), stack'[u][k].op \in Drains
        PROVE  /\ k \in 1 .. Len(stack[u]) /\ stack[u][k].op \in Drains
               /\ stack'[u][k].lane = stack[u][k].lane /\ stack[u][k].lane \in Lanes
               /\ stack[u][k].lane # Top(t).lane
    <2>1. CASE k \in 1 .. Len(stack[u]) /\ Same(stack'[u][k], stack[u][k])
      <3>1. stack[u][k].op \in Drains /\ stack'[u][k].lane = stack[u][k].lane
        BY <1>1, <2>1 DEF Same
      <3>2. stack[u][k].lane \in Lanes
        BY <2>1, StackFacts, FrameFacts
      <3>3. ~(u = t /\ k = n)
        <4>1. Len(stack'[t]) = n - 1
          BY <1>0 DEF Moves
        <4>2. QED
          BY <1>0, <4>1
      <3>4. stack[u][k].lane # Top(t).lane
        BY <1>0, <2>1, <3>1, <3>3 DEF Sole, Top
      <3>5. QED
        BY <2>1, <3>1, <3>2, <3>4
    <2>2. CASE Woken(u) /\ stack'[u][k] = Call("loop", u)
      BY <1>1, <2>2 DEF Call, Frame, Drains
    <2>3. QED
      BY <2>1, <2>2, Back
  <1>2. \A l \in Lanes : l # Top(t).lane => draining'[l] = draining[l]
    BY DEF Typed
  <1>3. ASSUME NEW u \in Threads, NEW k \in 1 .. Len(stack'[u]), stack'[u][k].op \in Drains
        PROVE  draining'[stack'[u][k].lane]
    BY <1>1, <1>2, <1>3 DEF Sole
  <1>4. ASSUME NEW u \in Threads, NEW k \in 1 .. Len(stack'[u]), stack'[u][k].op \in Drains,
               NEW v \in Threads, NEW m \in 1 .. Len(stack'[v]), stack'[v][m].op \in Drains,
               stack'[v][m].lane = stack'[u][k].lane
        PROVE  v = u /\ m = k
    BY <1>1, <1>4 DEF Sole
  <1>5. QED
    BY <1>3, <1>4 DEF Sole

-----------------------------------------------------------------------------
(* The places of frames. *)

LEMMA TopFacts ==
  ASSUME Typed, Nested, NEW t \in Threads, stack[t] # << >>
  PROVE  /\ Len(stack[t]) \in Nat \ {0} /\ Len(stack[t]) \in 1 .. Len(stack[t])
         /\ Top(t) = stack[t][Len(stack[t])] /\ Top(t) \in FrameType /\ Apt(Top(t))
         /\ Len(stack[t]) = 1 => OnFloor(t, Top(t))
         /\ Len(stack[t]) > 1 => Above(stack[t][Len(stack[t]) - 1], Top(t))
  <1> DEFINE s == stack[t]
             n == Len(s)
  <1>1. n \in Nat \ {0} /\ n \in 1 .. n
    BY StackFacts
  <1>2. Top(t) = s[n] /\ s[n] \in FrameType /\ Apt(s[n])
    BY <1>1, StackFacts DEF Top, Nested
  <1>3. OnFloor(t, s[1])
    BY DEF Nested, Proper
  <1>4. ASSUME n > 1 PROVE Above(s[n - 1], s[n])
    <2>1. \A i \in 1 .. n : i < n => Above(s[i], s[i + 1])
      BY DEF Nested, Proper
    <2> HIDE DEF n
    <2>2. n - 1 \in 1 .. n /\ n - 1 < n /\ (n - 1) + 1 = n
      BY <1>1, <1>4
    <2>3. QED
      BY <2>1, <2>2
  <1>5. QED
    BY <1>1, <1>2, <1>3, <1>4

\* A job sits on a scope of its lane.
LEMMA ScopeBelow ==
  ASSUME Typed, Nested, NEW t \in Threads, NEW l, NEW i, Runs(t, i, l)
  PROVE  /\ i \in Nat /\ i > 1 /\ i - 1 \in 1 .. Len(stack[t])
         /\ stack[t][i - 1].op \in Taking /\ stack[t][i - 1].lane = l
  <1> DEFINE s == stack[t]
             n == Len(s)
  <1>1. n \in Nat /\ i \in 1 .. n /\ i \in Nat /\ s[i].op \in Jobbing /\ s[i].lane = l
    BY StackFacts DEF Runs
  <1>2. s # << >> /\ OnFloor(t, s[1])
    BY <1>1, StackFacts DEF Nested, Proper
  <1>3. i # 1
    BY <1>1, <1>2 DEF OnFloor, Base, Jobbing
  <1>4. \A k \in 1 .. n : k < n => Above(s[k], s[k + 1])
    BY DEF Nested, Proper
  <1> HIDE DEF n
  <1>5. i - 1 \in 1 .. n /\ i - 1 < n /\ (i - 1) + 1 = i /\ i > 1
    BY <1>1, <1>3
  <1>6. Above(s[i - 1], s[i])
    BY <1>4, <1>5
  <1>7. QED
    BY <1>1, <1>5, <1>6 DEF Above, n

\* A worker's own frame is its lowest.
LEMMA BaseFirst ==
  ASSUME Typed, Nested, NEW t \in Threads, NEW i \in 1 .. Len(stack[t]),
         stack[t][i].op \in Base
  PROVE  i = 1 /\ t \in Threaded /\ stack[t][i].lane = t
  <1> DEFINE s == stack[t]
             n == Len(s)
  <1>1. n \in Nat /\ s # << >> /\ OnFloor(t, s[1])
    BY StackFacts DEF Nested, Proper
  <1>2. \A k \in 1 .. n : k < n => Above(s[k], s[k + 1])
    BY DEF Nested, Proper
  <1>3. i = 1
    <2> SUFFICES ASSUME i # 1 PROVE FALSE
      OBVIOUS
    <2> HIDE DEF n
    <2>1. i \in 1 .. n
      BY DEF n
    <2>2. i - 1 \in 1 .. n /\ i - 1 < n /\ (i - 1) + 1 = i
      BY <1>1, <2>1
    <2>3. Above(s[i - 1], s[i])
      BY <1>2, <2>2
    <2>4. QED
      BY <2>3 DEF Above
  <1>4. QED
    BY <1>1, <1>3 DEF OnFloor

\* A lane has one scope that takes its jobs.
LEMMA OneScope ==
  ASSUME Typed, Nested, Sole,
         NEW t \in Threads, NEW i \in 1 .. Len(stack[t]), stack[t][i].op \in Taking,
         NEW u \in Threads, NEW k \in 1 .. Len(stack[u]), stack[u][k].op \in Taking,
         stack[u][k].lane = stack[t][i].lane
  PROVE  u = t /\ k = i
  <1>1. Apt(stack[t][i]) /\ Apt(stack[u][k])
    BY DEF Nested
  <1>2. CASE stack[t][i].op = "loop" /\ stack[u][k].op = "loop"
    BY <1>2, BaseFirst DEF Base
  <1>3. CASE stack[t][i].op = "loop" /\ stack[u][k].op # "loop"
    BY <1>1, <1>3, BaseFirst DEF Base, Apt, Drains, Taking
  <1>4. CASE stack[t][i].op # "loop" /\ stack[u][k].op = "loop"
    BY <1>1, <1>4, BaseFirst DEF Base, Apt, Drains, Taking
  <1>5. CASE stack[t][i].op # "loop" /\ stack[u][k].op # "loop"
    BY <1>5 DEF Sole, Drains, Taking
  <1>6. QED
    BY <1>2, <1>3, <1>4, <1>5

LEMMA OneJob ==
  ASSUME Typed, Nested, Sole
  PROVE  Alone
  <1> SUFFICES ASSUME NEW t \in Threads, NEW u \in Threads, NEW i \in 1 .. Len(stack[t]),
                      NEW k \in 1 .. Len(stack[u]), NEW l \in Lanes, Runs(t, i, l), Runs(u, k, l)
               PROVE  u = t /\ k = i
    BY DEF Alone
  <1>1. /\ i \in Nat /\ i - 1 \in 1 .. Len(stack[t])
        /\ stack[t][i - 1].op \in Taking /\ stack[t][i - 1].lane = l
    BY ScopeBelow
  <1>2. /\ k \in Nat /\ k - 1 \in 1 .. Len(stack[u])
        /\ stack[u][k - 1].op \in Taking /\ stack[u][k - 1].lane = l
    BY ScopeBelow
  <1>3. u = t /\ k - 1 = i - 1
    <2>1. stack[u][k - 1].lane = stack[t][i - 1].lane
      BY <1>1, <1>2
    <2> DEFINE a == i - 1
               b == k - 1
    <2>2. /\ a \in 1 .. Len(stack[t]) /\ stack[t][a].op \in Taking
          /\ b \in 1 .. Len(stack[u]) /\ stack[u][b].op \in Taking
          /\ stack[u][b].lane = stack[t][a].lane
      BY <1>1, <1>2, <2>1
    <2> HIDE DEF a, b
    <2>3. u = t /\ b = a
      BY <2>2, OneScope
    <2>4. QED
      BY <2>3 DEF a, b
  <1>4. QED
    BY <1>1, <1>2, <1>3

\* A thread that is in a scope itself runs no job of it.
LEMMA ScopeFree ==
  ASSUME Typed, Nested, Sole, NEW t \in Threads, stack[t] # << >>, Top(t).op \in Taking
  PROVE  ~Busy(Top(t).lane)
  <1> SUFFICES ASSUME NEW u \in Threads, NEW k \in 1 .. Len(stack[u]), Runs(u, k, Top(t).lane)
               PROVE  FALSE
    BY DEF Busy
  <1>1. /\ k \in Nat /\ k - 1 \in 1 .. Len(stack[u])
        /\ stack[u][k - 1].op \in Taking /\ stack[u][k - 1].lane = Top(t).lane
    BY ScopeBelow
  <1>2. Len(stack[t]) \in 1 .. Len(stack[t]) /\ Top(t) = stack[t][Len(stack[t])]
    BY TopFacts
  <1>3. u = t /\ k - 1 = Len(stack[t])
    BY <1>1, <1>2, OneScope
  <1>4. QED
    BY <1>1, <1>3

-----------------------------------------------------------------------------
(* Jobs, before and after a step. *)

LEMMA RunsBack ==
  ASSUME Typed, NEW t \in Threads, NEW n, NEW F, Moves(t, n, F),
         NEW u \in Threads, NEW k, NEW l, Runs(u, k, l)'
  PROVE  \/ Runs(u, k, l) /\ Same(stack'[u][k], stack[u][k])
         \/ u = t /\ k = n + 1 /\ stack'[u][k] \in F
  <1>1. k \in 1 .. Len(stack'[u]) /\ stack'[u][k].op \in Jobbing /\ stack'[u][k].lane = l
    BY DEF Runs
  <1>2. CASE k \in 1 .. Len(stack[u]) /\ Same(stack'[u][k], stack[u][k])
    BY <1>1, <1>2 DEF Runs, Same
  <1>3. CASE Woken(u) /\ stack'[u][k] = Call("loop", u)
    BY <1>1, <1>3 DEF Call, Frame, Jobbing
  <1>4. QED
    BY <1>1, <1>2, <1>3, Back

LEMMA RunsForth ==
  ASSUME Typed, NEW t \in Threads, NEW n, NEW F, Moves(t, n, F),
         NEW u \in Threads, NEW k, NEW l, Runs(u, k, l)
  PROVE  \/ Runs(u, k, l)' /\ Same(stack'[u][k], stack[u][k])
         \/ u = t /\ k = Len(stack[t]) /\ n = Len(stack[t]) - 1
  <1>1. k \in 1 .. Len(stack[u]) /\ stack[u][k].op \in Jobbing /\ stack[u][k].lane = l
    BY DEF Runs
  <1>2. CASE k \in 1 .. Len(stack'[u]) /\ Same(stack'[u][k], stack[u][k])
    BY <1>1, <1>2 DEF Runs, Same
  <1>3. stack[u][k].op # "asleep"
    BY <1>1 DEF Jobbing
  <1>4. QED
    BY <1>1, <1>2, <1>3, Forth

\* The frames taken and dropped are not those of jobs.
NoJobs(t, n, F) ==
    /\ \A f \in F : f.op \notin Jobbing
    /\ n = Len(stack[t]) - 1 => Top(t).op \notin Jobbing

LEMMA JobsKept ==
  ASSUME Typed, NEW t \in Threads, NEW n, NEW F, Moves(t, n, F), NoJobs(t, n, F),
         NEW u \in Threads, NEW k, NEW l
  PROVE  /\ Runs(u, k, l)' <=> Runs(u, k, l)
         /\ Runs(u, k, l) => Same(stack'[u][k], stack[u][k])
  <1>1. ASSUME Runs(u, k, l)' PROVE Runs(u, k, l)
    <2>1. stack'[u][k].op \in Jobbing
      BY <1>1 DEF Runs
    <2>2. QED
      BY <1>1, <2>1, RunsBack DEF NoJobs
  <1>2. ASSUME Runs(u, k, l) PROVE Runs(u, k, l)' /\ Same(stack'[u][k], stack[u][k])
    <2>1. stack[u][k].op \in Jobbing
      BY <1>2 DEF Runs
    <2>2. ~(u = t /\ k = Len(stack[t]) /\ n = Len(stack[t]) - 1)
      BY <2>1 DEF NoJobs, Top
    <2>3. QED
      BY <1>2, <2>2, RunsForth
  <1>3. QED
    BY <1>1, <1>2

LEMMA BusyKept ==
  ASSUME Typed, NEW t \in Threads, NEW n, NEW F, Moves(t, n, F), NoJobs(t, n, F)
  PROVE  \A l \in Lanes : Busy(l)' <=> Busy(l)
  <1>1. \A u \in Threads : \A k, l : Runs(u, k, l)' <=> Runs(u, k, l)
    BY JobsKept
  <1>2. \A u \in Threads : \A k, l :
           /\ Runs(u, k, l) => k \in 1 .. Len(stack[u])
           /\ Runs(u, k, l)' => k \in 1 .. Len(stack'[u])
    BY DEF Runs
  <1>3. QED
    BY <1>1, <1>2 DEF Busy

LEMMA OrderKept ==
  ASSUME Typed, Order, NEW t \in Threads, NEW n, NEW F, Moves(t, n, F),
         \A f \in F : f.op \in Jobbing =>
            n = Len(stack[t]) - 1 /\ Runs(t, n + 1, f.lane) /\ f.job = Top(t).job,
         queue' = queue, home' = home
  PROVE  Order'
  <1>1. ASSUME NEW u \in Threads, NEW k \in 1 .. Len(stack'[u]), stack'[u][k].op \in Jobbing,
               NEW l, l = stack'[u][k].lane, NEW j, j = stack'[u][k].job
        PROVE  /\ j \in Jobs /\ home[j] = l
               /\ \A i \in Jobs : home[i] = l => (i > j <=> i \in Range(queue[l]))
    <2>1. Runs(u, k, l)'
      BY <1>1 DEF Runs
    <2>2. CASE /\ Runs(u, k, l) /\ Same(stack'[u][k], stack[u][k])
      BY <1>1, <2>2 DEF Order, Runs, Same
    <2>3. CASE u = t /\ k = n + 1 /\ stack'[u][k] \in F
      <3>1. n = Len(stack[t]) - 1 /\ Runs(t, n + 1, l) /\ j = Top(t).job
        BY <1>1, <2>3
      <3>2. Len(stack[t]) \in Nat /\ n + 1 = Len(stack[t])
        BY <3>1, StackFacts
      <3>3. /\ n + 1 \in 1 .. Len(stack[t]) /\ stack[t][n + 1].op \in Jobbing
            /\ l = stack[t][n + 1].lane /\ j = stack[t][n + 1].job
        BY <3>1, <3>2 DEF Runs, Top
      <3>4. QED
        BY <3>3 DEF Order
    <2>4. QED
      BY <2>1, <2>2, <2>3, RunsBack
  <1>2. ASSUME NEW u \in Threads, NEW k \in 1 .. Len(stack'[u]), stack'[u][k].op \in Jobbing
        PROVE  LET f == stack'[u][k] IN
               /\ f.job \in Jobs /\ home'[f.job] = f.lane
               /\ \A i \in Jobs : home'[i] = f.lane => (i > f.job <=> i \in Range(queue'[f.lane]))
    BY <1>1, <1>2
  <1>3. QED
    BY <1>2 DEF Order

LEMMA WaitsKept ==
  ASSUME Typed, NEW t \in Threads, NEW n, NEW F, Moves(t, n, F), NoJobs(t, n, F),
         NEW j
  PROVE  (\E u \in Threads : \E k \in 1 .. Len(stack'[u]) :
              stack'[u][k].op = "job" /\ stack'[u][k].job = j)
         <=> (\E u \in Threads : \E k \in 1 .. Len(stack[u]) :
                  stack[u][k].op = "job" /\ stack[u][k].job = j)
  <1>1. ASSUME NEW u \in Threads, NEW k \in 1 .. Len(stack'[u]),
               stack'[u][k].op = "job", stack'[u][k].job = j
        PROVE  k \in 1 .. Len(stack[u]) /\ stack[u][k].op = "job" /\ stack[u][k].job = j
    <2>1. PICK l : l = stack'[u][k].lane
      OBVIOUS
    <2>2. Runs(u, k, l)'
      BY <1>1, <2>1 DEF Runs, Jobbing
    <2>3. Runs(u, k, l) /\ Same(stack'[u][k], stack[u][k])
      BY <2>2, JobsKept
    <2>4. QED
      BY <1>1, <2>3 DEF Same, Runs
  <1>2. ASSUME NEW u \in Threads, NEW k \in 1 .. Len(stack[u]),
               stack[u][k].op = "job", stack[u][k].job = j
        PROVE  k \in 1 .. Len(stack'[u]) /\ stack'[u][k].op = "job" /\ stack'[u][k].job = j
    <2>1. PICK l : l = stack[u][k].lane
      OBVIOUS
    <2>2. Runs(u, k, l)
      BY <1>2, <2>1 DEF Runs, Jobbing
    <2>3. Runs(u, k, l)' /\ Same(stack'[u][k], stack[u][k])
      BY <2>2, JobsKept
    <2>4. QED
      BY <1>2, <2>3 DEF Same, Runs
  <1>3. QED
    BY <1>1, <1>2

\* Steps that start no job and end none.
LEMMA RestKept ==
  ASSUME Typed, Rest, NEW t \in Threads, NEW n, NEW F, Moves(t, n, F), NoJobs(t, n, F),
         UNCHANGED <<queue, inFlight, made, home, answers>>,
         \A l \in Lanes : stopping[l] => stopping'[l],
         \A l \in ended' :
            \/ l \in ended
            \/ l \in Lanes /\ stopping[l] /\ queue[l] = << >> /\ ~Busy(l)
  PROVE  Rest'
  <1>1. Queued'
    BY DEF Rest, Queued
  <1>2. Order'
    BY OrderKept DEF Rest, NoJobs
  <1>3. \A l \in Lanes : Busy(l)' <=> Busy(l)
    BY BusyKept
  <1>4. Counted'
    BY <1>3 DEF Rest, Counted
  <1>5. \A j : Waits(j)' <=> Waits(j)
    BY WaitsKept DEF Waits
  <1>6. Answered'
    BY <1>5 DEF Rest, Answered
  <1>7. Drained'
    BY <1>3 DEF Rest, Drained, Typed
  <1>8. QED
    BY <1>1, <1>2, <1>4, <1>6, <1>7 DEF Rest

-----------------------------------------------------------------------------
(* The shapes of the actions. *)

LEMMA BelowAlike ==
  ASSUME Typed, NEW t \in Threads, stack[t] # << >>
  PROVE  /\ Below(t) \in Seq(FrameType) /\ Len(stack[t]) - 1 \in Nat
         /\ Len(Below(t)) = Len(stack[t]) - 1
         /\ Alike(Below(t), stack[t], Len(stack[t]) - 1)
  <1>1. stack[t] \in Seq(FrameType)
    BY StackFacts
  <1>2. /\ Below(t) \in Seq(FrameType) /\ Len(Below(t)) = Len(stack[t]) - 1
        /\ Len(stack[t]) \in Nat \ {0}
        /\ \A i \in 1 .. Len(stack[t]) - 1 : Below(t)[i] = stack[t][i]
    BY <1>1, BelowFacts DEF Below
  <1>3. QED
    BY <1>2 DEF Alike, Same

LEMMA Pops ==
  ASSUME Typed, NEW t \in Threads, stack[t] # << >>, Pop(t)
  PROVE  Moves(t, Len(stack[t]) - 1, {})
  BY BelowAlike, Cuts DEF Pop

LEMMA Swaps ==
  ASSUME Typed, NEW t \in Threads, stack[t] # << >>, NEW f \in FrameType, Becomes(t, f)
  PROVE  Moves(t, Len(stack[t]) - 1, {f})
  BY BelowAlike, Puts DEF Becomes, Push

\* The frame a step pops isn't the lowest of a worker.
LEMMA PopShape ==
  ASSUME Typed, Nested, NEW t \in Threads, stack[t] # << >>, Top(t).op \notin Base,
         Moves(t, Len(stack[t]) - 1, {})
  PROVE  Nested' /\ (t \in Threaded => Len(stack[t]) - 1 # 0)
  <1>1. Nested'
    BY NestedKept
  <1>2. ASSUME t \in Threaded, Len(stack[t]) = 1 PROVE FALSE
    BY <1>2, TopFacts DEF OnFloor
  <1>3. QED
    BY <1>1, <1>2, TopFacts

LEMMA SwapShape ==
  ASSUME Typed, Nested, NEW t \in Threads, stack[t] # << >>, NEW f \in FrameType, Apt(f),
         Top(t).op \in Base <=> f.op \in Base,
         Top(t).op \in Jobbing <=> f.op \in Jobbing,
         f.op \in Base \cup Jobbing => f.lane = Top(t).lane,
         Moves(t, Len(stack[t]) - 1, {f})
  PROVE  Nested'
  <1> DEFINE n == Len(stack[t]) - 1
  <1>1. n \in Nat /\ (n = 0 => Len(stack[t]) = 1) /\ (n > 0 => Len(stack[t]) > 1)
    BY TopFacts
  <1>2. n = 0 => OnFloor(t, f)
    <2>1. n = 0 => OnFloor(t, Top(t))
      BY <1>1, TopFacts
    <2>2. QED
      BY <2>1 DEF OnFloor
  <1>3. n > 0 => Above(stack[t][n], f)
    <2>1. n > 0 => Above(stack[t][n], Top(t))
      BY <1>1, TopFacts
    <2>2. QED
      BY <2>1 DEF Above
  <1>4. \A g \in {f} : Apt(g) /\ (n = 0 => OnFloor(t, g)) /\ (n > 0 => Above(stack[t][n], g))
    BY <1>2, <1>3
  <1> HIDE DEF n
  <1>5. Moves(t, n, {f})
    BY DEF n
  <1>6. QED
    BY <1>4, <1>5, NestedKept

LEMMA CallFrames ==
  ASSUME Typed, NEW t \in Threads, MayCall(t)
  PROVE  /\ Charged(t) \in Seq(FrameType) /\ Len(Charged(t)) = Len(stack[t])
         /\ Alike(Charged(t), stack[t], Len(stack[t])) /\ Len(stack[t]) \in Nat
         /\ stack[t] # << >> => Top(t).op = "job"
         /\ t \in Threaded => Len(stack[t]) # 0
  <1>1. stack[t] # << >> => Top(t).op = "job" /\ Top(t).left > 0
    BY DEF MayCall
  <1>2. stack[t] = << >> => t \notin Threaded
    BY LanesAssumption DEF MayCall
  <1>3. QED
    BY <1>1, <1>2, ChargedFacts, StackFacts

LEMMA Calls ==
  ASSUME Typed, NEW t \in Threads, MayCall(t), stack' = [stack EXCEPT ![t] = Charged(t)]
  PROVE  Moves(t, Len(stack[t]), {})
  BY CallFrames, Cuts

LEMMA CallsOn ==
  ASSUME Typed, NEW t \in Threads, MayCall(t), NEW f \in FrameType,
         stack' = [stack EXCEPT ![t] = Append(Charged(t), f)]
  PROVE  Moves(t, Len(stack[t]), {f})
  BY CallFrames, Puts

LEMMA CallShape ==
  ASSUME Typed, Nested, NEW t \in Threads, MayCall(t), NEW F, Moves(t, Len(stack[t]), F),
         \A f \in F : Apt(f) /\ f.op \notin Base \cup Jobbing
  PROVE  Nested' /\ NoJobs(t, Len(stack[t]), F)
  <1> DEFINE n == Len(stack[t])
  <1>1. n \in Nat /\ (t \in Threaded => n # 0) /\ (n # 0 => Top(t).op = "job")
    BY CallFrames, StackFacts
  <1>2. ASSUME NEW f \in F, n = 0 PROVE OnFloor(t, f)
    BY <1>1, <1>2 DEF OnFloor
  <1>3. ASSUME NEW f \in F, n > 0 PROVE Above(stack[t][n], f)
    BY <1>1, <1>3 DEF Above, Top
  <1>4. Nested'
    BY <1>2, <1>3, NestedKept
  <1>5. QED
    BY <1>1, <1>4 DEF NoJobs

-----------------------------------------------------------------------------
(* The actions that start no job and end none. *)

LEMMA TellKeeps ==
  ASSUME IInv, NEW t \in Threads, Tell(t)
  PROVE  IInv'
  <1> DEFINE n == Len(stack[t]) - 1
  <1>1. Typed /\ Nested /\ Marked /\ Sole /\ stack[t] # << >> /\ Top(t).op = "tell"
    BY DEF IInv, Stacks, Tell, In
  <1>2. /\ Below(t) \in Seq(FrameType) /\ Len(Below(t)) = n /\ n \in Nat
        /\ Alike(Below(t), stack[t], n)
    BY <1>1, BelowAlike
  <1>3. Moves(t, n, {})
    BY <1>1, <1>2, Notifies DEF Moves, Tell
  <1>4. Nested' /\ (t \in Threaded => n # 0)
    BY <1>1, <1>3, PopShape DEF Base
  <1>5. NoJobs(t, n, {})
    BY <1>1 DEF NoJobs, Jobbing
  <1> HIDE DEF n
  <1>6. Marked' /\ Sole'
    BY <1>1, <1>3, <1>4, MarkedKept, SoleKept DEF Tell
  <1>7. Typed'
    BY <1>1, <1>3 DEF Typed, Tell, Moves
  <1>8. Rest'
    BY <1>1, <1>3, <1>5, RestKept DEF IInv, Tell
  <1>9. QED
    BY <1>4, <1>6, <1>7, <1>8 DEF IInv, Stacks

LEMMA WorkerSleepKeeps ==
  ASSUME IInv, NEW t \in Threads, WorkerSleep(t)
  PROVE  IInv'
  <1> DEFINE n == Len(stack[t]) - 1
             f == Call("asleep", t)
  <1>1. Typed /\ Nested /\ Marked /\ Sole /\ stack[t] # << >> /\ Top(t).op = "loop"
    BY DEF IInv, Stacks, WorkerSleep, In
  <1>2. t \in Threaded /\ Top(t).lane = t
    BY <1>1, TopFacts, BaseFirst DEF Base
  <1>3. /\ f \in FrameType /\ f.op = "asleep" /\ f.lane = t
    <2>1. t \in Lanes /\ "asleep" \in Ops
      BY <1>2, LanesAssumption DEF Ops
    <2>2. QED
      BY <2>1, CallFacts
  <1> HIDE DEF f
  <1>4. Moves(t, n, {f})
    BY <1>1, <1>3, Swaps DEF WorkerSleep, f
  <1>5. Apt(f)
    BY <1>3 DEF Apt, Drains
  <1>6. Nested'
    BY <1>1, <1>2, <1>3, <1>4, <1>5, SwapShape DEF Base, Jobbing
  <1>7. NoJobs(t, n, {f})
    BY <1>1, <1>3 DEF NoJobs, Jobbing
  <1> HIDE DEF n
  <1>8. Marked' /\ Sole'
    BY <1>1, <1>3, <1>4, MarkedKept, SoleKept DEF WorkerSleep, Drains
  <1>9. Typed'
    BY <1>1, <1>4 DEF Typed, WorkerSleep, Moves
  <1>10. Rest'
    BY <1>1, <1>4, <1>7, RestKept DEF IInv, WorkerSleep
  <1>11. QED
    BY <1>6, <1>8, <1>9, <1>10 DEF IInv, Stacks

\* The worker's frame is its only one when it leaves.
LEMMA WorkerLeaveKeeps ==
  ASSUME IInv, NEW t \in Threads, WorkerLeave(t)
  PROVE  IInv'
  <1> DEFINE n == Len(stack[t]) - 1
  <1>1. Typed /\ Nested /\ Marked /\ Sole /\ stack[t] # << >> /\ Top(t).op = "loop"
    BY DEF IInv, Stacks, WorkerLeave, In
  <1>2. Moves(t, n, {})
    BY <1>1, Pops DEF WorkerLeave
  <1>3. Nested'
    BY <1>1, <1>2, NestedKept
  <1>4. NoJobs(t, n, {})
    BY <1>1 DEF NoJobs, Jobbing
  <1> HIDE DEF n
  <1>5. Marked' /\ Sole'
    BY <1>1, <1>2, MarkedKept, SoleKept DEF WorkerLeave
  <1>6. Typed'
    BY <1>1, <1>2 DEF Typed, WorkerLeave, Moves
  <1>7. Rest'
    BY <1>1, <1>2, <1>4, RestKept DEF IInv, WorkerLeave
  <1>8. QED
    BY <1>3, <1>5, <1>6, <1>7 DEF IInv, Stacks

LEMMA DrainBeginKeeps ==
  ASSUME IInv, NEW t \in Threads, NEW l \in Lanes, DrainBegin(t, l)
  PROVE  IInv'
  <1> DEFINE n == Len(stack[t])
             f == Call("size", l)
  <1>1. Typed /\ Nested /\ Marked /\ Sole /\ MayCall(t)
    BY DEF IInv, Stacks, DrainBegin
  <1>2. f \in FrameType /\ f.op = "size" /\ f.lane = l /\ l \notin Threaded
    BY CallFacts DEF Ops, DrainBegin
  <1> HIDE DEF f
  <1>3. Moves(t, n, {f})
    BY <1>1, <1>2, CallsOn DEF DrainBegin, Push, f
  <1>4. Apt(f) /\ f.op \notin Base \cup Jobbing
    BY <1>2 DEF Apt, Base, Jobbing
  <1>5. Nested' /\ NoJobs(t, n, {f})
    BY <1>1, <1>3, <1>4, CallShape
  <1> HIDE DEF n
  <1>6. Marked'
    BY <1>1, <1>2, <1>3, MarkedKept DEF DrainBegin
  <1>7. Sole'
    BY <1>1, <1>2, <1>3, SoleNew DEF DrainBegin
  <1>8. Typed'
    BY <1>1, <1>3 DEF Typed, DrainBegin, Moves
  <1>9. Rest'
    BY <1>1, <1>3, <1>5, RestKept DEF IInv, DrainBegin
  <1>10. QED
    BY <1>5, <1>6, <1>7, <1>8, <1>9 DEF IInv, Stacks

LEMMA LeastFacts ==
  ASSUME NEW m \in Nat, NEW n \in Nat
  PROVE  Least(m, n) \in Nat
  BY DEF Least

LEMMA DrainSizeKeeps ==
  ASSUME IInv, NEW t \in Threads, DrainSize(t)
  PROVE  IInv'
  <1> DEFINE n == Len(stack[t]) - 1
             l == Top(t).lane
             f == Frame("drain", l, made, Least(Len(queue[l]), PerCall))
  <1>1. Typed /\ Nested /\ Marked /\ Sole /\ stack[t] # << >> /\ Top(t).op = "size"
    BY DEF IInv, Stacks, DrainSize, In
  <1>2. l \in Lanes /\ l \notin Threaded
    BY <1>1, TopFacts, FrameFacts DEF Apt, Drains
  <1>3. f \in FrameType /\ f.op = "drain" /\ f.lane = l
    <2>1. Least(Len(queue[l]), PerCall) \in Nat
      <3>1. queue[l] \in Seq(Jobs)
        BY <1>1, <1>2 DEF Typed
      <3>2. Len(queue[l]) \in Nat /\ PerCall \in Nat
        BY <3>1, LaneLimits
      <3>3. QED
        BY <3>2, LeastFacts
    <2>2. made \in 0 .. MaxJobs /\ "drain" \in Ops
      BY <1>1 DEF Typed, Ops
    <2>3. QED
      BY <1>2, <2>1, <2>2 DEF Frame, FrameType
  <1> HIDE DEF f
  <1>4. Moves(t, n, {f})
    BY <1>1, <1>3, Swaps DEF DrainSize, f
  <1>5. Apt(f)
    BY <1>2, <1>3 DEF Apt
  <1>6. Nested'
    BY <1>1, <1>3, <1>4, <1>5, SwapShape DEF Base, Jobbing
  <1>7. NoJobs(t, n, {f})
    BY <1>1, <1>3 DEF NoJobs, Jobbing
  <1>8. UNCHANGED <<queue, stopping, draining>>
    BY DEF DrainSize
  <1>9. Sole'
    BY <1>1, <1>3, <1>4, <1>8, SoleKept DEF Drains
  <1> HIDE DEF n
  <1>10. Marked'
    BY <1>1, <1>3, <1>4, <1>8, MarkedKept
  <1>11. Typed'
    BY <1>1, <1>4 DEF Typed, DrainSize, Moves
  <1>12. Rest'
    BY <1>1, <1>4, <1>7, RestKept DEF IInv, DrainSize
  <1>13. QED
    BY <1>6, <1>9, <1>11, <1>12, <1>10 DEF IInv, Stacks

LEMMA DrainEndKeeps ==
  ASSUME IInv, NEW t \in Threads, DrainEnd(t)
  PROVE  IInv'
  <1> DEFINE n == Len(stack[t]) - 1
  <1>1. Typed /\ Nested /\ Marked /\ Sole /\ stack[t] # << >> /\ Top(t).op = "drain"
    BY DEF IInv, Stacks, DrainEnd, In
  <1>2. Moves(t, n, {})
    BY <1>1, Pops DEF DrainEnd
  <1>3. Nested' /\ (t \in Threaded => n # 0)
    BY <1>1, <1>2, PopShape DEF Base
  <1>4. NoJobs(t, n, {})
    BY <1>1 DEF NoJobs, Jobbing
  <1>5. Sole'
    BY <1>1, <1>2, SoleGone DEF DrainEnd, Drains
  <1> HIDE DEF n
  <1>6. Marked'
    BY <1>1, <1>2, <1>3, MarkedKept DEF DrainEnd
  <1>7. Typed'
    BY <1>1, <1>2 DEF Typed, DrainEnd, Moves
  <1>8. Rest'
    BY <1>1, <1>2, <1>4, RestKept DEF IInv, DrainEnd
  <1>9. QED
    BY <1>3, <1>5, <1>6, <1>7, <1>8 DEF IInv, Stacks

LEMMA StopWithinKeeps ==
  ASSUME IInv, NEW t \in Threads, NEW l \in Lanes, StopWithin(t, l)
  PROVE  IInv'
  <1> DEFINE n == Len(stack[t])
  <1>1. Typed /\ Nested /\ Marked /\ Sole /\ MayCall(t)
    BY DEF IInv, Stacks, StopWithin, MayStop
  <1>2. Moves(t, n, {})
    BY <1>1, Calls DEF StopWithin
  <1>3. Nested' /\ NoJobs(t, n, {})
    BY <1>1, <1>2, CallShape
  <1>4. t \in Threaded => n # 0
    BY <1>1, CallFrames
  <1> HIDE DEF n
  <1>5. \A m \in Lanes : stopping[m] => stopping'[m]
    BY <1>1 DEF Typed, StopWithin
  <1>6. Marked' /\ Sole'
    BY <1>1, <1>2, <1>4, <1>5, MarkedKept, SoleKept DEF StopWithin
  <1>7. Typed'
    BY <1>1, <1>2 DEF Typed, StopWithin, Moves
  <1>8. Rest'
    BY <1>1, <1>2, <1>3, <1>5, RestKept DEF IInv, StopWithin
  <1>9. QED
    BY <1>3, <1>6, <1>7, <1>8 DEF IInv, Stacks

LEMMA StopBeginKeeps ==
  ASSUME IInv, NEW t \in Threads, NEW l \in Lanes, StopBegin(t, l)
  PROVE  IInv'
  <1> DEFINE n == Len(stack[t])
             f == Call(IF l \in Threaded THEN "wake" ELSE "seize", l)
  <1>1. Typed /\ Nested /\ Marked /\ Sole /\ MayCall(t)
    BY DEF IInv, Stacks, StopBegin, MayStop
  <1>2. /\ f \in FrameType /\ f.op = IF l \in Threaded THEN "wake" ELSE "seize"
        /\ f.lane = l
    BY CallFacts DEF Ops
  <1> HIDE DEF f
  <1>3. Moves(t, n, {f})
    BY <1>1, <1>2, CallsOn DEF StopBegin, Push, f
  <1>4. Apt(f) /\ f.op \notin Base \cup Jobbing /\ f.op \notin Drains
    BY <1>2 DEF Apt, Base, Jobbing, Drains
  <1>5. Nested' /\ NoJobs(t, n, {f})
    BY <1>1, <1>3, <1>4, CallShape
  <1> HIDE DEF n
  <1>6. (\A m \in Lanes : stopping[m] => stopping'[m]) /\ stopping'[l]
    BY <1>1 DEF Typed, StopBegin
  <1>7. Marked' /\ Sole'
    BY <1>1, <1>2, <1>3, <1>4, <1>6, MarkedKept, SoleKept DEF StopBegin
  <1>8. Typed'
    BY <1>1, <1>3 DEF Typed, StopBegin, Moves
  <1>9. Rest'
    BY <1>1, <1>3, <1>5, <1>6, RestKept DEF IInv, StopBegin
  <1>10. QED
    BY <1>5, <1>7, <1>8, <1>9 DEF IInv, Stacks

\* What a thread's own frame says of the stop it is in.
LEMMA StopFacts ==
  ASSUME IInv, NEW t \in Threads, stack[t] # << >>,
         Top(t).op \in {"wake", "join", "seize", "flush"}
  PROVE  /\ Top(t).lane \in Lanes /\ stopping[Top(t).lane]
         /\ Top(t).lane \in Threaded <=> Top(t).op \in {"wake", "join"}
  <1>1. Typed /\ Nested /\ Marked
    BY DEF IInv, Stacks
  <1>2. Top(t).lane \in Lanes /\ Apt(Top(t))
    BY <1>1, TopFacts, FrameFacts
  <1>3. stopping[Top(t).lane]
    BY <1>1, TopFacts DEF Marked
  <1>4. QED
    BY <1>2, <1>3 DEF Apt, Drains

LEMMA StopWakeKeeps ==
  ASSUME IInv, NEW t \in Threads, StopWake(t)
  PROVE  IInv'
  <1> DEFINE n == Len(stack[t]) - 1
             l == Top(t).lane
             f == Call("join", l)
  <1>1. Typed /\ Nested /\ Marked /\ Sole /\ stack[t] # << >> /\ Top(t).op = "wake"
    BY DEF IInv, Stacks, StopWake, In
  <1>2. l \in Threaded /\ l \in Lanes /\ stopping[l]
    BY <1>1, StopFacts
  <1>3. f \in FrameType /\ f.op = "join" /\ f.lane = l
    BY <1>2, CallFacts DEF Ops
  <1>4. stack' = Notified(t, Append(Below(t), f), l)
    BY DEF StopWake
  <1> HIDE DEF f
  <1>5. /\ Below(t) \in Seq(FrameType) /\ Len(Below(t)) = n /\ n \in Nat
        /\ Alike(Below(t), stack[t], n)
    BY <1>1, BelowAlike
  <1>6. Moves(t, n, {f})
    <2> DEFINE r == Append(Below(t), f)
    <2>1. /\ r \in Seq(FrameType) /\ Len(r) = n + 1 /\ r[n + 1] = f
          /\ \A i \in 1 .. n : r[i] = Below(t)[i]
      BY <1>3, <1>5, PushFacts
    <2>2. Alike(r, stack[t], n)
      BY <1>5, <2>1 DEF Alike, Same
    <2> HIDE DEF r
    <2>3. /\ stack' \in [Threads -> Seq(FrameType)] /\ stack'[t] = r
          /\ \A u \in Threads : u # t => stack'[u] = stack[u] \/ Woken(u)
      BY <1>1, <1>4, <2>1, Notifies DEF r
    <2>4. QED
      BY <1>5, <2>1, <2>2, <2>3 DEF Moves
  <1>7. Apt(f)
    BY <1>2, <1>3 DEF Apt, Drains
  <1>8. Nested'
    BY <1>1, <1>3, <1>6, <1>7, SwapShape DEF Base, Jobbing
  <1>9. NoJobs(t, n, {f})
    BY <1>1, <1>3 DEF NoJobs, Jobbing
  <1>10. UNCHANGED <<queue, stopping, draining, inFlight, made, home, answers, ended>>
    BY DEF StopWake
  <1> HIDE DEF n, l
  <1>11. Marked' /\ Sole'
    <2>1. Marked'
      BY <1>1, <1>2, <1>3, <1>6, <1>10, MarkedKept
    <2>2. Sole'
      BY <1>1, <1>3, <1>6, <1>10, SoleKept DEF Drains
    <2>3. QED
      BY <2>1, <2>2
  <1>12. Typed'
    BY <1>1, <1>6, <1>10 DEF Typed, Moves
  <1>13. Rest'
    BY <1>1, <1>6, <1>9, <1>10, RestKept DEF IInv
  <1>14. QED
    BY <1>8, <1>11, <1>12, <1>13 DEF IInv, Stacks

\* A worker that has left has emptied its queue, and no job of its lane runs.
LEMMA StopJoinKeeps ==
  ASSUME IInv, NEW t \in Threads, StopJoin(t)
  PROVE  IInv'
  <1> DEFINE n == Len(stack[t]) - 1
             l == Top(t).lane
  <1>1. Typed /\ Nested /\ Marked /\ Sole /\ stack[t] # << >> /\ Top(t).op = "join"
    BY DEF IInv, Stacks, StopJoin, In
  <1>2. l \in Threaded /\ l \in Lanes /\ stopping[l] /\ stack[l] = << >>
    <2>1. stack[l] = << >>
      BY DEF StopJoin
    <2>2. QED
      BY <1>1, <2>1, StopFacts
  <1>3. queue[l] = << >>
    BY <1>1, <1>2 DEF Marked
  <1>4. ~Busy(l)
    <2> SUFFICES ASSUME NEW u \in Threads, NEW k \in 1 .. Len(stack[u]), Runs(u, k, l)
                 PROVE  FALSE
      BY DEF Busy
    <2> DEFINE i == k - 1
    <2>1. i \in 1 .. Len(stack[u]) /\ stack[u][i].op \in Taking /\ stack[u][i].lane = l
      BY <1>1, ScopeBelow
    <2> HIDE DEF i
    <2>2. Apt(stack[u][i])
      BY <1>1, <2>1 DEF Nested
    <2>3. stack[u][i].op = "loop"
      BY <1>2, <2>1, <2>2 DEF Apt, Taking, Drains
    <2>4. i = 1 /\ u = l
      BY <1>1, <2>1, <2>3, BaseFirst DEF Base
    <2>5. QED
      BY <1>1, <1>2, <2>1, <2>4, StackFacts
  <1>5. Moves(t, n, {})
    BY <1>1, Pops DEF StopJoin
  <1>6. Nested' /\ (t \in Threaded => n # 0)
    BY <1>1, <1>5, PopShape DEF Base
  <1>7. NoJobs(t, n, {})
    BY <1>1 DEF NoJobs, Jobbing
  <1>8. /\ UNCHANGED <<queue, stopping, draining, inFlight, made, home, answers>>
        /\ ended' = ended \cup {l}
    BY DEF StopJoin
  <1> HIDE DEF n, l
  <1>9. Marked' /\ Sole'
    BY <1>1, <1>5, <1>6, <1>8, MarkedKept, SoleKept
  <1>10. Typed'
    BY <1>1, <1>2, <1>5, <1>8 DEF Typed, Moves
  <1>11. Rest'
    BY <1>1, <1>2, <1>3, <1>4, <1>5, <1>7, <1>8, RestKept DEF IInv
  <1>12. QED
    BY <1>6, <1>9, <1>10, <1>11 DEF IInv, Stacks

LEMMA StopSeizeKeeps ==
  ASSUME IInv, NEW t \in Threads, StopSeize(t)
  PROVE  IInv'
  <1> DEFINE n == Len(stack[t]) - 1
             l == Top(t).lane
             f == Call("flush", l)
  <1>1. Typed /\ Nested /\ Marked /\ Sole /\ stack[t] # << >> /\ Top(t).op = "seize"
    BY DEF IInv, Stacks, StopSeize, In
  <1>2. l \notin Threaded /\ l \in Lanes /\ stopping[l]
    BY <1>1, StopFacts
  <1>3. f \in FrameType /\ f.op = "flush" /\ f.lane = l
    BY <1>2, CallFacts DEF Ops
  <1> HIDE DEF f
  <1>4. Moves(t, n, {f})
    BY <1>1, <1>3, Swaps DEF StopSeize, f
  <1>5. Apt(f)
    BY <1>2, <1>3 DEF Apt
  <1>6. Nested'
    BY <1>1, <1>3, <1>4, <1>5, SwapShape DEF Base, Jobbing
  <1>7. NoJobs(t, n, {f})
    BY <1>1, <1>3 DEF NoJobs, Jobbing
  <1>8. /\ UNCHANGED <<queue, stopping, inFlight, made, home, answers, ended>>
        /\ ~draining[l] /\ draining' = [draining EXCEPT ![l] = TRUE]
    BY DEF StopSeize
  <1> HIDE DEF n, l
  <1>9. Marked'
    BY <1>1, <1>2, <1>3, <1>4, <1>8, MarkedKept
  <1>10. Sole'
    BY <1>1, <1>2, <1>3, <1>4, <1>8, SoleNew
  <1>11. Typed'
    BY <1>1, <1>4, <1>8 DEF Typed, Moves
  <1>12. Rest'
    BY <1>1, <1>4, <1>7, <1>8, RestKept DEF IInv
  <1>13. QED
    BY <1>6, <1>9, <1>10, <1>11, <1>12 DEF IInv, Stacks

LEMMA StopEndKeeps ==
  ASSUME IInv, NEW t \in Threads, StopEnd(t)
  PROVE  IInv'
  <1> DEFINE n == Len(stack[t]) - 1
             l == Top(t).lane
  <1>1. Typed /\ Nested /\ Marked /\ Sole /\ stack[t] # << >> /\ Top(t).op = "flush"
    BY DEF IInv, Stacks, StopEnd, In
  <1>2. l \in Lanes /\ stopping[l] /\ queue[l] = << >>
    BY <1>1, StopFacts DEF StopEnd
  <1>3. ~Busy(l)
    BY <1>1, ScopeFree DEF Taking
  <1>4. Moves(t, n, {})
    BY <1>1, Pops DEF StopEnd
  <1>5. Nested' /\ (t \in Threaded => n # 0)
    BY <1>1, <1>4, PopShape DEF Base
  <1>6. NoJobs(t, n, {})
    BY <1>1 DEF NoJobs, Jobbing
  <1>7. /\ UNCHANGED <<queue, stopping, inFlight, made, home, answers>>
        /\ ended' = ended \cup {l} /\ draining' = [draining EXCEPT ![l] = FALSE]
    BY DEF StopEnd
  <1>8. Sole'
    BY <1>1, <1>4, <1>7, SoleGone DEF Drains
  <1> HIDE DEF n, l
  <1>9. Marked'
    BY <1>1, <1>4, <1>5, <1>7, MarkedKept
  <1>10. Typed'
    BY <1>1, <1>2, <1>4, <1>7 DEF Typed, Moves
  <1>11. Rest'
    BY <1>1, <1>2, <1>3, <1>4, <1>6, <1>7, RestKept DEF IInv
  <1>12. QED
    BY <1>5, <1>8, <1>9, <1>10, <1>11 DEF IInv, Stacks

-----------------------------------------------------------------------------
(* submit. *)

LEMMA JobFacts == \A j \in Jobs : j \in Nat /\ j >= 1 /\ j <= MaxJobs
  BY LaneLimits DEF Jobs

\* The jobs that are queued or running were taken by a lane.
LEMMA OldJobs ==
  ASSUME Typed, Rest, NEW j, Waits(j)
  PROVE  j \in Jobs /\ home[j] \in Lanes /\ home[j] # None /\ j <= made
  <1>1. ASSUME NEW l \in Lanes, j \in Range(queue[l])
        PROVE  j \in Jobs /\ home[j] \in Lanes
    <2>1. PICK k \in DOMAIN queue[l] : queue[l][k] = j
      BY <1>1 DEF Range
    <2>2. queue[l] \in Seq(Jobs) /\ k \in 1 .. Len(queue[l])
      BY <2>1 DEF Typed
    <2>3. QED
      BY <2>1, <2>2, ElementOfSeq DEF Rest, Queued
  <1>2. ASSUME NEW u \in Threads, NEW k \in 1 .. Len(stack[u]),
               stack[u][k].op = "job", stack[u][k].job = j
        PROVE  j \in Jobs /\ home[j] \in Lanes
    <2>1. stack[u][k].lane \in Lanes
      BY StackFacts, FrameFacts
    <2>2. QED
      BY <1>2, <2>1 DEF Rest, Order, Jobbing
  <1>3. j \in Jobs /\ home[j] \in Lanes
    BY <1>1, <1>2 DEF Waits
  <1>4. home[j] # None
    BY <1>3, LanesAssumption
  <1>5. QED
    BY <1>3, <1>4 DEF Rest, Queued

LEMMA NextJob ==
  ASSUME Typed, Rest, made < MaxJobs
  PROVE  /\ made + 1 \in Jobs /\ made + 1 \in 0 .. MaxJobs /\ made \in Nat
         /\ home[made + 1] = None /\ ~Waits(made + 1) /\ answers[made + 1] = 0
  <1>1. made \in Nat /\ made + 1 \in Jobs /\ made + 1 \in 0 .. MaxJobs
    BY LaneLimits DEF Typed, Jobs
  <1>2. ~(made + 1 <= made) /\ made + 1 > made
    BY <1>1
  <1>3. home[made + 1] = None /\ ~Waits(made + 1)
    BY <1>1, <1>2, OldJobs DEF Rest, Queued
  <1>4. answers[made + 1] = 0
    BY <1>1, <1>2 DEF Rest, Answered
  <1>5. QED
    BY <1>1, <1>3, <1>4

LEMMA SubmitRefusedKeeps ==
  ASSUME IInv, NEW t \in Threads, NEW l \in Lanes, SubmitRefused(t, l)
  PROVE  IInv'
  <1> DEFINE n == Len(stack[t])
  <1>1. Typed /\ Nested /\ Marked /\ Sole /\ Rest /\ MayCall(t)
    BY DEF IInv, Stacks, SubmitRefused
  <1>2. Moves(t, n, {})
    BY <1>1, Calls DEF SubmitRefused
  <1>3. Nested' /\ NoJobs(t, n, {})
    BY <1>1, <1>2, CallShape
  <1>4. t \in Threaded => n # 0
    BY <1>1, CallFrames
  <1> HIDE DEF n
  <1>5. /\ UNCHANGED <<queue, stopping, draining, inFlight, home, ended>>
        /\ made' = made + 1 /\ answers' = [answers EXCEPT ![made + 1] = @ + 1]
    BY DEF SubmitRefused
  <1>6. Marked'
    BY <1>1, <1>2, <1>4, <1>5, MarkedKept
  <1>7. Sole'
    BY <1>1, <1>2, <1>5, SoleKept
  <1>8. /\ made + 1 \in Jobs /\ made + 1 \in 0 .. MaxJobs /\ made \in Nat
        /\ home[made + 1] = None /\ ~Waits(made + 1) /\ answers[made + 1] = 0
    BY <1>1, NextJob DEF SubmitRefused
  <1>9. Typed'
    BY <1>1, <1>2, <1>5, <1>8 DEF Typed, Moves
  <1>10. Queued'
    BY <1>1, <1>5, <1>8, JobFacts DEF Rest, Queued
  <1>11. Order'
    BY <1>1, <1>2, <1>3, <1>5, OrderKept DEF Rest
  <1>12. \A m \in Lanes : Busy(m)' <=> Busy(m)
    BY <1>1, <1>2, <1>3, BusyKept
  <1>13. Counted' /\ Drained'
    BY <1>1, <1>5, <1>12 DEF Rest, Counted, Drained, Typed
  <1>14. \A j : Waits(j)' <=> Waits(j)
    BY <1>1, <1>2, <1>3, <1>5, WaitsKept DEF Waits
  <1>15. Answered'
    <2> SUFFICES ASSUME NEW j \in Jobs
                 PROVE  answers'[j] = IF j > made' \/ Waits(j)' THEN 0 ELSE 1
      BY DEF Answered
    <2>1. CASE j = made + 1
      BY <1>1, <1>5, <1>8, <1>14, <2>1 DEF Typed
    <2>2. CASE j # made + 1
      <3>1. answers'[j] = answers[j]
        BY <1>1, <1>5, <2>2 DEF Typed
      <3>2. j > made + 1 <=> j > made
        BY <1>8, <2>2, JobFacts
      <3>3. QED
        BY <1>1, <1>5, <1>14, <3>1, <3>2 DEF Rest, Answered
    <2>3. QED
      BY <2>1, <2>2
  <1>16. QED
    BY <1>3, <1>6, <1>7, <1>9, <1>10, <1>11, <1>13, <1>15 DEF IInv, Stacks, Rest

LEMMA AppendFacts ==
  ASSUME NEW q \in Seq(Jobs), NEW j \in Jobs
  PROVE  /\ Append(q, j) \in Seq(Jobs) /\ Len(q) \in Nat /\ Len(Append(q, j)) = Len(q) + 1
         /\ \A k \in 1 .. Len(q) : Append(q, j)[k] = q[k]
         /\ Append(q, j)[Len(q) + 1] = j
         /\ Range(Append(q, j)) = Range(q) \cup {j}
         /\ \A k \in 1 .. Len(q) : q[k] \in Jobs /\ q[k] \in Range(q)
  <1>1. /\ Append(q, j) \in Seq(Jobs) /\ Len(q) \in Nat /\ Len(Append(q, j)) = Len(q) + 1
        /\ \A k \in 1 .. Len(q) : Append(q, j)[k] = q[k]
        /\ Append(q, j)[Len(q) + 1] = j
    BY PushFacts
  <1>2. DOMAIN q = 1 .. Len(q) /\ DOMAIN Append(q, j) = 1 .. Len(q) + 1
    BY <1>1
  <1>3. 1 .. Len(q) + 1 = (1 .. Len(q)) \cup {Len(q) + 1}
    BY <1>1
  <1>4. Range(Append(q, j)) = Range(q) \cup {j}
    BY <1>1, <1>2, <1>3 DEF Range
  <1>5. QED
    BY <1>1, <1>2, <1>4 DEF Range

LEMMA SubmitQueuedStacks ==
  ASSUME IInv, NEW t \in Threads, NEW l \in Lanes, SubmitQueued(t, l)
  PROVE  \E F : /\ Moves(t, Len(stack[t]), F) /\ NoJobs(t, Len(stack[t]), F)
                /\ Nested' /\ Marked' /\ Sole'
  <1> DEFINE n == Len(stack[t])
             f == Call("tell", l)
             F == IF l \in Threaded THEN {f} ELSE {}
  <1>1. Typed /\ Nested /\ Marked /\ Sole /\ MayCall(t)
    BY DEF IInv, Stacks, SubmitQueued
  <1>2. f \in FrameType /\ f.op = "tell" /\ f.lane = l
    BY CallFacts DEF Ops
  <1>3. Moves(t, n, F)
    <2>1. CASE l \in Threaded
      <3>1. stack' = [stack EXCEPT ![t] = Append(Charged(t), f)]
        BY <2>1 DEF SubmitQueued
      <3> HIDE DEF f
      <3>2. QED
        BY <1>1, <1>2, <2>1, <3>1, CallsOn
    <2>2. CASE l \notin Threaded
      <3>1. stack' = [stack EXCEPT ![t] = Charged(t)]
        BY <2>2 DEF SubmitQueued
      <3>2. QED
        BY <1>1, <2>2, <3>1, Calls
    <2>3. QED
      BY <2>1, <2>2
  <1> HIDE DEF f
  <1>4. Apt(f) /\ f.op \notin Base \cup Jobbing /\ f.op \notin Drains
    BY <1>2 DEF Apt, Base, Jobbing, Drains
  <1>5. \A g \in F : g = f
    OBVIOUS
  <1> HIDE DEF F
  <1>6. \A g \in F : Apt(g) /\ g.op \notin Base \cup Jobbing
    BY <1>4, <1>5
  <1>7. Nested' /\ NoJobs(t, n, F)
    BY <1>1, <1>3, <1>6, CallShape
  <1>8. t \in Threaded => n # 0
    BY <1>1, CallFrames
  <1>9. UNCHANGED <<stopping, draining>> /\ ~stopping[l] /\ queue' = [queue EXCEPT ![l] = Append(@, made + 1)]
    BY DEF SubmitQueued
  <1>10. Sole'
    BY <1>1, <1>3, <1>4, <1>5, <1>9, SoleKept
  <1> HIDE DEF n
  <1>11. \A m \in Threaded : stopping[m] /\ queue[m] = << >> => queue'[m] = << >>
    BY <1>1, <1>9, LanesAssumption DEF Typed
  <1>12. Marked'
    BY <1>1, <1>2, <1>3, <1>5, <1>8, <1>9, <1>11, MarkedKept
  <1>13. QED
    BY <1>3, <1>7, <1>10, <1>12 DEF n

LEMMA SubmitQueuedKeeps ==
  ASSUME IInv, NEW t \in Threads, NEW l \in Lanes, SubmitQueued(t, l)
  PROVE  IInv'
  <1> DEFINE n == Len(stack[t])
  <1>1. Typed /\ Nested /\ Marked /\ Sole /\ Rest
    BY DEF IInv, Stacks
  <1>2. PICK F : Moves(t, n, F) /\ NoJobs(t, n, F) /\ Nested' /\ Marked' /\ Sole'
    BY SubmitQueuedStacks
  <1> HIDE DEF n
  <1>3. PICK J \in Jobs : /\ J = made + 1 /\ J \in 0 .. MaxJobs /\ made \in Nat
                          /\ home[J] = None /\ ~Waits(J) /\ answers[J] = 0
    BY <1>1, NextJob DEF SubmitQueued
  <1>4. /\ UNCHANGED <<stopping, draining, answers, ended>> /\ ~stopping[l]
        /\ made' = J /\ queue' = [queue EXCEPT ![l] = Append(@, J)]
        /\ inFlight' = [inFlight EXCEPT ![l] = @ + 1] /\ home' = [home EXCEPT ![J] = l]
    BY <1>3 DEF SubmitQueued
  <1>5. queue[l] \in Seq(Jobs)
    BY <1>1 DEF Typed
  <1>6. /\ \A m \in Lanes : queue'[m] = IF m = l THEN Append(queue[l], J) ELSE queue[m]
        /\ \A m \in Lanes : inFlight'[m] = IF m = l THEN inFlight[l] + 1 ELSE inFlight[m]
        /\ \A j \in Jobs : home'[j] = IF j = J THEN l ELSE home[j]
    BY <1>1, <1>4 DEF Typed
  <1>7. Typed'
    <2>1. queue' \in [Lanes -> Seq(Jobs)]
      BY <1>1, <1>4, <1>5, AppendFacts DEF Typed
    <2>2. QED
      BY <1>1, <1>2, <1>3, <1>4, <2>1 DEF Typed, Moves
  <1>8. \A m \in Lanes : Range(queue'[m]) = IF m = l THEN Range(queue[l]) \cup {J}
                                                     ELSE Range(queue[m])
    BY <1>5, <1>6, AppendFacts
  <1>9. \A j \in Jobs : home[j] # None => j \in Nat /\ j < J /\ j # J
    BY <1>1, <1>3, JobFacts DEF Rest, Queued
  <1>10. \A j \in Jobs, m \in Lanes : home[j] = m => j < J /\ j # J /\ home'[j] = m
    BY <1>6, <1>9, LanesAssumption
  <1>11. ASSUME NEW m \in Lanes
         PROVE  /\ \A k, i \in 1 .. Len(queue'[m]) : k < i => queue'[m][k] < queue'[m][i]
                /\ \A k \in 1 .. Len(queue'[m]) : home'[queue'[m][k]] = m
                /\ \A k \in 1 .. Len(queue'[m]) : \A j \in Jobs :
                    home'[j] = m /\ j > queue'[m][k] => j \in Range(queue'[m])
    <2> DEFINE q == queue[m]
    <2>1. q \in Seq(Jobs) /\ Len(q) \in Nat /\ \A k \in 1 .. Len(q) : q[k] \in Jobs
      BY <1>1, ElementOfSeq DEF Typed
    <2>2. /\ \A k, i \in 1 .. Len(q) : k < i => q[k] < q[i]
          /\ \A k \in 1 .. Len(q) : home[q[k]] = m
          /\ \A k \in 1 .. Len(q) : \A j \in Jobs : home[j] = m /\ j > q[k] => j \in Range(q)
      BY <1>1 DEF Rest, Queued
    <2>3. \A k \in 1 .. Len(q) : q[k] < J /\ home'[q[k]] = m
      BY <1>10, <2>1, <2>2
    <2>4. CASE m # l
      <3>1. queue'[m] = q
        BY <1>6, <2>4
      <3>2. \A j \in Jobs : home'[j] = m => home[j] = m
        BY <1>6, <2>4
      <3> HIDE DEF q
      <3>3. QED
        BY <2>2, <2>3, <3>1, <3>2
    <2>5. CASE m = l
      <3> DEFINE r == Append(q, J)
      <3>1. /\ queue'[m] = r /\ Len(r) = Len(q) + 1 /\ r[Len(q) + 1] = J
            /\ \A k \in 1 .. Len(q) : r[k] = q[k]
            /\ Range(r) = Range(q) \cup {J}
        BY <1>6, <2>1, <2>5, AppendFacts
      <3> HIDE DEF q, r
      <3>2. \A k \in 1 .. Len(r) : k \in 1 .. Len(q) \/ k = Len(q) + 1
        BY <2>1, <3>1
      <3>3. \A k, i \in 1 .. Len(r) : k < i => r[k] < r[i]
        <4> SUFFICES ASSUME NEW k \in 1 .. Len(r), NEW i \in 1 .. Len(r), k < i
                     PROVE  r[k] < r[i]
          OBVIOUS
        <4>1. k \in 1 .. Len(q)
          BY <2>1, <3>1
        <4>2. QED
          BY <2>2, <2>3, <3>1, <3>2, <4>1
      <3>4. \A k \in 1 .. Len(r) : home'[r[k]] = m
        BY <1>6, <2>3, <2>5, <3>1, <3>2
      <3>5. ASSUME NEW k \in 1 .. Len(r), NEW j \in Jobs, home'[j] = m, j > r[k]
            PROVE  j \in Range(r)
        <4>1. CASE j = J
          BY <3>1, <4>1
        <4>2. CASE j # J
          <5>1. home[j] = m /\ j < J
            BY <1>6, <1>10, <3>5, <4>2
          <5>2. k \in 1 .. Len(q)
            <6>1. j \in Nat /\ J \in Nat /\ ~(j > J)
              BY <5>1, JobFacts
            <6>2. r[k] # J
              BY <3>5, <6>1
            <6>3. QED
              BY <3>1, <3>2, <6>2
          <5>3. QED
            BY <2>2, <3>1, <3>5, <5>1, <5>2
        <4>3. QED
          BY <4>1, <4>2
      <3>6. QED
        BY <3>1, <3>3, <3>4, <3>5
    <2>6. QED
      BY <2>4, <2>5
  <1>12. Queued'
    <2>1. \A j \in Jobs : home'[j] # None => j <= made'
      BY <1>3, <1>4, <1>6, <1>9, JobFacts
    <2>2. QED
      BY <1>11, <2>1 DEF Queued
  <1>13. Order'
    <2> SUFFICES ASSUME NEW u \in Threads, NEW k \in 1 .. Len(stack'[u]),
                        stack'[u][k].op \in Jobbing
                 PROVE  LET f == stack'[u][k] IN
                        /\ f.job \in Jobs /\ home'[f.job] = f.lane
                        /\ \A j \in Jobs : home'[j] = f.lane =>
                            (j > f.job <=> j \in Range(queue'[f.lane]))
      BY DEF Order
    <2>1. PICK m : m = stack'[u][k].lane
      OBVIOUS
    <2>2. Runs(u, k, m)'
      BY <2>1 DEF Runs
    <2>3. Runs(u, k, m) /\ Same(stack'[u][k], stack[u][k])
      BY <1>1, <1>2, <2>2, JobsKept
    <2>4. /\ k \in 1 .. Len(stack[u]) /\ stack[u][k].op \in Jobbing /\ stack[u][k].lane = m
          /\ m \in Lanes
      BY <1>1, <2>3, StackFacts, FrameFacts DEF Runs
    <2>5. PICK i : i = stack[u][k].job /\ i = stack'[u][k].job
      BY <2>3 DEF Same
    <2>6. /\ i \in Jobs /\ home[i] = m
          /\ \A j \in Jobs : home[j] = m => (j > i <=> j \in Range(queue[m]))
      BY <1>1, <2>4, <2>5 DEF Rest, Order
    <2>7. home'[i] = m /\ i < J
      BY <1>10, <2>4, <2>6
    <2>8. ASSUME NEW j \in Jobs, home'[j] = m
          PROVE  j > i <=> j \in Range(queue'[m])
      <3>1. CASE j = J
        BY <1>6, <1>8, <2>4, <2>6, <2>7, <2>8, <3>1, JobFacts
      <3>2. CASE j # J
        BY <1>6, <1>8, <2>4, <2>6, <2>8, <3>2
      <3>3. QED
        BY <3>1, <3>2
    <2>9. QED
      BY <2>1, <2>5, <2>6, <2>7, <2>8
  <1>14. \A m \in Lanes : Busy(m)' <=> Busy(m)
    BY <1>1, <1>2, BusyKept
  <1>15. Counted'
    <2> SUFFICES ASSUME NEW m \in Lanes
                 PROVE  inFlight'[m] = Len(queue'[m]) + (IF Busy(m)' THEN 1 ELSE 0)
      BY DEF Counted
    <2>b. PICK b \in Nat : /\ b = IF Busy(m) THEN 1 ELSE 0
                           /\ b = IF Busy(m)' THEN 1 ELSE 0
      BY <1>14
    <2>1. inFlight[m] = Len(queue[m]) + b
      BY <1>1, <2>b DEF Rest, Counted
    <2>2. Len(Append(queue[l], J)) = Len(queue[l]) + 1 /\ Len(queue[l]) \in Nat
      BY <1>5, AppendFacts
    <2>3. CASE m = l
      <3>1. Len(queue'[m]) = Len(queue[m]) + 1 /\ inFlight'[m] = inFlight[m] + 1
        BY <1>6, <2>2, <2>3
      <3>2. Len(queue[m]) \in Nat
        BY <2>2, <2>3
      <3>3. inFlight'[m] = Len(queue'[m]) + b
        BY <2>1, <3>1, <3>2
      <3>4. QED
        BY <2>b, <3>3
    <2>4. CASE m # l
      BY <1>6, <2>b, <2>1, <2>4
    <2>5. QED
      BY <2>3, <2>4
  <1>16. Drained'
    <2>1. \A m \in ended : m \in Lanes /\ m # l
      BY <1>1, <1>4 DEF Rest, Drained, Typed
    <2>2. QED
      BY <1>1, <1>4, <1>6, <1>14, <2>1 DEF Rest, Drained
  <1>17. \A j \in Jobs : Waits(j)' <=> Waits(j) \/ j = J
    <2>1. \A j : (\E m \in Lanes : j \in Range(queue'[m]))
                 <=> j = J \/ \E m \in Lanes : j \in Range(queue[m])
      BY <1>8
    <2>2. QED
      BY <1>1, <1>2, <2>1, WaitsKept DEF Waits
  <1>18. Answered'
    <2> SUFFICES ASSUME NEW j \in Jobs
                 PROVE  answers'[j] = IF j > made' \/ Waits(j)' THEN 0 ELSE 1
      BY DEF Answered
    <2>1. answers'[j] = answers[j]
      BY <1>4
    <2>2. CASE j = J
      BY <1>3, <1>17, <2>1, <2>2
    <2>3. CASE j # J
      <3>1. j > J <=> j > made
        BY <1>3, <2>3, JobFacts
      <3>2. QED
        BY <1>1, <1>4, <1>17, <2>1, <2>3, <3>1 DEF Rest, Answered
    <2>4. QED
      BY <2>2, <2>3
  <1>19. QED
    BY <1>2, <1>7, <1>12, <1>13, <1>15, <1>16, <1>18 DEF IInv, Stacks, Rest

-----------------------------------------------------------------------------
(* The actions that start a job. *)

LEMMA InRange ==
  ASSUME NEW S, NEW s \in Seq(S), NEW k \in 1 .. Len(s)
  PROVE  s[k] \in Range(s)
  BY DEF Range

LEMMA TailFacts ==
  ASSUME NEW q \in Seq(Jobs), q # << >>,
         \A k, i \in 1 .. Len(q) : k < i => q[k] < q[i]
  PROVE  /\ Head(q) \in Jobs /\ Tail(q) \in Seq(Jobs) /\ Len(Tail(q)) \in Nat
         /\ Len(q) = Len(Tail(q)) + 1 /\ Head(q) = q[1]
         /\ \A k \in 1 .. Len(Tail(q)) : Tail(q)[k] = q[k + 1] /\ k + 1 \in 1 .. Len(q)
         /\ Range(Tail(q)) \cup {Head(q)} = Range(q)
         /\ \A j \in Range(Tail(q)) : j > Head(q) /\ j \in Jobs
  <1>1. /\ Head(q) \in Jobs /\ Tail(q) \in Seq(Jobs) /\ Len(Tail(q)) = Len(q) - 1
        /\ Len(q) \in Nat \ {0} /\ Head(q) = q[1]
        /\ \A k \in 1 .. Len(Tail(q)) : Tail(q)[k] = q[k + 1]
    BY HeadTailProperties, EmptySeq
  <1> DEFINE r == Tail(q)
             n == Len(q)
  <1>2. n \in Nat /\ n > 0 /\ Len(r) = n - 1
    BY <1>1
  <1>3. /\ DOMAIN q = 1 .. n /\ DOMAIN r = 1 .. n - 1
        /\ \A k \in 1 .. n : q[k] \in Jobs
    BY <1>1, ElementOfSeq
  <1>4. \A k \in 1 .. n - 1 : r[k] = q[k + 1]
    BY <1>1
  <1>5. q[1] = Head(q)
    BY <1>1
  <1> HIDE DEF r, n
  <1>6. \A k \in 1 .. n - 1 : k + 1 \in 1 .. n /\ 1 < k + 1 /\ 1 \in 1 .. n
    BY <1>2
  <1>7. \A j \in Range(r) : j > q[1] /\ j \in Jobs
    <2> SUFFICES ASSUME NEW k \in 1 .. n - 1 PROVE r[k] > q[1] /\ r[k] \in Jobs
      BY <1>3 DEF Range
    <2>1. r[k] = q[k + 1] /\ k + 1 \in 1 .. n /\ 1 < k + 1 /\ 1 \in 1 .. n
      BY <1>4, <1>6
    <2>2. q[1] < q[k + 1] /\ q[k + 1] \in Jobs /\ q[1] \in Jobs
      BY <1>3, <2>1 DEF n
    <2>3. QED
      BY <2>1, <2>2, JobFacts
  <1>8. Range(r) \cup {q[1]} = Range(q)
    <2>1. \A k \in 1 .. n : k = 1 \/ \E i \in 1 .. n - 1 : k = i + 1
      <3> SUFFICES ASSUME NEW k \in 1 .. n, k # 1 PROVE \E i \in 1 .. n - 1 : k = i + 1
        OBVIOUS
      <3>1. k - 1 \in 1 .. n - 1 /\ k = (k - 1) + 1
        BY <1>2
      <3>2. QED
        BY <3>1
    <2>2. ASSUME NEW j \in Range(q) PROVE j \in Range(r) \cup {q[1]}
      <3>1. PICK k \in 1 .. n : j = q[k]
        BY <1>3, <2>2 DEF Range
      <3>2. QED
        BY <1>3, <1>4, <2>1, <3>1 DEF Range
    <2>3. ASSUME NEW j \in Range(r) PROVE j \in Range(q)
      <3>1. PICK k \in 1 .. n - 1 : j = r[k]
        BY <1>3, <2>3 DEF Range
      <3>2. QED
        BY <1>3, <1>4, <1>6, <3>1 DEF Range
    <2>4. q[1] \in Range(q)
      BY <1>2, <1>3 DEF Range
    <2>5. QED
      BY <2>2, <2>3, <2>4
  <1>9. /\ Len(r) \in Nat /\ n = Len(r) + 1
        /\ \A k \in 1 .. Len(r) : r[k] = q[k + 1] /\ k + 1 \in 1 .. n
    BY <1>2, <1>4, <1>6
  <1>10. QED
    BY <1>1, <1>5, <1>7, <1>8, <1>9 DEF r, n

LEMMA TailOrdered ==
  ASSUME NEW q \in Seq(Jobs), q # << >>,
         \A k, i \in 1 .. Len(q) : k < i => q[k] < q[i]
  PROVE  \A k, i \in 1 .. Len(Tail(q)) : k < i => Tail(q)[k] < Tail(q)[i]
  <1> SUFFICES ASSUME NEW k \in 1 .. Len(Tail(q)), NEW i \in 1 .. Len(Tail(q)), k < i
               PROVE  Tail(q)[k] < Tail(q)[i]
    OBVIOUS
  <1>1. Tail(q)[k] = q[k + 1] /\ k + 1 \in 1 .. Len(q)
    BY TailFacts
  <1>2. Tail(q)[i] = q[i + 1] /\ i + 1 \in 1 .. Len(q)
    BY TailFacts
  <1>3. k + 1 < i + 1
    OBVIOUS
  <1>4. q[k + 1] < q[i + 1]
    BY <1>1, <1>2, <1>3
  <1>5. QED
    BY <1>1, <1>2, <1>4

LEMMA BeginKeeps ==
  ASSUME IInv, NEW t \in Threads, stack[t] # << >>, Top(t).op \in Taking,
         NEW l, l = Top(t).lane, queue[l] # << >>,
         NEW s \in Seq(FrameType), Len(s) = Len(stack[t]), Alike(s, stack[t], Len(stack[t])),
         Begin(t, s, l),
         UNCHANGED <<stopping, draining, inFlight, made, home, answers, ended>>
  PROVE  IInv'
  <1>0. PICK n : n = Len(stack[t])
    OBVIOUS
  <1> DEFINE q == queue[l]
             f == Frame("job", l, Head(q), MaxCalls)
             R == Range(Tail(q))
  <1>1. Typed /\ Nested /\ Marked /\ Sole /\ Rest
    BY DEF IInv, Stacks
  <1>2. l \in Lanes /\ ~Busy(l) /\ n \in Nat \ {0} /\ stack[t][n] = Top(t)
    BY <1>0, <1>1, TopFacts, FrameFacts, ScopeFree
  <1>3. /\ q \in Seq(Jobs)
        /\ \A k, i \in 1 .. Len(q) : k < i => q[k] < q[i]
        /\ \A k \in 1 .. Len(q) : home[q[k]] = l
        /\ \A k \in 1 .. Len(q) : \A j \in Jobs : home[j] = l /\ j > q[k] => j \in Range(q)
    BY <1>1, <1>2 DEF Typed, Rest, Queued
  <1>4. /\ Head(q) \in Jobs /\ Tail(q) \in Seq(Jobs) /\ Len(Tail(q)) \in Nat
        /\ Len(q) = Len(Tail(q)) + 1 /\ Head(q) = q[1] /\ 1 \in 1 .. Len(q)
        /\ \A k \in 1 .. Len(Tail(q)) : Tail(q)[k] = q[k + 1] /\ k + 1 \in 1 .. Len(q)
        /\ R \cup {Head(q)} = Range(q)
        /\ \A j \in R : j > Head(q) /\ j \in Jobs
    <2>1. /\ Head(q) \in Jobs /\ Tail(q) \in Seq(Jobs) /\ Len(Tail(q)) \in Nat
          /\ Len(q) = Len(Tail(q)) + 1 /\ Head(q) = q[1]
          /\ \A k \in 1 .. Len(Tail(q)) : Tail(q)[k] = q[k + 1] /\ k + 1 \in 1 .. Len(q)
          /\ R \cup {Head(q)} = Range(q)
          /\ \A j \in R : j > Head(q) /\ j \in Jobs
      BY <1>3, TailFacts
    <2>2. 1 \in 1 .. Len(q)
      BY <2>1
    <2>3. QED
      BY <2>1, <2>2
  <1>5. f \in FrameType /\ f.op = "job" /\ f.lane = l /\ f.job = Head(q)
    BY <1>2, <1>4, LaneLimits DEF Frame, FrameType, Ops, Jobs
  <1>6. /\ stack' = [stack EXCEPT ![t] = Append(s, f)]
        /\ queue' = [queue EXCEPT ![l] = Tail(q)]
    BY DEF Begin, Push
  <1> HIDE DEF f
  <1>7. Moves(t, n, {f})
    BY <1>0, <1>1, <1>2, <1>5, <1>6, Puts
  <1>8. \A m \in Lanes : queue'[m] = IF m = l THEN Tail(q) ELSE queue[m]
    BY <1>1, <1>2, <1>6 DEF Typed
  <1>9. Typed'
    <2>1. queue' \in [Lanes -> Seq(Jobs)]
      BY <1>1, <1>4, <1>6 DEF Typed
    <2>2. QED
      BY <1>1, <1>7, <2>1 DEF Typed, Moves
  <1>10. Nested'
    <2>1. Apt(f) /\ Above(stack[t][n], f)
      BY <1>2, <1>5 DEF Apt, Drains, Above, Base, Jobbing, Taking
    <2>2. \A g \in {f} : Apt(g) /\ (n = 0 => OnFloor(t, g)) /\ (n > 0 => Above(stack[t][n], g))
      BY <1>2, <2>1
    <2>3. QED
      BY <1>1, <1>7, <2>2, NestedKept
  <1>11. Marked'
    <2>1. \A m \in Threaded : queue[m] = << >> => queue'[m] = << >>
      BY <1>8, LanesAssumption
    <2>2. QED
      BY <1>1, <1>2, <1>5, <1>7, <2>1, MarkedKept
  <1>12. Sole'
    BY <1>1, <1>5, <1>7, SoleKept DEF Drains
  <1>13. \A j \in Jobs : home[j] = l => (j > Head(q) <=> j \in R)
    <2> SUFFICES ASSUME NEW j \in Jobs, home[j] = l, j > Head(q) PROVE j \in R
      BY <1>4
    <2>1. j \in Range(q) /\ j # Head(q)
      BY <1>3, <1>4, JobFacts
    <2>2. QED
      BY <1>4, <2>1
  <1>14. home[Head(q)] = l
    BY <1>3, <1>4
  <1>15. ASSUME NEW m \in Lanes
         PROVE  /\ \A k, i \in 1 .. Len(queue'[m]) : k < i => queue'[m][k] < queue'[m][i]
                /\ \A k \in 1 .. Len(queue'[m]) : home[queue'[m][k]] = m
                /\ \A k \in 1 .. Len(queue'[m]) : \A j \in Jobs :
                    home[j] = m /\ j > queue'[m][k] => j \in Range(queue'[m])
    <2>1. CASE m # l
      BY <1>1, <1>8, <2>1 DEF Rest, Queued
    <2>2. CASE m = l
      <3> DEFINE r == Tail(q)
      <3>1. \A k, i \in 1 .. Len(r) : k < i => r[k] < r[i]
        BY <1>3, TailOrdered
      <3>2. \A k \in 1 .. Len(r) : home[r[k]] = m
        BY <1>3, <1>4, <2>2
      <3>3. ASSUME NEW k \in 1 .. Len(r), NEW j \in Jobs, home[j] = m, j > r[k]
            PROVE  j \in Range(r)
        <4>1. r[k] \in Range(r)
          <5>1. r \in Seq(Jobs)
            BY <1>4
          <5> HIDE DEF r
          <5>2. QED
            BY <5>1, InRange
        <4>2. r[k] \in Jobs /\ r[k] > Head(q)
          BY <1>4, <4>1
        <4>3. j > Head(q)
          <5>1. \A a, c, d \in Jobs : a > c /\ c > d => a > d
            BY JobFacts
          <5>2. QED
            BY <1>4, <3>3, <4>2, <5>1
        <4>4. QED
          BY <1>13, <2>2, <3>3, <4>3
      <3>4. queue'[m] = r
        BY <1>8, <2>2
      <3> HIDE DEF r
      <3>5. QED
        BY <3>1, <3>2, <3>3, <3>4
    <2>3. QED
      BY <2>1, <2>2
  <1>16. Queued'
    BY <1>1, <1>15 DEF Rest, Queued
  <1>17. ASSUME NEW u \in Threads, NEW k, NEW m, Runs(u, k, m)'
         PROVE  \/ Runs(u, k, m) /\ Same(stack'[u][k], stack[u][k]) /\ m # l /\ m \in Lanes
                \/ u = t /\ k = n + 1 /\ stack'[u][k] = f /\ m = l
    <2>1. CASE Runs(u, k, m) /\ Same(stack'[u][k], stack[u][k])
      <3>1. k \in 1 .. Len(stack[u]) /\ stack[u][k].lane = m
        BY <2>1 DEF Runs
      <3>2. m # l
        BY <1>2, <2>1, <3>1 DEF Busy
      <3>3. m \in Lanes
        BY <1>1, <3>1, StackFacts, FrameFacts
      <3>4. QED
        BY <2>1, <3>2, <3>3
    <2>2. CASE u = t /\ k = n + 1 /\ stack'[u][k] \in {f}
      BY <1>5, <1>17, <2>2 DEF Runs
    <2>3. QED
      BY <1>1, <1>7, <1>17, <2>1, <2>2, RunsBack
  <1>18. \A u \in Threads : \A k, m :
            Runs(u, k, m) => Runs(u, k, m)' /\ Same(stack'[u][k], stack[u][k])
    <2>1. ~(n = Len(stack[t]) - 1)
      BY <1>0, <1>2
    <2>2. QED
      BY <1>1, <1>7, <2>1, RunsForth
  <1>19. Runs(t, n + 1, l)' /\ stack'[t][n + 1] = f /\ n + 1 \in 1 .. Len(stack'[t])
    <2>1. n \in Nat /\ (Len(stack'[t]) = n + 1 /\ stack'[t][n + 1] = f)
      BY <1>7 DEF Moves
    <2>2. n + 1 \in 1 .. Len(stack'[t])
      BY <2>1
    <2>3. QED
      BY <1>5, <2>1, <2>2 DEF Runs, Jobbing
  <1>20. Order'
    <2> SUFFICES ASSUME NEW u \in Threads, NEW k \in 1 .. Len(stack'[u]),
                        stack'[u][k].op \in Jobbing
                 PROVE  LET g == stack'[u][k] IN
                        /\ g.job \in Jobs /\ home'[g.job] = g.lane
                        /\ \A j \in Jobs : home'[j] = g.lane =>
                            (j > g.job <=> j \in Range(queue'[g.lane]))
      BY DEF Order
    <2>1. PICK m : m = stack'[u][k].lane
      OBVIOUS
    <2>2. Runs(u, k, m)'
      BY <2>1 DEF Runs
    <2>3. CASE Runs(u, k, m) /\ Same(stack'[u][k], stack[u][k]) /\ m # l /\ m \in Lanes
      BY <1>1, <1>8, <2>1, <2>3 DEF Rest, Order, Runs, Same
    <2>4. CASE u = t /\ k = n + 1 /\ stack'[u][k] = f /\ m = l
      BY <1>2, <1>4, <1>5, <1>8, <1>13, <1>14, <2>1, <2>4
    <2>5. QED
      BY <1>17, <2>2, <2>3, <2>4
  <1>21. \A m \in Lanes : Busy(m)' <=> Busy(m) \/ m = l
    <2>1. ASSUME NEW m \in Lanes, NEW u \in Threads, NEW k \in 1 .. Len(stack'[u]), Runs(u, k, m)'
          PROVE  Busy(m) \/ m = l
      <3>1. CASE Runs(u, k, m)
        BY <3>1 DEF Busy, Runs
      <3>2. QED
        BY <1>17, <2>1, <3>1
    <2>2. ASSUME NEW m \in Lanes, NEW u \in Threads, NEW k \in 1 .. Len(stack[u]), Runs(u, k, m)
          PROVE  Busy(m)'
      <3>1. Runs(u, k, m)'
        BY <1>18, <2>2
      <3>2. QED
        BY <3>1 DEF Busy, Runs
    <2>3. Busy(l)'
      BY <1>19 DEF Busy
    <2>4. QED
      BY <2>1, <2>2, <2>3 DEF Busy
  <1>22. Counted'
    <2> SUFFICES ASSUME NEW m \in Lanes
                 PROVE  inFlight'[m] = Len(queue'[m]) + (IF Busy(m)' THEN 1 ELSE 0)
      BY DEF Counted
    <2>1. CASE m = l
      <3>1. inFlight[m] = Len(q) + 0
        BY <1>1, <1>2, <2>1 DEF Rest, Counted
      <3>2. inFlight'[m] = Len(Tail(q)) + 1
        BY <1>4, <3>1
      <3>3. QED
        BY <1>8, <1>21, <2>1, <3>2
    <2>2. CASE m # l
      BY <1>1, <1>8, <1>21, <2>2 DEF Rest, Counted
    <2>3. QED
      BY <2>1, <2>2
  <1>23. \A j : Waits(j)' <=> Waits(j)
    <2>1. ASSUME NEW j, Waits(j)' PROVE Waits(j)
      <3>1. CASE \E m \in Lanes : j \in Range(queue'[m])
        BY <1>2, <1>4, <1>8, <3>1 DEF Waits
      <3>2. ASSUME NEW u \in Threads, NEW k \in 1 .. Len(stack'[u]),
                   stack'[u][k].op = "job", stack'[u][k].job = j
            PROVE  Waits(j)
        <4>1. PICK m : m = stack'[u][k].lane
          OBVIOUS
        <4>2. Runs(u, k, m)'
          BY <3>2, <4>1 DEF Runs, Jobbing
        <4>3. CASE Runs(u, k, m) /\ Same(stack'[u][k], stack[u][k])
          BY <3>2, <4>3 DEF Runs, Same, Waits
        <4>4. CASE stack'[u][k] = f
          BY <1>2, <1>4, <1>5, <3>2, <4>4 DEF Waits
        <4>5. QED
          BY <1>17, <4>2, <4>3, <4>4
      <3>3. QED
        BY <2>1, <3>1, <3>2 DEF Waits
    <2>2. ASSUME NEW j, Waits(j) PROVE Waits(j)'
      <3>1. ASSUME NEW m \in Lanes, j \in Range(queue[m])
            PROVE  Waits(j)'
        <4>1. CASE j = Head(q)
          BY <1>5, <1>19, <4>1 DEF Waits
        <4>2. CASE j # Head(q)
          BY <1>4, <1>8, <3>1, <4>2 DEF Waits
        <4>3. QED
          BY <4>1, <4>2
      <3>2. ASSUME NEW u \in Threads, NEW k \in 1 .. Len(stack[u]),
                   stack[u][k].op = "job", stack[u][k].job = j
            PROVE  Waits(j)'
        <4>1. PICK m : m = stack[u][k].lane
          OBVIOUS
        <4>2. Runs(u, k, m)
          BY <3>2, <4>1 DEF Runs, Jobbing
        <4>3. Runs(u, k, m)' /\ Same(stack'[u][k], stack[u][k])
          BY <1>18, <4>2
        <4>4. QED
          BY <3>2, <4>3 DEF Runs, Same, Waits
      <3>3. QED
        BY <2>2, <3>1, <3>2 DEF Waits
    <2>3. QED
      BY <2>1, <2>2
  <1>24. Answered'
    BY <1>1, <1>23 DEF Rest, Answered
  <1>25. Drained'
    <2>1. \A m \in ended : m \in Lanes /\ m # l
      BY <1>1 DEF Rest, Drained, Typed
    <2>2. QED
      BY <1>1, <1>8, <1>21, <2>1 DEF Rest, Drained
  <1>26. QED
    BY <1>9, <1>10, <1>11, <1>12, <1>16, <1>20, <1>22, <1>24, <1>25 DEF IInv, Stacks, Rest

LEMMA WorkerTakeKeeps ==
  ASSUME IInv, NEW t \in Threads, WorkerTake(t)
  PROVE  IInv'
  <1>1. Typed /\ Nested /\ stack[t] # << >> /\ Top(t).op = "loop"
    BY DEF IInv, Stacks, WorkerTake, In
  <1>2. Top(t).lane = t
    BY <1>1, TopFacts, BaseFirst DEF Base
  <1>3. /\ stack[t] \in Seq(FrameType)
        /\ Alike(stack[t], stack[t], Len(stack[t]))
    BY <1>1, StackFacts DEF Alike, Same
  <1>4. /\ queue[t] # << >> /\ Begin(t, stack[t], t) /\ Top(t).op \in Taking
        /\ UNCHANGED <<stopping, draining, inFlight, made, home, answers, ended>>
    BY <1>1 DEF WorkerTake, Taking
  <1>5. PICK s \in Seq(FrameType) : s = stack[t]
    BY <1>3
  <1>6. QED
    BY <1>1, <1>2, <1>3, <1>4, <1>5, BeginKeeps

LEMMA DrainTakeKeeps ==
  ASSUME IInv, NEW t \in Threads, DrainTake(t)
  PROVE  IInv'
  <1>1. Typed /\ Nested /\ stack[t] # << >> /\ Top(t).op = "drain" /\ Top(t).left > 0
    BY DEF IInv, Stacks, DrainTake, In
  <1>2. PICK l : l = Top(t).lane
    OBVIOUS
  <1>3. PICK s \in Seq(FrameType) :
           s = Charged(t) /\ Len(s) = Len(stack[t]) /\ Alike(s, stack[t], Len(stack[t]))
    BY <1>1, ChargedFacts
  <1>4. /\ queue[l] # << >> /\ Begin(t, Charged(t), l) /\ Top(t).op \in Taking
        /\ UNCHANGED <<stopping, draining, inFlight, made, home, answers, ended>>
    BY <1>1, <1>2 DEF DrainTake, Taking
  <1>5. QED
    BY <1>1, <1>2, <1>3, <1>4, BeginKeeps

LEMMA StopTakeKeeps ==
  ASSUME IInv, NEW t \in Threads, StopTake(t)
  PROVE  IInv'
  <1>1. Typed /\ Nested /\ stack[t] # << >> /\ Top(t).op = "flush"
    BY DEF IInv, Stacks, StopTake, In
  <1>2. PICK l : l = Top(t).lane
    OBVIOUS
  <1>3. /\ stack[t] \in Seq(FrameType)
        /\ Alike(stack[t], stack[t], Len(stack[t]))
    BY <1>1, StackFacts DEF Alike, Same
  <1>4. /\ queue[l] # << >> /\ Begin(t, stack[t], l) /\ Top(t).op \in Taking
        /\ UNCHANGED <<stopping, draining, inFlight, made, home, answers, ended>>
    BY <1>1, <1>2 DEF StopTake, Taking
  <1>5. PICK s \in Seq(FrameType) : s = stack[t]
    BY <1>3
  <1>6. QED
    BY <1>1, <1>2, <1>3, <1>4, <1>5, BeginKeeps

-----------------------------------------------------------------------------
(* The actions that end a job. *)

\* A job that is on top of t is its lane's, on no other stack and in no queue.
LEMMA TopJob ==
  ASSUME Typed, Nested, Sole, Rest, NEW t \in Threads, stack[t] # << >>, Top(t).op \in Jobbing
  PROVE  /\ Top(t).job \in Jobs /\ Top(t).lane \in Lanes
         /\ home[Top(t).job] = Top(t).lane
         /\ Runs(t, Len(stack[t]), Top(t).lane)
         /\ \A l \in Lanes : Top(t).job \notin Range(queue[l])
         /\ \A u \in Threads : \A k \in 1 .. Len(stack[u]) :
             stack[u][k].op = "job" /\ stack[u][k].job = Top(t).job
                => u = t /\ k = Len(stack[t])
  <1>1. PICK J : J = Top(t).job
    OBVIOUS
  <1>2. PICK l : l = Top(t).lane
    OBVIOUS
  <1>3. /\ Len(stack[t]) \in 1 .. Len(stack[t]) /\ Top(t) = stack[t][Len(stack[t])]
        /\ l \in Lanes
    BY <1>2, TopFacts, FrameFacts
  <1>4. /\ J \in Jobs /\ home[J] = l
        /\ \A j \in Jobs : home[j] = l => (j > J <=> j \in Range(queue[l]))
    BY <1>1, <1>2, <1>3 DEF Rest, Order
  <1>5. Runs(t, Len(stack[t]), l)
    BY <1>2, <1>3 DEF Runs
  <1>6. \A m \in Lanes : J \notin Range(queue[m])
    <2> SUFFICES ASSUME NEW m \in Lanes, J \in Range(queue[m]) PROVE FALSE
      OBVIOUS
    <2>1. PICK k \in 1 .. Len(queue[m]) : queue[m][k] = J
      BY DEF Range, Typed
    <2>2. home[J] = m
      BY <2>1 DEF Rest, Queued
    <2>3. QED
      BY <1>4, <2>2, JobFacts
  <1>7. ASSUME NEW u \in Threads, NEW k \in 1 .. Len(stack[u]),
               stack[u][k].op = "job", stack[u][k].job = J
        PROVE  u = t /\ k = Len(stack[t])
    <2>1. home[J] = stack[u][k].lane
      BY <1>7 DEF Rest, Order, Jobbing
    <2>2. Runs(u, k, l)
      BY <1>4, <1>7, <2>1 DEF Runs, Jobbing
    <2>3. QED
      BY <1>3, <1>5, <2>2, OneJob DEF Alone
  <1>8. QED
    BY <1>1, <1>2, <1>3, <1>4, <1>5, <1>6, <1>7

LEMMA JobBack ==
  ASSUME Typed, NEW t \in Threads, NEW n, NEW F, Moves(t, n, F),
         \A f \in F : f.op # "job",
         NEW u \in Threads, NEW k \in 1 .. Len(stack'[u]), stack'[u][k].op = "job"
  PROVE  /\ k \in 1 .. Len(stack[u]) /\ stack[u][k].op = "job"
         /\ stack[u][k].job = stack'[u][k].job
  <1>1. stack'[u][k] # Call("loop", u) /\ stack'[u][k] \notin F
    BY DEF Call, Frame
  <1>2. k \in 1 .. Len(stack[u]) /\ Same(stack'[u][k], stack[u][k])
    BY <1>1, Back
  <1>3. QED
    BY <1>2 DEF Same

LEMMA EndJobKeeps ==
  ASSUME IInv, NEW t \in Threads, EndJob(t)
  PROVE  IInv'
  <1>0. PICK n : n = Len(stack[t]) - 1
    OBVIOUS
  <1>1. PICK f : f = [Top(t) EXCEPT !.op = "count"]
    OBVIOUS
  <1>2. PICK J : J = Top(t).job
    OBVIOUS
  <1>3. Typed /\ Nested /\ Marked /\ Sole /\ Rest /\ stack[t] # << >> /\ Top(t).op = "job"
    BY DEF IInv, Stacks, EndJob, In
  <1>4. Top(t) \in FrameType /\ Apt(Top(t)) /\ Len(stack[t]) \in Nat \ {0}
    BY <1>3, TopFacts
  <1>5. f \in FrameType /\ f.op = "count" /\ f.lane = Top(t).lane /\ f.job = J
    BY <1>1, <1>2, <1>4 DEF FrameType, Ops
  <1>6. /\ Becomes(t, f) /\ answers' = [answers EXCEPT ![J] = @ + 1]
        /\ UNCHANGED <<queue, stopping, draining, inFlight, made, home, ended>>
    BY <1>1, <1>2 DEF EndJob
  <1>7. Moves(t, n, {f})
    BY <1>0, <1>3, <1>5, <1>6, Swaps
  <1>8. Apt(f)
    BY <1>5 DEF Apt, Drains
  <1>9. Nested'
    BY <1>0, <1>3, <1>5, <1>7, <1>8, SwapShape DEF Base, Jobbing
  <1>10. Marked'
    BY <1>3, <1>5, <1>6, <1>7, MarkedKept
  <1>11. Sole'
    BY <1>3, <1>5, <1>6, <1>7, SoleKept DEF Drains
  <1>12. /\ J \in Jobs /\ Runs(t, n + 1, f.lane) /\ n + 1 = Len(stack[t])
         /\ \A l \in Lanes : J \notin Range(queue[l])
         /\ \A u \in Threads : \A k \in 1 .. Len(stack[u]) :
             stack[u][k].op = "job" /\ stack[u][k].job = J => u = t /\ k = Len(stack[t])
    <2>1. n + 1 = Len(stack[t]) /\ Top(t).op \in Jobbing
      BY <1>0, <1>3, <1>4 DEF Jobbing
    <2>2. QED
      BY <1>2, <1>3, <1>5, <2>1, TopJob
  <1>13. Typed'
    BY <1>3, <1>6, <1>7, <1>12 DEF Typed, Moves
  <1>14. Queued'
    BY <1>3, <1>6 DEF Rest, Queued
  <1>15. Order'
    BY <1>0, <1>2, <1>3, <1>5, <1>6, <1>7, <1>12, OrderKept DEF Rest
  <1>16. stack'[t][n + 1] = f /\ n + 1 \in 1 .. Len(stack'[t])
    <2>1. n \in Nat /\ Len(stack'[t]) = n + 1 /\ stack'[t][n + 1] = f
      BY <1>7 DEF Moves
    <2>2. QED
      BY <2>1
  <1>17. \A l \in Lanes : Busy(l)' <=> Busy(l)
    <2>1. ASSUME NEW l \in Lanes, NEW u \in Threads, NEW k \in 1 .. Len(stack'[u]), Runs(u, k, l)'
          PROVE  Busy(l)
      <3>1. CASE Runs(u, k, l)
        BY <3>1 DEF Busy, Runs
      <3>2. CASE u = t /\ k = n + 1 /\ stack'[u][k] = f
        <4>1. l = f.lane
          BY <2>1, <3>2 DEF Runs
        <4>2. QED
          BY <1>12, <4>1 DEF Busy, Runs
      <3>3. QED
        BY <1>3, <1>7, <2>1, <3>1, <3>2, RunsBack
    <2>2. ASSUME NEW l \in Lanes, NEW u \in Threads, NEW k \in 1 .. Len(stack[u]), Runs(u, k, l)
          PROVE  Busy(l)'
      <3>1. CASE Runs(u, k, l)'
        BY <3>1 DEF Busy, Runs
      <3>2. CASE u = t /\ k = Len(stack[t])
        <4>1. l = f.lane
          BY <1>3, <1>5, <2>2, <3>2 DEF Runs, Top
        <4>2. Runs(t, n + 1, l)'
          BY <1>5, <1>16, <4>1 DEF Runs, Jobbing
        <4>3. QED
          BY <4>2 DEF Busy, Runs
      <3>3. QED
        BY <1>3, <1>7, <2>2, <3>1, <3>2, RunsForth
    <2>3. QED
      BY <2>1, <2>2 DEF Busy
  <1>18. Counted' /\ Drained'
    BY <1>3, <1>6, <1>17 DEF Rest, Counted, Drained, Typed
  <1>19. \A j : Waits(j)' <=> Waits(j) /\ j # J
    <2>1. ASSUME NEW j, NEW u \in Threads, NEW k \in 1 .. Len(stack'[u]),
                 stack'[u][k].op = "job", stack'[u][k].job = j
          PROVE  Waits(j) /\ j # J
      <3>1. k \in 1 .. Len(stack[u]) /\ stack[u][k].op = "job" /\ stack[u][k].job = j
        BY <1>3, <1>5, <1>7, <2>1, JobBack
      <3>2. ~(u = t /\ k = Len(stack[t]))
        BY <1>5, <1>12, <1>16, <2>1
      <3>3. QED
        BY <1>12, <3>1, <3>2 DEF Waits
    <2>2. ASSUME NEW j, NEW u \in Threads, NEW k \in 1 .. Len(stack[u]),
                 stack[u][k].op = "job", stack[u][k].job = j, j # J
          PROVE  Waits(j)'
      <3>1. ~(u = t /\ k = Len(stack[t]))
        BY <1>2, <2>2 DEF Top
      <3>2. k \in 1 .. Len(stack'[u]) /\ Same(stack'[u][k], stack[u][k])
        BY <1>3, <1>7, <2>2, <3>1, Forth
      <3>3. QED
        BY <2>2, <3>2 DEF Same, Waits
    <2>3. \A j, l : j \in Range(queue'[l]) <=> j \in Range(queue[l])
      BY <1>6
    <2>4. ASSUME NEW j, Waits(j)' PROVE Waits(j) /\ j # J
      <3>1. CASE \E l \in Lanes : j \in Range(queue'[l])
        BY <1>12, <2>3, <3>1 DEF Waits
      <3>2. CASE \E u \in Threads : \E k \in 1 .. Len(stack'[u]) :
                    stack'[u][k].op = "job" /\ stack'[u][k].job = j
        BY <2>1, <3>2
      <3>3. QED
        BY <2>4, <3>1, <3>2 DEF Waits
    <2>5. ASSUME NEW j, Waits(j), j # J PROVE Waits(j)'
      BY <2>2, <2>3, <2>5 DEF Waits
    <2>6. QED
      BY <2>4, <2>5
  <1>20. Answered'
    <2>1. Waits(J)
      BY <1>2, <1>3, <1>4, TopFacts DEF Waits
    <2>2. J <= made /\ answers[J] = 0
      BY <1>3, <1>12, <2>1, OldJobs DEF Rest, Answered
    <2>3. ~(J > made)
      BY <1>3, <1>12, <2>2, JobFacts, LaneLimits DEF Typed
    <2>4. QED
      BY <1>3, <1>6, <1>12, <1>19, <2>2, <2>3 DEF Rest, Answered, Typed
  <1>21. QED
    BY <1>3, <1>9, <1>10, <1>11, <1>13, <1>14, <1>15, <1>18, <1>20 DEF IInv, Stacks, Rest

LEMMA CountKeeps ==
  ASSUME IInv, NEW t \in Threads, Count(t)
  PROVE  IInv'
  <1>0. PICK n : n = Len(stack[t]) - 1
    OBVIOUS
  <1>1. PICK l : l = Top(t).lane
    OBVIOUS
  <1>2. Typed /\ Nested /\ Marked /\ Sole /\ Rest /\ stack[t] # << >> /\ Top(t).op = "count"
    BY DEF IInv, Stacks, Count, In
  <1>3. /\ Pop(t) /\ inFlight' = [inFlight EXCEPT ![l] = @ - 1]
        /\ UNCHANGED <<queue, stopping, draining, made, home, answers, ended>>
    BY <1>1 DEF Count
  <1>4. Moves(t, n, {})
    BY <1>0, <1>2, <1>3, Pops
  <1>5. Nested' /\ (t \in Threaded => n # 0)
    BY <1>0, <1>2, <1>4, PopShape DEF Base
  <1>6. Marked'
    BY <1>2, <1>3, <1>4, <1>5, MarkedKept
  <1>7. Sole'
    BY <1>2, <1>3, <1>4, SoleKept
  <1>8. /\ l \in Lanes /\ n \in Nat /\ n + 1 = Len(stack[t]) /\ Len(stack'[t]) = n
        /\ Runs(t, Len(stack[t]), l)
    <2>1. Len(stack[t]) \in Nat \ {0} /\ Top(t).op \in Jobbing
      BY <1>2, TopFacts DEF Jobbing
    <2>2. Len(stack'[t]) = n
      BY <1>4 DEF Moves
    <2>3. QED
      BY <1>0, <1>1, <1>2, <2>1, <2>2, TopJob
  <1>9. ASSUME NEW u \in Threads, NEW k, NEW m
        PROVE  Runs(u, k, m)' <=> Runs(u, k, m) /\ ~(u = t /\ k = Len(stack[t]))
    <2>1. ASSUME Runs(u, k, m)' PROVE Runs(u, k, m) /\ ~(u = t /\ k = Len(stack[t]))
      <3>1. Runs(u, k, m)
        BY <1>2, <1>4, <2>1, RunsBack
      <3>2. k \in 1 .. Len(stack'[u])
        BY <2>1 DEF Runs
      <3>3. QED
        BY <1>8, <3>1, <3>2
    <2>2. QED
      BY <1>2, <1>4, <2>1, RunsForth
  <1>10. ~Busy(l)'
    <2> SUFFICES ASSUME NEW u \in Threads, NEW k \in 1 .. Len(stack'[u]), Runs(u, k, l)'
                 PROVE  FALSE
      BY DEF Busy
    <2>1. Runs(u, k, l) /\ ~(u = t /\ k = Len(stack[t]))
      BY <1>9
    <2>2. k \in 1 .. Len(stack[u]) /\ Len(stack[t]) \in 1 .. Len(stack[t])
      BY <1>2, <2>1, TopFacts DEF Runs
    <2>3. QED
      BY <1>2, <1>8, <2>1, <2>2, OneJob DEF Alone
  <1>11. ASSUME NEW m \in Lanes, m # l PROVE Busy(m)' <=> Busy(m)
    <2>1. \A u \in Threads : \A k : Runs(u, k, m)' <=> Runs(u, k, m)
      <3> SUFFICES ASSUME NEW u \in Threads, NEW k, u = t, k = Len(stack[t]), Runs(u, k, m)
                   PROVE FALSE
        BY <1>9
      <3>1. QED
        BY <1>1, <1>11 DEF Runs, Top
    <2>2. \A u \in Threads : \A k : /\ Runs(u, k, m) => k \in 1 .. Len(stack[u])
                                    /\ Runs(u, k, m)' => k \in 1 .. Len(stack'[u])
      BY DEF Runs
    <2>3. QED
      BY <2>1, <2>2 DEF Busy
  <1>12. Busy(l)
    BY <1>8 DEF Busy, Runs
  <1>13. Typed'
    BY <1>2, <1>3, <1>4, <1>8 DEF Typed, Moves
  <1>14. Queued'
    BY <1>2, <1>3 DEF Rest, Queued
  <1>15. Order'
    BY <1>2, <1>3, <1>4, OrderKept DEF Rest
  <1>16. Counted'
    <2> SUFFICES ASSUME NEW m \in Lanes
                 PROVE  inFlight'[m] = Len(queue'[m]) + (IF Busy(m)' THEN 1 ELSE 0)
      BY DEF Counted
    <2>1. queue[m] \in Seq(Jobs)
      BY <1>2 DEF Typed
    <2>2. CASE m = l
      <3>1. inFlight[m] = Len(queue[m]) + 1
        BY <1>2, <1>12, <2>2 DEF Rest, Counted
      <3>2. inFlight'[m] = inFlight[m] - 1
        BY <1>2, <1>3, <1>8, <2>2 DEF Typed
      <3>3. inFlight'[m] = Len(queue[m]) + 0
        BY <2>1, <3>1, <3>2
      <3>4. QED
        BY <1>3, <1>10, <2>2, <3>3
    <2>3. CASE m # l
      BY <1>2, <1>3, <1>11, <2>3 DEF Rest, Counted, Typed
    <2>4. QED
      BY <2>2, <2>3
  <1>17. Drained'
    BY <1>2, <1>3, <1>10, <1>11 DEF Rest, Drained, Typed
  <1>18. \A j : Waits(j)' <=> Waits(j)
    <2>1. ASSUME NEW j, NEW u \in Threads, NEW k \in 1 .. Len(stack'[u]),
                 stack'[u][k].op = "job", stack'[u][k].job = j
          PROVE  Waits(j)
      <3>1. k \in 1 .. Len(stack[u]) /\ stack[u][k].op = "job" /\ stack[u][k].job = j
        BY <1>2, <1>4, <2>1, JobBack
      <3>2. QED
        BY <3>1 DEF Waits
    <2>2. ASSUME NEW j, NEW u \in Threads, NEW k \in 1 .. Len(stack[u]),
                 stack[u][k].op = "job", stack[u][k].job = j
          PROVE  Waits(j)'
      <3>1. ~(u = t /\ k = Len(stack[t]))
        BY <1>2, <2>2 DEF Top
      <3>2. k \in 1 .. Len(stack'[u]) /\ Same(stack'[u][k], stack[u][k])
        BY <1>2, <1>4, <2>2, <3>1, Forth
      <3>3. QED
        BY <2>2, <3>2 DEF Same, Waits
    <2>3. \A j, m : j \in Range(queue'[m]) <=> j \in Range(queue[m])
      BY <1>3
    <2>4. ASSUME NEW j, Waits(j)' PROVE Waits(j)
      BY <2>1, <2>3, <2>4 DEF Waits
    <2>5. ASSUME NEW j, Waits(j) PROVE Waits(j)'
      BY <2>2, <2>3, <2>5 DEF Waits
    <2>6. QED
      BY <2>4, <2>5
  <1>19. Answered'
    BY <1>2, <1>3, <1>18 DEF Rest, Answered
  <1>20. QED
    BY <1>5, <1>6, <1>7, <1>13, <1>14, <1>15, <1>16, <1>17, <1>19 DEF IInv, Stacks, Rest

-----------------------------------------------------------------------------
(* The invariant is inductive. *)

LEMMA OneFrame ==
  ASSUME NEW S, NEW f \in S
  PROVE  <<f>> \in Seq(S) /\ Len(<<f>>) = 1 /\ <<f>>[1] = f /\ <<f>> # << >>
  OBVIOUS

LEMMA InitHolds == Init => IInv
  <1> SUFFICES ASSUME Init PROVE IInv
    OBVIOUS
  <1>1. \A t \in Threaded : /\ t \in Threads /\ t \in Lanes
                            /\ Call("loop", t) \in FrameType /\ Call("loop", t).op = "loop"
                            /\ Call("loop", t).lane = t
    BY LanesAssumption, CallFacts DEF Threads, Ops
  <1>2. /\ \A t \in Threaded :
            /\ stack[t] \in Seq(FrameType) /\ stack[t] # << >> /\ Len(stack[t]) = 1
            /\ stack[t][1] = Call("loop", t)
        /\ \A t \in Threads : t \notin Threaded => stack[t] = << >> /\ Len(stack[t]) = 0
    <2>1. /\ \A t \in Threaded : stack[t] = <<Call("loop", t)>>
          /\ \A t \in Threads : t \notin Threaded => stack[t] = << >>
      BY <1>1 DEF Init
    <2>2. ASSUME NEW t \in Threaded
          PROVE  /\ stack[t] \in Seq(FrameType) /\ stack[t] # << >> /\ Len(stack[t]) = 1
                 /\ stack[t][1] = Call("loop", t)
      BY <1>1, <2>1, OneFrame
    <2>3. QED
      BY <2>1, <2>2
  <1>3. Typed
    <2>1. stack \in [Threads -> Seq(FrameType)]
      <3>1. \A t \in Threads : stack[t] \in Seq(FrameType)
        BY <1>2, EmptySeq
      <3>2. QED
        BY <3>1 DEF Init
    <2>2. 0 \in 0 .. MaxJobs
      BY LaneLimits
    <2>3. QED
      BY <2>1, <2>2 DEF Init, Typed
  <1>4. \A t \in Threads : \A i \in 1 .. Len(stack[t]) :
           t \in Threaded /\ Len(stack[t]) = 1 /\ i = 1 /\ stack[t][i] = Call("loop", t)
    <2> SUFFICES ASSUME NEW t \in Threads, NEW i \in 1 .. Len(stack[t])
                 PROVE  t \in Threaded /\ Len(stack[t]) = 1 /\ i = 1
                        /\ stack[t][i] = Call("loop", t)
      OBVIOUS
    <2>1. t \in Threaded
      BY <1>2
    <2>2. Len(stack[t]) = 1
      BY <1>2, <2>1
    <2>3. i = 1
      BY <2>2
    <2>4. QED
      BY <1>2, <2>1, <2>2, <2>3
  <1>5. \A t \in Threads : \A i \in 1 .. Len(stack[t]) : stack[t][i].op = "loop"
    BY <1>1, <1>4
  <1>6. Nested
    <2>1. ASSUME NEW t \in Threads PROVE Proper(t, stack[t])
      <3>1. CASE t \in Threaded
        <4>1. stack[t][1] = Call("loop", t) /\ Len(stack[t]) = 1
          BY <1>2, <3>1
        <4>2. OnFloor(t, stack[t][1])
          BY <1>1, <3>1, <4>1 DEF OnFloor, Base
        <4>3. QED
          BY <4>1, <4>2 DEF Proper
      <3>2. CASE t \notin Threaded
        BY <1>2, <3>2 DEF Proper
      <3>3. QED
        BY <3>1, <3>2
    <2>2. \A t \in Threads : \A i \in 1 .. Len(stack[t]) : Apt(stack[t][i])
      BY <1>5 DEF Apt, Drains
    <2>3. QED
      BY <2>1, <2>2 DEF Nested
  <1>7. Marked /\ Sole /\ Order
    BY <1>2, <1>5 DEF Marked, Sole, Order, Drains, Jobbing
  <1>8. \A l : ~Busy(l)
    BY <1>5 DEF Busy, Runs, Jobbing
  <1>9. \A l \in Lanes : queue[l] = << >> /\ Len(queue[l]) = 0 /\ inFlight[l] = 0
    BY DEF Init
  <1>10. \A j : ~Waits(j)
    BY <1>5, <1>9 DEF Waits, Range
  <1>11. Counted
    <2>1. \A l \in Lanes : inFlight[l] = Len(queue[l]) + 0
      BY <1>9
    <2>2. QED
      BY <1>8, <2>1 DEF Counted
  <1>12. Queued
    BY <1>9 DEF Queued, Init
  <1>13. Answered
    <2>1. \A j \in Jobs : j > made /\ answers[j] = 0
      BY JobFacts DEF Init
    <2>2. QED
      BY <2>1 DEF Answered
  <1>14. Drained
    BY DEF Drained, Init
  <1>15. QED
    BY <1>3, <1>6, <1>7, <1>11, <1>12, <1>13, <1>14 DEF IInv, Stacks, Rest

LEMMA StepKeeps == IInv /\ [Next]_vars => IInv'
  <1> SUFFICES ASSUME IInv, [Next]_vars PROVE IInv'
    OBVIOUS
  <1>1. ASSUME NEW t \in Threads, Continue(t)
        PROVE  IInv'
    <2>1. CASE Tell(t)
      BY <2>1, TellKeeps
    <2>2. CASE WorkerTake(t)
      BY <2>2, WorkerTakeKeeps
    <2>3. CASE WorkerSleep(t)
      BY <2>3, WorkerSleepKeeps
    <2>4. CASE WorkerLeave(t)
      BY <2>4, WorkerLeaveKeeps
    <2>5. CASE EndJob(t)
      BY <2>5, EndJobKeeps
    <2>6. CASE Count(t)
      BY <2>6, CountKeeps
    <2>7. CASE DrainSize(t)
      BY <2>7, DrainSizeKeeps
    <2>8. CASE DrainTake(t)
      BY <2>8, DrainTakeKeeps
    <2>9. CASE DrainEnd(t)
      BY <2>9, DrainEndKeeps
    <2>10. CASE StopWake(t)
      BY <2>10, StopWakeKeeps
    <2>11. CASE StopJoin(t)
      BY <2>11, StopJoinKeeps
    <2>12. CASE StopSeize(t)
      BY <2>12, StopSeizeKeeps
    <2>13. CASE StopTake(t)
      BY <2>13, StopTakeKeeps
    <2>14. CASE StopEnd(t)
      BY <2>14, StopEndKeeps
    <2>15. QED
      BY <1>1, <2>1, <2>2, <2>3, <2>4, <2>5, <2>6, <2>7, <2>8, <2>9, <2>10, <2>11, <2>12,
         <2>13, <2>14 DEF Continue
  <1>2. ASSUME NEW t \in Threads, NEW l \in Lanes,
               SubmitRefused(t, l) \/ SubmitQueued(t, l) \/ DrainBegin(t, l)
                  \/ StopWithin(t, l) \/ StopBegin(t, l)
        PROVE  IInv'
    BY <1>2, SubmitRefusedKeeps, SubmitQueuedKeeps, DrainBeginKeeps, StopWithinKeeps,
       StopBeginKeeps
  <1>3. CASE UNCHANGED vars
    BY <1>3 DEF vars, IInv, Stacks, Rest, Typed, Nested, Marked, Sole, Queued, Order, Counted,
       Answered, Drained, Busy, Runs, Waits
  <1>4. QED
    BY <1>1, <1>2, <1>3 DEF Next

LEMMA Inductive == Spec => []IInv
  <1>1. Init => IInv
    BY InitHolds
  <1>2. IInv /\ [Next]_vars => IInv'
    BY StepKeeps
  <1>3. QED
    BY <1>1, <1>2, PTL DEF Spec

-----------------------------------------------------------------------------
(* The theorems. *)

LEMMA BusyCount ==
  ASSUME Typed, Counted, NEW l \in Lanes
  PROVE  Len(queue[l]) \in Nat /\ inFlight[l] \in Nat /\ inFlight[l] >= Len(queue[l])
  <1>1. queue[l] \in Seq(Jobs)
    BY DEF Typed
  <1>2. inFlight[l] = Len(queue[l]) \/ inFlight[l] = Len(queue[l]) + 1
    BY DEF Typed, Counted
  <1>3. QED
    BY <1>1, <1>2

\* The state keeps its types; in particular the count of a lane never goes below zero.
THEOREM TypeCorrect == Spec => []TypeOK
  <1>1. IInv => TypeOK
    BY BusyCount DEF IInv, Stacks, Rest, Typed, TypeOK
  <1>2. QED
    BY <1>1, Inductive, PTL

LEMMA RunningIs ==
  ASSUME Typed, NEW l, NEW f
  PROVE  f \in Running(l) <=> \E t \in Threads : \E i \in 1 .. Len(stack[t]) :
                                  f = <<t, i>> /\ Runs(t, i, l)
  <1>1. \A t \in Threads : DOMAIN stack[t] = 1 .. Len(stack[t])
    BY DEF Typed
  <1>2. f \in Frames <=> \E t \in Threads : \E i \in 1 .. Len(stack[t]) : f = <<t, i>>
    BY <1>1 DEF Frames
  <1>3. QED
    BY <1>2 DEF Running, At, Runs, Jobbing

LEMMA RangeIs ==
  ASSUME Typed, NEW l \in Lanes
  PROVE  \A j : j \in Range(queue[l]) <=> \E k \in DOMAIN queue[l] : queue[l][k] = j
  BY DEF Range

LEMMA SerialFact == IInv => SerialInOrder
  <1> SUFFICES ASSUME IInv, NEW l \in Lanes, NEW f \in Running(l)
               PROVE  /\ Running(l) = {f}
                      /\ \A j \in Jobs : home[j] = l =>
                           (j > At(f).job <=> \E k \in DOMAIN queue[l] : queue[l][k] = j)
    BY DEF SerialInOrder
  <1>1. Typed /\ Order /\ Alone
    BY OneJob DEF IInv, Stacks, Rest
  <1>a. PICK t \in Threads : \E i \in 1 .. Len(stack[t]) : f = <<t, i>> /\ Runs(t, i, l)
    BY <1>1, RunningIs
  <1>2. PICK i \in 1 .. Len(stack[t]) : f = <<t, i>> /\ Runs(t, i, l)
    BY <1>a
  <1>3. ASSUME NEW g \in Running(l) PROVE g = f
    <2>a. PICK u \in Threads : \E k \in 1 .. Len(stack[u]) : g = <<u, k>> /\ Runs(u, k, l)
      BY <1>1, RunningIs
    <2>1. PICK k \in 1 .. Len(stack[u]) : g = <<u, k>> /\ Runs(u, k, l)
      BY <2>a
    <2>2. u = t /\ k = i
      BY <1>1, <1>2, <2>1 DEF Alone
    <2>3. QED
      BY <1>2, <2>1, <2>2
  <1>4. At(f) = stack[t][i] /\ stack[t][i].op \in Jobbing /\ stack[t][i].lane = l
    BY <1>2 DEF At, Runs
  <1>5. \A j \in Jobs : home[j] = l => (j > At(f).job <=> j \in Range(queue[l]))
    BY <1>1, <1>4 DEF Order
  <1>6. QED
    BY <1>1, <1>3, <1>5, RangeIs

\* On every set of lanes and threads, however calls nest: while a job of a lane runs, no
\* other does, those before it have left the queue and those after it are still in it.
THEOREM SerialInOrderHolds == Spec => []SerialInOrder
  BY SerialFact, Inductive, PTL

\* A job that a lane holds is one that waits.
LEMMA HeldIs ==
  ASSUME Typed, NEW j
  PROVE  (\E l \in Lanes : j \in Held(l)) <=> Waits(j)
  <1>1. ASSUME NEW l \in Lanes, j \in Held(l) PROVE Waits(j)
    <2>1. CASE \E k \in DOMAIN queue[l] : queue[l][k] = j
      BY <2>1, RangeIs DEF Waits
    <2>2. CASE \E f \in Running(l) : At(f).op = "job" /\ At(f).job = j
      BY <2>2, RunningIs DEF At, Waits
    <2>3. QED
      BY <1>1, <2>1, <2>2 DEF Held
  <1>2. ASSUME NEW l \in Lanes, j \in Range(queue[l]) PROVE j \in Held(l)
    BY <1>2, RangeIs DEF Held
  <1>3. ASSUME NEW t \in Threads, NEW i \in 1 .. Len(stack[t]),
               stack[t][i].op = "job", stack[t][i].job = j
        PROVE  \E l \in Lanes : j \in Held(l)
    <2>1. PICK l \in Lanes : l = stack[t][i].lane
      BY StackFacts, FrameFacts
    <2>2. <<t, i>> \in Running(l)
      BY <1>3, <2>1, RunningIs DEF Runs, Jobbing
    <2>3. At(<<t, i>>).op = "job" /\ At(<<t, i>>).job = j
      BY <1>3 DEF At
    <2>4. QED
      BY <2>2, <2>3 DEF Held
  <1>4. QED
    BY <1>1, <1>2, <1>3 DEF Waits

\* Every task is answered once: when its lane refuses it or when it has run, not before.
THEOREM AnsweredOnceHolds == Spec => []AnsweredOnce
  <1>1. IInv => AnsweredOnce
    BY HeldIs DEF IInv, Stacks, Rest, Answered, AnsweredOnce
  <1>2. QED
    BY <1>1, Inductive, PTL

\* Nothing of a lane runs or is queued once a stop from outside it has returned.
THEOREM StoppedIsDrainedHolds == Spec => []StoppedIsDrained
  <1>1. ASSUME IInv, NEW l \in ended
        PROVE  queue[l] = << >> /\ Running(l) = {} /\ inFlight[l] = 0
    <2>1. Typed /\ Counted /\ l \in Lanes /\ queue[l] = << >> /\ ~Busy(l)
      BY <1>1 DEF IInv, Stacks, Rest, Drained, Typed
    <2>2. Running(l) = {}
      BY <2>1, RunningIs DEF Busy
    <2>3. inFlight[l] = 0
      <3>1. inFlight[l] = Len(queue[l]) + 0
        BY <2>1 DEF Counted
      <3>2. Len(queue[l]) = 0
        BY <2>1
      <3>3. QED
        BY <3>1, <3>2
    <2>4. QED
      BY <2>1, <2>2, <2>3
  <1>2. IInv => StoppedIsDrained
    BY <1>1 DEF StoppedIsDrained
  <1>3. QED
    BY <1>2, Inductive, PTL

LEMMA RangeSize ==
  ASSUME NEW q \in Seq(Jobs)
  PROVE  IsFiniteSet(Range(q)) /\ Cardinality(Range(q)) <= Len(q)
  <1>1. /\ Len(q) \in Nat /\ IsFiniteSet(1 .. Len(q)) /\ Cardinality(1 .. Len(q)) = Len(q)
    <2>1. Len(q) \in Nat
      OBVIOUS
    <2>2. IsFiniteSet(1 .. Len(q)) /\ Cardinality(1 .. Len(q)) = Len(q)
      BY <2>1, FS_Interval
    <2>3. QED
      BY <2>1, <2>2
  <1>2. q \in Surjection(1 .. Len(q), Range(q))
    BY DEF Surjection, Range
  <1>3. QED
    BY <1>1, <1>2, FS_Surjection

\* A count of zero tells an owner that the lane has let go of every job it took.
THEOREM IdleHoldsNothingHolds == Spec => []IdleHoldsNothing
  <1>1. ASSUME IInv, NEW l \in Lanes
        PROVE  Cardinality(Held(l)) <= inFlight[l]
    <2> DEFINE A == Range(queue[l])
               B == {At(f).job : f \in {g \in Running(l) : At(g).op = "job"}}
    <2>1. Typed /\ Counted /\ SerialInOrder
      BY <1>1, SerialFact DEF IInv, Stacks, Rest
    <2>2. queue[l] \in Seq(Jobs)
      BY <2>1 DEF Typed
    <2>3. IsFiniteSet(A) /\ Cardinality(A) <= Len(queue[l]) /\ Cardinality(A) \in Nat
      BY <2>2, RangeSize, FS_CardinalityType
    <2>4. Held(l) = A \cup B
      BY <2>1, RangeIs DEF Held
    <2>5. Len(queue[l]) \in Nat /\ inFlight[l] \in Nat
      BY <2>1, BusyCount
    <2>6. CASE Running(l) = {}
      <3>1. Held(l) = A
        BY <2>4, <2>6
      <3>2. QED
        BY <2>1, <2>3, <2>5, <3>1, BusyCount
    <2>7. CASE Running(l) # {}
      <3>1. PICK f \in Running(l) : Running(l) = {f}
        BY <2>1, <2>7 DEF SerialInOrder
      <3>2. Busy(l)
        BY <2>1, <2>7, RunningIs DEF Busy
      <3>3. inFlight[l] = Len(queue[l]) + 1
        BY <2>1, <3>2 DEF Counted
      <3>4. PICK j : B \subseteq {j}
        BY <3>1
      <3>5. PICK C : C = A
        OBVIOUS
      <3>6. PICK D : D = C \cup {j}
        OBVIOUS
      <3>7. /\ IsFiniteSet(D) /\ Cardinality(D) <= Cardinality(A) + 1 /\ Cardinality(D) \in Nat
        <4>1. IsFiniteSet(C) /\ Cardinality(C) \in Nat
          BY <2>3, <3>5
        <4>2. /\ IsFiniteSet(D)
              /\ Cardinality(D) = Cardinality(C) \/ Cardinality(D) = Cardinality(C) + 1
          BY <4>1, <3>6, FS_AddElement
        <4>3. QED
          BY <3>5, <4>1, <4>2
      <3>8. Cardinality(Held(l)) <= Cardinality(D) /\ Cardinality(Held(l)) \in Nat
        BY <2>4, <3>4, <3>5, <3>6, <3>7, FS_Subset, FS_CardinalityType
      <3>9. QED
        BY <2>3, <2>5, <3>3, <3>7, <3>8
    <2>8. QED
      BY <2>6, <2>7
  <1>2. IInv => IdleHoldsNothing
    BY <1>1 DEF IdleHoldsNothing
  <1>3. QED
    BY <1>2, Inductive, PTL

=============================================================================
