--------------------------- MODULE ThreadPoolProofs ---------------------------
(***************************************************************************)
(* Proofs about ThreadPool for every set of workers and callers, every     *)
(* load and every bound on a fan-out.                                      *)
(*                                                                         *)
(* A job outlives its use because the count of those still on it is exact  *)
(* (Counted), and because only a job whose caller hasn't joined is in the  *)
(* list (Listed).  An index runs once because no two threads have claimed  *)
(* the same one (Claims), and what has been claimed has run or is about to *)
(* (Ran).  No worker sleeps through work because a post counts the sleepers *)
(* from above (IdleCount).                                                 *)
(***************************************************************************)
EXTENDS ThreadPool, FiniteSetTheorems, SequenceTheorems, TLAPS

\* The caller hasn't given up its share of its job yet.
Shares(c) == pc[c] \in {"wake", "claim", "task", "run", "join"}

On(c) == {w \in Workers : on[w] = c}
Sleepers == {w \in Workers : pc[w] \in {"asleep", "woken"}}
Busy(t) == pc[t] \in {"task", "run"}

Places ==
    /\ \A w \in Workers :
        /\ pc[w] \in {"look", "asleep", "woken", "claim", "task", "run", "leave", "notify", "gone"}
        /\ on[w] = None <=> pc[w] \notin {"claim", "task", "run", "leave"}
    /\ \A c \in Callers :
        /\ pc[c] \in {"out", "wake", "claim", "task", "run", "join", "check", "block",
                      "asleep", "woken", "return"}
        /\ closing # "open" => pc[c] = "out"
        /\ pc[c] = "wake" <=> wakes[c] > 0

IdleCount == idle = Cardinality(Sleepers)

\* The list holds the jobs that were posted and whose callers haven't joined, once each.
Listed ==
    /\ \A c \in Callers : c \in Range(queue) <=> Shares(c) /\ job[c].enlisted > 0
    /\ \A k, l \in DOMAIN queue : queue[k] = queue[l] => k = l

Counted ==
    \A c \in Callers : pc[c] \notin {"return", "out"} =>
        job[c].remaining = Cardinality(On(c)) + (IF Shares(c) THEN 1 ELSE 0)

\* A fan-out whose caller is alone with it has no worker.
Alone == \A c \in Callers : job[c].enlisted = 0 => \A w \in Workers : on[w] # c

Claims ==
    /\ \A t \in Threads : Busy(t) =>
        LET j == job[Mine(t)] IN
        /\ index[t] < j.n /\ index[t] < j.cursor
        /\ j.ran[index[t]] = IF pc[t] = "task" THEN 0 ELSE 1
    /\ \A t, u \in Threads :
        t # u /\ Busy(t) /\ Busy(u) /\ Mine(t) = Mine(u) => index[t] # index[u]

\* Index i of c's job has been claimed by a thread that hasn't begun it.
Begins(c, i) == \E t \in Threads : Mine(t) = c /\ pc[t] = "task" /\ index[t] = i

Ran ==
    \A c \in Callers : LET j == job[c] IN
        \A i \in Indices :
            /\ j.ran[i] \in {0, 1}
            /\ i >= j.cursor => j.ran[i] = 0
            /\ ~j.aborted /\ i < j.n /\ i < j.cursor => j.ran[i] = 1 \/ Begins(c, i)

Caught ==
    \A c \in Callers : LET j == job[c] IN
        IF j.thrown = << >> THEN j.eptr = None /\ ~j.aborted
                            ELSE j.eptr = Head(j.thrown) /\ j.aborted

\* A caller joins its job, a posted one, once every index is claimed.
AllClaimed ==
    \A c \in Callers :
        pc[c] \in {"join", "check", "block", "asleep", "woken", "return"} =>
            /\ job[c].cursor >= job[c].n
            /\ pc[c] # "return" => job[c].enlisted > 0

IInv ==
    /\ TypeOK /\ Places /\ IdleCount /\ Listed /\ Counted /\ JobOutlivesUse
    /\ Alone /\ Claims /\ Ran /\ Caught /\ AllClaimed

-----------------------------------------------------------------------------

LEMMA MineFacts ==
  ASSUME TypeOK
  PROVE  /\ \A c \in Callers : c \in Threads /\ c \notin Workers /\ Mine(c) = c /\ c # None
         /\ \A w \in Workers : w \in Threads /\ w \notin Callers /\ Mine(w) = on[w]
  BY ThreadsAssumption DEF TypeOK, Threads, Mine

LEMMA CountFacts ==
  /\ IsFiniteSet(Sleepers) /\ Cardinality(Sleepers) \in Nat
  /\ \A c : IsFiniteSet(On(c)) /\ Cardinality(On(c)) \in Nat
  <1>1. IsFiniteSet(Workers)
    BY ThreadsAssumption
  <1>2. \A S \in SUBSET Workers : IsFiniteSet(S) /\ Cardinality(S) \in Nat
    BY <1>1, FS_Subset, FS_CardinalityType
  <1>3. QED
    BY <1>2 DEF Sleepers, On

LEMMA NoJobType == NoJob \in Job
  BY LimitsAssumption DEF NoJob, Job, Indices

LEMMA NoJobFacts ==
  /\ NoJob \in Job
  /\ NoJob.n = 0 /\ NoJob.cursor = 0 /\ NoJob.enlisted = 0 /\ NoJob.joined = 0
  /\ ~NoJob.aborted /\ NoJob.eptr = None /\ NoJob.thrown = << >>
  /\ \A i \in Indices : NoJob.ran[i] = 0
  BY NoJobType DEF NoJob

LEMMA JobCounts ==
  ASSUME NEW j \in Job
  PROVE  /\ j.n \in Nat /\ j.cursor \in Nat /\ j.enlisted \in Nat /\ j.joined \in Nat
         /\ j.remaining \in Nat
  <1>1. /\ j.n \in 0 .. MaxN /\ j.cursor \in Nat /\ j.enlisted \in Nat /\ j.joined \in Nat
        /\ j.remaining \in Nat
    BY DEF Job
  <1>2. QED
    BY <1>1, LimitsAssumption

LEMMA NewJobFacts ==
  ASSUME NEW n \in 1 .. MaxN, NEW e \in Nat
  PROVE  LET j == NewJob(n, e) IN
         /\ j \in Job
         /\ j.n = n /\ j.cursor = 0 /\ j.enlisted = e /\ j.joined = 0 /\ j.remaining = 1
         /\ ~j.aborted /\ j.eptr = None /\ j.thrown = << >>
         /\ \A i \in Indices : j.ran[i] = 0
  <1> DEFINE j == NewJob(n, e)
  <1>1. j = [NoJob EXCEPT !.n = n, !.enlisted = e, !.remaining = 1]
    BY DEF NewJob
  <1>2. n \in 0 .. MaxN
    BY LimitsAssumption
  <1> HIDE DEF j
  <1>3. j \in Job
    BY <1>1, <1>2, NoJobFacts DEF Job
  <1>4. /\ j.n = n /\ j.enlisted = e /\ j.remaining = 1
        /\ j.cursor = NoJob.cursor /\ j.joined = NoJob.joined /\ j.aborted = NoJob.aborted
        /\ j.eptr = NoJob.eptr /\ j.thrown = NoJob.thrown /\ j.ran = NoJob.ran
    BY <1>1, NoJobFacts DEF Job
  <1>5. QED
    BY <1>3, <1>4, NoJobFacts DEF j

LEMMA InitType == Init => TypeOK
  <1> SUFFICES ASSUME Init PROVE TypeOK
    OBVIOUS
  <1>1. job \in [Callers -> Job]
    BY NoJobType DEF Init
  <1>2. index \in [Threads -> Indices]
    BY LimitsAssumption DEF Init, Indices
  <1>3. fans \in [Callers -> Seq(1 .. MaxN)] /\ spurious \in Nat
    BY LimitsAssumption DEF Init
  <1>4. QED
    BY <1>1, <1>2, <1>3 DEF Init, TypeOK, Threads

LEMMA InitInv == Init => IInv
  <1> SUFFICES ASSUME Init PROVE IInv
    OBVIOUS
  <1>1. TypeOK
    BY InitType
  <1>2. Places
    BY ThreadsAssumption DEF Init, Places, Threads
  <1>3. IdleCount
    <2>1. Sleepers = {}
      BY DEF Init, Sleepers, Threads
    <2>2. QED
      BY <2>1, FS_EmptySet DEF Init, IdleCount
  <1>a. Listed
    <2>1. Range(queue) = {} /\ DOMAIN queue = {}
      BY DEF Init, Range
    <2>2. \A c \in Callers : ~Shares(c)
      BY ThreadsAssumption DEF Init, Shares, Threads
    <2>3. QED
      BY <2>1, <2>2 DEF Listed
  <1>4. Counted /\ JobOutlivesUse /\ Alone
    BY ThreadsAssumption DEF Init, Counted, JobOutlivesUse, Alone, Threads
  <1>5. Claims /\ AllClaimed
    BY ThreadsAssumption DEF Init, Claims, AllClaimed, Busy, Threads
  <1>6. Ran
    <2>1. \A c \in Callers : job[c].ran = [i \in Indices |-> 0] /\ job[c].cursor = 0
      BY DEF Init, NoJob
    <2>2. \A i \in Indices : ~(i < 0)
      BY DEF Indices
    <2>3. QED
      BY <2>1, <2>2 DEF Ran
  <1>7. Caught
    BY DEF Init, Caught, NoJob
  <1>8. QED
    BY <1>1, <1>2, <1>3, <1>a, <1>4, <1>5, <1>6, <1>7 DEF IInv

-----------------------------------------------------------------------------
(* What most steps leave alone. *)

\* A job's record when a worker joins, leaves, or its caller gives up its share.
JoinedBy(j) == [j EXCEPT !.joined = j.joined + 1, !.remaining = j.remaining + 1]
LeftBy(j) == [j EXCEPT !.remaining = j.remaining - 1]

LEMMA JoinedFacts ==
  ASSUME NEW j \in Job
  PROVE  LET r == JoinedBy(j) IN
         /\ r \in Job /\ r.remaining = j.remaining + 1 /\ r.joined = j.joined + 1
         /\ r.enlisted = j.enlisted
         /\ r.n = j.n /\ r.cursor = j.cursor /\ r.ran = j.ran
         /\ r.aborted = j.aborted /\ r.thrown = j.thrown /\ r.eptr = j.eptr
  <1>1. j.remaining \in Nat /\ j.joined \in Nat
    BY DEF Job
  <1> DEFINE a == j.remaining + 1
             b == j.joined + 1
  <1>2. a \in Nat /\ b \in Nat
    BY <1>1
  <1>3. JoinedBy(j) = [j EXCEPT !.joined = b, !.remaining = a]
    BY DEF JoinedBy
  <1> HIDE DEF a, b
  <1>4. QED
    <2> DEFINE r == JoinedBy(j)
    <2>1. r \in Job
      BY <1>2, <1>3 DEF Job
    <2>2. /\ r.remaining = a /\ r.joined = b /\ r.enlisted = j.enlisted
          /\ r.n = j.n /\ r.cursor = j.cursor /\ r.ran = j.ran
          /\ r.aborted = j.aborted /\ r.thrown = j.thrown /\ r.eptr = j.eptr
      BY <1>3 DEF Job
    <2>3. QED
      BY <2>1, <2>2 DEF a, b

\* The indices of the jobs, and the threads at them.
LEMMA IndicesKept ==
  ASSUME TypeOK, Claims, Ran, Caught,
         \A t \in Threads :
            /\ pc'[t] = "task" <=> pc[t] = "task"
            /\ pc'[t] = "run" <=> pc[t] = "run"
            /\ Busy(t) => index'[t] = index[t] /\ Mine(t)' = Mine(t),
         \A c \in Callers :
            /\ job'[c].n = job[c].n /\ job'[c].cursor = job[c].cursor
            /\ job'[c].ran = job[c].ran /\ job'[c].aborted = job[c].aborted
            /\ job'[c].thrown = job[c].thrown /\ job'[c].eptr = job[c].eptr,
         \A t \in Threads : Busy(t) => Mine(t) \in Callers
  PROVE  Claims' /\ Ran' /\ Caught'
  <1>1. \A t \in Threads : Busy(t)' <=> Busy(t)
    BY DEF Busy
  <1>2. Claims'
    <2>1. ASSUME NEW t \in Threads, Busy(t)'
          PROVE  /\ index'[t] < job'[Mine(t)'].n /\ index'[t] < job'[Mine(t)'].cursor
                 /\ job'[Mine(t)'].ran[index'[t]] = IF pc'[t] = "task" THEN 0 ELSE 1
      <3>1. Busy(t) /\ index'[t] = index[t] /\ Mine(t)' = Mine(t) /\ Mine(t) \in Callers
        BY <1>1, <2>1
      <3>2. /\ index[t] < job[Mine(t)].n /\ index[t] < job[Mine(t)].cursor
            /\ job[Mine(t)].ran[index[t]] = IF pc[t] = "task" THEN 0 ELSE 1
        BY <3>1 DEF Claims
      <3>3. QED
        BY <3>1, <3>2
    <2>2. ASSUME NEW t \in Threads, NEW u \in Threads, t # u, Busy(t)', Busy(u)',
                 Mine(t)' = Mine(u)'
          PROVE  index'[t] # index'[u]
      BY <1>1, <2>2 DEF Claims
    <2>3. QED
      BY <2>1, <2>2 DEF Claims
  <1>3. \A c \in Callers : \A i \in Indices : Begins(c, i) => Begins(c, i)'
    BY DEF Begins, Busy
  <1>4. Ran'
    BY <1>3 DEF Ran
  <1>5. Caught'
    BY DEF Caught
  <1>6. QED
    BY <1>2, <1>4, <1>5

\* Who is on a job, and what the list holds.
LEMMA CountsKept ==
  ASSUME Listed, Counted, JobOutlivesUse, Alone,
         on' = on, queue' = queue,
         \A c \in Callers :
            /\ Shares(c)' <=> Shares(c)
            /\ pc'[c] \in {"return", "out"} <=> pc[c] \in {"return", "out"}
            /\ job'[c].remaining = job[c].remaining /\ job'[c].enlisted = job[c].enlisted
  PROVE  Listed' /\ Counted' /\ JobOutlivesUse' /\ Alone'
  <1>1. Listed'
    BY DEF Listed, Range
  <1>2. \A c : On(c)' = On(c)
    BY DEF On
  <1>3. Counted'
    BY <1>2 DEF Counted
  <1>4. JobOutlivesUse' /\ Alone'
    BY DEF JobOutlivesUse, Alone
  <1>5. QED
    BY <1>1, <1>3, <1>4

LEMMA IdleKept ==
  ASSUME IdleCount, idle' = idle,
         \A w \in Workers : pc'[w] \in {"asleep", "woken"} <=> pc[w] \in {"asleep", "woken"}
  PROVE  IdleCount'
  <1>1. Sleepers' = Sleepers
    BY DEF Sleepers
  <1>2. QED
    BY <1>1 DEF IdleCount

LEMMA JobUpdated ==
  ASSUME TypeOK, NEW c \in Callers, NEW r \in Job, job' = [job EXCEPT ![c] = r]
  PROVE  /\ job' \in [Callers -> Job] /\ job'[c] = r
         /\ \A d \in Callers : d # c => job'[d] = job[d]
  BY DEF TypeOK

\* A thread that is busy is so with a caller's job.
LEMMA BusyFacts ==
  ASSUME TypeOK, Places
  PROVE  /\ \A t \in Threads : Busy(t) => Mine(t) \in Callers
         /\ \A t \in Threads : pc[t] = "claim" => Mine(t) \in Callers
  BY MineFacts DEF TypeOK, Places, Busy, Threads

LEMMA IdleFacts ==
  ASSUME TypeOK, IdleCount, NEW w \in Workers, Looks(w)
  PROVE  IdleNow(w) = Cardinality(Sleepers \ {w}) /\ IdleNow(w) \in Nat
  <1>1. CASE pc[w] = "woken"
    <2>1. Cardinality(Sleepers \ {w}) = Cardinality(Sleepers) - 1
      BY <1>1, CountFacts, FS_RemoveElement DEF Sleepers
    <2>2. Cardinality(Sleepers \ {w}) \in Nat
      BY CountFacts, FS_Subset, FS_CardinalityType
    <2>3. QED
      BY <1>1, <2>1, <2>2 DEF IdleNow, IdleCount
  <1>2. CASE pc[w] = "look"
    <2>1. Sleepers \ {w} = Sleepers
      BY <1>2 DEF Sleepers
    <2>2. QED
      BY <1>2, <2>1, CountFacts DEF IdleNow, IdleCount
  <1>3. QED
    BY <1>1, <1>2 DEF Looks

-----------------------------------------------------------------------------
(* The worker between jobs. *)

LEMMA StopKeeps ==
  ASSUME IInv, NEW w \in Workers, LookStop(w)
  PROVE  IInv'
  <1>1. TypeOK /\ Places /\ Looks(w)
    BY DEF IInv, LookStop
  <1>2. w \in Threads /\ w \notin Callers
    BY <1>1, MineFacts
  <1>3. pc' = [pc EXCEPT ![w] = "gone"] /\ pc[w] \in {"look", "woken"}
    BY <1>1 DEF LookStop, Looks, Go
  <1>4. TypeOK'
    BY <1>1, <1>2, <1>3, IdleFacts DEF IInv, LookStop, TypeOK
  <1>5. Places'
    BY <1>1, <1>2, <1>3 DEF LookStop, Places, TypeOK
  <1>6. IdleCount'
    <2>1. Sleepers' = Sleepers \ {w}
      BY <1>1, <1>2, <1>3 DEF Sleepers, TypeOK, Threads
    <2>2. QED
      BY <1>1, <2>1, IdleFacts DEF IInv, LookStop, IdleCount
  <1>7. \A c \in Callers : pc'[c] = pc[c]
    BY <1>1, <1>2, <1>3 DEF TypeOK, Threads
  <1>8. Listed' /\ Counted' /\ JobOutlivesUse' /\ Alone'
    BY <1>7, CountsKept DEF IInv, LookStop, Shares
  <1>9. Claims' /\ Ran' /\ Caught'
    <2>1. \A t \in Threads : /\ pc'[t] = "task" <=> pc[t] = "task"
                             /\ pc'[t] = "run" <=> pc[t] = "run"
      BY <1>1, <1>2, <1>3 DEF TypeOK
    <2>2. \A t \in Threads : Mine(t)' = Mine(t)
      BY DEF LookStop, Mine
    <2>3. QED
      BY <1>1, <2>1, <2>2, IndicesKept, BusyFacts DEF IInv, LookStop
  <1>10. AllClaimed'
    BY <1>7 DEF IInv, AllClaimed, LookStop
  <1>11. QED
    BY <1>4, <1>5, <1>6, <1>8, <1>9, <1>10 DEF IInv

LEMMA SleepKeeps ==
  ASSUME IInv, NEW w \in Workers, LookSleep(w)
  PROVE  IInv'
  <1>1. TypeOK /\ Places /\ Looks(w)
    BY DEF IInv, LookSleep
  <1>2. w \in Threads /\ w \notin Callers
    BY <1>1, MineFacts
  <1>3. pc' = [pc EXCEPT ![w] = "asleep"] /\ pc[w] \in {"look", "woken"}
    BY <1>1 DEF LookSleep, Looks, Go
  <1>a. idle' \in Nat
    <2>1. IdleNow(w) \in Nat
      BY <1>1, IdleFacts DEF IInv
    <2>2. QED
      BY <2>1 DEF LookSleep
  <1>4. TypeOK'
    BY <1>1, <1>2, <1>3, <1>a DEF LookSleep, TypeOK
  <1>5. Places'
    BY <1>1, <1>2, <1>3 DEF LookSleep, Places, TypeOK
  <1>6. IdleCount'
    <2>1. Sleepers' = (Sleepers \ {w}) \cup {w}
      BY <1>1, <1>2, <1>3 DEF Sleepers, TypeOK, Threads
    <2>2. IsFiniteSet(Sleepers \ {w})
      BY CountFacts, FS_Subset
    <2>3. Cardinality((Sleepers \ {w}) \cup {w}) = Cardinality(Sleepers \ {w}) + 1
      BY <2>2, FS_AddElement
    <2>4. QED
      BY <1>1, <2>1, <2>3, IdleFacts DEF IInv, LookSleep, IdleCount
  <1>7. \A c \in Callers : pc'[c] = pc[c]
    BY <1>1, <1>2, <1>3 DEF TypeOK, Threads
  <1>8. Listed' /\ Counted' /\ JobOutlivesUse' /\ Alone'
    BY <1>7, CountsKept DEF IInv, LookSleep, Shares
  <1>9. Claims' /\ Ran' /\ Caught'
    <2>1. \A t \in Threads : /\ pc'[t] = "task" <=> pc[t] = "task"
                             /\ pc'[t] = "run" <=> pc[t] = "run"
      BY <1>1, <1>2, <1>3 DEF TypeOK
    <2>2. \A t \in Threads : Mine(t)' = Mine(t)
      BY DEF LookSleep, Mine
    <2>3. QED
      BY <1>1, <2>1, <2>2, IndicesKept, BusyFacts DEF IInv, LookSleep
  <1>10. AllClaimed'
    BY <1>7 DEF IInv, AllClaimed, LookSleep
  <1>11. QED
    BY <1>4, <1>5, <1>6, <1>8, <1>9, <1>10 DEF IInv

LEMMA JoinKeeps ==
  ASSUME IInv, NEW w \in Workers, LookJoin(w)
  PROVE  IInv'
  <1>1. TypeOK /\ Places /\ Looks(w)
    BY DEF IInv, LookJoin
  <1>2. w \in Threads /\ w \notin Callers
    BY <1>1, MineFacts
  <1>3. pc' = [pc EXCEPT ![w] = "claim"] /\ pc[w] \in {"look", "woken"}
    BY <1>1 DEF LookJoin, Looks, Go
  <1>a. PICK k \in Joinable :
            /\ job' = [job EXCEPT ![queue[k]].joined = @ + 1, ![queue[k]].remaining = @ + 1]
            /\ on' = [on EXCEPT ![w] = queue[k]]
    BY DEF LookJoin
  <1>k. queue[k] \in Callers /\ HasRoom(queue[k]) /\ queue[k] \in Range(queue)
    BY <1>1 DEF Joinable, TypeOK, Range
  <1>l. PICK c \in Callers : c = queue[k]
    BY <1>k
  <1>b. HasRoom(c) /\ c \in Range(queue)
    BY <1>k, <1>l
  <1>c. c # None /\ Shares(c) /\ job[c].enlisted > 0
    BY <1>1, <1>b, MineFacts DEF IInv, Listed
  <1>d. /\ on' = [on EXCEPT ![w] = c]
        /\ job' = [job EXCEPT ![c] = [job[c] EXCEPT !.joined = job[c].joined + 1,
                                                    !.remaining = job[c].remaining + 1]]
    <2>1. job[c] \in Job /\ job \in [Callers -> Job]
      BY <1>1 DEF TypeOK
    <2>2. QED
      BY <1>a, <1>l, <2>1 DEF Job
  <1> DEFINE r == [job[c] EXCEPT !.joined = job[c].joined + 1,
                                 !.remaining = job[c].remaining + 1]
  <1>i. /\ r \in Job /\ r.remaining = job[c].remaining + 1 /\ r.enlisted = job[c].enlisted
        /\ r.n = job[c].n /\ r.cursor = job[c].cursor /\ r.ran = job[c].ran
        /\ r.aborted = job[c].aborted /\ r.thrown = job[c].thrown /\ r.eptr = job[c].eptr
    <2>1. job[c] \in Job
      BY <1>1, <1>b DEF TypeOK
    <2>2. r = JoinedBy(job[c])
      BY DEF JoinedBy
    <2>3. QED
      BY <2>1, <2>2, JoinedFacts
  <1>j. job' = [job EXCEPT ![c] = r]
    BY <1>d
  <1> HIDE DEF r
  <1>e. /\ job' \in [Callers -> Job]
        /\ job'[c].remaining = job[c].remaining + 1
        /\ job'[c].enlisted = job[c].enlisted
    BY <1>1, <1>b, <1>i, <1>j, JobUpdated
  <1>f. \A d \in Callers :
            /\ d # c => job'[d] = job[d]
            /\ job'[d].n = job[d].n /\ job'[d].cursor = job[d].cursor
            /\ job'[d].ran = job[d].ran /\ job'[d].aborted = job[d].aborted
            /\ job'[d].thrown = job[d].thrown /\ job'[d].eptr = job[d].eptr
    BY <1>1, <1>b, <1>i, <1>j, JobUpdated
  <1>g. on[w] = None
    BY <1>1, <1>3 DEF Places
  <1>4. TypeOK'
    BY <1>1, <1>2, <1>3, <1>b, <1>d, <1>e, IdleFacts DEF IInv, LookJoin, TypeOK
  <1>5. Places'
    BY <1>1, <1>2, <1>3, <1>b, <1>c, <1>d DEF LookJoin, Places, TypeOK
  <1>6. IdleCount'
    <2>1. Sleepers' = Sleepers \ {w}
      BY <1>1, <1>2, <1>3 DEF Sleepers, TypeOK, Threads
    <2>2. QED
      BY <1>1, <2>1, IdleFacts DEF IInv, LookJoin, IdleCount
  <1>7. \A d \in Callers : pc'[d] = pc[d]
    BY <1>1, <1>2, <1>3 DEF TypeOK, Threads
  <1>8. Listed' /\ JobOutlivesUse' /\ Alone'
    <2>1. Listed'
      <3>1. queue' = queue /\ \A d \in Callers : Shares(d)' <=> Shares(d)
        BY <1>7 DEF LookJoin, Shares
      <3>2. QED
        BY <3>1, <1>e, <1>f DEF IInv, Listed, Range
    <2>2. JobOutlivesUse'
      BY <1>1, <1>7, <1>c, <1>d DEF IInv, JobOutlivesUse, LookJoin, Shares, TypeOK
    <2>3. Alone'
      BY <1>1, <1>c, <1>d, <1>e, <1>f DEF IInv, Alone, TypeOK
    <2>4. QED
      BY <2>1, <2>2, <2>3
  <1>h. Counted'
    <2>1. On(c)' = On(c) \cup {w} /\ w \notin On(c)
      <3>1. on \in [Workers -> Callers \cup {None}]
        BY <1>1 DEF TypeOK
      <3>2. QED
        BY <3>1, <1>c, <1>d, <1>g DEF On
    <2>2. Cardinality(On(c)') = Cardinality(On(c)) + 1
      BY <2>1, CountFacts, FS_AddElement
    <2>3. \A d \in Callers : d # c => On(d)' = On(d)
      BY <1>1, <1>d, <1>g, MineFacts DEF On, TypeOK
    <2>4. ASSUME NEW d \in Callers, pc'[d] \notin {"return", "out"}
          PROVE  job'[d].remaining = Cardinality(On(d)') + (IF Shares(d)' THEN 1 ELSE 0)
      <3>1. Shares(d)' <=> Shares(d)
        BY <1>7 DEF Shares
      <3>2. job[d].remaining = Cardinality(On(d)) + (IF Shares(d) THEN 1 ELSE 0)
        BY <1>7, <2>4 DEF IInv, Counted
      <3>3. CASE d = c
        BY <3>1, <3>2, <3>3, <2>2, <1>c, <1>e, CountFacts DEF Shares
      <3>4. CASE d # c
        BY <3>1, <3>2, <3>4, <2>3, <1>f
      <3>5. QED
        BY <3>3, <3>4
    <2>5. QED
      BY <2>4 DEF Counted
  <1>9. Claims' /\ Ran' /\ Caught'
    <2>1. \A t \in Threads : /\ pc'[t] = "task" <=> pc[t] = "task"
                             /\ pc'[t] = "run" <=> pc[t] = "run"
      BY <1>1, <1>2, <1>3 DEF TypeOK
    <2>2. \A t \in Threads : Busy(t) => t # w
      BY <1>3 DEF Busy
    <2>3. \A t \in Threads : Busy(t) => Mine(t)' = Mine(t)
      BY <1>1, <1>d, <2>2 DEF TypeOK, Mine
    <2>4. index' = index
      BY DEF LookJoin
    <2>5. QED
      BY <1>1, <1>f, <2>1, <2>3, <2>4, IndicesKept, BusyFacts DEF IInv
  <1>10. AllClaimed'
    BY <1>7, <1>e, <1>f DEF IInv, AllClaimed
  <1>11. QED
    BY <1>4, <1>5, <1>6, <1>8, <1>h, <1>9, <1>10 DEF IInv

-----------------------------------------------------------------------------
(* run_indices. *)

ClaimedBy(j) == [j EXCEPT !.cursor = j.cursor + 1]
RanBy(j, i) == [j EXCEPT !.ran = [j.ran EXCEPT ![i] = j.ran[i] + 1]]
ThrewBy(j, i) == [j EXCEPT !.eptr = IF j.eptr = None THEN i ELSE j.eptr,
                           !.aborted = TRUE, !.thrown = Append(j.thrown, i)]

LEMMA ClaimedFacts ==
  ASSUME NEW j \in Job
  PROVE  LET r == ClaimedBy(j) IN
         /\ r \in Job /\ r.cursor = j.cursor + 1
         /\ r.remaining = j.remaining /\ r.enlisted = j.enlisted /\ r.joined = j.joined
         /\ r.n = j.n /\ r.ran = j.ran
         /\ r.aborted = j.aborted /\ r.thrown = j.thrown /\ r.eptr = j.eptr
  <1> DEFINE a == j.cursor + 1
  <1>1. a \in Nat /\ ClaimedBy(j) = [j EXCEPT !.cursor = a]
    BY DEF Job, ClaimedBy
  <1> HIDE DEF a
  <1> DEFINE r == ClaimedBy(j)
  <1>2. r \in Job
    BY <1>1 DEF Job
  <1>3. /\ r.cursor = a /\ r.remaining = j.remaining /\ r.enlisted = j.enlisted /\ r.joined = j.joined
        /\ r.n = j.n /\ r.ran = j.ran
        /\ r.aborted = j.aborted /\ r.thrown = j.thrown /\ r.eptr = j.eptr
    BY <1>1 DEF Job
  <1>4. QED
    BY <1>2, <1>3 DEF a

LEMMA RanFacts ==
  ASSUME NEW j \in Job, NEW i \in Indices
  PROVE  LET r == RanBy(j, i) IN
         /\ r \in Job /\ r.ran = [j.ran EXCEPT ![i] = j.ran[i] + 1]
         /\ r.remaining = j.remaining /\ r.enlisted = j.enlisted /\ r.joined = j.joined
         /\ r.n = j.n /\ r.cursor = j.cursor
         /\ r.aborted = j.aborted /\ r.thrown = j.thrown /\ r.eptr = j.eptr
  <1> DEFINE a == [j.ran EXCEPT ![i] = j.ran[i] + 1]
  <1>1. a \in [Indices -> Nat] /\ RanBy(j, i) = [j EXCEPT !.ran = a]
    BY DEF Job, RanBy
  <1> HIDE DEF a
  <1> DEFINE r == RanBy(j, i)
  <1>2. r \in Job
    BY <1>1 DEF Job
  <1>3. /\ r.ran = a /\ r.remaining = j.remaining /\ r.enlisted = j.enlisted /\ r.joined = j.joined
        /\ r.n = j.n /\ r.cursor = j.cursor
        /\ r.aborted = j.aborted /\ r.thrown = j.thrown /\ r.eptr = j.eptr
    BY <1>1 DEF Job
  <1>4. QED
    BY <1>2, <1>3 DEF a

LEMMA ThrewFacts ==
  ASSUME NEW j \in Job, NEW i \in Indices
  PROVE  LET r == ThrewBy(j, i) IN
         /\ r \in Job /\ r.aborted /\ r.thrown = Append(j.thrown, i)
         /\ r.eptr = IF j.eptr = None THEN i ELSE j.eptr
         /\ r.remaining = j.remaining /\ r.enlisted = j.enlisted /\ r.joined = j.joined
         /\ r.n = j.n /\ r.cursor = j.cursor /\ r.ran = j.ran
  <1> DEFINE a == IF j.eptr = None THEN i ELSE j.eptr
             b == Append(j.thrown, i)
  <1>1. a \in Indices \cup {None} /\ b \in Seq(Indices)
    BY DEF Job
  <1>2. ThrewBy(j, i) = [j EXCEPT !.eptr = a, !.aborted = TRUE, !.thrown = b]
    BY DEF ThrewBy
  <1> HIDE DEF a, b
  <1> DEFINE r == ThrewBy(j, i)
  <1>3. r \in Job
    BY <1>1, <1>2 DEF Job
  <1>4. /\ r.eptr = a /\ r.aborted = TRUE /\ r.thrown = b
        /\ r.remaining = j.remaining /\ r.enlisted = j.enlisted /\ r.joined = j.joined
        /\ r.n = j.n /\ r.cursor = j.cursor /\ r.ran = j.ran
    BY <1>2 DEF Job
  <1>5. QED
    BY <1>3, <1>4 DEF a, b

\* A step within run_indices that doesn't end it.
LEMMA RunningKept ==
  ASSUME IInv, NEW t \in Threads, NEW x \in {"claim", "task", "run"},
         pc[t] \in {"claim", "task", "run"}, pc' = [pc EXCEPT ![t] = x],
         UNCHANGED <<mutex, closing, idle, queue, wakes, on, fans, spurious>>,
         job' \in [Callers -> Job], index' \in [Threads -> Indices],
         \A c \in Callers :
            /\ job'[c].n = job[c].n /\ job'[c].cursor >= job[c].cursor
            /\ job'[c].remaining = job[c].remaining /\ job'[c].enlisted = job[c].enlisted
  PROVE  /\ TypeOK' /\ Places' /\ IdleCount' /\ Listed' /\ Counted' /\ JobOutlivesUse' /\ Alone'
         /\ AllClaimed'
  <1>1. TypeOK /\ Places
    BY DEF IInv
  <1>2. TypeOK'
    BY <1>1 DEF TypeOK
  <1>3. Places'
    BY <1>1, MineFacts DEF Places, TypeOK
  <1>4. \A u \in Threads : u # t => pc'[u] = pc[u]
    BY <1>1 DEF TypeOK
  <1>5. pc'[t] = x
    BY <1>1 DEF TypeOK
  <1>6. \A w \in Workers : w \in Threads
    BY DEF Threads
  <1>7. \A c \in Callers : c \in Threads
    BY DEF Threads
  <1>8. IdleCount'
    BY <1>4, <1>5, <1>6, IdleKept DEF IInv
  <1>9. \A c \in Callers :
            /\ Shares(c)' <=> Shares(c)
            /\ pc'[c] \in {"return", "out"} <=> pc[c] \in {"return", "out"}
    BY <1>4, <1>5, <1>7 DEF Shares
  <1>10. Listed' /\ Counted' /\ JobOutlivesUse' /\ Alone'
    BY <1>9, CountsKept DEF IInv
  <1>11. AllClaimed'
    <2>1. ASSUME NEW c \in Callers,
                 pc'[c] \in {"join", "check", "block", "asleep", "woken", "return"}
          PROVE  job'[c].cursor >= job'[c].n /\ (pc'[c] # "return" => job'[c].enlisted > 0)
      <3>1. pc[c] = pc'[c]
        BY <2>1, <1>4, <1>5, <1>7
      <3>2. job[c].cursor >= job[c].n /\ (pc[c] # "return" => job[c].enlisted > 0)
        BY <2>1, <3>1 DEF IInv, AllClaimed
      <3>3. job[c] \in Job /\ job'[c] \in Job
        BY <1>1 DEF TypeOK
      <3>4. QED
        BY <3>1, <3>2, <3>3 DEF Job
    <2>2. QED
      BY <2>1 DEF AllClaimed
  <1>12. QED
    BY <1>2, <1>3, <1>8, <1>10, <1>11

\* The next index is claimed: no other thread has it.
LEMMA ClaimOneKeeps ==
  ASSUME IInv, NEW t \in Threads, Claim(t), job[Mine(t)].cursor < job[Mine(t)].n
  PROVE  IInv'
  <1>1. TypeOK /\ Places /\ Claims /\ Ran /\ Caught
    BY DEF IInv
  <1>2. pc[t] = "claim"
    BY DEF Claim
  <1>3. PICK c \in Callers : c = Mine(t)
    BY <1>1, <1>2, BusyFacts
  <1>4. job[c] \in Job
    BY <1>1 DEF TypeOK
  <1>a. job[c].cursor \in Nat /\ job[c].n \in 0 .. MaxN /\ job[c].cursor < job[c].n
    BY <1>3, <1>4 DEF Job
  <1>b. PICK i \in Indices : i = job[c].cursor
    BY <1>a, LimitsAssumption DEF Indices
  <1>5. /\ job' = [job EXCEPT ![c] = ClaimedBy(job[c])]
        /\ index' = [index EXCEPT ![t] = i] /\ pc' = [pc EXCEPT ![t] = "task"]
        /\ UNCHANGED <<mutex, closing, idle, queue, wakes, on, fans, spurious>>
    BY <1>3, <1>a, <1>b, LimitsAssumption DEF Claim, ClaimedBy, Go
  <1>6. /\ job' \in [Callers -> Job] /\ job'[c] = ClaimedBy(job[c])
        /\ \A d \in Callers : d # c => job'[d] = job[d]
    BY <1>1, <1>4, <1>5, ClaimedFacts, JobUpdated
  <1>7. i \in Nat /\ job[c].n \in Nat /\ i < job[c].n
    BY <1>a, <1>b, LimitsAssumption
  <1>8. /\ job'[c].cursor = i + 1 /\ job'[c].n = job[c].n /\ job'[c].ran = job[c].ran
        /\ job'[c].aborted = job[c].aborted /\ job'[c].thrown = job[c].thrown
        /\ job'[c].eptr = job[c].eptr
        /\ job'[c].remaining = job[c].remaining /\ job'[c].enlisted = job[c].enlisted
    BY <1>4, <1>6, <1>b, ClaimedFacts
  <1>9. /\ pc'[t] = "task" /\ index'[t] = i /\ Mine(t)' = c
        /\ \A u \in Threads :
              /\ Mine(u)' = Mine(u)
              /\ u # t => pc'[u] = pc[u] /\ index'[u] = index[u]
    BY <1>1, <1>3, <1>5 DEF TypeOK, Mine
  <1>10. \A d \in Callers :
            /\ job'[d].n = job[d].n /\ job'[d].cursor >= job[d].cursor
            /\ job'[d].remaining = job[d].remaining /\ job'[d].enlisted = job[d].enlisted
    <2>1. ASSUME NEW d \in Callers, d # c
          PROVE  job'[d] = job[d] /\ job'[d].cursor >= job[d].cursor
      <3>1. job[d] \in Job
        BY <1>1 DEF TypeOK
      <3>2. QED
        BY <2>1, <3>1, <1>6 DEF Job
    <2>2. job'[c].cursor >= job[c].cursor
      BY <1>7, <1>8, <1>b
    <2>3. QED
      BY <2>1, <2>2, <1>8
  <1>11. index' \in [Threads -> Indices]
    BY <1>1, <1>5, <1>7 DEF TypeOK
  <1>12. /\ TypeOK' /\ Places' /\ IdleCount' /\ Listed' /\ Counted' /\ JobOutlivesUse' /\ Alone'
         /\ AllClaimed'
    BY <1>2, <1>5, <1>6, <1>10, <1>11, RunningKept
  \* Whoever was busy holds a lower index of this job.
  <1>13. ASSUME NEW u \in Threads, Busy(u)', u # t
         PROVE  /\ Busy(u) /\ Mine(u) \in Callers /\ index'[u] = index[u]
                /\ index[u] < job'[Mine(u)].n /\ index[u] < job'[Mine(u)].cursor
                /\ job'[Mine(u)].ran[index[u]] = IF pc[u] = "task" THEN 0 ELSE 1
                /\ Mine(u) = c => index[u] < i
    <2>1. Busy(u) /\ index'[u] = index[u]
      BY <1>9, <1>13 DEF Busy
    <2>2. Mine(u) \in Callers /\ index[u] \in Indices
      BY <2>1, <1>1, BusyFacts DEF TypeOK
    <2>3. /\ index[u] < job[Mine(u)].n /\ index[u] < job[Mine(u)].cursor
          /\ job[Mine(u)].ran[index[u]] = IF pc[u] = "task" THEN 0 ELSE 1
      BY <2>1, <1>1 DEF Claims
    <2>4. CASE Mine(u) = c
      BY <2>1, <2>2, <2>3, <2>4, <1>7, <1>8, <1>b DEF Indices
    <2>5. CASE Mine(u) # c
      BY <2>1, <2>2, <2>3, <2>5, <1>6
    <2>6. QED
      BY <2>4, <2>5
  <1>14. Claims'
    <2>1. job'[c].ran[i] = 0
      BY <1>1, <1>7, <1>8, <1>b DEF Ran
    <2>2. ASSUME NEW u \in Threads, Busy(u)'
          PROVE  /\ index'[u] < job'[Mine(u)'].n /\ index'[u] < job'[Mine(u)'].cursor
                 /\ job'[Mine(u)'].ran[index'[u]] = IF pc'[u] = "task" THEN 0 ELSE 1
      <3>1. CASE u = t
        BY <3>1, <2>1, <1>7, <1>8, <1>9
      <3>2. CASE u # t
        BY <3>2, <2>2, <1>9, <1>13
      <3>3. QED
        BY <3>1, <3>2
    <2>3. ASSUME NEW u \in Threads, NEW v \in Threads, u # v, Busy(u)', Busy(v)',
                 Mine(u)' = Mine(v)'
          PROVE  index'[u] # index'[v]
      <3>1. i \in Nat /\ index[u] \in Nat /\ index[v] \in Nat
        BY <1>1, <1>7 DEF TypeOK, Indices
      <3>2. CASE u = t
        <4>1. v # t /\ Mine(v) = c
          BY <3>2, <2>3, <1>9
        <4>2. index'[v] = index[v] /\ index[v] < i
          BY <4>1, <2>3, <1>13
        <4>3. QED
          BY <4>2, <3>1, <3>2, <1>9
      <3>3. CASE v = t
        <4>1. u # t /\ Mine(u) = c
          BY <3>3, <2>3, <1>9
        <4>2. index'[u] = index[u] /\ index[u] < i
          BY <4>1, <2>3, <1>13
        <4>3. QED
          BY <4>2, <3>1, <3>3, <1>9
      <3>4. CASE u # t /\ v # t
        BY <3>4, <2>3, <1>1, <1>9, <1>13 DEF Claims
      <3>5. QED
        BY <3>2, <3>3, <3>4
    <2>4. QED
      BY <2>2, <2>3 DEF Claims
  <1>15. Ran'
    <2>1. \A d \in Callers : \A k \in Indices : Begins(d, k) => Begins(d, k)'
      BY <1>2, <1>9 DEF Begins
    <2>2. Begins(c, i)'
      BY <1>9 DEF Begins
    <2>3. ASSUME NEW k \in Indices
          PROVE  /\ job'[c].ran[k] \in {0, 1}
                 /\ k >= job'[c].cursor => job'[c].ran[k] = 0
                 /\ ~job'[c].aborted /\ k < job'[c].n /\ k < job'[c].cursor =>
                        job'[c].ran[k] = 1 \/ Begins(c, k)'
      <3>1. k \in Nat
        BY DEF Indices
      <3>2. CASE k = i
        BY <3>1, <3>2, <2>2, <1>1, <1>7, <1>8, <1>b DEF Ran
      <3>3. CASE k # i
        BY <3>1, <3>3, <2>1, <1>1, <1>7, <1>8, <1>b DEF Ran
      <3>4. QED
        BY <3>2, <3>3
    <2>4. ASSUME NEW d \in Callers, d # c, NEW k \in Indices
          PROVE  /\ job'[d].ran[k] \in {0, 1}
                 /\ k >= job'[d].cursor => job'[d].ran[k] = 0
                 /\ ~job'[d].aborted /\ k < job'[d].n /\ k < job'[d].cursor =>
                        job'[d].ran[k] = 1 \/ Begins(d, k)'
      BY <2>1, <2>4, <1>1, <1>6 DEF Ran
    <2>5. QED
      BY <2>3, <2>4 DEF Ran
  <1>16. Caught'
    BY <1>1, <1>6, <1>8 DEF Caught
  <1>17. QED
    BY <1>12, <1>14, <1>15, <1>16 DEF IInv

\* No index is left: a worker is about to leave, the caller to join.
LEMMA ClaimNoneKeeps ==
  ASSUME IInv, NEW t \in Threads, Claim(t), job[Mine(t)].cursor >= job[Mine(t)].n
  PROVE  IInv'
  <1>1. TypeOK /\ Places /\ Claims /\ Ran /\ Caught /\ AllClaimed
    BY DEF IInv
  <1>2. pc[t] = "claim"
    BY DEF Claim
  <1>3. PICK c \in Callers : c = Mine(t)
    BY <1>1, <1>2, BusyFacts
  <1>4. job[c] \in Job
    BY <1>1 DEF TypeOK
  <1>a. job[c].cursor \in Nat /\ job[c].n \in 0 .. MaxN /\ job[c].cursor >= job[c].n
    BY <1>3, <1>4 DEF Job
  <1>b. PICK x : x = IF t \in Workers THEN "leave"
                     ELSE IF job[c].enlisted > 0 THEN "join" ELSE "return"
    OBVIOUS
  <1>5. /\ job' = [job EXCEPT ![c] = ClaimedBy(job[c])]
        /\ pc' = [pc EXCEPT ![t] = x]
        /\ UNCHANGED <<mutex, closing, idle, queue, wakes, on, index, fans, spurious>>
    BY <1>3, <1>a, <1>b, LimitsAssumption DEF Claim, ClaimedBy, Go
  <1>6. /\ job' \in [Callers -> Job] /\ job'[c] = ClaimedBy(job[c])
        /\ \A d \in Callers : d # c => job'[d] = job[d]
    BY <1>1, <1>4, <1>5, ClaimedFacts, JobUpdated
  <1>7. /\ job'[c].cursor = job[c].cursor + 1 /\ job'[c].n = job[c].n
        /\ job'[c].ran = job[c].ran
        /\ job'[c].aborted = job[c].aborted /\ job'[c].thrown = job[c].thrown
        /\ job'[c].eptr = job[c].eptr
        /\ job'[c].remaining = job[c].remaining /\ job'[c].enlisted = job[c].enlisted
    BY <1>4, <1>6, ClaimedFacts
  <1>8. x \in {"leave", "join", "return"} /\ (t \in Workers <=> x = "leave")
    BY <1>b
  <1>9. /\ pc'[t] = x
        /\ \A u \in Threads : u # t => pc'[u] = pc[u]
        /\ \A u \in Threads : Mine(u)' = Mine(u)
    BY <1>1, <1>5 DEF TypeOK, Mine
  <1>10. TypeOK'
    BY <1>1, <1>5, <1>6, <1>8 DEF TypeOK
  <1>11. Places'
    BY <1>1, <1>2, <1>5, <1>8, MineFacts DEF Places, TypeOK, Threads
  <1>12. IdleCount'
    <2>1. \A w \in Workers : w \in Threads
      BY DEF Threads
    <2>2. QED
      BY <2>1, <1>2, <1>5, <1>8, <1>9, IdleKept DEF IInv
  <1>13. Listed' /\ Counted' /\ JobOutlivesUse' /\ Alone'
    <2>1. \A d \in Callers : /\ job'[d].remaining = job[d].remaining
                             /\ job'[d].enlisted = job[d].enlisted
      BY <1>6, <1>7
    <2>2. \A d \in Callers : d # t => pc'[d] = pc[d]
      BY <1>9 DEF Threads
    <2>3. CASE x # "return"
      <3>1. \A d \in Callers :
              /\ Shares(d)' <=> Shares(d)
              /\ pc'[d] \in {"return", "out"} <=> pc[d] \in {"return", "out"}
        BY <1>1, <1>2, <1>8, <1>9, <2>2, <2>3, MineFacts DEF Shares
      <3>2. QED
        BY <3>1, <2>1, <1>5, CountsKept DEF IInv
    <2>4. CASE x = "return"
      <3>1. t = c /\ job[c].enlisted = 0
        BY <2>4, <1>1, <1>3, <1>4, <1>b, <1>8, MineFacts DEF Threads, Job
      <3>2. c \notin Range(queue) /\ \A w \in Workers : on[w] # c
        BY <3>1 DEF IInv, Listed, Alone
      <3>3. Range(queue)' = Range(queue) /\ on' = on
        BY <1>5 DEF Range
      <3>4. Listed'
        <4>1. \A d \in Callers : d \in Range(queue) <=> Shares(d) /\ job[d].enlisted > 0
          BY DEF IInv, Listed
        <4>2. ASSUME NEW d \in Callers
              PROVE  d \in Range(queue)' <=> Shares(d)' /\ job'[d].enlisted > 0
          <5>1. CASE d = c
            BY <5>1, <3>1, <3>2, <3>3, <2>4, <1>9 DEF Shares
          <5>2. CASE d # c
            BY <5>2, <4>1, <3>1, <3>3, <2>1, <2>2 DEF Shares
          <5>3. QED
            BY <5>1, <5>2
        <4>3. QED
          BY <4>2, <1>5 DEF IInv, Listed
      <3>5. \A d : On(d)' = On(d)
        BY <1>5 DEF On
      <3>6. Counted'
        BY <3>1, <3>5, <2>1, <2>2, <2>4, <1>9 DEF IInv, Counted, Shares
      <3>7. JobOutlivesUse'
        <4>1. \A k \in DOMAIN queue : queue[k] # c
          BY <3>2 DEF Range
        <4>2. QED
          BY <4>1, <3>1, <3>2, <2>2, <1>5 DEF IInv, JobOutlivesUse
      <3>8. Alone'
        BY <2>1, <1>5 DEF IInv, Alone
      <3>9. QED
        BY <3>4, <3>6, <3>7, <3>8
    <2>5. QED
      BY <2>3, <2>4
  <1>14. ASSUME NEW u \in Threads, Busy(u)'
         PROVE  /\ u # t /\ Busy(u) /\ index'[u] = index[u] /\ pc'[u] = pc[u]
                /\ index[u] < job'[Mine(u)].n /\ index[u] < job'[Mine(u)].cursor
                /\ job'[Mine(u)].ran[index[u]] = IF pc[u] = "task" THEN 0 ELSE 1
    <2>1. u # t /\ Busy(u) /\ index'[u] = index[u] /\ pc'[u] = pc[u]
      BY <1>5, <1>8, <1>9, <1>14 DEF Busy
    <2>2. Mine(u) \in Callers /\ index[u] \in Nat
      BY <2>1, <1>1, BusyFacts DEF TypeOK, Indices
    <2>3. /\ index[u] < job[Mine(u)].n /\ index[u] < job[Mine(u)].cursor
          /\ job[Mine(u)].ran[index[u]] = IF pc[u] = "task" THEN 0 ELSE 1
      BY <2>1, <1>1 DEF Claims
    <2>4. CASE Mine(u) = c
      BY <2>1, <2>2, <2>3, <2>4, <1>a, <1>7
    <2>5. CASE Mine(u) # c
      BY <2>1, <2>2, <2>3, <2>5, <1>6
    <2>6. QED
      BY <2>1, <2>4, <2>5
  <1>15. Claims'
    <2>1. ASSUME NEW u \in Threads, Busy(u)'
          PROVE  /\ index'[u] < job'[Mine(u)'].n /\ index'[u] < job'[Mine(u)'].cursor
                 /\ job'[Mine(u)'].ran[index'[u]] = IF pc'[u] = "task" THEN 0 ELSE 1
      BY <2>1, <1>9, <1>14
    <2>2. ASSUME NEW u \in Threads, NEW v \in Threads, u # v, Busy(u)', Busy(v)',
                 Mine(u)' = Mine(v)'
          PROVE  index'[u] # index'[v]
      BY <2>2, <1>1, <1>9, <1>14 DEF Claims
    <2>3. QED
      BY <2>1, <2>2 DEF Claims
  <1>16. Ran'
    <2>1. \A d \in Callers : \A k \in Indices : Begins(d, k) => Begins(d, k)'
      BY <1>2, <1>5, <1>9 DEF Begins
    <2>2. \A k \in Indices : k \in Nat
      BY DEF Indices
    <2>3. ASSUME NEW k \in Indices
          PROVE  /\ job'[c].ran[k] \in {0, 1}
                 /\ k >= job'[c].cursor => job'[c].ran[k] = 0
                 /\ ~job'[c].aborted /\ k < job'[c].n /\ k < job'[c].cursor =>
                        job'[c].ran[k] = 1 \/ Begins(c, k)'
      BY <2>1, <2>2, <1>1, <1>7, <1>a, LimitsAssumption DEF Ran
    <2>4. ASSUME NEW d \in Callers, d # c, NEW k \in Indices
          PROVE  /\ job'[d].ran[k] \in {0, 1}
                 /\ k >= job'[d].cursor => job'[d].ran[k] = 0
                 /\ ~job'[d].aborted /\ k < job'[d].n /\ k < job'[d].cursor =>
                        job'[d].ran[k] = 1 \/ Begins(d, k)'
      BY <2>1, <2>4, <1>1, <1>6 DEF Ran
    <2>5. QED
      BY <2>3, <2>4 DEF Ran
  <1>17. Caught'
    BY <1>1, <1>6, <1>7 DEF Caught
  <1>18. AllClaimed'
    <2>1. ASSUME NEW d \in Callers,
                 pc'[d] \in {"join", "check", "block", "asleep", "woken", "return"}
          PROVE  job'[d].cursor >= job'[d].n /\ (pc'[d] # "return" => job'[d].enlisted > 0)
      <3>1. CASE d = c
        <4>1. job'[c].cursor >= job'[c].n
          BY <1>7, <1>a, LimitsAssumption
        <4>2. CASE t = c
          BY <4>1, <4>2, <3>1, <1>1, <1>7, <1>b, <1>8, <1>9, MineFacts
        <4>3. CASE t # c
          BY <4>1, <4>3, <3>1, <2>1, <1>1, <1>7, <1>9, MineFacts DEF AllClaimed
        <4>4. QED
          BY <4>2, <4>3
      <3>2. CASE d # c
        <4>1. d # t
          BY <3>2, <1>1, <1>3, MineFacts
        <4>2. pc'[d] = pc[d]
          BY <4>1, <1>9 DEF Threads
        <4>3. QED
          BY <4>2, <3>2, <2>1, <1>1, <1>6 DEF AllClaimed
      <3>3. QED
        BY <3>1, <3>2
    <2>2. QED
      BY <2>1 DEF AllClaimed
  <1>19. QED
    BY <1>10, <1>11, <1>12, <1>13, <1>15, <1>16, <1>17, <1>18 DEF IInv

\* A thread that is through with its index, whether it ran it or not: no job's
\* count of runs changes, and an index nobody begins is one of an aborted job.
LEMMA IndexDone ==
  ASSUME TypeOK, Places, Claims, Ran, NEW t \in Threads, Busy(t), NEW c \in Callers, Mine(t) = c,
         pc' = [pc EXCEPT ![t] = "claim"], index' = [index EXCEPT ![t] = 0], on' = on,
         \A d \in Callers : /\ job'[d].n = job[d].n /\ job'[d].cursor = job[d].cursor
                            /\ job'[d].ran = job[d].ran
                            /\ d # c => job'[d].aborted = job[d].aborted,
         (pc[t] = "run" /\ job'[c].aborted = job[c].aborted) \/ job'[c].aborted
  PROVE  Claims' /\ Ran'
  <1>1. /\ pc'[t] = "claim"
        /\ \A u \in Threads : u # t => pc'[u] = pc[u] /\ index'[u] = index[u]
        /\ \A u \in Threads : Mine(u)' = Mine(u)
    BY DEF TypeOK, Mine
  <1>2. \A u \in Threads : Busy(u)' => /\ u # t /\ Busy(u) /\ index'[u] = index[u]
                                       /\ pc'[u] = pc[u] /\ Mine(u) \in Callers
    BY <1>1, BusyFacts DEF Busy
  <1>3. Claims'
    <2>1. ASSUME NEW u \in Threads, Busy(u)'
          PROVE  /\ index'[u] < job'[Mine(u)'].n /\ index'[u] < job'[Mine(u)'].cursor
                 /\ job'[Mine(u)'].ran[index'[u]] = IF pc'[u] = "task" THEN 0 ELSE 1
      BY <2>1, <1>1, <1>2 DEF Claims
    <2>2. ASSUME NEW u \in Threads, NEW v \in Threads, u # v, Busy(u)', Busy(v)',
                 Mine(u)' = Mine(v)'
          PROVE  index'[u] # index'[v]
      BY <2>2, <1>1, <1>2 DEF Claims
    <2>3. QED
      BY <2>1, <2>2 DEF Claims
  <1>4. \A d \in Callers : \A k \in Indices :
            Begins(d, k) /\ (d # c \/ pc[t] = "run") => Begins(d, k)'
    BY <1>1 DEF Begins
  <1>5. ASSUME NEW d \in Callers, NEW k \in Indices
        PROVE  /\ job'[d].ran[k] \in {0, 1}
               /\ k >= job'[d].cursor => job'[d].ran[k] = 0
               /\ ~job'[d].aborted /\ k < job'[d].n /\ k < job'[d].cursor =>
                      job'[d].ran[k] = 1 \/ Begins(d, k)'
    BY <1>4, <1>5 DEF Ran
  <1>6. QED
    BY <1>3, <1>5 DEF Ran

LEMMA SkipKeeps ==
  ASSUME IInv, NEW t \in Threads, BeginTask(t), job[Mine(t)].aborted
  PROVE  IInv'
  <1>1. TypeOK /\ Places /\ Claims /\ Ran /\ Caught
    BY DEF IInv
  <1>2. pc[t] = "task" /\ Busy(t)
    BY DEF BeginTask, Busy
  <1>3. PICK c \in Callers : c = Mine(t)
    BY <1>1, <1>2, BusyFacts
  <1>4. /\ pc' = [pc EXCEPT ![t] = "claim"] /\ index' = [index EXCEPT ![t] = 0]
        /\ UNCHANGED <<mutex, closing, idle, queue, job, wakes, on, fans, spurious>>
    BY DEF BeginTask, Done, Go
  <1>5. index' \in [Threads -> Indices] /\ job' \in [Callers -> Job]
    BY <1>1, <1>4, LimitsAssumption DEF TypeOK, Indices
  <1>6. \A d \in Callers : job'[d] = job[d] /\ job'[d].cursor >= job[d].cursor
    BY <1>4, <1>5 DEF Job
  <1>7. /\ TypeOK' /\ Places' /\ IdleCount' /\ Listed' /\ Counted' /\ JobOutlivesUse' /\ Alone'
        /\ AllClaimed'
    BY <1>2, <1>4, <1>5, <1>6, RunningKept
  <1>8. Claims' /\ Ran'
    BY <1>1, <1>2, <1>3, <1>4, <1>6, IndexDone
  <1>9. Caught'
    BY <1>1, <1>4 DEF Caught
  <1>10. QED
    BY <1>7, <1>8, <1>9 DEF IInv

LEMMA EndKeeps ==
  ASSUME IInv, NEW t \in Threads, EndTask(t)
  PROVE  IInv'
  <1>1. TypeOK /\ Places /\ Claims /\ Ran /\ Caught
    BY DEF IInv
  <1>2. pc[t] = "run" /\ Busy(t)
    BY DEF EndTask, Busy
  <1>3. PICK c \in Callers : c = Mine(t)
    BY <1>1, <1>2, BusyFacts
  <1>4. /\ pc' = [pc EXCEPT ![t] = "claim"] /\ index' = [index EXCEPT ![t] = 0]
        /\ UNCHANGED <<mutex, closing, idle, queue, job, wakes, on, fans, spurious>>
    BY DEF EndTask, Done, Go
  <1>5. index' \in [Threads -> Indices] /\ job' \in [Callers -> Job]
    BY <1>1, <1>4, LimitsAssumption DEF TypeOK, Indices
  <1>6. \A d \in Callers : job'[d] = job[d] /\ job'[d].cursor >= job[d].cursor
    BY <1>4, <1>5 DEF Job
  <1>7. /\ TypeOK' /\ Places' /\ IdleCount' /\ Listed' /\ Counted' /\ JobOutlivesUse' /\ Alone'
        /\ AllClaimed'
    BY <1>2, <1>4, <1>5, <1>6, RunningKept
  <1>8. Claims' /\ Ran'
    BY <1>1, <1>2, <1>3, <1>4, <1>6, IndexDone
  <1>9. Caught'
    BY <1>1, <1>4 DEF Caught
  <1>10. QED
    BY <1>7, <1>8, <1>9 DEF IInv

\* What was kept of the first exception stays the first.
LEMMA ThrowKeeps ==
  ASSUME IInv, NEW t \in Threads, ThrowTask(t)
  PROVE  IInv'
  <1>1. TypeOK /\ Places /\ Claims /\ Ran /\ Caught
    BY DEF IInv
  <1>2. pc[t] = "run" /\ Busy(t)
    BY DEF ThrowTask, Busy
  <1>3. PICK c \in Callers : c = Mine(t)
    BY <1>1, <1>2, BusyFacts
  <1>4. PICK i \in Indices : i = index[t]
    BY <1>1 DEF TypeOK
  <1>5. job[c] \in Job
    BY <1>1 DEF TypeOK
  <1>6. /\ pc' = [pc EXCEPT ![t] = "claim"] /\ index' = [index EXCEPT ![t] = 0]
        /\ UNCHANGED <<mutex, closing, idle, queue, wakes, on, fans, spurious>>
    BY DEF ThrowTask, Done, Go
  <1>7. job' = [job EXCEPT ![c] = ThrewBy(job[c], i)]
    BY <1>3, <1>4 DEF ThrowTask, Latched, ThrewBy
  <1>8. /\ job' \in [Callers -> Job] /\ job'[c] = ThrewBy(job[c], i)
        /\ \A d \in Callers : d # c => job'[d] = job[d]
    BY <1>1, <1>5, <1>7, ThrewFacts, JobUpdated
  <1>9. /\ job'[c].aborted /\ job'[c].thrown = Append(job[c].thrown, i)
        /\ job'[c].eptr = IF job[c].eptr = None THEN i ELSE job[c].eptr
        /\ job'[c].remaining = job[c].remaining /\ job'[c].enlisted = job[c].enlisted
        /\ job'[c].n = job[c].n /\ job'[c].cursor = job[c].cursor /\ job'[c].ran = job[c].ran
    BY <1>5, <1>8, ThrewFacts
  <1>10. index' \in [Threads -> Indices]
    BY <1>1, <1>6, LimitsAssumption DEF TypeOK, Indices
  <1>11. \A d \in Callers : job[d].cursor \in Nat
    BY <1>1 DEF TypeOK, Job
  <1>12. \A d \in Callers :
            /\ job'[d].n = job[d].n /\ job'[d].cursor >= job[d].cursor
            /\ job'[d].remaining = job[d].remaining /\ job'[d].enlisted = job[d].enlisted
            /\ job'[d].cursor = job[d].cursor /\ job'[d].ran = job[d].ran
    BY <1>8, <1>9, <1>11
  <1>13. /\ TypeOK' /\ Places' /\ IdleCount' /\ Listed' /\ Counted' /\ JobOutlivesUse' /\ Alone'
         /\ AllClaimed'
    BY <1>2, <1>6, <1>8, <1>10, <1>12, RunningKept
  <1>14. Claims' /\ Ran'
    BY <1>1, <1>2, <1>3, <1>6, <1>8, <1>9, <1>12, IndexDone
  <1>15. Caught'
    <2>1. job[c].thrown \in Seq(Indices) /\ i # None
      BY <1>5, ThreadsAssumption DEF Job, Indices
    <2>2. Append(job[c].thrown, i) # << >>
      BY <2>1
    <2>3. job'[c].eptr = Head(job'[c].thrown)
      <3>1. CASE job[c].thrown = << >>
        BY <3>1, <1>1, <1>9 DEF Caught
      <3>2. CASE job[c].thrown # << >>
        <4>1. Head(Append(job[c].thrown, i)) = Head(job[c].thrown)
          <5>1. Len(job[c].thrown) > 0
            BY <2>1, <3>2, EmptySeq
          <5>2. QED
            BY <2>1, <5>1
        <4>2. job[c].eptr = Head(job[c].thrown)
          BY <3>2, <1>1 DEF Caught
        <4>3. Head(job[c].thrown) \in Indices
          BY <2>1, <3>2, HeadTailProperties
        <4>a. None \notin Indices
          BY ThreadsAssumption DEF Indices
        <4>4. QED
          BY <4>1, <4>2, <4>3, <4>a, <1>9
      <3>3. QED
        BY <3>1, <3>2
    <2>4. QED
      BY <2>2, <2>3, <1>1, <1>8, <1>9 DEF Caught
  <1>16. QED
    BY <1>13, <1>14, <1>15 DEF IInv

\* An index is run for the first time.
LEMMA BeginKeeps ==
  ASSUME IInv, NEW t \in Threads, BeginTask(t), ~job[Mine(t)].aborted
  PROVE  IInv'
  <1>1. TypeOK /\ Places /\ Claims /\ Ran /\ Caught
    BY DEF IInv
  <1>2. pc[t] = "task" /\ Busy(t)
    BY DEF BeginTask, Busy
  <1>3. PICK c \in Callers : c = Mine(t)
    BY <1>1, <1>2, BusyFacts
  <1>4. PICK i \in Indices : i = index[t]
    BY <1>1 DEF TypeOK
  <1>5. job[c] \in Job
    BY <1>1 DEF TypeOK
  <1>6. /\ pc' = [pc EXCEPT ![t] = "run"]
        /\ UNCHANGED <<mutex, closing, idle, queue, wakes, on, index, fans, spurious>>
    BY DEF BeginTask, Go
  <1>7. job' = [job EXCEPT ![c] = RanBy(job[c], i)]
    BY <1>3, <1>4 DEF BeginTask, RanBy
  <1>8. /\ job' \in [Callers -> Job] /\ job'[c] = RanBy(job[c], i)
        /\ \A d \in Callers : d # c => job'[d] = job[d]
    BY <1>1, <1>5, <1>7, RanFacts, JobUpdated
  <1>9. /\ job'[c].ran = [job[c].ran EXCEPT ![i] = job[c].ran[i] + 1]
        /\ job'[c].aborted = job[c].aborted /\ job'[c].thrown = job[c].thrown
        /\ job'[c].eptr = job[c].eptr
        /\ job'[c].remaining = job[c].remaining /\ job'[c].enlisted = job[c].enlisted
        /\ job'[c].n = job[c].n /\ job'[c].cursor = job[c].cursor
    <2> DEFINE r == RanBy(job[c], i)
    <2>1. /\ r.ran = [job[c].ran EXCEPT ![i] = job[c].ran[i] + 1]
          /\ r.aborted = job[c].aborted /\ r.thrown = job[c].thrown
          /\ r.eptr = job[c].eptr
          /\ r.remaining = job[c].remaining /\ r.enlisted = job[c].enlisted
          /\ r.n = job[c].n /\ r.cursor = job[c].cursor
      BY <1>5, RanFacts, Zenon
    <2> HIDE DEF r
    <2>2. job'[c] = r
      BY <1>8 DEF r
    <2>3. QED
      BY <2>1, <2>2, Zenon
  <1>10. job[c].ran[i] = 0 /\ i < job[c].n /\ i < job[c].cursor
    BY <1>1, <1>2, <1>3, <1>4 DEF Claims
  <1>11. job'[c].ran[i] = 1 /\ \A k \in Indices : k # i => job'[c].ran[k] = job[c].ran[k]
    BY <1>5, <1>9, <1>10 DEF Job
  <1>12. \A d \in Callers :
            /\ job'[d].n = job[d].n /\ job'[d].cursor >= job[d].cursor
            /\ job'[d].remaining = job[d].remaining /\ job'[d].enlisted = job[d].enlisted
            /\ job'[d].cursor = job[d].cursor
    <2>1. \A d \in Callers : job[d].cursor \in Nat
      BY <1>1 DEF TypeOK, Job
    <2>2. QED
      BY <2>1, <1>8, <1>9
  <1>13. index' \in [Threads -> Indices]
    BY <1>1, <1>6 DEF TypeOK
  <1>14. /\ TypeOK' /\ Places' /\ IdleCount' /\ Listed' /\ Counted' /\ JobOutlivesUse' /\ Alone'
         /\ AllClaimed'
    BY <1>2, <1>6, <1>8, <1>12, <1>13, RunningKept
  <1>15. /\ pc'[t] = "run"
         /\ \A u \in Threads : u # t => pc'[u] = pc[u]
         /\ \A u \in Threads : Mine(u)' = Mine(u) /\ index'[u] = index[u]
         /\ \A u \in Threads : Busy(u)' => Busy(u) /\ Mine(u) \in Callers
    <2>1. pc'[t] = "run" /\ \A u \in Threads : u # t => pc'[u] = pc[u]
      BY <1>1, <1>6 DEF TypeOK
    <2>2. \A u \in Threads : Mine(u)' = Mine(u) /\ index'[u] = index[u]
      BY <1>6 DEF Mine
    <2>3. \A u \in Threads : Busy(u)' => Busy(u)
      BY <2>1, <1>2 DEF Busy
    <2>4. QED
      BY <2>1, <2>2, <2>3, <1>1, BusyFacts
  <1>16. Claims'
    <2>1. ASSUME NEW u \in Threads, Busy(u)'
          PROVE  /\ index'[u] < job'[Mine(u)'].n /\ index'[u] < job'[Mine(u)'].cursor
                 /\ job'[Mine(u)'].ran[index'[u]] = IF pc'[u] = "task" THEN 0 ELSE 1
      <3>1. CASE u = t
        BY <3>1, <1>3, <1>4, <1>9, <1>10, <1>11, <1>15
      <3>2. CASE u # t
        <4>1. /\ index[u] < job[Mine(u)].n /\ index[u] < job[Mine(u)].cursor
              /\ job[Mine(u)].ran[index[u]] = IF pc[u] = "task" THEN 0 ELSE 1
              /\ index[u] \in Indices
          BY <2>1, <1>1, <1>15 DEF Claims, TypeOK
        <4>2. Mine(u) = c => index[u] # i
          BY <2>1, <3>2, <1>1, <1>2, <1>3, <1>4, <1>15 DEF Claims
        <4>3. CASE Mine(u) = c
          BY <4>1, <4>2, <4>3, <3>2, <1>9, <1>11, <1>15
        <4>4. CASE Mine(u) # c
          BY <4>1, <4>4, <3>2, <2>1, <1>8, <1>15
        <4>5. QED
          BY <4>3, <4>4
      <3>3. QED
        BY <3>1, <3>2
    <2>2. ASSUME NEW u \in Threads, NEW v \in Threads, u # v, Busy(u)', Busy(v)',
                 Mine(u)' = Mine(v)'
          PROVE  index'[u] # index'[v]
      BY <2>2, <1>1, <1>15 DEF Claims
    <2>3. QED
      BY <2>1, <2>2 DEF Claims
  <1>17. Ran'
    <2>1. \A d \in Callers : \A k \in Indices :
            Begins(d, k) /\ ~(d = c /\ k = i) => Begins(d, k)'
      BY <1>3, <1>4, <1>15 DEF Begins
    <2>2. ASSUME NEW k \in Indices
          PROVE  /\ job'[c].ran[k] \in {0, 1}
                 /\ k >= job'[c].cursor => job'[c].ran[k] = 0
                 /\ ~job'[c].aborted /\ k < job'[c].n /\ k < job'[c].cursor =>
                        job'[c].ran[k] = 1 \/ Begins(c, k)'
      <3>1. CASE k = i
        <4>1. ~(i >= job[c].cursor)
          BY <1>5, <1>10 DEF Job, Indices
        <4>2. QED
          BY <4>1, <3>1, <1>9, <1>11
      <3>2. CASE k # i
        BY <2>1, <3>2, <1>1, <1>9, <1>11 DEF Ran
      <3>3. QED
        BY <3>1, <3>2
    <2>3. ASSUME NEW d \in Callers, d # c, NEW k \in Indices
          PROVE  /\ job'[d].ran[k] \in {0, 1}
                 /\ k >= job'[d].cursor => job'[d].ran[k] = 0
                 /\ ~job'[d].aborted /\ k < job'[d].n /\ k < job'[d].cursor =>
                        job'[d].ran[k] = 1 \/ Begins(d, k)'
      BY <2>1, <2>3, <1>1, <1>8 DEF Ran
    <2>4. QED
      BY <2>2, <2>3 DEF Ran
  <1>18. Caught'
    BY <1>1, <1>8, <1>9 DEF Caught
  <1>19. QED
    BY <1>14, <1>16, <1>17, <1>18 DEF IInv

-----------------------------------------------------------------------------
(* Steps that wake a thread, put it to sleep, or close the pool. *)

Pcs == {"look", "asleep", "woken", "claim", "task", "run", "leave", "notify",
        "gone", "out", "wake", "join", "check", "block", "return"}

LEMMA SignalKept ==
  ASSUME IInv, UNCHANGED <<idle, queue, job, on, index, fans>>,
         pc' \in [Threads -> Pcs], mutex' \in Callers \cup {None},
         closing' \in {"open", "stopping", "told"}, wakes' \in [Callers -> Nat], spurious' \in Nat,
         \A w \in Workers : \/ pc'[w] = pc[w]
                            \/ pc[w] = "asleep" /\ pc'[w] = "woken"
                            \/ pc[w] = "notify" /\ pc'[w] = "look",
         \A c \in Callers :
            /\ \/ pc'[c] = pc[c]
               \/ /\ pc[c] \in {"check", "block", "asleep", "woken"}
                  /\ pc'[c] \in {"check", "block", "asleep", "woken"}
               \/ pc[c] = "wake" /\ pc'[c] = "claim"
            /\ closing' # "open" => pc'[c] = "out"
            /\ pc'[c] = "wake" <=> wakes'[c] > 0
  PROVE  IInv'
  <1>1. TypeOK /\ Places /\ Claims /\ Ran /\ Caught
    BY DEF IInv
  <1>2. TypeOK'
    BY <1>1 DEF TypeOK, Pcs
  <1>3. Places'
    BY <1>1 DEF Places
  <1>4. IdleCount'
    BY IdleKept DEF IInv
  <1>5. \A c \in Callers :
            /\ Shares(c)' <=> Shares(c)
            /\ pc'[c] \in {"return", "out"} <=> pc[c] \in {"return", "out"}
    BY <1>1 DEF Shares
  <1>6. Listed' /\ Counted' /\ JobOutlivesUse' /\ Alone'
    BY <1>5, CountsKept DEF IInv
  <1>7. Claims' /\ Ran' /\ Caught'
    <2>1. \A t \in Threads : /\ pc'[t] = "task" <=> pc[t] = "task"
                             /\ pc'[t] = "run" <=> pc[t] = "run"
      BY DEF Threads
    <2>2. \A t \in Threads : index'[t] = index[t] /\ Mine(t)' = Mine(t)
      BY DEF Mine
    <2>3. QED
      BY <1>1, <2>1, <2>2, IndicesKept, BusyFacts
  <1>8. AllClaimed'
    BY DEF IInv, AllClaimed
  <1>9. QED
    BY <1>2, <1>3, <1>4, <1>6, <1>7, <1>8 DEF IInv

LEMMA NotifyKeeps ==
  ASSUME IInv, NEW w \in Workers, NotifyDone(w)
  PROVE  IInv'
  <1>1. TypeOK /\ Places
    BY DEF IInv
  <1>2. /\ pc[w] = "notify"
        /\ UNCHANGED <<mutex, closing, idle, queue, job, wakes, on, index, fans, spurious>>
        /\ pc' = [t \in Threads |-> IF t = w THEN "look"
                                    ELSE IF t \in Rouse(Callers) THEN "woken" ELSE pc[t]]
    BY DEF NotifyDone
  <1>3. \A t \in Threads : \/ pc'[t] = pc[t]
                           \/ t = w /\ pc'[t] = "look"
                           \/ t \in Callers /\ pc[t] = "asleep" /\ pc'[t] = "woken"
    BY <1>2 DEF Rouse
  <1>4. pc' \in [Threads -> Pcs]
    BY <1>1, <1>2 DEF TypeOK, Pcs
  <1>5. \A v \in Workers : \/ pc'[v] = pc[v]
                           \/ pc[v] = "notify" /\ pc'[v] = "look"
    BY <1>1, <1>2, <1>3, MineFacts
  <1>6. \A c \in Callers : pc'[c] = pc[c] \/ (pc[c] = "asleep" /\ pc'[c] = "woken")
    BY <1>1, <1>2, <1>3, MineFacts
  <1>7. \A c \in Callers : /\ closing' # "open" => pc'[c] = "out"
                           /\ pc'[c] = "wake" <=> wakes'[c] > 0
    BY <1>1, <1>2, <1>6 DEF Places
  <1>8. mutex' \in Callers \cup {None} /\ closing' \in {"open", "stopping", "told"}
        /\ wakes' \in [Callers -> Nat] /\ spurious' \in Nat
    BY <1>1, <1>2 DEF TypeOK
  <1>9. QED
    BY <1>2, <1>4, <1>5, <1>6, <1>7, <1>8, SignalKept

LEMMA WakeOneKeeps ==
  ASSUME IInv, NEW c \in Callers, WakeOne(c)
  PROVE  IInv'
  <1>1. TypeOK /\ Places
    BY DEF IInv
  <1>2. /\ pc[c] = "wake" /\ wakes' = [wakes EXCEPT ![c] = wakes[c] - 1]
        /\ UNCHANGED <<mutex, closing, idle, queue, job, on, index, fans, spurious>>
    BY DEF WakeOne
  <1>3. c \in Threads /\ wakes[c] \in Nat /\ wakes[c] > 0 /\ closing = "open"
    BY <1>1, <1>2, MineFacts DEF TypeOK, Places
  <1>4. PICK to \in {"claim", "wake"} : to = IF wakes[c] = 1 THEN "claim" ELSE "wake"
    OBVIOUS
  <1>5. \/ pc' = [pc EXCEPT ![c] = to]
        \/ \E w \in Rouse(Workers) : pc' = [pc EXCEPT ![w] = "woken", ![c] = to]
    BY <1>4 DEF WakeOne, Go
  <1>6. pc' \in [Threads -> Pcs] /\ pc'[c] = to
        /\ \A t \in Threads : t # c => pc'[t] = pc[t]
                                         \/ (t \in Workers /\ pc[t] = "asleep" /\ pc'[t] = "woken")
    <2>1. CASE pc' = [pc EXCEPT ![c] = to]
      BY <2>1, <1>1, <1>3 DEF TypeOK, Pcs
    <2>2. ASSUME NEW w \in Rouse(Workers), pc' = [pc EXCEPT ![w] = "woken", ![c] = to]
          PROVE  /\ pc' \in [Threads -> Pcs] /\ pc'[c] = to
                 /\ \A t \in Threads : t # c =>
                        pc'[t] = pc[t] \/ (t \in Workers /\ pc[t] = "asleep" /\ pc'[t] = "woken")
      <3>1. w \in Workers /\ pc[w] = "asleep" /\ w \in Threads
        BY DEF Rouse, Threads
      <3>2. pc \in [Threads -> Pcs]
        BY <1>1 DEF TypeOK, Pcs
      <3>3. QED
        BY <2>2, <3>1, <3>2, <1>3 DEF Pcs
    <2>3. QED
      BY <1>5, <2>1, <2>2
  <1>7. wakes' \in [Callers -> Nat] /\ wakes'[c] = wakes[c] - 1
        /\ \A d \in Callers : d # c => wakes'[d] = wakes[d]
    BY <1>1, <1>2, <1>3 DEF TypeOK
  <1>8. \A w \in Workers : \/ pc'[w] = pc[w]
                           \/ pc[w] = "asleep" /\ pc'[w] = "woken"
    BY <1>1, <1>6, MineFacts
  <1>9. \A d \in Callers : pc'[d] = pc[d] \/ (d = c /\ pc[d] = "wake" /\ pc'[d] = "claim")
    BY <1>1, <1>2, <1>4, <1>6, MineFacts
  <1>10. \A d \in Callers : /\ closing' # "open" => pc'[d] = "out"
                            /\ pc'[d] = "wake" <=> wakes'[d] > 0
    <2>1. pc'[c] = "wake" <=> wakes'[c] > 0
      BY <1>3, <1>4, <1>6, <1>7
    <2>2. QED
      BY <2>1, <1>1, <1>2, <1>3, <1>7, <1>9 DEF Places
  <1>11. mutex' \in Callers \cup {None} /\ closing' \in {"open", "stopping", "told"}
         /\ spurious' \in Nat
    BY <1>1, <1>2 DEF TypeOK
  <1>12. QED
    BY <1>2, <1>6, <1>7, <1>8, <1>9, <1>10, <1>11, SignalKept

LEMMA WakeAllKeeps ==
  ASSUME IInv, NEW c \in Callers, WakeAll(c)
  PROVE  IInv'
  <1>1. TypeOK /\ Places
    BY DEF IInv
  <1>2. /\ pc[c] = "wake" /\ wakes' = [wakes EXCEPT ![c] = 0]
        /\ UNCHANGED <<mutex, closing, idle, queue, job, on, index, fans, spurious>>
        /\ pc' = [t \in Threads |-> IF t = c THEN "claim"
                                    ELSE IF t \in Rouse(Workers) THEN "woken" ELSE pc[t]]
    BY DEF WakeAll
  <1>3. c \in Threads /\ closing = "open"
    BY <1>1, <1>2, MineFacts DEF TypeOK, Places
  <1>4. pc' \in [Threads -> Pcs] /\ pc'[c] = "claim"
    BY <1>1, <1>2, <1>3 DEF TypeOK, Pcs
  <1>5. \A t \in Threads : t # c => pc'[t] = pc[t]
                                      \/ (t \in Workers /\ pc[t] = "asleep" /\ pc'[t] = "woken")
    BY <1>2 DEF Rouse
  <1>6. \A w \in Workers : \/ pc'[w] = pc[w]
                           \/ pc[w] = "asleep" /\ pc'[w] = "woken"
    BY <1>1, <1>5, MineFacts
  <1>7. \A d \in Callers : pc'[d] = pc[d] \/ (d = c /\ pc[d] = "wake" /\ pc'[d] = "claim")
    BY <1>1, <1>2, <1>4, <1>5, MineFacts
  <1>8. wakes' \in [Callers -> Nat] /\ wakes'[c] = 0
        /\ \A d \in Callers : d # c => wakes'[d] = wakes[d]
    BY <1>1, <1>2 DEF TypeOK
  <1>9. \A d \in Callers : /\ closing' # "open" => pc'[d] = "out"
                           /\ pc'[d] = "wake" <=> wakes'[d] > 0
    <2>1. ~(pc'[c] = "wake") /\ ~(wakes'[c] > 0)
      BY <1>4, <1>8
    <2>2. QED
      BY <2>1, <1>1, <1>2, <1>3, <1>7, <1>8 DEF Places
  <1>10. mutex' \in Callers \cup {None} /\ closing' \in {"open", "stopping", "told"}
         /\ spurious' \in Nat
    BY <1>1, <1>2 DEF TypeOK
  <1>11. QED
    BY <1>2, <1>4, <1>6, <1>7, <1>8, <1>9, <1>10, SignalKept

\* The caller's wait, short of its end.
LEMMA WaitKeeps ==
  ASSUME IInv, NEW c \in Callers,
         (Check(c) /\ ~Drained(c)) \/ Block(c) \/ Recheck(c)
  PROVE  IInv'
  <1>1. TypeOK /\ Places
    BY DEF IInv
  <1>2. PICK x \in {"check", "block", "asleep"} :
            /\ pc[c] \in {"check", "block", "woken"} /\ pc' = [pc EXCEPT ![c] = x]
            /\ mutex' \in {mutex, c, None}
            /\ UNCHANGED <<closing, idle, queue, job, wakes, on, index, fans, spurious>>
    BY DEF Check, Block, Recheck, Go
  <1>3. c \in Threads
    BY <1>1, MineFacts
  <1>4. pc' \in [Threads -> Pcs] /\ pc'[c] = x /\ \A t \in Threads : t # c => pc'[t] = pc[t]
    BY <1>1, <1>2, <1>3 DEF TypeOK, Pcs
  <1>5. \A w \in Workers : pc'[w] = pc[w]
    BY <1>1, <1>4, MineFacts
  <1>6. \A d \in Callers : d # c => pc'[d] = pc[d]
    BY <1>4 DEF Threads
  <1>7. closing = "open" /\ ~(wakes[c] > 0)
    BY <1>1, <1>2 DEF Places
  <1>8. \A d \in Callers : /\ closing' # "open" => pc'[d] = "out"
                           /\ pc'[d] = "wake" <=> wakes'[d] > 0
    BY <1>1, <1>2, <1>4, <1>6, <1>7 DEF Places
  <1>9. mutex' \in Callers \cup {None} /\ closing' \in {"open", "stopping", "told"}
        /\ wakes' \in [Callers -> Nat] /\ spurious' \in Nat
    BY <1>1, <1>2 DEF TypeOK
  <1>10. QED
    BY <1>2, <1>4, <1>5, <1>6, <1>8, <1>9, SignalKept

LEMMA CloseKeeps ==
  ASSUME IInv, SetStop \/ TellAll
  PROVE  IInv'
  <1>1. TypeOK /\ Places
    BY DEF IInv
  <1>2. /\ UNCHANGED <<mutex, idle, queue, job, wakes, on, index, fans, spurious>>
        /\ closing' \in {"stopping", "told"}
        /\ \A c \in Callers : pc[c] = "out"
    BY <1>1 DEF SetStop, TellAll, Places
  <1>3. pc' \in [Threads -> Pcs]
        /\ \A t \in Threads : pc'[t] = pc[t]
                                \/ (t \in Workers /\ pc[t] = "asleep" /\ pc'[t] = "woken")
    <2>1. CASE SetStop
      BY <2>1, <1>1 DEF SetStop, TypeOK, Pcs
    <2>2. CASE TellAll
      BY <2>2, <1>1 DEF TellAll, TypeOK, Pcs, Rouse
    <2>3. QED
      BY <2>1, <2>2
  <1>4. \A w \in Workers : pc'[w] = pc[w] \/ (pc[w] = "asleep" /\ pc'[w] = "woken")
    BY <1>3 DEF Threads
  <1>5. \A c \in Callers : pc'[c] = pc[c]
    BY <1>1, <1>3, MineFacts
  <1>6. \A c \in Callers : /\ closing' # "open" => pc'[c] = "out"
                           /\ pc'[c] = "wake" <=> wakes'[c] > 0
    BY <1>1, <1>2, <1>5 DEF Places
  <1>7. mutex' \in Callers \cup {None} /\ closing' \in {"open", "stopping", "told"}
        /\ wakes' \in [Callers -> Nat] /\ spurious' \in Nat
    BY <1>1, <1>2 DEF TypeOK
  <1>8. QED
    BY <1>2, <1>3, <1>4, <1>5, <1>6, <1>7, SignalKept

LEMMA SpuriousKeeps ==
  ASSUME IInv, NEW t \in Threads, Spurious(t)
  PROVE  IInv'
  <1>1. TypeOK /\ Places
    BY DEF IInv
  <1>2. /\ UNCHANGED <<mutex, closing, idle, queue, job, wakes, on, index, fans>>
        /\ pc[t] = "asleep" /\ pc' = [pc EXCEPT ![t] = "woken"]
        /\ spurious > 0 /\ spurious' = spurious - 1
    BY DEF Spurious, Go
  <1>3. pc' \in [Threads -> Pcs] /\ pc'[t] = "woken"
        /\ \A u \in Threads : u # t => pc'[u] = pc[u]
    BY <1>1, <1>2 DEF TypeOK, Pcs
  <1>4. \A u \in Threads : pc'[u] = pc[u] \/ (pc[u] = "asleep" /\ pc'[u] = "woken")
    BY <1>2, <1>3
  <1>5. /\ \A w \in Workers : pc'[w] = pc[w] \/ (pc[w] = "asleep" /\ pc'[w] = "woken")
        /\ \A c \in Callers : pc'[c] = pc[c] \/ (pc[c] = "asleep" /\ pc'[c] = "woken")
    BY <1>4 DEF Threads
  <1>6. \A c \in Callers : /\ closing' # "open" => pc'[c] = "out"
                           /\ pc'[c] = "wake" <=> wakes'[c] > 0
    BY <1>1, <1>2, <1>5 DEF Places
  <1>7. mutex' \in Callers \cup {None} /\ closing' \in {"open", "stopping", "told"}
        /\ wakes' \in [Callers -> Nat] /\ spurious' \in Nat
    BY <1>1, <1>2 DEF TypeOK
  <1>8. QED
    BY <1>2, <1>3, <1>5, <1>6, <1>7, SignalKept

-----------------------------------------------------------------------------
(* A worker leaves; the caller joins, returns and posts. *)

LEMMA LeftFacts ==
  ASSUME NEW j \in Job, j.remaining > 0
  PROVE  LET r == LeftBy(j) IN
         /\ r \in Job /\ r.remaining = j.remaining - 1 /\ r.enlisted = j.enlisted /\ r.joined = j.joined
         /\ r.n = j.n /\ r.cursor = j.cursor /\ r.ran = j.ran
         /\ r.aborted = j.aborted /\ r.thrown = j.thrown /\ r.eptr = j.eptr
  <1> DEFINE a == j.remaining - 1
  <1>1. a \in Nat /\ LeftBy(j) = [j EXCEPT !.remaining = a]
    BY DEF Job, LeftBy
  <1> HIDE DEF a
  <1> DEFINE r == LeftBy(j)
  <1>2. r \in Job
    BY <1>1 DEF Job
  <1>3. /\ r.remaining = a /\ r.enlisted = j.enlisted /\ r.joined = j.joined
        /\ r.n = j.n /\ r.cursor = j.cursor /\ r.ran = j.ran
        /\ r.aborted = j.aborted /\ r.thrown = j.thrown /\ r.eptr = j.eptr
    BY <1>1 DEF Job
  <1>4. QED
    BY <1>2, <1>3 DEF a

\* A share of a job is given up.
LEMMA ShareGiven ==
  ASSUME TypeOK, NEW c \in Callers, job[c].remaining > 0,
         job' = [job EXCEPT ![c] = LeftBy(job[c])]
  PROVE  /\ job' \in [Callers -> Job]
         /\ job'[c].remaining = job[c].remaining - 1
         /\ \A d \in Callers :
              /\ d # c => job'[d] = job[d]
              /\ job'[d].enlisted = job[d].enlisted /\ job'[d].joined = job[d].joined
              /\ job'[d].n = job[d].n /\ job'[d].cursor = job[d].cursor
              /\ job'[d].ran = job[d].ran /\ job'[d].aborted = job[d].aborted
              /\ job'[d].thrown = job[d].thrown /\ job'[d].eptr = job[d].eptr
  <1>1. job[c] \in Job
    BY DEF TypeOK
  <1>2. LeftBy(job[c]) \in Job
    BY <1>1, LeftFacts
  <1>3. /\ job' \in [Callers -> Job] /\ job'[c] = LeftBy(job[c])
        /\ \A d \in Callers : d # c => job'[d] = job[d]
    BY <1>2, JobUpdated
  <1>4. QED
    BY <1>1, <1>3, LeftFacts

LEMMA LeaveKeeps ==
  ASSUME IInv, NEW w \in Workers, Leave(w)
  PROVE  IInv'
  <1>1. TypeOK /\ Places /\ Claims /\ Ran /\ Caught
    BY DEF IInv
  <1>2. PICK x \in {"notify", "look"} :
            /\ pc[w] = "leave" /\ pc' = [pc EXCEPT ![w] = x]
            /\ job' = [job EXCEPT ![on[w]].remaining = @ - 1] /\ on' = [on EXCEPT ![w] = None]
            /\ UNCHANGED <<mutex, closing, idle, queue, wakes, index, fans, spurious>>
    BY DEF Leave, Go
  <1>3. PICK c \in Callers : c = on[w]
    BY <1>1, <1>2 DEF Places, TypeOK
  <1>4. w \in Threads /\ w \notin Callers /\ c # None
    BY <1>1, MineFacts
  <1>5. w \in On(c) /\ pc[c] \notin {"return", "out"}
    BY <1>3 DEF On, IInv, JobOutlivesUse
  <1>6. job[c].remaining = Cardinality(On(c)) + (IF Shares(c) THEN 1 ELSE 0)
    BY <1>5 DEF IInv, Counted
  <1>7. Cardinality(On(c) \ {w}) = Cardinality(On(c)) - 1 /\ Cardinality(On(c) \ {w}) \in Nat
    <2>1. IsFiniteSet(On(c)) /\ IsFiniteSet(On(c) \ {w})
      BY CountFacts, FS_Subset
    <2>2. QED
      BY <2>1, <1>5, FS_RemoveElement, FS_CardinalityType
  <1>8. job[c].remaining > 0
    BY <1>6, <1>7, CountFacts DEF Shares
  <1>9. job' = [job EXCEPT ![c] = LeftBy(job[c])]
    BY <1>2, <1>3 DEF LeftBy
  <1>10. /\ job' \in [Callers -> Job]
         /\ job'[c].remaining = job[c].remaining - 1
         /\ \A d \in Callers :
              /\ d # c => job'[d] = job[d]
              /\ job'[d].enlisted = job[d].enlisted
              /\ job'[d].n = job[d].n /\ job'[d].cursor = job[d].cursor
              /\ job'[d].ran = job[d].ran /\ job'[d].aborted = job[d].aborted
              /\ job'[d].thrown = job[d].thrown /\ job'[d].eptr = job[d].eptr
    BY <1>1, <1>8, <1>9, ShareGiven
  <1>11. /\ pc'[w] = x /\ \A t \in Threads : t # w => pc'[t] = pc[t]
         /\ \A d \in Callers : pc'[d] = pc[d]
    BY <1>1, <1>2, <1>4 DEF TypeOK, Threads
  <1>12. on'[w] = None /\ \A v \in Workers : v # w => on'[v] = on[v]
    BY <1>1, <1>2 DEF TypeOK
  <1>13. TypeOK'
    BY <1>1, <1>2, <1>4, <1>10 DEF TypeOK
  <1>14. Places'
    BY <1>1, <1>2, <1>4, <1>11, <1>12 DEF Places, Threads
  <1>15. IdleCount'
    <2>1. \A v \in Workers : v # w => pc'[v] = pc[v]
      BY <1>11 DEF Threads
    <2>2. QED
      BY <2>1, <1>2, <1>11, IdleKept DEF IInv
  <1>16. Listed'
    <2>1. Range(queue)' = Range(queue)
      BY <1>2 DEF Range
    <2>2. QED
      BY <2>1, <1>2, <1>10, <1>11 DEF IInv, Listed, Shares
  <1>17. JobOutlivesUse' /\ Alone'
    BY <1>2, <1>4, <1>10, <1>11, <1>12, MineFacts, <1>1 DEF IInv, JobOutlivesUse, Alone
  <1>18. Counted'
    <2>1. On(c)' = On(c) \ {w}
      BY <1>4, <1>12 DEF On
    <2>2. \A d \in Callers : d # c => On(d)' = On(d)
      BY <1>3, <1>12, MineFacts, <1>1 DEF On
    <2>3. ASSUME NEW d \in Callers, pc'[d] \notin {"return", "out"}
          PROVE  job'[d].remaining = Cardinality(On(d)') + (IF Shares(d)' THEN 1 ELSE 0)
      <3>1. Shares(d)' <=> Shares(d)
        BY <1>11 DEF Shares
      <3>2. job[d].remaining = Cardinality(On(d)) + (IF Shares(d) THEN 1 ELSE 0)
        BY <1>11, <2>3 DEF IInv, Counted
      <3>3. CASE d = c
        <4>1. CASE Shares(c)
          BY <4>1, <3>1, <3>2, <3>3, <2>1, <1>7, <1>10, CountFacts
        <4>2. CASE ~Shares(c)
          BY <4>2, <3>1, <3>2, <3>3, <2>1, <1>7, <1>10, CountFacts
        <4>3. QED
          BY <4>1, <4>2
      <3>4. CASE d # c
        BY <3>1, <3>2, <3>4, <2>2, <1>10
      <3>5. QED
        BY <3>3, <3>4
    <2>4. QED
      BY <2>3 DEF Counted
  <1>19. Claims' /\ Ran' /\ Caught'
    <2>1. \A t \in Threads : /\ pc'[t] = "task" <=> pc[t] = "task"
                             /\ pc'[t] = "run" <=> pc[t] = "run"
      BY <1>2, <1>11
    <2>2. \A t \in Threads : Busy(t) => index'[t] = index[t] /\ Mine(t)' = Mine(t)
      BY <1>2, <1>12 DEF Busy, Mine
    <2>3. QED
      BY <1>1, <1>10, <2>1, <2>2, IndicesKept, BusyFacts
  <1>20. AllClaimed'
    BY <1>10, <1>11 DEF IInv, AllClaimed
  <1>21. QED
    BY <1>13, <1>14, <1>15, <1>16, <1>17, <1>18, <1>19, <1>20 DEF IInv

\* Taking a job out of the list takes out that job and no other.
LEMMA UnlinkedFacts ==
  ASSUME TypeOK, Listed, NEW c \in Callers, c \in Range(queue), queue' = Unlinked(c)
  PROVE  /\ queue' \in Seq(Callers)
         /\ \A d : d \in Range(queue)' <=> d \in Range(queue) /\ d # c
         /\ \A k, l \in DOMAIN queue' : queue'[k] = queue'[l] => k = l
  <1>1. queue \in Seq(Callers) /\ DOMAIN queue = 1 .. Len(queue) /\ Len(queue) \in Nat
    BY DEF TypeOK
  <1> DEFINE p == CHOOSE k \in DOMAIN queue : queue[k] = c
  <1>2. p \in DOMAIN queue /\ queue[p] = c
    BY DEF Range
  <1>3. PICK q \in DOMAIN queue : q = p
    BY <1>2
  <1>4. queue' = [k \in 1 .. Len(queue) - 1 |-> queue[IF k < q THEN k ELSE k + 1]]
    BY <1>3 DEF Unlinked
  <1>5. queue[q] = c
    BY <1>2, <1>3
  <1> HIDE DEF p
  <1>6. Len(queue) >= 1
    BY <1>1, <1>3
  <1>7. /\ DOMAIN queue' = 1 .. Len(queue) - 1
        /\ \A k \in 1 .. Len(queue) - 1 : queue'[k] = queue[IF k < q THEN k ELSE k + 1]
    BY <1>4
  <1>8. queue' \in Seq(Callers)
    <2>1. \A k \in 1 .. Len(queue) - 1 : queue'[k] \in Callers
      BY <1>1, <1>3, <1>7
    <2>2. Len(queue) - 1 \in Nat
      BY <1>1, <1>6
    <2>3. queue' \in [1 .. Len(queue) - 1 -> Callers]
      BY <1>4, <2>1
    <2>4. QED
      BY <2>2, <2>3, SeqDef
  <1>9. ASSUME NEW d, d \in Range(queue)'
        PROVE  d \in Range(queue) /\ d # c
    <2>1. PICK k \in 1 .. Len(queue) - 1 : d = queue'[k]
      BY <1>7, <1>9 DEF Range
    <2>2. PICK m \in 1 .. Len(queue) : m # q /\ d = queue[m]
      BY <2>1, <1>1, <1>3, <1>7
    <2>3. QED
      BY <2>2, <1>1, <1>5 DEF Range, Listed
  <1>10. ASSUME NEW d, d \in Range(queue), d # c
         PROVE  d \in Range(queue)'
    <2>1. PICK m \in 1 .. Len(queue) : d = queue[m]
      BY <1>1, <1>10 DEF Range
    <2>2. m # q
      BY <2>1, <1>5, <1>10
    <2>3. PICK k \in 1 .. Len(queue) - 1 : m = IF k < q THEN k ELSE k + 1
      <3>1. CASE m < q
        BY <3>1, <2>1, <1>1, <1>3
      <3>2. CASE m > q
        <4>1. m - 1 \in 1 .. Len(queue) - 1 /\ ~(m - 1 < q) /\ m = (m - 1) + 1
          BY <3>2, <2>1, <1>1, <1>3
        <4>2. QED
          BY <4>1
      <3>3. QED
        BY <3>1, <3>2, <2>1, <2>2, <1>1, <1>3
    <2>4. queue'[k] = d
      BY <2>1, <2>3, <1>7
    <2>5. QED
      BY <2>4, <1>7 DEF Range
  <1>11. ASSUME NEW k \in 1 .. Len(queue) - 1, NEW l \in 1 .. Len(queue) - 1, queue'[k] = queue'[l]
         PROVE  k = l
    <2>1. PICK m \in 1 .. Len(queue), o \in 1 .. Len(queue) :
              /\ m = IF k < q THEN k ELSE k + 1
              /\ o = IF l < q THEN l ELSE l + 1
      BY <1>1, <1>3
    <2>2. queue[m] = queue[o]
      BY <2>1, <1>7, <1>11
    <2>3. m = o
      BY <2>2, <1>1 DEF Listed
    <2>4. QED
      BY <2>1, <2>3, <1>1, <1>3
  <1>12. QED
    BY <1>7, <1>8, <1>9, <1>10, <1>11

\* The caller gives up its share: no worker is on the job if that was the last.
LEMMA CallerJoinKeeps ==
  ASSUME IInv, NEW c \in Callers, Join(c)
  PROVE  IInv'
  <1>1. TypeOK /\ Places /\ Claims /\ Ran /\ Caught /\ Listed
    BY DEF IInv
  <1>2. pc[c] = "join" /\ queue' = Unlinked(c)
        /\ job' = [job EXCEPT ![c].remaining = @ - 1]
        /\ UNCHANGED <<closing, idle, wakes, on, index, fans, spurious>>
    BY DEF Join
  <1>3. PICK x \in {"return", "check"} :
            /\ pc' = [pc EXCEPT ![c] = x] /\ mutex' \in {mutex, c}
            /\ x = "return" => job[c].remaining = 1
    BY DEF Join, Go
  <1>4. c \in Threads /\ Shares(c)
    BY <1>1, <1>2, MineFacts DEF Shares
  <1>5. job[c].remaining = Cardinality(On(c)) + 1
    BY <1>2, <1>4 DEF IInv, Counted
  <1>6. job[c].remaining > 0
    BY <1>5, CountFacts
  <1>7. job' = [job EXCEPT ![c] = LeftBy(job[c])]
    BY <1>2 DEF LeftBy
  <1>8. /\ job' \in [Callers -> Job]
        /\ job'[c].remaining = job[c].remaining - 1
        /\ \A d \in Callers :
             /\ d # c => job'[d] = job[d]
             /\ job'[d].enlisted = job[d].enlisted
             /\ job'[d].n = job[d].n /\ job'[d].cursor = job[d].cursor
             /\ job'[d].ran = job[d].ran /\ job'[d].aborted = job[d].aborted
             /\ job'[d].thrown = job[d].thrown /\ job'[d].eptr = job[d].eptr
    BY <1>1, <1>6, <1>7, ShareGiven
  <1>9. /\ pc'[c] = x /\ \A t \in Threads : t # c => pc'[t] = pc[t]
        /\ \A d \in Callers : d # c => pc'[d] = pc[d]
        /\ \A w \in Workers : pc'[w] = pc[w]
    <2>1. pc'[c] = x /\ \A t \in Threads : t # c => pc'[t] = pc[t]
      BY <1>1, <1>3, <1>4 DEF TypeOK
    <2>2. QED
      BY <2>1, <1>1, MineFacts
  \* A posted job: one that isn't goes from its last index straight to its end.
  <1>10. job[c].enlisted > 0
    BY <1>1, <1>2 DEF IInv, AllClaimed
  <1>11. c \in Range(queue)
    BY <1>1, <1>4, <1>10 DEF Listed
  <1>12. /\ queue' \in Seq(Callers)
         /\ \A d : d \in Range(queue)' <=> d \in Range(queue) /\ d # c
         /\ \A k, l \in DOMAIN queue' : queue'[k] = queue'[l] => k = l
    BY <1>1, <1>2, <1>11, UnlinkedFacts
  <1>13. TypeOK'
    BY <1>1, <1>2, <1>3, <1>4, <1>8, <1>12 DEF TypeOK
  <1>14. Places'
    <2>1. closing = "open" /\ ~(wakes[c] > 0)
      BY <1>1, <1>2 DEF Places
    <2>2. QED
      BY <2>1, <1>1, <1>2, <1>9 DEF Places
  <1>15. IdleCount'
    BY <1>2, <1>9, IdleKept DEF IInv
  <1>16. Listed'
    <2>1. ~Shares(c)'
      BY <1>9 DEF Shares
    <2>2. \A d \in Callers : d # c => (Shares(d)' <=> Shares(d))
      BY <1>9 DEF Shares
    <2>3. QED
      BY <2>1, <2>2, <1>1, <1>8, <1>12 DEF Listed
  <1>17. \A d : On(d)' = On(d)
    BY <1>2 DEF On
  <1>18. Counted'
    <2>1. ASSUME NEW d \in Callers, pc'[d] \notin {"return", "out"}
          PROVE  job'[d].remaining = Cardinality(On(d)') + (IF Shares(d)' THEN 1 ELSE 0)
      <3>1. CASE d = c
        <4>1. ~Shares(c)'
          BY <1>9 DEF Shares
        <4>2. QED
          BY <4>1, <3>1, <1>5, <1>8, <1>17, CountFacts
      <3>2. CASE d # c
        <4>1. pc'[d] = pc[d] /\ (Shares(d)' <=> Shares(d))
          BY <3>2, <1>9 DEF Shares
        <4>2. job[d].remaining = Cardinality(On(d)) + (IF Shares(d) THEN 1 ELSE 0)
          BY <4>1, <2>1 DEF IInv, Counted
        <4>3. QED
          BY <4>1, <4>2, <3>2, <1>8, <1>17
      <3>3. QED
        BY <3>1, <3>2
    <2>2. QED
      BY <2>1 DEF Counted
  <1>19. JobOutlivesUse'
    <2>1. ASSUME NEW d \in Callers, pc'[d] \in {"return", "out"}
          PROVE  (\A w \in Workers : on[w] # d) /\ d \notin Range(queue)'
      <3>1. CASE d = c
        <4>1. On(c) = {}
          <5>1. Cardinality(On(c)) = 0
            BY <3>1, <2>1, <1>3, <1>5, <1>9, CountFacts
          <5>2. QED
            BY <5>1, CountFacts, FS_EmptySet
        <4>2. QED
          BY <4>1, <3>1, <1>12 DEF On
      <3>2. CASE d # c
        <4>1. \A k \in DOMAIN queue : queue[k] # d
          BY <3>2, <2>1, <1>9 DEF IInv, JobOutlivesUse
        <4>2. d \notin Range(queue)
          BY <4>1 DEF Range
        <4>3. QED
          BY <4>2, <3>2, <2>1, <1>9, <1>12 DEF IInv, JobOutlivesUse
      <3>3. QED
        BY <3>1, <3>2
    <2>2. ASSUME NEW d \in Callers, d \notin Range(queue)'
          PROVE  \A k \in DOMAIN queue' : queue'[k] # d
      BY <2>2 DEF Range
    <2>3. QED
      BY <2>1, <2>2, <1>2 DEF JobOutlivesUse
  <1>20. Alone'
    BY <1>2, <1>8 DEF IInv, Alone
  <1>21. Claims' /\ Ran' /\ Caught'
    <2>1. \A t \in Threads : /\ pc'[t] = "task" <=> pc[t] = "task"
                             /\ pc'[t] = "run" <=> pc[t] = "run"
      BY <1>2, <1>3, <1>9
    <2>2. \A t \in Threads : index'[t] = index[t] /\ Mine(t)' = Mine(t)
      BY <1>2 DEF Mine
    <2>3. QED
      BY <1>1, <1>8, <2>1, <2>2, IndicesKept, BusyFacts
  <1>22. AllClaimed'
    BY <1>2, <1>3, <1>8, <1>9, <1>10 DEF IInv, AllClaimed
  <1>23. QED
    BY <1>13, <1>14, <1>15, <1>16, <1>18, <1>19, <1>20, <1>21, <1>22 DEF IInv

\* The wait is over.
LEMMA DrainedKeeps ==
  ASSUME IInv, NEW c \in Callers, Check(c), Drained(c)
  PROVE  IInv'
  <1>1. TypeOK /\ Places /\ Claims /\ Ran /\ Caught /\ Listed
    BY DEF IInv
  <1>2. /\ pc[c] = "check" /\ pc' = [pc EXCEPT ![c] = "return"] /\ mutex' = None
        /\ UNCHANGED <<closing, idle, queue, job, wakes, on, index, fans, spurious>>
    BY DEF Check, Go
  <1>3. c \in Threads /\ ~Shares(c)
    BY <1>1, <1>2, MineFacts DEF Shares
  <1>4. On(c) = {}
    <2>1. job[c].remaining = Cardinality(On(c)) /\ job[c].remaining = 0
      BY <1>2, <1>3, CountFacts DEF IInv, Counted, Drained
    <2>2. QED
      BY <2>1, CountFacts, FS_EmptySet
  <1>5. /\ pc'[c] = "return"
        /\ \A t \in Threads : t # c => pc'[t] = pc[t]
        /\ \A d \in Callers : d # c => pc'[d] = pc[d]
        /\ \A w \in Workers : pc'[w] = pc[w]
    <2>1. pc'[c] = "return" /\ \A t \in Threads : t # c => pc'[t] = pc[t]
      BY <1>1, <1>2, <1>3 DEF TypeOK
    <2>2. QED
      BY <2>1, <1>1, MineFacts
  <1>6. TypeOK'
    BY <1>1, <1>2, <1>3 DEF TypeOK
  <1>7. Places'
    <2>1. closing = "open" /\ ~(wakes[c] > 0)
      BY <1>1, <1>2 DEF Places
    <2>2. QED
      BY <2>1, <1>1, <1>2, <1>5 DEF Places
  <1>8. IdleCount'
    BY <1>2, <1>5, IdleKept DEF IInv
  <1>9. \A d \in Callers : Shares(d)' <=> Shares(d)
    BY <1>2, <1>5 DEF Shares
  <1>10. Listed'
    BY <1>1, <1>2, <1>9 DEF Listed, Range
  <1>11. Counted'
    <2>1. \A d : On(d)' = On(d)
      BY <1>2 DEF On
    <2>2. \A d \in Callers : pc'[d] \notin {"return", "out"} => pc[d] \notin {"return", "out"}
      BY <1>2, <1>5
    <2>3. QED
      BY <2>1, <2>2, <1>2, <1>9 DEF IInv, Counted
  <1>12. JobOutlivesUse'
    <2>1. c \notin Range(queue)
      BY <1>1, <1>3 DEF Listed
    <2>2. \A k \in DOMAIN queue : queue[k] # c
      BY <2>1 DEF Range
    <2>3. \A w \in Workers : on[w] # c
      BY <1>4 DEF On
    <2>4. QED
      BY <2>2, <2>3, <1>2, <1>5 DEF IInv, JobOutlivesUse
  <1>13. Alone'
    BY <1>2 DEF IInv, Alone
  <1>14. Claims' /\ Ran' /\ Caught'
    <2>1. \A t \in Threads : /\ pc'[t] = "task" <=> pc[t] = "task"
                             /\ pc'[t] = "run" <=> pc[t] = "run"
      BY <1>2, <1>5
    <2>2. \A t \in Threads : index'[t] = index[t] /\ Mine(t)' = Mine(t)
      BY <1>2 DEF Mine
    <2>3. QED
      BY <1>1, <1>2, <2>1, <2>2, IndicesKept, BusyFacts
  <1>15. AllClaimed'
    BY <1>2, <1>5 DEF IInv, AllClaimed
  <1>16. QED
    BY <1>6, <1>7, <1>8, <1>10, <1>11, <1>12, <1>13, <1>14, <1>15 DEF IInv

\* A job no thread is at is replaced by one of which no index has been claimed.
LEMMA JobReplaced ==
  ASSUME IInv, NEW c \in Callers, pc[c] \in {"out", "return"}, NEW r \in Job,
         job' = [job EXCEPT ![c] = r], r.cursor = 0, \A i \in Indices : r.ran[i] = 0,
         ~r.aborted, r.eptr = None, r.thrown = << >>,
         NEW x \in {"out", "claim", "wake"}, pc' = [pc EXCEPT ![c] = x],
         UNCHANGED <<closing, idle, on, index>>
  PROVE  /\ job' \in [Callers -> Job] /\ job'[c] = r
         /\ \A d \in Callers : d # c => job'[d] = job[d] /\ pc'[d] = pc[d]
         /\ pc'[c] = x /\ \A w \in Workers : pc'[w] = pc[w] /\ on'[w] # c
         /\ IdleCount' /\ Alone' /\ Claims' /\ Ran' /\ Caught' /\ AllClaimed'
  <1>1. TypeOK /\ Places /\ Claims /\ Ran /\ Caught
    BY DEF IInv
  <1>2. /\ job' \in [Callers -> Job] /\ job'[c] = r
        /\ \A d \in Callers : d # c => job'[d] = job[d]
    BY <1>1, JobUpdated
  <1>3. c \in Threads
    BY <1>1, MineFacts
  <1>4. pc'[c] = x /\ \A t \in Threads : t # c => pc'[t] = pc[t]
    BY <1>1, <1>3 DEF TypeOK
  <1>5. /\ \A d \in Callers : d # c => pc'[d] = pc[d]
        /\ \A w \in Workers : pc'[w] = pc[w]
    BY <1>1, <1>4, MineFacts
  <1>6. \A w \in Workers : on[w] # c
    BY DEF IInv, JobOutlivesUse
  <1>7. \A w \in Workers : on'[w] # c
    BY <1>6
  <1>8. IdleCount'
    BY <1>5, IdleKept DEF IInv
  <1>9. Alone'
    BY <1>2, <1>7 DEF IInv, Alone
  <1>10. \A t \in Threads : Mine(t)' = Mine(t) /\ index'[t] = index[t]
    BY DEF Mine
  <1>11. \A t \in Threads : Busy(t)' => /\ Busy(t) /\ pc'[t] = pc[t]
                                        /\ Mine(t) \in Callers /\ Mine(t) # c
    <2>1. ASSUME NEW t \in Threads, Busy(t)'
          PROVE  Busy(t) /\ pc'[t] = pc[t] /\ Mine(t) \in Callers /\ Mine(t) # c
      <3>1. t # c /\ pc'[t] = pc[t] /\ Busy(t)
        BY <2>1, <1>4 DEF Busy
      <3>2. Mine(t) \in Callers
        BY <3>1, <1>1, BusyFacts
      <3>3. Mine(t) # c
        BY <3>1, <1>6 DEF Mine
      <3>4. QED
        BY <3>1, <3>2, <3>3
    <2>2. QED
      BY <2>1
  <1>12. Claims'
    <2>1. ASSUME NEW t \in Threads, Busy(t)'
          PROVE  /\ index'[t] < job'[Mine(t)'].n /\ index'[t] < job'[Mine(t)'].cursor
                 /\ job'[Mine(t)'].ran[index'[t]] = IF pc'[t] = "task" THEN 0 ELSE 1
      <3>1. /\ Busy(t) /\ pc'[t] = pc[t] /\ Mine(t)' = Mine(t) /\ index'[t] = index[t]
            /\ job'[Mine(t)] = job[Mine(t)]
        BY <2>1, <1>2, <1>10, <1>11
      <3>2. /\ index[t] < job[Mine(t)].n /\ index[t] < job[Mine(t)].cursor
            /\ job[Mine(t)].ran[index[t]] = IF pc[t] = "task" THEN 0 ELSE 1
        BY <3>1, <1>1 DEF Claims
      <3>3. QED
        BY <3>1, <3>2
    <2>2. ASSUME NEW u \in Threads, NEW v \in Threads, u # v, Busy(u)', Busy(v)',
                 Mine(u)' = Mine(v)'
          PROVE  index'[u] # index'[v]
      BY <2>2, <1>1, <1>10, <1>11 DEF Claims
    <2>3. QED
      BY <2>1, <2>2 DEF Claims
  <1>13. Ran'
    <2>1. \A d \in Callers : d # c => \A k \in Indices : Begins(d, k) => Begins(d, k)'
      <3>1. \A t \in Threads : pc[t] = "task" => pc'[t] = "task"
        BY <1>4
      <3>2. QED
        BY <3>1, <1>10 DEF Begins
    <2>2. ASSUME NEW k \in Indices
          PROVE  /\ job'[c].ran[k] \in {0, 1}
                 /\ k >= job'[c].cursor => job'[c].ran[k] = 0
                 /\ ~(k < job'[c].cursor)
      BY <1>2 DEF Indices
    <2>3. ASSUME NEW d \in Callers, d # c, NEW k \in Indices
          PROVE  /\ job'[d].ran[k] \in {0, 1}
                 /\ k >= job'[d].cursor => job'[d].ran[k] = 0
                 /\ ~job'[d].aborted /\ k < job'[d].n /\ k < job'[d].cursor =>
                        job'[d].ran[k] = 1 \/ Begins(d, k)'
      BY <2>1, <2>3, <1>1, <1>2 DEF Ran
    <2>4. QED
      BY <2>2, <2>3 DEF Ran
  <1>14. Caught'
    BY <1>1, <1>2 DEF Caught
  <1>15. AllClaimed'
    BY <1>2, <1>4, <1>5 DEF IInv, AllClaimed
  <1>16. QED
    BY <1>2, <1>4, <1>5, <1>7, <1>8, <1>9, <1>12, <1>13, <1>14, <1>15

LEMMA ReturnKeeps ==
  ASSUME IInv, NEW c \in Callers, Return(c)
  PROVE  IInv'
  <1>1. TypeOK /\ Places /\ Listed
    BY DEF IInv
  <1>2. /\ pc[c] = "return" /\ job' = [job EXCEPT ![c] = NoJob] /\ pc' = [pc EXCEPT ![c] = "out"]
        /\ UNCHANGED <<mutex, closing, idle, queue, wakes, on, index, fans, spurious>>
    BY DEF Return, Go
  <1>3. /\ job' \in [Callers -> Job] /\ job'[c] = NoJob
        /\ \A d \in Callers : d # c => job'[d] = job[d] /\ pc'[d] = pc[d]
        /\ pc'[c] = "out" /\ \A w \in Workers : pc'[w] = pc[w] /\ on'[w] # c
        /\ IdleCount' /\ Alone' /\ Claims' /\ Ran' /\ Caught' /\ AllClaimed'
    BY <1>2, NoJobFacts, JobReplaced
  <1>4. TypeOK'
    BY <1>1, <1>2, <1>3, MineFacts DEF TypeOK
  <1>5. Places'
    <2>1. closing = "open" /\ ~(wakes[c] > 0)
      BY <1>1, <1>2 DEF Places
    <2>2. QED
      BY <2>1, <1>1, <1>2, <1>3 DEF Places
  <1>6. ~Shares(c) /\ ~Shares(c)' /\ \A d \in Callers : d # c => (Shares(d)' <=> Shares(d))
    BY <1>2, <1>3 DEF Shares
  <1>7. Listed'
    <2>1. Range(queue)' = Range(queue)
      BY <1>2 DEF Range
    <2>2. \A d \in Callers : d \in Range(queue)' <=> Shares(d)' /\ job'[d].enlisted > 0
      <3>1. ASSUME NEW d \in Callers
            PROVE  d \in Range(queue)' <=> Shares(d)' /\ job'[d].enlisted > 0
        <4>1. d \in Range(queue) <=> Shares(d) /\ job[d].enlisted > 0
          BY <1>1 DEF Listed
        <4>2. CASE d = c
          BY <4>1, <4>2, <2>1, <1>6
        <4>3. CASE d # c
          BY <4>1, <4>3, <2>1, <1>3, <1>6
        <4>4. QED
          BY <4>2, <4>3
      <3>2. QED
        BY <3>1
    <2>3. QED
      BY <2>2, <1>1, <1>2 DEF Listed
  <1>8. Counted'
    <2>1. \A d : On(d)' = On(d)
      BY <1>2 DEF On
    <2>2. QED
      BY <2>1, <1>3, <1>6 DEF IInv, Counted
  <1>9. JobOutlivesUse'
    BY <1>2, <1>3 DEF IInv, JobOutlivesUse
  <1>10. QED
    BY <1>3, <1>4, <1>5, <1>7, <1>8, <1>9 DEF IInv

LEMMA PostKeeps ==
  ASSUME IInv, NEW c \in Callers, NEW n \in 1 .. MaxN, NEW e \in 0 .. n - 1, Post(c, n, e)
  PROVE  IInv'
  <1>1. TypeOK /\ Places /\ Listed
    BY DEF IInv
  <1>2. e \in Nat /\ n \in Nat
    BY LimitsAssumption
  <1>3. PICK x \in {"claim", "wake"} :
            /\ pc[c] = "out" /\ closing = "open" /\ fans[c] # << >>
            /\ fans' = [fans EXCEPT ![c] = Tail(fans[c])]
            /\ job' = [job EXCEPT ![c] = NewJob(n, e)]
            /\ pc' = [pc EXCEPT ![c] = x]
            /\ UNCHANGED <<mutex, closing, idle, on, index, spurious>>
            /\ \/ e = 0 /\ x = "claim" /\ UNCHANGED <<queue, wakes>>
               \/ /\ e > 0 /\ queue' = Append(queue, c)
                  /\ wakes' = [wakes EXCEPT ![c] = Wakes(e)]
                  /\ x = IF Wakes(e) = 0 THEN "claim" ELSE "wake"
    BY DEF Post, Go
  <1> DEFINE r == NewJob(n, e)
  <1>4. /\ r \in Job
        /\ r.n = n /\ r.cursor = 0 /\ r.enlisted = e /\ r.joined = 0 /\ r.remaining = 1
        /\ ~r.aborted /\ r.eptr = None /\ r.thrown = << >>
        /\ \A i \in Indices : r.ran[i] = 0
    BY <1>2, NewJobFacts
  <1> HIDE DEF r
  <1>5. job' = [job EXCEPT ![c] = r]
    BY <1>3 DEF r
  <1>6. /\ job' \in [Callers -> Job] /\ job'[c] = r
        /\ \A d \in Callers : d # c => job'[d] = job[d] /\ pc'[d] = pc[d]
        /\ pc'[c] = x /\ \A w \in Workers : pc'[w] = pc[w] /\ on'[w] # c
        /\ IdleCount' /\ Alone' /\ Claims' /\ Ran' /\ Caught' /\ AllClaimed'
    BY <1>3, <1>4, <1>5, JobReplaced
  <1>7. queue \in Seq(Callers) /\ wakes \in [Callers -> Nat] /\ wakes[c] = 0
    BY <1>1, <1>3 DEF TypeOK, Places
  <1>8. Wakes(e) \in Nat
    BY <1>1, <1>2 DEF TypeOK, Wakes
  <1>9. /\ queue' \in Seq(Callers) /\ wakes' \in [Callers -> Nat]
        /\ x = "wake" <=> wakes'[c] > 0
        /\ \A d \in Callers : d # c => wakes'[d] = wakes[d]
    <2>1. CASE e = 0
      BY <2>1, <1>3, <1>7
    <2>2. CASE e > 0
      <3>1. queue' = Append(queue, c) /\ wakes' = [wakes EXCEPT ![c] = Wakes(e)]
            /\ x = IF Wakes(e) = 0 THEN "claim" ELSE "wake"
        BY <2>2, <1>2, <1>3
      <3>2. queue' \in Seq(Callers)
        BY <3>1, <1>7
      <3>3. wakes' \in [Callers -> Nat] /\ wakes'[c] = Wakes(e)
            /\ \A d \in Callers : d # c => wakes'[d] = wakes[d]
        BY <3>1, <1>7, <1>8
      <3>4. x = "wake" <=> wakes'[c] > 0
        BY <3>1, <3>3, <1>8
      <3>5. QED
        BY <3>2, <3>3, <3>4
    <2>3. QED
      BY <2>1, <2>2, <1>2
  <1>10. fans' \in [Callers -> Seq(1 .. MaxN)]
    <2>1. fans[c] \in Seq(1 .. MaxN) /\ fans \in [Callers -> Seq(1 .. MaxN)]
      BY <1>1 DEF TypeOK
    <2>2. Tail(fans[c]) \in Seq(1 .. MaxN)
      BY <2>1, <1>3, HeadTailProperties
    <2>3. QED
      BY <2>1, <2>2, <1>3
  <1>11. TypeOK'
    BY <1>1, <1>3, <1>6, <1>9, <1>10, MineFacts DEF TypeOK
  <1>12. Places'
    BY <1>1, <1>3, <1>6, <1>9 DEF Places
  <1>13. ~Shares(c) /\ Shares(c)' /\ \A d \in Callers : d # c => (Shares(d)' <=> Shares(d))
    BY <1>3, <1>6 DEF Shares
  <1>14. c \notin Range(queue)
    BY <1>1, <1>13 DEF Listed
  <1>15. /\ \A d : d \in Range(queue)' <=> d \in Range(queue) \/ (d = c /\ e > 0)
         /\ \A k, l \in DOMAIN queue' : queue'[k] = queue'[l] => k = l
    <2>1. CASE e = 0
      BY <2>1, <1>1, <1>3 DEF Listed, Range
    <2>2. CASE e > 0
      <3>1. queue' = Append(queue, c)
        BY <2>2, <1>3
      <3>2. /\ DOMAIN queue = 1 .. Len(queue) /\ Len(queue) \in Nat
            /\ DOMAIN queue' = 1 .. Len(queue) + 1 /\ queue'[Len(queue) + 1] = c
            /\ \A k \in 1 .. Len(queue) : queue'[k] = queue[k]
        BY <3>1, <1>7
      <3>3. \A k \in 1 .. Len(queue) : queue[k] # c
        BY <3>2, <1>14 DEF Range
      <3>4. ASSUME NEW d
            PROVE  d \in Range(queue)' <=> d \in Range(queue) \/ d = c
        <4>1. ASSUME NEW k \in 1 .. Len(queue) + 1, d = queue'[k]
              PROVE  d \in Range(queue) \/ d = c
          <5>1. CASE k = Len(queue) + 1
            BY <5>1, <4>1, <3>2
          <5>2. CASE k # Len(queue) + 1
            BY <5>2, <4>1, <3>2 DEF Range
          <5>3. QED
            BY <5>1, <5>2
        <4>2. Len(queue) + 1 \in DOMAIN queue' /\ \A k \in DOMAIN queue : k \in DOMAIN queue'
          BY <3>2
        <4>3. d \in Range(queue) \/ d = c => d \in Range(queue)'
          BY <4>2, <3>2 DEF Range
        <4>4. QED
          BY <4>1, <4>3, <3>2 DEF Range
      <3>5. \A k, l \in DOMAIN queue' : queue'[k] = queue'[l] => k = l
        <4>1. ASSUME NEW k \in 1 .. Len(queue) + 1, NEW l \in 1 .. Len(queue) + 1,
                     queue'[k] = queue'[l]
              PROVE  k = l
          <5>1. CASE k = Len(queue) + 1 \/ l = Len(queue) + 1
            BY <5>1, <4>1, <3>2, <3>3
          <5>2. CASE k # Len(queue) + 1 /\ l # Len(queue) + 1
            BY <5>2, <4>1, <3>2, <1>1 DEF Listed
          <5>3. QED
            BY <5>1, <5>2
        <4>2. QED
          BY <4>1, <3>2
      <3>6. QED
        BY <2>2, <3>4, <3>5
    <2>3. QED
      BY <2>1, <2>2, <1>2
  <1>16. Listed'
    <2>1. ASSUME NEW d \in Callers
          PROVE  d \in Range(queue)' <=> Shares(d)' /\ job'[d].enlisted > 0
      <3>1. CASE d = c
        BY <3>1, <1>4, <1>6, <1>13, <1>14, <1>15
      <3>2. CASE d # c
        BY <3>2, <1>1, <1>6, <1>13, <1>15 DEF Listed
      <3>3. QED
        BY <3>1, <3>2
    <2>2. QED
      BY <2>1, <1>15 DEF Listed
  <1>17. \A d : On(d)' = On(d)
    BY <1>3 DEF On
  <1>18. Counted'
    <2>1. ASSUME NEW d \in Callers, pc'[d] \notin {"return", "out"}
          PROVE  job'[d].remaining = Cardinality(On(d)') + (IF Shares(d)' THEN 1 ELSE 0)
      <3>1. CASE d = c
        <4>1. On(c) = {}
          BY <1>3, <1>6 DEF On
        <4>2. Cardinality(On(c)) = 0
          BY <4>1, FS_EmptySet
        <4>3. QED
          BY <4>2, <3>1, <1>4, <1>6, <1>13, <1>17
      <3>2. CASE d # c
        <4>1. job[d].remaining = Cardinality(On(d)) + (IF Shares(d) THEN 1 ELSE 0)
          BY <3>2, <2>1, <1>6 DEF IInv, Counted
        <4>2. QED
          BY <4>1, <3>2, <1>6, <1>13, <1>17
      <3>3. QED
        BY <3>1, <3>2
    <2>2. QED
      BY <2>1 DEF Counted
  <1>19. JobOutlivesUse'
    <2>1. ASSUME NEW d \in Callers, pc'[d] \in {"return", "out"}
          PROVE  (\A w \in Workers : on'[w] # d) /\ \A k \in DOMAIN queue' : queue'[k] # d
      <3>1. d # c /\ pc[d] \in {"return", "out"}
        BY <2>1, <1>3, <1>6
      <3>2. (\A w \in Workers : on[w] # d) /\ d \notin Range(queue)
        BY <3>1 DEF IInv, JobOutlivesUse, Range
      <3>3. d \notin Range(queue)'
        BY <3>1, <3>2, <1>15
      <3>4. QED
        BY <3>2, <3>3, <1>3 DEF Range
    <2>2. QED
      BY <2>1 DEF JobOutlivesUse
  <1>20. QED
    BY <1>6, <1>11, <1>12, <1>16, <1>18, <1>19 DEF IInv

-----------------------------------------------------------------------------

LEMMA RunKeeps ==
  ASSUME IInv, NEW t \in Threads, RunIndices(t)
  PROVE  IInv'
  <1>1. CASE Claim(t)
    <2>1. PICK c \in Callers : c = Mine(t)
      BY <1>1, BusyFacts DEF IInv, Claim
    <2>2. job[c].cursor \in Nat /\ job[c].n \in Nat
      <3>1. job[c] \in Job
        BY DEF IInv, TypeOK
      <3>2. QED
        BY <3>1, LimitsAssumption DEF Job
    <2>3. QED
      BY <1>1, <2>1, <2>2, ClaimOneKeeps, ClaimNoneKeeps
  <1>2. CASE BeginTask(t)
    BY <1>2, SkipKeeps, BeginKeeps
  <1>3. QED
    BY <1>1, <1>2, EndKeeps, ThrowKeeps DEF RunIndices

LEMMA InvStep == IInv /\ [Next]_vars => IInv'
  <1> SUFFICES ASSUME IInv, [Next]_vars PROVE IInv'
    OBVIOUS
  <1>1. ASSUME NEW w \in Workers, WorkerStep(w) PROVE IInv'
    <2>1. w \in Threads
      BY DEF Threads
    <2>2. QED
      BY <1>1, <2>1, StopKeeps, JoinKeeps, SleepKeeps, RunKeeps, LeaveKeeps, NotifyKeeps
         DEF WorkerStep
  <1>2. ASSUME NEW c \in Callers, CallerStep(c) PROVE IInv'
    <2>1. c \in Threads
      BY DEF Threads
    <2>2. CASE Check(c)
      BY <2>2, WaitKeeps, DrainedKeeps
    <2>3. CASE Block(c) \/ Recheck(c)
      BY <2>3, WaitKeeps
    <2>4. QED
      BY <1>2, <2>1, <2>2, <2>3, WakeOneKeeps, WakeAllKeeps, RunKeeps, CallerJoinKeeps, ReturnKeeps
         DEF CallerStep
  <1>3. ASSUME NEW t \in Threads, Spurious(t) PROVE IInv'
    BY <1>3, SpuriousKeeps
  <1>4. ASSUME NEW c \in Callers, NEW n \in 1 .. MaxN, NEW e \in 0 .. n - 1, Post(c, n, e)
        PROVE  IInv'
    BY <1>4, PostKeeps
  <1>5. CASE SetStop \/ TellAll
    BY <1>5, CloseKeeps
  <1>6. CASE UNCHANGED vars
    <2>1. UNCHANGED <<mutex, closing, idle, queue, job, wakes, pc, on, index, fans, spurious>>
      BY <1>6 DEF vars
    <2>2. TypeOK /\ Places
      BY DEF IInv
    <2>3. /\ pc' \in [Threads -> Pcs] /\ mutex' \in Callers \cup {None}
          /\ closing' \in {"open", "stopping", "told"} /\ wakes' \in [Callers -> Nat]
          /\ spurious' \in Nat
      BY <2>1, <2>2 DEF TypeOK, Pcs
    <2>4. \A c \in Callers : /\ closing' # "open" => pc'[c] = "out"
                             /\ pc'[c] = "wake" <=> wakes'[c] > 0
      BY <2>1, <2>2 DEF Places
    <2>5. QED
      BY <2>1, <2>3, <2>4, SignalKept
  <1>7. QED
    BY <1>1, <1>2, <1>3, <1>4, <1>5, <1>6 DEF Next

LEMMA Inductive == Spec => []IInv
  BY InitInv, InvStep, PTL DEF Spec

-----------------------------------------------------------------------------

\* The state keeps its types: no count of the pool or of a job goes below zero.
THEOREM Typed == Spec => []TypeOK
  <1>1. IInv => TypeOK
    BY DEF IInv
  <1>2. QED
    BY <1>1, Inductive, PTL

\* A job isn't given up while a worker has it or could still find it.
THEOREM JobOutlivesUseHolds == Spec => []JobOutlivesUse
  <1>1. IInv => JobOutlivesUse
    BY DEF IInv
  <1>2. QED
    BY <1>1, Inductive, PTL

\* A fan-out that ends has run each of its indices once, or throws the first
\* exception again.
THEOREM EachIndexOnceHolds == Spec => []EachIndexOnce
  <1>1. IInv => EachIndexOnce
    <2> SUFFICES ASSUME IInv, NEW c \in Callers, pc[c] = "return"
                 PROVE  LET j == job[c] IN
                        IF j.thrown = << >>
                          THEN j.eptr = None /\ \A i \in 0 .. j.n - 1 : j.ran[i] = 1
                          ELSE j.eptr = Head(j.thrown) /\ \A i \in Indices : j.ran[i] <= 1
      BY DEF EachIndexOnce
    <2>1. TypeOK /\ Ran /\ Caught /\ job[c] \in Job
      BY DEF IInv, TypeOK
    <2>2. job[c].cursor >= job[c].n
      BY DEF IInv, AllClaimed
    <2>3. \A i \in Indices : ~Begins(c, i)
      <3>1. \A t \in Threads : Mine(t) = c => t = c
        BY <2>1 DEF Mine, IInv, JobOutlivesUse
      <3>2. QED
        BY <3>1 DEF Begins
    <2>4. CASE job[c].thrown = << >>
      <3>1. job[c].eptr = None /\ ~job[c].aborted
        BY <2>1, <2>4 DEF Caught
      <3>2. ASSUME NEW i \in 0 .. job[c].n - 1
            PROVE  job[c].ran[i] = 1
        <4>1. i \in Indices /\ i < job[c].n /\ i < job[c].cursor
          BY <2>1, <2>2, LimitsAssumption DEF Job, Indices
        <4>2. QED
          BY <4>1, <3>1, <2>1, <2>3 DEF Ran
      <3>3. QED
        BY <2>4, <3>1, <3>2
    <2>5. CASE job[c].thrown # << >>
      <3>1. job[c].eptr = Head(job[c].thrown)
        BY <2>1, <2>5 DEF Caught
      <3>2. \A i \in Indices : job[c].ran[i] <= 1
        BY <2>1 DEF Ran
      <3>3. QED
        BY <2>5, <3>1, <3>2
    <2>6. QED
      BY <2>4, <2>5
  <1>2. QED
    BY <1>1, Inductive, PTL

-----------------------------------------------------------------------------
(* No worker sleeps through work. *)

\* So many places for each of some callers are a finite set of places.
LEMMA PlacesFinite ==
  ASSUME NEW D \in SUBSET Callers, NEW k \in [Callers -> Int]
  PROVE  IsFiniteSet(UNION {{c} \X (1 .. k[c]) : c \in D})
  <1> DEFINE f == [c \in D |-> {c} \X (1 .. k[c])]
             T == {{c} \X (1 .. k[c]) : c \in D}
  <1>1. f \in Surjection(D, T)
    BY DEF Surjection
  <1>2. IsFiniteSet(T)
    <2>1. IsFiniteSet(D)
      BY ThreadsAssumption, FS_Subset
    <2> HIDE DEF T, f
    <2>2. QED
      BY <1>1, <2>1, FS_Surjection
  <1>3. ASSUME NEW c \in D
        PROVE  IsFiniteSet({c} \X (1 .. k[c]))
    <2>1. IsFiniteSet(1 .. k[c])
      BY FS_Interval
    <2>2. QED
      BY <2>1, FS_Singleton, FS_Product
  <1>4. \A X \in T : IsFiniteSet(X)
    BY <1>3
  <1> HIDE DEF T
  <1>5. IsFiniteSet(UNION T)
    BY <1>2, <1>4, FS_UNION
  <1>6. QED
    BY <1>5 DEF T

CallsExact ==
    /\ IsFiniteSet(Calls)
    /\ \A p : p \in Calls <=> \E c \in Callers : \E i \in 1 .. wakes[c] : p = <<c, i>>

LEMMA CallsFacts == TypeOK => CallsExact
  <1> SUFFICES ASSUME TypeOK PROVE CallsExact
    OBVIOUS
  <1>1. wakes \in [Callers -> Int]
    BY DEF TypeOK
  <1>2. IsFiniteSet(Calls)
    BY <1>1, PlacesFinite DEF Calls
  <1>3. QED
    BY <1>2 DEF CallsExact, Calls

Left(c) == job[c].enlisted - job[c].joined

SeatsExact ==
    /\ IsFiniteSet(Seats)
    /\ \A p : p \in Seats <=>
         \E c \in Callers : \E i \in 1 .. Left(c) :
             c \in Range(queue) /\ HasRoom(c) /\ p = <<c, i>>

LEMMA SeatsFacts == TypeOK => SeatsExact
  <1> SUFFICES ASSUME TypeOK PROVE SeatsExact
    OBVIOUS
  <1> DEFINE D == {queue[k] : k \in Joinable}
             k == [c \in Callers |-> Left(c)]
  <1>1. k \in [Callers -> Int]
    BY DEF TypeOK, Job, Left
  <1>2. D \in SUBSET Callers /\ \A c : c \in D <=> c \in Range(queue) /\ HasRoom(c)
    <2>1. queue \in Seq(Callers)
      BY DEF TypeOK
    <2>2. \A j \in DOMAIN queue : queue[j] \in Callers
      BY <2>1
    <2>3. QED
      BY <2>2 DEF Joinable, Range
  <1>3. Seats = UNION {{c} \X (1 .. k[c]) : c \in D}
    <2>1. \A c \in D : 1 .. k[c] = 1 .. job[c].enlisted - job[c].joined
      BY <1>2 DEF Left
    <2>2. QED
      BY <2>1 DEF Seats
  <1>4. IsFiniteSet(Seats)
    <2> HIDE DEF D, k
    <2>1. QED
      BY <1>1, <1>2, <1>3, PlacesFinite
  <1>5. \A c \in Callers : k[c] = Left(c)
    OBVIOUS
  <1> HIDE DEF D, k
  <1>6. \A p : p \in Seats <=> \E c \in D : \E i \in 1 .. k[c] : p = <<c, i>>
    BY <1>3
  <1>7. ASSUME NEW p
        PROVE  p \in Seats <=> \E c \in Callers : \E i \in 1 .. Left(c) :
                                  c \in Range(queue) /\ HasRoom(c) /\ p = <<c, i>>
    BY <1>2, <1>5, <1>6
  <1>8. QED
    BY <1>4, <1>7 DEF SeatsExact

LEMMA PoolFinite ==
  /\ IsFiniteSet(Waking) /\ IsFiniteSet(Rouse(Workers)) /\ Rouse(Workers) \subseteq Sleepers
  <1>1. IsFiniteSet(Workers)
    BY ThreadsAssumption
  <1>2. Waking \in SUBSET Workers /\ Rouse(Workers) \in SUBSET Workers
    BY DEF Waking, Rouse
  <1>3. Rouse(Workers) \subseteq Sleepers
    BY DEF Rouse, Sleepers
  <1>4. QED
    BY <1>1, <1>2, <1>3, FS_Subset

\* Steps that take no seat from a worker awake: there are no fewer awake, no
\* more asleep and no more seats.
LEMMA NoMoreAsleep ==
  ASSUME TypeOK, NobodySleepsThroughWork,
         Waking \subseteq Waking', Rouse(Workers)' \subseteq Rouse(Workers),
         Calls' = Calls, Seats' \subseteq Seats
  PROVE  NobodySleepsThroughWork'
  <1>1. IsFiniteSet(Waking) /\ IsFiniteSet(Waking') /\ IsFiniteSet(Rouse(Workers))
        /\ IsFiniteSet(Rouse(Workers)') /\ IsFiniteSet(Calls) /\ IsFiniteSet(Seats)
        /\ IsFiniteSet(Seats')
    <2>1. IsFiniteSet(Workers) /\ Waking' \in SUBSET Workers /\ Rouse(Workers)' \in SUBSET Workers
      BY ThreadsAssumption DEF Waking, Rouse
    <2>2. QED
      BY <2>1, PoolFinite, CallsFacts, SeatsFacts, FS_Subset DEF CallsExact, SeatsExact
  <1>2. /\ Cardinality(Waking) \in Nat /\ Cardinality(Waking') \in Nat
        /\ Cardinality(Rouse(Workers)) \in Nat /\ Cardinality(Rouse(Workers)') \in Nat
        /\ Cardinality(Calls) \in Nat
        /\ Cardinality(Seats) \in Nat /\ Cardinality(Seats') \in Nat
    BY <1>1, FS_CardinalityType
  <1>3. /\ Cardinality(Waking) <= Cardinality(Waking')
        /\ Cardinality(Rouse(Workers)') <= Cardinality(Rouse(Workers))
        /\ Cardinality(Seats') <= Cardinality(Seats)
    BY <1>1, FS_Subset
  <1>4. CASE Rouse(Workers)' = {}
    BY <1>4 DEF NobodySleepsThroughWork
  <1>5. CASE Rouse(Workers)' # {}
    <2>1. Rouse(Workers) # {}
      BY <1>5
    <2>2. \/ Cardinality(Waking) + Cardinality(Calls) >= Cardinality(Seats)
          \/ Cardinality(Calls) >= Cardinality(Rouse(Workers))
      BY <2>1 DEF NobodySleepsThroughWork
    <2>3. \/ Cardinality(Waking') + Cardinality(Calls') >= Cardinality(Seats')
          \/ Cardinality(Calls') >= Cardinality(Rouse(Workers)')
      BY <2>2, <1>2, <1>3
    <2>4. QED
      BY <2>3 DEF NobodySleepsThroughWork
  <1>6. QED
    BY <1>4, <1>5

LEMMA ExactNext == TypeOK' => SeatsExact' /\ CallsExact'
  BY SeatsFacts, CallsFacts, PTL

\* Seats go when jobs leave the list or have their indices claimed.
LEMMA SeatsShrink ==
  ASSUME TypeOK, TypeOK',
         \A c \in Callers : c \in Range(queue)' =>
            /\ c \in Range(queue)
            /\ job'[c].n = job[c].n /\ job'[c].cursor >= job[c].cursor
            /\ job'[c].enlisted = job[c].enlisted /\ job'[c].joined = job[c].joined
  PROVE  Seats' \subseteq Seats
  <1>1. \A c \in Callers : c \in Range(queue)' /\ HasRoom(c)' =>
            c \in Range(queue) /\ HasRoom(c) /\ Left(c)' = Left(c)
    <2>1. ASSUME NEW c \in Callers, c \in Range(queue)', HasRoom(c)'
          PROVE  c \in Range(queue) /\ HasRoom(c) /\ Left(c)' = Left(c)
      <3>1. /\ job[c].cursor \in Nat /\ job'[c].cursor \in Nat /\ job[c].n \in Nat
        <4>1. job \in [Callers -> Job] /\ job' \in [Callers -> Job]
          BY DEF TypeOK
        <4>2. job[c] \in Job /\ job'[c] \in Job
          BY <4>1
        <4>3. QED
          BY <4>2, JobCounts
      <3>2. job'[c].joined < job'[c].enlisted /\ job'[c].cursor < job'[c].n
        BY <2>1 DEF HasRoom
      <3>3. QED
        BY <2>1, <3>1, <3>2 DEF HasRoom, Left
    <2>2. QED
      BY <2>1
  <1>2. QED
    BY <1>1, SeatsFacts, ExactNext DEF SeatsExact

\* run_indices, and a worker that leaves.
LEMMA RunsOn ==
  ASSUME TypeOK, TypeOK', Places, NobodySleepsThroughWork, NEW t \in Threads,
         pc[t] \in {"claim", "task", "run", "leave"},
         \A u \in Threads : u # t => pc'[u] = pc[u],
         pc'[t] # "asleep", UNCHANGED <<queue, wakes>>,
         \A c \in Callers :
            /\ job'[c].n = job[c].n /\ job'[c].cursor >= job[c].cursor
            /\ job'[c].enlisted = job[c].enlisted /\ job'[c].joined = job[c].joined
  PROVE  NobodySleepsThroughWork'
  <1>1. Waking \subseteq Waking'
    BY DEF Waking, Threads
  <1>2. Rouse(Workers)' \subseteq Rouse(Workers)
    BY DEF Rouse, Threads
  <1>3. Calls' = Calls
    BY DEF Calls
  <1>4. Range(queue)' = Range(queue)
    BY DEF Range
  <1>5. Seats' \subseteq Seats
    BY <1>4, SeatsShrink
  <1>6. QED
    BY <1>1, <1>2, <1>3, <1>5, NoMoreAsleep

LEMMA RunSleeps ==
  ASSUME IInv, IInv', NobodySleepsThroughWork, NEW t \in Threads, RunIndices(t)
  PROVE  NobodySleepsThroughWork'
  <1>1. TypeOK /\ Places /\ TypeOK'
    BY DEF IInv
  <1>2. /\ pc[t] \in {"claim", "task", "run"} /\ UNCHANGED <<queue, wakes>>
        /\ \E x \in {"claim", "task", "run", "leave", "join", "return"} : pc' = [pc EXCEPT ![t] = x]
    BY DEF RunIndices, Claim, BeginTask, EndTask, ThrowTask, Done, Go
  <1>3. pc'[t] # "asleep" /\ \A u \in Threads : u # t => pc'[u] = pc[u]
    BY <1>1, <1>2 DEF TypeOK
  <1>4. PICK c \in Callers : c = Mine(t)
    BY <1>1, <1>2, BusyFacts DEF Busy
  <1>5. PICK i \in Indices : i = index[t]
    BY <1>1 DEF TypeOK
  <1>6. job[c] \in Job /\ job[c].cursor \in Nat
    BY <1>1 DEF TypeOK, Job
  <1>7. PICK r \in {job[c], ClaimedBy(job[c]), RanBy(job[c], i), ThrewBy(job[c], i)} :
            job' = [job EXCEPT ![c] = r]
    <2>1. CASE Claim(t)
      BY <2>1, <1>4 DEF Claim, ClaimedBy
    <2>2. CASE BeginTask(t) \/ EndTask(t)
      <3>1. job' = job \/ job' = [job EXCEPT ![c] = RanBy(job[c], i)]
        BY <2>2, <1>4, <1>5 DEF BeginTask, EndTask, RanBy
      <3>2. job = [job EXCEPT ![c] = job[c]]
        BY <1>1 DEF TypeOK
      <3>3. QED
        BY <3>1, <3>2
    <2>3. CASE ThrowTask(t)
      BY <2>3, <1>4, <1>5 DEF ThrowTask, Latched, ThrewBy
    <2>4. QED
      BY <2>1, <2>2, <2>3 DEF RunIndices
  <1>8. /\ r \in Job /\ r.n = job[c].n /\ r.cursor >= job[c].cursor
        /\ r.enlisted = job[c].enlisted /\ r.joined = job[c].joined
    <2>1. CASE r = job[c]
      BY <2>1, <1>6
    <2>2. CASE r = ClaimedBy(job[c])
      BY <2>2, <1>6, ClaimedFacts
    <2>3. CASE r = RanBy(job[c], i)
      <3>1. /\ r \in Job /\ r.n = job[c].n /\ r.cursor = job[c].cursor
            /\ r.enlisted = job[c].enlisted /\ r.joined = job[c].joined
        BY <2>3, <1>6, RanFacts, Zenon
      <3>2. QED
        BY <3>1, <1>6
    <2>4. CASE r = ThrewBy(job[c], i)
      BY <2>4, <1>6, ThrewFacts
    <2>5. QED
      BY <1>7, <2>1, <2>2, <2>3, <2>4
  <1>9. \A d \in Callers :
            /\ job'[d].n = job[d].n /\ job'[d].cursor >= job[d].cursor
            /\ job'[d].enlisted = job[d].enlisted /\ job'[d].joined = job[d].joined
    <2>1. job'[c] = r /\ \A d \in Callers : d # c => job'[d] = job[d]
      BY <1>1, <1>7, <1>8, JobUpdated
    <2>2. \A d \in Callers : job[d].cursor \in Nat
      BY <1>1 DEF TypeOK, Job
    <2>3. QED
      BY <2>1, <2>2, <1>8
  <1>10. QED
    BY <1>1, <1>2, <1>3, <1>9, RunsOn

\* A worker goes to sleep, or ends, when there is no seat.
LEMMA NoSeatSleeps ==
  ASSUME IInv, IInv', NEW w \in Workers, LookSleep(w) \/ LookStop(w)
  PROVE  NobodySleepsThroughWork'
  <1>1. TypeOK /\ TypeOK' /\ Places /\ Listed
    BY DEF IInv
  <1>2. \A c \in Callers : ~(c \in Range(queue) /\ HasRoom(c))
    <2>1. CASE LookSleep(w)
      BY <2>1 DEF LookSleep, Joinable, Range
    <2>2. CASE LookStop(w)
      <3>1. \A c \in Callers : pc[c] = "out"
        BY <2>2, <1>1 DEF LookStop, Places
      <3>2. QED
        BY <3>1, <1>1 DEF Listed, Shares
    <2>3. QED
      BY <2>1, <2>2
  <1>3. UNCHANGED <<queue, job>>
    BY DEF LookSleep, LookStop
  <1>4. \A c \in Callers : ~(c \in Range(queue)' /\ HasRoom(c)')
    BY <1>2, <1>3 DEF Range, HasRoom
  <1>5. Seats' = {}
    BY <1>1, <1>4, ExactNext DEF SeatsExact
  <1>6. Cardinality(Seats') = 0
    BY <1>5, FS_EmptySet
  <1>7. Cardinality(Waking') \in Nat /\ Cardinality(Calls') \in Nat
    <2>1. IsFiniteSet(Workers) /\ Waking' \in SUBSET Workers
      BY ThreadsAssumption DEF Waking
    <2>2. IsFiniteSet(Calls')
      BY <1>1, ExactNext DEF CallsExact
    <2>3. QED
      BY <2>1, <2>2, FS_Subset, FS_CardinalityType
  <1>8. QED
    BY <1>6, <1>7 DEF NobodySleepsThroughWork

\* A worker that joins takes one seat.
LEMMA JoinSleeps ==
  ASSUME IInv, IInv', NobodySleepsThroughWork, NEW w \in Workers, LookJoin(w)
  PROVE  NobodySleepsThroughWork'
  <1>1. TypeOK /\ TypeOK' /\ Places
    BY DEF IInv
  <1>2. w \in Threads /\ w \notin Callers
    BY <1>1, MineFacts
  <1>3. pc' = [pc EXCEPT ![w] = "claim"] /\ pc[w] \in {"look", "woken"}
        /\ UNCHANGED <<queue, wakes>>
    BY DEF LookJoin, Looks, Go
  <1>4. PICK k \in Joinable :
            job' = [job EXCEPT ![queue[k]].joined = @ + 1, ![queue[k]].remaining = @ + 1]
    BY DEF LookJoin
  <1>5. queue[k] \in Callers /\ HasRoom(queue[k]) /\ queue[k] \in Range(queue)
    BY <1>1 DEF Joinable, TypeOK, Range
  <1>6. PICK c \in Callers : c = queue[k] /\ HasRoom(c) /\ c \in Range(queue)
    BY <1>5
  <1>7. job[c] \in Job /\ job \in [Callers -> Job]
    BY <1>1 DEF TypeOK
  <1>8. job' = [job EXCEPT ![c] = JoinedBy(job[c])]
    BY <1>4, <1>6, <1>7 DEF JoinedBy, Job
  <1>9. JoinedBy(job[c]) \in Job
    BY <1>7, JoinedFacts
  <1>10. job'[c] = JoinedBy(job[c]) /\ \A d \in Callers : d # c => job'[d] = job[d]
    BY <1>1, <1>8, <1>9, JobUpdated
  <1>11. /\ job'[c].joined = job[c].joined + 1 /\ job'[c].enlisted = job[c].enlisted
         /\ job'[c].n = job[c].n /\ job'[c].cursor = job[c].cursor
    BY <1>7, <1>10, JoinedFacts
  <1>12. job[c].joined \in Nat /\ job[c].enlisted \in Nat /\ job[c].joined < job[c].enlisted
    BY <1>6, <1>7, JobCounts DEF HasRoom
  <1>13. PICK s : s = <<c, Left(c)>>
    OBVIOUS
  <1>14. s \in Seats
    <2>1. Left(c) \in 1 .. Left(c)
      BY <1>12 DEF Left
    <2>2. QED
      BY <2>1, <1>1, <1>6, <1>13, SeatsFacts DEF SeatsExact
  <1>15. Seats' \subseteq Seats \ {s}
    <2>1. Range(queue)' = Range(queue)
      BY <1>3 DEF Range
    <2>2. Left(c)' = Left(c) - 1 /\ Left(c) \in Nat
      BY <1>11, <1>12 DEF Left
    <2>3. \A d \in Callers : d # c => Left(d)' = Left(d) /\ (HasRoom(d)' <=> HasRoom(d))
      BY <1>10 DEF Left, HasRoom
    <2>4. ASSUME NEW d \in Callers, NEW i \in 1 .. Left(d)', d \in Range(queue), HasRoom(d)'
          PROVE  <<d, i>> \in Seats \ {s}
      <3>1. CASE d = c
        <4>1. i \in 1 .. Left(c) /\ i # Left(c)
          BY <2>2, <2>4, <3>1
        <4>2. QED
          BY <4>1, <3>1, <1>1, <1>6, <1>13, SeatsFacts DEF SeatsExact
      <3>2. CASE d # c
        BY <3>2, <2>3, <2>4, <1>1, <1>13, SeatsFacts DEF SeatsExact
      <3>3. QED
        BY <3>1, <3>2
    <2>5. QED
      BY <2>1, <2>4, <1>1, ExactNext DEF SeatsExact
  <1>16. Waking' = Waking \ {w} /\ w \in Waking
    BY <1>1, <1>2, <1>3 DEF TypeOK, Waking, Threads
  <1>17. Rouse(Workers)' = Rouse(Workers)
    BY <1>1, <1>2, <1>3 DEF TypeOK, Rouse, Threads
  <1>18. Calls' = Calls
    BY <1>3 DEF Calls
  <1>19. IsFiniteSet(Seats) /\ IsFiniteSet(Waking) /\ IsFiniteSet(Calls) /\ IsFiniteSet(Seats \ {s})
    BY <1>1, SeatsFacts, CallsFacts, PoolFinite, FS_Subset DEF SeatsExact, CallsExact
  <1>20. /\ Cardinality(Waking') = Cardinality(Waking) - 1
         /\ Cardinality(Seats \ {s}) = Cardinality(Seats) - 1
    BY <1>14, <1>16, <1>19, FS_RemoveElement
  <1>21. Cardinality(Seats') <= Cardinality(Seats \ {s})
    BY <1>15, <1>19, FS_Subset
  <1>22. IsFiniteSet(Seats') /\ IsFiniteSet(Waking')
    BY <1>15, <1>16, <1>19, FS_Subset
  <1>23. /\ Cardinality(Waking) \in Nat /\ Cardinality(Waking') \in Nat
         /\ Cardinality(Seats) \in Nat /\ Cardinality(Seats') \in Nat
         /\ Cardinality(Seats \ {s}) \in Nat /\ Cardinality(Calls) \in Nat
    BY <1>19, <1>22, FS_CardinalityType
  <1>24. QED
    BY <1>17, <1>18, <1>20, <1>21, <1>23 DEF NobodySleepsThroughWork

LEMMA LeaveSleeps ==
  ASSUME IInv, IInv', NobodySleepsThroughWork, NEW w \in Workers, Leave(w)
  PROVE  NobodySleepsThroughWork'
  <1>1. TypeOK /\ TypeOK' /\ Places
    BY DEF IInv
  <1>2. PICK x \in {"notify", "look"} :
            /\ pc[w] = "leave" /\ pc' = [pc EXCEPT ![w] = x]
            /\ job' = [job EXCEPT ![on[w]].remaining = @ - 1]
            /\ UNCHANGED <<queue, wakes>>
    BY DEF Leave, Go
  <1>3. PICK c \in Callers : c = on[w]
    BY <1>1, <1>2 DEF Places, TypeOK
  <1>4. w \in Threads
    BY DEF Threads
  <1>5. pc'[w] = x /\ \A u \in Threads : u # w => pc'[u] = pc[u]
    BY <1>1, <1>2, <1>4 DEF TypeOK
  <1>6. \A d \in Callers :
            /\ job'[d].n = job[d].n /\ job'[d].cursor >= job[d].cursor
            /\ job'[d].enlisted = job[d].enlisted /\ job'[d].joined = job[d].joined
    <2>1. \A d \in Callers : d # c => job'[d] = job[d]
      BY <1>1, <1>2, <1>3 DEF TypeOK
    <2>2. /\ job'[c].n = job[c].n /\ job'[c].cursor = job[c].cursor
          /\ job'[c].enlisted = job[c].enlisted /\ job'[c].joined = job[c].joined
      <3>1. job[c] \in Job /\ job \in [Callers -> Job]
        BY <1>1 DEF TypeOK
      <3>2. QED
        BY <3>1, <1>2, <1>3 DEF Job
    <2>3. \A d \in Callers : job[d].cursor \in Nat
      BY <1>1, JobCounts DEF TypeOK
    <2>4. QED
      BY <2>1, <2>2, <2>3
  <1>7. QED
    BY <1>1, <1>2, <1>4, <1>5, <1>6, RunsOn

\* Steps that only wake workers, or concern none.
LEMMA QuietSleeps ==
  ASSUME TypeOK, NobodySleepsThroughWork, UNCHANGED <<queue, job, wakes>>,
         \A w \in Workers : \/ pc'[w] = pc[w]
                            \/ pc[w] = "asleep" /\ pc'[w] = "woken"
                            \/ pc[w] = "notify" /\ pc'[w] = "look"
  PROVE  NobodySleepsThroughWork'
  <1>1. Waking \subseteq Waking'
    BY DEF Waking
  <1>2. Rouse(Workers)' \subseteq Rouse(Workers)
    BY DEF Rouse
  <1>3. Calls' = Calls
    BY DEF Calls
  <1>4. Seats' = Seats
    BY DEF Seats, Joinable, HasRoom
  <1>5. QED
    BY <1>1, <1>2, <1>3, <1>4, NoMoreAsleep

LEMMA OthersSleep ==
  ASSUME IInv, NobodySleepsThroughWork,
         \/ \E w \in Workers : NotifyDone(w)
         \/ \E c \in Callers : Check(c) \/ Block(c) \/ Recheck(c)
         \/ SetStop \/ TellAll
         \/ \E t \in Threads : Spurious(t)
         \/ UNCHANGED vars
  PROVE  NobodySleepsThroughWork'
  <1>1. TypeOK
    BY DEF IInv
  <1>2. ASSUME NEW w \in Workers, NotifyDone(w)
        PROVE  NobodySleepsThroughWork'
    <2>1. UNCHANGED <<queue, job, wakes>> /\ pc[w] = "notify"
          /\ pc' = [t \in Threads |-> IF t = w THEN "look"
                                      ELSE IF t \in Rouse(Callers) THEN "woken" ELSE pc[t]]
      BY <1>2 DEF NotifyDone
    <2>2. \A v \in Workers : v \in Threads /\ v \notin Rouse(Callers)
      BY <1>1, MineFacts DEF Rouse
    <2>3. \A v \in Workers : \/ pc'[v] = pc[v]
                             \/ pc[v] = "notify" /\ pc'[v] = "look"
      BY <2>1, <2>2
    <2>4. QED
      BY <1>1, <2>1, <2>3, QuietSleeps
  <1>3. ASSUME NEW c \in Callers, Check(c) \/ Block(c) \/ Recheck(c)
        PROVE  NobodySleepsThroughWork'
    <2>1. PICK x : pc' = [pc EXCEPT ![c] = x] /\ UNCHANGED <<queue, job, wakes>>
      BY <1>3 DEF Check, Block, Recheck, Go
    <2>2. \A v \in Workers : v \in Threads /\ v # c
      BY <1>1, MineFacts
    <2>3. \A v \in Workers : pc'[v] = pc[v]
      BY <1>1, <2>1, <2>2 DEF TypeOK
    <2>4. QED
      BY <1>1, <2>1, <2>3, QuietSleeps
  <1>4. CASE SetStop \/ TellAll
    <2>1. UNCHANGED <<queue, job, wakes>>
      BY <1>4 DEF SetStop, TellAll
    <2>2. \A v \in Workers : pc'[v] = pc[v] \/ (pc[v] = "asleep" /\ pc'[v] = "woken")
      BY <1>4 DEF SetStop, TellAll, Rouse, Threads
    <2>3. QED
      BY <1>1, <2>1, <2>2, QuietSleeps
  <1>5. ASSUME NEW t \in Threads, Spurious(t)
        PROVE  NobodySleepsThroughWork'
    <2>1. UNCHANGED <<queue, job, wakes>> /\ pc[t] = "asleep" /\ pc' = [pc EXCEPT ![t] = "woken"]
      BY <1>5 DEF Spurious, Go
    <2>2. \A v \in Workers : pc'[v] = pc[v] \/ (pc[v] = "asleep" /\ pc'[v] = "woken")
      BY <1>1, <2>1 DEF TypeOK, Threads
    <2>3. QED
      BY <1>1, <2>1, <2>2, QuietSleeps
  <1>6. CASE UNCHANGED vars
    <2>1. UNCHANGED <<queue, job, wakes, pc>>
      BY <1>6 DEF vars
    <2>2. QED
      BY <1>1, <2>1, QuietSleeps
  <1>7. QED
    BY <1>2, <1>3, <1>4, <1>5, <1>6

\* A notification sent wakes a worker, if one sleeps.
LEMMA WakeOneSleeps ==
  ASSUME IInv, IInv', NobodySleepsThroughWork, NEW c \in Callers, WakeOne(c)
  PROVE  NobodySleepsThroughWork'
  <1>1. TypeOK /\ TypeOK' /\ Places
    BY DEF IInv
  <1>2. /\ pc[c] = "wake" /\ wakes' = [wakes EXCEPT ![c] = wakes[c] - 1]
        /\ UNCHANGED <<queue, job>>
    BY DEF WakeOne
  <1>3. c \in Threads /\ wakes[c] \in Nat /\ wakes[c] > 0
    BY <1>1, <1>2, MineFacts DEF TypeOK, Places
  <1>4. PICK to \in {"claim", "wake"} :
            \/ Rouse(Workers) = {} /\ pc' = [pc EXCEPT ![c] = to]
            \/ \E w \in Rouse(Workers) : pc' = [pc EXCEPT ![w] = "woken", ![c] = to]
    BY DEF WakeOne, Go
  <1>5. CASE Rouse(Workers) = {}
    <2>1. pc' = [pc EXCEPT ![c] = to]
      BY <1>4, <1>5
    <2>2. \A v \in Workers : pc'[v] = pc[v]
      BY <2>1, <1>1, <1>3, MineFacts DEF TypeOK
    <2>3. Rouse(Workers)' = {}
      BY <2>2, <1>5 DEF Rouse
    <2>4. QED
      BY <2>3 DEF NobodySleepsThroughWork
  <1>6. ASSUME NEW w \in Rouse(Workers), pc' = [pc EXCEPT ![w] = "woken", ![c] = to]
        PROVE  NobodySleepsThroughWork'
    <2>1. w \in Workers /\ w \in Threads /\ w # c /\ pc[w] = "asleep"
      BY <1>1, MineFacts DEF Rouse
    <2>2. \A v \in Workers : IF v = w THEN pc'[v] = "woken" ELSE pc'[v] = pc[v]
      <3>1. pc \in [Threads -> Pcs]
        BY <1>1 DEF TypeOK, Pcs
      <3>2. \A v \in Workers : v \in Threads /\ v # c
        BY <1>1, MineFacts
      <3>3. QED
        BY <3>1, <3>2, <2>1, <1>6
    <2>3. Waking' = Waking \cup {w} /\ w \notin Waking
      BY <2>1, <2>2 DEF Waking
    <2>4. Rouse(Workers)' = Rouse(Workers) \ {w} /\ w \in Rouse(Workers)
      BY <2>1, <2>2 DEF Rouse
    <2>5. Seats' = Seats
      BY <1>2 DEF Seats, Joinable, HasRoom
    <2>6. PICK s : s = <<c, wakes[c]>>
      OBVIOUS
    <2>7. s \in Calls
      BY <2>6, <1>1, <1>3, CallsFacts DEF CallsExact
    <2>8. Calls \ {s} \subseteq Calls'
      <3>1. wakes'[c] = wakes[c] - 1 /\ \A d \in Callers : d # c => wakes'[d] = wakes[d]
        BY <1>1, <1>2 DEF TypeOK
      <3>2. ASSUME NEW d \in Callers, NEW i \in 1 .. wakes[d], <<d, i>> # s
            PROVE  i \in 1 .. wakes'[d]
        BY <3>1, <3>2, <2>6, <1>3
      <3>3. QED
        BY <3>2, <1>1, CallsFacts, ExactNext DEF CallsExact
    <2>9. IsFiniteSet(Waking) /\ IsFiniteSet(Rouse(Workers)) /\ IsFiniteSet(Calls)
          /\ IsFiniteSet(Calls') /\ IsFiniteSet(Seats)
      BY <1>1, PoolFinite, CallsFacts, SeatsFacts, ExactNext DEF CallsExact, SeatsExact
    <2>10. /\ Cardinality(Waking') = Cardinality(Waking) + 1
           /\ Cardinality(Rouse(Workers)') = Cardinality(Rouse(Workers)) - 1
           /\ Cardinality(Calls \ {s}) = Cardinality(Calls) - 1
      BY <2>3, <2>4, <2>7, <2>9, FS_AddElement, FS_RemoveElement
    <2>11. Cardinality(Calls \ {s}) <= Cardinality(Calls')
      BY <2>8, <2>9, FS_Subset
    <2>12. /\ Cardinality(Waking) \in Nat /\ Cardinality(Rouse(Workers)) \in Nat
           /\ Cardinality(Calls) \in Nat /\ Cardinality(Calls') \in Nat /\ Cardinality(Seats) \in Nat
      BY <2>9, FS_CardinalityType
    <2>13. \/ Cardinality(Waking) + Cardinality(Calls) >= Cardinality(Seats)
           \/ Cardinality(Calls) >= Cardinality(Rouse(Workers))
      BY DEF NobodySleepsThroughWork
    <2>14. \/ Cardinality(Waking') + Cardinality(Calls') >= Cardinality(Seats')
           \/ Cardinality(Calls') >= Cardinality(Rouse(Workers)')
      BY <2>5, <2>10, <2>11, <2>12, <2>13
    <2>15. QED
      BY <2>14 DEF NobodySleepsThroughWork
  <1>7. QED
    BY <1>4, <1>5, <1>6

LEMMA WakeAllSleeps ==
  ASSUME IInv, NEW c \in Callers, WakeAll(c)
  PROVE  NobodySleepsThroughWork'
  <1>1. TypeOK
    BY DEF IInv
  <1>2. pc' = [t \in Threads |-> IF t = c THEN "claim"
                                 ELSE IF t \in Rouse(Workers) THEN "woken" ELSE pc[t]]
    BY DEF WakeAll
  <1>3. \A w \in Workers : pc'[w] # "asleep"
    BY <1>1, <1>2, MineFacts DEF Rouse
  <1>4. Rouse(Workers)' = {}
    BY <1>3 DEF Rouse
  <1>5. QED
    BY <1>4 DEF NobodySleepsThroughWork

\* A caller that joins takes its job out of the list, and one that returns has none in it.
LEMMA CallerLeavesSleeps ==
  ASSUME IInv, IInv', NobodySleepsThroughWork, NEW c \in Callers, Join(c) \/ Return(c)
  PROVE  NobodySleepsThroughWork'
  <1>1. TypeOK /\ TypeOK' /\ Places /\ Listed
    BY DEF IInv
  <1>2. \E x : pc' = [pc EXCEPT ![c] = x]
    BY DEF Join, Return, Go
  <1>3. \A w \in Workers : pc'[w] = pc[w]
    BY <1>1, <1>2, MineFacts DEF TypeOK
  <1>4. wakes' = wakes
    BY DEF Join, Return
  <1>5. \A d \in Callers : d \in Range(queue)' => d \in Range(queue) /\ d # c
    <2>1. CASE Join(c)
      <3>1. pc[c] = "join" /\ queue' = Unlinked(c)
        BY <2>1 DEF Join
      <3>2. c \in Range(queue)
        BY <3>1, <1>1 DEF IInv, AllClaimed, Listed, Shares
      <3>3. QED
        BY <3>1, <3>2, <1>1, UnlinkedFacts
    <2>2. CASE Return(c)
      <3>1. pc[c] = "return" /\ queue' = queue
        BY <2>2 DEF Return
      <3>2. c \notin Range(queue)
        BY <3>1, <1>1 DEF Listed, Shares
      <3>3. QED
        BY <3>1, <3>2 DEF Range
    <2>3. QED
      BY <2>1, <2>2
  <1>6. \A d \in Callers : d # c => job'[d] = job[d]
    BY <1>1 DEF Join, Return, TypeOK
  <1>7. \A d \in Callers : job[d].cursor \in Nat
    BY <1>1, JobCounts DEF TypeOK
  <1>8. Seats' \subseteq Seats
    BY <1>1, <1>5, <1>6, <1>7, SeatsShrink
  <1>9. Waking' = Waking /\ Rouse(Workers)' = Rouse(Workers) /\ Calls' = Calls
    BY <1>3, <1>4 DEF Waking, Rouse, Calls
  <1>10. QED
    BY <1>1, <1>8, <1>9, NoMoreAsleep

\* A number of places for one caller.
Row(c, k) == {c} \X (1 .. k)

LEMMA RowFacts ==
  ASSUME NEW c, NEW k \in Nat
  PROVE  /\ IsFiniteSet(Row(c, k)) /\ Cardinality(Row(c, k)) = k
         /\ \A p : p \in Row(c, k) <=> \E i \in 1 .. k : p = <<c, i>>
  <1>1. IsFiniteSet(1 .. k) /\ Cardinality(1 .. k) = k
    <2>1. Cardinality(1 .. k) = IF 1 > k THEN 0 ELSE k - 1 + 1
      BY FS_Interval
    <2>2. QED
      BY <2>1, FS_Interval
  <1>2. IsFiniteSet({c}) /\ Cardinality({c}) = 1
    BY FS_Singleton
  <1>3. IsFiniteSet(Row(c, k)) /\ Cardinality(Row(c, k)) = 1 * k
    BY <1>1, <1>2, FS_Product DEF Row
  <1>4. QED
    BY <1>3 DEF Row

\* A post brings as many seats as it enlists workers, and as many notifications
\* as there are sleepers to fill them.
LEMMA PostSleeps ==
  ASSUME IInv, IInv', NobodySleepsThroughWork,
         NEW c \in Callers, NEW n \in 1 .. MaxN, NEW e \in 0 .. n - 1, Post(c, n, e)
  PROVE  NobodySleepsThroughWork'
  <1>1. TypeOK /\ TypeOK' /\ Places /\ Listed
    BY DEF IInv
  <1>2. e \in Nat /\ n \in Nat
    BY LimitsAssumption
  <1>3. /\ pc[c] = "out" /\ job' = [job EXCEPT ![c] = NewJob(n, e)]
        /\ \/ e = 0 /\ UNCHANGED <<queue, wakes>>
           \/ /\ e > 0 /\ queue' = Append(queue, c)
              /\ wakes' = [wakes EXCEPT ![c] = Wakes(e)]
    BY DEF Post
  <1>4. \E x : pc' = [pc EXCEPT ![c] = x]
    BY DEF Post, Go
  <1>5. \A w \in Workers : pc'[w] = pc[w]
    BY <1>1, <1>4, MineFacts DEF TypeOK
  <1>6. Waking' = Waking /\ Rouse(Workers)' = Rouse(Workers)
    BY <1>5 DEF Waking, Rouse
  <1>7. c \notin Range(queue)
    BY <1>1, <1>3 DEF Listed, Shares
  <1>8. \A d \in Callers : d # c => job'[d] = job[d]
    BY <1>1, <1>3 DEF TypeOK
  <1>9. \A d \in Callers : job[d].cursor \in Nat
    BY <1>1, JobCounts DEF TypeOK
  <1>10. CASE e = 0
    <2>1. UNCHANGED <<queue, wakes>>
      BY <1>10, <1>3
    <2>2. \A d \in Callers : d \in Range(queue)' => d \in Range(queue) /\ d # c
      BY <2>1, <1>7 DEF Range
    <2>3. Seats' \subseteq Seats
      BY <2>2, <1>1, <1>8, <1>9, SeatsShrink
    <2>4. Calls' = Calls
      BY <2>1 DEF Calls
    <2>5. QED
      BY <2>3, <2>4, <1>1, <1>6, NoMoreAsleep
  <1>11. CASE e > 0
    <2>1. queue' = Append(queue, c) /\ wakes' = [wakes EXCEPT ![c] = Wakes(e)]
      BY <1>11, <1>2, <1>3
    <2>2. idle \in Nat /\ idle = Cardinality(Sleepers)
      BY <1>1 DEF TypeOK, IInv, IdleCount
    <2>3. PICK k \in Nat : k = Wakes(e) /\ (k = e \/ k = idle)
      BY <2>2, <1>2 DEF Wakes
    <2>4. wakes[c] = 0
      BY <1>1, <1>3 DEF Places, TypeOK
    <2>5. wakes'[c] = k /\ \A d \in Callers : d # c => wakes'[d] = wakes[d]
      BY <2>1, <2>3, <1>1 DEF TypeOK
    <2>6. Calls' = Calls \cup Row(c, k) /\ Calls \cap Row(c, k) = {}
      <3>1. ASSUME NEW p
            PROVE  /\ p \in Calls' <=> p \in Calls \/ p \in Row(c, k)
                   /\ ~(p \in Calls /\ p \in Row(c, k))
        <4>1. p \in Calls <=> \E d \in Callers : \E i \in 1 .. wakes[d] : p = <<d, i>>
          BY <1>1, CallsFacts DEF CallsExact
        <4>2. p \in Calls' <=> \E d \in Callers : \E i \in 1 .. wakes'[d] : p = <<d, i>>
          BY <1>1, ExactNext DEF CallsExact
        <4>3. p \in Row(c, k) <=> \E i \in 1 .. k : p = <<c, i>>
          BY RowFacts
        <4>4. 1 .. wakes[c] = {}
          BY <2>4
        <4>5. QED
          BY <4>1, <4>2, <4>3, <4>4, <2>5
      <3>2. QED
        BY <3>1
    <2>7. Seats' \subseteq Seats \cup Row(c, e)
      <3>1. job'[c].enlisted = e /\ job'[c].joined = 0
        BY <1>1, <1>2, <1>3, NewJobFacts DEF TypeOK
      <3>2. \A d \in Callers : d # c /\ d \in Range(queue)' => d \in Range(queue)
        <4>1. queue \in Seq(Callers)
          BY <1>1 DEF TypeOK
        <4>2. QED
          BY <4>1, <2>1 DEF Range
      <3>3. ASSUME NEW d \in Callers, NEW i \in 1 .. Left(d)', d \in Range(queue)', HasRoom(d)'
            PROVE  <<d, i>> \in Seats \cup Row(c, e)
        <4>1. CASE d = c
          <5>1. i \in 1 .. e
            BY <4>1, <3>3, <3>1, <1>2 DEF Left
          <5>2. QED
            BY <5>1, <4>1, <1>2, RowFacts
        <4>2. CASE d # c
          <5>1. i \in 1 .. Left(d) /\ d \in Range(queue) /\ HasRoom(d)
            BY <4>2, <3>2, <3>3, <1>8 DEF Left, HasRoom
          <5>2. QED
            BY <5>1, <1>1, SeatsFacts DEF SeatsExact
        <4>3. QED
          BY <4>1, <4>2
      <3>4. QED
        BY <3>3, <1>1, ExactNext DEF SeatsExact
    <2>8. /\ IsFiniteSet(Waking) /\ IsFiniteSet(Calls) /\ IsFiniteSet(Seats)
          /\ IsFiniteSet(Rouse(Workers)) /\ Rouse(Workers) \subseteq Sleepers
          /\ IsFiniteSet(Row(c, k)) /\ Cardinality(Row(c, k)) = k
          /\ IsFiniteSet(Row(c, e)) /\ Cardinality(Row(c, e)) = e
          /\ IsFiniteSet(Sleepers)
      BY <1>1, <1>2, PoolFinite, CountFacts, CallsFacts, SeatsFacts, RowFacts
         DEF CallsExact, SeatsExact
    <2>9. Cardinality(Calls') = Cardinality(Calls) + k
      <3>1. Cardinality(Calls \cup Row(c, k))
              = Cardinality(Calls) + Cardinality(Row(c, k)) - Cardinality(Calls \cap Row(c, k))
        BY <2>8, FS_Union
      <3>2. Cardinality(Calls \cap Row(c, k)) = 0
        BY <2>6, FS_EmptySet
      <3>3. QED
        BY <3>1, <3>2, <2>6, <2>8, FS_CardinalityType
    <2>10. IsFiniteSet(Seats') /\ Cardinality(Seats') <= Cardinality(Seats) + e
      <3>1. /\ IsFiniteSet(Seats \cup Row(c, e)) /\ IsFiniteSet(Seats \cap Row(c, e))
            /\ Cardinality(Seats \cup Row(c, e))
                = Cardinality(Seats) + Cardinality(Row(c, e)) - Cardinality(Seats \cap Row(c, e))
        BY <2>8, FS_Union, FS_Intersection
      <3>2. /\ Cardinality(Seats) \in Nat /\ Cardinality(Seats \cap Row(c, e)) \in Nat
            /\ Cardinality(Seats \cup Row(c, e)) \in Nat
        BY <3>1, <2>8, FS_CardinalityType
      <3>3. IsFiniteSet(Seats') /\ Cardinality(Seats') <= Cardinality(Seats \cup Row(c, e))
        BY <3>1, <2>7, FS_Subset
      <3>4. Cardinality(Seats') \in Nat
        BY <3>3, FS_CardinalityType
      <3>5. QED
        BY <3>1, <3>2, <3>3, <3>4, <2>8, <1>2
    <2>11. Cardinality(Rouse(Workers)) <= idle
      BY <2>2, <2>8, FS_Subset
    <2>12. /\ Cardinality(Waking) \in Nat /\ Cardinality(Rouse(Workers)) \in Nat
           /\ Cardinality(Calls) \in Nat /\ Cardinality(Seats) \in Nat /\ Cardinality(Seats') \in Nat
      BY <2>8, <2>10, FS_CardinalityType
    <2>13. CASE Rouse(Workers) = {}
      BY <2>13, <1>6 DEF NobodySleepsThroughWork
    <2>14. CASE Rouse(Workers) # {}
      <3>1. \/ Cardinality(Waking) + Cardinality(Calls) >= Cardinality(Seats)
            \/ Cardinality(Calls) >= Cardinality(Rouse(Workers))
        BY <2>14 DEF NobodySleepsThroughWork
      <3>2. \/ Cardinality(Waking') + Cardinality(Calls') >= Cardinality(Seats')
            \/ Cardinality(Calls') >= Cardinality(Rouse(Workers)')
        BY <3>1, <1>2, <1>6, <2>2, <2>3, <2>9, <2>10, <2>11, <2>12
      <3>3. QED
        BY <3>2 DEF NobodySleepsThroughWork
    <2>15. QED
      BY <2>13, <2>14
  <1>12. QED
    BY <1>10, <1>11, <1>2

LEMMA SleepStep == IInv /\ IInv' /\ NobodySleepsThroughWork /\ [Next]_vars => NobodySleepsThroughWork'
  <1> SUFFICES ASSUME IInv, IInv', NobodySleepsThroughWork, [Next]_vars
               PROVE  NobodySleepsThroughWork'
    OBVIOUS
  <1>1. ASSUME NEW w \in Workers, WorkerStep(w) PROVE NobodySleepsThroughWork'
    <2>1. w \in Threads
      BY DEF Threads
    <2>2. QED
      BY <1>1, <2>1, NoSeatSleeps, JoinSleeps, RunSleeps, LeaveSleeps, OthersSleep DEF WorkerStep
  <1>2. ASSUME NEW c \in Callers, CallerStep(c) PROVE NobodySleepsThroughWork'
    <2>1. c \in Threads
      BY DEF Threads
    <2>2. QED
      BY <1>2, <2>1, WakeOneSleeps, WakeAllSleeps, RunSleeps, CallerLeavesSleeps, OthersSleep
         DEF CallerStep
  <1>3. ASSUME NEW c \in Callers, NEW n \in 1 .. MaxN, NEW e \in 0 .. n - 1, Post(c, n, e)
        PROVE  NobodySleepsThroughWork'
    BY <1>3, PostSleeps
  <1>4. CASE SetStop \/ TellAll \/ (\E t \in Threads : Spurious(t)) \/ UNCHANGED vars
    BY <1>4, OthersSleep
  <1>5. QED
    BY <1>1, <1>2, <1>3, <1>4 DEF Next

LEMMA InitAwake == Init => NobodySleepsThroughWork
  <1> SUFFICES ASSUME Init PROVE NobodySleepsThroughWork
    OBVIOUS
  <1>1. Rouse(Workers) = {}
    BY DEF Init, Rouse, Threads
  <1>2. QED
    BY <1>1 DEF NobodySleepsThroughWork

\* No worker sleeps while a job in the list has a seat for it and nobody is about
\* to wake it.
THEOREM NobodySleepsThroughWorkHolds == Spec => []NobodySleepsThroughWork
  BY Inductive, InitAwake, SleepStep, PTL DEF Spec

=============================================================================
