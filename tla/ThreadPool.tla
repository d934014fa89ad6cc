------------------------------ MODULE ThreadPool ------------------------------
(***************************************************************************)
(* The fork-join thread pool (thread_pool.cpp).  A caller posts a job,     *)
(* which lives on its own stack, runs indices of it itself, and returns    *)
(* once every worker that joined has left.  Workers take part in the       *)
(* oldest job with room, and sleep when there is none.                     *)
(*                                                                         *)
(* Steps are those the threads can see of each other: a critical section   *)
(* of the pool's mutex that doesn't wait is one step; the caller's wait    *)
(* for the last worker is several, with the mutex held in between; claims  *)
(* and the participant count are atomic accesses outside it.  A condition  *)
(* variable is the threads asleep on it.  A fan-out within a task runs     *)
(* inline and is part of the task.                                         *)
(***************************************************************************)
EXTENDS Naturals, Sequences, FiniteSets

CONSTANTS Workers, Callers,
          None,         \* no thread, no job
          MaxN,         \* bound: indices of a fan-out
          Loads         \* bound: what a run may be given

Threads == Workers \cup Callers

ASSUME ThreadsAssumption ==
    /\ Workers \cap Callers = {} /\ None \notin Threads \cup Nat
    /\ IsFiniteSet(Workers) /\ IsFiniteSet(Callers)
\* By caller the sizes of its fan-outs, in order; and how many wakeups nobody sent.
ASSUME LimitsAssumption ==
    /\ MaxN \in Nat \ {0}
    /\ \A l \in Loads : l.fans \in [Callers -> Seq(1 .. MaxN)] /\ l.spurious \in Nat

VARIABLES mutex,     \* _mtx: who holds it between two steps
          closing,   \* the destructor: "open", "stopping", "told"
          idle,      \* workers counted as idle
          queue,     \* the linked jobs, oldest first; a job is named by its caller
          job,       \* by caller
          wakes,     \* by caller: the notifications it has still to send
          pc, on, index,  \* by thread: its place, the worker's job, the index it runs
          fans, spurious  \* what is left of the load

vars == <<mutex, closing, idle, queue, job, wakes, pc, on, index, fans, spurious>>

-----------------------------------------------------------------------------

Indices == 0 .. MaxN - 1

NoJob == [n |-> 0, cursor |-> 0, enlisted |-> 0, joined |-> 0, remaining |-> 0,
          aborted |-> FALSE, eptr |-> None,
          ran |-> [i \in Indices |-> 0],   \* ghost: how often each index was run
          thrown |-> << >>]                \* ghost: the indices that threw, in order

NewJob(n, enlisted) == [NoJob EXCEPT !.n = n, !.enlisted = enlisted, !.remaining = 1]

\* The job a thread works on.
Mine(t) == IF t \in Workers THEN on[t] ELSE t

Go(t, to) == pc' = [pc EXCEPT ![t] = to]

Free == mutex = None

Init ==
    /\ mutex = None /\ closing = "open" /\ idle = 0 /\ queue = << >>
    /\ job = [c \in Callers |-> NoJob]
    /\ wakes = [c \in Callers |-> 0]
    /\ pc = [t \in Threads |-> IF t \in Workers THEN "look" ELSE "out"]
    /\ on = [w \in Workers |-> None]
    /\ index = [t \in Threads |-> 0]
    /\ \E l \in Loads : fans = l.fans /\ spurious = l.spurious

-----------------------------------------------------------------------------
(* A worker between jobs, under the mutex. *)

HasRoom(c) == job[c].joined < job[c].enlisted /\ job[c].cursor < job[c].n

\* The places in the queue of the jobs that a worker may join.
Joinable == {k \in DOMAIN queue : HasRoom(queue[k])}

\* A worker that wakes takes itself off the idle count.
IdleNow(w) == IF pc[w] = "woken" THEN idle - 1 ELSE idle

Looks(w) == pc[w] \in {"look", "woken"} /\ Free

LookStop(w) ==
    /\ Looks(w)
    /\ closing # "open"
    /\ idle' = IdleNow(w)
    /\ Go(w, "gone")
    /\ UNCHANGED <<mutex, closing, queue, job, wakes, on, index, fans, spurious>>

LookJoin(w) ==
    /\ Looks(w)
    /\ closing = "open"
    /\ \E k \in Joinable :
        /\ \A l \in Joinable : k <= l
        /\ job' = [job EXCEPT ![queue[k]].joined = @ + 1, ![queue[k]].remaining = @ + 1]
        /\ on' = [on EXCEPT ![w] = queue[k]]
    /\ idle' = IdleNow(w)
    /\ Go(w, "claim")
    /\ UNCHANGED <<mutex, closing, queue, wakes, index, fans, spurious>>

LookSleep(w) ==
    /\ Looks(w)
    /\ closing = "open" /\ Joinable = {}
    /\ idle' = IdleNow(w) + 1
    /\ Go(w, "asleep")
    /\ UNCHANGED <<mutex, closing, queue, job, wakes, on, index, fans, spurious>>

-----------------------------------------------------------------------------
(* run_indices, on the caller and on the workers that have joined. *)

Claim(t) ==
    LET c == Mine(t) IN
    /\ pc[t] = "claim"
    /\ job' = [job EXCEPT ![c].cursor = @ + 1]
    /\ \/ /\ job[c].cursor < job[c].n
          /\ index' = [index EXCEPT ![t] = job[c].cursor]
          /\ Go(t, "task")
       \/ /\ job[c].cursor >= job[c].n
          /\ Go(t, IF t \in Workers THEN "leave"
                   ELSE IF job[c].enlisted > 0 THEN "join" ELSE "return")
          /\ UNCHANGED index
    /\ UNCHANGED <<mutex, closing, idle, queue, wakes, on, fans, spurious>>

\* On to the next index.
Done(t) == Go(t, "claim") /\ index' = [index EXCEPT ![t] = 0]

\* Once a task has thrown, the indices left are claimed and not run.
BeginTask(t) ==
    /\ pc[t] = "task"
    /\ \/ /\ job[Mine(t)].aborted
          /\ Done(t)
          /\ UNCHANGED job
       \/ /\ ~job[Mine(t)].aborted
          /\ Go(t, "run")
          /\ job' = [job EXCEPT ![Mine(t)].ran[index[t]] = @ + 1]
          /\ UNCHANGED index
    /\ UNCHANGED <<mutex, closing, idle, queue, wakes, on, fans, spurious>>

EndTask(t) ==
    /\ pc[t] = "run"
    /\ Done(t)
    /\ UNCHANGED <<mutex, closing, idle, queue, job, wakes, on, fans, spurious>>

\* Mutant of Latched: the last exception is kept.
LatchedLast(c, i) == i

\* The first exception of the fan-out is kept.
Latched(c, i) == IF job[c].eptr = None THEN i ELSE job[c].eptr

ThrowTask(t) ==
    LET c == Mine(t) IN
    /\ pc[t] = "run"
    /\ job' = [job EXCEPT ![c].eptr = Latched(c, index[t]), ![c].aborted = TRUE,
                          ![c].thrown = Append(@, index[t])]
    /\ Done(t)
    /\ UNCHANGED <<mutex, closing, idle, queue, wakes, on, fans, spurious>>

-----------------------------------------------------------------------------
(* A worker leaves a job.  The count goes first, without the mutex: the    *)
(* job may be gone from then on.                                           *)

Leave(w) ==
    /\ pc[w] = "leave"
    /\ job' = [job EXCEPT ![on[w]].remaining = @ - 1]
    /\ on' = [on EXCEPT ![w] = None]
    /\ Go(w, IF job[on[w]].remaining = 1 THEN "notify" ELSE "look")
    /\ UNCHANGED <<mutex, closing, idle, queue, wakes, index, fans, spurious>>

Rouse(S) == {t \in S : pc[t] = "asleep"}

\* Mutant of NotifyDone: it notifies without the mutex.
NotifyUnlocked(w) ==
    /\ pc[w] = "notify"
    /\ pc' = [t \in Threads |-> IF t = w THEN "look"
                                ELSE IF t \in Rouse(Callers) THEN "woken" ELSE pc[t]]
    /\ UNCHANGED <<mutex, closing, idle, queue, job, wakes, on, index, fans, spurious>>

\* The last one out wakes every caller that waits.
NotifyDone(w) ==
    /\ pc[w] = "notify" /\ Free
    /\ pc' = [t \in Threads |-> IF t = w THEN "look"
                                ELSE IF t \in Rouse(Callers) THEN "woken" ELSE pc[t]]
    /\ UNCHANGED <<mutex, closing, idle, queue, job, wakes, on, index, fans, spurious>>

-----------------------------------------------------------------------------
(* parallel_for. *)

\* Mutant of Wakes: one idle worker too few.
WakesFewer(enlisted) == IF idle < enlisted THEN idle ELSE enlisted - 1

\* The idle workers to wake: no more than the job can use.
Wakes(enlisted) == IF idle < enlisted THEN idle ELSE enlisted

\* n, the cap on participants and the size of the pool give the workers enlisted.
\* With none the job isn't posted: its caller runs it alone.
Post(c, n, enlisted) ==
    /\ pc[c] = "out" /\ closing = "open" /\ fans[c] # << >> /\ n = Head(fans[c])
    /\ enlisted < n /\ enlisted <= Cardinality(Workers)
    /\ fans' = [fans EXCEPT ![c] = Tail(@)]
    /\ job' = [job EXCEPT ![c] = NewJob(n, enlisted)]
    /\ \/ /\ enlisted = 0
          /\ Go(c, "claim")
          /\ UNCHANGED <<queue, wakes>>
       \/ /\ enlisted > 0 /\ Free
          /\ queue' = Append(queue, c)
          /\ wakes' = [wakes EXCEPT ![c] = Wakes(enlisted)]
          /\ Go(c, IF Wakes(enlisted) = 0 THEN "claim" ELSE "wake")
    /\ UNCHANGED <<mutex, closing, idle, on, index, spurious>>

\* notify_one, without the mutex: lost when no worker sleeps.
WakeOne(c) ==
    /\ pc[c] = "wake" /\ wakes[c] < Cardinality(Workers)
    /\ wakes' = [wakes EXCEPT ![c] = @ - 1]
    /\ LET to == IF wakes[c] = 1 THEN "claim" ELSE "wake" IN
       \/ /\ Rouse(Workers) = {}
          /\ Go(c, to)
       \/ \E w \in Rouse(Workers) : pc' = [pc EXCEPT ![w] = "woken", ![c] = to]
    /\ UNCHANGED <<mutex, closing, idle, queue, job, on, index, fans, spurious>>

\* notify_all, when the job can use the whole pool and all of it is idle.
WakeAll(c) ==
    /\ pc[c] = "wake" /\ wakes[c] >= Cardinality(Workers)
    /\ wakes' = [wakes EXCEPT ![c] = 0]
    /\ pc' = [t \in Threads |-> IF t = c THEN "claim"
                                ELSE IF t \in Rouse(Workers) THEN "woken" ELSE pc[t]]
    /\ UNCHANGED <<mutex, closing, idle, queue, job, on, index, fans, spurious>>

\* The job is in the list when its caller takes it out.
Unlinked(c) ==
    LET at == CHOOSE k \in DOMAIN queue : queue[k] = c
    IN  [k \in 1 .. Len(queue) - 1 |-> queue[IF k < at THEN k ELSE k + 1]]

\* The caller has run out of indices: no worker joins from here on.
Join(c) ==
    /\ pc[c] = "join" /\ Free
    /\ queue' = Unlinked(c)
    /\ job' = [job EXCEPT ![c].remaining = @ - 1]
    /\ IF job[c].remaining = 1 THEN Go(c, "return") /\ UNCHANGED mutex
                               ELSE Go(c, "check") /\ mutex' = c
    /\ UNCHANGED <<closing, idle, wakes, on, index, fans, spurious>>

\* Mutant of Drained: the last worker isn't waited for.
DrainedButOne(c) == job[c].remaining <= 1

Drained(c) == job[c].remaining = 0

\* The wait's predicate, and the sleep, which gives up the mutex with it.
Check(c) ==
    /\ pc[c] = "check"
    /\ \/ Drained(c) /\ Go(c, "return") /\ mutex' = None
       \/ ~Drained(c) /\ Go(c, "block") /\ UNCHANGED mutex
    /\ UNCHANGED <<closing, idle, queue, job, wakes, on, index, fans, spurious>>

Block(c) ==
    /\ pc[c] = "block"
    /\ mutex' = None
    /\ Go(c, "asleep")
    /\ UNCHANGED <<closing, idle, queue, job, wakes, on, index, fans, spurious>>

Recheck(c) ==
    /\ pc[c] = "woken" /\ Free
    /\ mutex' = c
    /\ Go(c, "check")
    /\ UNCHANGED <<closing, idle, queue, job, wakes, on, index, fans, spurious>>

\* The exception is thrown again, and the job's stack frame goes.
Return(c) ==
    /\ pc[c] = "return"
    /\ job' = [job EXCEPT ![c] = NoJob]
    /\ Go(c, "out")
    /\ UNCHANGED <<mutex, closing, idle, queue, wakes, on, index, fans, spurious>>

-----------------------------------------------------------------------------
(* The destructor, which the owner runs with no fan-out in flight. *)

SetStop ==
    /\ closing = "open" /\ Free /\ \A c \in Callers : pc[c] = "out"
    /\ closing' = "stopping"
    /\ UNCHANGED <<mutex, idle, queue, job, wakes, pc, on, index, fans, spurious>>

\* Mutant of TellAll: one worker is told.
TellOne ==
    /\ closing = "stopping"
    /\ closing' = "told"
    /\ \/ Rouse(Workers) = {} /\ UNCHANGED pc
       \/ \E w \in Rouse(Workers) : Go(w, "woken")
    /\ UNCHANGED <<mutex, idle, queue, job, wakes, on, index, fans, spurious>>

TellAll ==
    /\ closing = "stopping"
    /\ closing' = "told"
    /\ pc' = [t \in Threads |-> IF t \in Rouse(Workers) THEN "woken" ELSE pc[t]]
    /\ UNCHANGED <<mutex, idle, queue, job, wakes, on, index, fans, spurious>>

\* A wait on a condition variable may end for no reason.
Spurious(t) ==
    /\ pc[t] = "asleep" /\ spurious > 0
    /\ spurious' = spurious - 1
    /\ Go(t, "woken")
    /\ UNCHANGED <<mutex, closing, idle, queue, job, wakes, on, index, fans>>

RunIndices(t) == Claim(t) \/ BeginTask(t) \/ EndTask(t) \/ ThrowTask(t)

WorkerStep(w) ==
    \/ LookStop(w) \/ LookJoin(w) \/ LookSleep(w)
    \/ RunIndices(w) \/ Leave(w) \/ NotifyDone(w)

\* A fan-out on its way: what follows Post on the caller's thread.
CallerStep(c) ==
    \/ WakeOne(c) \/ WakeAll(c) \/ RunIndices(c)
    \/ Join(c) \/ Check(c) \/ Block(c) \/ Recheck(c) \/ Return(c)

Next ==
    \/ \E w \in Workers : WorkerStep(w)
    \/ \E c \in Callers : CallerStep(c)
    \/ \E c \in Callers, n \in 1 .. MaxN : \E enlisted \in 0 .. n - 1 : Post(c, n, enlisted)
    \/ SetStop \/ TellAll
    \/ \E t \in Threads : Spurious(t)

Spec == Init /\ [][Next]_vars

\* Every thread runs on, tasks end, and a mutex that stays free is taken.
FairSpec ==
    /\ Spec
    /\ \A w \in Workers : WF_vars(WorkerStep(w))
    /\ \A c \in Callers : WF_vars(CallerStep(c))
    /\ WF_vars(TellAll)

-----------------------------------------------------------------------------
(* Properties. *)

Job == [n : 0 .. MaxN, cursor : Nat, enlisted : Nat, joined : Nat, remaining : Nat,
        aborted : BOOLEAN, eptr : Indices \cup {None},
        ran : [Indices -> Nat], thrown : Seq(Indices)]

\* The state keeps its types: in particular no count goes below zero.
TypeOK ==
    /\ mutex \in Callers \cup {None}
    /\ closing \in {"open", "stopping", "told"}
    /\ idle \in Nat
    /\ queue \in Seq(Callers)
    /\ job \in [Callers -> Job]
    /\ wakes \in [Callers -> Nat]
    /\ pc \in [Threads -> {"look", "asleep", "woken", "claim", "task", "run", "leave", "notify",
                           "gone", "out", "wake", "join", "check", "block", "return"}]
    /\ on \in [Workers -> Callers \cup {None}]
    /\ index \in [Threads -> Indices]
    /\ fans \in [Callers -> Seq(1 .. MaxN)] /\ spurious \in Nat

\* The job lives on its caller's stack: while a worker has it, or could still
\* find it in the list, its caller has not finished waiting.
JobOutlivesUse ==
    \A c \in Callers : pc[c] \in {"return", "out"} =>
        /\ \A w \in Workers : on[w] # c
        /\ \A k \in DOMAIN queue : queue[k] # c

\* A fan-out that ends has run every index once, unless a task threw: then none
\* twice, and what its caller throws again is the first exception.
EachIndexOnce ==
    \A c \in Callers : pc[c] = "return" =>
        LET j == job[c] IN
        IF j.thrown = << >>
          THEN j.eptr = None /\ \A i \in 0 .. j.n - 1 : j.ran[i] = 1
          ELSE j.eptr = Head(j.thrown) /\ \A i \in Indices : j.ran[i] <= 1

Seats == UNION {{c} \X (1 .. job[c].enlisted - job[c].joined) :
                  c \in {queue[k] : k \in Joinable}}
Calls == UNION {{c} \X (1 .. wakes[c]) : c \in Callers}
Waking == {w \in Workers : pc[w] \in {"look", "woken", "notify"}}

\* No worker sleeps while a job has a seat for it: those awake and those about to
\* be woken are enough for every seat, or the whole pool is being woken.
NobodySleepsThroughWork ==
    Rouse(Workers) # {} =>
        \/ Cardinality(Waking) + Cardinality(Calls) >= Cardinality(Seats)
        \/ Cardinality(Calls) >= Cardinality(Rouse(Workers))

\* Every fan-out returns, whatever its tasks throw and whoever else posts.
FanOutReturns == \A c \in Callers : []<>(pc[c] = "out")

\* Once the pool is being destroyed, every worker ends.
WorkersEnd == closing # "open" ~> \A w \in Workers : pc[w] = "gone"

=============================================================================
