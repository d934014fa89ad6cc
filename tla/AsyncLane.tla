------------------------------ MODULE AsyncLane ------------------------------
(***************************************************************************)
(* The worker lanes (async_lane.cpp).  A lane runs the jobs submitted to   *)
(* it in order, one at a time: a threaded lane on a worker of its own, a   *)
(* deferred lane on whichever thread drains it.  A job may submit to a     *)
(* lane, stop it or drain it, so lanes nest on a thread: its stack holds   *)
(* the lane calls it is in, and a lane call by a thread that runs a job of *)
(* that lane, at any depth, never waits for itself.                        *)
(*                                                                         *)
(* A critical section of a lane's mutex is one step, and so is an atomic   *)
(* access or what a thread does alone.  Every job is a lane task, which    *)
(* answers its waiter once, with a value or with an error; that a throw is *)
(* counted and reported is left out, as nothing depends on it.  Joins      *)
(* queue on a mutex for the one event all of them wait for.                *)
(***************************************************************************)
EXTENDS Naturals, Sequences, FiniteSets

CONSTANTS Lanes,
          Threaded,   \* the lanes with a worker, which has its lane's name
          Callers,    \* the other threads
          Pump,       \* the caller that drives the frames
          None,       \* no lane
          Stops,      \* <<l, m>>: the jobs of l may stop m
          PerCall,    \* the jobs one run_deferred may run
          MaxJobs,    \* bound: submits, over the run
          MaxCalls    \* bound: lane calls of one job

Threads == Callers \cup Threaded
Jobs == 1 .. MaxJobs

ASSUME LanesAssumption ==
    /\ Threaded \subseteq Lanes /\ Callers \cap Lanes = {} /\ None \notin Lanes
    /\ Pump \in Callers /\ Stops \subseteq Lanes \X Lanes
ASSUME LaneLimits == PerCall \in Nat \ {0} /\ MaxJobs \in Nat /\ MaxCalls \in Nat

VARIABLES queue,     \* by lane: the jobs not started
          stopping,  \* by lane
          draining,  \* by lane: a deferred drain is running
          inFlight,  \* by lane
          stack,     \* by thread: the frames it is in, innermost last
          made,      \* jobs submitted so far
          home,      \* by job: the lane that took it
          answers,   \* by job: what its waiter was sent
          ended      \* the lanes of which a stop from outside has returned

vars == <<queue, stopping, draining, inFlight, stack, made, home, answers, ended>>

-----------------------------------------------------------------------------
(* Frames. *)

\* "loop" and "asleep": the worker between jobs; "job" and "count": a job, and what
\* follows its release; "size" and "drain": run_deferred; "wake", "join", "seize" and
\* "flush": stop; "tell": the end of submit.
Frame(op, l, job, left) == [op |-> op, lane |-> l, job |-> job, left |-> left]

Call(op, l) == Frame(op, l, 0, 0)

Top(t) == stack[t][Len(stack[t])]
In(t, op) == stack[t] # << >> /\ Top(t).op = op
Below(t) == SubSeq(stack[t], 1, Len(stack[t]) - 1)

Push(t, s, f) == stack' = [stack EXCEPT ![t] = Append(s, f)]
Becomes(t, f) == Push(t, Below(t), f)
Pop(t) == stack' = [stack EXCEPT ![t] = Below(t)]

Scopes == {"loop", "asleep", "drain", "flush"}

\* Mutant of RunningHere: only the innermost lane of the thread is looked at.
InnermostHere(t, l) ==
    LET scopes == {i \in DOMAIN stack[t] : stack[t][i].op \in Scopes} IN
    \E i \in scopes : stack[t][i].lane = l /\ \A k \in scopes : k <= i

\* lane_running_on_this_thread: a scope of l anywhere on the thread.
RunningHere(t, l) == \E i \in DOMAIN stack[t] :
                        stack[t][i].op \in Scopes /\ stack[t][i].lane = l

\* A thread makes a lane call from outside every lane, or from a job.
MayCall(t) == IF stack[t] = << >> THEN t \in Callers ELSE Top(t).op = "job" /\ Top(t).left > 0

MayStop(t, l) == MayCall(t) /\ (stack[t] # << >> => <<Top(t).lane, l>> \in Stops)

\* The stack of a thread that has begun a call.
Charged(t) == IF stack[t] = << >> THEN << >>
              ELSE [stack[t] EXCEPT ![Len(stack[t])].left = @ - 1]

Init ==
    /\ queue = [l \in Lanes |-> << >>]
    /\ stopping = [l \in Lanes |-> FALSE]
    /\ draining = [l \in Lanes |-> FALSE]
    /\ inFlight = [l \in Lanes |-> 0]
    /\ stack = [t \in Threads |-> IF t \in Threaded THEN <<Call("loop", t)>> ELSE << >>]
    /\ made = 0 /\ home = [j \in Jobs |-> None] /\ answers = [j \in Jobs |-> 0]
    /\ ended = {}

-----------------------------------------------------------------------------
(* submit, by post_lane_task. *)

\* Mutant of SubmitRefused: nobody tells the waiter.
SubmitDropped(t, l) ==
    /\ MayCall(t) /\ made < MaxJobs
    /\ stopping[l]
    /\ made' = made + 1
    /\ stack' = [stack EXCEPT ![t] = Charged(t)]
    /\ UNCHANGED <<queue, stopping, draining, inFlight, home, answers, ended>>

\* A lane that is stopping refuses the job, and the task is answered at once.
SubmitRefused(t, l) ==
    /\ MayCall(t) /\ made < MaxJobs
    /\ stopping[l]
    /\ made' = made + 1
    /\ answers' = [answers EXCEPT ![made + 1] = @ + 1]
    /\ stack' = [stack EXCEPT ![t] = Charged(t)]
    /\ UNCHANGED <<queue, stopping, draining, inFlight, home, ended>>

\* The queue, the count and the caller's own copy of the job change under the mutex.
SubmitQueued(t, l) ==
    /\ MayCall(t) /\ made < MaxJobs
    /\ ~stopping[l]
    /\ made' = made + 1
    /\ queue' = [queue EXCEPT ![l] = Append(@, made + 1)]
    /\ inFlight' = [inFlight EXCEPT ![l] = @ + 1]
    /\ home' = [home EXCEPT ![made + 1] = l]
    /\ stack' = [stack EXCEPT ![t] = IF l \in Threaded THEN Append(Charged(t), Call("tell", l))
                                                       ELSE Charged(t)]
    /\ UNCHANGED <<stopping, draining, answers, ended>>

\* The stacks when t goes on with s and the worker of l is notified.
Notified(t, s, l) ==
    [u \in Threads |-> IF u = t THEN s
                       ELSE IF u = l /\ In(l, "asleep") THEN <<Call("loop", l)>>
                       ELSE stack[u]]

\* Mutant of Tell: the worker isn't notified.
TellNobody(t) ==
    /\ In(t, "tell")
    /\ Pop(t)
    /\ UNCHANGED <<queue, stopping, draining, inFlight, made, home, answers, ended>>

\* notify_one, after the unlock.
Tell(t) ==
    /\ In(t, "tell")
    /\ stack' = Notified(t, Below(t), Top(t).lane)
    /\ UNCHANGED <<queue, stopping, draining, inFlight, made, home, answers, ended>>

-----------------------------------------------------------------------------
(* worker_loop and run_job. *)

Begin(t, s, l) ==
    /\ Push(t, s, Frame("job", l, Head(queue[l]), MaxCalls))
    /\ queue' = [queue EXCEPT ![l] = Tail(@)]

WorkerTake(t) ==
    /\ In(t, "loop") /\ queue[t] # << >>
    /\ Begin(t, stack[t], t)
    /\ UNCHANGED <<stopping, draining, inFlight, made, home, answers, ended>>

WorkerSleep(t) ==
    /\ In(t, "loop") /\ queue[t] = << >> /\ ~stopping[t]
    /\ Becomes(t, Call("asleep", t))
    /\ UNCHANGED <<queue, stopping, draining, inFlight, made, home, answers, ended>>

\* Mutant of WorkerLeave: a worker that is told to stop leaves its queue behind.
WorkerQuits(t) ==
    /\ In(t, "loop") /\ stopping[t]
    /\ Pop(t)
    /\ UNCHANGED <<queue, stopping, draining, inFlight, made, home, answers, ended>>

\* The queue is empty and stays so: the worker ends.
WorkerLeave(t) ==
    /\ In(t, "loop") /\ queue[t] = << >> /\ stopping[t]
    /\ Pop(t)
    /\ UNCHANGED <<queue, stopping, draining, inFlight, made, home, answers, ended>>

\* Mutant of EndJob: the job leaves the count before its captures go.
EndJobCountsFirst(t) ==
    /\ In(t, "job")
    /\ \/ /\ answers[Top(t).job] = 0
          /\ answers' = [answers EXCEPT ![Top(t).job] = 1]
          /\ inFlight' = [inFlight EXCEPT ![Top(t).lane] = @ - 1]
          /\ UNCHANGED stack
       \/ answers[Top(t).job] = 1 /\ Pop(t) /\ UNCHANGED <<answers, inFlight>>
    /\ UNCHANGED <<queue, stopping, draining, made, home, ended>>

\* The job returns or throws; its captures go, on this thread.
EndJob(t) ==
    /\ In(t, "job")
    /\ answers' = [answers EXCEPT ![Top(t).job] = @ + 1]
    /\ Becomes(t, [Top(t) EXCEPT !.op = "count"])
    /\ UNCHANGED <<queue, stopping, draining, inFlight, made, home, ended>>

Count(t) ==
    /\ In(t, "count")
    /\ inFlight' = [inFlight EXCEPT ![Top(t).lane] = @ - 1]
    /\ Pop(t)
    /\ UNCHANGED <<queue, stopping, draining, made, home, answers, ended>>

-----------------------------------------------------------------------------
(* run_deferred.  It runs nothing of a threaded lane, of one this thread is *)
(* in, or of one that another thread is draining.                           *)

DrainBegin(t, l) ==
    /\ MayCall(t) /\ l \notin Threaded /\ ~RunningHere(t, l)
    /\ ~draining[l]
    /\ draining' = [draining EXCEPT ![l] = TRUE]
    /\ Push(t, Charged(t), Call("size", l))
    /\ UNCHANGED <<queue, stopping, inFlight, made, home, answers, ended>>

Least(m, n) == IF m < n THEN m ELSE n

\* The budget is what is queued at entry: one call is one hop.  The frame keeps,
\* besides, the newest job there was.
DrainSize(t) ==
    LET l == Top(t).lane IN
    /\ In(t, "size")
    /\ Becomes(t, Frame("drain", l, made, Least(Len(queue[l]), PerCall)))
    /\ UNCHANGED <<queue, stopping, draining, inFlight, made, home, answers, ended>>

DrainTake(t) ==
    LET l == Top(t).lane IN
    /\ In(t, "drain") /\ Top(t).left > 0 /\ queue[l] # << >>
    /\ Begin(t, Charged(t), l)
    /\ UNCHANGED <<stopping, draining, inFlight, made, home, answers, ended>>

DrainEnd(t) ==
    LET l == Top(t).lane IN
    /\ In(t, "drain") /\ (Top(t).left = 0 \/ queue[l] = << >>)
    /\ draining' = [draining EXCEPT ![l] = FALSE]
    /\ Pop(t)
    /\ UNCHANGED <<queue, stopping, inFlight, made, home, answers, ended>>

-----------------------------------------------------------------------------
(* stop. *)

\* A stop from one of the lane's own jobs marks the lane, and returns.
StopWithin(t, l) ==
    /\ MayStop(t, l) /\ RunningHere(t, l)
    /\ stopping' = [stopping EXCEPT ![l] = TRUE]
    /\ stack' = [stack EXCEPT ![t] = Charged(t)]
    /\ UNCHANGED <<queue, draining, inFlight, made, home, answers, ended>>

StopBegin(t, l) ==
    /\ MayStop(t, l) /\ ~RunningHere(t, l)
    /\ stopping' = [stopping EXCEPT ![l] = TRUE]
    /\ Push(t, Charged(t), Call(IF l \in Threaded THEN "wake" ELSE "seize", l))
    /\ UNCHANGED <<queue, draining, inFlight, made, home, answers, ended>>

\* notify_all.
StopWake(t) ==
    LET l == Top(t).lane IN
    /\ In(t, "wake")
    /\ stack' = Notified(t, Append(Below(t), Call("join", l)), l)
    /\ UNCHANGED <<queue, stopping, draining, inFlight, made, home, answers, ended>>

\* A join returns when the worker has ended.
StopJoin(t) ==
    /\ In(t, "join") /\ stack[Top(t).lane] = << >>
    /\ Pop(t)
    /\ ended' = ended \cup {Top(t).lane}
    /\ UNCHANGED <<queue, stopping, draining, inFlight, made, home, answers>>

\* Mutant of StopSeize: a drain that is running isn't waited for.
StopBargesIn(t) ==
    LET l == Top(t).lane IN
    /\ In(t, "seize")
    /\ draining' = [draining EXCEPT ![l] = TRUE]
    /\ Becomes(t, Call("flush", l))
    /\ UNCHANGED <<queue, stopping, inFlight, made, home, answers, ended>>

\* The stop spins until no other thread drains the lane.
StopSeize(t) ==
    LET l == Top(t).lane IN
    /\ In(t, "seize") /\ ~draining[l]
    /\ draining' = [draining EXCEPT ![l] = TRUE]
    /\ Becomes(t, Call("flush", l))
    /\ UNCHANGED <<queue, stopping, inFlight, made, home, answers, ended>>

StopTake(t) ==
    /\ In(t, "flush") /\ queue[Top(t).lane] # << >>
    /\ Begin(t, stack[t], Top(t).lane)
    /\ UNCHANGED <<stopping, draining, inFlight, made, home, answers, ended>>

StopEnd(t) ==
    LET l == Top(t).lane IN
    /\ In(t, "flush") /\ queue[l] = << >>
    /\ draining' = [draining EXCEPT ![l] = FALSE]
    /\ Pop(t)
    /\ ended' = ended \cup {l}
    /\ UNCHANGED <<queue, stopping, inFlight, made, home, answers>>

-----------------------------------------------------------------------------

\* What a thread does by itself, without a call that someone chooses to make.
Continue(t) ==
    \/ Tell(t) \/ WorkerTake(t) \/ WorkerSleep(t) \/ WorkerLeave(t) \/ EndJob(t) \/ Count(t)
    \/ DrainSize(t) \/ DrainTake(t) \/ DrainEnd(t)
    \/ StopWake(t) \/ StopJoin(t) \/ StopSeize(t) \/ StopTake(t) \/ StopEnd(t)

Next ==
    \/ \E t \in Threads : Continue(t)
    \/ \E t \in Threads, l \in Lanes :
        SubmitRefused(t, l) \/ SubmitQueued(t, l) \/ DrainBegin(t, l)
            \/ StopWithin(t, l) \/ StopBegin(t, l)

Spec == Init /\ [][Next]_vars

\* Threads run on and jobs end; a spinning stop gets the flag if it is free again and
\* again; the pump drains every lane, frame after frame, whenever it can.
FairSpec ==
    /\ Spec
    /\ \A t \in Threads : WF_vars(Continue(t)) /\ SF_vars(StopSeize(t))
    /\ \A l \in Lanes \ Threaded : SF_vars(DrainBegin(Pump, l))

-----------------------------------------------------------------------------
(* Properties. *)

Ops == {"loop", "asleep", "job", "count", "size", "drain", "wake", "join", "seize", "flush",
        "tell"}

FrameType == [op : Ops, lane : Lanes, job : 0 .. MaxJobs, left : Nat]

\* The state keeps its types: no count goes below zero.
TypeOK ==
    /\ queue \in [Lanes -> Seq(Jobs)]
    /\ stopping \in [Lanes -> BOOLEAN] /\ draining \in [Lanes -> BOOLEAN]
    /\ inFlight \in [Lanes -> Nat]
    /\ stack \in [Threads -> Seq(FrameType)]
    /\ made \in 0 .. MaxJobs
    /\ home \in [Jobs -> Lanes \cup {None}] /\ answers \in [Jobs -> Nat]
    /\ ended \subseteq Lanes

Frames == UNION {{<<t, i>> : i \in DOMAIN stack[t]} : t \in Threads}
At(f) == stack[f[1]][f[2]]
Running(l) == {f \in Frames : At(f).lane = l /\ At(f).op \in {"job", "count"}}

\* One job at a time, in order: while a job of a lane runs, on whatever thread, those
\* the lane took before it have left, and the later ones haven't started.
SerialInOrder ==
    \A l \in Lanes : \A f \in Running(l) :
        /\ Running(l) = {f}
        /\ \A j \in Jobs : home[j] = l =>
            (j > At(f).job <=> \E k \in DOMAIN queue[l] : queue[l][k] = j)

\* The jobs whose captures l holds.
Held(l) == {queue[l][k] : k \in DOMAIN queue[l]} \cup
           {At(f).job : f \in {g \in Running(l) : At(g).op = "job"}}

\* An owner that reads a count of zero knows that the lane has let go of its objects.
IdleHoldsNothing == \A l \in Lanes : Cardinality(Held(l)) <= inFlight[l]

\* A task is answered once, when it is refused or has run, and not before.
AnsweredOnce ==
    \A j \in Jobs : answers[j] = IF j > made \/ \E l \in Lanes : j \in Held(l) THEN 0 ELSE 1

\* Once a stop from outside the lane has returned, nothing of the lane runs or is queued.
StoppedIsDrained ==
    \A l \in ended : queue[l] = << >> /\ Running(l) = {} /\ inFlight[l] = 0

\* A join waits for the lane's worker, and a seize for the thread that drains the lane.
WaitsOn(t, u) ==
    \/ In(t, "join") /\ u = Top(t).lane
    \/ /\ In(t, "seize")
       /\ \E i \in DOMAIN stack[u] : /\ stack[u][i].op \in {"size", "drain", "flush"}
                                    /\ stack[u][i].lane = Top(t).lane

\* The threads that wait on each other in a ring, through the stops that jobs of
\* different lanes make of each other's lanes, and those that wait on them.
Hung == UNION {S \in SUBSET Threads :
                \A t \in S : \E u \in S \ {t} : WaitsOn(t, u)}

\* A lane call returns to its caller, stop() within the lane's own jobs included,
\* unless the jobs of two lanes stop each other: nothing in stop() breaks such a ring,
\* in which each waits for the thread that the other keeps.
CallsReturn == \A t \in Callers : []<>(stack[t] = << >> \/ t \in Hung)

\* A lane that was told to stop, from wherever, has run dry and its worker has left.
RunDry(l) ==
    /\ queue[l] = << >> /\ Running(l) = {}
    /\ l \in Threaded => stack[l] = << >>

\* Every task is answered and every stop takes effect, in whatever order they come,
\* unless threads hang in each other's stops.
\* (A run makes MaxJobs tasks: all at once is no more than each.)
LanesSettle ==
    []<>( \/ Hung # {}
          \/ /\ \A j \in 1 .. made : answers[j] = 1
             /\ \A l \in Lanes : stopping[l] => RunDry(l) )

=============================================================================
