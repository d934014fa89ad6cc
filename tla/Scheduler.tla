------------------------------ MODULE Scheduler ------------------------------
(***************************************************************************)
(* The synchronous scheduler (scheduler.cpp) and its process table         *)
(* (process.cpp): one thread runs processes a step at a time; between      *)
(* steps it applies the commands other threads posted, wakes what is due   *)
(* and, with nothing to run, sleeps until a timer, a post or a stop.       *)
(*                                                                         *)
(* A process is its fields and, under "idx", its place in the table's      *)
(* indexes, which only Update brings in line.  A deadline is "none",       *)
(* "later" or "due", and time passes by making a deadline due.  A program  *)
(* is the kinds of call it makes, in any order.  There is one channel, of  *)
(* which the number of queued messages counts.  What a command does is     *)
(* chosen when it is applied.  Which runnable process is picked is left    *)
(* open: it depends on the policy.  A lock wait is its deadline and its    *)
(* wake; LockHomes has the rest.  A watch event is a signal.               *)
(***************************************************************************)
EXTENDS Naturals, Sequences, FiniteSets

CONSTANTS Pids,
          Loads,      \* bound: what a run may be given
          LastCalls,  \* what the last call of a handler may do to its own process
          MaxQueued,  \* max_pending_messages
          MaxSignals  \* bound: signals pending for a process

Controls == {"kill", "pause", "resume", "signal"}
Calls == Controls \cup {"sleep", "recv", "await", "lock", "send"}

\* The programs, and how many commands are posted, stops made, and kills, expiries,
\* callbacks and allocations fail, over the run.
IsLoad(l) == l \in [calls : [Pids -> SUBSET Calls], posts : Nat, stops : Nat, throws : Nat]

ASSUME SchedulerAssumption ==
    /\ \A l \in Loads : IsLoad(l)
    /\ LastCalls \subseteq {"kill", "pause", "sleep"}
    /\ MaxQueued \in Nat \ {0} /\ MaxSignals \in Nat

VARIABLES proc,      \* by process: its fields and its table entry
          mail,      \* messages queued on the channel
          controls,  \* the commands posted, by number
          batch,     \* those taken by apply_controls or the destructor
          waiting,   \* controls_waiting_
          posted,    \* commands posted so far
          posting,   \* a poster holds the mutex and has still to notify
          heard,     \* the commands whose done was called
          pc,        \* where the scheduler's thread is
          stopReq, running, signaled,
          stopping,  \* a stop has still to notify
          told,      \* a stop that found the run running
          load       \* what is left of the load

procs == <<proc, mail>>
posts == <<controls, batch, waiting, posted, posting, heard>>
ends == <<stopReq, stopping, told>>
vars == <<procs, posts, ends, pc, running, signaled, load>>

-----------------------------------------------------------------------------
(* The process table. *)

Finished == {"ended", "killed"}
Runnable == {"ready", "running"}

\* deadline_of: which deadline a waiting process has a timer for.
DeadlineOf(r) == CASE r.status # "waiting" -> "none"
                   [] r.status = "waiting" /\ r.wake # "none" -> "wake"
                   [] r.status = "waiting" /\ r.wake = "none" /\ r.recv /\ r.recvBy # "none" -> "recv"
                   [] r.status = "waiting" /\ r.wake = "none" /\ ~(r.recv /\ r.recvBy # "none")
                        /\ r.lock # "no" /\ r.lockBy # "none" -> "lock"
                   [] OTHER -> "none"

\* process_table::update.  Only insert gives a slot.
Update(r) ==
    [r EXCEPT !.idx =
        [slot     |-> @.slot /\ r.status \notin Finished,
         queued   |-> r.status \in Runnable /\ (@.queued \/ @.slot),
         sleeping |-> r.status = "waiting" /\ r.wake # "none",
         bucket   |-> r.status = "waiting" /\ r.recv,
         locking  |-> r.status = "waiting" /\ r.lock # "no",
         timer    |-> DeadlineOf(r)]]

\* Mutant of SetStatus: the shortcut forgets the processes that stop being runnable.
SetStatusShort(r, s) ==
    LET set == [r EXCEPT !.status = s] IN
    IF r.status \in Runnable THEN set ELSE Update(set)

\* From runnable to runnable there is nothing to update.
SetStatus(r, s) ==
    LET set == [r EXCEPT !.status = s] IN
    IF r.status \in Runnable /\ s \in Runnable THEN set ELSE Update(set)

New == Update([status |-> "ready", wake |-> "none", recv |-> FALSE, recvBy |-> "none",
               lock |-> "no", lockBy |-> "none", handler |-> FALSE, signals |-> 0,
               idx |-> [slot |-> TRUE, queued |-> FALSE, sleeping |-> FALSE,
                        bucket |-> FALSE, locking |-> FALSE, timer |-> "none"]])

Queued == {p \in Pids : proc[p].idx.queued}

\* has_runnable.
HasRunnable == \E p \in Pids : LET i == proc[p].idx IN
                   i.queued \/ i.sleeping \/ i.bucket \/ i.locking

\* The entry of the process on the timer heap is for a deadline that passed.
Due(r) == \/ r.idx.timer = "wake" /\ r.wake = "due"
          \/ r.idx.timer = "recv" /\ r.recvBy = "due"
          \/ r.idx.timer = "lock" /\ r.lockBy = "due"

-----------------------------------------------------------------------------
(* What is done to a process. *)

NoLock(r) == [r EXCEPT !.lock = "no", !.lockBy = "none"]

\* kill_process, check_limits' too; the lock home forgets the process.
Killed(r) == NoLock(SetStatus(r, "killed"))

\* terminate_process and fail_process.
Ended(r) == NoLock(SetStatus(r, "ended"))

\* The direct calls, and what a command does.
Controlled(r, what) ==
    CASE what = "kill" /\ r.status \notin Finished -> Killed(r)
      [] what = "pause" /\ r.status \in Runnable -> SetStatus(r, "paused")
      [] what = "resume" /\ r.status = "paused" -> SetStatus(r, "ready")
      [] what = "signal" /\ r.status \notin Finished /\ r.signals < MaxSignals ->
            [r EXCEPT !.signals = @ + 1]
      [] OTHER -> r

Slept(r, d) == SetStatus([r EXCEPT !.wake = d], "waiting")

\* receive_message and receive_message_until: a second update for the deadline.
Received(r, d) ==
    Update([SetStatus([r EXCEPT !.recv = TRUE, !.recvBy = "none"], "waiting") EXCEPT !.recvBy = d])

LockWaited(r, kind, d) ==
    SetStatus([r EXCEPT !.lock = kind, !.lockBy = d], "waiting")

\* deliver_to_receivers: the receiver index names the processes, and is left first.
Delivered(r) ==
    IF r.idx.bucket
    THEN SetStatus([r EXCEPT !.idx.bucket = FALSE, !.recv = FALSE, !.recvBy = "none"], "ready")
    ELSE r

\* apply_wake: a lock waiter has its grant, or is told that it is out of time.
LockWoken(r) == SetStatus(NoLock(r), "ready")

\* Mutant of Woken: a message wait that timed out stays one.
WokenStill(r) ==
    LET spent == [r EXCEPT !.idx.timer = "none"] IN
    CASE r.wake = "due" -> SetStatus([spent EXCEPT !.wake = "none"], "ready")
      [] r.wake # "due" /\ r.recv /\ r.recvBy = "due" -> SetStatus(spent, "ready")
      [] OTHER -> Update([spent EXCEPT !.lockBy = "none"])

\* wake_due on one process: a lock wait loses its deadline and goes on waiting.
Woken(r) ==
    LET spent == [r EXCEPT !.idx.timer = "none"] IN
    CASE r.wake = "due" -> SetStatus([spent EXCEPT !.wake = "none"], "ready")
      [] r.wake # "due" /\ r.recv /\ r.recvBy = "due" ->
            SetStatus([spent EXCEPT !.recv = FALSE, !.recvBy = "none"], "ready")
      [] r.wake # "due" /\ ~(r.recv /\ r.recvBy = "due") /\ r.lock # "no" /\ r.lockBy = "due" ->
            Update([spent EXCEPT !.lockBy = "none"])
      [] OTHER -> Update(spent)

\* Mutant of Kept: nothing is put back.
KeptNot(r) == r

\* keep_lock_expiries on one listed process.
Kept(r) == IF r.status = "waiting" /\ r.lock # "no" /\ r.lockBy = "none"
           THEN Update([r EXCEPT !.lockBy = "due"])
           ELSE r

-----------------------------------------------------------------------------
(* The scheduler's thread. *)

Init ==
    /\ proc = [p \in Pids |-> New] /\ mail = 0
    /\ controls = << >> /\ batch = << >> /\ heard = << >>
    /\ waiting = 0 /\ posted = 0 /\ posting = FALSE
    /\ pc = "out"
    /\ stopReq = FALSE /\ running = FALSE /\ signaled = FALSE
    /\ stopping = FALSE /\ told = FALSE
    /\ load \in Loads

Goes(from, to) == pc = from /\ pc' = to

\* One of the failures left to the run.
Throws == load.throws > 0 /\ load' = [load EXCEPT !.throws = @ - 1]

\* run_end, whichever way the run ends.
RunEnds == pc' = "out" /\ running' = FALSE /\ told' = FALSE
Continues == pc' = "top" /\ UNCHANGED <<running, told>>

\* Mutant of Begin: the run is published, then an earlier stop discarded.
BeginPublished ==
    /\ \/ Goes("out", "begin") /\ running' = TRUE /\ UNCHANGED stopReq
       \/ Goes("begin", "top") /\ stopReq' = FALSE /\ UNCHANGED running
    /\ UNCHANGED <<procs, posts, stopping, told, signaled, load>>

\* run_steps discards a stop from before it, and only then publishes the run.
Begin ==
    /\ \/ Goes("out", "begin") /\ stopReq' = FALSE /\ UNCHANGED running
       \/ Goes("begin", "top") /\ running' = TRUE /\ UNCHANGED stopReq
    /\ UNCHANGED <<procs, posts, stopping, told, signaled, load>>

\* The loop's test.
Top ==
    /\ pc = "top"
    /\ IF stopReq THEN RunEnds ELSE pc' = "controls" /\ UNCHANGED <<running, told>>
    /\ UNCHANGED <<procs, posts, stopReq, stopping, signaled, load>>

\* apply_controls takes the queue: in the loop, and again in the step.
Take ==
    /\ \/ pc = "controls" /\ pc' = IF waiting = 0 THEN "ready" ELSE "apply"
       \/ pc = "step" /\ pc' = IF waiting = 0 THEN "timers" ELSE "applyInStep"
    /\ IF waiting = 0 THEN UNCHANGED <<controls, batch>>
                      ELSE ~posting /\ batch' = controls /\ controls' = << >>
    /\ UNCHANGED <<procs, ends, waiting, posted, posting, heard, running, signaled, load>>

Applying == pc \in {"apply", "applyInStep"}

\* settle, or refuse_control: the head of the batch counts no more, and its done is called.
Settle ==
    /\ waiting' = waiting - 1
    /\ heard' = Append(heard, Head(batch)) /\ batch' = Tail(batch)

Apply ==
    /\ Applying /\ batch # << >>
    /\ Settle
    /\ \E p \in Pids, what \in Controls :
         /\ proc' = [proc EXCEPT ![p] = Controlled(@, what)]
         /\ \/ UNCHANGED <<pc, load>>
            \/ /\ Throws /\ what = "kill"  \* a kill has killed its process all the same
               /\ pc' = "requeue"
    /\ UNCHANGED <<mail, controls, posted, posting, ends, running, signaled>>

\* A command without an effect here, set_priority say, which may throw.
ApplyOther ==
    /\ Applying /\ batch # << >>
    /\ Settle
    /\ \/ UNCHANGED <<pc, load>>
       \/ Throws /\ pc' = "requeue"
    /\ UNCHANGED <<procs, controls, posted, posting, ends, running, signaled>>

Applied ==
    /\ Applying /\ batch = << >>
    /\ pc' = IF pc = "apply" THEN "ready" ELSE "timers"
    /\ UNCHANGED <<procs, posts, ends, running, signaled, load>>

\* Mutant of Requeued: behind what was posted since.
RequeuedLast == controls \o batch

Requeued == batch \o controls

\* The rest of a batch of which a command threw goes back in front, and the run ends.
Requeue ==
    /\ pc = "requeue" /\ ~posting
    /\ controls' = Requeued /\ batch' = << >>
    /\ RunEnds
    /\ UNCHANGED <<procs, waiting, posted, posting, heard, stopReq, stopping, signaled, load>>

\* Without memory for that, the rest is refused.
RefuseRest ==
    /\ pc = "requeue" /\ batch # << >> /\ Throws
    /\ waiting' = waiting - Len(batch)
    /\ heard' = heard \o batch /\ batch' = << >>
    /\ RunEnds
    /\ UNCHANGED <<procs, controls, posted, posting, stopReq, stopping, signaled>>

\* has_runnable, and the budgets.
Ready ==
    /\ pc = "ready"
    /\ \/ HasRunnable /\ pc' = "step" /\ UNCHANGED <<running, told>>
       \/ RunEnds
    /\ UNCHANGED <<procs, posts, stopReq, stopping, signaled, load>>

-----------------------------------------------------------------------------
(* step_once. *)

\* drain_port: another home granted a lock.
Granted ==
    /\ pc = "step"
    /\ \E p \in Pids :
         /\ proc[p].idx.locking
         /\ proc' = [proc EXCEPT ![p] = LockWoken(@)]
    /\ UNCHANGED <<mail, posts, ends, pc, running, signaled, load>>

\* wake_due, then wait_expired on the lock waiters it listed.  One of those may
\* throw: the rest is kept for the next pass.
Timers ==
    /\ pc = "timers"
    /\ LET due == {p \in Pids : Due(proc[p])}
           woken == [p \in Pids |-> IF p \in due THEN Woken(proc[p]) ELSE proc[p]]
           listed == {p \in due : proc[p].idx.timer = "lock"}
           Expire(served) == [p \in Pids |-> IF p \in served THEN LockWoken(woken[p])
                                             ELSE IF p \in listed THEN Kept(woken[p])
                                             ELSE woken[p]]
       IN  \/ /\ proc' = Expire(listed)
              /\ pc' = "pick" /\ UNCHANGED <<running, told, load>>
           \/ /\ Throws
              /\ \E served \in SUBSET listed : served # listed /\ proc' = Expire(served)
              /\ RunEnds
    /\ UNCHANGED <<mail, posts, stopReq, stopping, signaled>>

\* select_process finds none.
NonePicked ==
    /\ pc = "pick" /\ Queued = {}
    /\ pc' = "idle"
    /\ UNCHANGED <<procs, posts, ends, running, signaled, load>>

Picked(p) == pc = "pick" /\ p \in Queued

\* handle_signal and handle_watch_event: the handler goes on the stack, if there is one.
\* That counts as a step, and the process stays as it is.
Interrupt(p) ==
    /\ Picked(p) /\ proc[p].signals > 0 /\ ~proc[p].handler
    /\ \E handled \in BOOLEAN :
         proc' = [proc EXCEPT ![p].signals = @ - 1, ![p].handler = handled]
    /\ pc' = "top"
    /\ UNCHANGED <<mail, posts, ends, running, signaled, load>>

\* What follows the evaluator's step in execute_process_step: a handler that is
\* finished gives the stack back, and its process is ready; the process may be over
\* a limit.  "call" is what the step did to its own process, or "none".
Settled(p, w, call) ==
    LET r == w[p]
        over == IF r.status = "running" THEN SetStatus(r, "ready") ELSE r
        last == SetStatus([r EXCEPT !.handler = FALSE], "ready")
        after == IF r.handler /\ call \in LastCalls \cup {"none"} THEN {over, last} ELSE {over}
    IN  \E s \in after : \E limited \in BOOLEAN :
            proc' = [w EXCEPT ![p] = IF limited THEN Killed(s) ELSE s]

\* The process picked, as the evaluator steps it.
Stepped(p) == [proc EXCEPT ![p] = SetStatus(@, "running")]

Evaluates(p) == Picked(p) /\ (proc[p].signals = 0 \/ proc[p].handler)

\* An evaluator step whose calls leave the other processes alone.
Own(p, call, r) ==
    /\ Evaluates(p)
    /\ Settled(p, [Stepped(p) EXCEPT ![p] = r], call)
    /\ pc' = "top"
    /\ UNCHANGED <<posts, ends, running, signaled, load>>

Compute(p) == Own(p, "none", Stepped(p)[p]) /\ UNCHANGED mail

Sleep(p) ==
    /\ "sleep" \in load.calls[p] /\ UNCHANGED mail
    /\ \E d \in {"later", "due"} : Own(p, "sleep", Slept(Stepped(p)[p], d))

\* Mutant of Pops: a receiver parks whatever is queued.
PopsNever(n) == FALSE

\* pop_pending_message, before a receiver parks.
Pops(n) == n > 0

\* msg-recv; and await, on a channel's future.
Receive(p, kind, deadlines) ==
    /\ kind \in load.calls[p]
    /\ IF Pops(mail)
       THEN mail' = mail - 1 /\ Own(p, "none", Stepped(p)[p])
       ELSE UNCHANGED mail /\ \E d \in deadlines : Own(p, kind, Received(Stepped(p)[p], d))

WaitLock(p) ==
    /\ "lock" \in load.calls[p] /\ UNCHANGED mail
    /\ \/ Own(p, "lock", LockWaited(Stepped(p)[p], "open", "none"))
       \/ \E d \in {"later", "due"} : Own(p, "lock", LockWaited(Stepped(p)[p], "timed", d))

\* msg-send: every receiver has the message, or else it is queued, or dropped.
Send(p) ==
    /\ Evaluates(p) /\ "send" \in load.calls[p]
    /\ Settled(p, [q \in Pids |-> Delivered(Stepped(p)[q])], "none")
    /\ mail' = IF (\E q \in Pids : proc[q].idx.bucket) \/ mail = MaxQueued THEN mail ELSE mail + 1
    /\ pc' = "top"
    /\ UNCHANGED <<posts, ends, running, signaled, load>>

\* The intrinsics kill, pause and resume, and a host call that signals.
Control(p) ==
    /\ Evaluates(p) /\ UNCHANGED mail
    /\ \E what \in load.calls[p] \cap Controls, q \in Pids :
         Settled(p, [Stepped(p) EXCEPT ![q] = Controlled(@, what)], IF q = p THEN what ELSE "none")
    /\ pc' = "top"
    /\ UNCHANGED <<posts, ends, running, signaled, load>>

\* The program is done, or failed; its on_complete may throw.
Finish(p) ==
    /\ Evaluates(p)
    /\ proc' = [Stepped(p) EXCEPT ![p] = Ended(@)]
    /\ \/ Continues /\ UNCHANGED load
       \/ Throws /\ RunEnds
    /\ UNCHANGED <<mail, posts, stopReq, stopping, signaled>>

-----------------------------------------------------------------------------
(* idle_wait. *)

\* With a step budget the run may end at once.
Idle ==
    /\ pc = "idle"
    /\ \/ pc' = "nap" /\ UNCHANGED <<running, told>>
       \/ RunEnds
    /\ UNCHANGED <<procs, posts, stopReq, stopping, signaled, load>>

\* The test before each slice; a post to the lock port ends the wait like a command.
Nap ==
    /\ pc = "nap"
    /\ \/ /\ waiting > 0 \/ \E p \in Pids : proc[p].idx.locking
          /\ Continues
       \/ /\ stopReq \/ \E p \in Pids : Due(proc[p])
          /\ IF waiting > 0 \/ (\E p \in Pids : proc[p].idx.timer # "none") THEN Continues ELSE RunEnds
       \/ /\ ~stopReq /\ waiting = 0 /\ \A p \in Pids : ~Due(proc[p])
          /\ pc' = "asleep" /\ UNCHANGED <<running, told>>
    /\ UNCHANGED <<procs, posts, stopReq, stopping, signaled, load>>

\* wait_until ends by a notification, at the deadline, or with its slice.
Notified ==
    /\ signaled /\ signaled' = FALSE
    /\ Goes("asleep", "nap")
    /\ UNCHANGED <<procs, posts, ends, running, load>>

TimerEnds ==
    /\ \E p \in Pids : Due(proc[p])
    /\ Goes("asleep", "nap")
    /\ UNCHANGED <<procs, posts, ends, running, signaled, load>>

SliceEnds ==
    /\ Goes("asleep", "nap")
    /\ UNCHANGED <<procs, posts, ends, running, signaled, load>>

-----------------------------------------------------------------------------
(* The destructor. *)

\* Its owner destroys the scheduler outside a run, with no post under way.
Destroy ==
    /\ ~posting
    /\ Goes("out", "refuse")
    /\ batch' = controls /\ controls' = << >>
    /\ UNCHANGED <<procs, ends, waiting, posted, posting, heard, running, signaled,
                   load>>

\* The done it calls may post again: for the next round.
Refuse ==
    /\ pc = "refuse" /\ batch # << >>
    /\ heard' = Append(heard, Head(batch)) /\ batch' = Tail(batch)
    /\ \/ waiting' = waiting - 1 /\ UNCHANGED <<controls, posted, load>>
       \/ /\ load.posts > 0 /\ load' = [load EXCEPT !.posts = @ - 1]
          /\ waiting' = waiting /\ posted' = posted + 1
          /\ controls' = Append(controls, posted + 1)
    /\ UNCHANGED <<procs, ends, posting, pc, running, signaled>>

Round ==
    /\ pc = "refuse" /\ batch = << >>
    /\ batch' = controls /\ controls' = << >>
    /\ pc' = IF controls = << >> THEN "gone" ELSE "refuse"
    /\ UNCHANGED <<procs, ends, waiting, posted, posting, heard, running, signaled,
                   load>>

-----------------------------------------------------------------------------
(* The other threads, and time. *)

Usable == pc \notin {"refuse", "gone"}

\* post_control, under its mutex: the command is queued and counted ...
Post ==
    /\ Usable /\ ~posting
    /\ load.posts > 0 /\ load' = [load EXCEPT !.posts = @ - 1]
    /\ posted' = posted + 1 /\ controls' = Append(controls, posted + 1)
    /\ waiting' = waiting + 1 /\ posting' = TRUE
    /\ UNCHANGED <<procs, ends, batch, heard, pc, running, signaled>>

\* Mutant of PostNotify: the idle wait isn't told.
PostQuiet ==
    /\ posting /\ posting' = FALSE
    /\ UNCHANGED <<procs, ends, controls, batch, waiting, posted, heard, pc, running,
                   signaled, load>>

\* ... then the idle wait is notified.
PostNotify ==
    /\ posting /\ posting' = FALSE
    /\ signaled' = TRUE
    /\ UNCHANGED <<procs, ends, controls, batch, waiting, posted, heard, pc, running,
                   load>>

\* stop(): the flag, then the notification.
Stop ==
    /\ Usable /\ ~stopping
    /\ load.stops > 0 /\ load' = [load EXCEPT !.stops = @ - 1]
    /\ stopReq' = TRUE /\ stopping' = TRUE /\ told' = running
    /\ UNCHANGED <<procs, posts, pc, running, signaled>>

StopNotify ==
    /\ stopping /\ stopping' = FALSE
    /\ signaled' = TRUE
    /\ UNCHANGED <<procs, posts, stopReq, told, pc, running, load>>

Pass(d) == IF d = "later" THEN "due" ELSE d

\* A deadline passes.
Tick ==
    /\ \E p \in Pids, d \in {"wake", "recvBy", "lockBy"} :
         /\ proc[p][d] = "later"
         /\ proc' = [proc EXCEPT ![p][d] = Pass(@)]
    /\ UNCHANGED <<mail, posts, ends, pc, running, signaled, load>>

-----------------------------------------------------------------------------

Evaluate(p) ==
    \/ Interrupt(p) \/ Compute(p) \/ Sleep(p)
    \/ Receive(p, "recv", {"none"}) \/ Receive(p, "await", {"later", "due"})
    \/ WaitLock(p) \/ Send(p) \/ Control(p) \/ Finish(p)

\* The scheduler's thread; SliceEnds is left to chance.
SchedulerStep ==
    \/ Begin \/ Top \/ Take \/ Apply \/ ApplyOther \/ Applied
    \/ Requeue \/ RefuseRest \/ Ready \/ Granted \/ Timers \/ NonePicked
    \/ \E p \in Pids : Evaluate(p)
    \/ Idle \/ Nap \/ Notified \/ TimerEnds
    \/ Destroy \/ Refuse \/ Round

Others == Post \/ PostNotify \/ Stop \/ StopNotify \/ Tick

Next == SchedulerStep \/ SliceEnds \/ Others

Spec == Init /\ [][Next]_vars

\* The scheduler's thread runs on, its host runs the scheduler again or destroys it,
\* and a poster or a stopper completes its call.  That a slice ends is not assumed,
\* nor that time passes.
FairSpec == Spec /\ WF_vars(SchedulerStep) /\ WF_vars(PostNotify) /\ WF_vars(StopNotify)

-----------------------------------------------------------------------------
(* Properties. *)

Deadlines == {"none", "later", "due"}
Index == [slot : BOOLEAN, queued : BOOLEAN, sleeping : BOOLEAN, bucket : BOOLEAN,
          locking : BOOLEAN, timer : {"none", "wake", "recv", "lock"}]
Process == [status : {"ready", "waiting", "paused"} \cup Finished, wake : Deadlines,
            recv : BOOLEAN, recvBy : Deadlines, lock : {"no", "open", "timed"},
            lockBy : Deadlines, handler : BOOLEAN, signals : 0 .. MaxSignals, idx : Index]

\* Every variable has its type.
TypeOK ==
    /\ proc \in [Pids -> Process] /\ mail \in 0 .. MaxQueued
    /\ controls \in Seq(Nat) /\ batch \in Seq(Nat) /\ heard \in Seq(Nat)
    /\ waiting \in Nat /\ posted \in Nat
    /\ {posting, stopReq, running, signaled, stopping, told} \subseteq BOOLEAN
    /\ IsLoad(load)
    /\ pc \in {"out", "begin", "top", "controls", "apply", "applyInStep", "requeue", "ready", "step", "timers",
               "pick", "idle", "nap", "asleep", "refuse", "gone"}

\* Between steps the table's indexes agree with the processes: exactly the runnable
\* ones can be picked, an ended one is in no index for good, every waiting one can be
\* found by what will wake it, and a deadline has its timer (process_table::check).
IndexesMatch ==
    \A p \in Pids : LET r == proc[p] IN
        /\ r.idx.slot = (r.status \notin Finished)
        /\ r.idx.queued = (r.status = "ready")
        /\ r.idx.sleeping = (r.status = "waiting" /\ r.wake # "none")
        /\ r.idx.bucket = (r.status = "waiting" /\ r.recv)
        /\ r.idx.locking = (r.status = "waiting" /\ r.lock # "no")
        /\ r.idx.timer = DeadlineOf(r)

\* No process waits for a message while one is queued on its channel.
MailNeverWaits == \A p \in Pids : mail > 0 => ~proc[p].idx.bucket

\* A lock wait with a time limit always has a timer, also after a timer pass that threw.
DeadlinesKept == \A p \in Pids :
    proc[p].status = "waiting" /\ proc[p].lock = "timed" => proc[p].idx.timer = "lock"

\* A wait for a message ends with the message, with its own deadline or with the
\* process: never because some other deadline passed.
WaitsEndRight ==
    [][\A p \in Pids : proc[p].status = "waiting" /\ proc[p].recv /\ proc'[p].status = "ready"
                       => ~proc'[p].recv]_vars

\* Commands are heard of once each and in the order posted, through batches cut short
\* by a throw and through the destructor, and those still waiting are counted.
HeardInOrder ==
    /\ heard \o batch \o controls = [i \in 1 .. posted |-> i]
    /\ waiting = Len(batch) + Len(controls)

\* Every command posted is heard of, though an idle run is woken by nothing else.
PostsHeard == []<>(Len(heard) = posted)

\* A stop made while the run was published ends that run.
StopEnds == []<>(~told)
=============================================================================
