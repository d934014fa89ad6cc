---------------------------- MODULE SchedulerProofs ----------------------------
(***************************************************************************)
(* Proofs about Scheduler for every set of processes, every load and every *)
(* bound.                                                                  *)
(*                                                                         *)
(* What the last call of a handler may do to its own process decides what  *)
(* holds.  Commands are heard in order whatever it is.  With a kill among  *)
(* LastCalls a killed process becomes ready (README, Findings), and with a *)
(* sleep a ready process keeps a wake time, so the theorems that need it   *)
(* exclude the one or the other, and say so.                               *)
(*                                                                         *)
(* The argument is per process: every operation of the process table turns *)
(* a sound record into a sound one.                                        *)
(***************************************************************************)
EXTENDS Scheduler, SequenceTheorems, TLAPS

\* A process at any moment, also within its own step.
Record == [status : {"ready", "running", "waiting", "paused"} \cup Finished, wake : Deadlines,
           recv : BOOLEAN, recvBy : Deadlines, lock : {"no", "open", "timed"},
           lockBy : Deadlines, handler : BOOLEAN, signals : 0 .. MaxSignals, idx : Index]

\* It waits for nothing.
Cleared(r) ==
    r.wake = "none" /\ ~r.recv /\ r.recvBy = "none" /\ r.lock = "no" /\ r.lockBy = "none"

\* A process waits for one thing, and for none when it doesn't wait; a lock wait
\* with a limit has it.
OneWait(r) ==
    /\ r.status \in Runnable \cup {"paused"} => Cleared(r)
    /\ r.status = "waiting" =>
        \/ r.wake # "none" /\ ~r.recv /\ r.recvBy = "none" /\ r.lock = "no" /\ r.lockBy = "none"
        \/ r.wake = "none" /\ r.recv /\ r.lock = "no" /\ r.lockBy = "none"
        \/ /\ r.wake = "none" /\ ~r.recv /\ r.recvBy = "none"
           /\ \/ r.lock = "open" /\ r.lockBy = "none"
              \/ r.lock = "timed" /\ r.lockBy # "none"

\* The indexes of what the process waits for are exact, and only a runnable
\* process can be picked.
Indexed(r) ==
    /\ r.idx.sleeping <=> r.status = "waiting" /\ r.wake # "none"
    /\ r.idx.bucket <=> r.status = "waiting" /\ r.recv
    /\ r.idx.locking <=> r.status = "waiting" /\ r.lock # "no"
    /\ r.idx.timer = DeadlineOf(r)
    /\ r.idx.slot => r.status \notin Finished
    /\ r.idx.queued => r.status \in Runnable

\* Every process that isn't over has a slot, and a runnable one is queued.
Slotted(r) ==
    /\ r.status \notin Finished => r.idx.slot
    /\ r.status \in Runnable => r.idx.queued

Sound(r) ==
    /\ r \in Record /\ Indexed(r)
    /\ "kill" \notin LastCalls => Slotted(r)
    /\ "sleep" \notin LastCalls => OneWait(r)

AllSound == \A p \in Pids : Sound(proc[p]) /\ proc[p].status # "running"

\* The processes and their mail.
ProcsOK ==
    /\ proc \in [Pids -> Record] /\ mail \in 0 .. MaxQueued
    /\ AllSound
    /\ "sleep" \notin LastCalls => MailNeverWaits

\* The commands: a batch is held by the steps that apply or refuse it.
PostsOK ==
    /\ controls \in Seq(Nat) /\ batch \in Seq(Nat) /\ heard \in Seq(Nat)
    /\ waiting \in Nat /\ posted \in Nat
    /\ HeardInOrder
    /\ pc \notin {"apply", "applyInStep", "requeue", "refuse"} => batch = << >>

RunOK ==
    /\ {posting, stopReq, running, signaled, stopping, told} \subseteq BOOLEAN
    /\ IsLoad(load)
    /\ pc \in {"out", "begin", "top", "controls", "apply", "applyInStep", "requeue", "ready",
              "step", "timers", "pick", "idle", "nap", "asleep", "refuse", "gone"}

IInv == ProcsOK /\ PostsOK /\ RunOK

-----------------------------------------------------------------------------
(* The process table. *)

\* What update makes sound: a record with its slot, whatever its other indexes.
Fit(r) ==
    /\ r \in Record
    /\ "kill" \notin LastCalls /\ r.status \notin Finished => r.idx.slot
    /\ "sleep" \notin LastCalls => OneWait(r)

SameFields(r, q) ==
    /\ q.wake = r.wake /\ q.recv = r.recv /\ q.recvBy = r.recvBy
    /\ q.lock = r.lock /\ q.lockBy = r.lockBy

LEMMA UpdateFacts ==
  ASSUME NEW r \in Record
  PROVE  /\ Update(r) \in Record /\ Update(r).status = r.status /\ SameFields(r, Update(r))
         /\ Update(r).handler = r.handler
         /\ Update(r).idx.slot <=> r.idx.slot /\ r.status \notin Finished
         /\ Update(r).idx.queued <=> r.status \in Runnable /\ (r.idx.queued \/ r.idx.slot)
         /\ Indexed(Update(r))
  <1> DEFINE i == [slot     |-> r.idx.slot /\ r.status \notin Finished,
                   queued   |-> r.status \in Runnable /\ (r.idx.queued \/ r.idx.slot),
                   sleeping |-> r.status = "waiting" /\ r.wake # "none",
                   bucket   |-> r.status = "waiting" /\ r.recv,
                   locking  |-> r.status = "waiting" /\ r.lock # "no",
                   timer    |-> DeadlineOf(r)]
             u == Update(r)
  <1>1. DeadlineOf(r) \in {"none", "wake", "recv", "lock"}
    BY DEF DeadlineOf, Record
  <1>2. i \in Index
    BY <1>1 DEF Record, Index
  <1>3. u = [r EXCEPT !.idx = i]
    BY DEF Update
  <1>4. /\ i.slot <=> r.idx.slot /\ r.status \notin Finished
        /\ i.queued <=> r.status \in Runnable /\ (r.idx.queued \/ r.idx.slot)
        /\ i.sleeping <=> r.status = "waiting" /\ r.wake # "none"
        /\ i.bucket <=> r.status = "waiting" /\ r.recv
        /\ i.locking <=> r.status = "waiting" /\ r.lock # "no"
        /\ i.timer = DeadlineOf(r)
    OBVIOUS
  <1> HIDE DEF i, u
  <1>5. u \in Record
    BY <1>2, <1>3 DEF Record
  <1>6. u.status = r.status /\ SameFields(r, u) /\ u.handler = r.handler /\ u.idx = i
    BY <1>3 DEF Record, SameFields
  <1>7. DeadlineOf(u) = DeadlineOf(r)
    BY <1>6 DEF DeadlineOf, SameFields
  <1>8. Indexed(u)
    BY <1>4, <1>6, <1>7 DEF Indexed, SameFields, Runnable, Finished
  <1>9. QED
    BY <1>4, <1>5, <1>6, <1>8 DEF u

LEMMA UpdateSound ==
  ASSUME NEW r, Fit(r)
  PROVE  Sound(Update(r))
  <1> DEFINE u == Update(r)
  <1>1. /\ u \in Record /\ u.status = r.status /\ SameFields(r, u)
        /\ u.idx.slot <=> r.idx.slot /\ r.status \notin Finished
        /\ u.idx.queued <=> r.status \in Runnable /\ (r.idx.queued \/ r.idx.slot)
        /\ Indexed(u)
    BY UpdateFacts DEF Fit
  <1> HIDE DEF u
  <1>2. "kill" \notin LastCalls => Slotted(u)
    BY <1>1 DEF Fit, Slotted, Runnable, Finished
  <1>3. "sleep" \notin LastCalls => OneWait(u)
    BY <1>1 DEF Fit, OneWait, Cleared, SameFields
  <1>4. QED
    BY <1>1, <1>2, <1>3 DEF Sound, u

\* set_status without its update.
Marked(r, s) == [r EXCEPT !.status = s]

LEMMA MarkedFacts ==
  ASSUME NEW r \in Record, NEW s \in {"ready", "running", "waiting", "paused"} \cup Finished
  PROVE  /\ Marked(r, s) \in Record /\ Marked(r, s).status = s /\ SameFields(r, Marked(r, s))
         /\ Marked(r, s).idx = r.idx /\ Marked(r, s).handler = r.handler
  BY DEF Marked, Record, SameFields

\* Outside the shortcut set_status is the update.
LEMMA StatusSet ==
  ASSUME NEW r, NEW s, r.status \notin Runnable \/ s \notin Runnable
  PROVE  SetStatus(r, s) = Update(Marked(r, s))
  BY DEF SetStatus, Marked

LEMMA StatusKept ==
  ASSUME NEW r, Sound(r), r.status \in Runnable, NEW s \in Runnable
  PROVE  /\ SetStatus(r, s) = Marked(r, s) /\ Sound(SetStatus(r, s))
         /\ ~SetStatus(r, s).idx.bucket
  <1> DEFINE m == Marked(r, s)
  <1>1. r \in Record /\ Indexed(r)
    BY DEF Sound
  <1>2. m \in Record /\ m.status = s /\ SameFields(r, m) /\ m.idx = r.idx
    BY <1>1, MarkedFacts DEF Runnable
  <1>3. SetStatus(r, s) = m
    BY DEF SetStatus, Marked
  <1> HIDE DEF m
  <1>4. DeadlineOf(m) = "none" /\ DeadlineOf(r) = "none"
    BY <1>2 DEF DeadlineOf, Runnable
  <1>5. Indexed(m)
    BY <1>1, <1>2, <1>4 DEF Indexed, Runnable, Finished
  <1>6. ("kill" \notin LastCalls => Slotted(m)) /\ ("sleep" \notin LastCalls => OneWait(m))
    BY <1>2 DEF Sound, Slotted, OneWait, Cleared, SameFields, Runnable, Finished
  <1>7. QED
    BY <1>2, <1>3, <1>5, <1>6 DEF Sound, Indexed, Runnable, m

LEMMA StatusSound ==
  ASSUME NEW r \in Record, NEW s \in {"ready", "waiting", "paused"} \cup Finished,
         r.status \notin Runnable \/ s \notin Runnable, Fit(Marked(r, s))
  PROVE  LET q == SetStatus(r, s) IN
         /\ Sound(q) /\ q.status = s /\ SameFields(r, q) /\ q.handler = r.handler
         /\ q.idx.bucket <=> s = "waiting" /\ r.recv
         /\ q.idx.slot <=> r.idx.slot /\ s \notin Finished
  <1> DEFINE m == Marked(r, s)
             q == SetStatus(r, s)
  <1>1. m \in Record /\ m.status = s /\ SameFields(r, m) /\ m.idx = r.idx /\ m.handler = r.handler
    BY MarkedFacts
  <1>2. q = Update(m)
    BY StatusSet
  <1> HIDE DEF m, q
  <1>3. Sound(q)
    BY <1>2, UpdateSound DEF m
  <1>4. /\ q.status = m.status /\ SameFields(m, q) /\ q.handler = m.handler
        /\ q.idx.slot <=> m.idx.slot /\ m.status \notin Finished
    BY <1>1, <1>2, UpdateFacts
  <1>5. q.idx.bucket <=> s = "waiting" /\ r.recv
    BY <1>1, <1>3, <1>4 DEF Sound, Indexed, SameFields
  <1>6. QED
    BY <1>1, <1>3, <1>4, <1>5 DEF SameFields, q

LEMMA NoLockFacts ==
  ASSUME NEW r \in Record
  PROVE  LET q == NoLock(r) IN
         /\ q \in Record /\ q.status = r.status /\ q.idx = r.idx /\ q.handler = r.handler
         /\ q.wake = r.wake /\ q.recv = r.recv /\ q.recvBy = r.recvBy
         /\ q.lock = "no" /\ q.lockBy = "none"
  BY DEF NoLock, Record, Deadlines

\* kill_process, terminate_process and fail_process.
LEMMA FinishedSound ==
  ASSUME NEW r, Sound(r), NEW s \in Finished
  PROVE  LET q == NoLock(SetStatus(r, s)) IN
         /\ Sound(q) /\ q.status = s /\ ~q.idx.bucket /\ q.handler = r.handler
         /\ Cleared(r) => Cleared(q)
  <1>1. r \in Record
    BY DEF Sound
  <1>2. Marked(r, s) \in Record /\ Marked(r, s).status = s
    BY <1>1, MarkedFacts
  <1>3. Fit(Marked(r, s))
    BY <1>2 DEF Fit, OneWait, Finished, Runnable
  <1> DEFINE x == SetStatus(r, s)
             q == NoLock(x)
  <1>4. /\ Sound(x) /\ x.status = s /\ SameFields(r, x) /\ x.handler = r.handler
        /\ ~x.idx.bucket
    BY <1>1, <1>3, StatusSound DEF Finished, Runnable
  <1>5. /\ q \in Record /\ q.status = s /\ q.idx = x.idx /\ q.handler = r.handler
        /\ q.wake = r.wake /\ q.recv = r.recv /\ q.recvBy = r.recvBy
        /\ q.lock = "no" /\ q.lockBy = "none"
    BY <1>4, NoLockFacts DEF Sound, SameFields
  <1> HIDE DEF x, q
  <1>6. DeadlineOf(q) = "none" /\ DeadlineOf(x) = "none"
    BY <1>4, <1>5 DEF DeadlineOf, Finished
  <1>7. Sound(q)
    BY <1>4, <1>5, <1>6 DEF Sound, Indexed, Slotted, OneWait, Finished, Runnable
  <1>8. QED
    BY <1>4, <1>5, <1>7 DEF Cleared, q, x

LEMMA ControlledSound ==
  ASSUME NEW r, Sound(r), NEW what \in Controls
  PROVE  LET q == Controlled(r, what) IN
         /\ Sound(q) /\ q.handler = r.handler
         /\ q.idx.bucket => r.idx.bucket
         /\ q.status = "running" => r.status = "running"
         /\ what # "kill" /\ q.status \in Finished => r.status \in Finished
         /\ "sleep" \notin LastCalls /\ r.status = "running" => Cleared(q)
  <1> DEFINE q == Controlled(r, what)
  <1>1. r \in Record /\ Indexed(r) /\ r.status \in {"ready", "running", "waiting", "paused"} \cup Finished
    BY DEF Sound, Record
  <1>2. "sleep" \notin LastCalls /\ r.status = "running" => Cleared(r)
    BY DEF Sound, OneWait, Runnable
  <1>3. CASE what = "kill" /\ r.status \notin Finished
    <2>1. q = NoLock(SetStatus(r, "killed"))
      BY <1>3 DEF Controlled, Killed
    <2> HIDE DEF q
    <2>2. /\ Sound(q) /\ q.status = "killed" /\ ~q.idx.bucket /\ q.handler = r.handler
          /\ Cleared(r) => Cleared(q)
      BY <2>1, FinishedSound DEF Finished
    <2>3. QED
      BY <2>2, <1>2, <1>3 DEF q
  <1>4. CASE what = "pause" /\ r.status \in Runnable
    <2>1. q = SetStatus(r, "paused")
      BY <1>4 DEF Controlled
    <2> HIDE DEF q
    <2>2. Marked(r, "paused") \in Record /\ Marked(r, "paused").status = "paused"
          /\ SameFields(r, Marked(r, "paused")) /\ Marked(r, "paused").idx = r.idx
      BY <1>1, MarkedFacts
    <2>3. Fit(Marked(r, "paused"))
      BY <2>2, <1>4
         DEF Sound, Slotted, Fit, OneWait, Cleared, SameFields, Finished, Runnable
    <2>4. /\ Sound(q) /\ q.status = "paused" /\ SameFields(r, q) /\ q.handler = r.handler
          /\ ~q.idx.bucket
      BY <2>1, <2>3, <1>1, StatusSound DEF Runnable
    <2>5. Cleared(r) => Cleared(q)
      BY <2>4 DEF Cleared, SameFields
    <2>6. QED
      BY <2>4, <2>5, <1>2, <1>4 DEF q, Finished
  <1>5. CASE what = "resume" /\ r.status = "paused"
    <2>1. q = SetStatus(r, "ready")
      BY <1>5 DEF Controlled
    <2> HIDE DEF q
    <2>2. Marked(r, "ready") \in Record /\ Marked(r, "ready").status = "ready"
          /\ SameFields(r, Marked(r, "ready")) /\ Marked(r, "ready").idx = r.idx
      BY <1>1, MarkedFacts
    <2>3. Fit(Marked(r, "ready"))
      BY <2>2, <1>5
         DEF Sound, Slotted, Fit, OneWait, Cleared, SameFields, Finished, Runnable
    <2>4. Sound(q) /\ q.status = "ready" /\ q.handler = r.handler /\ ~q.idx.bucket
      BY <2>1, <2>3, <1>1, <1>5, StatusSound DEF Runnable
    <2>5. QED
      BY <2>4, <1>5 DEF q, Finished
  <1>6. CASE what = "signal" /\ r.status \notin Finished /\ r.signals < MaxSignals
    <2> DEFINE n == r.signals + 1
    <2>1. q = [r EXCEPT !.signals = n]
      BY <1>6 DEF Controlled
    <2>2. n \in 0 .. MaxSignals
      BY <1>1, <1>6, SchedulerAssumption DEF Record
    <2> HIDE DEF q, n
    <2>3. q \in Record /\ q.status = r.status /\ SameFields(r, q) /\ q.handler = r.handler
          /\ q.idx = r.idx
      BY <1>1, <2>1, <2>2 DEF Record, SameFields
    <2>4. DeadlineOf(q) = DeadlineOf(r)
      BY <2>3 DEF DeadlineOf, SameFields
    <2>5. Sound(q)
      BY <2>3, <2>4 DEF Sound, Indexed, Slotted, OneWait, Cleared, SameFields
    <2>6. Cleared(r) => Cleared(q)
      BY <2>3 DEF Cleared, SameFields
    <2>7. QED
      BY <2>3, <2>5, <2>6, <1>2 DEF q
  <1>7. CASE /\ ~(what = "kill" /\ r.status \notin Finished)
             /\ ~(what = "pause" /\ r.status \in Runnable)
             /\ ~(what = "resume" /\ r.status = "paused")
             /\ ~(what = "signal" /\ r.status \notin Finished /\ r.signals < MaxSignals)
    <2>1. q = r
      BY <1>7 DEF Controlled
    <2>2. QED
      BY <2>1, <1>2
  <1>8. QED
    BY <1>3, <1>4, <1>5, <1>6, <1>7

LEMMA SleptSound ==
  ASSUME NEW r, Sound(r), r.status = "running", NEW d \in {"later", "due"}
  PROVE  LET q == Slept(r, d) IN
         /\ Sound(q) /\ q.status = "waiting"
         /\ "sleep" \notin LastCalls => ~q.idx.bucket
  <1> DEFINE x == [r EXCEPT !.wake = d]
             m == Marked(x, "waiting")
  <1>1. r \in Record
    BY DEF Sound
  <1>2. x \in Record /\ x.status = r.status /\ x.wake = d /\ x.recv = r.recv /\ x.recvBy = r.recvBy
        /\ x.lock = r.lock /\ x.lockBy = r.lockBy /\ x.idx = r.idx
    BY <1>1 DEF Record, Deadlines
  <1>3. Slept(r, d) = SetStatus(x, "waiting")
    BY DEF Slept
  <1> HIDE DEF x
  <1>4. m \in Record /\ m.status = "waiting" /\ SameFields(x, m) /\ m.idx = x.idx
    BY <1>2, MarkedFacts
  <1> HIDE DEF m
  <1>5. Fit(m)
    BY <1>2, <1>4 DEF Sound, Slotted, Fit, OneWait, Cleared, SameFields, Finished, Runnable
  <1>6. LET q == SetStatus(x, "waiting") IN
          Sound(q) /\ q.status = "waiting" /\ (q.idx.bucket <=> x.recv)
    BY <1>2, <1>5, StatusSound DEF m, Runnable
  <1>7. "sleep" \notin LastCalls => ~x.recv
    BY <1>2 DEF Sound, OneWait, Cleared, Runnable
  <1>8. QED
    BY <1>3, <1>6, <1>7

LEMMA ReceivedSound ==
  ASSUME NEW r, Sound(r), r.status = "running", NEW d \in Deadlines
  PROVE  LET q == Received(r, d) IN Sound(q) /\ q.status = "waiting"
  <1> DEFINE x == [r EXCEPT !.recv = TRUE, !.recvBy = "none"]
             y == SetStatus(x, "waiting")
             z == [y EXCEPT !.recvBy = d]
  <1>1. r \in Record
    BY DEF Sound
  <1>2. x \in Record /\ x.status = r.status /\ x.wake = r.wake /\ x.recv /\ x.recvBy = "none"
        /\ x.lock = r.lock /\ x.lockBy = r.lockBy /\ x.idx = r.idx
    BY <1>1 DEF Record, Deadlines
  <1>3. Received(r, d) = Update(z)
    BY DEF Received
  <1> HIDE DEF x
  <1> DEFINE m == Marked(x, "waiting")
  <1>4. m \in Record /\ m.status = "waiting" /\ SameFields(x, m) /\ m.idx = x.idx
    BY <1>2, MarkedFacts
  <1> HIDE DEF m
  <1>5. Fit(m)
    BY <1>2, <1>4 DEF Sound, Slotted, Fit, OneWait, Cleared, SameFields, Finished, Runnable
  <1>6. /\ Sound(y) /\ y.status = "waiting" /\ SameFields(x, y)
    BY <1>2, <1>5, StatusSound DEF m, Runnable
  <1> HIDE DEF y
  <1>7. z \in Record /\ z.status = y.status /\ z.wake = y.wake /\ z.recv = y.recv /\ z.recvBy = d
        /\ z.lock = y.lock /\ z.lockBy = y.lockBy /\ z.idx = y.idx
    BY <1>6 DEF Sound, Record
  <1> HIDE DEF z
  <1>8. Fit(z)
    BY <1>2, <1>6, <1>7 DEF Sound, Slotted, Fit, OneWait, Cleared, SameFields, Finished, Runnable
  <1>9. Sound(Update(z)) /\ Update(z).status = "waiting"
    BY <1>6, <1>7, <1>8, UpdateSound, UpdateFacts
  <1>10. QED
    BY <1>3, <1>9

LEMMA LockWaitedSound ==
  ASSUME NEW r, Sound(r), r.status = "running", NEW kind \in {"open", "timed"}, NEW d \in Deadlines,
         kind = "open" <=> d = "none"
  PROVE  LET q == LockWaited(r, kind, d) IN
         /\ Sound(q) /\ q.status = "waiting"
         /\ "sleep" \notin LastCalls => ~q.idx.bucket
  <1> DEFINE x == [r EXCEPT !.lock = kind, !.lockBy = d]
             m == Marked(x, "waiting")
  <1>1. r \in Record
    BY DEF Sound
  <1>2. x \in Record /\ x.status = r.status /\ x.wake = r.wake /\ x.recv = r.recv
        /\ x.recvBy = r.recvBy /\ x.lock = kind /\ x.lockBy = d /\ x.idx = r.idx
    BY <1>1 DEF Record
  <1>3. LockWaited(r, kind, d) = SetStatus(x, "waiting")
    BY DEF LockWaited
  <1> HIDE DEF x
  <1>4. m \in Record /\ m.status = "waiting" /\ SameFields(x, m) /\ m.idx = x.idx
    BY <1>2, MarkedFacts
  <1> HIDE DEF m
  <1>5. Fit(m)
    BY <1>2, <1>4 DEF Sound, Slotted, Fit, OneWait, Cleared, SameFields, Finished, Runnable
  <1>6. LET q == SetStatus(x, "waiting") IN
          Sound(q) /\ q.status = "waiting" /\ (q.idx.bucket <=> x.recv)
    BY <1>2, <1>5, StatusSound DEF m, Runnable
  <1>7. "sleep" \notin LastCalls => ~x.recv
    BY <1>2 DEF Sound, OneWait, Cleared, Runnable
  <1>8. QED
    BY <1>3, <1>6, <1>7

\* A record that waits for nothing any more is made ready.
LEMMA ReadySound ==
  ASSUME NEW x \in Record, x.status = "waiting",
         "kill" \notin LastCalls => x.idx.slot, "sleep" \notin LastCalls => Cleared(x)
  PROVE  LET q == SetStatus(x, "ready") IN
         Sound(q) /\ q.status = "ready" /\ ~q.idx.bucket /\ SameFields(x, q)
  <1> DEFINE m == Marked(x, "ready")
  <1>1. m \in Record /\ m.status = "ready" /\ SameFields(x, m) /\ m.idx = x.idx
    BY MarkedFacts
  <1> HIDE DEF m
  <1>2. Fit(m)
    BY <1>1 DEF Fit, OneWait, Cleared, SameFields, Finished, Runnable
  <1>3. QED
    BY <1>2, StatusSound DEF m, Runnable

LEMMA DeliveredSound ==
  ASSUME NEW r, Sound(r)
  PROVE  LET q == Delivered(r) IN
         /\ Sound(q) /\ ~q.idx.bucket
         /\ q.status = "running" <=> r.status = "running"
         /\ r.status = "running" => q = r
  <1>1. r \in Record /\ Indexed(r)
    BY DEF Sound
  <1>2. CASE r.idx.bucket
    <2> DEFINE x == [r EXCEPT !.idx.bucket = FALSE, !.recv = FALSE, !.recvBy = "none"]
    <2>1. r.status = "waiting" /\ r.recv
      BY <1>1, <1>2 DEF Indexed
    <2>2. x \in Record /\ x.status = r.status /\ x.wake = r.wake /\ ~x.recv /\ x.recvBy = "none"
          /\ x.lock = r.lock /\ x.lockBy = r.lockBy /\ x.idx.slot = r.idx.slot
      BY <1>1 DEF Record, Index, Deadlines
    <2>3. Delivered(r) = SetStatus(x, "ready")
      BY <1>2 DEF Delivered
    <2> HIDE DEF x
    <2>4. ("kill" \notin LastCalls => x.idx.slot) /\ ("sleep" \notin LastCalls => Cleared(x))
      BY <2>1, <2>2 DEF Sound, Slotted, OneWait, Cleared, Finished
    <2>5. QED
      BY <2>1, <2>2, <2>3, <2>4, ReadySound
  <1>3. CASE ~r.idx.bucket
    BY <1>3 DEF Delivered
  <1>4. QED
    BY <1>2, <1>3

LEMMA LockWokenSound ==
  ASSUME NEW r \in Record, r.status = "waiting",
         "kill" \notin LastCalls => r.idx.slot,
         "sleep" \notin LastCalls => r.wake = "none" /\ ~r.recv /\ r.recvBy = "none"
  PROVE  LET q == LockWoken(r) IN
         Sound(q) /\ q.status = "ready" /\ ~q.idx.bucket
  <1> DEFINE x == NoLock(r)
  <1>1. /\ x \in Record /\ x.status = r.status /\ x.idx = r.idx
        /\ x.wake = r.wake /\ x.recv = r.recv /\ x.recvBy = r.recvBy
        /\ x.lock = "no" /\ x.lockBy = "none"
    BY NoLockFacts
  <1> HIDE DEF x
  <1>2. LockWoken(r) = SetStatus(x, "ready")
    BY DEF LockWoken, x
  <1>3. "sleep" \notin LastCalls => Cleared(x)
    BY <1>1 DEF Cleared
  <1>4. QED
    BY <1>1, <1>2, <1>3, ReadySound

-----------------------------------------------------------------------------
(* A timer pass. *)

\* wake_due on a process whose deadline isn't a lock's.
LEMMA WokenSound ==
  ASSUME NEW r, Sound(r), Due(r), r.idx.timer # "lock"
  PROVE  LET q == Woken(r) IN Sound(q) /\ q.status = "ready" /\ ~q.idx.bucket
  <1>1. r \in Record /\ Indexed(r)
    BY DEF Sound
  <1> DEFINE spent == [r EXCEPT !.idx.timer = "none"]
  <1>2. /\ spent \in Record /\ spent.status = r.status /\ SameFields(r, spent)
        /\ spent.idx.slot = r.idx.slot
    BY <1>1 DEF Record, Index, SameFields
  <1> HIDE DEF spent
  <1>3. r.status = "waiting" /\ (r.wake = "due" \/ (r.wake = "none" /\ r.recv /\ r.recvBy = "due"))
    BY <1>1 DEF Due, Indexed, DeadlineOf
  <1>4. CASE r.wake = "due"
    <2> DEFINE x == [spent EXCEPT !.wake = "none"]
    <2>1. x \in Record /\ x.status = spent.status /\ x.wake = "none" /\ x.recv = spent.recv
          /\ x.recvBy = spent.recvBy /\ x.lock = spent.lock /\ x.lockBy = spent.lockBy
          /\ x.idx = spent.idx
      BY <1>2 DEF Record, Deadlines
    <2> HIDE DEF x
    <2>2. Woken(r) = SetStatus(x, "ready")
      BY <1>4 DEF Woken, spent, x
    <2>3. ("kill" \notin LastCalls => x.idx.slot) /\ ("sleep" \notin LastCalls => Cleared(x))
      BY <1>2, <1>3, <1>4, <2>1 DEF Sound, Slotted, OneWait, Cleared, SameFields, Finished
    <2>4. QED
      BY <1>2, <1>3, <2>1, <2>2, <2>3, ReadySound
  <1>5. CASE r.wake # "due"
    <2> DEFINE x == [spent EXCEPT !.recv = FALSE, !.recvBy = "none"]
    <2>1. x \in Record /\ x.status = spent.status /\ x.wake = spent.wake /\ ~x.recv
          /\ x.recvBy = "none" /\ x.lock = spent.lock /\ x.lockBy = spent.lockBy
          /\ x.idx = spent.idx
      BY <1>2 DEF Record, Deadlines
    <2> HIDE DEF x
    <2>2. Woken(r) = SetStatus(x, "ready")
      BY <1>3, <1>5 DEF Woken, spent, x
    <2>3. ("kill" \notin LastCalls => x.idx.slot) /\ ("sleep" \notin LastCalls => Cleared(x))
      BY <1>2, <1>3, <1>5, <2>1 DEF Sound, Slotted, OneWait, Cleared, SameFields, Finished
    <2>4. QED
      BY <1>2, <1>3, <2>1, <2>2, <2>3, ReadySound
  <1>6. QED
    BY <1>4, <1>5

\* A lock wait out of time is told so, or keeps its deadline for the next pass.
LEMMA ExpiredSound ==
  ASSUME NEW r, Sound(r), Due(r), r.idx.timer = "lock"
  PROVE  /\ LET q == LockWoken(Woken(r)) IN
              Sound(q) /\ q.status = "ready" /\ ~q.idx.bucket
         /\ LET q == Kept(Woken(r)) IN
              Sound(q) /\ q.status = "waiting" /\ (q.idx.bucket => r.idx.bucket)
  <1>1. r \in Record /\ Indexed(r)
    BY DEF Sound
  <1>2. /\ r.status = "waiting" /\ r.wake = "none" /\ ~(r.recv /\ r.recvBy # "none")
        /\ r.lock # "no" /\ r.lockBy = "due"
    BY <1>1 DEF Due, Indexed, DeadlineOf
  <1> DEFINE x == [r EXCEPT !.idx.timer = "none", !.lockBy = "none"]
             w == Update(x)
  <1>3. x \in Record /\ x.status = "waiting" /\ x.wake = "none" /\ x.recv = r.recv
        /\ x.recvBy = r.recvBy /\ x.lock = r.lock /\ x.lockBy = "none" /\ x.idx.slot = r.idx.slot
    BY <1>1, <1>2 DEF Record, Index, Deadlines
  <1>4. Woken(r) = w
    BY <1>2 DEF Woken
  <1> HIDE DEF x
  <1>5. /\ w \in Record /\ w.status = "waiting" /\ SameFields(x, w)
        /\ w.idx.slot <=> x.idx.slot
    BY <1>3, UpdateFacts DEF Finished
  <1> HIDE DEF w
  <1>6. "kill" \notin LastCalls => w.idx.slot
    BY <1>2, <1>3, <1>5 DEF Sound, Slotted, Finished
  <1>7. "sleep" \notin LastCalls =>
            ~w.recv /\ w.recvBy = "none" /\ w.lock = "timed"
    BY <1>2, <1>3, <1>5 DEF Sound, OneWait, SameFields
  <1>8. w.wake = "none" /\ w.lock # "no" /\ w.lockBy = "none" /\ w.recv = r.recv
    BY <1>2, <1>3, <1>5 DEF SameFields
  <1>9. LET q == LockWoken(w) IN Sound(q) /\ q.status = "ready" /\ ~q.idx.bucket
    BY <1>5, <1>6, <1>7, <1>8, LockWokenSound
  <1>10. LET q == Kept(w) IN Sound(q) /\ q.status = "waiting" /\ (q.idx.bucket => r.idx.bucket)
    <2> DEFINE y == [w EXCEPT !.lockBy = "due"]
    <2>1. y \in Record /\ y.status = w.status /\ y.wake = w.wake /\ y.recv = w.recv
          /\ y.recvBy = w.recvBy /\ y.lock = w.lock /\ y.lockBy = "due" /\ y.idx = w.idx
      BY <1>5 DEF Record, Deadlines
    <2>2. Kept(w) = Update(y)
      BY <1>5, <1>8 DEF Kept
    <2> HIDE DEF y
    <2>3. Fit(y)
      BY <1>5, <1>6, <1>7, <1>8, <2>1 DEF Fit, OneWait, Cleared, Runnable
    <2>4. Sound(Update(y)) /\ Update(y).status = "waiting"
          /\ (Update(y).idx.bucket => r.recv)
      BY <1>5, <1>8, <2>1, <2>3, UpdateSound, UpdateFacts DEF Indexed, SameFields
    <2>5. r.recv => r.idx.bucket
      BY <1>1, <1>2 DEF Indexed
    <2>6. QED
      BY <2>2, <2>4, <2>5
  <1>11. QED
    BY <1>4, <1>9, <1>10

-----------------------------------------------------------------------------
(* What a step does to the processes. *)

\* What the end of a handler may find, for all to be well with the process after it.
CanEnd(r) ==
    /\ "kill" \notin LastCalls => r.status \notin Finished
    /\ "sleep" \notin LastCalls => Cleared(r)

LEMMA OneChanged ==
  ASSUME ProcsOK, NEW p \in Pids, NEW r, Sound(r), r.status # "running",
         "sleep" \notin LastCalls /\ r.idx.bucket => proc[p].idx.bucket,
         proc' = [proc EXCEPT ![p] = r], mail' = mail
  PROVE  ProcsOK'
  <1>1. proc' \in [Pids -> Record]
    BY DEF ProcsOK, Sound
  <1>2. proc'[p] = r /\ \A q \in Pids : q # p => proc'[q] = proc[q]
    BY DEF ProcsOK
  <1>3. AllSound'
    BY <1>2 DEF ProcsOK, AllSound
  <1>4. "sleep" \notin LastCalls => MailNeverWaits'
    BY <1>2 DEF ProcsOK, MailNeverWaits
  <1>5. QED
    BY <1>1, <1>3, <1>4 DEF ProcsOK

LEMMA LastSound ==
  ASSUME NEW r, Sound(r), CanEnd(r)
  PROVE  LET q == SetStatus([r EXCEPT !.handler = FALSE], "ready") IN
         Sound(q) /\ q.status = "ready" /\ ~q.idx.bucket
  <1> DEFINE x == [r EXCEPT !.handler = FALSE]
  <1>1. r \in Record /\ Indexed(r)
    BY DEF Sound
  <1>2. x \in Record /\ x.status = r.status /\ SameFields(r, x) /\ x.idx = r.idx
    BY <1>1 DEF Record, SameFields
  <1> HIDE DEF x
  <1>3. DeadlineOf(x) = DeadlineOf(r)
    BY <1>2 DEF DeadlineOf, SameFields
  <1>4. Sound(x) /\ CanEnd(x)
    BY <1>1, <1>2, <1>3 DEF Sound, Indexed, Slotted, OneWait, Cleared, SameFields, CanEnd
  <1> DEFINE q == SetStatus(x, "ready")
  <1>5. CASE x.status \in Runnable
    <2>1. Sound(q) /\ ~q.idx.bucket /\ q = Marked(x, "ready")
      BY <1>4, <1>5, StatusKept DEF Runnable
    <2>2. Marked(x, "ready").status = "ready"
      BY <1>2, MarkedFacts
    <2>3. QED
      BY <2>1, <2>2 DEF x
  <1>6. CASE x.status \notin Runnable
    <2> DEFINE m == Marked(x, "ready")
    <2>1. m \in Record /\ m.status = "ready" /\ SameFields(x, m) /\ m.idx = x.idx
      BY <1>2, MarkedFacts
    <2> HIDE DEF m
    <2>2. Fit(m)
      BY <1>4, <2>1 DEF Sound, Slotted, Fit, OneWait, Cleared, SameFields, CanEnd, Finished, Runnable
    <2>3. Sound(q) /\ q.status = "ready" /\ ~q.idx.bucket
      BY <1>2, <1>6, <2>2, StatusSound DEF m, Runnable
    <2>4. QED
      BY <2>3 DEF x
  <1>7. QED
    BY <1>5, <1>6

LEMMA SettledSound ==
  ASSUME NEW p \in Pids, NEW w \in [Pids -> Record], NEW call,
         \A q \in Pids : Sound(w[q]) /\ (q # p => w[q].status # "running"),
         call \in LastCalls \cup {"none"} => CanEnd(w[p]),
         Settled(p, w, call)
  PROVE  /\ proc' \in [Pids -> Record] /\ AllSound'
         /\ \A q \in Pids : proc'[q].idx.bucket => w[q].idx.bucket
  <1> DEFINE r == w[p]
             over == IF r.status = "running" THEN SetStatus(r, "ready") ELSE r
             last == SetStatus([r EXCEPT !.handler = FALSE], "ready")
  <1>1. Sound(r)
    OBVIOUS
  <1>2. Sound(over) /\ over.status # "running" /\ (over.idx.bucket => r.idx.bucket)
    <2>1. CASE r.status = "running"
      <3>1. Sound(over) /\ ~over.idx.bucket /\ over = Marked(r, "ready")
        BY <1>1, <2>1, StatusKept DEF Runnable
      <3>2. Marked(r, "ready").status = "ready"
        BY MarkedFacts
      <3>3. QED
        BY <3>1, <3>2
    <2>2. CASE r.status # "running"
      BY <1>1, <2>2
    <2>3. QED
      BY <2>1, <2>2
  <1>3. PICK s \in {over, last}, limited \in BOOLEAN :
            /\ s = over \/ call \in LastCalls \cup {"none"}
            /\ proc' = [w EXCEPT ![p] = IF limited THEN Killed(s) ELSE s]
    BY DEF Settled
  <1>4. Sound(s) /\ s.status # "running" /\ (s.idx.bucket => r.idx.bucket)
    <2>1. CASE s = over
      BY <2>1, <1>2
    <2>2. CASE s # over
      <3>1. s = last /\ CanEnd(r)
        BY <2>2, <1>3
      <3>2. QED
        BY <3>1, <1>1, LastSound
    <2>3. QED
      BY <2>1, <2>2
  <1> HIDE DEF over, last
  <1>5. PICK v : v = (IF limited THEN Killed(s) ELSE s)
    OBVIOUS
  <1>6. Sound(v) /\ v.status # "running" /\ (v.idx.bucket => r.idx.bucket)
    BY <1>4, <1>5, FinishedSound DEF Killed, Finished
  <1>7. proc' = [w EXCEPT ![p] = v]
    BY <1>3, <1>5
  <1>8. proc' \in [Pids -> Record] /\ proc'[p] = v /\ \A q \in Pids : q # p => proc'[q] = w[q]
    BY <1>6, <1>7 DEF Sound
  <1>9. AllSound'
    BY <1>6, <1>8 DEF AllSound
  <1>10. \A q \in Pids : proc'[q].idx.bucket => w[q].idx.bucket
    BY <1>6, <1>8
  <1>11. QED
    BY <1>8, <1>9, <1>10

\* The processes as the evaluator steps one of them.
LEMMA SteppedFacts ==
  ASSUME ProcsOK, NEW p \in Pids, Evaluates(p)
  PROVE  /\ Stepped(p) \in [Pids -> Record]
         /\ \A q \in Pids : q # p => Stepped(p)[q] = proc[q]
         /\ LET r == Stepped(p)[p] IN
            Sound(r) /\ r.status = "running" /\ ~r.idx.bucket /\ CanEnd(r)
         /\ ~proc[p].idx.bucket
  <1>1. Sound(proc[p]) /\ proc[p] \in Record /\ Indexed(proc[p])
    BY DEF ProcsOK, AllSound, Sound
  <1>2. proc[p].status \in Runnable
    BY <1>1 DEF Evaluates, Picked, Queued, Indexed
  <1>3. PICK r : r = SetStatus(proc[p], "running")
    OBVIOUS
  <1>4. Sound(r) /\ ~r.idx.bucket /\ r = Marked(proc[p], "running")
    BY <1>1, <1>2, <1>3, StatusKept DEF Runnable
  <1>5. r.status = "running"
    BY <1>1, <1>4, MarkedFacts
  <1>6. Stepped(p) = [proc EXCEPT ![p] = r]
    BY <1>3 DEF Stepped
  <1>7. CanEnd(r)
    BY <1>4, <1>5 DEF CanEnd, Sound, OneWait, Finished, Runnable
  <1>8. QED
    BY <1>1, <1>2, <1>4, <1>5, <1>6, <1>7 DEF ProcsOK, Sound, Indexed, Runnable

\* An evaluator step of a process on itself.
LEMMA OwnSound ==
  ASSUME ProcsOK, NEW p \in Pids, NEW call, NEW r, Own(p, call, r), Sound(r),
         call \in LastCalls \cup {"none"} => CanEnd(r),
         mail' \in 0 .. MaxQueued,
         \/ mail' = 0
         \/ mail' <= mail /\ ("sleep" \notin LastCalls => ~r.idx.bucket)
  PROVE  ProcsOK'
  <1>1. Evaluates(p) /\ Settled(p, [Stepped(p) EXCEPT ![p] = r], call)
    BY DEF Own
  <1>2. PICK w : w = [Stepped(p) EXCEPT ![p] = r]
    OBVIOUS
  <1>3. w \in [Pids -> Record] /\ w[p] = r /\ \A q \in Pids : q # p => w[q] = proc[q]
    BY <1>1, <1>2, SteppedFacts DEF Sound
  <1>4. \A q \in Pids : Sound(w[q]) /\ (q # p => w[q].status # "running")
    BY <1>3 DEF ProcsOK, AllSound
  <1>5. /\ proc' \in [Pids -> Record] /\ AllSound'
        /\ \A q \in Pids : proc'[q].idx.bucket => w[q].idx.bucket
    <2>1. Settled(p, w, call)
      BY <1>1, <1>2
    <2>2. QED
      BY <2>1, <1>3, <1>4, SettledSound
  <1>6. "sleep" \notin LastCalls => MailNeverWaits'
    BY <1>3, <1>5 DEF ProcsOK, MailNeverWaits
  <1>7. QED
    BY <1>5, <1>6 DEF ProcsOK

LEMMA NotLast ==
  {"recv", "await", "lock", "resume", "signal"} \cap (LastCalls \cup {"none"}) = {}
  BY SchedulerAssumption

LEMMA ComputeKeeps ==
  ASSUME ProcsOK, NEW p \in Pids, Compute(p)
  PROVE  ProcsOK'
  <1>1. PICK r : r = Stepped(p)[p]
    OBVIOUS
  <1>2. Own(p, "none", r) /\ mail' = mail
    BY <1>1 DEF Compute
  <1>3. Sound(r) /\ ~r.idx.bucket /\ CanEnd(r)
    BY <1>1, <1>2, SteppedFacts DEF Own
  <1>4. mail' \in 0 .. MaxQueued /\ mail' <= mail
    BY <1>2, SchedulerAssumption DEF ProcsOK
  <1>5. QED
    BY <1>2, <1>3, <1>4, OwnSound

LEMMA SleepKeeps ==
  ASSUME ProcsOK, NEW p \in Pids, Sleep(p)
  PROVE  ProcsOK'
  <1>1. PICK r : r = Stepped(p)[p]
    OBVIOUS
  <1>2. PICK d \in {"later", "due"} : Own(p, "sleep", Slept(r, d)) /\ mail' = mail
    BY <1>1 DEF Sleep
  <1>3. Sound(r) /\ r.status = "running"
    BY <1>1, <1>2, SteppedFacts DEF Own
  <1>4. PICK s : s = Slept(r, d)
    OBVIOUS
  <1>5. Sound(s) /\ s.status = "waiting" /\ ("sleep" \notin LastCalls => ~s.idx.bucket)
    BY <1>3, <1>4, SleptSound
  <1>6. "sleep" \in LastCalls \cup {"none"} => CanEnd(s)
    BY <1>5 DEF CanEnd, Finished
  <1>7. mail' \in 0 .. MaxQueued /\ mail' <= mail
    BY <1>2, SchedulerAssumption DEF ProcsOK
  <1>8. Own(p, "sleep", s)
    BY <1>2, <1>4
  <1>9. QED
    BY <1>5, <1>6, <1>7, <1>8, OwnSound

LEMMA ReceiveKeeps ==
  ASSUME ProcsOK, NEW p \in Pids, NEW kind \in {"recv", "await"},
         NEW deadlines \in SUBSET Deadlines, Receive(p, kind, deadlines)
  PROVE  ProcsOK'
  <1>1. PICK r : r = Stepped(p)[p]
    OBVIOUS
  <1>2. CASE Pops(mail)
    <2>1. mail' = mail - 1 /\ Own(p, "none", r) /\ mail > 0
      BY <1>1, <1>2 DEF Receive, Pops
    <2>2. Sound(r) /\ ~r.idx.bucket /\ CanEnd(r)
      BY <1>1, <2>1, SteppedFacts DEF Own
    <2>3. mail' \in 0 .. MaxQueued /\ mail' <= mail
      BY <2>1, SchedulerAssumption DEF ProcsOK
    <2>4. QED
      BY <2>1, <2>2, <2>3, OwnSound
  <1>3. CASE ~Pops(mail)
    <2>1. PICK d \in deadlines : Own(p, kind, Received(r, d)) /\ mail' = mail
      BY <1>1, <1>3 DEF Receive
    <2>2. mail' = 0 /\ mail' \in 0 .. MaxQueued
      BY <1>3, <2>1, SchedulerAssumption DEF Pops, ProcsOK
    <2>3. Sound(r) /\ r.status = "running"
      BY <1>1, <2>1, SteppedFacts DEF Own
    <2>4. PICK s : s = Received(r, d)
      OBVIOUS
    <2>5. Sound(s)
      BY <2>3, <2>4, ReceivedSound
    <2>6. Own(p, kind, s) /\ kind \notin LastCalls \cup {"none"}
      BY <2>1, <2>4, NotLast
    <2>7. QED
      BY <2>2, <2>5, <2>6, OwnSound
  <1>4. QED
    BY <1>2, <1>3

LEMMA WaitLockKeeps ==
  ASSUME ProcsOK, NEW p \in Pids, WaitLock(p)
  PROVE  ProcsOK'
  <1>1. PICK r : r = Stepped(p)[p]
    OBVIOUS
  <1>2. PICK kind \in {"open", "timed"}, d \in Deadlines :
            /\ kind = "open" <=> d = "none"
            /\ Own(p, "lock", LockWaited(r, kind, d)) /\ mail' = mail
    BY <1>1 DEF WaitLock, Deadlines
  <1>3. Sound(r) /\ r.status = "running"
    BY <1>1, <1>2, SteppedFacts DEF Own
  <1>4. PICK s : s = LockWaited(r, kind, d)
    OBVIOUS
  <1>5. Sound(s) /\ ("sleep" \notin LastCalls => ~s.idx.bucket)
    BY <1>2, <1>3, <1>4, LockWaitedSound
  <1>6. mail' \in 0 .. MaxQueued /\ mail' <= mail
    BY <1>2, SchedulerAssumption DEF ProcsOK
  <1>7. Own(p, "lock", s) /\ "lock" \notin LastCalls \cup {"none"}
    BY <1>2, <1>4, NotLast
  <1>8. QED
    BY <1>5, <1>6, <1>7, OwnSound

\* A message that is sent leaves nobody waiting.
LEMMA SendKeeps ==
  ASSUME ProcsOK, NEW p \in Pids, Send(p)
  PROVE  ProcsOK'
  <1>1. PICK w : w = [q \in Pids |-> Delivered(Stepped(p)[q])]
    OBVIOUS
  <1>2. Evaluates(p) /\ Settled(p, w, "none")
    BY <1>1 DEF Send
  <1>3. \A q \in Pids : Sound(Stepped(p)[q]) /\ (q # p => Stepped(p)[q].status # "running")
    BY <1>2, SteppedFacts DEF ProcsOK, AllSound
  <1>4. \A q \in Pids : /\ Sound(w[q]) /\ ~w[q].idx.bucket
                        /\ q # p => w[q].status # "running"
    <2>1. ASSUME NEW q \in Pids
          PROVE  /\ Sound(w[q]) /\ ~w[q].idx.bucket
                 /\ q # p => w[q].status # "running"
      <3>1. PICK r : r = Stepped(p)[q] /\ w[q] = Delivered(r)
        BY <1>1
      <3>2. QED
        BY <3>1, <1>3, DeliveredSound
    <2>2. QED
      BY <2>1
  <1>5. CanEnd(w[p])
    <2>1. PICK r : r = Stepped(p)[p] /\ w[p] = Delivered(r)
      BY <1>1
    <2>2. Sound(r) /\ r.status = "running" /\ CanEnd(r)
      BY <2>1, <1>2, SteppedFacts
    <2>3. QED
      BY <2>1, <2>2, DeliveredSound
  <1>6. w \in [Pids -> Record]
    BY <1>1, <1>4 DEF Sound
  <1>7. /\ proc' \in [Pids -> Record] /\ AllSound'
        /\ \A q \in Pids : proc'[q].idx.bucket => w[q].idx.bucket
    BY <1>2, <1>4, <1>5, <1>6, SettledSound
  <1>8. mail' \in 0 .. MaxQueued
    <2>1. mail' = IF (\E q \in Pids : proc[q].idx.bucket) \/ mail = MaxQueued THEN mail ELSE mail + 1
      BY DEF Send
    <2>2. QED
      BY <2>1, SchedulerAssumption DEF ProcsOK
  <1>9. MailNeverWaits'
    BY <1>4, <1>7 DEF MailNeverWaits
  <1>10. QED
    BY <1>7, <1>8, <1>9 DEF ProcsOK

LEMMA ControlKeeps ==
  ASSUME ProcsOK, NEW p \in Pids, Control(p)
  PROVE  ProcsOK'
  <1>1. PICK what \in Controls, q \in Pids :
            Settled(p, [Stepped(p) EXCEPT ![q] = Controlled(@, what)], IF q = p THEN what ELSE "none")
    BY DEF Control
  <1>2. Evaluates(p) /\ mail' = mail
    BY DEF Control
  <1>3. /\ Stepped(p) \in [Pids -> Record]
        /\ \A u \in Pids : u # p => Stepped(p)[u] = proc[u]
        /\ LET r == Stepped(p)[p] IN
           Sound(r) /\ r.status = "running" /\ ~r.idx.bucket /\ CanEnd(r)
        /\ ~proc[p].idx.bucket
    BY <1>2, SteppedFacts
  <1>4. PICK r : r = Stepped(p)[q]
    OBVIOUS
  <1>5. PICK s : s = Controlled(r, what)
    OBVIOUS
  <1>6. PICK w : w = [Stepped(p) EXCEPT ![q] = s]
    OBVIOUS
  <1>7. Settled(p, w, IF q = p THEN what ELSE "none")
    BY <1>1, <1>4, <1>5, <1>6
  <1>8. /\ q # p => r.status # "running"
        /\ r.idx.bucket => proc[q].idx.bucket
    BY <1>3, <1>4 DEF ProcsOK, AllSound
  <1>9. Sound(r)
    BY <1>3, <1>4 DEF ProcsOK, AllSound
  <1>10. /\ s.idx.bucket => r.idx.bucket
         /\ s.status = "running" => r.status = "running"
         /\ what # "kill" /\ s.status \in Finished => r.status \in Finished
         /\ "sleep" \notin LastCalls /\ r.status = "running" => Cleared(s)
    BY <1>5, <1>9, ControlledSound
  <1>11. Sound(s)
    BY <1>5, <1>9, ControlledSound
  <1>12. w \in [Pids -> Record] /\ w[q] = s /\ \A u \in Pids : u # q => w[u] = Stepped(p)[u]
    BY <1>3, <1>6, <1>11 DEF Sound
  <1>13. \A u \in Pids : Sound(w[u]) /\ (u # p => w[u].status # "running")
    <2>1. ASSUME NEW u \in Pids
          PROVE  Sound(w[u]) /\ (u # p => w[u].status # "running")
      <3>1. CASE u = q
        BY <3>1, <1>8, <1>10, <1>11, <1>12
      <3>2. CASE u # q /\ u = p
        BY <3>2, <1>3, <1>12
      <3>3. CASE u # q /\ u # p
        BY <3>3, <1>3, <1>12 DEF ProcsOK, AllSound
      <3>4. QED
        BY <3>1, <3>2, <3>3
    <2>2. QED
      BY <2>1
  <1>14. (IF q = p THEN what ELSE "none") \in LastCalls \cup {"none"} => CanEnd(w[p])
    <2>1. CASE q = p
      BY <2>1, <1>3, <1>4, <1>10, <1>12 DEF CanEnd
    <2>2. CASE q # p
      BY <2>2, <1>3, <1>12
    <2>3. QED
      BY <2>1, <2>2
  <1>15. /\ proc' \in [Pids -> Record] /\ AllSound'
         /\ \A u \in Pids : proc'[u].idx.bucket => w[u].idx.bucket
    BY <1>7, <1>12, <1>13, <1>14, SettledSound
  <1>16. \A u \in Pids : proc'[u].idx.bucket => proc[u].idx.bucket
    BY <1>3, <1>8, <1>10, <1>11, <1>12, <1>15
  <1>17. "sleep" \notin LastCalls => MailNeverWaits'
    BY <1>2, <1>16 DEF ProcsOK, MailNeverWaits
  <1>18. QED
    BY <1>2, <1>15, <1>17 DEF ProcsOK

LEMMA FinishKeeps ==
  ASSUME ProcsOK, NEW p \in Pids, Finish(p)
  PROVE  ProcsOK'
  <1>1. Evaluates(p) /\ mail' = mail /\ proc' = [Stepped(p) EXCEPT ![p] = Ended(@)]
    BY DEF Finish
  <1>2. PICK r : r = Stepped(p)[p]
    OBVIOUS
  <1>3. Sound(r)
    BY <1>1, <1>2, SteppedFacts
  <1>4. PICK s : s = Ended(r)
    OBVIOUS
  <1>5. Sound(s) /\ s.status = "ended" /\ ~s.idx.bucket
    BY <1>3, <1>4, FinishedSound DEF Ended, Finished
  <1>6. proc' = [proc EXCEPT ![p] = s]
    BY <1>1, <1>2, <1>4 DEF Stepped, ProcsOK
  <1>7. QED
    BY <1>1, <1>5, <1>6, OneChanged

LEMMA InterruptKeeps ==
  ASSUME ProcsOK, NEW p \in Pids, Interrupt(p)
  PROVE  ProcsOK'
  <1>1. PICK h \in BOOLEAN :
            /\ proc' = [proc EXCEPT ![p].signals = @ - 1, ![p].handler = h]
            /\ mail' = mail /\ proc[p].signals > 0
    BY DEF Interrupt
  <1>2. PICK r : r = proc[p]
    OBVIOUS
  <1>3. Sound(r) /\ r \in Record /\ Indexed(r) /\ r.status # "running"
    BY <1>2 DEF ProcsOK, AllSound, Sound
  <1>4. PICK n \in 0 .. MaxSignals : n = r.signals - 1
    BY <1>1, <1>2, <1>3, SchedulerAssumption DEF Record
  <1>5. PICK s : s = [r EXCEPT !.signals = n, !.handler = h]
    OBVIOUS
  <1>6. s \in Record /\ s.status = r.status /\ SameFields(r, s) /\ s.idx = r.idx
    BY <1>3, <1>5 DEF Record, SameFields
  <1>7. DeadlineOf(s) = DeadlineOf(r)
    BY <1>6 DEF DeadlineOf, SameFields
  <1>8. Sound(s)
    BY <1>3, <1>6, <1>7 DEF Sound, Indexed, Slotted, OneWait, Cleared, SameFields
  <1>9. proc' = [proc EXCEPT ![p] = s]
    BY <1>1, <1>2, <1>3, <1>4, <1>5 DEF ProcsOK, Record
  <1>10. QED
    BY <1>1, <1>2, <1>3, <1>6, <1>8, <1>9, OneChanged

LEMMA GrantedKeeps ==
  ASSUME ProcsOK, Granted
  PROVE  ProcsOK'
  <1>1. PICK p \in Pids : proc[p].idx.locking /\ proc' = [proc EXCEPT ![p] = LockWoken(@)]
    BY DEF Granted
  <1>2. mail' = mail
    BY DEF Granted
  <1>3. PICK r : r = proc[p]
    OBVIOUS
  <1>4. Sound(r) /\ r \in Record /\ r.status = "waiting" /\ r.lock # "no"
    BY <1>1, <1>3 DEF ProcsOK, AllSound, Sound, Indexed
  <1>5. /\ "kill" \notin LastCalls => r.idx.slot
        /\ "sleep" \notin LastCalls => r.wake = "none" /\ ~r.recv /\ r.recvBy = "none"
    BY <1>4 DEF Sound, Slotted, OneWait, Finished
  <1>6. PICK s : s = LockWoken(r)
    OBVIOUS
  <1>7. Sound(s) /\ s.status = "ready" /\ ~s.idx.bucket
    BY <1>4, <1>5, <1>6, LockWokenSound
  <1>8. proc' = [proc EXCEPT ![p] = s]
    BY <1>1, <1>3, <1>6 DEF ProcsOK
  <1>9. QED
    BY <1>2, <1>7, <1>8, OneChanged

LEMMA ApplyKeeps ==
  ASSUME ProcsOK, Apply
  PROVE  ProcsOK'
  <1>1. PICK p \in Pids, what \in Controls : proc' = [proc EXCEPT ![p] = Controlled(@, what)]
    BY DEF Apply
  <1>2. mail' = mail
    BY DEF Apply
  <1>3. PICK r : r = proc[p]
    OBVIOUS
  <1>4. Sound(r) /\ r.status # "running"
    BY <1>3 DEF ProcsOK, AllSound
  <1>5. PICK s : s = Controlled(r, what)
    OBVIOUS
  <1>6. Sound(s) /\ s.status # "running" /\ (s.idx.bucket => r.idx.bucket)
    BY <1>4, <1>5, ControlledSound
  <1>7. proc' = [proc EXCEPT ![p] = s]
    BY <1>1, <1>3, <1>5 DEF ProcsOK
  <1>8. QED
    BY <1>2, <1>3, <1>6, <1>7, OneChanged

\* A timer pass, whole or cut short.
LEMMA TimersKeep ==
  ASSUME ProcsOK, Timers
  PROVE  ProcsOK'
  <1> DEFINE due == {p \in Pids : Due(proc[p])}
             listed == {p \in due : proc[p].idx.timer = "lock"}
  <1>1. PICK served \in SUBSET listed :
            proc' = [p \in Pids |->
                LET woken == [q \in Pids |-> IF q \in due THEN Woken(proc[q]) ELSE proc[q]] IN
                IF p \in served THEN LockWoken(woken[p])
                ELSE IF p \in listed THEN Kept(woken[p]) ELSE woken[p]]
    BY DEF Timers
  <1>2. mail' = mail
    BY DEF Timers
  <1>3. ASSUME NEW p \in Pids
        PROVE  /\ Sound(proc'[p]) /\ proc'[p].status # "running"
               /\ proc'[p].idx.bucket => proc[p].idx.bucket
    <2>1. PICK r : r = proc[p]
      OBVIOUS
    <2>2. Sound(r) /\ r.status # "running"
      BY <2>1 DEF ProcsOK, AllSound
    <2>3. CASE p \notin due
      <3>1. proc'[p] = r
        BY <1>1, <2>1, <2>3
      <3>2. QED
        BY <3>1, <2>1, <2>2
    <2>4. CASE p \in due /\ p \notin listed
      <3>1. proc'[p] = Woken(r)
        BY <1>1, <2>1, <2>4
      <3>2. Due(r) /\ r.idx.timer # "lock"
        BY <2>1, <2>4
      <3>3. PICK s : s = Woken(r)
        OBVIOUS
      <3>4. Sound(s) /\ s.status = "ready" /\ ~s.idx.bucket
        BY <2>2, <3>2, <3>3, WokenSound
      <3>5. QED
        BY <3>1, <3>3, <3>4
    <2>5. CASE p \in listed
      <3>1. proc'[p] = LockWoken(Woken(r)) \/ proc'[p] = Kept(Woken(r))
        BY <1>1, <2>1, <2>5
      <3>2. Due(r) /\ r.idx.timer = "lock"
        BY <2>1, <2>5
      <3>3. PICK s, k : s = LockWoken(Woken(r)) /\ k = Kept(Woken(r))
        OBVIOUS
      <3>4. /\ Sound(s) /\ s.status = "ready" /\ ~s.idx.bucket
            /\ Sound(k) /\ k.status = "waiting" /\ (k.idx.bucket => r.idx.bucket)
        BY <2>2, <3>2, <3>3, ExpiredSound
      <3>5. proc'[p] = s \/ proc'[p] = k
        BY <3>1, <3>3
      <3>6. QED
        BY <2>1, <3>4, <3>5
    <2>6. QED
      BY <2>3, <2>4, <2>5
  <1>4. proc' \in [Pids -> Record]
    <2>1. \A p \in Pids : proc'[p] \in Record
      BY <1>3 DEF Sound
    <2>2. QED
      BY <1>1, <2>1
  <1>5. AllSound'
    BY <1>3 DEF AllSound
  <1>6. "sleep" \notin LastCalls => MailNeverWaits'
    BY <1>2, <1>3 DEF ProcsOK, MailNeverWaits
  <1>7. QED
    BY <1>2, <1>4, <1>5, <1>6 DEF ProcsOK

\* A deadline that passes is still one.
LEMMA TickKeeps ==
  ASSUME ProcsOK, Tick
  PROVE  ProcsOK'
  <1>1. PICK p \in Pids, d \in {"wake", "recvBy", "lockBy"} :
            proc[p][d] = "later" /\ proc' = [proc EXCEPT ![p][d] = Pass(@)]
    BY DEF Tick
  <1>2. mail' = mail
    BY DEF Tick
  <1>3. PICK r : r = proc[p]
    OBVIOUS
  <1>4. Sound(r) /\ r \in Record /\ Indexed(r) /\ r.status # "running"
    BY <1>3 DEF ProcsOK, AllSound, Sound
  <1>5. PICK s : s = [r EXCEPT ![d] = "due"]
    OBVIOUS
  <1>6. /\ s \in Record /\ s.status = r.status /\ s.recv = r.recv /\ s.lock = r.lock
        /\ s.handler = r.handler /\ s.idx = r.idx
        /\ s.wake = "none" <=> r.wake = "none"
        /\ s.recvBy = "none" <=> r.recvBy = "none"
        /\ s.lockBy = "none" <=> r.lockBy = "none"
    <2>1. CASE d = "wake"
      <3>1. s = [r EXCEPT !.wake = "due"] /\ r.wake = "later"
        BY <1>1, <1>3, <1>5, <2>1
      <3>2. QED
        BY <3>1, <1>4 DEF Record, Deadlines
    <2>2. CASE d = "recvBy"
      <3>1. s = [r EXCEPT !.recvBy = "due"] /\ r.recvBy = "later"
        BY <1>1, <1>3, <1>5, <2>2
      <3>2. QED
        BY <3>1, <1>4 DEF Record, Deadlines
    <2>3. CASE d = "lockBy"
      <3>1. s = [r EXCEPT !.lockBy = "due"] /\ r.lockBy = "later"
        BY <1>1, <1>3, <1>5, <2>3
      <3>2. QED
        BY <3>1, <1>4 DEF Record, Deadlines
    <2>4. QED
      BY <2>1, <2>2, <2>3
  <1>7. DeadlineOf(s) = DeadlineOf(r)
    BY <1>6 DEF DeadlineOf
  <1>8. Sound(s)
    BY <1>4, <1>6, <1>7 DEF Sound, Indexed, Slotted, OneWait, Cleared
  <1>9. proc' = [proc EXCEPT ![p] = s]
    <2>1. proc' = [proc EXCEPT ![p] = [proc[p] EXCEPT ![d] = Pass(proc[p][d])]]
      BY <1>1
    <2>2. Pass(proc[p][d]) = "due"
      BY <1>1 DEF Pass
    <2>3. QED
      BY <2>1, <2>2, <1>3, <1>5
  <1>10. QED
    BY <1>2, <1>3, <1>4, <1>6, <1>8, <1>9, OneChanged

LEMMA ProcsInit == Init => ProcsOK
  <1> SUFFICES ASSUME Init PROVE ProcsOK
    OBVIOUS
  <1> DEFINE i == [slot |-> TRUE, queued |-> FALSE, sleeping |-> FALSE,
                   bucket |-> FALSE, locking |-> FALSE, timer |-> "none"]
             r == [status |-> "ready", wake |-> "none", recv |-> FALSE, recvBy |-> "none",
                   lock |-> "no", lockBy |-> "none", handler |-> FALSE, signals |-> 0, idx |-> i]
  <1>1. New = Update(r)
    BY DEF New
  <1>2. i \in Index
    BY DEF Index
  <1>3. r \in Record
    BY <1>2, SchedulerAssumption DEF Record, Deadlines
  <1>4. /\ r.status = "ready" /\ Cleared(r) /\ r.idx.slot
    BY DEF Cleared
  <1> HIDE DEF r, i
  <1>5. Fit(r)
    BY <1>3, <1>4 DEF Fit, OneWait, Runnable
  <1>6. Sound(New) /\ New.status = "ready"
    BY <1>1, <1>3, <1>4, <1>5, UpdateSound, UpdateFacts
  <1>7. proc = [p \in Pids |-> New] /\ mail = 0
    BY DEF Init
  <1>8. AllSound
    BY <1>6, <1>7 DEF AllSound
  <1>9. QED
    BY <1>6, <1>7, <1>8, SchedulerAssumption DEF ProcsOK, MailNeverWaits, Sound

LEMMA ProcsStep == ProcsOK /\ [Next]_vars => ProcsOK'
  <1> SUFFICES ASSUME ProcsOK, [Next]_vars PROVE ProcsOK'
    OBVIOUS
  <1>1. CASE UNCHANGED procs
    BY <1>1 DEF procs, ProcsOK, AllSound, MailNeverWaits
  <1>2. ASSUME NEW p \in Pids, Evaluate(p) PROVE ProcsOK'
    <2>1. {"none"} \in SUBSET Deadlines /\ {"later", "due"} \in SUBSET Deadlines
      BY DEF Deadlines
    <2>2. QED
      BY <1>2, <2>1, InterruptKeeps, ComputeKeeps, SleepKeeps, ReceiveKeeps, WaitLockKeeps,
         SendKeeps, ControlKeeps, FinishKeeps DEF Evaluate
  <1>3. CASE Apply \/ Granted \/ Timers \/ Tick
    BY <1>3, ApplyKeeps, GrantedKeeps, TimersKeep, TickKeeps
  <1>4. CASE UNCHANGED vars
    BY <1>1, <1>4 DEF vars
  <1>5. CASE Begin \/ Top \/ Take \/ ApplyOther \/ Applied \/ Requeue \/ RefuseRest \/ Ready
             \/ NonePicked \/ Idle \/ Nap \/ Notified \/ TimerEnds \/ SliceEnds
             \/ Destroy \/ Refuse \/ Round \/ Post \/ PostNotify \/ Stop \/ StopNotify
    BY <1>1, <1>5 DEF Begin, Top, Take, ApplyOther, Applied, Requeue, RefuseRest, Ready,
       NonePicked, Idle, Nap, Notified, TimerEnds, SliceEnds,
       Destroy, Refuse, Round, Post, PostNotify, Stop, StopNotify
  <1>6. QED
    BY <1>2, <1>3, <1>4, <1>5 DEF Next, SchedulerStep, Others

-----------------------------------------------------------------------------
(* The commands. *)

Log(h, b, c) == h \o b \o c

LEMMA Associative ==
  ASSUME NEW u \in Seq(Nat), NEW v \in Seq(Nat), NEW w \in Seq(Nat)
  PROVE  (u \o v) \o w = u \o (v \o w)
  <1>1. \A S : \A a, b, c \in Seq(S) : (a \o b) \o c = a \o (b \o c)
    BY ConcatAssociative, Zenon
  <1>2. QED
    BY <1>1, SMTT(60)

LEMMA LogTyped ==
  ASSUME NEW h \in Seq(Nat), NEW b \in Seq(Nat), NEW c \in Seq(Nat)
  PROVE  /\ Log(h, b, c) \in Seq(Nat)
         /\ Log(h, b, c) = h \o (b \o c)
         /\ b \o c \in Seq(Nat) /\ h \o b \in Seq(Nat)
  <1>1. h \o b \in Seq(Nat) /\ b \o c \in Seq(Nat)
    BY ConcatProperties
  <1>2. (h \o b) \o c \in Seq(Nat)
    BY <1>1, ConcatProperties
  <1>3. (h \o b) \o c = h \o (b \o c)
    BY Associative, Zenon
  <1>4. QED
    BY <1>1, <1>2, <1>3 DEF Log

\* A batch taken, or put back in front of the rest.
LEMMA BatchMoves ==
  ASSUME NEW h \in Seq(Nat), NEW b \in Seq(Nat), NEW c \in Seq(Nat)
  PROVE  /\ Log(h, << >>, b \o c) = Log(h, b, c)
         /\ Log(h \o b, << >>, c) = Log(h, b, c)
         /\ Log(h, c, << >>) = Log(h, << >>, c)
         /\ Len(b \o c) = Len(b) + Len(c)
  <1>1. b \o c \in Seq(Nat) /\ h \o b \in Seq(Nat)
    BY ConcatProperties
  <1>a. Log(h, b, c) = h \o (b \o c)
    BY Associative, Zenon DEF Log
  <1>2. h \o << >> = h /\ (h \o b) \o << >> = h \o b
    BY <1>1, ConcatEmptySeq
  <1>3. Log(h, c, << >>) = Log(h, << >>, c)
    <2>1. h \o c \in Seq(Nat)
      BY ConcatProperties
    <2>2. (h \o c) \o << >> = h \o c
      BY <2>1, ConcatEmptySeq
    <2>3. QED
      BY <1>2, <2>2 DEF Log
  <1>4. Len(b \o c) = Len(b) + Len(c)
    BY ConcatProperties
  <1>5. QED
    BY <1>2, <1>a, <1>3, <1>4 DEF Log

\* The head of a batch is heard.
LEMMA HeadHeard ==
  ASSUME NEW h \in Seq(Nat), NEW b \in Seq(Nat), NEW c \in Seq(Nat), b # << >>
  PROVE  /\ Append(h, Head(b)) \in Seq(Nat) /\ Tail(b) \in Seq(Nat)
         /\ Len(Tail(b)) = Len(b) - 1 /\ Len(b) > 0
         /\ Log(Append(h, Head(b)), Tail(b), c) = Log(h, b, c)
  <1>1. /\ Head(b) \in Nat /\ Tail(b) \in Seq(Nat) /\ Len(Tail(b)) = Len(b) - 1
        /\ Len(b) \in Nat /\ Len(b) > 0
    BY HeadTailProperties, EmptySeq
  <1>2. Append(h, Head(b)) \in Seq(Nat) /\ Append(h, Head(b)) = h \o <<Head(b)>>
    BY <1>1, AppendProperties, AppendIsConcat
  <1>3. <<Head(b)>> \in Seq(Nat)
    BY <1>1
  <1>4. <<Head(b)>> \o Tail(b) = b
    <2>1. 1 \in 1 .. Len(b) /\ Len(b) \in 1 .. Len(b)
      BY <1>1
    <2>2. SubSeq(b, 1, Len(b)) = <<b[1]>> \o SubSeq(b, 2, Len(b))
      BY <2>1, SubSeqRecursiveFirst
    <2>3. Tail(b) = SubSeq(b, 2, Len(b)) /\ SubSeq(b, 1, Len(b)) = b
      BY TailIsSubSeq, SubSeqFull
    <2>4. Head(b) = b[1]
      BY <1>1
    <2>5. QED
      BY <2>2, <2>3, <2>4
  <1>5. Append(h, Head(b)) \o Tail(b) = h \o b
    <2>1. (h \o <<Head(b)>>) \o Tail(b) = h \o (<<Head(b)>> \o Tail(b))
      BY <1>1, <1>3, Associative, Zenon
    <2>2. QED
      BY <2>1, <1>2, <1>4
  <1>6. QED
    BY <1>1, <1>2, <1>5 DEF Log

Numbers(n) == [i \in 1 .. n |-> i]

\* A command posted is the next one.
LEMMA LogGrows ==
  ASSUME NEW h \in Seq(Nat), NEW b \in Seq(Nat), NEW c \in Seq(Nat), NEW n \in Nat,
         Log(h, b, c) = Numbers(n)
  PROVE  /\ Append(c, n + 1) \in Seq(Nat) /\ Len(Append(c, n + 1)) = Len(c) + 1
         /\ Log(h, b, Append(c, n + 1)) = Numbers(n + 1)
  <1>1. h \o b \in Seq(Nat) /\ n + 1 \in Nat /\ Numbers(n) \in Seq(Nat)
    BY LogTyped
  <1>2. /\ Append(c, n + 1) \in Seq(Nat) /\ Len(Append(c, n + 1)) = Len(c) + 1
        /\ Append(c, n + 1) = c \o <<n + 1>> /\ <<n + 1>> \in Seq(Nat)
    BY <1>1, AppendProperties, AppendIsConcat
  <1>3. \A u, v \in Seq(Nat) : (u \o c) \o v = u \o (c \o v)
    BY Associative, Zenon
  <1>4. Log(h, b, Append(c, n + 1)) = Append(Numbers(n), n + 1)
    <2>1. Log(h, b, Append(c, n + 1)) = (h \o b) \o (c \o <<n + 1>>)
      BY <1>2 DEF Log
    <2>2. (h \o b) \o (c \o <<n + 1>>) = ((h \o b) \o c) \o <<n + 1>>
      BY <1>1, <1>2, <1>3
    <2>3. (h \o b) \o c = Numbers(n)
      BY DEF Log
    <2>4. Append(Numbers(n), n + 1) = Numbers(n) \o <<n + 1>>
      BY <1>1, AppendIsConcat
    <2>5. QED
      BY <2>1, <2>2, <2>3, <2>4
  <1>5. Len(Numbers(n)) = n
    BY DEF Numbers
  <1>6. Append(Numbers(n), n + 1) = Numbers(n + 1)
    <2>1. /\ Append(Numbers(n), n + 1) \in Seq(Nat) /\ Len(Append(Numbers(n), n + 1)) = n + 1
          /\ \A i \in 1 .. n : Append(Numbers(n), n + 1)[i] = i
          /\ Append(Numbers(n), n + 1)[n + 1] = n + 1
      BY <1>1, <1>5, AppendProperties DEF Numbers
    <2>2. Numbers(n + 1) \in Seq(Nat) /\ Len(Numbers(n + 1)) = n + 1
      BY DEF Numbers
    <2>3. \A i \in 1 .. n + 1 : Append(Numbers(n), n + 1)[i] = Numbers(n + 1)[i]
      <3>1. \A i \in 1 .. n + 1 : i \in 1 .. n \/ i = n + 1
        OBVIOUS
      <3>2. QED
        BY <3>1, <2>1 DEF Numbers
    <2>4. QED
      BY <2>1, <2>2, <2>3, SeqEqual
  <1>7. QED
    BY <1>2, <1>4, <1>6

Holds == pc \in {"apply", "applyInStep", "requeue", "refuse"}

\* The commands in the terms of the lemmas above.
LEMMA PostsRead ==
  PostsOK <=>
    /\ controls \in Seq(Nat) /\ batch \in Seq(Nat) /\ heard \in Seq(Nat)
    /\ waiting \in Nat /\ posted \in Nat
    /\ Log(heard, batch, controls) = Numbers(posted)
    /\ waiting = Len(batch) + Len(controls)
    /\ ~Holds => batch = << >>
  BY DEF PostsOK, HeardInOrder, Log, Numbers, Holds

LEMMA PostsReadNext ==
  PostsOK' <=>
    /\ controls' \in Seq(Nat) /\ batch' \in Seq(Nat) /\ heard' \in Seq(Nat)
    /\ waiting' \in Nat /\ posted' \in Nat
    /\ Log(heard', batch', controls') = Numbers(posted')
    /\ waiting' = Len(batch') + Len(controls')
    /\ ~Holds' => batch' = << >>
  BY DEF PostsOK, HeardInOrder, Log, Numbers, Holds

\* The queue becomes the batch: for a run, or to be refused.
LEMMA TakenKeeps ==
  ASSUME PostsOK, batch = << >>, batch' = controls, controls' = << >>, Holds' \/ controls = << >>,
         UNCHANGED <<heard, waiting, posted>>
  PROVE  PostsOK'
  <1>1. Log(heard, controls, << >>) = Log(heard, << >>, controls)
    BY PostsRead, BatchMoves
  <1>2. Len(<< >>) = 0 /\ << >> \in Seq(Nat) /\ Len(controls) \in Nat
    BY PostsRead, EmptySeq, LenProperties
  <1>3. waiting' = Len(batch') + Len(controls')
    BY <1>2, PostsRead
  <1>4. Log(heard', batch', controls') = Numbers(posted')
    BY <1>1, PostsRead
  <1>5. QED
    BY <1>2, <1>3, <1>4, PostsRead, PostsReadNext

LEMMA SettleKeeps ==
  ASSUME PostsOK, Holds, batch # << >>, Settle, Holds', UNCHANGED <<controls, posted>>
  PROVE  PostsOK'
  <1>1. /\ heard' = Append(heard, Head(batch)) /\ batch' = Tail(batch) /\ waiting' = waiting - 1
    BY DEF Settle
  <1>2. /\ heard' \in Seq(Nat) /\ batch' \in Seq(Nat) /\ Len(batch') = Len(batch) - 1
        /\ Len(batch) > 0 /\ Log(heard', batch', controls) = Log(heard, batch, controls)
    BY <1>1, PostsRead, HeadHeard
  <1>3. Len(batch) \in Nat /\ Len(controls) \in Nat
    BY PostsRead, LenProperties
  <1>4. waiting' \in Nat /\ waiting' = Len(batch') + Len(controls')
    BY <1>1, <1>2, <1>3, PostsRead
  <1>5. QED
    BY <1>2, <1>4, PostsRead, PostsReadNext

\* What is posted comes last.
LEMMA PostedKeeps ==
  ASSUME PostsOK, controls' = Append(controls, posted + 1), posted' = posted + 1,
         waiting' = waiting + 1, Holds' <=> Holds, UNCHANGED <<batch, heard>>
  PROVE  PostsOK'
  <1>1. /\ controls' \in Seq(Nat) /\ Len(controls') = Len(controls) + 1
        /\ Log(heard, batch, controls') = Numbers(posted + 1)
    BY PostsRead, LogGrows
  <1>2. Len(batch) \in Nat /\ Len(controls) \in Nat
    BY PostsRead, LenProperties
  <1>3. posted' \in Nat /\ waiting' \in Nat /\ waiting' = Len(batch') + Len(controls')
    BY <1>1, <1>2, PostsRead
  <1>4. QED
    BY <1>1, <1>3, PostsRead, PostsReadNext

LEMMA RequeueKeeps ==
  ASSUME PostsOK, Requeue
  PROVE  PostsOK'
  <1>1. /\ controls' = batch \o controls /\ batch' = << >>
        /\ UNCHANGED <<waiting, posted, heard>>
    BY DEF Requeue, Requeued
  <1>2. /\ controls' \in Seq(Nat) /\ Len(controls') = Len(batch) + Len(controls)
        /\ Log(heard, << >>, controls') = Log(heard, batch, controls)
    BY <1>1, PostsRead, BatchMoves, LogTyped
  <1>3. Len(<< >>) = 0 /\ << >> \in Seq(Nat) /\ Len(controls') \in Nat
    BY <1>2, EmptySeq, LenProperties
  <1>4. waiting' = Len(batch') + Len(controls')
    BY <1>1, <1>2, <1>3, PostsRead
  <1>5. QED
    BY <1>1, <1>2, <1>3, <1>4, PostsRead, PostsReadNext

LEMMA RefuseRestKeeps ==
  ASSUME PostsOK, RefuseRest
  PROVE  PostsOK'
  <1>1. /\ heard' = heard \o batch /\ batch' = << >> /\ waiting' = waiting - Len(batch)
        /\ UNCHANGED <<controls, posted>>
    BY DEF RefuseRest
  <1>2. heard' \in Seq(Nat) /\ Log(heard', << >>, controls) = Log(heard, batch, controls)
    BY <1>1, PostsRead, BatchMoves, LogTyped
  <1>3. Len(<< >>) = 0 /\ << >> \in Seq(Nat) /\ Len(controls) \in Nat /\ Len(batch) \in Nat
    BY PostsRead, EmptySeq, LenProperties
  <1>4. waiting' \in Nat /\ waiting' = Len(batch') + Len(controls')
    BY <1>1, <1>3, PostsRead
  <1>5. QED
    BY <1>1, <1>2, <1>3, <1>4, PostsRead, PostsReadNext

\* A refused command may have another posted in its place.
LEMMA RefuseKeeps ==
  ASSUME PostsOK, Refuse
  PROVE  PostsOK'
  <1>1. /\ pc = "refuse" /\ batch # << >> /\ pc' = pc
        /\ heard' = Append(heard, Head(batch)) /\ batch' = Tail(batch)
        /\ \/ waiting' = waiting - 1 /\ UNCHANGED <<controls, posted>>
           \/ waiting' = waiting /\ posted' = posted + 1 /\ controls' = Append(controls, posted + 1)
    BY DEF Refuse
  <1>2. /\ heard' \in Seq(Nat) /\ batch' \in Seq(Nat) /\ Len(batch') = Len(batch) - 1
        /\ Len(batch) > 0 /\ Log(heard', batch', controls) = Log(heard, batch, controls)
    BY <1>1, PostsRead, HeadHeard
  <1>3. Len(batch) \in Nat /\ Len(controls) \in Nat /\ Holds'
    BY <1>1, PostsRead, LenProperties DEF Holds
  <1>4. CASE waiting' = waiting - 1 /\ UNCHANGED <<controls, posted>>
    <2>1. waiting' \in Nat /\ waiting' = Len(batch') + Len(controls')
      BY <1>2, <1>3, <1>4, PostsRead
    <2>2. QED
      BY <2>1, <1>2, <1>3, <1>4, PostsRead, PostsReadNext
  <1>5. CASE waiting' = waiting /\ posted' = posted + 1 /\ controls' = Append(controls, posted + 1)
    <2>1. /\ controls' \in Seq(Nat) /\ Len(controls') = Len(controls) + 1
          /\ Log(heard', batch', controls') = Numbers(posted + 1)
      BY <1>2, <1>5, PostsRead, LogGrows
    <2>2. posted' \in Nat /\ waiting' \in Nat /\ waiting' = Len(batch') + Len(controls')
      BY <1>2, <1>3, <1>5, <2>1, PostsRead
    <2>3. QED
      BY <2>1, <2>2, <1>2, <1>3, <1>5, PostsRead, PostsReadNext
  <1>6. QED
    BY <1>1, <1>4, <1>5

LEMMA PostsInit == Init => PostsOK
  <1> SUFFICES ASSUME Init PROVE PostsOK
    OBVIOUS
  <1>1. << >> \in Seq(Nat) /\ Len(<< >>) = 0
    BY EmptySeq
  <1>2. << >> \o << >> = << >>
    BY <1>1, ConcatEmptySeq
  <1>3. Numbers(0) = << >>
    <2>1. Numbers(0) \in Seq(Nat) /\ Len(Numbers(0)) = 0
      BY DEF Numbers
    <2>2. QED
      BY <2>1, EmptySeq
  <1>4. Log(<< >>, << >>, << >>) = Numbers(0)
    BY <1>2, <1>3 DEF Log
  <1>5. QED
    BY <1>1, <1>4, PostsRead DEF Init

LEMMA PostsStep == PostsOK /\ [Next]_vars => PostsOK'
  <1> SUFFICES ASSUME PostsOK, [Next]_vars PROVE PostsOK'
    OBVIOUS
  <1> DEFINE Same == UNCHANGED <<controls, batch, waiting, posted, heard>>
  <1>1. ASSUME Same, batch # << >> => Holds'
        PROVE  PostsOK'
    BY <1>1, PostsRead, PostsReadNext
  <1>2. batch # << >> => Holds
    BY PostsRead
  <1>3. CASE Take
    <2>1. CASE waiting = 0
      <3>1. Same /\ ~Holds
        BY <1>3, <2>1 DEF Take, Holds
      <3>2. QED
        BY <3>1, <1>1, <1>2
    <2>2. CASE waiting # 0
      <3>1. /\ ~Holds /\ Holds' /\ batch' = controls /\ controls' = << >>
            /\ UNCHANGED <<heard, waiting, posted>>
        BY <1>3, <2>2 DEF Take, Holds
      <3>2. QED
        BY <3>1, <1>2, TakenKeeps
    <2>3. QED
      BY <2>1, <2>2
  <1>4. CASE Apply \/ ApplyOther
    <2>1. /\ Holds /\ Holds' /\ batch # << >> /\ Settle /\ UNCHANGED <<controls, posted>>
      BY <1>4 DEF Apply, ApplyOther, Applying, Holds
    <2>2. QED
      BY <2>1, SettleKeeps
  <1>5. CASE Requeue \/ RefuseRest \/ Refuse
    BY <1>5, RequeueKeeps, RefuseRestKeeps, RefuseKeeps
  <1>6. CASE Destroy
    <2>1. /\ ~Holds /\ Holds' /\ batch' = controls /\ controls' = << >>
          /\ UNCHANGED <<heard, waiting, posted>>
      BY <1>6 DEF Destroy, Goes, Holds
    <2>2. QED
      BY <2>1, <1>2, TakenKeeps
  <1>7. CASE Round
    <2>1. /\ batch = << >> /\ batch' = controls /\ controls' = << >>
          /\ UNCHANGED <<heard, waiting, posted>>
          /\ Holds' \/ controls = << >>
      BY <1>7 DEF Round, Holds
    <2>2. QED
      BY <2>1, TakenKeeps
  <1>8. CASE Post
    <2>1. /\ controls' = Append(controls, posted + 1) /\ posted' = posted + 1
          /\ waiting' = waiting + 1 /\ pc' = pc /\ UNCHANGED <<batch, heard>>
      BY <1>8 DEF Post
    <2>2. QED
      BY <2>1, PostedKeeps DEF Holds
  <1>9. CASE Applied
    <2>1. Same /\ batch = << >>
      BY <1>9 DEF Applied, posts
    <2>2. QED
      BY <2>1, <1>1
  <1>10. CASE Begin \/ Top \/ Ready \/ Granted \/ Timers \/ NonePicked \/ Idle \/ Nap
              \/ Notified \/ TimerEnds \/ SliceEnds
    <2>1. Same /\ ~Holds
      BY <1>10 DEF Begin, Top, Ready, Granted, Timers, NonePicked, Idle, Nap,
         Notified, TimerEnds, SliceEnds, Goes, Holds, posts
    <2>2. QED
      BY <2>1, <1>1, <1>2
  <1>11. ASSUME NEW p \in Pids, Evaluate(p) PROVE PostsOK'
    <2>1. Same /\ ~Holds
      BY <1>11 DEF Evaluate, Interrupt, Compute, Sleep, Receive, WaitLock, Send, Control, Finish,
         Own, Evaluates, Picked, Holds, posts
    <2>2. QED
      BY <2>1, <1>1, <1>2
  <1>12. CASE PostNotify \/ Stop \/ StopNotify \/ Tick \/ UNCHANGED vars
    <2>1. Same /\ pc' = pc
      BY <1>12 DEF PostNotify, Stop, StopNotify, Tick, vars, posts
    <2>2. QED
      BY <2>1, <1>1, <1>2 DEF Holds
  <1>13. QED
    BY <1>3, <1>4, <1>5, <1>6, <1>7, <1>8, <1>9, <1>10, <1>11, <1>12
       DEF Next, SchedulerStep, Others

-----------------------------------------------------------------------------
(* The rest of the run. *)

LEMMA RunStep == RunOK /\ [Next]_vars => RunOK'
  <1> SUFFICES ASSUME RunOK, [Next]_vars PROVE RunOK'
    OBVIOUS
  <1> DEFINE Places == {"out", "begin", "top", "controls", "apply", "applyInStep", "requeue", "ready",
                        "step", "timers", "pick", "idle", "nap", "asleep", "refuse", "gone"}
             Flags == /\ posting' \in BOOLEAN /\ stopReq' \in BOOLEAN /\ running' \in BOOLEAN
                      /\ signaled' \in BOOLEAN /\ stopping' \in BOOLEAN /\ told' \in BOOLEAN
  <1>1. Throws => IsLoad(load')
    BY DEF Throws, RunOK, IsLoad
  <1>2. load.posts > 0 /\ load' = [load EXCEPT !.posts = @ - 1] => IsLoad(load')
    BY DEF RunOK, IsLoad
  <1>3. load.stops > 0 /\ load' = [load EXCEPT !.stops = @ - 1] => IsLoad(load')
    BY DEF RunOK, IsLoad
  <1>4. load' = load => IsLoad(load')
    BY DEF RunOK
  <1>5. SUFFICES Flags /\ IsLoad(load') /\ pc' \in Places
    BY DEF RunOK
  <1>6. CASE Begin \/ Top \/ Take \/ Applied \/ Ready \/ NonePicked \/ Idle \/ Nap \/ Notified
             \/ TimerEnds \/ SliceEnds \/ Destroy \/ Round \/ PostNotify \/ StopNotify \/ Tick
             \/ Granted \/ UNCHANGED vars
    <2>1. load' = load
      BY <1>6 DEF Begin, Top, Take, Applied, Ready, NonePicked, Idle, Nap, Notified, TimerEnds,
         SliceEnds, Destroy, Round, PostNotify, StopNotify, Tick, Granted, vars
    <2>2. Flags
      BY <1>6 DEF RunOK, Begin, Top, Take, Applied, Ready, NonePicked, Idle, Nap, Notified,
         TimerEnds, SliceEnds, Destroy, Round, PostNotify, StopNotify, Tick, Granted, vars,
         RunEnds, Continues, posts, ends
    <2>3. pc' \in Places
      BY <1>6 DEF RunOK, Begin, Top, Take, Applied, Ready, NonePicked, Idle, Nap, Notified,
         TimerEnds, SliceEnds, Destroy, Round, PostNotify, StopNotify, Tick, Granted, vars,
         RunEnds, Continues, Goes
    <2>4. QED
      BY <2>1, <2>2, <2>3, <1>4
  <1>7. CASE Apply \/ ApplyOther \/ Requeue \/ RefuseRest \/ Timers \/ Refuse \/ Post \/ Stop
    <2>1. IsLoad(load')
      BY <1>7, <1>1, <1>2, <1>3, <1>4
         DEF Apply, ApplyOther, Requeue, RefuseRest, Timers, Refuse, Post, Stop
    <2>2. Flags
      BY <1>7 DEF RunOK, Apply, ApplyOther, Requeue, RefuseRest, Timers, Refuse, Post, Stop,
         RunEnds, posts, ends
    <2>3. pc' \in Places
      BY <1>7 DEF RunOK, Apply, ApplyOther, Applying, Requeue, RefuseRest, Timers, Refuse, Post,
         Stop, RunEnds
    <2>4. QED
      BY <2>1, <2>2, <2>3
  <1>8. ASSUME NEW p \in Pids, Evaluate(p)
        PROVE  Flags /\ IsLoad(load') /\ pc' \in Places
    <2>1. \/ /\ load' = load /\ pc' = "top"
             /\ UNCHANGED <<posting, stopReq, stopping, told, running, signaled>>
          \/ Finish(p)
      BY <1>8 DEF Evaluate, Interrupt, Compute, Sleep, Receive, WaitLock, Send, Control, Own,
         posts, ends
    <2>2. CASE Finish(p)
      BY <2>2, <1>1, <1>4 DEF Finish, Continues, RunEnds, RunOK, posts
    <2>3. QED
      BY <2>1, <2>2, <1>4 DEF RunOK
  <1>9. QED
    BY <1>6, <1>7, <1>8 DEF Next, SchedulerStep, Others

LEMMA Inductive == Spec => []IInv
  <1>1. Init => IInv
    <2>1. Init => RunOK
      BY SchedulerAssumption DEF Init, RunOK
    <2>2. QED
      BY <2>1, ProcsInit, PostsInit DEF IInv
  <1>2. IInv /\ [Next]_vars => IInv'
    BY ProcsStep, PostsStep, RunStep DEF IInv
  <1>3. QED
    BY <1>1, <1>2, PTL DEF Spec

-----------------------------------------------------------------------------

\* The state keeps its types: no process is left running between two steps, and the
\* count of waiting commands stays above zero.
THEOREM Typed == Spec => []TypeOK
  <1>1. IInv => TypeOK
    <2> SUFFICES ASSUME IInv PROVE TypeOK
      OBVIOUS
    <2>1. \A p \in Pids : proc[p] \in Process
      BY DEF IInv, ProcsOK, AllSound, Sound, Record, Process
    <2>2. QED
      BY <2>1 DEF IInv, ProcsOK, PostsOK, RunOK, TypeOK
  <1>2. QED
    BY <1>1, Inductive, PTL

\* Commands are heard of once each, in the order posted, whatever throws.
THEOREM HeardInOrderHolds == Spec => []HeardInOrder
  <1>1. IInv => HeardInOrder
    BY DEF IInv, PostsOK
  <1>2. QED
    BY <1>1, Inductive, PTL

\* The indexes agree with the processes, unless a handler's last call may kill its
\* own process.
THEOREM IndexesMatchHolds ==
  ASSUME "kill" \notin LastCalls
  PROVE  Spec => []IndexesMatch
  <1>1. IInv => IndexesMatch
    <2> SUFFICES ASSUME IInv, NEW p \in Pids
                 PROVE  LET r == proc[p] IN
                        /\ r.idx.slot = (r.status \notin Finished)
                        /\ r.idx.queued = (r.status = "ready")
                        /\ r.idx.sleeping = (r.status = "waiting" /\ r.wake # "none")
                        /\ r.idx.bucket = (r.status = "waiting" /\ r.recv)
                        /\ r.idx.locking = (r.status = "waiting" /\ r.lock # "no")
                        /\ r.idx.timer = DeadlineOf(r)
      BY DEF IndexesMatch
    <2>1. PICK r : r = proc[p]
      OBVIOUS
    <2>2. r \in Record /\ Indexed(r) /\ Slotted(r) /\ r.status # "running"
      BY <2>1 DEF IInv, ProcsOK, AllSound, Sound
    <2>3. r.idx \in Index
      BY <2>2 DEF Record
    <2>4. /\ r.idx.slot \in BOOLEAN /\ r.idx.queued \in BOOLEAN /\ r.idx.sleeping \in BOOLEAN
          /\ r.idx.bucket \in BOOLEAN /\ r.idx.locking \in BOOLEAN
      BY <2>3 DEF Index
    <2>5. /\ r.idx.slot <=> r.status \notin Finished
          /\ r.idx.queued <=> r.status = "ready"
      BY <2>2 DEF Indexed, Slotted, Runnable
    <2>6. QED
      BY <2>1, <2>2, <2>4, <2>5 DEF Indexed
  <1>2. QED
    BY <1>1, Inductive, PTL

\* No process waits for a message that is there, unless a handler's last call may be
\* a sleep.
THEOREM MailNeverWaitsHolds ==
  ASSUME "sleep" \notin LastCalls
  PROVE  Spec => []MailNeverWaits
  <1>1. IInv => MailNeverWaits
    BY DEF IInv, ProcsOK
  <1>2. QED
    BY <1>1, Inductive, PTL

\* A lock wait with a limit has its timer, unless a handler's last call may be a sleep.
THEOREM DeadlinesKeptHolds ==
  ASSUME "sleep" \notin LastCalls
  PROVE  Spec => []DeadlinesKept
  <1>1. IInv => DeadlinesKept
    <2> SUFFICES ASSUME IInv, NEW p \in Pids, proc[p].status = "waiting", proc[p].lock = "timed"
                 PROVE  proc[p].idx.timer = "lock"
      BY DEF DeadlinesKept
    <2>1. Indexed(proc[p]) /\ OneWait(proc[p])
      BY DEF IInv, ProcsOK, AllSound, Sound
    <2>2. QED
      BY <2>1 DEF Indexed, OneWait, DeadlineOf
  <1>2. QED
    BY <1>1, Inductive, PTL

\* A wait for a message ends with it, with its own deadline or with the process, unless
\* a handler's last call may be a sleep: a process made ready waits for nothing.
THEOREM WaitsEndRightHolds ==
  ASSUME "sleep" \notin LastCalls
  PROVE  Spec => WaitsEndRight
  <1>1. IInv' => \A p \in Pids : proc'[p].status = "ready" => ~proc'[p].recv
    BY DEF IInv, ProcsOK, AllSound, Sound, OneWait, Cleared, Runnable
  <1>2. IInv' => [\A p \in Pids : proc[p].status = "waiting" /\ proc[p].recv
                                  /\ proc'[p].status = "ready" => ~proc'[p].recv]_vars
    BY <1>1
  <1>3. QED
    BY <1>2, Inductive, PTL DEF WaitsEndRight

=============================================================================
