------------------------------- MODULE LockHomes -------------------------------
(***************************************************************************)
(* The lock homes (lock_home.cpp): each scheduler's side of the lock table *)
(* and of with-lock, composed with the table.                              *)
(*                                                                         *)
(* A home's actions run on one thread.  Its calls on the table are atomic, *)
(* but between two of them, and between a call and the delivery of the     *)
(* wakes it returned, the threads of other homes act.  work[h] is what the *)
(* thread of home h still has to do before it takes another step: a        *)
(* sequence of calls, run one at a time.  A wake for a process of another  *)
(* home goes to that home's port, a queue that its thread drains between   *)
(* steps and that closes when the home is destroyed.                       *)
(*                                                                         *)
(* Handlers are left to LockTable's Interrupts, deadlines to chance, and   *)
(* relevel posts to LockInherit.                                           *)
(***************************************************************************)
EXTENDS LockTable, Sequences

CONSTANT MaxDepth   \* bound: sections nested in one process

ASSUME DepthAssumption == MaxDepth \in Nat

VARIABLES work,     \* by home: the calls its thread has still to make
          port,     \* by home: the posts that have landed, and whether it is closed
          mirror,   \* by process: the holds its home knows of, by hold id
          ticket,   \* by process: the ticket its home knows of, or 0
          waiting,  \* processes parked as lock_waiting
          ended,    \* processes that are finished
          frames    \* by process: its lock frames, outermost first

table == vars
hvars == <<table, work, port, mirror, ticket, waiting, ended, frames>>

LocalInit ==
    /\ work = [h \in HomeIds |-> << >>]
    /\ port = [h \in HomeIds |-> [closed |-> FALSE, posts |-> << >>]]
    /\ mirror = [p \in Pids |-> Empty]
    /\ ticket = [p \in Pids |-> 0]
    /\ waiting = {} /\ ended = {}
    /\ frames = [p \in Pids |-> << >>]

HInit == Init /\ LocalInit

-----------------------------------------------------------------------------
(* Helpers. *)

\* The wakes an operation returns: one for each ticket it granted, in the
\* order of the walk.
Woken == {t \in Queued(tickets) : t \in DOMAIN tickets' /\ tickets'[t].state = "granted"}

Nth(S, n) == CHOOSE t \in S : Cardinality({u \in S : u < t}) = n - 1

Notes ==
    [n \in 1 .. Cardinality(Woken) |->
        [call |-> "note", pid |-> tickets[Nth(Woken, n)].pid, tid |-> Nth(Woken, n)]]

Idle(h) == h \in homes /\ work[h] = << >> /\ ~port[h].closed

Outer(s) == SubSeq(s, 1, Len(s) - 1)
Top(p) == frames[p][Len(frames[p])]
Push(p, frame) == [frames EXCEPT ![p] = Append(@, frame)]
Frame(hold, body, r) == [hold |-> hold, body |-> body, req |-> r]

\* The mirror of p with hold i, or without it.
Mirrored(p, i, h) ==
    [mirror EXCEPT ![p] = [j \in DOMAIN @ \cup {i} |->
        IF j = i THEN [mode |-> h.mode, keys |-> h.keys, count |-> 1] ELSE @[j]]]

\* Mutant of Forgotten: the mirror keeps the hold.
NotForgotten(p, i) == mirror
Forgotten(p, i) == [mirror EXCEPT ![p] = [j \in DOMAIN @ \ {i} |-> @[j]]]

\* p takes a step: its home has nothing else to do, and it runs its program.
Steps(p) == Idle(HomeOf[p]) /\ p \notin ended /\ p \notin waiting

InBody(p) == \A n \in 1 .. Len(frames[p]) : frames[p][n].body

\* Waits on their way to the table, which the bounds have to leave room for.
Pending == {h \in HomeIds : work[h] # << >> /\ work[h][1].call = "wait"}

TicketsLeft == nextSeq + Cardinality(Pending) < MaxSeq
HoldsLeft == nextHold + Cardinality(Queued(tickets)) + Cardinality(Pending) < MaxHold

-----------------------------------------------------------------------------
(* with-lock, as a process steps through it. *)

\* A request its own holds cover: the hold is counted once more.
EnterCovered(p, r) ==
    /\ Covered(mirror[p], r)
    /\ \E k \in r.keys : \E i \in DOMAIN mirror[p] :
        /\ Covers(mirror[p], i, r, k)
        /\ mirror' = [mirror EXCEPT ![p][i].count = @ + 1]
        /\ frames' = Push(p, Frame(i, TRUE, r))
    /\ UNCHANGED <<table, work>>

EnterFast(p, r) ==
    /\ ~Covered(mirror[p], r)
    /\ HoldsLeft
    /\ TryAcquire(p, r)
    /\ mirror' = Mirrored(p, nextHold + 1, r)
    /\ frames' = Push(p, Frame(nextHold + 1, TRUE, r))
    /\ UNCHANGED work

\* Busy: the request waits, in a second call on the table.
EnterBusy(p, r) ==
    /\ ~Covered(mirror[p], r)
    /\ ~Grantable(p, r, SeqInf)
    /\ TicketsLeft /\ HoldsLeft
    /\ work' = [work EXCEPT ![HomeOf[p]] = <<[call |-> "wait", pid |-> p, req |-> r]>>]
    /\ frames' = Push(p, Frame(0, FALSE, r))
    /\ UNCHANGED <<table, mirror>>

TryEnter(p, r) ==
    /\ Steps(p) /\ InBody(p)
    /\ Len(frames[p]) < MaxDepth
    /\ ~Upgrades(mirror[p], r)
    /\ EnterCovered(p, r) \/ EnterFast(p, r) \/ EnterBusy(p, r)
    /\ UNCHANGED <<port, ticket, waiting, ended>>

\* The step after a collected grant: the body begins.
BeginBody(p) ==
    /\ Steps(p) /\ ~InBody(p)
    /\ StartBody(p, Top(p).hold)
    /\ frames' = [frames EXCEPT ![p][Len(frames[p])].body = TRUE]
    /\ UNCHANGED <<work, port, mirror, ticket, waiting, ended>>

\* Mutant of ReleaseFrame: the hold goes with any of its sections.
ReleaseAtOnce(p) ==
    LET i == Top(p).hold IN
    /\ Steps(p) /\ frames[p] # << >>
    /\ frames' = [frames EXCEPT ![p] = Outer(@)]
    /\ i \in DOMAIN mirror[p]
    /\ mirror' = Forgotten(p, i)
    /\ Release(p, i)
    /\ work' = [work EXCEPT ![HomeOf[p]] = Notes]
    /\ UNCHANGED <<port, ticket, waiting, ended>>

\* The innermost frame goes, with or without an exception: the last section
\* that counts on a hold gives it back.
ReleaseFrame(p) ==
    LET i == Top(p).hold IN
    /\ Steps(p) /\ frames[p] # << >>
    /\ frames' = [frames EXCEPT ![p] = Outer(@)]
    /\ \/ /\ mirror[p][i].count > 1
          /\ mirror' = [mirror EXCEPT ![p][i].count = @ - 1]
          /\ UNCHANGED <<table, work>>
       \/ /\ mirror[p][i].count = 1
          /\ mirror' = Forgotten(p, i)
          /\ Release(p, i)
          /\ work' = [work EXCEPT ![HomeOf[p]] = Notes]
    /\ UNCHANGED <<port, ticket, waiting, ended>>

\* A process with lock state is killed or fails.
KillProcess(p) ==
    /\ Idle(HomeOf[p]) /\ p \notin ended
    /\ End(p, TRUE)
    /\ work' = [work EXCEPT ![HomeOf[p]] = Notes]
    /\ mirror' = [mirror EXCEPT ![p] = Empty]
    /\ ticket' = [ticket EXCEPT ![p] = 0]
    /\ waiting' = waiting \ {p}
    /\ ended' = ended \cup {p}
    /\ frames' = [frames EXCEPT ![p] = << >>]
    /\ UNCHANGED port

-----------------------------------------------------------------------------
(* What a home's thread does between the steps of its processes. *)

AttachLockHome == AttachHome /\ UNCHANGED <<work, port, mirror, ticket, waiting, ended, frames>>

\* Mutant of DrainPort: the first post is applied, and those behind it go too.
DrainFirst(h) ==
    /\ Idle(h)
    /\ port[h].posts # << >>
    /\ work' = [work EXCEPT ![h] = <<port[h].posts[1]>>]
    /\ port' = [port EXCEPT ![h].posts = << >>]
    /\ UNCHANGED <<table, mirror, ticket, waiting, ended, frames>>

\* The posts that have landed are taken at once, and applied in order.
DrainPort(h) ==
    /\ Idle(h)
    /\ port[h].posts # << >>
    /\ work' = [work EXCEPT ![h] = port[h].posts]
    /\ port' = [port EXCEPT ![h].posts = << >>]
    /\ UNCHANGED <<table, mirror, ticket, waiting, ended, frames>>

\* wake_due: deadlines have passed.
WakeDue(h) ==
    /\ Idle(h)
    /\ \E E \in (SUBSET {p \in waiting : HomeOf[p] = h}) \ {{}} :
        work' = [work EXCEPT ![h] = <<[call |-> "expire", pids |-> E]>>]
    /\ UNCHANGED <<table, port, mirror, ticket, waiting, ended, frames>>

\* ~lock_home: the port closes first.
Destroy(h) ==
    /\ Idle(h)
    /\ port' = [port EXCEPT ![h].closed = TRUE]
    /\ work' = [work EXCEPT ![h] = <<[call |-> "detach"]>>]
    /\ UNCHANGED <<table, mirror, ticket, waiting, ended, frames>>

-----------------------------------------------------------------------------
(* The calls of work[h], one at a time. *)

\* Mutant of CancelTicket: a ticket is taken to be queued still.
CancelQueued(p) == Cancel(p)

\* table.cancel: a ticket decided already stays as it is.
CancelTicket(p) ==
    \/ Cancel(p)
    \/ ticket[p] \notin Queued(tickets) /\ UNCHANGED table

Calls(h, what) == work[h] # << >> /\ work[h][1].call = what
Then(h, calls) == work' = [work EXCEPT ![h] = calls \o Tail(@)]

\* collect: the ticket's outcome.  A wait that failed raises at once, and its
\* frame is gone.
Collect(p) ==
    LET t == TicketOf(p)
        i == tickets[t].hold
    IN
    /\ Resume(p)
    /\ ticket' = [ticket EXCEPT ![p] = 0]
    /\ IF tickets[t].state = "granted"
         THEN /\ mirror' = Mirrored(p, i, holds[i])
              /\ frames' = [frames EXCEPT ![p][Len(frames[p])].hold = i]
         ELSE /\ frames' = [frames EXCEPT ![p] = Outer(@)]
              /\ UNCHANGED mirror

\* Mutant of Current: any wake of a parked process is taken for the one it waits for.
AnyWake(p, t) == p \in waiting

\* A wake is stale when a timeout has adopted the grant, when the process has
\* ended, and when it waits for a newer request.
Current(p, t) == p \notin ended /\ ticket[p] = t /\ p \in waiting

ApplyWake(p, t) ==
    \/ /\ Current(p, t)
       /\ Collect(p)
       /\ waiting' = waiting \ {p}
    \/ /\ ~Current(p, t)
       /\ UNCHANGED <<table, mirror, ticket, waiting, frames>>

\* deliver, one note: its own home's at once, another's to its port, which a
\* closed port drops.
RunNote(h) ==
    /\ Calls(h, "note")
    /\ LET p == work[h][1].pid
           t == work[h][1].tid
           g == HomeOf[p]
       IN  \/ /\ g = h
              /\ ApplyWake(p, t)
              /\ UNCHANGED port
           \/ /\ g # h
              /\ port' = IF port[g].closed THEN port
                         ELSE [port EXCEPT ![g].posts =
                                 Append(@, [call |-> "wake", pid |-> p, tid |-> t])]
              /\ UNCHANGED <<table, mirror, ticket, waiting, frames>>
    /\ Then(h, << >>)
    /\ UNCHANGED ended

RunWake(h) ==
    /\ Calls(h, "wake")
    /\ ApplyWake(work[h][1].pid, work[h][1].tid)
    /\ Then(h, << >>)
    /\ UNCHANGED <<port, ended>>

\* wait_expired, one process: its ticket is cancelled unless it has been
\* decided already, and then its outcome collected like a woken one's.
RunExpire(h) ==
    /\ Calls(h, "expire")
    /\ \E p \in work[h][1].pids :
        LET others == work[h][1].pids \ {p}
            rest == IF others = {} THEN << >> ELSE <<[call |-> "expire", pids |-> others]>>
            wake == <<[call |-> "wake", pid |-> p, tid |-> ticket[p]]>>
        IN
        \/ /\ p \notin waiting
           /\ Then(h, rest)
           /\ UNCHANGED table
        \/ /\ p \in waiting
           /\ CancelTicket(p)
           /\ Then(h, Notes \o wake \o rest)
    /\ UNCHANGED <<port, mirror, ticket, waiting, ended, frames>>

\* wait: the ticket, and whether it was queued.
RunWait(h) ==
    /\ Calls(h, "wait")
    /\ LET p == work[h][1].pid IN
       /\ Block(p, work[h][1].req)
       /\ ticket' = [ticket EXCEPT ![p] = nextSeq']
       /\ Then(h, <<[call |-> IF nextSeq' \in Queued(tickets') THEN "park" ELSE "collect",
                     pid |-> p]>>)
    /\ UNCHANGED <<port, mirror, waiting, ended, frames>>

\* Queued: the process parks, though its ticket may have been granted by now.
RunPark(h) ==
    /\ Calls(h, "park")
    /\ waiting' = waiting \cup {work[h][1].pid}
    /\ Then(h, << >>)
    /\ UNCHANGED <<table, port, mirror, ticket, ended, frames>>

\* Granted or failed at once: not parked.
RunCollect(h) ==
    /\ Calls(h, "collect")
    /\ Collect(work[h][1].pid)
    /\ Then(h, << >>)
    /\ UNCHANGED <<port, waiting, ended>>

\* The step that queued the ticket throws before it parks.  Its lock_enter
\* frame is unwound: the ticket is cancelled and resumed, and a grant it got
\* meanwhile is given back.
RunThrow(h) ==
    /\ Calls(h, "park")
    /\ LET p == work[h][1].pid IN
       /\ CancelTicket(p)
       /\ Then(h, Notes \o <<[call |-> "unwind", pid |-> p]>>)
    /\ UNCHANGED <<port, mirror, ticket, waiting, ended, frames>>

RunUnwind(h) ==
    /\ Calls(h, "unwind")
    /\ LET p == work[h][1].pid
           t == TicketOf(p)
       IN
       /\ Resume(p)
       /\ ticket' = [ticket EXCEPT ![p] = 0]
       /\ frames' = [frames EXCEPT ![p] = Outer(@)]
       /\ Then(h, IF tickets[t].state = "granted"
                    THEN <<[call |-> "release", pid |-> p, hold |-> tickets[t].hold]>>
                    ELSE << >>)
    /\ UNCHANGED <<port, mirror, waiting, ended>>

RunRelease(h) ==
    /\ Calls(h, "release")
    /\ Release(work[h][1].pid, work[h][1].hold)
    /\ Then(h, Notes)
    /\ UNCHANGED <<port, mirror, ticket, waiting, ended, frames>>

\* The home leaves the table, and its processes run no more.
RunDetach(h) ==
    /\ Calls(h, "detach")
    /\ DetachHome(h)
    /\ Then(h, Notes \o <<[call |-> "discard"]>>)
    /\ frames' = [p \in Pids |-> IF HomeOf[p] = h THEN << >> ELSE frames[p]]
    /\ UNCHANGED <<port, mirror, ticket, waiting, ended>>

\* The posts that landed before the close go, and the processes' lock fields.
RunDiscard(h) ==
    /\ Calls(h, "discard")
    /\ port' = [port EXCEPT ![h].posts = << >>]
    /\ mirror' = [p \in Pids |-> IF HomeOf[p] = h THEN Empty ELSE mirror[p]]
    /\ ticket' = [p \in Pids |-> IF HomeOf[p] = h THEN 0 ELSE ticket[p]]
    /\ waiting' = {p \in waiting : HomeOf[p] # h}
    /\ Then(h, << >>)
    /\ UNCHANGED <<table, ended, frames>>

Run(h) ==
    \/ RunNote(h) \/ RunWake(h) \/ RunExpire(h)
    \/ RunWait(h) \/ RunPark(h) \/ RunCollect(h)
    \/ RunThrow(h) \/ RunUnwind(h) \/ RunRelease(h)
    \/ RunDetach(h) \/ RunDiscard(h)

HNext ==
    \/ AttachLockHome
    \/ \E p \in Pids : \/ \E r \in Requests : TryEnter(p, r)
                       \/ BeginBody(p) \/ ReleaseFrame(p) \/ KillProcess(p)
    \/ \E h \in HomeIds : DrainPort(h) \/ WakeDue(h) \/ Destroy(h) \/ Run(h)

HSpec == HInit /\ [][HNext]_hvars

-----------------------------------------------------------------------------
(* Properties. *)

Wake == [call : {"note", "wake"}, pid : Pids, tid : 1 .. MaxSeq]
Call == Wake
    \cup [call : {"wait"}, pid : Pids, req : Requests]
    \cup [call : {"park", "collect", "unwind"}, pid : Pids]
    \cup [call : {"release"}, pid : Pids, hold : 1 .. MaxHold]
    \cup [call : {"expire"}, pids : (SUBSET Pids) \ {{}}]
    \cup [call : {"detach", "discard"}]
MirrorHold == [mode : Modes, keys : KeySets, count : 1 .. MaxDepth]

HTypeOK ==
    /\ DOMAIN work = HomeIds
    /\ \A h \in HomeIds : \A n \in 1 .. Len(work[h]) : work[h][n] \in Call
    /\ DOMAIN port = HomeIds
    /\ \A h \in HomeIds :
        /\ port[h].closed \in BOOLEAN
        /\ \A n \in 1 .. Len(port[h].posts) : port[h].posts[n] \in Wake
    /\ \A p \in Pids :
        /\ DOMAIN mirror[p] \subseteq 1 .. MaxHold
        /\ \A i \in DOMAIN mirror[p] : mirror[p][i] \in MirrorHold
        /\ Len(frames[p]) <= MaxDepth
        /\ \A n \in 1 .. Len(frames[p]) :
            frames[p][n] \in [hold : 0 .. MaxHold, body : BOOLEAN, req : Requests]
    /\ ticket \in [Pids -> 0 .. MaxSeq]
    /\ waiting \subseteq Pids /\ ended \subseteq Pids

\* The grants that the table made and the home has not put in the mirror.
Uncollected(p) ==
    {tickets[t].hold : t \in {u \in DOMAIN tickets : u = TicketOf(p) /\ tickets[u].state = "granted"}}
        \cup {work[h][1].hold : h \in {g \in HomeIds : Calls(g, "release") /\ work[g][1].pid = p}}

\* I2, I3, home side.  At every moment a live process's mirror is what the
\* table has of it less the grant not collected, and counts its frames.
MirrorMatches ==
    \A p \in Pids : HomeOf[p] \in homes =>
        /\ ticket[p] = TicketOf(p)
        /\ DOMAIN mirror[p] = HoldIds(recs, p) \ Uncollected(p)
        /\ \A i \in DOMAIN mirror[p] :
            /\ mirror[p][i].mode = holds[i].mode /\ mirror[p][i].keys = holds[i].keys
            /\ mirror[p][i].count =
                  Cardinality({n \in 1 .. Len(frames[p]) : frames[p][n].hold = i})

InFlight(p) ==
    \E h \in HomeIds :
        \/ \E n \in 1 .. Len(work[h]) :
            work[h][n] \in Wake /\ work[h][n].pid = p /\ work[h][n].tid = ticket[p]
        \/ \E n \in 1 .. Len(port[h].posts) :
            h = HomeOf[p] /\ port[h].posts[n].pid = p /\ port[h].posts[n].tid = ticket[p]

\* I6, home side.  A parked process whose ticket is decided has its wake on the
\* way: none is lost between the table, the granting home, the port and the
\* park itself, unless the process's home is being destroyed.
WakesReachWaiters ==
    \A p \in Pids :
        /\ p \in waiting \/ \E h \in HomeIds : Calls(h, "park") /\ work[h][1].pid = p
        /\ ticket[p] \notin Queued(tickets)
        => InFlight(p) \/ port[HomeOf[p]].closed

\* LX-11.  A wake that is about to be applied, and is not found stale, is for a
\* ticket that has been decided: a late wake never ends a newer wait.
WakesAreTimely ==
    \A h \in HomeIds :
        /\ Calls(h, "wake") \/ (Calls(h, "note") /\ HomeOf[work[h][1].pid] = h)
        /\ Current(work[h][1].pid, work[h][1].tid)
        => /\ ticket[work[h][1].pid] = work[h][1].tid
           /\ ticket[work[h][1].pid] \in DOMAIN tickets \ Queued(tickets)

\* No call meets a table that can't take it: whatever other homes did since the
\* call before it, the thread of a home goes on (4.7: resume finds its ticket,
\* and decided; 4.9: a release finds its hold).
HomesGoOn == \A h \in HomeIds : work[h] # << >> => ENABLED Run(h)

\* What the programs see of it: the sections whose bodies have begun.
Sections ==
    [p \in Pids |->
        [n \in 1 .. (IF InBody(p) THEN Len(frames[p]) ELSE Len(frames[p]) - 1)
            |-> frames[p][n].req]]

Promise == INSTANCE WithLock WITH sections <- Sections

\* The homes and the table together keep what with-lock promises: a section
\* begins only when no other process, of any home, is in one that conflicts,
\* and stays covered by a hold to its end.
KeepsPromise == Promise!Spec

\* The thread of every home goes on, and drains the port between its steps.
FairHSpec ==
    HSpec /\ \A h \in HomeIds : WF_hvars(Run(h)) /\ WF_hvars(DrainPort(h))

\* Who has been granted, timed out or refused runs again.  (A run makes MaxSeq
\* tickets, so that all run again comes to the same as that each does.)
GrantsWake ==
    []<>(\A p \in waiting : ticket[p] \in Queued(tickets))

\* Programs that leave their sections unless they wait.
Leave == \A p \in Pids : []<>(frames[p] = << >> \/ p \in waiting)

\* If no program stays in its sections for ever except by waiting, no wait is
\* for ever: there is no deadlock, and no grant or wake is missed.
NoStarvation == Leave => \A p \in Pids : p \in waiting ~> p \notin waiting

=============================================================================
