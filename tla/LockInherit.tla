----------------------------- MODULE LockInherit -----------------------------
(***************************************************************************)
(* Priority inheritance of the lock table (lock_manager.cpp 3.3 and 4.3,   *)
(* lock_home.cpp 5.8 and 5.9).  A process inherits the best base priority  *)
(* among the processes it blocks, through up to Cap edges of the wait-for  *)
(* graph.  Smaller numbers are better; Inf is none.                        *)
(*                                                                         *)
(* Every operation of LockTable ends with relevel_all, which recomputes    *)
(* only the records its set A names and notes each change to its home; the *)
(* homes apply the notes later, one at a time.  Each action here is the    *)
(* operation of LockTable with what it does to the priorities.             *)
(***************************************************************************)
EXTENDS LockTable

CONSTANTS Cap,        \* the longest path an inherited priority travels: 8 in the code
          Priorities, \* the base priorities that processes have
          Inf,        \* no inherited priority: worse than any
          MaxRenice   \* bound: changes of a priority over the run

ASSUME InheritAssumption ==
    /\ Cap \in Nat \ {0} /\ MaxRenice \in Nat
    /\ Inf \in Nat /\ Priorities \subseteq 0 .. Inf - 1

VARIABLES applying,   \* attached homes whose scheduler uses a priority policy
          base,       \* by record: the process's priority, as the table knows it
          inh,        \* by record: its inherited priority
          pending,    \* by record: a relevel note is thought to be on its way
          priority,   \* home side: the process's own priority
          inherited,  \* home side: the inherited priority the scheduler uses
          notes,      \* relevel notes for a process, delivered but not applied
          renices     \* counts up to MaxRenice

levels == <<base, inh, pending>>
homeSide == <<priority, inherited, notes>>
ivars == <<vars, applying, levels, homeSide, renices>>

-----------------------------------------------------------------------------
(* The graph, and what relevel_all computes over it. *)

Lending == applying # {}
Lends(p) == HomeOf[p] \in applying
Best(S) == CHOOSE m \in S \cup {Inf} : \A n \in S \cup {Inf} : m <= n

\* All within Cap edges of S, and S: a breadth-first search by layers.
Ball(edges, S) ==
    LET layer[d \in 0 .. Cap] ==
            IF d = 0 THEN S
            ELSE layer[d - 1] \cup UNION {edges[p] : p \in layer[d - 1]}
    IN  layer[Cap]

Edges == [p \in Pids |-> Succ(p)]

\* The processes that wait for p, found from what p has and not from what they ask.
Predecessors(p) ==
    LET behindHolds == {u \in Queued(tickets) :
                          \E i \in HoldIds(recs, p) : Conflicts(tickets[u], holds[i])}
        own == {TicketOf(p)} \cap Queued(tickets)
        behindTicket == {u \in Queued(tickets) : \E t \in own :
                          /\ u > t /\ Conflicts(tickets[u], tickets[t])
                          /\ ~Exempt(recs, holds, tickets[u].pid, tickets[t])}
    IN  {tickets[u].pid : u \in behindHolds \cup behindTicket} \ {p}

Waiters == [p \in Pids |-> Predecessors(p)]

RecomputeInh(p) ==
    Best({base[q] : q \in {r \in Ball(Waiters, {p}) \ {p} : Lends(r)}})

Granted ==
    {p \in DOMAIN recs :
        /\ TicketOf(p) \in Queued(tickets) \cap DOMAIN tickets'
        /\ tickets'[TicketOf(p)].state = "granted"}

\* Mutants of SetA: the graph after the operation alone, or before it alone.
SetAfterOnly(seeds) == Ball(Edges', seeds \cup Granted)
SetBeforeOnly(seeds) == Ball(Edges, seeds)

SetA(seeds) ==
    Ball(Edges, seeds) \cup Ball(Edges', seeds \cup Granted)

\* A record that appears takes its process's priority and inherits nothing.
Kept(f, new) == [p \in DOMAIN recs' |-> IF p \in DOMAIN recs THEN f[p] ELSE new[p]]

KeepBase == base' = Kept(base, priority)
KeepInh == inh' = Kept(inh, [p \in Pids |-> Inf])
KeptPending == Kept(pending, [p \in Pids |-> FALSE])

\* An operation that moves no edge and no base.
NoRelevel ==
    /\ KeepBase /\ KeepInh /\ pending' = KeptPending
    /\ UNCHANGED <<applying, homeSide, renices>>

\* The notes of the processes S: none while one is pending for the record.
Note(S, sent) ==
    LET due == {p \in S : p \in DOMAIN recs' => ~KeptPending[p]} IN
    /\ pending' = [p \in DOMAIN recs' |-> KeptPending[p] \/ p \in due]
    /\ notes' = [p \in Pids |-> IF p \in due THEN sent[p] + 1 ELSE sent[p]]

\* relevel_all, given base' and applying': sent are the notes not dropped.
RelevelAll(seeds, skip, sent) ==
    LET A == IF Lending THEN SetA(seeds) ELSE DOMAIN recs'
        old(p) == IF p \in DOMAIN recs THEN inh[p] ELSE Inf
        now(p) == IF p \in DOMAIN recs' THEN inh'[p] ELSE Inf
        changed == {p \in A : now(p) # old(p)}
    IN
    CASE ~Lending' ->
            /\ inh' = [p \in DOMAIN recs' |-> Inf]
            /\ Note({}, sent)
      [] Lending' /\ Queued(tickets) \cup Queued(tickets)' = {} ->
            KeepInh /\ Note({}, sent)
      [] OTHER ->
            /\ inh' = [p \in DOMAIN recs' |->
                          IF p \in A THEN RecomputeInh(p)'
                          ELSE IF p \in DOMAIN recs THEN inh[p] ELSE Inf]
            /\ Note({p \in changed \ skip : HomeOf[p] \in applying'}, sent)

\* relevel_all at the end of an operation of one process.
Relevel(seeds) ==
    /\ KeepBase
    /\ UNCHANGED <<applying, priority, inherited, renices>>
    /\ RelevelAll(seeds, {}, notes)

\* The same after the processes E have ended: they inherit nothing.
RelevelEnded(E) ==
    /\ KeepBase
    /\ inherited' = [p \in Pids |-> IF p \in E THEN Inf ELSE inherited[p]]
    /\ UNCHANGED <<applying, priority, renices>>
    /\ RelevelAll(E, E, notes)

-----------------------------------------------------------------------------
(* The operations. *)

InheritInit ==
    /\ Init
    /\ applying = {} /\ renices = 0
    /\ base = Empty /\ inh = Empty /\ pending = Empty
    /\ priority \in [Pids -> Priorities]
    /\ inherited = [p \in Pids |-> Inf]
    /\ notes = [p \in Pids |-> 0]

\* prio: the home's scheduler uses a priority policy.
AttachPrioHome(prio) ==
    /\ AttachHome
    /\ applying' = IF prio THEN applying \cup {nextHome} ELSE applying
    /\ KeepBase
    /\ UNCHANGED <<priority, inherited, renices>>
    /\ RelevelAll({}, {}, notes)

\* The home's port is closed first: its notes are dropped.
DetachPrioHome(h) ==
    LET E == {p \in DOMAIN recs : HomeOf[p] = h}
        mine == {p \in Pids : HomeOf[p] = h}
    IN
    /\ DetachHome(h)
    /\ applying' = applying \ {h}
    /\ KeepBase
    /\ inherited' = [p \in Pids |-> IF p \in mine THEN Inf ELSE inherited[p]]
    /\ UNCHANGED <<priority, renices>>
    /\ RelevelAll(E, E, [p \in Pids |-> IF p \in mine THEN 0 ELSE notes[p]])

TryAcquireHold(p, r) == TryAcquire(p, r) /\ NoRelevel

\* Only a request that is queued moves an edge.
BlockRequest(p, r) ==
    /\ Block(p, r)
    /\ IF tickets'[nextSeq'].state = "queued" THEN Relevel({p}) ELSE NoRelevel

ResumeWaiter(p) == Resume(p) /\ NoRelevel
StartHold(p, i) == StartBody(p, i) /\ NoRelevel

CancelWait(p) == Cancel(p) /\ Relevel({p})

ReleaseHold(p, i) == Release(p, i) /\ Relevel({p})

EndProcess(p, abandon) == End(p, abandon) /\ RelevelEnded({p})

\* One that ends with no record only forgets what it last heard.
EndIdle(p) ==
    /\ p \notin DOMAIN recs /\ inherited[p] # Inf
    /\ inherited' = [inherited EXCEPT ![p] = Inf]
    /\ UNCHANGED <<vars, applying, levels, priority, notes, renices>>

\* Mutant of Renice: the table is told only if the process holds something.
ReniceHolders(p, v) ==
    /\ v # priority[p] /\ renices < MaxRenice
    /\ renices' = renices + 1
    /\ priority' = [priority EXCEPT ![p] = v]
    /\ UNCHANGED <<vars, applying, inherited>>
    /\ IF HoldIds(recs, p) # {}
         THEN base' = [base EXCEPT ![p] = v] /\ RelevelAll({p}, {}, notes)
         ELSE UNCHANGED <<levels, notes>>

\* A change of priority reaches the table if the process holds or waits.
Renice(p, v) ==
    /\ v # priority[p] /\ renices < MaxRenice
    /\ renices' = renices + 1
    /\ priority' = [priority EXCEPT ![p] = v]
    /\ UNCHANGED <<vars, applying, inherited>>
    /\ IF p \in DOMAIN recs
         THEN base' = [base EXCEPT ![p] = v] /\ RelevelAll({p}, {}, notes)
         ELSE UNCHANGED <<levels, notes>>

\* Mutant of ApplyRelevel: the record's flag stays set.
ApplyKeepsPending(p) ==
    /\ notes[p] > 0
    /\ notes' = [notes EXCEPT ![p] = @ - 1]
    /\ inherited' = [inherited EXCEPT ![p] = IF p \in DOMAIN recs THEN inh[p] ELSE Inf]
    /\ UNCHANGED <<vars, applying, levels, priority, renices>>

\* A home applies a note: what it reads is the value now, not the one noted.
ApplyRelevel(p) ==
    /\ notes[p] > 0
    /\ notes' = [notes EXCEPT ![p] = @ - 1]
    /\ inherited' = [inherited EXCEPT ![p] = IF p \in DOMAIN recs THEN inh[p] ELSE Inf]
    /\ pending' = [q \in DOMAIN recs |-> pending[q] /\ q # p]
    /\ UNCHANGED <<vars, applying, base, inh, priority, renices>>

InheritNext ==
    \/ \E prio \in BOOLEAN : AttachPrioHome(prio)
    \/ \E h \in homes : DetachPrioHome(h)
    \/ \E p \in Pids, r \in Requests : TryAcquireHold(p, r) \/ BlockRequest(p, r)
    \/ \E p \in Pids : ResumeWaiter(p) \/ CancelWait(p) \/ ApplyRelevel(p) \/ EndIdle(p)
    \/ \E p \in Pids : \E i \in HoldIds(recs, p) : StartHold(p, i) \/ ReleaseHold(p, i)
    \/ \E p \in Pids, abandon \in BOOLEAN : EndProcess(p, abandon)
    \/ \E p \in Pids, v \in Priorities : Renice(p, v)

InheritSpec == InheritInit /\ [][InheritNext]_ivars

-----------------------------------------------------------------------------
(* Properties. *)

\* The definition: the best base among the processes with a path to p.
InhFormula(p) ==
    Best({base[q] : q \in {r \in Pids \ {p} : Lends(r) /\ p \in Ball(Edges, {r})}})

\* I8, manager clause.  After every operation each record's inherited priority
\* is the one the whole graph gives, though the operation recomputed only the
\* records near its seeds.
LevelsExact == \A p \in DOMAIN recs : inh[p] = InhFormula(p)

\* I8, base clause.  The table knows the priority of every process it has a
\* record of, whenever and however often that changed.
BasesMirrored == \A p \in DOMAIN recs : base[p] = priority[p]

\* I8, quiescent clause.  With no note on its way a scheduler uses the inherited
\* priority the table has, though at most one note is sent until one is applied;
\* one without a priority policy uses none.
NotesArrive ==
    \A p \in Pids :
        notes[p] = 0 =>
            inherited[p] = IF HomeOf[p] \in applying /\ p \in DOMAIN recs
                             THEN inh[p] ELSE Inf

\* What inheritance is for: when no note is on its way, nobody that blocks a
\* process runs, on a scheduler with priorities, at a worse priority than it.
NoInversion ==
    (\A p \in Pids : notes[p] = 0) =>
        \A q \in Pids : \A p \in Succ(q) :
            HomeOf[p] \in applying /\ Lends(q)
            => priority[p] <= priority[q] \/ inherited[p] <= priority[q]

=============================================================================
