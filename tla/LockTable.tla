------------------------------- MODULE LockTable -------------------------------
(***************************************************************************)
(* The lock table of the state_exec lock manager (lock_manager.cpp): a     *)
(* hierarchical shared/exclusive lock over the key tree of an app, shared  *)
(* by the processes of every home (scheduler) attached to it.              *)
(*                                                                         *)
(* Every public operation of the table runs under one guard (M.mu), so     *)
(* each is one atomic action here.  The operations return notifications    *)
(* that the calling home delivers after the unlock: they belong to         *)
(* LockHomes.  Inherited priorities (relevel_all and a record's base and   *)
(* inh) belong to LockInherit, which conjoins them to these actions.       *)
(* Counters of lock_stats, owner texts, the trie that indexes keys and the *)
(* key-cache references are not state of this module: the trie only speeds *)
(* up the enumerations that BlkHold and BlkWait define.                    *)
(***************************************************************************)
EXTENDS Naturals, FiniteSets, LockKeys

CONSTANTS Pids,     \* processes that may reach the manager, of every home
          MaxHome,  \* bound: homes attached over the run are 0 .. MaxHome - 1
          HomeOf,   \* the home of each process
          MaxSeq,   \* bound: tickets over the run
          MaxHold   \* bound: with so many holds handed out nobody asks for more

HomeIds == 0 .. MaxHome - 1

ASSUME HomeAssumption == MaxHome \in Nat /\ HomeOf \in [Pids -> HomeIds]
ASSUME BoundAssumption == MaxSeq \in Nat /\ MaxHold \in Nat

VARIABLES homes,         \* ids of the attached homes
          nextHome,      \* the next home id: ids are never reused
          recs,          \* a record per process with a hold or a ticket
          holds,         \* by hold id
          tickets,       \* by ticket id, which is its seq in the queue
          nextSeq, nextHold, nextGen,  \* the last ids and generation handed out
          abandoned,     \* keys whose abandoned flag is set
          pendingReport  \* ghost: abandonments no section has been told of yet

counters == <<nextSeq, nextHold, nextGen>>
vars == <<homes, nextHome, recs, holds, tickets, counters, abandoned, pendingReport>>

-----------------------------------------------------------------------------
(* Conflicts and blockers (protocol 1 and 3.1).  R, H and T stand for the  *)
(* records, holds and tickets, so that they can be asked of the state an   *)
(* operation has reached midway.                                           *)

Queued(T) == {t \in DOMAIN T : T[t].state = "queued"}

HoldIds(R, p) == IF p \in DOMAIN R THEN R[p].holds ELSE {}

\* The conversion rule: p need not queue behind a waiter its own hold blocks.
Exempt(R, H, p, u) == \E i \in HoldIds(R, p) : Conflicts(u, H[i])

BlkHold(H, p, r) == {i \in DOMAIN H : H[i].pid # p /\ Conflicts(r, H[i])}

BlkWait(R, H, T, p, r, s) ==
    {u \in Queued(T) : /\ u < s /\ T[u].pid # p
                       /\ Conflicts(r, T[u])
                       /\ ~Exempt(R, H, p, T[u])}

SeqInf == nextSeq + 1   \* the place of a request not queued: behind every ticket

\* Mutant of Grantable: a request is tried against the holds alone.
HoldsAloneGrant(p, r, s) == BlkHold(holds, p, r) = {}

Grantable(p, r, s) ==
    BlkHold(holds, p, r) = {} /\ BlkWait(recs, holds, tickets, p, r, s) = {}

\* The processes that p, or a request r of p at place s, waits for.
Targets(p, r, s) ==
    {holds[i].pid : i \in BlkHold(holds, p, r)}
        \cup {tickets[u].pid : u \in BlkWait(recs, holds, tickets, p, r, s)}

TicketOf(p) == IF p \in DOMAIN recs THEN recs[p].ticket ELSE 0

Succ(p) == IF TicketOf(p) \in Queued(tickets)
             THEN Targets(p, tickets[TicketOf(p)], TicketOf(p))
             ELSE {}

\* p is reachable from the processes S along Succ: no set that contains S and
\* is closed under Succ leaves p out.
Reaches(S, p) ==
    \A C \in SUBSET Pids :
        (S \subseteq C /\ \A a \in C : Succ(a) \subseteq C) => p \in C

\* The holds of p, as its home knows them.
Own(p) == [i \in HoldIds(recs, p) |-> holds[i]]

\* Between a grant and its body's start only a handler can run, and it may
\* neither conflict with nor nest under the hold of the program it interrupted.
Interrupts(p, r) ==
    \E i \in HoldIds(recs, p) :
        /\ ~holds[i].started
        /\ \/ Conflicts(holds[i], r)
           \/ r.mode = "shared" /\ \E k \in r.keys : i \in Above(Own(p), k)

\* A process asks only while it runs: attached, and with no ticket of its own.
MayRequest(p, r) ==
    /\ HomeOf[p] \in homes
    /\ TicketOf(p) = 0
    /\ ~Upgrades(Own(p), r) /\ ~Covered(Own(p), r) /\ ~Interrupts(p, r)
    /\ nextHold < MaxHold

-----------------------------------------------------------------------------
(* Records, holds and the re-examination of the queue (4.1, 4.2).          *)

EnsureRec(p) ==
    IF p \in DOMAIN recs THEN recs
    ELSE [q \in DOMAIN recs \cup {p} |->
            IF q \in DOMAIN recs THEN recs[q] ELSE [holds |-> {}, ticket |-> 0]]

DropEmpty(R, S) ==
    LET keep == {p \in DOMAIN R : p \in S => R[p].holds # {} \/ R[p].ticket # 0}
    IN  [p \in keep |-> R[p]]

Taken(r, flags) == IF r.mode = "exclusive" THEN r.keys \cap flags ELSE {}

NewHold(p, r, gen, started) ==
    [pid |-> p, mode |-> r.mode, keys |-> r.keys, gen |-> gen,
     started |-> started, taken |-> Taken(r, abandoned)]

\* Mutant of NextGen: every grant raises the counter.
EveryGen(r) == nextGen + 1

NextGen(r) == IF r.mode = "exclusive" THEN nextGen + 1 ELSE nextGen

(* re_examine walks the queued tickets that touch the region in seq order  *)
(* and grants those that are grantable by then.  G is what it grants: a    *)
(* ticket granted earlier in the walk blocks a later one as a hold does,   *)
(* and the exemption can't lift that.                                      *)
\* Mutant of Touches: the walk visits the very keys of the region alone.
TouchesSameKey(t, region) == t.keys \cap region # {}

Touches(t, region) == \E k \in t.keys, l \in region : Overlap(k, l)

\* Mutant of IsPass: the walk tests each ticket against the holds alone.
HoldsAlonePass(R, H, T, region, G) ==
    \A t \in Queued(T) :
        t \in G <=> Touches(T[t], region) /\ BlkHold(H, T[t].pid, T[t]) = {}

IsPass(R, H, T, region, G) ==
    \A t \in Queued(T) :
        t \in G <=> /\ Touches(T[t], region)
                    /\ BlkHold(H, T[t].pid, T[t]) = {}
                    /\ BlkWait(R, H, T, T[t].pid, T[t], t) = {}
                    /\ \A u \in G : u < t => ~Conflicts(T[t], T[u])

UpTo(G, t) == {u \in G : u <= t}
\* Mutant of GrantId: the id after the next.
LateGrantId(G, t) == nextHold + 1 + Cardinality(UpTo(G, t))

GrantId(G, t) == nextHold + Cardinality(UpTo(G, t))
GrantGen(T, G, t) ==
    nextGen + Cardinality({u \in UpTo(G, t) : T[u].mode = "exclusive"})

GrantedHold(T, G, flags, t) ==
    [pid |-> T[t].pid, mode |-> T[t].mode, keys |-> T[t].keys,
     gen |-> GrantGen(T, G, t), started |-> FALSE, taken |-> Taken(T[t], flags)]

AddGrants(H, T, flags, G) ==
    LET ids == {GrantId(G, t) : t \in G}
        ticket(i) == CHOOSE t \in G : GrantId(G, t) = i
    IN  [i \in DOMAIN H \cup ids |->
            IF i \in DOMAIN H THEN H[i] ELSE GrantedHold(T, G, flags, ticket(i))]

GrantTickets(T, G) ==
    [t \in DOMAIN T |->
        IF t \in G THEN [T[t] EXCEPT !.state = "granted", !.hold = GrantId(G, t)]
                   ELSE T[t]]

GrantRecs(R, T, G) ==
    [p \in DOMAIN R |->
        [R[p] EXCEPT !.holds = @ \cup {GrantId(G, t) : t \in {u \in G : T[u].pid = p}}]]

\* finish: re-examine, grant G unstarted, drop the seeds' records if empty.
\* flags are the abandoned flags as the operation has left them.
Finish(R, H, T, flags, region, seeds) ==
    \E G \in SUBSET Queued(T) :
        /\ IsPass(R, H, T, region, G)
        /\ holds' = AddGrants(H, T, flags, G)
        /\ tickets' = GrantTickets(T, G)
        /\ recs' = DropEmpty(GrantRecs(R, T, G), seeds)
        /\ abandoned' = flags \ UNION {Taken(T[t], flags) : t \in G}
        /\ nextHold' = nextHold + Cardinality(G)
        /\ nextGen' = nextGen + Cardinality({t \in G : T[t].mode = "exclusive"})

-----------------------------------------------------------------------------
(* The operations. *)

Empty == [x \in {} |-> 0]

Init ==
    /\ homes = {} /\ nextHome = 0
    /\ recs = Empty /\ holds = Empty /\ tickets = Empty
    /\ nextSeq = 0 /\ nextHold = 0 /\ nextGen = 0
    /\ abandoned = {} /\ pendingReport = {}

AttachHome ==
    /\ nextHome < MaxHome
    /\ homes' = homes \cup {nextHome}
    /\ nextHome' = nextHome + 1
    /\ UNCHANGED <<recs, holds, tickets, counters, abandoned, pendingReport>>

\* A hold granted at the request itself: by try_acquire with its body started,
\* by block without.
Grant(p, r, started) ==
    LET R == EnsureRec(p)
        id == nextHold + 1
        hold == NewHold(p, r, NextGen(r), started)
    IN
    /\ holds' = [i \in DOMAIN holds \cup {id} |-> IF i = id THEN hold ELSE holds[i]]
    /\ recs' = [R EXCEPT ![p] = [holds |-> R[p].holds \cup {id},
                                 ticket |-> IF started THEN 0 ELSE nextSeq + 1]]
    /\ nextHold' = id
    /\ nextGen' = NextGen(r)
    /\ abandoned' = abandoned \ hold.taken
    /\ pendingReport' = IF started THEN pendingReport \ hold.taken ELSE pendingReport

\* Busy, it changes nothing.
TryAcquire(p, r) ==
    /\ MayRequest(p, r)
    /\ Grantable(p, r, SeqInf)
    /\ Grant(p, r, TRUE)
    /\ UNCHANGED <<homes, nextHome, tickets, nextSeq>>

AddTicket(p, r, state, hold) ==
    /\ nextSeq' = nextSeq + 1
    /\ tickets' = [t \in DOMAIN tickets \cup {nextSeq + 1} |->
                    IF t = nextSeq + 1
                      THEN [pid |-> p, mode |-> r.mode, keys |-> r.keys,
                            state |-> state, hold |-> hold]
                      ELSE tickets[t]]

\* Block, when the state changed since try_acquire found the request busy.
BlockGranted(p, r) ==
    /\ Grantable(p, r, SeqInf)
    /\ Grant(p, r, FALSE)
    /\ AddTicket(p, r, "granted", nextHold + 1)

\* Mutant of Deadlocks: one edge is followed, not the chain.
DirectDeadlocks(p, r) == \E q \in Targets(p, r, SeqInf) : p \in Succ(q)

\* Mutant of Deadlocks: every request may wait.
NeverDeadlocks(p, r) == FALSE

Deadlocks(p, r) == Reaches(Targets(p, r, SeqInf), p)

\* Block, busy: a ticket that has failed if waiting would close a cycle, else
\* one queued behind all.
BlockBusy(p, r) ==
    /\ ~Grantable(p, r, SeqInf)
    /\ AddTicket(p, r, IF Deadlocks(p, r) THEN "failed" ELSE "queued", 0)
    /\ recs' = [EnsureRec(p) EXCEPT ![p].ticket = nextSeq + 1]
    /\ UNCHANGED <<holds, nextHold, nextGen, abandoned, pendingReport>>

Block(p, r) ==
    /\ MayRequest(p, r)
    /\ nextSeq < MaxSeq
    /\ BlockGranted(p, r) \/ BlockBusy(p, r)
    /\ UNCHANGED <<homes, nextHome>>

\* The waiter collects its ticket's outcome.
Resume(p) ==
    LET t == TicketOf(p) IN
    /\ t # 0 /\ tickets[t].state # "queued"
    /\ tickets' = [u \in DOMAIN tickets \ {t} |-> tickets[u]]
    /\ recs' = DropEmpty([recs EXCEPT ![p].ticket = 0], {p})
    /\ UNCHANGED <<homes, nextHome, holds, counters, abandoned, pendingReport>>

\* The collected grant's section begins: it is told of what the grant took.
StartBody(p, i) ==
    /\ TicketOf(p) = 0
    /\ i \in HoldIds(recs, p) /\ ~holds[i].started
    /\ holds' = [holds EXCEPT ![i].started = TRUE]
    /\ pendingReport' = pendingReport \ holds[i].taken
    /\ UNCHANGED <<homes, nextHome, recs, tickets, counters, abandoned>>

\* A wait's deadline passes.  A ticket no longer queued is left as it is.
Cancel(p) ==
    LET t == TicketOf(p) IN
    /\ t \in Queued(tickets)
    /\ Finish(recs, holds, [tickets EXCEPT ![t].state = "cancelled"], abandoned,
              tickets[t].keys, {p})
    /\ UNCHANGED <<homes, nextHome, nextSeq, pendingReport>>

\* Mutant of Returned: a dropped grant keeps the report it took.
NeverReturned(i) == {}

\* drop_hold without abandonment: a report its holder never saw goes back.
Returned(i) == IF holds[i].started THEN {} ELSE holds[i].taken

Release(p, i) ==
    /\ TicketOf(p) = 0
    /\ i \in HoldIds(recs, p)
    /\ Finish([recs EXCEPT ![p].holds = @ \ {i}],
              [j \in DOMAIN holds \ {i} |-> holds[j]],
              tickets, abandoned \cup Returned(i), holds[i].keys, {p})
    /\ UNCHANGED <<homes, nextHome, nextSeq, pendingReport>>

\* end_locked on each process of E, then finish.  Abandoned, an exclusive
\* section cut short flags its keys.
EndAll(E, abandon) ==
    LET gone == UNION {recs[p].holds : p \in E}
        own == {recs[p].ticket : p \in E} \ {0}
        written == IF abandon
                     THEN UNION {holds[i].keys : i \in
                            {j \in gone : holds[j].started /\ holds[j].mode = "exclusive"}}
                     ELSE {}
    IN
    /\ Finish([p \in DOMAIN recs \ E |-> recs[p]],
              [i \in DOMAIN holds \ gone |-> holds[i]],
              [t \in DOMAIN tickets \ own |-> tickets[t]],
              abandoned \cup (UNION {Returned(i) : i \in gone}) \cup written,
              (UNION {holds[i].keys : i \in gone})
                \cup (UNION {tickets[t].keys : t \in own \cap Queued(tickets)}),
              {})
    /\ pendingReport' = pendingReport \cup written
    /\ UNCHANGED nextSeq

End(p, abandon) ==
    /\ p \in DOMAIN recs
    /\ EndAll({p}, abandon)
    /\ UNCHANGED <<homes, nextHome>>

\* Mutant of DetachHome: only processes that hold something are ended.
DetachHolders(h) ==
    /\ h \in homes
    /\ homes' = homes \ {h}
    /\ EndAll({p \in DOMAIN recs : HomeOf[p] = h /\ recs[p].holds # {}}, TRUE)
    /\ UNCHANGED nextHome

DetachHome(h) ==
    /\ h \in homes
    /\ homes' = homes \ {h}
    /\ EndAll({p \in DOMAIN recs : HomeOf[p] = h}, TRUE)
    /\ UNCHANGED nextHome

Next ==
    \/ AttachHome
    \/ \E h \in homes : DetachHome(h)
    \/ \E p \in Pids, r \in Requests : TryAcquire(p, r) \/ Block(p, r)
    \/ \E p \in Pids : Resume(p) \/ Cancel(p)
    \/ \E p \in Pids : \E i \in HoldIds(recs, p) : StartBody(p, i) \/ Release(p, i)
    \/ \E p \in Pids, abandon \in BOOLEAN : End(p, abandon)

Spec == Init /\ [][Next]_vars

-----------------------------------------------------------------------------
(* Properties. *)

Hold == [pid : Pids, mode : Modes, keys : SUBSET Keys, gen : Nat,
         started : BOOLEAN, taken : SUBSET Keys]
Ticket == [pid : Pids, mode : Modes, keys : SUBSET Keys,
           state : {"queued", "granted", "cancelled", "failed"}, hold : Nat]
Rec == [holds : SUBSET Nat, ticket : Nat]

RecsOK(R) == DOMAIN R \in SUBSET Pids /\ R \in [DOMAIN R -> Rec]
HoldsOK(H, n) == DOMAIN H \in SUBSET (1 .. n) /\ H \in [DOMAIN H -> Hold]
TicketsOK(T, n) == DOMAIN T \in SUBSET (1 .. n) /\ T \in [DOMAIN T -> Ticket]

\* The state keeps its types, and no id is above the last one handed out.
TypeOK ==
    /\ nextHome \in Nat /\ homes \in SUBSET (0 .. nextHome - 1)
    /\ nextSeq \in Nat /\ nextHold \in Nat /\ nextGen \in Nat
    /\ RecsOK(recs) /\ HoldsOK(holds, nextHold) /\ TicketsOK(tickets, nextSeq)
    /\ abandoned \in SUBSET Keys /\ pendingReport \in SUBSET Keys

Exclusive(H) ==
    \A i, j \in DOMAIN H : H[i].pid # H[j].pid => ~Conflicts(H[i], H[j])

\* I1.  No two processes hold conflicting locks, whatever their sections nest,
\* convert or cut short.
MutualExclusion == Exclusive(holds)

\* Records, holds and tickets name each other exactly.
HoldsLinked(R, H) ==
    /\ \A p \in DOMAIN R : R[p].holds = {i \in DOMAIN H : H[i].pid = p}
    /\ \A i \in DOMAIN H : H[i].pid \in DOMAIN R

TicketsLinked(R, T) ==
    /\ \A p \in DOMAIN R : R[p].ticket # 0 =>
            R[p].ticket \in DOMAIN T /\ T[R[p].ticket].pid = p
    /\ \A t \in DOMAIN T : T[t].pid \in DOMAIN R /\ R[T[t].pid].ticket = t

GrantsLinked(H, T) ==
    \A t \in DOMAIN T :
        IF T[t].state = "granted"
          THEN T[t].hold \in DOMAIN H /\ H[T[t].hold].pid = T[t].pid /\ ~H[T[t].hold].started
          ELSE T[t].hold = 0

\* I2, I3.  Records, holds and tickets name each other exactly, a granted
\* ticket's hold waits for its body, and a record stays only while it has
\* something to say, and only on an attached home.
RecordsMatch ==
    /\ HoldsLinked(recs, holds) /\ TicketsLinked(recs, tickets)
    /\ GrantsLinked(holds, tickets)
    /\ \A p \in DOMAIN recs :
        /\ recs[p].holds # {} \/ recs[p].ticket # 0
        /\ HomeOf[p] \in homes

\* I6.  No waiter is left behind: after every operation, no queued ticket is
\* grantable, though each operation re-examines only the keys it touched.
NoMissedGrant == \A t \in Queued(tickets) : ~Grantable(tickets[t].pid, tickets[t], t)

\* I7.  The wait-for graph has no cycle: every set of processes has one that
\* waits for none of the others.
NoDeadlock ==
    \A C \in SUBSET Pids : C # {} => \E a \in C : Succ(a) \cap C = {}

\* An exclusive section that begins on a key with an unreported abandonment is
\* the one that is told.
ToldAtStart ==
    \A i \in DOMAIN holds' :
        /\ holds'[i].started /\ holds'[i].mode = "exclusive"
        /\ (i \notin DOMAIN holds \/ ~holds[i].started)
        => holds'[i].keys \cap pendingReport \subseteq holds'[i].taken

\* I11.  No report of an abandoned section is lost, whoever ends in between.
SectionsAreTold == [][ToldAtStart]_vars

\* A hold is made ahead of an earlier conflicting waiter of another process only
\* when the new holder already held something that waiter wants.  The queue the
\* grant passes is that after the operation.
PassedByRule ==
    \A i \in DOMAIN holds' \ DOMAIN holds : \A u \in Queued(tickets') :
        LET p == holds'[i].pid
            own == {t \in DOMAIN tickets' : tickets'[t].hold = i}
        IN  /\ tickets'[u].pid # p
            /\ \A t \in own : u < t
            /\ Conflicts(holds'[i], tickets'[u])
            => Exempt(recs, holds, p, tickets'[u])

\* I5.  Requests go first come, first served, but for the conversion rule.
Fifo == [][PassedByRule]_vars

IsGreatest(g, S) == g \in S /\ \A h \in S : h <= g

\* The last exclusive generation when the grants of a step, up to some of them,
\* have been made: the counter's before the step, or one of theirs.
Given(ids) ==
    {nextGen} \cup {holds'[j].gen : j \in {k \in ids : holds'[k].mode = "exclusive"}}

\* An exclusive grant's generation is above every earlier grant's, those of the
\* same pass included, a shared grant carries that of the last exclusive one, and
\* so does the counter that the step leaves.
FencedGrants ==
    LET new       == DOMAIN holds' \ DOMAIN holds
        before(i) == Given({j \in new : j < i})
    IN  /\ \A i \in new :
            IF holds'[i].mode = "exclusive"
              THEN /\ \A g \in before(i) : g < holds'[i].gen
                   /\ \A j \in DOMAIN holds' : j < i => holds'[j].gen < holds'[i].gen
              ELSE IsGreatest(holds'[i].gen, before(i))
        /\ IsGreatest(nextGen', Given(new))

\* I15.  Fencing: generations of exclusive grants increase over the run, and a
\* shared grant has that of the last exclusive one.
GenerationsIncrease == [][FencedGrants]_vars

=============================================================================
