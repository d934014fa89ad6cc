---------------------------- MODULE LockHomesProofs ----------------------------
(***************************************************************************)
(* Proofs about LockHomes, for any processes, homes and keys: the homes    *)
(* use the table as it is meant to be used, each process's mirror is what  *)
(* the table has of it, and every wake reaches its waiter and none ends a  *)
(* later wait.  HomeInv, inductive over the table's own invariant, says of *)
(* each home what may stand in its row of calls, and of each process that  *)
(* its frames, its ticket and what is being done for it agree.             *)
(***************************************************************************)
EXTENDS LockHomes, LockTableProofs, SequenceTheorems

\* The calls home h has still to make, and the posts that have landed.
Todo(h) == Range(work[h])
Posts(h) == Range(port[h].posts)

Wakes == {"note", "wake"}
Asked == {"wait", "park", "collect", "unwind"}
Lone == {"wait", "park", "collect", "release", "detach"}

AnyCall == Wake
    \cup [call : {"wait"}, pid : Pids, req : Requests]
    \cup [call : {"park", "collect", "unwind"}, pid : Pids]
    \cup [call : {"release"}, pid : Pids, hold : Nat]
    \cup [call : {"expire"}, pids : (SUBSET Pids) \ {{}}]
    \cup [call : {"detach", "discard"}]

OneFrame == [hold : Nat, body : BOOLEAN, req : Requests]
Copy == [mode : Modes, keys : SUBSET Keys, count : Nat \ {0}]

TypedAt(p) ==
    /\ DOMAIN mirror[p] \subseteq Nat \ {0} /\ mirror[p] \in [DOMAIN mirror[p] -> Copy]
    /\ ticket[p] \in Nat /\ frames[p] \in Seq(OneFrame)

PortTyped(h) ==
    /\ port[h].closed \in BOOLEAN /\ port[h].posts \in Seq(Wake)
    /\ port[h] = [closed |-> port[h].closed, posts |-> port[h].posts]

Typed ==
    /\ work \in [HomeIds -> Seq(AnyCall)]
    /\ DOMAIN port = HomeIds /\ \A h \in HomeIds : PortTyped(h)
    /\ DOMAIN mirror = Pids /\ DOMAIN ticket = Pids /\ DOMAIN frames = Pids
    /\ \A p \in Pids : TypedAt(p)
    /\ waiting \subseteq Pids /\ ended \subseteq Pids

Bounds == nextHome <= MaxHome /\ nextSeq <= MaxSeq

\* Whose business a call is.
Owned(c, h) ==
    /\ c.call \in Asked \cup {"wake", "release"} => HomeOf[c.pid] = h
    /\ c.call = "note" => HomeOf[c.pid] < nextHome
    /\ c.call = "expire" => \A p \in c.pids : HomeOf[p] = h

\* In which order calls come: wakes first, and some calls by themselves.
Row(w, h) ==
    \A n \in 1 .. Len(w) : /\ n < Len(w) => w[n].call \in Wakes
                           /\ w[n].call \in Lone => Len(w) = 1
                           /\ Owned(w[n], h)

Shape(h) == Row(work[h], h) /\ \A c \in Posts(h) : c.call = "wake" /\ HomeOf[c.pid] = h

\* The life of a home.
Unborn(h) ==
    /\ work[h] = << >> /\ port[h] = [closed |-> FALSE, posts |-> << >>]
    /\ \A p \in Pids : HomeOf[p] = h =>
        mirror[p] = Empty /\ ticket[p] = 0 /\ frames[p] = << >> /\ p \notin waiting \cup ended

Gone(h) ==
    /\ port[h].closed
    /\ \A c \in Todo(h) : c.call = "discard" \/ (c.call = "note" /\ HomeOf[c.pid] # h)
    /\ \A p \in Pids : HomeOf[p] = h => frames[p] = << >>

Alive(h) ==
    /\ port[h].closed <=> \E c \in Todo(h) : c.call = "detach"
    /\ \A c \in Todo(h) : c.call # "discard"

Life(h) == IF h \in homes THEN Alive(h) ELSE IF h < nextHome THEN Gone(h) ELSE Unborn(h)

Shapes == \A h \in HomeIds : Shape(h) /\ Life(h)

\* What the thread of p's home is in the middle of for p.
Business(p) == {c \in Todo(HomeOf[p]) : c.call \in Asked \cup {"release"} /\ c.pid = p}
Doing(p, calls) == \E c \in Business(p) : c.call \in calls

Asks(p) == p \in waiting \/ Doing(p, Asked)

SameAs(a, b) == a.mode = b.mode /\ a.keys = b.keys

\* What is decided, and stays so.
Decided(t) == t \in 1 .. nextSeq /\ t \notin Queued(tickets)

FramesOK(p) ==
    \A n \in 1 .. Len(frames[p]) :
        /\ n < Len(frames[p]) => frames[p][n].body
        /\ frames[p][n].body => frames[p][n].hold # 0
        /\ frames[p][n].hold # 0 => frames[p][n].hold \in DOMAIN mirror[p]

\* Where a process is, as its home sees it.
Status(p) ==
    /\ FramesOK(p)
    /\ Asks(p) <=> frames[p] # << >> /\ Top(p).hold = 0
    /\ ticket[p] # 0 <=> p \in waiting \/ Doing(p, Asked \ {"wait"})
    /\ p \in waiting => Business(p) = {}
    /\ p \in ended => frames[p] = << >> /\ Business(p) = {}
    /\ \A c \in Business(p) : c.call = "wait" => c.req = Top(p).req
    /\ ticket[p] # 0 => SameAs(tickets[ticket[p]], Top(p).req)
    /\ Doing(p, {"collect", "unwind"}) => Decided(ticket[p])

\* The holds of p that no ticket names.
Mine(p) == {i \in DOMAIN holds : holds[i].pid = p}
Granted(p) == {tickets[t].hold : t \in {u \in DOMAIN tickets :
                                          tickets[u].pid = p /\ tickets[u].state = "granted"}}
Known(p) == Mine(p) \ Granted(p)

Releasing(p) == {c.hold : c \in {d \in Business(p) : d.call = "release"}}

Counts(p, i) == {n \in 1 .. Len(frames[p]) : frames[p][n].hold = i}

Copied(p) ==
    \A i \in DOMAIN mirror[p] :
        /\ SameAs(mirror[p][i], holds[i])
        /\ mirror[p][i].count = Cardinality(Counts(p, i))

Mirror(p) ==
    /\ ticket[p] = TicketOf(p)
    /\ DOMAIN mirror[p] = Known(p) \ Releasing(p)
    /\ Releasing(p) \subseteq Known(p)
    /\ Copied(p)

\* What p's frames count on covers what they ask for.
StandsAt(p, n) ==
    frames[p][n].hold # 0 =>
        \A k \in frames[p][n].req.keys : \E m \in 1 .. n :
            /\ frames[p][m].hold \in DOMAIN mirror[p]
            /\ Covers(mirror[p], frames[p][m].hold, frames[p][n].req, k)
Stands(p) == \A n \in 1 .. Len(frames[p]) : StandsAt(p, n)

\* A wake for what p waits for is on its way.
Coming(p) ==
    \/ \E h \in HomeIds : \E c \in Todo(h) : c.call \in Wakes /\ c.pid = p /\ c.tid = ticket[p]
    \/ \E c \in Posts(HomeOf[p]) : c.pid = p /\ c.tid = ticket[p]

Reached(p) ==
    (p \in waiting \/ Doing(p, {"park"})) /\ ticket[p] \notin Queued(tickets)
        => Coming(p) \/ port[HomeOf[p]].closed

Fine(p) == Status(p) /\ Mirror(p) /\ Stands(p) /\ Reached(p)

\* A home that is attached has its processes where it thinks they are.
Local == \A p \in Pids : HomeOf[p] \in homes => Fine(p)

\* A granted hold is what was asked for.
Matching ==
    \A t \in DOMAIN tickets : tickets[t].state = "granted" =>
        SameAs(holds[tickets[t].hold], tickets[t])

\* Wakes are for tickets that are decided.
Timely ==
    \A h \in HomeIds : /\ \A c \in Todo(h) : c.call \in Wakes => Decided(c.tid)
                       /\ \A c \in Posts(h) : Decided(c.tid)

HomeInv == Typed /\ Bounds /\ Shapes /\ Local /\ Matching /\ Timely

-----------------------------------------------------------------------------
(* What a home sees of a step of the table. *)

TicketRead ==
    \A p : /\ TicketOf(p) # 0 => TicketOf(p) \in DOMAIN tickets /\ tickets[TicketOf(p)].pid = p
           /\ \A t \in DOMAIN tickets : tickets[t].pid = p => t = TicketOf(p) /\ t # 0
           /\ HoldIds(recs, p) = Mine(p)

\* Where records match, tickets and holds tell whose they are.
LEMMA TicketReads == IInv => TicketRead
<1>. SUFFICES ASSUME IInv, NEW p
              PROVE  /\ TicketOf(p) # 0 => TicketOf(p) \in DOMAIN tickets /\ tickets[TicketOf(p)].pid = p
                     /\ \A t \in DOMAIN tickets : tickets[t].pid = p => t = TicketOf(p) /\ t # 0
                     /\ HoldIds(recs, p) = Mine(p)
  BY DEF TicketRead
<1>1. /\ HoldsLinked(recs, holds) /\ TicketsLinked(recs, tickets)
      /\ TicketsOK(tickets, nextSeq) /\ nextSeq \in Nat
  BY DEF IInv, RecordsMatch, TypeOK
<1>2. TicketOf(p) # 0 => TicketOf(p) \in DOMAIN tickets /\ tickets[TicketOf(p)].pid = p
  BY <1>1 DEF TicketOf, TicketsLinked
<1>3. \A t \in DOMAIN tickets : tickets[t].pid = p => t = TicketOf(p) /\ t # 0
  BY <1>1 DEF TicketOf, TicketsLinked, TicketsOK
<1>4. HoldIds(recs, p) = Mine(p)
  BY <1>1 DEF HoldIds, Mine, HoldsLinked
<1>. QED
  BY <1>2, <1>3, <1>4

LEMMA TicketReadsNext == IInv' => TicketRead'
BY TicketReads, PTL

\* What is p's of the table stays.
Same(p) == Known(p)' = Known(p) /\ \A i \in Known(p) : SameAs(holds'[i], holds[i])

\* So does its ticket, but that it may be granted.
Stable(p) ==
    /\ Same(p) /\ TicketOf(p)' = TicketOf(p)
    /\ TicketOf(p) # 0 => SameAs(tickets'[TicketOf(p)], tickets[TicketOf(p)])
    /\ TicketOf(p) \in Queued(tickets) => TicketOf(p) \in Queued(tickets') \cup Woken

\* What is decided stays decided.
Forward == \A t : Decided(t) => Decided(t)'

WokenDecided == \A t \in Woken : Decided(t)' /\ tickets[t].pid \in Pids /\ tickets'[t].pid = tickets[t].pid

\* A step of the table about the processes E.
View(E) == Matching' /\ Forward /\ WokenDecided /\ \A p \in Pids \ E : Stable(p)

\* The outcome of a pass over H and T: holds are added for tickets granted.
Passed(H, T) ==
    /\ \A i \in DOMAIN H : i \in DOMAIN holds' /\ holds'[i] = H[i]
    /\ DOMAIN tickets' = DOMAIN T
    /\ \A t \in DOMAIN T : \/ tickets'[t] = T[t]
                           \/ /\ t \in Queued(T)
                              /\ tickets'[t].state = "granted" /\ tickets'[t].pid = T[t].pid
                              /\ SameAs(tickets'[t], T[t])
                              /\ tickets'[t].hold \in DOMAIN holds' \ DOMAIN H
                              /\ holds'[tickets'[t].hold].pid = T[t].pid
                              /\ SameAs(holds'[tickets'[t].hold], T[t])
    /\ \A i \in DOMAIN holds' \ DOMAIN H :
        \E t \in Queued(T) : tickets'[t].state = "granted" /\ tickets'[t].hold = i

LEMMA FinishPasses ==
    ASSUME nextHold \in Nat, NEW n \in Nat, NEW R, NEW H, NEW T, NEW flags, NEW region, NEW seeds,
           HoldsOK(H, nextHold), TicketsOK(T, n), Finish(R, H, T, flags, region, seeds)
    PROVE  Passed(H, T)
<1>1. PICK G \in SUBSET Queued(T) :
        holds' = AddGrants(H, T, flags, G) /\ tickets' = GrantTickets(T, G)
  BY DEF Finish
<1>2. Extends(holds', H, T, flags, G)
  <2>1. Extends(AddGrants(H, T, flags, G), H, T, flags, G)
    BY AddGrantsFacts
  <2>. QED
    BY <1>1, <2>1
<1>3. /\ DOMAIN tickets' = DOMAIN T
      /\ \A t \in DOMAIN T \ G : tickets'[t] = T[t]
      /\ \A t \in G : /\ tickets'[t].state = "granted" /\ tickets'[t].hold = GrantId(G, t)
                      /\ tickets'[t].pid = T[t].pid /\ SameAs(tickets'[t], T[t])
  BY <1>1 DEF GrantTickets, TicketsOK, Ticket, Queued, SameAs
<1>4. \A t \in G : LET i == GrantId(G, t) IN
        /\ i \in DOMAIN holds' \ DOMAIN H
        /\ holds'[i].pid = T[t].pid /\ SameAs(holds'[i], T[t])
  <2>1. ASSUME NEW t \in G
        PROVE  /\ GrantId(G, t) \in DOMAIN holds' \ DOMAIN H
               /\ holds'[GrantId(G, t)] = GrantedHold(T, G, flags, t)
    BY <1>2 DEF Extends
  <2>2. \A t \in G : LET h == GrantedHold(T, G, flags, t) IN h.pid = T[t].pid /\ SameAs(h, T[t])
    BY DEF GrantedHold, SameAs
  <2>. QED
    BY <2>1, <2>2
<1>5. \A i \in DOMAIN holds' \ DOMAIN H : \E t \in G : i = GrantId(G, t)
  BY <1>2 DEF Extends
<1>6. \A i \in DOMAIN H : i \in DOMAIN holds' /\ holds'[i] = H[i]
  BY <1>2 DEF Extends
<1>7. ASSUME NEW t \in DOMAIN T
      PROVE  \/ tickets'[t] = T[t]
             \/ /\ t \in Queued(T)
                /\ tickets'[t].state = "granted" /\ tickets'[t].pid = T[t].pid
                /\ SameAs(tickets'[t], T[t])
                /\ tickets'[t].hold \in DOMAIN holds' \ DOMAIN H
                /\ holds'[tickets'[t].hold].pid = T[t].pid
                /\ SameAs(holds'[tickets'[t].hold], T[t])
  BY <1>3, <1>4
<1>8. ASSUME NEW i \in DOMAIN holds' \ DOMAIN H
      PROVE  \E t \in Queued(T) : tickets'[t].state = "granted" /\ tickets'[t].hold = i
  BY <1>3, <1>5
<1>. QED
  BY <1>3, <1>6, <1>7, <1>8 DEF Passed

\* H and T are what is left of the table's holds and tickets, all but some of E's.
Left(H, T, E) ==
    /\ \A i \in DOMAIN H : i \in DOMAIN holds /\ H[i] = holds[i]
    /\ \A i \in DOMAIN holds : holds[i].pid \notin E => i \in DOMAIN H
    /\ \A t \in DOMAIN T :
        /\ t \in DOMAIN tickets /\ T[t].pid = tickets[t].pid
        /\ T[t].state \in {"queued", "granted"} \/ T[t].pid \notin E => T[t] = tickets[t]
        /\ T[t].state = "granted" => T[t].hold \in DOMAIN H
    /\ \A t \in DOMAIN tickets : tickets[t].pid \notin E => t \in DOMAIN T

\* What p has of them and no ticket names.
Held(H, T, p) ==
    {i \in DOMAIN H : H[i].pid = p} \ {T[t].hold : t \in {u \in DOMAIN T :
                                           T[u].pid = p /\ T[u].state = "granted"}}

\* A pass hands p nothing but what its ticket names.
LEMMA PassHeld ==
    ASSUME NEW H, NEW T, NEW E, Left(H, T, E), Passed(H, T), NEW p
    PROVE  /\ Known(p)' = Held(H, T, p)
           /\ \A i \in Held(H, T, p) : holds'[i] = H[i] /\ i \in DOMAIN H
<1>1. ASSUME NEW i \in Held(H, T, p)
      PROVE  i \in Known(p)'
  <2>1. i \in DOMAIN H /\ H[i].pid = p
    BY DEF Held
  <2>2. i \in DOMAIN holds' /\ holds'[i].pid = p
    BY <2>1 DEF Passed
  <2>3. ASSUME NEW t \in DOMAIN tickets', tickets'[t].pid = p, tickets'[t].state = "granted",
               tickets'[t].hold = i
        PROVE  FALSE
    <3>1. t \in DOMAIN T /\ tickets'[t] = T[t]
      BY <2>1, <2>3 DEF Passed
    <3>. QED
      BY <2>3, <3>1 DEF Held
  <2>. QED
    BY <2>2, <2>3 DEF Known, Mine, Granted
<1>2. ASSUME NEW i \in Known(p)'
      PROVE  i \in Held(H, T, p)
  <2>1. i \in DOMAIN holds' /\ holds'[i].pid = p
    BY DEF Known, Mine
  <2>2. i \in DOMAIN H
    <3>. SUFFICES ASSUME i \notin DOMAIN H PROVE FALSE
      OBVIOUS
    <3>1. PICK t \in Queued(T) : tickets'[t].state = "granted" /\ tickets'[t].hold = i
      BY <2>1 DEF Passed
    <3>2. t \in DOMAIN T /\ T[t].state = "queued"
      BY DEF Queued
    <3>3. t \in DOMAIN tickets' /\ holds'[i].pid = T[t].pid /\ tickets'[t].pid = T[t].pid
      BY <3>1, <3>2 DEF Passed
    <3>. QED
      BY <2>1, <3>1, <3>3 DEF Known, Granted
  <2>3. H[i].pid = p
    BY <2>1, <2>2 DEF Passed
  <2>4. ASSUME NEW t \in DOMAIN T, T[t].pid = p, T[t].state = "granted", T[t].hold = i
        PROVE  FALSE
    <3>1. t \in DOMAIN tickets' /\ tickets'[t] = T[t]
      BY <2>4 DEF Passed, Queued
    <3>. QED
      BY <2>4, <3>1 DEF Known, Granted
  <2>. QED
    BY <2>2, <2>3, <2>4 DEF Held
<1>3. \A i \in Held(H, T, p) : holds'[i] = H[i] /\ i \in DOMAIN H
  BY DEF Held, Passed
<1>. QED
  BY <1>1, <1>2, <1>3

LEMMA PassView ==
    ASSUME IInv, IInv', Matching, nextSeq' = nextSeq,
           NEW H, NEW T, NEW E, Left(H, T, E), Passed(H, T)
    PROVE  View(E)
<1>1. TicketRead /\ TicketRead'
  BY TicketReads, TicketReadsNext
<1>2. TicketsOK(tickets, nextSeq) /\ TicketsOK(tickets', nextSeq')
  BY DEF IInv, TypeOK
<1>3. Matching'
  <2>. SUFFICES ASSUME NEW t \in DOMAIN tickets', tickets'[t].state = "granted"
                PROVE  SameAs(holds'[tickets'[t].hold], tickets'[t])
    BY DEF Matching
  <2>1. CASE tickets'[t] = T[t]
    <3>1. t \in DOMAIN tickets /\ T[t] = tickets[t] /\ T[t].hold \in DOMAIN H
      BY <2>1 DEF Passed, Left
    <3>2. holds'[T[t].hold] = holds[T[t].hold]
      BY <3>1 DEF Passed, Left
    <3>. QED
      BY <2>1, <3>1, <3>2 DEF Matching
  <2>2. CASE tickets'[t] # T[t]
    BY <2>2 DEF Passed, SameAs
  <2>. QED
    BY <2>1, <2>2
<1>4. \A t \in Queued(T) : t \in Queued(tickets) /\ T[t] = tickets[t]
  BY DEF Left, Queued
<1>5. Queued(tickets') \subseteq Queued(T)
  BY DEF Passed, Queued
<1>6. Forward
  BY <1>4, <1>5 DEF Forward, Decided
<1>7. WokenDecided
  <2>. SUFFICES ASSUME NEW t \in Woken
                PROVE  Decided(t)' /\ tickets[t].pid \in Pids /\ tickets'[t].pid = tickets[t].pid
    BY DEF WokenDecided
  <2>1. t \in Queued(tickets) /\ t \in DOMAIN tickets' /\ tickets'[t].state = "granted"
    BY DEF Woken
  <2>2. tickets'[t].pid = tickets[t].pid
    BY <2>1 DEF Passed, Left
  <2>3. t \in 1 .. nextSeq /\ tickets[t].pid \in Pids
    BY <1>2, <2>1 DEF TicketsOK, Ticket, Queued
  <2>. QED
    BY <2>1, <2>2, <2>3 DEF Decided, Queued
<1>8. ASSUME NEW p \in Pids \ E
      PROVE  Stable(p)
  <2>1. \A t \in DOMAIN tickets : tickets[t].pid = p => t \in DOMAIN T /\ T[t] = tickets[t]
    BY <1>8 DEF Left
  <2>2. \A t \in DOMAIN T : T[t].pid = p => t \in DOMAIN tickets /\ T[t] = tickets[t]
    BY <1>8 DEF Left
  <2>3. \A t \in DOMAIN tickets' : tickets'[t].pid = T[t].pid
    BY DEF Passed
  <2>4. TicketOf(p)' = TicketOf(p)
    <3>1. CASE TicketOf(p) # 0
      <4>1. TicketOf(p) \in DOMAIN tickets' /\ tickets'[TicketOf(p)].pid = p
        BY <1>1, <2>1, <2>3, <3>1 DEF TicketRead, Passed
      <4>. QED
        BY <1>1, <4>1 DEF TicketRead
    <3>2. CASE TicketOf(p) = 0
      <4>. SUFFICES ASSUME TicketOf(p)' # 0 PROVE FALSE
        BY <3>2
      <4>1. PICK t \in DOMAIN tickets' : tickets'[t].pid = p
        BY <1>1 DEF TicketRead
      <4>2. t \in DOMAIN tickets /\ tickets[t].pid = p
        BY <2>2, <2>3, <4>1 DEF Passed
      <4>. QED
        BY <1>1, <3>2, <4>2 DEF TicketRead
    <3>. QED
      BY <3>1, <3>2
  <2>5. ASSUME TicketOf(p) # 0
        PROVE  /\ SameAs(tickets'[TicketOf(p)], tickets[TicketOf(p)])
               /\ TicketOf(p) \in Queued(tickets) => TicketOf(p) \in Queued(tickets') \cup Woken
    <3>1. PICK t : t = TicketOf(p)
      OBVIOUS
    <3>2. t \in DOMAIN tickets /\ t \in DOMAIN T /\ T[t] = tickets[t] /\ t \in DOMAIN tickets'
      BY <1>1, <2>1, <2>5, <3>1 DEF TicketRead, Passed
    <3>3. SameAs(tickets'[t], T[t])
      BY <3>2 DEF Passed, SameAs
    <3>4. tickets'[t] = T[t] \/ tickets'[t].state = "granted"
      BY <3>2 DEF Passed
    <3>5. t \in Queued(tickets) => t \in Queued(tickets') \cup Woken
      BY <3>2, <3>4 DEF Queued, Woken
    <3>. QED
      BY <3>1, <3>2, <3>3, <3>5
  <2>6. TicketOf(p) = 0 => TicketOf(p) \notin Queued(tickets)
    BY <1>2 DEF Queued, TicketsOK
  <2>7. Held(H, T, p) = Known(p)
    <3>1. \A i : i \in DOMAIN H /\ H[i].pid = p <=> i \in DOMAIN holds /\ holds[i].pid = p
      BY <1>8 DEF Left
    <3>2. \A t : t \in DOMAIN T /\ T[t].pid = p <=> t \in DOMAIN tickets /\ tickets[t].pid = p
      BY <2>1, <2>2
    <3>. QED
      BY <2>2, <3>1, <3>2 DEF Held, Known, Mine, Granted
  <2>8. /\ Known(p)' = Held(H, T, p)
        /\ \A i \in Held(H, T, p) : holds'[i] = H[i] /\ i \in DOMAIN H
    BY PassHeld
  <2>10. Same(p)
    BY <2>7, <2>8 DEF Same, SameAs, Left
  <2>. QED
    BY <2>4, <2>5, <2>6, <2>10 DEF Stable
<1>. QED
  BY <1>3, <1>6, <1>7, <1>8 DEF View

\* Types and links, as the lemmas on passes take them.
LEMMA TypesLinks ==
    ASSUME IInv
    PROVE  /\ RecsOK(recs) /\ HoldsOK(holds, nextHold) /\ TicketsOK(tickets, nextSeq)
           /\ nextSeq \in Nat /\ nextHold \in Nat
           /\ HoldsLinked(recs, holds) /\ TicketsLinked(recs, tickets) /\ GrantsLinked(holds, tickets)
           /\ TicketRead
BY TicketReads DEF IInv, TypeOK, RecordsMatch

\* A hold that a ticket names is its process's, and in the table.
LEMMA GrantIs ==
    ASSUME IInv, NEW t \in DOMAIN tickets, tickets[t].state = "granted"
    PROVE  /\ tickets[t].hold \in DOMAIN holds /\ tickets[t].hold \in Nat \ {0}
           /\ holds[tickets[t].hold].pid = tickets[t].pid
           /\ ~holds[tickets[t].hold].started
<1>1. HoldsOK(holds, nextHold) /\ GrantsLinked(holds, tickets) /\ nextHold \in Nat
  BY TypesLinks
<1>2. tickets[t].hold \in DOMAIN holds
  BY <1>1 DEF GrantsLinked
<1>3. tickets[t].hold \in 1 .. nextHold
  BY <1>1, <1>2 DEF HoldsOK
<1>4. /\ holds[tickets[t].hold].pid = tickets[t].pid
      /\ ~holds[tickets[t].hold].started
  BY <1>1 DEF GrantsLinked
<1>. QED
  BY <1>1, <1>2, <1>3, <1>4

LEMMA CancelView ==
    ASSUME IInv, Matching, NEW p \in Pids, Cancel(p)
    PROVE  /\ View({p}) /\ Same(p) /\ TicketOf(p)' = TicketOf(p)
           /\ SameAs(tickets'[TicketOf(p)], tickets[TicketOf(p)])
           /\ \A t : t = TicketOf(p) => Decided(t)'
<1>. DEFINE t == TicketOf(p)
            T == [tickets EXCEPT ![t].state = "cancelled"]
<1>1. /\ t \in Queued(tickets)
      /\ Finish(recs, holds, T, abandoned, tickets[t].keys, {p})
      /\ nextSeq' = nextSeq
  BY DEF Cancel
<1>2. /\ HoldsOK(holds, nextHold) /\ TicketsOK(tickets, nextSeq) /\ nextSeq \in Nat
      /\ nextHold \in Nat /\ GrantsLinked(holds, tickets) /\ TicketRead
  BY TypesLinks
<1>3. IInv'
  BY CancelKeeps
<1>4. TicketRead'
  BY <1>3, TicketReadsNext
<1>5. t \in DOMAIN tickets /\ tickets[t].pid = p /\ t # 0 /\ tickets[t].state = "queued"
  BY <1>1, <1>2 DEF TicketRead, Queued
<1>. HIDE DEF t
<1>6. /\ TicketsOK(T, nextSeq) /\ DOMAIN T = DOMAIN tickets
      /\ T[t].state = "cancelled" /\ T[t].pid = p /\ SameAs(T[t], tickets[t])
      /\ \A u \in DOMAIN tickets : u # t => T[u] = tickets[u]
  BY <1>2, <1>5 DEF TicketsOK, Ticket, SameAs
<1>. HIDE DEF T
<1>7. Passed(holds, T)
  BY <1>1, <1>2, <1>6, FinishPasses
<1>8. Left(holds, T, {p})
  BY <1>2, <1>5, <1>6 DEF Left, GrantsLinked
<1>9. View({p})
  BY <1>1, <1>3, <1>7, <1>8, PassView
<1>10. Same(p)
  <2>1. Held(holds, T, p) = Known(p)
    BY <1>5, <1>6 DEF Held, Known, Mine, Granted
  <2>2. /\ Known(p)' = Held(holds, T, p)
        /\ \A i \in Held(holds, T, p) : holds'[i] = holds[i]
    BY <1>7, <1>8, PassHeld
  <2>. QED
    BY <2>1, <2>2 DEF Same, SameAs
<1>11. tickets'[t] = T[t] /\ t \in DOMAIN tickets'
  BY <1>5, <1>6, <1>7 DEF Passed, Queued
<1>12. TicketOf(p)' = t
  BY <1>4, <1>6, <1>11 DEF TicketRead
<1>13. SameAs(tickets'[t], tickets[t])
  BY <1>6, <1>11
<1>14. \A u : u = t => Decided(u)'
  BY <1>1, <1>2, <1>5, <1>6, <1>11 DEF Decided, Queued, TicketsOK
<1>. QED
  BY <1>9, <1>10, <1>12, <1>13, <1>14 DEF t

LEMMA ReleaseView ==
    ASSUME IInv, Matching, NEW p \in Pids, NEW i, Release(p, i)
    PROVE  /\ View({p}) /\ TicketOf(p) = 0 /\ TicketOf(p)' = 0
           /\ i \in Known(p) /\ Known(p)' = Known(p) \ {i}
           /\ \A j \in Known(p) \ {i} : SameAs(holds'[j], holds[j])
<1>. DEFINE R == [recs EXCEPT ![p].holds = @ \ {i}]
            H == [j \in DOMAIN holds \ {i} |-> holds[j]]
<1>1. /\ TicketOf(p) = 0 /\ i \in HoldIds(recs, p)
      /\ \E flags, region : Finish(R, H, tickets, flags, region, {p})
      /\ nextSeq' = nextSeq
  BY DEF Release
<1>2. /\ HoldsOK(holds, nextHold) /\ TicketsOK(tickets, nextSeq) /\ nextSeq \in Nat
      /\ nextHold \in Nat /\ GrantsLinked(holds, tickets) /\ TicketRead
  BY TypesLinks
<1>3. IInv'
  BY <1>1, ReleaseKeeps
<1>4. TicketRead'
  BY <1>3, TicketReadsNext
<1>5. i \in DOMAIN holds /\ holds[i].pid = p
  BY <1>1, <1>2 DEF TicketRead, Mine
<1>6. \A t \in DOMAIN tickets : tickets[t].pid # p
  BY <1>1, <1>2 DEF TicketRead
<1>7. /\ HoldsOK(H, nextHold) /\ DOMAIN H = DOMAIN holds \ {i}
      /\ \A j \in DOMAIN H : H[j] = holds[j]
  BY <1>2 DEF HoldsOK
<1>. HIDE DEF R, H
<1>8. Passed(H, tickets)
  BY <1>1, <1>2, <1>7, FinishPasses
<1>9. \A t \in DOMAIN tickets : tickets[t].state = "granted" => tickets[t].hold \in DOMAIN H
  BY <1>5, <1>6, <1>7, GrantIs
<1>10. Left(H, tickets, {p})
  BY <1>5, <1>7, <1>9 DEF Left
<1>11. View({p})
  BY <1>1, <1>3, <1>8, <1>10, PassView
<1>12. Held(H, tickets, p) = Known(p) \ {i}
  BY <1>5, <1>7 DEF Held, Known, Mine, Granted
<1>13. /\ Known(p)' = Held(H, tickets, p)
       /\ \A j \in Held(H, tickets, p) : holds'[j] = H[j] /\ j \in DOMAIN H
  BY <1>8, <1>10, PassHeld
<1>14. \A j \in Known(p) \ {i} : SameAs(holds'[j], holds[j])
  BY <1>7, <1>12, <1>13 DEF SameAs
<1>15. i \in Known(p)
  BY <1>5, <1>6 DEF Known, Mine, Granted
<1>16. \A t \in DOMAIN tickets' : t \in DOMAIN tickets /\ tickets'[t].pid = tickets[t].pid
  BY <1>8 DEF Passed
<1>17. TicketOf(p)' = 0
  BY <1>4, <1>6, <1>16 DEF TicketRead
<1>. QED
  BY <1>1, <1>11, <1>12, <1>13, <1>14, <1>15, <1>17

LEMMA EndAllView ==
    ASSUME IInv, IInv', Matching, NEW E \in SUBSET DOMAIN recs, NEW abandon \in BOOLEAN,
           EndAll(E, abandon)
    PROVE  View(E) /\ \A p \in E : TicketOf(p)' = 0 /\ Known(p)' = {}
<1>. DEFINE gone == UNION {recs[p].holds : p \in E}
            own == {recs[p].ticket : p \in E} \ {0}
            R == [p \in DOMAIN recs \ E |-> recs[p]]
            H == [i \in DOMAIN holds \ gone |-> holds[i]]
            T == [t \in DOMAIN tickets \ own |-> tickets[t]]
<1>1. /\ \E flags, region : Finish(R, H, T, flags, region, {})
      /\ nextSeq' = nextSeq
  BY DEF EndAll
<1>2. /\ RecsOK(recs) /\ HoldsOK(holds, nextHold) /\ TicketsOK(tickets, nextSeq)
      /\ nextSeq \in Nat /\ nextHold \in Nat
      /\ HoldsLinked(recs, holds) /\ TicketsLinked(recs, tickets) /\ TicketRead'
  BY TypesLinks, TicketReadsNext
<1>3. \A i \in DOMAIN holds : i \in gone <=> holds[i].pid \in E
  BY <1>2 DEF HoldsLinked
<1>4. \A t \in DOMAIN tickets : t \in own <=> tickets[t].pid \in E
  BY <1>2 DEF TicketsLinked, TicketsOK
<1>6. /\ HoldsOK(H, nextHold) /\ DOMAIN H = DOMAIN holds \ gone
      /\ \A i \in DOMAIN H : H[i] = holds[i]
  BY <1>2 DEF HoldsOK
<1>7. /\ TicketsOK(T, nextSeq) /\ DOMAIN T = DOMAIN tickets \ own
      /\ \A t \in DOMAIN T : T[t] = tickets[t]
  BY <1>2 DEF TicketsOK
<1>. HIDE DEF gone, own, R, H, T
<1>8. Passed(H, T)
  BY <1>1, <1>2, <1>6, <1>7, FinishPasses
<1>9. ASSUME NEW t \in DOMAIN T, T[t].state = "granted"
      PROVE  T[t].hold \in DOMAIN H
  <2>1. t \in DOMAIN tickets /\ T[t] = tickets[t] /\ tickets[t].pid \notin E
    BY <1>4, <1>7
  <2>2. T[t].hold \in DOMAIN holds /\ holds[T[t].hold].pid \notin E
    BY <1>9, <2>1, GrantIs
  <2>. QED
    BY <1>3, <1>6, <2>2
<1>10. Left(H, T, E)
  BY <1>3, <1>4, <1>6, <1>7, <1>9 DEF Left
<1>11. View(E)
  BY <1>1, <1>8, <1>10, PassView
<1>12. ASSUME NEW p \in E
       PROVE  TicketOf(p)' = 0 /\ Known(p)' = {}
  <2>1. Held(H, T, p) = {}
    BY <1>3, <1>6 DEF Held
  <2>2. Known(p)' = {}
    BY <1>8, <1>10, <2>1, PassHeld
  <2>3. \A t \in DOMAIN tickets' : t \in DOMAIN T /\ tickets'[t].pid = T[t].pid
    BY <1>8 DEF Passed
  <2>4. \A t \in DOMAIN tickets' : tickets'[t].pid # p
    BY <1>4, <1>7, <2>3
  <2>. QED
    BY <1>2, <2>2, <2>4 DEF TicketRead
<1>. QED
  BY <1>11, <1>12

LEMMA EndView ==
    ASSUME IInv, Matching, NEW p \in Pids, End(p, TRUE)
    PROVE  View({p}) /\ TicketOf(p)' = 0 /\ Known(p)' = {}
<1>1. {p} \in SUBSET DOMAIN recs /\ EndAll({p}, TRUE)
  BY DEF End
<1>2. IInv'
  BY EndKeeps
<1>. QED
  BY <1>1, <1>2, EndAllView

\* A process of no attached home has nothing in the table.
LEMMA Strangers ==
    ASSUME IInv, NEW p \in Pids, HomeOf[p] \notin homes
    PROVE  TicketOf(p) = 0 /\ Known(p) = {}
<1>1. p \notin DOMAIN recs
  BY DEF IInv, RecordsMatch
<1>2. HoldIds(recs, p) = Mine(p)
  BY TypesLinks DEF TicketRead
<1>. QED
  BY <1>1, <1>2 DEF TicketOf, HoldIds, Known

LEMMA DetachView ==
    ASSUME IInv, Matching, NEW h \in homes, DetachHome(h)
    PROVE  /\ View({p \in Pids : HomeOf[p] = h}) /\ IInv'
           /\ \A t \in Woken : HomeOf[tickets[t].pid] \in homes \ {h}
<1>. DEFINE E == {p \in DOMAIN recs : HomeOf[p] = h}
            F == {p \in Pids : HomeOf[p] = h}
<1>1. EndAll(E, TRUE) /\ E \in SUBSET DOMAIN recs /\ homes' = homes \ {h}
  BY DEF DetachHome
<1>2. IInv'
  BY DetachHomeKeeps
<1>3. View(E)
  BY <1>1, <1>2, EndAllView
<1>4. E \subseteq F
  BY TypesLinks DEF RecsOK
<1>5. View(F)
  BY <1>3, <1>4 DEF View
<1>6. ASSUME NEW t \in Woken
      PROVE  HomeOf[tickets[t].pid] \in homes \ {h}
  <2>1. t \in DOMAIN tickets' /\ tickets'[t].pid = tickets[t].pid
    BY <1>3 DEF View, WokenDecided, Woken
  <2>2. tickets'[t].pid \in DOMAIN recs'
    BY <1>2, <2>1 DEF IInv, RecordsMatch, TicketsLinked
  <2>. QED
    BY <1>1, <1>2, <2>1, <2>2 DEF IInv, RecordsMatch
<1>. QED
  BY <1>2, <1>5, <1>6

\* The table as it was, for those who look at holds and tickets.
Still == /\ holds' = holds /\ tickets' = tickets /\ nextSeq' = nextSeq
         /\ \A p \in Pids : TicketOf(p)' = TicketOf(p)

LEMMA StillView ==
    ASSUME Matching, Still
    PROVE  /\ Matching' /\ Forward /\ Woken = {} /\ \A p \in Pids : Stable(p)
           /\ View({})
<1>1. /\ Matching' /\ Forward
      /\ Queued(tickets') = Queued(tickets)
  BY DEF Still, Matching, SameAs, Forward, Decided, Queued
<1>2. Woken = {}
  BY DEF Still, Woken, Queued
<1>3. ASSUME NEW p \in Pids
      PROVE  Stable(p)
  <2>1. Known(p)' = Known(p)
    BY DEF Still, Known, Mine, Granted
  <2>2. Same(p)
    BY <2>1 DEF Still, Same, SameAs
  <2>. QED
    BY <1>1, <2>2 DEF Still, Stable, SameAs
<1>. QED
  BY <1>1, <1>2, <1>3 DEF View, WokenDecided

LEMMA UnchangedIsStill == UNCHANGED table => Still
BY DEF table, vars, counters, Still, TicketOf

LEMMA AttachIsStill == AttachHome => Still
BY DEF AttachHome, counters, Still, TicketOf

LEMMA StartBodyView ==
    ASSUME IInv, Matching, NEW p \in Pids, NEW i, StartBody(p, i)
    PROVE  View({}) /\ Woken = {}
<1>1. /\ i \in HoldIds(recs, p) /\ holds' = [holds EXCEPT ![i].started = TRUE]
      /\ recs' = recs /\ tickets' = tickets /\ nextSeq' = nextSeq
  BY DEF StartBody, counters
<1>2. HoldsOK(holds, nextHold) /\ TicketRead
  BY TypesLinks
<1>3. i \in DOMAIN holds
  BY <1>1, <1>2 DEF TicketRead, Mine
<1>4. /\ DOMAIN holds' = DOMAIN holds
      /\ \A j \in DOMAIN holds : holds'[j].pid = holds[j].pid /\ SameAs(holds'[j], holds[j])
  BY <1>1, <1>2, <1>3 DEF HoldsOK, Hold, SameAs
<1>5. \A t \in DOMAIN tickets : tickets[t].state = "granted" => tickets[t].hold \in DOMAIN holds
  BY GrantIs
<1>6. /\ Matching' /\ Forward
      /\ Queued(tickets') = Queued(tickets)
  BY <1>1, <1>4, <1>5 DEF Matching, SameAs, Forward, Decided, Queued
<1>7. Woken = {}
  BY <1>1 DEF Woken, Queued
<1>8. ASSUME NEW q \in Pids
      PROVE  Stable(q)
  <2>1. Mine(q)' = Mine(q) /\ Granted(q)' = Granted(q)
    BY <1>1, <1>4 DEF Mine, Granted
  <2>2. Same(q)
    BY <1>4, <2>1 DEF Same, Known, Mine
  <2>. QED
    BY <1>1, <1>6, <2>2 DEF Stable, SameAs, TicketOf
<1>. QED
  BY <1>6, <1>7, <1>8 DEF View, WokenDecided

\* p's ticket goes, and a hold it names is p's from now on.
LEMMA ResumeView ==
    ASSUME IInv, Matching, NEW p \in Pids, Resume(p)
    PROVE  /\ View({p}) /\ Woken = {} /\ holds' = holds /\ TicketOf(p)' = 0 /\ TicketOf(p) # 0
           /\ TicketOf(p) \in DOMAIN tickets \ Queued(tickets)
           /\ LET t == TicketOf(p) IN
              IF tickets[t].state = "granted"
                THEN /\ tickets[t].hold \notin Known(p) /\ tickets[t].hold \in Nat \ {0}
                     /\ Known(p)' = Known(p) \cup {tickets[t].hold}
                     /\ SameAs(holds[tickets[t].hold], tickets[t])
                ELSE Known(p)' = Known(p)
<1>1. PICK t : t = TicketOf(p)
  OBVIOUS
<1>2. /\ t # 0 /\ tickets[t].state # "queued"
      /\ tickets' = [u \in DOMAIN tickets \ {t} |-> tickets[u]]
      /\ holds' = holds /\ nextSeq' = nextSeq
  BY <1>1 DEF Resume, counters
<1>3. IInv'
  BY ResumeKeeps
<1>4. TicketsOK(tickets, nextSeq) /\ TicketRead /\ TicketRead'
  BY <1>3, TypesLinks, TicketReadsNext
<1>5. t \in DOMAIN tickets /\ tickets[t].pid = p
  BY <1>1, <1>2, <1>4 DEF TicketRead
<1>6. /\ \A u \in DOMAIN tickets : tickets[u].pid = p <=> u = t
      /\ \A u : u \in DOMAIN tickets' <=> u \in DOMAIN tickets /\ u # t
      /\ \A u \in DOMAIN tickets' : tickets'[u] = tickets[u]
  BY <1>1, <1>2, <1>4, <1>5 DEF TicketRead
<1>7. Queued(tickets') = Queued(tickets)
  BY <1>2, <1>6 DEF Queued
<1>8. Matching' /\ Forward
  BY <1>2, <1>6, <1>7 DEF Matching, Forward, Decided
<1>9. Woken = {}
  BY <1>6 DEF Woken, Queued
<1>10. ASSUME NEW q \in Pids, q # p
       PROVE  Stable(q)
  <2>1. Granted(q)' = Granted(q)
    BY <1>5, <1>6, <1>10 DEF Granted
  <2>2. Same(q)
    BY <1>2, <2>1 DEF Same, Known, Mine, SameAs
  <2>3. TicketOf(q)' = TicketOf(q)
    <3>1. CASE TicketOf(q) # 0
      BY <1>4, <1>5, <1>6, <1>10, <3>1 DEF TicketRead
    <3>2. CASE TicketOf(q) = 0
      BY <1>4, <1>6, <3>2 DEF TicketRead
    <3>. QED
      BY <3>1, <3>2
  <2>4. TicketOf(q) # 0 => SameAs(tickets'[TicketOf(q)], tickets[TicketOf(q)])
    BY <1>4, <1>5, <1>6, <1>10 DEF TicketRead, SameAs
  <2>. QED
    BY <1>7, <2>2, <2>3, <2>4 DEF Stable
<1>11. View({p})
  BY <1>8, <1>9, <1>10 DEF View, WokenDecided
<1>12. TicketOf(p)' = 0
  BY <1>4, <1>6 DEF TicketRead
<1>13. Granted(p)' = {} /\ Mine(p)' = Mine(p)
  BY <1>2, <1>6 DEF Granted, Mine
<1>14. CASE tickets[t].state = "granted"
  <2>1. /\ tickets[t].hold \in Mine(p) /\ tickets[t].hold \in Nat \ {0}
        /\ SameAs(holds[tickets[t].hold], tickets[t])
    BY <1>5, <1>14, GrantIs DEF Mine, Matching
  <2>2. Granted(p) = {tickets[t].hold}
    BY <1>5, <1>6, <1>14 DEF Granted
  <2>. QED
    BY <1>1, <1>2, <1>5, <1>9, <1>11, <1>12, <1>13, <1>14, <2>1, <2>2 DEF Known, Queued
<1>15. CASE tickets[t].state # "granted"
  <2>1. Granted(p) = {}
    BY <1>6, <1>15 DEF Granted
  <2>. QED
    BY <1>1, <1>2, <1>5, <1>9, <1>11, <1>12, <1>13, <1>15, <2>1 DEF Known, Queued
<1>. QED
  BY <1>14, <1>15

\* A hold for p, under the id after the last.
Added(p, r) ==
    /\ nextHold + 1 \in Nat \ {0} /\ nextHold + 1 \notin DOMAIN holds
    /\ DOMAIN holds' = DOMAIN holds \cup {nextHold + 1}
    /\ \A i \in DOMAIN holds : holds'[i] = holds[i]
    /\ holds'[nextHold + 1].pid = p /\ SameAs(holds'[nextHold + 1], r)

LEMMA GrantAdds ==
    ASSUME IInv, NEW p, NEW r, NEW started, Grant(p, r, started)
    PROVE  Added(p, r)
<1>. DEFINE hold == NewHold(p, r, NextGen(r), started)
<1>1. hold.pid = p /\ SameAs(hold, r)
  BY DEF NewHold, SameAs
<1>2. holds' = [i \in DOMAIN holds \cup {nextHold + 1} |->
                    IF i = nextHold + 1 THEN hold ELSE holds[i]]
  BY DEF Grant
<1>. HIDE DEF hold
<1>3. HoldsOK(holds, nextHold) /\ nextHold \in Nat
  BY TypesLinks
<1>4. nextHold + 1 \notin DOMAIN holds /\ nextHold + 1 \in Nat \ {0}
  BY <1>3 DEF HoldsOK
<1>. QED
  BY <1>1, <1>2, <1>4 DEF Added

LEMMA TryAcquireView ==
    ASSUME IInv, Matching, NEW p \in Pids, NEW r \in Requests, TryAcquire(p, r)
    PROVE  /\ View({p}) /\ Woken = {} /\ TicketOf(p) = 0 /\ TicketOf(p)' = 0
           /\ nextHold + 1 \in Nat \ {0} /\ nextHold + 1 \notin Known(p)
           /\ Known(p)' = Known(p) \cup {nextHold + 1}
           /\ \A i \in Known(p) : SameAs(holds'[i], holds[i])
           /\ SameAs(holds'[nextHold + 1], r)
<1>1. TicketOf(p) = 0 /\ Grant(p, r, TRUE) /\ tickets' = tickets /\ nextSeq' = nextSeq
  BY DEF TryAcquire, MayRequest
<1>2. Added(p, r)
  BY <1>1, GrantAdds
<1>3. IInv'
  BY TryAcquireKeeps
<1>4. TicketRead /\ TicketRead'
  BY <1>3, TicketReads, TicketReadsNext
<1>5. \A q \in Pids : TicketOf(q)' = TicketOf(q)
  <2>. SUFFICES ASSUME NEW q \in Pids PROVE TicketOf(q)' = TicketOf(q)
    OBVIOUS
  <2>1. CASE TicketOf(q) # 0
    BY <1>1, <1>4, <2>1 DEF TicketRead
  <2>2. CASE TicketOf(q) = 0
    BY <1>1, <1>4, <2>2 DEF TicketRead
  <2>. QED
    BY <2>1, <2>2
<1>6. \A t \in DOMAIN tickets : tickets[t].state = "granted" => tickets[t].hold \in DOMAIN holds
  BY GrantIs
<1>7. Matching' /\ Forward /\ Woken = {}
  BY <1>1, <1>2, <1>6 DEF Added, Matching, Forward, Decided, Woken, Queued
<1>8. \A q : Granted(q)' = Granted(q)
  BY <1>1 DEF Granted
<1>9. ASSUME NEW q \in Pids, q # p
      PROVE  Stable(q)
  <2>1. Mine(q)' = Mine(q)
    BY <1>2, <1>9 DEF Added, Mine
  <2>2. Same(q)
    BY <1>2, <1>8, <2>1 DEF Added, Same, Known, Mine, SameAs
  <2>. QED
    BY <1>1, <1>5, <2>2 DEF Stable, SameAs
<1>10. View({p})
  BY <1>7, <1>9 DEF View, WokenDecided
<1>11. Mine(p)' = Mine(p) \cup {nextHold + 1}
  BY <1>2 DEF Added, Mine
<1>12. nextHold + 1 \notin Granted(p)
  BY <1>2, <1>6 DEF Added, Granted
<1>13. Known(p)' = Known(p) \cup {nextHold + 1} /\ nextHold + 1 \notin Known(p)
  BY <1>2, <1>8, <1>11, <1>12 DEF Added, Known, Mine
<1>14. \A i \in Known(p) : SameAs(holds'[i], holds[i])
  BY <1>2 DEF Added, Known, Mine, SameAs
<1>. QED
  BY <1>1, <1>2, <1>5, <1>7, <1>10, <1>13, <1>14 DEF Added

\* p has a ticket for r, under the number after the last.
LEMMA BlockView ==
    ASSUME IInv, Matching, NEW p \in Pids, NEW r \in Requests, Block(p, r)
    PROVE  /\ View({p}) /\ Same(p) /\ Woken = {}
           /\ nextSeq' \in Nat \ {0} /\ TicketOf(p)' = nextSeq'
           /\ SameAs(tickets'[nextSeq'], r)
           /\ \A t : t = nextSeq' /\ t \notin Queued(tickets') => Decided(t)'
<1>1. /\ TicketOf(p) = 0 /\ IInv' /\ TypeOK /\ TypeOK' /\ TicketRead /\ TicketRead'
      /\ HoldsOK(holds, nextHold) /\ nextHold \in Nat
  BY BlockKeeps, TicketReads, TicketReadsNext, TypesLinks DEF Block, MayRequest, IInv
<1>2. \E state \in {"queued", "granted", "failed"}, hold \in Nat : AddTicket(p, r, state, hold)
  <2>1. CASE BlockGranted(p, r)
    BY <1>1, <2>1 DEF BlockGranted
  <2>2. CASE BlockBusy(p, r)
    BY <2>2 DEF BlockBusy
  <2>. QED
    BY <2>1, <2>2 DEF Block
<1>3. /\ nextSeq' \in Nat \ {0} /\ nextSeq' = nextSeq + 1
      /\ nextSeq' \notin DOMAIN tickets
      /\ DOMAIN tickets' = DOMAIN tickets \cup {nextSeq'}
      /\ \A t \in DOMAIN tickets : tickets'[t] = tickets[t]
      /\ tickets'[nextSeq'].pid = p
  <2>1. PICK state \in {"queued", "granted", "failed"}, hold \in Nat : AddTicket(p, r, state, hold)
    BY <1>2
  <2>2. TicketAdded(p, state, hold)
    BY <1>1, <2>1, AddTicketFacts
  <2>. QED
    BY <2>2 DEF TicketAdded
<1>4. SameAs(tickets'[nextSeq'], r)
  BY <1>2, <1>3 DEF AddTicket, SameAs
<1>5. /\ Forward /\ Woken = {}
      /\ \A t : t = nextSeq' /\ t \notin Queued(tickets') => Decided(t)'
      /\ Queued(tickets) \subseteq Queued(tickets')
  BY <1>1, <1>3 DEF Forward, Decided, Woken, Queued, TypeOK
<1>6. \A t \in DOMAIN tickets : tickets[t].pid # p
  BY <1>1 DEF TicketRead
<1>7. TicketOf(p)' = nextSeq'
  BY <1>1, <1>3 DEF TicketRead
<1>8. ASSUME NEW q \in Pids, q # p
      PROVE  /\ TicketOf(q)' = TicketOf(q)
             /\ TicketOf(q) # 0 => SameAs(tickets'[TicketOf(q)], tickets[TicketOf(q)])
             /\ TicketOf(q) \in Queued(tickets) => TicketOf(q) \in Queued(tickets')
             /\ Granted(q)' = Granted(q)
  <2>1. TicketOf(q)' = TicketOf(q)
    <3>1. CASE TicketOf(q) # 0
      BY <1>1, <1>3, <3>1 DEF TicketRead
    <3>2. CASE TicketOf(q) = 0
      BY <1>1, <1>3, <1>8, <3>2 DEF TicketRead
    <3>. QED
      BY <3>1, <3>2
  <2>2. Granted(q)' = Granted(q)
    BY <1>3, <1>8 DEF Granted
  <2>. QED
    BY <1>1, <1>3, <1>5, <2>1, <2>2 DEF TicketRead, SameAs
<1>9. CASE BlockGranted(p, r)
  <2>1. /\ Added(p, r) /\ tickets'[nextSeq'].hold = nextHold + 1
        /\ tickets'[nextSeq'].state = "granted"
    <3>1. Grant(p, r, FALSE) /\ AddTicket(p, r, "granted", nextHold + 1)
      BY <1>9 DEF BlockGranted
    <3>2. Added(p, r)
      BY <3>1, GrantAdds
    <3>. QED
      BY <1>3, <3>1, <3>2 DEF AddTicket
  <2>2. \A t \in DOMAIN tickets : tickets[t].state = "granted" => tickets[t].hold \in DOMAIN holds
    BY GrantIs
  <2>3. Matching'
    BY <1>3, <1>4, <2>1, <2>2 DEF Added, Matching, SameAs
  <2>4. ASSUME NEW q \in Pids, q # p
        PROVE  Stable(q)
    <3>1. Mine(q)' = Mine(q)
      BY <2>1, <2>4 DEF Added, Mine
    <3>2. Same(q)
      BY <1>8, <2>1, <2>4, <3>1 DEF Added, Same, Known, Mine, SameAs
    <3>. QED
      BY <1>8, <2>4, <3>2 DEF Stable
  <2>5. Mine(p)' = Mine(p) \cup {nextHold + 1} /\ nextHold + 1 \notin Mine(p)
    BY <2>1 DEF Added, Mine
  <2>6. Granted(p) = {} /\ Granted(p)' = {nextHold + 1}
    BY <1>3, <1>6, <2>1 DEF Granted
  <2>7. Same(p)
    BY <2>1, <2>5, <2>6 DEF Added, Same, Known, Mine, SameAs
  <2>. QED
    BY <1>3, <1>4, <1>5, <1>7, <2>3, <2>4, <2>7 DEF View, WokenDecided
<1>10. CASE BlockBusy(p, r)
  <2>1. holds' = holds /\ tickets'[nextSeq'].state # "granted"
    BY <1>3, <1>10 DEF BlockBusy, AddTicket
  <2>2. Matching'
    BY <1>3, <2>1 DEF Matching, SameAs
  <2>3. Granted(p)' = Granted(p)
    BY <1>3, <2>1 DEF Granted
  <2>4. \A q \in Pids : Same(q)
    BY <1>8, <2>1, <2>3 DEF Same, Known, Mine, SameAs
  <2>5. \A q \in Pids \ {p} : Stable(q)
    BY <1>8, <2>4 DEF Stable
  <2>. QED
    BY <1>3, <1>4, <1>5, <1>7, <2>2, <2>4, <2>5 DEF View, WokenDecided
<1>. QED
  BY <1>9, <1>10 DEF Block

-----------------------------------------------------------------------------
(* Every call of the homes on the table is an operation of the table.      *)

LEMMA CallTypes ==
    ASSUME NEW c \in AnyCall
    PROVE  /\ c.call \in Wakes => c \in Wake /\ c.pid \in Pids /\ c.tid \in 1 .. MaxSeq
           /\ c.call \in Asked \cup {"release"} => c.pid \in Pids
           /\ c.call = "wait" => c.req \in Requests
           /\ c.call = "expire" => c.pids \subseteq Pids /\ c.pids # {}
BY DEF AnyCall, Wake, Wakes, Asked

LEMMA Heads ==
    ASSUME Typed, NEW h \in HomeIds
    PROVE  /\ work[h] \in Seq(AnyCall) /\ Todo(h) \subseteq AnyCall
           /\ work[h] # << >> => Len(work[h]) \in Nat \ {0} /\ work[h][1] \in Todo(h)
           /\ Todo(h) = {work[h][n] : n \in 1 .. Len(work[h])}
           /\ work[h] = << >> => Todo(h) = {}
<1>1. work[h] \in Seq(AnyCall)
  BY DEF Typed
<1>2. /\ Len(work[h]) \in Nat /\ (work[h] # << >> => Len(work[h]) # 0)
      /\ Len(<< >>) = 0
  BY <1>1, EmptySeq, LenProperties
<1>3. Todo(h) = {work[h][n] : n \in 1 .. Len(work[h])} /\ Todo(h) \subseteq AnyCall
  BY <1>1, RangeEquality, RangeOfSeq DEF Todo
<1>. QED
  BY <1>1, <1>2, <1>3

LEMMA TableCalls == TypeOK /\ Typed /\ [HNext]_hvars => [Next]_vars
<1>. SUFFICES ASSUME TypeOK, Typed, [HNext]_hvars PROVE [Next]_vars
  OBVIOUS
<1>1. CASE UNCHANGED hvars
  BY <1>1 DEF hvars, table, vars
<1>2. CASE AttachLockHome
  BY <1>2 DEF AttachLockHome, Next
<1>3. ASSUME NEW p \in Pids, NEW r \in Requests, TryEnter(p, r)
      PROVE  [Next]_vars
  <2>1. EnterCovered(p, r) \/ EnterFast(p, r) \/ EnterBusy(p, r)
    BY <1>3 DEF TryEnter
  <2>2. UNCHANGED vars \/ TryAcquire(p, r)
    <3>1. CASE EnterCovered(p, r)
      BY <3>1 DEF EnterCovered, table
    <3>2. CASE EnterFast(p, r)
      BY <3>2 DEF EnterFast
    <3>3. CASE EnterBusy(p, r)
      BY <3>3 DEF EnterBusy, table
    <3>. QED
      BY <2>1, <3>1, <3>2, <3>3
  <2>. QED
    BY <2>2 DEF Next
<1>4. ASSUME NEW p \in Pids, BeginBody(p) \/ ReleaseFrame(p) \/ KillProcess(p)
      PROVE  [Next]_vars
  <2>1. CASE BeginBody(p)
    <3>1. StartBody(p, Top(p).hold) /\ Top(p).hold \in HoldIds(recs, p)
      BY <2>1 DEF BeginBody, StartBody
    <3>. QED
      BY <3>1 DEF Next
  <2>2. CASE ReleaseFrame(p)
    <3>1. Release(p, Top(p).hold) \/ UNCHANGED vars
      BY <2>2 DEF ReleaseFrame, table
    <3>2. CASE Release(p, Top(p).hold)
      <4>1. Top(p).hold \in HoldIds(recs, p)
        BY <3>2 DEF Release
      <4>. QED
        BY <3>2, <4>1 DEF Next
    <3>. QED
      BY <3>1, <3>2
  <2>3. CASE KillProcess(p)
    BY <2>3 DEF KillProcess, Next
  <2>. QED
    BY <1>4, <2>1, <2>2, <2>3
<1>5. ASSUME NEW h \in HomeIds, DrainPort(h) \/ WakeDue(h) \/ Destroy(h)
      PROVE  [Next]_vars
  BY <1>5 DEF DrainPort, WakeDue, Destroy, table
<1>6. ASSUME NEW h \in HomeIds, Run(h)
      PROVE  [Next]_vars
  <2>1. work[h] # << >> /\ work[h][1] \in AnyCall
    BY <1>6, Heads DEF Run, RunNote, RunWake, RunExpire, RunWait, RunPark, RunCollect, RunThrow,
                       RunUnwind, RunRelease, RunDetach, RunDiscard, Calls
  <2>2. /\ \A p \in Pids : CancelTicket(p) \/ Collect(p) \/ Resume(p) => [Next]_vars
        /\ \A p \in Pids, t \in Nat : ApplyWake(p, t) => [Next]_vars
    <3>1. \A p \in Pids : Resume(p) \/ Cancel(p) => Next
      BY DEF Next
    <3>2. \A p \in Pids : Collect(p) => Next
      BY <3>1 DEF Collect
    <3>3. \A p \in Pids : CancelTicket(p) => [Next]_vars
      BY <3>1 DEF CancelTicket, table
    <3>. QED
      BY <3>1, <3>2, <3>3 DEF ApplyWake, table
  <2>3. CASE RunNote(h) \/ RunWake(h)
    <3>1. work[h][1].call \in Wakes
      BY <2>3 DEF RunNote, RunWake, Calls, Wakes
    <3>2. work[h][1].pid \in Pids /\ work[h][1].tid \in 1 .. MaxSeq
      BY <2>1, <3>1, CallTypes
    <3>3. work[h][1].tid \in Nat
      BY <3>2, BoundAssumption
    <3>4. ApplyWake(work[h][1].pid, work[h][1].tid) \/ UNCHANGED table
      BY <2>3 DEF RunNote, RunWake
    <3>. QED
      BY <2>2, <3>2, <3>3, <3>4 DEF table
  <2>4. CASE RunExpire(h)
    <3>1. work[h][1].pids \subseteq Pids
      BY <2>1, <2>4, CallTypes DEF RunExpire, Calls
    <3>. QED
      BY <2>2, <2>4, <3>1 DEF RunExpire, table
  <2>5. CASE RunWait(h)
    <3>1. work[h][1].pid \in Pids /\ work[h][1].req \in Requests
      BY <2>1, <2>5, CallTypes DEF RunWait, Calls, Asked
    <3>2. Block(work[h][1].pid, work[h][1].req)
      BY <2>5 DEF RunWait
    <3>. QED
      BY <3>1, <3>2 DEF Next
  <2>6. CASE RunPark(h) \/ RunDiscard(h)
    BY <2>6 DEF RunPark, RunDiscard, table
  <2>7. CASE RunCollect(h) \/ RunThrow(h) \/ RunUnwind(h)
    <3>1. work[h][1].pid \in Pids
      BY <2>1, <2>7, CallTypes DEF RunCollect, RunThrow, RunUnwind, Calls, Asked
    <3>. QED
      BY <2>2, <2>7, <3>1 DEF RunCollect, RunThrow, RunUnwind
  <2>8. CASE RunRelease(h)
    <3>1. work[h][1].pid \in Pids /\ work[h][1].hold \in HoldIds(recs, work[h][1].pid)
      BY <2>1, <2>8, CallTypes DEF RunRelease, Calls, Asked, Release
    <3>2. Release(work[h][1].pid, work[h][1].hold)
      BY <2>8 DEF RunRelease
    <3>. QED
      BY <3>1, <3>2 DEF Next
  <2>9. CASE RunDetach(h)
    BY <2>9 DEF RunDetach, DetachHome, Next
  <2>. QED
    BY <1>6, <2>3, <2>4, <2>5, <2>6, <2>7, <2>8, <2>9 DEF Run
<1>. QED
  BY <1>1, <1>2, <1>3, <1>4, <1>5, <1>6 DEF HNext

\* The homes' ids and the tickets stay within bounds.
LEMMA BoundsKept == IInv /\ Bounds /\ [Next]_vars => Bounds'
<1>. SUFFICES ASSUME IInv, Bounds, [Next]_vars PROVE Bounds'
  OBVIOUS
<1>1. /\ nextHome \in Nat /\ nextSeq \in Nat
      /\ nextHome' = nextHome \/ (nextHome' = nextHome + 1 /\ nextHome < MaxHome)
      /\ nextSeq' = nextSeq \/ (nextSeq' = nextSeq + 1 /\ nextSeq < MaxSeq)
  <2>1. nextHome \in Nat /\ nextSeq \in Nat
    BY DEF IInv, TypeOK
  <2>2. CASE UNCHANGED vars
    BY <2>1, <2>2 DEF vars, counters
  <2>3. CASE AttachHome
    BY <2>1, <2>3 DEF AttachHome, counters
  <2>4. CASE \E p \in Pids, r \in Requests : TryAcquire(p, r)
    BY <2>1, <2>4 DEF TryAcquire
  <2>5. CASE \E p \in Pids, r \in Requests : Block(p, r)
    BY <2>1, <2>5 DEF Block, BlockGranted, BlockBusy, AddTicket
  <2>6. CASE \E p \in Pids : Resume(p) \/ Cancel(p)
    BY <2>1, <2>6 DEF Resume, Cancel, counters
  <2>7. CASE \E p \in Pids : \E i \in HoldIds(recs, p) : StartBody(p, i) \/ Release(p, i)
    BY <2>1, <2>7 DEF StartBody, Release, counters
  <2>8. CASE (\E p \in Pids, abandon \in BOOLEAN : End(p, abandon)) \/ (\E h \in homes : DetachHome(h))
    <3>1. \A E, abandon : EndAll(E, abandon) => nextSeq' = nextSeq
      BY DEF EndAll
    <3>. QED
      BY <2>1, <2>8, <3>1 DEF End, DetachHome
  <2>. QED
    BY <2>2, <2>3, <2>4, <2>5, <2>6, <2>7, <2>8 DEF Next
<1>. QED
  BY <1>1, HomeAssumption, BoundAssumption DEF Bounds

\* What a step of the homes leaves of the table's own invariant.
LEMMA TableKept ==
    ASSUME IInv, HomeInv, HNext
    PROVE  IInv' /\ Bounds'
<1>1. [Next]_vars
  BY TableCalls DEF IInv, HomeInv
<1>. QED
  BY <1>1, StepKeeps, BoundsKept DEF HomeInv

-----------------------------------------------------------------------------
(* The notes of an operation are the woken, one by one. *)

LEMMA NthFacts ==
    ASSUME NEW n \in Nat, NEW S \in SUBSET (1 .. n)
    PROVE  /\ Cardinality(S) \in Nat
           /\ \A m \in 1 .. Cardinality(S) : Nth(S, m) \in S
           /\ \A t \in S : \E m \in 1 .. Cardinality(S) : Nth(S, m) = t
<1>. DEFINE below(t) == {u \in S : u < t}
            N == Cardinality(S)
            rank == [t \in S |-> Cardinality(below(t))]
<1>1. IsFiniteSet(S) /\ N \in Nat /\ \A t \in S : t \in Nat
  <2>1. \A t \in S : t \in Nat
    OBVIOUS
  <2>. QED
    BY <2>1, BoundedFinite
<1>2. ASSUME NEW t \in S
      PROVE  IsFiniteSet(below(t)) /\ rank[t] \in 0 .. N - 1
  <2>1. below(t) \in SUBSET S /\ t \notin below(t)
    BY <1>1
  <2>2. IsFiniteSet(below(t)) /\ Cardinality(below(t)) <= N /\ Cardinality(below(t)) # N
    BY <1>1, <2>1, FS_Subset
  <2>3. Cardinality(below(t)) \in Nat
    BY <2>2, FS_CardinalityType
  <2>. QED
    BY <1>1, <2>2, <2>3
<1>3. ASSUME NEW t \in S, NEW u \in S, t < u
      PROVE  rank[t] < rank[u]
  <2>1. below(t) \in SUBSET below(u) /\ below(t) # below(u)
    <3>1. \A v \in S : v < t => v < u
      BY <1>1, <1>3
    <3>2. t \in below(u) /\ t \notin below(t)
      BY <1>1, <1>3
    <3>. QED
      BY <3>1, <3>2
  <2>2. /\ Cardinality(below(t)) <= Cardinality(below(u))
        /\ Cardinality(below(u)) = Cardinality(below(t)) => below(u) = below(t)
    BY <1>2, <2>1, FS_Subset
  <2>. QED
    BY <1>1, <1>2, <2>1, <2>2
<1>4. \A t, u \in S : rank[t] = rank[u] => t = u
  <2>. SUFFICES ASSUME NEW t \in S, NEW u \in S, rank[t] = rank[u] PROVE t = u
    OBVIOUS
  <2>1. ~(t < u) /\ ~(u < t)
    BY <1>1, <1>2, <1>3
  <2>. QED
    BY <1>1, <2>1
<1>. HIDE DEF rank
<1>5. rank \in Surjection(S, 0 .. N - 1)
  <2>1. rank \in Injection(S, 0 .. N - 1)
    BY <1>2, <1>4 DEF Injection, IsInjective, rank
  <2>2. IsFiniteSet(0 .. N - 1) /\ Cardinality(0 .. N - 1) = N
    <3>1. PICK a, b : a = 0 /\ b = N - 1 /\ a \in Int /\ b \in Int
      BY <1>1
    <3>2. IsFiniteSet(a .. b) /\ Cardinality(a .. b) = IF a > b THEN 0 ELSE b - a + 1
      BY <3>1, FS_Interval
    <3>. QED
      BY <1>1, <3>1, <3>2
  <2>. QED
    BY <2>1, <2>2, FS_Injection
<1>6. \A m \in 1 .. N : \E t \in S : rank[t] = m - 1
  BY <1>1, <1>5 DEF Surjection
<1>7. \A t \in S : rank[t] = Cardinality(below(t))
  BY DEF rank
<1>8. \A m : Nth(S, m) = CHOOSE t \in S : Cardinality(below(t)) = m - 1
  BY DEF Nth
<1>. HIDE DEF below
<1>9. \A m \in 1 .. N : Nth(S, m) \in S /\ rank[Nth(S, m)] = m - 1
  BY <1>6, <1>7, <1>8
<1>10. ASSUME NEW t \in S
       PROVE  \E m \in 1 .. N : Nth(S, m) = t
  <2>1. rank[t] + 1 \in 1 .. N /\ rank[t] = (rank[t] + 1) - 1
    BY <1>1, <1>2
  <2>2. rank[Nth(S, rank[t] + 1)] = rank[t] /\ Nth(S, rank[t] + 1) \in S
    BY <1>9, <2>1
  <2>. QED
    BY <1>4, <2>1, <2>2
<1>. QED
  BY <1>1, <1>9, <1>10

\* Whoever is woken is told, and nobody else.
LEMMA NotesFacts ==
    ASSUME IInv, Bounds
    PROVE  /\ Notes \in Seq(Wake)
           /\ \A c \in Range(Notes) :
                /\ c.call = "note" /\ c.tid \in Woken /\ c.pid = tickets[c.tid].pid
                /\ HomeOf[c.pid] \in homes
           /\ \A t \in Woken : \E c \in Range(Notes) :
                c.call = "note" /\ c.tid = t /\ c.pid = tickets[t].pid
<1>. DEFINE note(n) == [call |-> "note", pid |-> tickets[Nth(Woken, n)].pid, tid |-> Nth(Woken, n)]
            N == Cardinality(Woken)
<1>1. /\ TicketsOK(tickets, nextSeq) /\ nextSeq \in Nat /\ nextSeq <= MaxSeq
      /\ \A t \in DOMAIN tickets : HomeOf[tickets[t].pid] \in homes
  BY DEF IInv, TypeOK, RecordsMatch, TicketsLinked, Bounds
<1>2. Woken \in SUBSET (1 .. nextSeq) /\ Woken \subseteq DOMAIN tickets
  BY <1>1 DEF Woken, Queued, TicketsOK
<1>3. /\ N \in Nat
      /\ \A m \in 1 .. N : Nth(Woken, m) \in Woken
      /\ \A t \in Woken : \E m \in 1 .. N : Nth(Woken, m) = t
  BY <1>1, <1>2, NthFacts
<1>4. \A m \in 1 .. N : note(m) \in Wake
  <2>1. \A t \in Woken : t \in 1 .. MaxSeq /\ tickets[t].pid \in Pids
    BY <1>1, <1>2, BoundAssumption DEF TicketsOK, Ticket
  <2>. QED
    BY <1>3, <2>1 DEF Wake
<1>5. Notes = [n \in 1 .. N |-> note(n)]
  BY DEF Notes
<1>. HIDE DEF note, N
<1>6. Notes \in Seq(Wake)
  <2>1. [n \in 1 .. N |-> note(n)] \in Seq(Wake)
    BY <1>3, <1>4, IsASeq
  <2>. QED
    BY <1>5, <2>1
<1>7. DOMAIN Notes = 1 .. N /\ Range(Notes) = {note(n) : n \in 1 .. N}
  BY <1>5 DEF Range
<1>8. \A n : note(n).call = "note" /\ note(n).tid = Nth(Woken, n) /\ note(n).pid = tickets[Nth(Woken, n)].pid
  BY DEF note
<1>9. \A c \in Range(Notes) :
        /\ c.call = "note" /\ c.tid \in Woken /\ c.pid = tickets[c.tid].pid
        /\ HomeOf[c.pid] \in homes
  BY <1>1, <1>2, <1>3, <1>7, <1>8
<1>10. \A t \in Woken : \E c \in Range(Notes) :
        c.call = "note" /\ c.tid = t /\ c.pid = tickets[t].pid
  BY <1>3, <1>7, <1>8
<1>. QED
  BY <1>6, <1>9, <1>10

-----------------------------------------------------------------------------
(* What a home's thread has to do, from one call to the next. *)

LEMMA RangeFacts ==
    /\ Range(<< >>) = {}
    /\ \A x : Range(<<x>>) = {x}
    /\ \A S : \A s \in Seq(S) : Range(s) = {s[n] : n \in 1 .. Len(s)}
<1>1. Range(<< >>) = {}
  BY DEF Range
<1>2. \A x : Range(<<x>>) = {x}
  BY DEF Range
<1>3. \A S : \A s \in Seq(S) : Range(s) = {s[n] : n \in 1 .. Len(s)}
  BY RangeEquality
<1>. QED
  BY <1>1, <1>2, <1>3

LEMMA WakesAreCalls == Wake \subseteq AnyCall /\ \A c \in Wake : c.call \in Wakes /\ c.call \notin Asked
BY DEF AnyCall, Wake, Wakes, Asked

LEMMA Beyond ==
    \A a, b \in Nat : b <= 1 => \A n \in 1 .. a + b :
        n <= a \/ (n = a + b /\ n - a = 1 /\ b = 1)
OBVIOUS

LEMMA RowMade ==
    ASSUME NEW h, NEW s \in Seq(Wake), NEW t \in Seq(AnyCall), Len(t) <= 1,
           \A c \in Range(s) \cup Range(t) : Owned(c, h),
           \A c \in Range(t) : c.call \in Lone => s = << >>
    PROVE  s \o t \in Seq(AnyCall) /\ Range(s \o t) = Range(s) \cup Range(t) /\ Row(s \o t, h)
<1>1. s \in Seq(AnyCall) /\ Len(s) \in Nat /\ Len(t) \in Nat
  BY WakesAreCalls, SeqMonotonic, LenProperties
<1>2. /\ s \o t \in Seq(AnyCall) /\ Len(s \o t) = Len(s) + Len(t)
      /\ \A n \in 1 .. Len(s) + Len(t) : (s \o t)[n] = IF n <= Len(s) THEN s[n] ELSE t[n - Len(s)]
      /\ Range(s \o t) = Range(s) \cup Range(t)
  BY <1>1, ConcatProperties, RangeConcatenation
<1>. DEFINE w == s \o t
<1>. HIDE DEF w
<1>3. ASSUME NEW n \in 1 .. Len(w)
      PROVE  /\ n < Len(w) => w[n].call \in Wakes
             /\ w[n].call \in Lone => Len(w) = 1
             /\ Owned(w[n], h)
  <2>1. Len(w) = Len(s) + Len(t)
    BY <1>2 DEF w
  <2>2. CASE n <= Len(s)
    <3>1. w[n] = s[n] /\ n \in 1 .. Len(s)
      BY <1>1, <1>2, <1>3, <2>1, <2>2 DEF w
    <3>2. s[n] \in Wake /\ s[n] \in Range(s)
      BY <3>1, ElementOfSeq, RangeFacts
    <3>3. s[n].call \in Wakes /\ s[n].call \notin Lone
      BY <3>2 DEF Wake, Wakes, Lone
    <3>. QED
      BY <3>1, <3>2, <3>3
  <2>3. CASE ~(n <= Len(s))
    <3>1. n = Len(w) /\ n - Len(s) = 1 /\ Len(t) = 1 /\ w[n] = t[1]
      <4>1. n = Len(w) /\ n - Len(s) = 1 /\ Len(t) = 1
        <5>1. Len(w) = Len(s) + Len(t) /\ n \in 1 .. Len(s) + Len(t)
          BY <2>1
        <5>2. Len(s) \in Nat /\ Len(t) \in Nat
          BY <1>1
        <5>3. PICK a, b : a = Len(s) /\ b = Len(t)
          OBVIOUS
        <5>4. a \in Nat /\ b \in Nat /\ b <= 1 /\ n \in 1 .. a + b /\ ~(n <= a)
          BY <5>1, <5>2, <5>3, <2>3
        <5>5. n = a + b /\ n - a = 1 /\ b = 1
          BY <5>4, Beyond
        <5>. QED
          BY <5>1, <5>3, <5>5
      <4>2. w[n] = t[n - Len(s)]
        BY <1>2, <1>3, <2>1, <2>3 DEF w
      <4>. QED
        BY <4>1, <4>2
    <3>2. t[1] \in Range(t)
      BY <3>1, RangeFacts
    <3>3. s = << >> => Len(s) = 0
      BY EmptySeq
    <3>. QED
      BY <1>1, <2>1, <3>1, <3>2, <3>3
  <2>. QED
    BY <2>2, <2>3
<1>4. Row(w, h)
  BY <1>3 DEF Row
<1>. QED
  BY <1>2, <1>4 DEF w

\* What the thread of h has to do from now on: the wakes s, and then t.
LEMMA TurnFacts ==
    ASSUME Typed, NEW h \in HomeIds, NEW s \in Seq(Wake), NEW t \in Seq(AnyCall),
           work' = [work EXCEPT ![h] = s \o t]
    PROVE  /\ work' \in [HomeIds -> Seq(AnyCall)] /\ work'[h] = s \o t
           /\ Todo(h)' = Range(s) \cup Range(t)
           /\ \A g \in HomeIds \ {h} : work'[g] = work[g] /\ Todo(g)' = Todo(g)
           /\ \A q \in Pids : Business(q)' =
                IF HomeOf[q] = h
                  THEN {c \in Range(t) : c.call \in Asked \cup {"release"} /\ c.pid = q}
                  ELSE Business(q)
<1>1. work \in [HomeIds -> Seq(AnyCall)]
  BY DEF Typed
<1>2. s \in Seq(AnyCall) /\ s \o t \in Seq(AnyCall) /\ Range(s \o t) = Range(s) \cup Range(t)
  BY WakesAreCalls, SeqMonotonic, ConcatProperties, RangeConcatenation
<1>3. /\ work' \in [HomeIds -> Seq(AnyCall)] /\ work'[h] = s \o t
      /\ \A g \in HomeIds \ {h} : work'[g] = work[g]
  BY <1>1, <1>2
<1>4. /\ Todo(h)' = Range(s) \cup Range(t)
      /\ \A g \in HomeIds \ {h} : Todo(g)' = Todo(g)
  BY <1>2, <1>3 DEF Todo
<1>5. \A c \in Range(s) : c.call \notin Asked \cup {"release"}
  <2>1. Range(s) \subseteq Wake
    BY RangeOfSeq
  <2>. QED
    BY <2>1 DEF Wake, Asked
<1>6. ASSUME NEW q \in Pids
      PROVE  Business(q)' = IF HomeOf[q] = h
                  THEN {c \in Range(t) : c.call \in Asked \cup {"release"} /\ c.pid = q}
                  ELSE Business(q)
  <2>1. HomeOf[q] \in HomeIds
    BY HomeAssumption
  <2>. QED
    BY <1>4, <1>5, <2>1 DEF Business
<1>. QED
  BY <1>3, <1>4, <1>6

\* The business of a home's processes after its turn is what follows the wakes.
LEMMA TurnBusiness ==
    ASSUME Typed, NEW p \in Pids, NEW h \in HomeIds, HomeOf[p] = h,
           NEW s \in Seq(Wake), NEW t \in Seq(AnyCall), work' = [work EXCEPT ![h] = s \o t]
    PROVE  Business(p)' = {c \in Range(t) : c.call \in Asked \cup {"release"} /\ c.pid = p}
<1>1. \A q \in Pids : Business(q)' =
          IF HomeOf[q] = h
            THEN {c \in Range(t) : c.call \in Asked \cup {"release"} /\ c.pid = q}
            ELSE Business(q)
  BY TurnFacts, ZenonT(60)
<1>. QED
  BY <1>1

\* A turn that leaves only wakes in a home leaves its processes no business.
LEMMA QuietTurn ==
    ASSUME Typed, NEW p \in Pids, NEW h \in HomeIds, HomeOf[p] = h,
           NEW s \in Seq(Wake), NEW t \in Seq(AnyCall), t = << >>,
           work' = [work EXCEPT ![h] = s \o t]
    PROVE  Business(p)' = {}
<1>1. Business(p)' = {c \in Range(t) : c.call \in Asked \cup {"release"} /\ c.pid = p}
  BY TurnBusiness
<1>2. Range(t) = {}
  BY RangeFacts
<1>. QED
  BY <1>1, <1>2

\* A home whose next call is no wake has no other.
LEMMA OneCall ==
    ASSUME Typed, Shapes, NEW h \in HomeIds, work[h] # << >>, work[h][1].call \notin Wakes
    PROVE  /\ Todo(h) = {work[h][1]} /\ Tail(work[h]) = << >> /\ Owned(work[h][1], h)
           /\ work[h][1] \in AnyCall
<1>1. /\ work[h] \in Seq(AnyCall) /\ Len(work[h]) \in Nat \ {0} /\ work[h][1] \in Todo(h)
      /\ Todo(h) = {work[h][n] : n \in 1 .. Len(work[h])} /\ Todo(h) \subseteq AnyCall
  BY Heads
<1>2. Len(work[h]) = 1 /\ Owned(work[h][1], h)
  <2>1. Row(work[h], h) /\ 1 \in 1 .. Len(work[h])
    BY <1>1 DEF Shapes, Shape
  <2>2. (1 < Len(work[h]) => work[h][1].call \in Wakes) /\ Owned(work[h][1], h)
    BY <2>1 DEF Row
  <2>3. Len(work[h]) \in Nat \ {0}
    BY <1>1
  <2>4. ~(1 < Len(work[h]))
    BY <2>2
  <2>5. \A m \in Nat \ {0} : ~(1 < m) => m = 1
    OBVIOUS
  <2>. QED
    BY <2>2, <2>3, <2>4, <2>5, Zenon
<1>3. Tail(work[h]) = << >>
  <2>1. Tail(work[h]) \in Seq(AnyCall) /\ Len(Tail(work[h])) = 0
    BY <1>1, <1>2, HeadTailProperties
  <2>. QED
    BY <2>1, EmptySeq
<1>. QED
  BY <1>1, <1>2, <1>3

LEMMA Empties ==
    ASSUME NEW S, NEW s \in Seq(S)
    PROVE  s \o << >> = s /\ << >> \o s = s /\ << >> \in Seq(S)
BY ConcatEmptySeq, EmptySeq

\* Nothing of p's own changes.
Aside(p) ==
    /\ mirror'[p] = mirror[p] /\ ticket'[p] = ticket[p] /\ frames'[p] = frames[p]
    /\ p \in waiting' <=> p \in waiting
    /\ p \in ended' <=> p \in ended

\* A wake that p waits for is not lost, and one that p is due is sent.
Told(p) ==
    /\ (p \in waiting \/ Doing(p, {"park"})) /\ Coming(p) => Coming(p)' \/ port'[HomeOf[p]].closed
    /\ \A t \in Woken : tickets[t].pid = p =>
        \E h \in HomeIds : \E c \in Todo(h)' : c.call = "note" /\ c.tid = t /\ c.pid = p
    /\ port[HomeOf[p]].closed => port'[HomeOf[p]].closed

\* A process that a step is not about stays as it is.
LEMMA BystanderFine ==
    ASSUME IInv, NEW p \in Pids, Fine(p), Aside(p), Business(p)' = Business(p),
           Stable(p), Forward, Told(p)
    PROVE  Fine(p)'
<1>1. /\ ticket[p] = TicketOf(p) /\ ticket'[p] = ticket[p] /\ TicketOf(p)' = TicketOf(p)
      /\ frames'[p] = frames[p] /\ mirror'[p] = mirror[p]
      /\ TicketRead
  BY TicketReads DEF Fine, Mirror, Aside, Stable
<1>2. /\ Top(p)' = Top(p) /\ Releasing(p)' = Releasing(p)
      /\ \A calls : Doing(p, calls)' <=> Doing(p, calls)
  BY <1>1 DEF Top, Releasing, Doing
<1>3. Status(p)'
  <2>1. Status(p)
    BY DEF Fine
  <2>2. FramesOK(p)'
    BY <1>1, <2>1 DEF Status, FramesOK
  <2>3. Asks(p)' <=> Asks(p)
    BY <1>2 DEF Asks, Aside
  <2>4. ticket[p] # 0 => SameAs(tickets'[ticket[p]], Top(p).req)
    BY <1>1, <2>1 DEF Status, Stable, SameAs
  <2>5. Decided(ticket[p]) => Decided(ticket[p])'
    <3>1. PICK t : t = ticket[p]
      OBVIOUS
    <3>2. \A u : u = t => (Decided(u) => Decided(u)')
      BY DEF Forward
    <3>3. ticket'[p] = t
      BY <1>1, <3>1
    <3>. QED
      BY <3>1, <3>2, <3>3 DEF Decided
  <2>. QED
    BY <1>1, <1>2, <2>1, <2>2, <2>3, <2>4, <2>5 DEF Status, Aside
<1>4. Mirror(p)'
  <2>1. Mirror(p)
    BY DEF Fine
  <2>2. Known(p)' = Known(p) /\ \A i \in Known(p) : SameAs(holds'[i], holds[i])
    BY DEF Stable, Same
  <2>3. \A i : Counts(p, i)' = Counts(p, i)
    BY <1>1 DEF Counts
  <2>4. Copied(p)'
    BY <1>1, <2>1, <2>2, <2>3 DEF Mirror, Copied, SameAs
  <2>. QED
    BY <1>1, <1>2, <2>1, <2>2, <2>4 DEF Mirror
<1>5. Stands(p)'
  BY <1>1 DEF Fine, Stands, StandsAt
<1>6. Reached(p)'
  <2>. SUFFICES ASSUME p \in waiting' \/ Doing(p, {"park"})', ticket'[p] \notin Queued(tickets')
                PROVE  Coming(p)' \/ port'[HomeOf[p]].closed
    BY DEF Reached
  <2>1. p \in waiting \/ Doing(p, {"park"})
    BY <1>2 DEF Aside
  <2>2. CASE ticket[p] \in Queued(tickets)
    <3>1. ticket[p] \in Woken /\ ticket[p] \in DOMAIN tickets /\ tickets[ticket[p]].pid = p
      <4>1. ticket[p] \in Woken /\ ticket[p] \in DOMAIN tickets
        BY <1>1, <2>2 DEF Stable, Queued
      <4>2. ticket[p] # 0
        BY <1>1, <4>1 DEF TicketRead
      <4>. QED
        BY <1>1, <4>1, <4>2 DEF TicketRead
    <3>. QED
      BY <1>1, <3>1 DEF Told, Coming, Wakes
  <2>3. CASE ticket[p] \notin Queued(tickets)
    BY <2>1, <2>3 DEF Fine, Reached, Told
  <2>. QED
    BY <2>2, <2>3
<1>. QED
  BY <1>3, <1>4, <1>5, <1>6 DEF Fine

-----------------------------------------------------------------------------
(* A step of a home that replaces what its thread has to do. *)

\* Only processes of E change.
Only(E) ==
    /\ DOMAIN mirror' = Pids /\ DOMAIN ticket' = Pids /\ DOMAIN frames' = Pids
    /\ waiting' \subseteq Pids /\ ended' \subseteq Pids
    /\ \A q \in Pids \ E : Aside(q)

\* The thread of h has the wakes s to deliver now, and then t.
Turn(h, s, t) ==
    /\ work' = [work EXCEPT ![h] = s \o t]
    /\ s \in Seq(Wake) /\ t \in Seq(AnyCall) /\ Len(t) <= 1
    /\ \A c \in Todo(h) : c.call \notin Wakes \cup {"detach"}
    /\ \A c \in Range(s) : Owned(c, h) /\ Decided(c.tid)'
    /\ \A c \in Range(t) : /\ Owned(c, h) /\ c.call \notin Wakes \cup {"discard"}
                           /\ c.call \in Lone => s = << >>
    /\ \A u \in Woken : \E c \in Range(s) : c.call = "note" /\ c.tid = u /\ c.pid = tickets[u].pid

\* Of its port nothing goes that is not taken up.
PortTurn(h, s, t) ==
    /\ DOMAIN port' = HomeIds /\ \A g \in HomeIds \ {h} : port'[g] = port[g]
    /\ PortTyped(h)' /\ Posts(h)' \subseteq Posts(h) /\ Posts(h) \subseteq Posts(h)' \cup Range(s)
    /\ port'[h].closed <=> \E c \in Range(t) : c.call = "detach"

LEMMA ShapeSame ==
    ASSUME NEW g \in HomeIds, Shape(g), work'[g] = work[g], port'[g] = port[g],
           nextHome' = nextHome
    PROVE  Shape(g)'
BY DEF Shape, Row, Owned, Posts

LEMMA LifeSame ==
    ASSUME NEW g \in HomeIds, Life(g), work'[g] = work[g], port'[g] = port[g],
           homes' = homes, nextHome' = nextHome,
           \A p \in Pids : HomeOf[p] = g => Aside(p)
    PROVE  Life(g)'
<1>1. Alive(g) => Alive(g)'
  BY DEF Alive, Todo
<1>2. Gone(g) => Gone(g)'
  BY DEF Gone, Todo, Aside
<1>3. Unborn(g) => Unborn(g)'
  BY DEF Unborn, Aside
<1>. QED
  BY <1>1, <1>2, <1>3 DEF Life

LEMMA OthersTyped ==
    ASSUME NEW p \in Pids, TypedAt(p), Aside(p)
    PROVE  TypedAt(p)'
BY DEF TypedAt, Aside

LEMMA TurnStep ==
    ASSUME IInv, HomeInv, IInv', Bounds', NEW h \in homes, NEW s, NEW t, NEW E \in SUBSET Pids,
           homes' = homes, nextHome' = nextHome,
           Turn(h, s, t), PortTurn(h, s, t), Only(E), View(E),
           \A c \in Todo(h) \cup Range(t) : c.call \in Asked \cup {"release"} => c.pid \in E,
           \A p \in E : HomeOf[p] = h /\ TypedAt(p)' /\ Fine(p)'
    PROVE  HomeInv'
<1>1. h \in HomeIds /\ HomeIds \subseteq Nat /\ homes \subseteq HomeIds
  BY HomeAssumption DEF IInv, HomeInv, TypeOK, Bounds, HomeIds
<1>2. /\ work' \in [HomeIds -> Seq(AnyCall)] /\ work'[h] = s \o t
      /\ Todo(h)' = Range(s) \cup Range(t)
      /\ \A g \in HomeIds \ {h} : work'[g] = work[g] /\ Todo(g)' = Todo(g)
      /\ \A q \in Pids : Business(q)' =
           IF HomeOf[q] = h
             THEN {c \in Range(t) : c.call \in Asked \cup {"release"} /\ c.pid = q}
             ELSE Business(q)
  <2>1. Typed /\ s \in Seq(Wake) /\ t \in Seq(AnyCall) /\ work' = [work EXCEPT ![h] = s \o t]
    BY DEF HomeInv, Turn
  <2>. QED
    BY <1>1, <2>1, TurnFacts
<1>3. /\ \A g \in HomeIds : Shape(g) /\ Life(g)
      /\ DOMAIN port' = HomeIds /\ \A g \in HomeIds \ {h} : port'[g] = port[g]
  BY DEF HomeInv, Shapes, PortTurn
<1>4. Typed'
  <2>1. \A g \in HomeIds : PortTyped(g)'
    BY <1>3 DEF HomeInv, Typed, PortTyped, PortTurn
  <2>2. ASSUME NEW p \in Pids
        PROVE  TypedAt(p)'
    BY OthersTyped DEF HomeInv, Typed, Only
  <2>. QED
    BY <1>2, <1>3, <2>1, <2>2 DEF Typed, Only
<1>5. Shapes'
  <2>1. ASSUME NEW g \in HomeIds, g # h
        PROVE  Shape(g)' /\ Life(g)'
    <3>1. work'[g] = work[g] /\ port'[g] = port[g] /\ \A p \in Pids : HomeOf[p] = g => Aside(p)
      BY <1>2, <1>3, <2>1 DEF Only
    <3>. QED
      BY <1>3, <3>1, ShapeSame, LifeSame
  <2>2. Shape(h)'
    <3>1. Row(s \o t, h)
      BY RowMade DEF Turn
    <3>2. Row(work[h], h)'
      BY <1>2, <3>1 DEF Row, Owned
    <3>3. \A c \in Posts(h)' : c.call = "wake" /\ HomeOf[c.pid] = h
      BY <1>1, <1>3 DEF Shape, PortTurn
    <3>. QED
      BY <3>2, <3>3 DEF Shape
  <2>3. Life(h)'
    <3>1. \A c \in Range(s) : c.call \notin {"detach", "discard"}
      <4>1. Range(s) \subseteq Wake
        BY RangeOfSeq DEF Turn
      <4>. QED
        BY <4>1 DEF Wake
    <3>2. Alive(h)'
      BY <1>2, <3>1 DEF Alive, PortTurn, Turn
    <3>. QED
      BY <3>2 DEF Life
  <2>. QED
    BY <2>1, <2>2, <2>3 DEF Shapes
<1>6. Local'
  <2>. SUFFICES ASSUME NEW p \in Pids, HomeOf[p] \in homes, p \notin E
                PROVE  Fine(p)'
    BY DEF Local
  <2>1. Fine(p) /\ Aside(p) /\ Stable(p) /\ Forward /\ HomeOf[p] \in HomeIds
    BY <1>1 DEF HomeInv, Local, Only, View
  <2>2. Business(p)' = Business(p)
    <3>1. CASE HomeOf[p] = h
      <4>1. Business(p) = {}
        BY <3>1 DEF Business
      <4>. QED
        BY <1>2, <3>1, <4>1
    <3>2. CASE HomeOf[p] # h
      BY <1>2, <3>2
    <3>. QED
      BY <3>1, <3>2
  <2>3. Coming(p) => Coming(p)'
    <3>1. ticket'[p] = ticket[p]
      BY <2>1 DEF Aside
    <3>2. ASSUME NEW g \in HomeIds, NEW c \in Todo(g), c.call \in Wakes
          PROVE  c \in Todo(g)'
      BY <1>2, <3>2 DEF Turn
    <3>3. ASSUME NEW c \in Posts(HomeOf[p])
          PROVE  c \in Posts(HomeOf[p])' \/ (c \in Todo(h)' /\ c.call \in Wakes)
      <4>1. CASE HomeOf[p] = h
        <5>1. c.call = "wake"
          BY <2>1, <1>3 DEF Shape
        <5>. QED
          BY <1>2, <4>1, <5>1 DEF PortTurn, Wakes
      <4>2. CASE HomeOf[p] # h
        BY <1>3, <2>1, <4>2 DEF Posts
      <4>. QED
        BY <4>1, <4>2
    <3>. QED
      BY <1>1, <3>1, <3>2, <3>3 DEF Coming
  <2>4. Told(p)
    <3>1. \A u \in Woken : tickets[u].pid = p =>
            \E g \in HomeIds : \E c \in Todo(g)' : c.call = "note" /\ c.tid = u /\ c.pid = p
      BY <1>1, <1>2 DEF Turn
    <3>2. port[HomeOf[p]].closed => port'[HomeOf[p]].closed
      <4>1. CASE HomeOf[p] = h
        BY <1>1, <1>3, <4>1 DEF Life, Alive, Turn
      <4>2. CASE HomeOf[p] # h
        BY <1>3, <2>1, <4>2
      <4>. QED
        BY <4>1, <4>2
    <3>. QED
      BY <2>3, <3>1, <3>2 DEF Told
  <2>. QED
    BY <2>1, <2>2, <2>4, BystanderFine
<1>7. Timely'
  <2>1. \A u : Decided(u) => Decided(u)'
    BY DEF View, Forward
  <2>2. ASSUME NEW g \in HomeIds, NEW c \in Todo(g)', c.call \in Wakes
        PROVE  Decided(c.tid)'
    <3>1. CASE g = h
      BY <1>2, <2>2, <3>1 DEF Turn
    <3>2. CASE g # h
      BY <1>2, <2>1, <2>2, <3>2 DEF HomeInv, Timely
    <3>. QED
      BY <3>1, <3>2
  <2>3. ASSUME NEW g \in HomeIds, NEW c \in Posts(g)'
        PROVE  Decided(c.tid)'
    <3>1. c \in Posts(g)
      BY <1>3 DEF PortTurn, Posts
    <3>. QED
      BY <2>1, <3>1 DEF HomeInv, Timely
  <2>. QED
    BY <2>2, <2>3 DEF Timely
<1>. QED
  BY <1>4, <1>5, <1>6, <1>7 DEF HomeInv, View

-----------------------------------------------------------------------------
(* A step that leaves the threads' calls alone, and one that drops a wake. *)

LEMMA RestStep ==
    ASSUME IInv, HomeInv, IInv', Bounds', NEW E \in SUBSET Pids,
           homes' = homes, nextHome' = nextHome, work' = work, port' = port,
           Only(E), View(E), Woken = {},
           \A p \in E : HomeOf[p] \in homes /\ TypedAt(p)' /\ Fine(p)'
    PROVE  HomeInv'
<1>1. /\ \A g \in HomeIds : Todo(g)' = Todo(g) /\ Posts(g)' = Posts(g)
      /\ \A q \in Pids : Business(q)' = Business(q)
  BY DEF Todo, Posts, Business
<1>2. Typed'
  <2>1. ASSUME NEW p \in Pids
        PROVE  TypedAt(p)'
    BY OthersTyped DEF HomeInv, Typed, Only
  <2>. QED
    BY <2>1 DEF HomeInv, Typed, PortTyped, Only
<1>3. Shapes'
  <2>1. ASSUME NEW g \in HomeIds
        PROVE  Shape(g)' /\ Life(g)'
    <3>1. Shape(g) /\ Life(g)
      BY DEF HomeInv, Shapes
    <3>2. Shape(g)'
      BY <3>1, ShapeSame
    <3>3. CASE g \in homes
      BY <3>1, <3>2, <3>3, <1>1 DEF Life, Alive
    <3>4. CASE g \notin homes
      <4>1. \A p \in Pids : HomeOf[p] = g => Aside(p)
        BY <3>4 DEF Only
      <4>. QED
        BY <3>1, <3>2, <4>1, LifeSame
    <3>. QED
      BY <3>2, <3>3, <3>4
  <2>. QED
    BY <2>1 DEF Shapes
<1>4. Local'
  <2>. SUFFICES ASSUME NEW p \in Pids, HomeOf[p] \in homes, p \notin E
                PROVE  Fine(p)'
    BY DEF Local
  <2>1. Fine(p) /\ Aside(p) /\ Stable(p) /\ Forward
    BY DEF HomeInv, Local, Only, View
  <2>2. Told(p)
    <3>1. Coming(p) => Coming(p)'
      BY <1>1, <2>1, HomeAssumption DEF Coming, Aside
    <3>. QED
      BY <3>1 DEF Told
  <2>. QED
    BY <1>1, <2>1, <2>2, BystanderFine
<1>5. Timely'
  BY <1>1 DEF HomeInv, Timely, View, Forward
<1>. QED
  BY <1>2, <1>3, <1>4, <1>5 DEF HomeInv, View

LEMMA PopFacts ==
    ASSUME Typed, Shapes, NEW h \in HomeIds, work[h] # << >>, work[h][1].call \in Wakes, Then(h, << >>)
    PROVE  /\ work' \in [HomeIds -> Seq(AnyCall)]
           /\ Todo(h)' \subseteq Todo(h) /\ Todo(h) \subseteq Todo(h)' \cup {work[h][1]}
           /\ \A g \in HomeIds \ {h} : work'[g] = work[g] /\ Todo(g)' = Todo(g)
           /\ \A q \in Pids : Business(q)' = Business(q)
           /\ nextHome' = nextHome => Row(work[h], h)'
           /\ \A c \in Todo(h) : c.call \notin Lone
<1>1. /\ work[h] \in Seq(AnyCall) /\ Len(work[h]) \in Nat \ {0}
      /\ Todo(h) = {work[h][n] : n \in 1 .. Len(work[h])}
  BY Heads
<1>2. /\ Tail(work[h]) \in Seq(AnyCall) /\ Len(Tail(work[h])) = Len(work[h]) - 1
      /\ \A n \in 1 .. Len(Tail(work[h])) : Tail(work[h])[n] = work[h][n + 1]
  BY <1>1, HeadTailProperties
<1>3. << >> \o Tail(work[h]) = Tail(work[h])
  BY <1>2, Empties
<1>4. /\ work' \in [HomeIds -> Seq(AnyCall)] /\ work'[h] = Tail(work[h])
      /\ \A g \in HomeIds \ {h} : work'[g] = work[g]
  BY <1>2, <1>3 DEF Then, Typed
<1>5. PICK w, v : w = work[h] /\ v = Tail(work[h])
  OBVIOUS
<1>6. PICK m \in Nat : Len(w) = m + 1 /\ Len(v) = m
  <2>1. PICK m : m = Len(w)
    OBVIOUS
  <2>2. m \in Nat \ {0} /\ Len(v) = m - 1
    BY <1>1, <1>2, <1>5, <2>1
  <2>3. m - 1 \in Nat /\ m = (m - 1) + 1
    BY <2>2
  <2>. QED
    BY <2>1, <2>2, <2>3
<1>7. \A n \in 1 .. m : v[n] = w[n + 1] /\ n + 1 \in 1 .. m + 1
  BY <1>2, <1>5, <1>6
<1>8. Todo(h) = {w[n] : n \in 1 .. m + 1} /\ Todo(h)' = {v[n] : n \in 1 .. m}
  <2>1. Todo(h)' = {v[n] : n \in 1 .. Len(v)}
    <3>1. v \in Seq(AnyCall) /\ work'[h] = v
      BY <1>2, <1>4, <1>5
    <3>2. Range(v) = {v[n] : n \in 1 .. Len(v)}
      BY <3>1, RangeEquality
    <3>. QED
      BY <3>1, <3>2 DEF Todo
  <2>2. Todo(h) = {w[n] : n \in 1 .. Len(w)}
    BY <1>1, <1>5
  <2>. QED
    BY <1>6, <2>1, <2>2
<1>9. Todo(h)' \subseteq Todo(h)
  BY <1>7, <1>8
<1>10. Todo(h) \subseteq Todo(h)' \cup {w[1]}
  <2>. SUFFICES ASSUME NEW n \in 1 .. m + 1, n # 1 PROVE w[n] \in Todo(h)'
    BY <1>8
  <2>1. n - 1 \in 1 .. m /\ (n - 1) + 1 = n
    OBVIOUS
  <2>. QED
    BY <1>7, <1>8, <2>1
<1>11. Row(w, h)
  BY <1>5 DEF Shapes, Shape
<1>12. nextHome' = nextHome => Row(work[h], h)'
  <2>. SUFFICES ASSUME nextHome' = nextHome PROVE Row(work[h], h)'
    OBVIOUS
  <2>1. work'[h] = v /\ Len(v) = m
    BY <1>4, <1>5, <1>6
  <2>2. ASSUME NEW n \in 1 .. m
        PROVE  /\ n < m => v[n].call \in Wakes
               /\ v[n].call \in Lone => m = 1
               /\ Owned(v[n], h)
    <3>1. /\ n + 1 < m + 1 => w[n + 1].call \in Wakes
          /\ w[n + 1].call \in Lone => m + 1 = 1
          /\ Owned(w[n + 1], h)
      BY <1>6, <1>7, <1>11 DEF Row
    <3>. QED
      BY <1>7, <3>1
  <2>. QED
    BY <2>1, <2>2 DEF Row, Owned
<1>13. \A c \in Todo(h) : c.call \notin Lone
  <2>. SUFFICES ASSUME NEW n \in 1 .. m + 1, w[n].call \in Lone PROVE FALSE
    BY <1>8
  <2>1. m + 1 = 1
    BY <1>6, <1>11 DEF Row
  <2>2. n = 1
    BY <2>1
  <2>. QED
    BY <1>5, <2>2 DEF Lone, Wakes
<1>14. ASSUME NEW q \in Pids
       PROVE  Business(q)' = Business(q)
  <2>1. CASE HomeOf[q] = h
    <3>1. w[1].call \notin Asked \cup {"release"}
      BY <1>5 DEF Wakes, Asked
    <3>. QED
      BY <1>9, <1>10, <2>1, <3>1 DEF Business
  <2>2. CASE HomeOf[q] # h
    BY <1>4, <2>2, HomeAssumption DEF Business, Todo
  <2>. QED
    BY <2>1, <2>2
<1>. QED
  BY <1>4, <1>5, <1>9, <1>10, <1>12, <1>13, <1>14 DEF Todo

\* A wake c is dropped, or goes on to a port that is open.
PortPop(c) ==
    /\ DOMAIN port' = HomeIds
    /\ \A g \in HomeIds :
        /\ PortTyped(g)' /\ port'[g].closed = port[g].closed /\ Posts(g) \subseteq Posts(g)'
        /\ \A d \in Posts(g)' \ Posts(g) :
            d.call = "wake" /\ HomeOf[d.pid] = g /\ d.tid = c.tid
        /\ port'[g] # port[g] => ~port[g].closed /\ g < nextHome

LEMMA PopStep ==
    ASSUME IInv, HomeInv, IInv', Bounds', NEW h \in HomeIds, NEW E \in SUBSET Pids,
           homes' = homes, nextHome' = nextHome, Only(E), View(E), Woken = {},
           work[h] # << >>, work[h][1].call \in Wakes, Then(h, << >>), PortPop(work[h][1]),
           \A p \in E : HomeOf[p] \in homes /\ TypedAt(p)' /\ Fine(p)',
           \A q \in Pids \ E :
                /\ HomeOf[q] \in homes /\ (q \in waiting \/ Doing(q, {"park"}))
                /\ work[h][1].pid = q /\ work[h][1].tid = ticket[q]
                => port[HomeOf[q]].closed
                    \/ \E c \in Posts(HomeOf[q])' : c.pid = q /\ c.tid = ticket[q]
    PROVE  HomeInv'
<1>. DEFINE head == work[h][1]
<1>1. /\ work' \in [HomeIds -> Seq(AnyCall)]
      /\ Todo(h)' \subseteq Todo(h) /\ Todo(h) \subseteq Todo(h)' \cup {head}
      /\ \A g \in HomeIds \ {h} : work'[g] = work[g] /\ Todo(g)' = Todo(g)
      /\ \A q \in Pids : Business(q)' = Business(q)
      /\ Row(work[h], h)'
      /\ \A c \in Todo(h) : c.call \notin Lone
      /\ head \in Todo(h)
  BY PopFacts, Heads DEF HomeInv
<1>2. head.call \in Wakes
  OBVIOUS
<1>. HIDE DEF head
<1>3. /\ \A g \in HomeIds : Shape(g) /\ Life(g)
      /\ homes \subseteq HomeIds
  BY HomeAssumption DEF HomeInv, Shapes, IInv, TypeOK, Bounds, HomeIds
<1>4. Typed'
  <2>1. ASSUME NEW p \in Pids
        PROVE  TypedAt(p)'
    BY OthersTyped DEF HomeInv, Typed, Only
  <2>. QED
    BY <1>1, <2>1 DEF HomeInv, Typed, PortPop, Only
<1>5. Shapes'
  <2>1. ASSUME NEW g \in HomeIds
        PROVE  Shape(g)'
    <3>1. Row(work[g], g)'
      <4>1. CASE g = h
        BY <1>1, <4>1
      <4>2. CASE g # h
        BY <1>1, <1>3, <4>2 DEF Shape, Row, Owned
      <4>. QED
        BY <4>1, <4>2
    <3>2. \A c \in Posts(g)' : c.call = "wake" /\ HomeOf[c.pid] = g
      BY <1>3 DEF Shape, PortPop
    <3>. QED
      BY <3>1, <3>2 DEF Shape
  <2>2. ASSUME NEW g \in HomeIds
        PROVE  Life(g)'
    <3>1. Life(g) /\ port'[g].closed = port[g].closed
      BY <1>3 DEF PortPop
    <3>2. CASE g \in homes
      <4>1. /\ \A c \in Todo(g)' : c \in Todo(g)
            /\ \A c \in Todo(g) : c \in Todo(g)' \/ c.call \in Wakes
        BY <1>1, <1>2
      <4>2. Alive(g)
        BY <3>1, <3>2 DEF Life
      <4>3. Alive(g)'
        BY <3>1, <4>1, <4>2 DEF Alive, Wakes
      <4>. QED
        BY <3>2, <4>3 DEF Life
    <3>3. CASE g \notin homes
      <4>1. \A p \in Pids : HomeOf[p] = g => Aside(p)
        BY <3>3 DEF Only
      <4>2. CASE g < nextHome
        <5>1. Gone(g)
          BY <3>1, <3>3, <4>2 DEF Life
        <5>2. \A c \in Todo(g)' : c \in Todo(g)
          BY <1>1
        <5>3. Gone(g)'
          BY <3>1, <4>1, <5>1, <5>2 DEF Gone, Aside
        <5>. QED
          BY <3>3, <4>2, <5>3 DEF Life
      <4>3. CASE ~(g < nextHome)
        <5>1. Unborn(g) /\ port'[g] = port[g]
          BY <3>1, <3>3, <4>3 DEF Life, PortPop
        <5>2. g # h
          BY <5>1 DEF Unborn
        <5>. QED
          BY <1>1, <3>1, <4>1, <5>1, <5>2, LifeSame
      <4>. QED
        BY <4>2, <4>3
    <3>. QED
      BY <3>2, <3>3
  <2>. QED
    BY <2>1, <2>2 DEF Shapes
<1>6. Local'
  <2>. SUFFICES ASSUME NEW p \in Pids, HomeOf[p] \in homes, p \notin E
                PROVE  Fine(p)'
    BY DEF Local
  <2>1. Fine(p) /\ Aside(p) /\ Stable(p) /\ Forward
    BY DEF HomeInv, Local, Only, View
  <2>2. port'[HomeOf[p]].closed = port[HomeOf[p]].closed
    BY <1>3 DEF PortPop
  <2>3. ASSUME p \in waiting \/ Doing(p, {"park"}), Coming(p)
        PROVE  Coming(p)' \/ port'[HomeOf[p]].closed
    <3>1. ticket'[p] = ticket[p]
      BY <2>1 DEF Aside
    <3>2. CASE \E g \in HomeIds : \E c \in Todo(g)' : c.call \in Wakes /\ c.pid = p /\ c.tid = ticket[p]
      BY <3>1, <3>2 DEF Coming
    <3>3. CASE \E c \in Posts(HomeOf[p]) : c.pid = p /\ c.tid = ticket[p]
      <4>1. \A c \in Posts(HomeOf[p]) : c \in Posts(HomeOf[p])'
        BY <1>3 DEF PortPop
      <4>. QED
        BY <3>1, <3>3, <4>1 DEF Coming
    <3>4. CASE head.pid = p /\ head.tid = ticket[p]
      BY <2>2, <2>3, <3>1, <3>4 DEF Coming, head
    <3>. QED
      BY <1>1, <2>3, <3>2, <3>3, <3>4 DEF Coming
  <2>4. Told(p)
    BY <2>2, <2>3 DEF Told
  <2>. QED
    BY <1>1, <2>1, <2>4, BystanderFine
<1>7. Timely'
  <2>1. \A u : Decided(u) => Decided(u)'
    BY DEF View, Forward
  <2>2. ASSUME NEW g \in HomeIds, NEW c \in Todo(g)', c.call \in Wakes
        PROVE  Decided(c.tid)'
    BY <1>1, <2>1, <2>2 DEF HomeInv, Timely
  <2>3. ASSUME NEW g \in HomeIds, NEW c \in Posts(g)'
        PROVE  Decided(c.tid)'
    <3>1. CASE c \in Posts(g)
      BY <2>1, <3>1 DEF HomeInv, Timely
    <3>2. CASE c \notin Posts(g)
      <4>1. c.tid = head.tid
        BY <3>2 DEF PortPop, head
      <4>2. Decided(head.tid)
        BY <1>1, <1>2 DEF HomeInv, Timely
      <4>. QED
        BY <2>1, <4>1, <4>2
    <3>. QED
      BY <3>1, <3>2
  <2>. QED
    BY <2>2, <2>3 DEF Timely
<1>. QED
  BY <1>4, <1>5, <1>6, <1>7 DEF HomeInv, View

-----------------------------------------------------------------------------
(* One process: its frames, and where it is in them. *)

\* Every section of p has its hold.
Runs(p) == \A n \in 1 .. Len(frames[p]) : frames[p][n].hold # 0

\* A process that is not in the middle of asking.
Rests(p) ==
    /\ FramesOK(p) /\ Runs(p) /\ frames[p] \in Seq(OneFrame)
    /\ ticket[p] = 0 /\ p \notin waiting
    /\ \A c \in Business(p) : c.call = "release"
    /\ p \in ended => frames[p] = << >> /\ Business(p) = {}

LEMMA RestsIsFine ==
    ASSUME NEW p \in Pids, Rests(p), Mirror(p), Stands(p)
    PROVE  Fine(p)
<1>1. ~Doing(p, Asked) /\ ~Doing(p, Asked \ {"wait"}) /\ ~Doing(p, {"collect", "unwind"})
      /\ ~Doing(p, {"park"})
  BY DEF Rests, Doing, Asked
<1>2. frames[p] # << >> => Top(p).hold # 0
  <2>1. frames[p] # << >> => Len(frames[p]) \in 1 .. Len(frames[p])
    BY EmptySeq DEF Rests
  <2>. QED
    BY <2>1 DEF Rests, Runs, Top
<1>3. ~Asks(p)
  BY <1>1 DEF Rests, Asks
<1>4. \A c \in Business(p) : c.call # "wait"
  BY DEF Rests
<1>5. Status(p)
  BY <1>1, <1>2, <1>3, <1>4 DEF Rests, Status
<1>6. Reached(p)
  BY <1>1 DEF Rests, Reached
<1>. QED
  BY <1>5, <1>6 DEF Fine

LEMMA RestsIsFineNext == \A p \in Pids : (Rests(p) /\ Mirror(p) /\ Stands(p) => Fine(p))'
<1>. SUFFICES ASSUME NEW p \in Pids PROVE (Rests(p) /\ Mirror(p) /\ Stands(p) => Fine(p))'
  OBVIOUS
<1>1. Rests(p) /\ Mirror(p) /\ Stands(p) => Fine(p)
  BY RestsIsFine
<1>. QED
  BY <1>1, PTL

LEMMA TopTyped ==
    ASSUME NEW p, TypedAt(p), frames[p] # << >>
    PROVE  Len(frames[p]) \in Nat \ {0} /\ Top(p) \in OneFrame /\ Top(p).req \in Requests
<1>1. frames[p] \in Seq(OneFrame) /\ Len(frames[p]) \in Nat \ {0}
  BY EmptySeq DEF TypedAt
<1>2. Len(frames[p]) \in 1 .. Len(frames[p])
  BY <1>1
<1>3. Top(p) \in OneFrame
  BY <1>1, <1>2, ElementOfSeq DEF Top
<1>. QED
  BY <1>1, <1>3 DEF OneFrame

LEMMA FineRests ==
    ASSUME NEW p \in Pids, TypedAt(p), Fine(p), ~Asks(p)
    PROVE  /\ Runs(p) /\ ticket[p] = 0 /\ p \notin waiting /\ FramesOK(p)
           /\ frames[p] \in Seq(OneFrame) /\ Len(frames[p]) \in Nat
<1>1. frames[p] \in Seq(OneFrame) /\ Len(frames[p]) \in Nat
  BY LenProperties DEF TypedAt
<1>2. Status(p)
  BY DEF Fine
<1>3. p \notin waiting /\ ~Doing(p, Asked \ {"wait"})
  BY DEF Asks, Doing
<1>4. Runs(p)
  <2>. SUFFICES ASSUME NEW n \in 1 .. Len(frames[p]) PROVE frames[p][n].hold # 0
    BY DEF Runs
  <2>1. CASE n < Len(frames[p])
    BY <1>2, <2>1 DEF Status, FramesOK
  <2>2. CASE n = Len(frames[p])
    <3>1. frames[p] # << >>
      BY <1>1, <2>2, EmptySeq
    <3>. QED
      BY <1>2, <2>2, <3>1 DEF Status, Top
  <2>. QED
    BY <1>1, <2>1, <2>2
<1>. QED
  BY <1>1, <1>2, <1>3, <1>4 DEF Status

LEMMA FineAsks ==
    ASSUME NEW p \in Pids, TypedAt(p), Fine(p), Asks(p)
    PROVE  /\ frames[p] # << >> /\ Top(p).hold = 0 /\ ~Top(p).body /\ p \notin ended
           /\ \A n \in 1 .. Len(frames[p]) - 1 :
                frames[p][n].hold # 0 /\ frames[p][n].body /\ frames[p][n].hold \in DOMAIN mirror[p]
           /\ frames[p] \in Seq(OneFrame) /\ Len(frames[p]) \in Nat \ {0}
<1>1. Status(p) /\ frames[p] \in Seq(OneFrame) /\ Len(frames[p]) \in Nat
  BY LenProperties DEF TypedAt, Fine
<1>2. frames[p] # << >> /\ Top(p).hold = 0
  BY <1>1 DEF Status
<1>3. Len(frames[p]) \in Nat \ {0}
  BY <1>1, <1>2, EmptySeq
<1>4. ~Top(p).body
  BY <1>1, <1>2, <1>3 DEF Status, FramesOK, Top
<1>5. \A n \in 1 .. Len(frames[p]) - 1 : n \in 1 .. Len(frames[p]) /\ n < Len(frames[p])
  BY <1>3
<1>6. \A n \in 1 .. Len(frames[p]) - 1 :
        frames[p][n].hold # 0 /\ frames[p][n].body /\ frames[p][n].hold \in DOMAIN mirror[p]
  BY <1>1, <1>5 DEF Status, FramesOK
<1>. QED
  BY <1>1, <1>2, <1>3, <1>4, <1>6 DEF Status

LEMMA OuterFacts ==
    ASSUME NEW f \in Seq(OneFrame), f # << >>
    PROVE  /\ Outer(f) \in Seq(OneFrame) /\ Len(f) \in Nat \ {0} /\ Len(Outer(f)) = Len(f) - 1
           /\ \A n \in 1 .. Len(f) - 1 : Outer(f)[n] = f[n]
<1>1. PICK m : m = Len(f)
  OBVIOUS
<1>2. m \in Nat \ {0} /\ \A n \in 1 .. m : f[n] \in OneFrame
  BY <1>1, EmptySeq, ElementOfSeq
<1>3. m - 1 \in Int /\ \A n \in 1 .. m - 1 : f[n] \in OneFrame
  BY <1>2
<1>4. /\ SubSeq(f, 1, m - 1) \in Seq(OneFrame)
      /\ Len(SubSeq(f, 1, m - 1)) = IF 1 <= m - 1 THEN m - 1 - 1 + 1 ELSE 0
      /\ \A n \in 1 .. m - 1 - 1 + 1 : SubSeq(f, 1, m - 1)[n] = f[1 + n - 1]
  BY <1>3, SubSeqProperties
<1>5. Len(SubSeq(f, 1, m - 1)) = m - 1 /\ \A n \in 1 .. m - 1 : SubSeq(f, 1, m - 1)[n] = f[n]
  BY <1>2, <1>4
<1>. QED
  BY <1>1, <1>2, <1>4, <1>5 DEF Outer

LEMMA CoversSame ==
    ASSUME NEW H, NEW G, NEW i \in DOMAIN G, NEW r, NEW k, SameAs(G[i], H[i]), Covers(H, i, r, k)
    PROVE  Covers(G, i, r, k)
BY DEF Covers, Above, SameAs

\* The outer frames stand where they stood.
LEMMA StandsKept ==
    ASSUME NEW p, NEW N \in Nat, N <= Len(frames[p]), Len(frames[p]) \in Nat, Stands(p),
           \A n \in 1 .. N : /\ frames'[p][n].hold = frames[p][n].hold
                             /\ frames'[p][n].req = frames[p][n].req
                             /\ frames[p][n].hold \in DOMAIN mirror[p] =>
                                    /\ frames[p][n].hold \in DOMAIN mirror'[p]
                                    /\ SameAs(mirror'[p][frames[p][n].hold], mirror[p][frames[p][n].hold])
    PROVE  \A n \in 1 .. N : StandsAt(p, n)'
<1>. SUFFICES ASSUME NEW n \in 1 .. N, frames[p][n].hold # 0, NEW k \in frames[p][n].req.keys
              PROVE  \E m \in 1 .. n :
                        /\ frames'[p][m].hold \in DOMAIN mirror'[p]
                        /\ Covers(mirror'[p], frames'[p][m].hold, frames'[p][n].req, k)
  BY DEF StandsAt
<1>1. n \in 1 .. Len(frames[p]) /\ \A m \in 1 .. n : m \in 1 .. N
  OBVIOUS
<1>2. PICK m \in 1 .. n : /\ frames[p][m].hold \in DOMAIN mirror[p]
                          /\ Covers(mirror[p], frames[p][m].hold, frames[p][n].req, k)
  BY <1>1 DEF Stands, StandsAt
<1>3. /\ frames'[p][m].hold = frames[p][m].hold /\ frames'[p][n].req = frames[p][n].req
      /\ frames[p][m].hold \in DOMAIN mirror'[p]
      /\ SameAs(mirror'[p][frames[p][m].hold], mirror[p][frames[p][m].hold])
  BY <1>1, <1>2
<1>4. Covers(mirror'[p], frames[p][m].hold, frames[p][n].req, k)
  BY <1>2, <1>3, CoversSame, SMTT(30)
<1>. QED
  BY <1>3, <1>4

\* The frame of a wait that failed goes, and with it nothing that counted.
LEMMA BareFrameGoes ==
    ASSUME NEW p \in Pids, TypedAt(p), Fine(p), Asks(p),
           frames'[p] = Outer(frames[p]), mirror'[p] = mirror[p]
    PROVE  /\ FramesOK(p)' /\ Runs(p)' /\ Stands(p)' /\ frames'[p] \in Seq(OneFrame)
           /\ \A i \in DOMAIN mirror[p] : Counts(p, i)' = Counts(p, i)
<1>1. /\ frames[p] # << >> /\ Top(p).hold = 0
      /\ \A n \in 1 .. Len(frames[p]) - 1 :
            frames[p][n].hold # 0 /\ frames[p][n].body /\ frames[p][n].hold \in DOMAIN mirror[p]
      /\ frames[p] \in Seq(OneFrame)
  BY FineAsks
<1>2. PICK m : m = Len(frames[p])
  OBVIOUS
<1>3. /\ frames'[p] \in Seq(OneFrame) /\ m \in Nat \ {0} /\ Len(frames'[p]) = m - 1
      /\ \A n \in 1 .. m - 1 : frames'[p][n] = frames[p][n]
  BY <1>1, <1>2, OuterFacts
<1>4. FramesOK(p)' /\ Runs(p)'
  BY <1>1, <1>2, <1>3 DEF FramesOK, Runs
<1>5. Stands(p)'
  <2>1. \A n \in 1 .. m - 1 : StandsAt(p, n)'
    <3>1. m - 1 \in Nat /\ m - 1 <= m
      BY <1>3
    <3>2. Len(frames[p]) \in Nat /\ m - 1 <= Len(frames[p]) /\ Stands(p)
      BY <1>2, <1>3, <3>1 DEF Fine
    <3>. QED
      BY <1>3, <3>1, <3>2, StandsKept DEF SameAs
  <2>. QED
    BY <1>3, <2>1 DEF Stands
<1>6. ASSUME NEW i \in DOMAIN mirror[p]
      PROVE  Counts(p, i)' = Counts(p, i)
  <2>1. i # 0 /\ frames[p][m].hold = 0
    BY <1>1, <1>2 DEF TypedAt, Top
  <2>2. \A n \in 1 .. m : n \in 1 .. m - 1 \/ n = m
    BY <1>3
  <2>3. \A n \in 1 .. m - 1 : n \in 1 .. m
    BY <1>3
  <2>4. Counts(p, i) = {n \in 1 .. m : frames[p][n].hold = i}
    BY <1>2 DEF Counts
  <2>5. Counts(p, i)' = {n \in 1 .. m - 1 : frames'[p][n].hold = i}
    BY <1>3 DEF Counts
  <2>. QED
    BY <1>3, <2>1, <2>2, <2>3, <2>4, <2>5
<1>. QED
  BY <1>3, <1>4, <1>5, <1>6

\* The frame of a wait that was granted counts on the hold.
LEMMA BareFrameHolds ==
    ASSUME NEW p \in Pids, TypedAt(p), Fine(p), Asks(p),
           NEW i \in Nat \ {0}, i \notin DOMAIN mirror[p], NEW h, SameAs(h, Top(p).req),
           frames'[p] = [frames[p] EXCEPT ![Len(frames[p])].hold = i],
           mirror'[p] = [j \in DOMAIN mirror[p] \cup {i} |->
               IF j = i THEN [mode |-> h.mode, keys |-> h.keys, count |-> 1] ELSE mirror[p][j]]
    PROVE  /\ FramesOK(p)' /\ Runs(p)' /\ Stands(p)' /\ frames'[p] \in Seq(OneFrame)
           /\ \A j \in DOMAIN mirror[p] : Counts(p, j)' = Counts(p, j)
           /\ Cardinality(Counts(p, i)') = 1
<1>1. /\ frames[p] # << >> /\ Top(p).hold = 0 /\ ~Top(p).body
      /\ \A n \in 1 .. Len(frames[p]) - 1 :
            frames[p][n].hold # 0 /\ frames[p][n].body /\ frames[p][n].hold \in DOMAIN mirror[p]
      /\ frames[p] \in Seq(OneFrame)
  BY FineAsks
<1>2. PICK m, f : m = Len(frames[p]) /\ f = frames[p]
  OBVIOUS
<1>3. m \in Nat \ {0} /\ f \in Seq(OneFrame) /\ m \in 1 .. m
  BY <1>1, <1>2, OuterFacts
<1>4. f[m] \in OneFrame
  BY <1>2, <1>3, ElementOfSeq
<1>5. /\ [f[m] EXCEPT !.hold = i] \in OneFrame
      /\ [f[m] EXCEPT !.hold = i].hold = i /\ [f[m] EXCEPT !.hold = i].body = f[m].body
      /\ [f[m] EXCEPT !.hold = i].req = f[m].req
  BY <1>4 DEF OneFrame
<1>6. PICK e \in OneFrame : /\ e.hold = i /\ e.body = f[m].body /\ e.req = f[m].req
                            /\ frames'[p] = [f EXCEPT ![m] = e]
  BY <1>2, <1>5
<1>7. /\ frames'[p] \in Seq(OneFrame) /\ Len(frames'[p]) = m /\ frames'[p][m] = e
      /\ \A n \in 1 .. m : n # m => frames'[p][n] = f[n]
  BY <1>2, <1>3, <1>6, ExceptSeq
<1>8. /\ DOMAIN mirror'[p] = DOMAIN mirror[p] \cup {i}
      /\ \A j \in DOMAIN mirror[p] : mirror'[p][j] = mirror[p][j]
      /\ SameAs(mirror'[p][i], h)
  BY DEF SameAs
<1>9. \A n \in 1 .. m : n # m => n \in 1 .. m - 1 /\ n < m
  BY <1>3
<1>10. \A n \in 1 .. m : n # m =>
          /\ frames'[p][n] = f[n] /\ f[n].hold # 0 /\ f[n].body /\ f[n].hold \in DOMAIN mirror[p]
          /\ f[n].hold # i
  BY <1>1, <1>2, <1>7, <1>9
<1>11. FramesOK(p)' /\ Runs(p)'
  <2>1. ~(m < m) /\ i # 0 /\ ~e.body
    BY <1>1, <1>2, <1>3, <1>6 DEF Top
  <2>2. FramesOK(p)'
    BY <1>6, <1>7, <1>8, <1>10, <2>1 DEF FramesOK
  <2>3. Runs(p)'
    BY <1>6, <1>7, <1>10, <2>1 DEF Runs
  <2>. QED
    BY <2>2, <2>3
<1>12. Stands(p)'
  <2>1. \A n \in 1 .. m - 1 : StandsAt(p, n)'
    <3>1. /\ m - 1 \in Nat /\ m - 1 <= Len(frames[p]) /\ Len(frames[p]) \in Nat /\ Stands(p)
          /\ \A n \in 1 .. m - 1 : n \in 1 .. m /\ n # m
      BY <1>2, <1>3 DEF Fine
    <3>2. \A n \in 1 .. m - 1 : /\ frames'[p][n].hold = frames[p][n].hold
                                /\ frames'[p][n].req = frames[p][n].req
                                /\ frames[p][n].hold \in DOMAIN mirror'[p]
                                /\ SameAs(mirror'[p][frames[p][n].hold], mirror[p][frames[p][n].hold])
      BY <1>2, <1>8, <1>10, <3>1 DEF SameAs
    <3>. QED
      BY <3>1, <3>2, StandsKept
  <2>2. StandsAt(p, m)'
    <3>. SUFFICES ASSUME NEW k \in e.req.keys
                  PROVE  \E n \in 1 .. m : /\ frames'[p][n].hold \in DOMAIN mirror'[p]
                                           /\ Covers(mirror'[p], frames'[p][n].hold, e.req, k)
      BY <1>7 DEF StandsAt
    <3>1. e.req = Top(p).req /\ e.req \in Requests
      BY <1>2, <1>6 DEF Top, OneFrame
    <3>2. SameAs(mirror'[p][i], e.req) /\ e.req.mode \in Modes /\ k \in Keys
      BY <1>8, <3>1, KeySetsAssumption DEF SameAs, Requests
    <3>3. <<k, k>> \in Prefix
      BY <3>2, PrefixAssumption
    <3>4. Covers(mirror'[p], i, e.req, k)
      BY <1>8, <3>2, <3>3 DEF Covers, Above, SameAs, Modes
    <3>. QED
      BY <1>3, <1>6, <1>7, <1>8, <3>4
  <2>3. \A n \in 1 .. m : n \in 1 .. m - 1 \/ n = m
    BY <1>3
  <2>. QED
    BY <1>7, <2>1, <2>2, <2>3 DEF Stands
<1>13. ASSUME NEW j \in DOMAIN mirror[p]
       PROVE  Counts(p, j)' = Counts(p, j)
  <2>1. j # 0 /\ j # i /\ f[m].hold = 0
    BY <1>1, <1>2 DEF TypedAt, Top
  <2>2. \A n \in 1 .. m : frames'[p][n].hold = j <=> f[n].hold = j
    BY <1>6, <1>7, <1>10, <2>1
  <2>. QED
    BY <1>2, <1>7, <2>2 DEF Counts
<1>14. Counts(p, i)' = {m}
  <2>1. \A n \in 1 .. m : frames'[p][n].hold = i <=> n = m
    BY <1>6, <1>7, <1>10
  <2>. QED
    BY <1>3, <1>7, <2>1 DEF Counts
<1>. QED
  BY <1>7, <1>11, <1>12, <1>13, <1>14, FS_Singleton

-----------------------------------------------------------------------------
(* What each operation does to the process it is about. *)

\* The mirror, tickets and frames of processes outside E stay.
Spares(E) ==
    /\ DOMAIN mirror' = Pids /\ DOMAIN ticket' = Pids /\ DOMAIN frames' = Pids
    /\ \A q \in Pids \ E :
        mirror'[q] = mirror[q] /\ ticket'[q] = ticket[q] /\ frames'[q] = frames[q]

LEMMA HomeFacts ==
    ASSUME IInv, HomeInv
    PROVE  /\ Typed /\ Matching /\ Shapes /\ DOMAIN mirror = Pids /\ DOMAIN ticket = Pids /\ DOMAIN frames = Pids
           /\ homes \subseteq HomeIds /\ waiting \subseteq Pids /\ ended \subseteq Pids
           /\ \A p \in Pids : TypedAt(p) /\ (HomeOf[p] \in homes => Fine(p)) /\ HomeOf[p] \in HomeIds
BY HomeAssumption DEF HomeInv, Typed, Local, IInv, TypeOK, Bounds, HomeIds

LEMMA CollectFine ==
    ASSUME IInv, HomeInv, NEW p \in Pids, HomeOf[p] \in homes, Asks(p),
           \A c \in Business(p) : c.call # "release",
           Collect(p), p \notin waiting', p \in ended' <=> p \in ended, Business(p)' = {}
    PROVE  View({p}) /\ Woken = {} /\ Spares({p}) /\ TypedAt(p)' /\ Fine(p)'
<1>1. /\ TypedAt(p) /\ Fine(p) /\ Matching
      /\ DOMAIN mirror = Pids /\ DOMAIN ticket = Pids /\ DOMAIN frames = Pids
  BY HomeFacts
<1>2. PICK t : t = TicketOf(p)
  OBVIOUS
<1>3. PICK i : i = tickets[t].hold
  OBVIOUS
<1>4. /\ Resume(p) /\ ticket' = [ticket EXCEPT ![p] = 0]
      /\ \/ /\ tickets[t].state = "granted"
            /\ mirror' = Mirrored(p, i, holds[i])
            /\ frames' = [frames EXCEPT ![p][Len(frames[p])].hold = i]
         \/ /\ tickets[t].state # "granted"
            /\ frames' = [frames EXCEPT ![p] = Outer(@)] /\ mirror' = mirror
  BY <1>2, <1>3 DEF Collect
<1>5. /\ View({p}) /\ Woken = {} /\ holds' = holds /\ TicketOf(p)' = 0 /\ t # 0
      /\ IF tickets[t].state = "granted"
           THEN /\ i \notin Known(p) /\ i \in Nat \ {0} /\ Known(p)' = Known(p) \cup {i}
                /\ SameAs(holds[i], tickets[t])
           ELSE Known(p)' = Known(p)
  BY <1>1, <1>2, <1>3, <1>4, ResumeView
<1>6. Status(p) /\ Mirror(p) /\ ticket[p] = t
  BY <1>1, <1>2 DEF Fine, Mirror
<1>7. Releasing(p) = {} /\ DOMAIN mirror[p] = Known(p) /\ p \notin ended
  BY <1>1, <1>6, FineAsks DEF Releasing, Mirror
<1>8. Releasing(p)' = {}
  BY DEF Releasing
<1>9. ticket'[p] = 0 /\ p \notin ended'
  BY <1>1, <1>4, <1>7
<1>10. CASE tickets[t].state = "granted"
  <2>1. /\ mirror' = [mirror EXCEPT ![p] = [j \in DOMAIN mirror[p] \cup {i} |->
                IF j = i THEN [mode |-> holds[i].mode, keys |-> holds[i].keys, count |-> 1]
                         ELSE mirror[p][j]]]
        /\ frames' = [frames EXCEPT ![p][Len(frames[p])].hold = i]
    BY <1>4, <1>10 DEF Mirrored
  <2>2. /\ mirror'[p] = [j \in DOMAIN mirror[p] \cup {i} |->
                IF j = i THEN [mode |-> holds[i].mode, keys |-> holds[i].keys, count |-> 1]
                         ELSE mirror[p][j]]
        /\ frames'[p] = [frames[p] EXCEPT ![Len(frames[p])].hold = i]
    BY <1>1, <2>1
  <2>3. Spares({p})
    BY <1>1, <1>4, <2>1 DEF Spares
  <2>4. SameAs(holds[i], Top(p).req)
    BY <1>5, <1>6, <1>10 DEF Status, SameAs
  <2>5. i \in Nat \ {0} /\ i \notin DOMAIN mirror[p] /\ Known(p)' = Known(p) \cup {i}
    BY <1>5, <1>7, <1>10
  <2>6. /\ FramesOK(p)' /\ Runs(p)' /\ Stands(p)' /\ frames'[p] \in Seq(OneFrame)
        /\ \A j \in DOMAIN mirror[p] : Counts(p, j)' = Counts(p, j)
        /\ Cardinality(Counts(p, i)') = 1
    BY <1>1, <2>2, <2>4, <2>5, BareFrameHolds
  <2>7. /\ DOMAIN mirror'[p] = DOMAIN mirror[p] \cup {i}
        /\ \A j \in DOMAIN mirror[p] : mirror'[p][j] = mirror[p][j]
        /\ SameAs(mirror'[p][i], holds[i]) /\ mirror'[p][i].count = 1
        /\ mirror'[p][i] = [mode |-> holds[i].mode, keys |-> holds[i].keys, count |-> 1]
    BY <2>2, <2>5 DEF SameAs
  <2>8. TypedAt(p)'
    <3>1. Top(p).req \in Requests
      BY <1>1, FineAsks, TopTyped
    <3>2. mirror'[p][i] \in Copy
      BY <2>4, <2>7, <3>1, KeySetsAssumption DEF SameAs, Requests, Copy
    <3>. QED
      BY <1>1, <1>9, <2>2, <2>5, <2>6, <2>7, <3>2 DEF TypedAt
  <2>9. Copied(p)'
    BY <1>5, <1>6, <2>6, <2>7 DEF Mirror, Copied, SameAs
  <2>10. Mirror(p)'
    BY <1>5, <1>7, <1>8, <1>9, <2>5, <2>7, <2>9 DEF Mirror
  <2>11. Rests(p)'
    BY <1>9, <2>6 DEF Rests
  <2>. QED
    BY <1>5, <2>3, <2>6, <2>8, <2>10, <2>11, RestsIsFineNext
<1>11. CASE tickets[t].state # "granted"
  <2>1. /\ frames' = [frames EXCEPT ![p] = Outer(@)] /\ mirror' = mirror
        /\ frames'[p] = Outer(frames[p]) /\ mirror'[p] = mirror[p]
    BY <1>1, <1>4, <1>11
  <2>2. Spares({p})
    BY <1>1, <1>4, <2>1 DEF Spares
  <2>3. /\ FramesOK(p)' /\ Runs(p)' /\ Stands(p)' /\ frames'[p] \in Seq(OneFrame)
        /\ \A j \in DOMAIN mirror[p] : Counts(p, j)' = Counts(p, j)
    BY <1>1, <2>1, BareFrameGoes
  <2>4. TypedAt(p)'
    BY <1>1, <1>9, <2>1, <2>3 DEF TypedAt
  <2>5. Copied(p)'
    BY <1>5, <1>6, <2>1, <2>3 DEF Mirror, Copied, SameAs
  <2>6. Mirror(p)'
    BY <1>5, <1>7, <1>8, <1>9, <1>11, <2>1, <2>5 DEF Mirror
  <2>7. Rests(p)'
    BY <1>9, <2>3 DEF Rests
  <2>. QED
    BY <1>5, <2>2, <2>3, <2>4, <2>6, <2>7, RestsIsFineNext
<1>. QED
  BY <1>10, <1>11

-----------------------------------------------------------------------------
(* Steps of a process. *)

\* A process that steps is in the middle of nothing.
LEMMA StepsFacts ==
    ASSUME IInv, HomeInv, NEW p \in Pids, Steps(p)
    PROVE  /\ HomeOf[p] \in homes /\ HomeOf[p] \in HomeIds /\ TypedAt(p) /\ Fine(p)
           /\ Todo(HomeOf[p]) = {} /\ Business(p) = {} /\ Releasing(p) = {} /\ ~port[HomeOf[p]].closed
           /\ ~Asks(p) /\ ticket[p] = 0 /\ TicketOf(p) = 0 /\ p \notin waiting /\ p \notin ended
           /\ Runs(p) /\ FramesOK(p) /\ frames[p] \in Seq(OneFrame) /\ Len(frames[p]) \in Nat
           /\ DOMAIN mirror[p] = Known(p) /\ Copied(p) /\ Stands(p)
<1>1. /\ HomeOf[p] \in homes /\ HomeOf[p] \in HomeIds /\ TypedAt(p) /\ Fine(p)
      /\ ~port[HomeOf[p]].closed /\ p \notin waiting /\ p \notin ended
  BY HomeFacts DEF Steps, Idle
<1>2. Todo(HomeOf[p]) = {}
  BY <1>1, HomeFacts, Heads DEF Steps, Idle
<1>3. Business(p) = {} /\ Releasing(p) = {}
  BY <1>2 DEF Business, Releasing
<1>4. ~Asks(p)
  BY <1>1, <1>3 DEF Asks, Doing
<1>5. /\ Runs(p) /\ ticket[p] = 0 /\ FramesOK(p) /\ frames[p] \in Seq(OneFrame)
      /\ Len(frames[p]) \in Nat
  BY <1>1, <1>4, FineRests
<1>6. TicketOf(p) = 0 /\ DOMAIN mirror[p] = Known(p) /\ Copied(p) /\ Stands(p)
  BY <1>1, <1>3, <1>5 DEF Fine, Mirror
<1>. QED
  BY <1>1, <1>2, <1>3, <1>4, <1>5, <1>6

\* A frame more: the section that begins stands on what the frames count on.
LEMMA PushFacts ==
    ASSUME NEW p \in Pids, TypedAt(p), FramesOK(p), InBody(p), Stands(p),
           NEW i \in Nat, NEW b \in BOOLEAN, NEW r \in Requests, b => i # 0,
           i # 0 => i \in DOMAIN mirror'[p],
           frames'[p] = Append(frames[p], Frame(i, b, r)),
           \A j \in DOMAIN mirror[p] : j \in DOMAIN mirror'[p] /\ SameAs(mirror'[p][j], mirror[p][j]),
           i # 0 => \A k \in r.keys : \E j \in DOMAIN mirror'[p] :
                        (j = i \/ Counts(p, j) # {}) /\ Covers(mirror'[p], j, r, k)
    PROVE  /\ frames'[p] \in Seq(OneFrame) /\ Len(frames'[p]) = Len(frames[p]) + 1
           /\ Len(frames[p]) + 1 \in Nat \ {0} /\ frames'[p] # << >>
           /\ Top(p)' = Frame(i, b, r)
           /\ FramesOK(p)' /\ Stands(p)' /\ (Runs(p) /\ i # 0 => Runs(p)')
           /\ \A j : j # i => Counts(p, j)' = Counts(p, j)
           /\ Counts(p, i)' = Counts(p, i) \cup {Len(frames[p]) + 1}
           /\ \A j : Len(frames[p]) + 1 \notin Counts(p, j)
<1>1. PICK m, f, e : m = Len(frames[p]) /\ f = frames[p] /\ e = Frame(i, b, r)
  OBVIOUS
<1>2. /\ f \in Seq(OneFrame) /\ m \in Nat /\ e \in OneFrame
      /\ e.hold = i /\ e.body = b /\ e.req = r
  BY <1>1 DEF TypedAt, Frame, OneFrame
<1>3. /\ frames'[p] \in Seq(OneFrame) /\ Len(frames'[p]) = m + 1
      /\ \A n \in 1 .. m : frames'[p][n] = f[n]
      /\ frames'[p][m + 1] = e /\ m + 1 \in Nat \ {0}
  BY <1>1, <1>2, AppendProperties
<1>4. /\ \A n \in 1 .. m + 1 : n \in 1 .. m \/ n = m + 1
      /\ \A n \in 1 .. m : n \in 1 .. m + 1 /\ n < m + 1
      /\ m + 1 \in 1 .. m + 1 /\ m + 1 \notin 1 .. m
  BY <1>2
<1>5. FramesOK(p)'
  <2>1. ASSUME NEW n \in 1 .. m
        PROVE  /\ frames'[p][n].body /\ frames'[p][n].hold # 0
               /\ frames'[p][n].hold \in DOMAIN mirror'[p]
    BY <1>1, <1>3, <2>1 DEF InBody, FramesOK
  <2>2. ~(m + 1 < m + 1)
    BY <1>2
  <2>. QED
    BY <1>2, <1>3, <1>4, <2>1, <2>2 DEF FramesOK
<1>6. Stands(p)'
  <2>1. \A n \in 1 .. m : StandsAt(p, n)'
    <3>1. m <= Len(frames[p]) /\ Len(frames[p]) \in Nat
      BY <1>1, <1>2
    <3>2. \A n \in 1 .. m : /\ frames'[p][n].hold = frames[p][n].hold
                            /\ frames'[p][n].req = frames[p][n].req
                            /\ frames[p][n].hold \in DOMAIN mirror[p] =>
                                    /\ frames[p][n].hold \in DOMAIN mirror'[p]
                                    /\ SameAs(mirror'[p][frames[p][n].hold], mirror[p][frames[p][n].hold])
      BY <1>1, <1>3
    <3>. QED
      BY <1>2, <3>1, <3>2, StandsKept
  <2>2. StandsAt(p, m + 1)'
    <3>. SUFFICES ASSUME i # 0, NEW k \in r.keys
                  PROVE  \E n \in 1 .. m + 1 : /\ frames'[p][n].hold \in DOMAIN mirror'[p]
                                               /\ Covers(mirror'[p], frames'[p][n].hold, r, k)
      BY <1>2, <1>3 DEF StandsAt
    <3>1. PICK j \in DOMAIN mirror'[p] : (j = i \/ Counts(p, j) # {}) /\ Covers(mirror'[p], j, r, k)
      OBVIOUS
    <3>2. CASE j = i
      BY <1>2, <1>3, <1>4, <3>1, <3>2
    <3>3. CASE Counts(p, j) # {}
      <4>1. PICK n \in 1 .. m : f[n].hold = j
        BY <1>1, <3>3 DEF Counts
      <4>. QED
        BY <1>3, <1>4, <3>1, <4>1
    <3>. QED
      BY <3>1, <3>2, <3>3
  <2>. QED
    BY <1>3, <1>4, <2>1, <2>2 DEF Stands
<1>7. Runs(p) /\ i # 0 => Runs(p)'
  BY <1>1, <1>2, <1>3, <1>4 DEF Runs
<1>8. \A j : /\ Counts(p, j) = {n \in 1 .. m : f[n].hold = j}
             /\ Counts(p, j)' = {n \in 1 .. m + 1 : frames'[p][n].hold = j}
  BY <1>1, <1>3 DEF Counts
<1>9. \A j : Counts(p, j)' = Counts(p, j) \cup (IF j = i THEN {m + 1} ELSE {})
  <2>1. ASSUME NEW j, NEW n
        PROVE  n \in Counts(p, j)' <=> n \in Counts(p, j) \/ (n = m + 1 /\ j = i)
    <3>1. /\ Counts(p, j)' = {k \in 1 .. m + 1 : frames'[p][k].hold = j}
          /\ Counts(p, j) = {k \in 1 .. m : f[k].hold = j}
      BY <1>8
    <3>2. n \in Counts(p, j)' <=> n \in 1 .. m + 1 /\ frames'[p][n].hold = j
      BY <3>1
    <3>3. n \in Counts(p, j) <=> n \in 1 .. m /\ f[n].hold = j
      BY <3>1
    <3>. QED
      BY <1>2, <1>3, <1>4, <3>2, <3>3
  <2>2. ASSUME NEW j
        PROVE  Counts(p, j)' = Counts(p, j) \cup (IF j = i THEN {m + 1} ELSE {})
    <3>1. PICK C, D : C = Counts(p, j) /\ D = Counts(p, j)'
      OBVIOUS
    <3>2. \A n : n \in D <=> n \in C \/ (n = m + 1 /\ j = i)
      BY <2>1, <3>1
    <3>. QED
      BY <3>1, <3>2
  <2>. QED
    BY <2>2
<1>10. \A j : m + 1 \notin Counts(p, j)
  BY <1>4, <1>8
<1>11. Top(p)' = e /\ frames'[p] # << >>
  BY <1>3, EmptySeq DEF Top
<1>12. /\ \A j : j # i => Counts(p, j)' = Counts(p, j)
       /\ Counts(p, i)' = Counts(p, i) \cup {m + 1}
  BY <1>9, Zenon
<1>. QED
  BY <1>1, <1>3, <1>5, <1>6, <1>7, <1>10, <1>11, <1>12

LEMMA CountsFinite ==
    ASSUME NEW p, Len(frames[p]) \in Nat, NEW j
    PROVE  IsFiniteSet(Counts(p, j)) /\ Cardinality(Counts(p, j)) \in Nat
<1>1. Counts(p, j) \in SUBSET (1 .. Len(frames[p]))
  BY DEF Counts
<1>2. IsFiniteSet(1 .. Len(frames[p]))
  BY FS_Interval
<1>3. IsFiniteSet(Counts(p, j))
  BY <1>1, <1>2, FS_Subset
<1>. QED
  BY <1>3, FS_CardinalityType

\* Every hold of the mirror has a frame that counts on it.
LEMMA MirrorCounts ==
    ASSUME NEW p, TypedAt(p), Copied(p), NEW j \in DOMAIN mirror[p]
    PROVE  Counts(p, j) # {} /\ mirror[p][j] \in Copy /\ j \in Nat \ {0}
<1>1. mirror[p][j] \in Copy /\ j \in Nat \ {0}
  BY DEF TypedAt
<1>2. mirror[p][j].count = Cardinality(Counts(p, j))
  BY DEF Copied
<1>3. mirror[p][j].count # 0
  BY <1>1 DEF Copy
<1>. QED
  BY <1>1, <1>2, <1>3, FS_EmptySet

LEMMA EnterCoveredKeeps ==
    ASSUME IInv, HomeInv, IInv', Bounds', NEW p \in Pids, NEW r \in Requests,
           TryEnter(p, r), EnterCovered(p, r)
    PROVE  HomeInv'
<1>1. /\ Steps(p) /\ InBody(p) /\ port' = port /\ ticket' = ticket /\ waiting' = waiting /\ ended' = ended
      /\ UNCHANGED table /\ work' = work /\ Covered(mirror[p], r)
  BY DEF TryEnter, EnterCovered
<1>2. PICK i \in DOMAIN mirror[p] :
        /\ mirror' = [mirror EXCEPT ![p][i].count = @ + 1]
        /\ frames' = Push(p, Frame(i, TRUE, r))
  BY DEF EnterCovered
<1>3. /\ TypedAt(p) /\ Business(p) = {} /\ Releasing(p) = {} /\ HomeOf[p] \in homes
      /\ ~Asks(p) /\ ticket[p] = 0 /\ TicketOf(p) = 0 /\ p \notin waiting /\ p \notin ended
      /\ Runs(p) /\ FramesOK(p) /\ frames[p] \in Seq(OneFrame) /\ Len(frames[p]) \in Nat
      /\ DOMAIN mirror[p] = Known(p) /\ Copied(p) /\ Stands(p)
  BY <1>1, StepsFacts
<1>4. /\ Matching /\ DOMAIN mirror = Pids /\ DOMAIN ticket = Pids /\ DOMAIN frames = Pids
      /\ waiting \subseteq Pids /\ ended \subseteq Pids /\ mirror[p] \in [DOMAIN mirror[p] -> Copy]
  BY <1>3, HomeFacts DEF TypedAt
<1>5. Still /\ homes' = homes /\ nextHome' = nextHome
  BY <1>1, UnchangedIsStill DEF table, vars
<1>6. View({}) /\ Woken = {} /\ Stable(p)
  BY <1>4, <1>5, StillView
<1>7. /\ mirror'[p] = [mirror[p] EXCEPT ![i].count = @ + 1]
      /\ frames'[p] = Append(frames[p], Frame(i, TRUE, r))
      /\ \A q \in Pids \ {p} : mirror'[q] = mirror[q] /\ frames'[q] = frames[q]
      /\ DOMAIN mirror' = Pids /\ DOMAIN frames' = Pids
  BY <1>2, <1>4 DEF Push
<1>8. /\ DOMAIN mirror'[p] = DOMAIN mirror[p]
      /\ \A j \in DOMAIN mirror[p] : j # i => mirror'[p][j] = mirror[p][j]
      /\ mirror'[p][i] = [mirror[p][i] EXCEPT !.count = @ + 1]
  BY <1>7
<1>9. mirror[p][i] \in Copy /\ i \in Nat \ {0}
  BY <1>3, MirrorCounts
<1>10. /\ mirror'[p][i] \in Copy /\ SameAs(mirror'[p][i], mirror[p][i])
       /\ mirror'[p][i].count = mirror[p][i].count + 1
  BY <1>8, <1>9 DEF Copy, SameAs
<1>11. \A j \in DOMAIN mirror[p] : j \in DOMAIN mirror'[p] /\ SameAs(mirror'[p][j], mirror[p][j])
  BY <1>8, <1>10 DEF SameAs
<1>12. ASSUME NEW k \in r.keys
       PROVE  \E j \in DOMAIN mirror'[p] : (j = i \/ Counts(p, j) # {}) /\ Covers(mirror'[p], j, r, k)
  <2>1. PICK j \in DOMAIN mirror[p] : Covers(mirror[p], j, r, k)
    BY <1>1 DEF Covered
  <2>2. Counts(p, j) # {}
    BY <1>3, MirrorCounts
  <2>3. j \in DOMAIN mirror'[p] /\ SameAs(mirror'[p][j], mirror[p][j])
    BY <1>11
  <2>4. Covers(mirror'[p], j, r, k)
    BY <2>1, <2>3, CoversSame
  <2>. QED
    BY <2>2, <2>3, <2>4
<1>13. /\ frames'[p] \in Seq(OneFrame) /\ FramesOK(p)' /\ Stands(p)' /\ Runs(p)'
       /\ \A j : j # i => Counts(p, j)' = Counts(p, j)
       /\ Counts(p, i)' = Counts(p, i) \cup {Len(frames[p]) + 1}
       /\ Len(frames[p]) + 1 \notin Counts(p, i)
  <2>1. i \in Nat /\ TRUE \in BOOLEAN /\ i # 0 /\ i \in DOMAIN mirror'[p]
    BY <1>8, <1>9
  <2>. QED
    BY <1>1, <1>3, <1>7, <1>11, <1>12, <2>1, PushFacts, ZenonT(60)
<1>14. Copied(p)'
  <2>1. mirror'[p][i].count = Cardinality(Counts(p, i)')
    <3>1. IsFiniteSet(Counts(p, i)) /\ Cardinality(Counts(p, i)) \in Nat
      BY <1>3, CountsFinite
    <3>2. PICK N : N = Counts(p, i)
      OBVIOUS
    <3>3. PICK x : x = Len(frames[p]) + 1
      OBVIOUS
    <3>4. IsFiniteSet(N) /\ x \notin N
      BY <1>13, <3>1, <3>2, <3>3
    <3>5. Cardinality(N \cup {x}) = Cardinality(N) + 1
      BY <3>4, FS_AddElement
    <3>6. Counts(p, i)' = N \cup {x}
      BY <1>13, <3>2, <3>3
    <3>7. Cardinality(Counts(p, i)') = Cardinality(Counts(p, i)) + 1
      BY <3>2, <3>5, <3>6
    <3>. QED
      BY <1>3, <1>10, <3>7 DEF Copied
  <2>2. \A j \in DOMAIN mirror[p] : SameAs(mirror'[p][j], holds'[j])
    BY <1>3, <1>6, <1>11 DEF Stable, Same, Copied, SameAs
  <2>3. \A j \in DOMAIN mirror[p] : mirror'[p][j].count = Cardinality(Counts(p, j)')
    BY <1>3, <1>8, <1>13, <2>1 DEF Copied
  <2>. QED
    BY <1>8, <2>2, <2>3 DEF Copied
<1>15. Mirror(p)' /\ Rests(p)'
  <2>1. Business(p)' = {} /\ Releasing(p)' = {}
    BY <1>1, <1>3 DEF Business, Releasing, Todo
  <2>2. Known(p)' = Known(p) /\ TicketOf(p)' = 0 /\ ticket'[p] = 0
    BY <1>1, <1>3, <1>6 DEF Stable, Same
  <2>. QED
    BY <1>1, <1>3, <1>8, <1>13, <1>14, <2>1, <2>2 DEF Mirror, Rests
<1>16. Fine(p)'
  BY <1>13, <1>15, RestsIsFineNext
<1>17. TypedAt(p)'
  <2>1. mirror'[p] \in [DOMAIN mirror'[p] -> Copy]
    BY <1>4, <1>7, <1>8, <1>10
  <2>. QED
    BY <1>1, <1>3, <1>8, <1>13, <2>1 DEF TypedAt
<1>18. Only({p}) /\ View({p})
  BY <1>1, <1>4, <1>6, <1>7 DEF Only, Aside, View
<1>. QED
  BY <1>1, <1>3, <1>5, <1>6, <1>16, <1>17, <1>18, RestStep

LEMMA EnterFastKeeps ==
    ASSUME IInv, HomeInv, IInv', Bounds', NEW p \in Pids, NEW r \in Requests,
           TryEnter(p, r), EnterFast(p, r)
    PROVE  HomeInv'
<1>1. /\ Steps(p) /\ InBody(p) /\ port' = port /\ ticket' = ticket /\ waiting' = waiting /\ ended' = ended
      /\ work' = work /\ TryAcquire(p, r)
      /\ mirror' = Mirrored(p, nextHold + 1, r)
      /\ frames' = Push(p, Frame(nextHold + 1, TRUE, r))
  BY DEF TryEnter, EnterFast
<1>2. homes' = homes /\ nextHome' = nextHome
  BY <1>1 DEF TryAcquire
<1>3. /\ TypedAt(p) /\ Business(p) = {} /\ Releasing(p) = {} /\ HomeOf[p] \in homes
      /\ ~Asks(p) /\ ticket[p] = 0 /\ TicketOf(p) = 0 /\ p \notin waiting /\ p \notin ended
      /\ Runs(p) /\ FramesOK(p) /\ frames[p] \in Seq(OneFrame) /\ Len(frames[p]) \in Nat
      /\ DOMAIN mirror[p] = Known(p) /\ Copied(p) /\ Stands(p)
  BY <1>1, StepsFacts
<1>4. /\ Matching /\ DOMAIN mirror = Pids /\ DOMAIN ticket = Pids /\ DOMAIN frames = Pids
      /\ waiting \subseteq Pids /\ ended \subseteq Pids /\ mirror[p] \in [DOMAIN mirror[p] -> Copy]
  BY <1>3, HomeFacts DEF TypedAt
<1>5. PICK i : i = nextHold + 1
  OBVIOUS
<1>6. /\ View({p}) /\ Woken = {} /\ TicketOf(p)' = 0
      /\ i \in Nat \ {0} /\ i \notin Known(p) /\ Known(p)' = Known(p) \cup {i}
      /\ \A j \in Known(p) : SameAs(holds'[j], holds[j])
      /\ SameAs(holds'[i], r)
  BY <1>1, <1>4, <1>5, TryAcquireView
<1>7. /\ mirror'[p] = [j \in DOMAIN mirror[p] \cup {i} |->
            IF j = i THEN [mode |-> r.mode, keys |-> r.keys, count |-> 1] ELSE mirror[p][j]]
      /\ frames'[p] = Append(frames[p], Frame(i, TRUE, r))
      /\ \A q \in Pids \ {p} : mirror'[q] = mirror[q] /\ frames'[q] = frames[q]
      /\ DOMAIN mirror' = Pids /\ DOMAIN frames' = Pids
  BY <1>1, <1>4, <1>5 DEF Push, Mirrored
<1>8. /\ DOMAIN mirror'[p] = DOMAIN mirror[p] \cup {i}
      /\ \A j \in DOMAIN mirror[p] : mirror'[p][j] = mirror[p][j]
      /\ mirror'[p][i] = [mode |-> r.mode, keys |-> r.keys, count |-> 1]
      /\ SameAs(mirror'[p][i], r) /\ mirror'[p][i].count = 1
  BY <1>3, <1>6, <1>7 DEF SameAs
<1>9. r.mode \in Modes /\ r.keys \in SUBSET Keys
  BY KeySetsAssumption DEF Requests
<1>10. \A k \in r.keys : Covers(mirror'[p], i, r, k)
  <2>1. \A k \in r.keys : <<k, k>> \in Prefix
    BY <1>9, PrefixAssumption
  <2>. QED
    BY <1>8, <1>9, <2>1 DEF Covers, Above, Modes
<1>11. \A j \in DOMAIN mirror[p] : j \in DOMAIN mirror'[p] /\ SameAs(mirror'[p][j], mirror[p][j])
  BY <1>8 DEF SameAs
<1>12. /\ frames'[p] \in Seq(OneFrame) /\ FramesOK(p)' /\ Stands(p)' /\ Runs(p)'
       /\ \A j : j # i => Counts(p, j)' = Counts(p, j)
       /\ Counts(p, i)' = Counts(p, i) \cup {Len(frames[p]) + 1}
  <2>1. i \in Nat /\ TRUE \in BOOLEAN /\ i # 0 /\ i \in DOMAIN mirror'[p]
    BY <1>6, <1>8
  <2>2. \A k \in r.keys : \E j \in DOMAIN mirror'[p] :
            (j = i \/ Counts(p, j) # {}) /\ Covers(mirror'[p], j, r, k)
    BY <1>10, <2>1
  <2>. QED
    BY <1>1, <1>3, <1>7, <1>11, <2>1, <2>2, PushFacts, ZenonT(60)
<1>13. Copied(p)'
  <2>1. Counts(p, i) = {}
    <3>1. \A n \in 1 .. Len(frames[p]) : frames[p][n].hold # i
      BY <1>3, <1>6 DEF FramesOK, Runs
    <3>. QED
      BY <3>1 DEF Counts
  <2>2. Cardinality(Counts(p, i)') = 1
    <3>1. \E x : Counts(p, i)' = {x}
      BY <1>12, <2>1
    <3>. QED
      BY <3>1, FS_Singleton
  <2>3. \A j \in DOMAIN mirror'[p] : SameAs(mirror'[p][j], holds'[j])
    BY <1>3, <1>6, <1>8 DEF Copied, SameAs
  <2>4. \A j \in DOMAIN mirror'[p] : mirror'[p][j].count = Cardinality(Counts(p, j)')
    BY <1>3, <1>6, <1>8, <1>12, <2>2 DEF Copied
  <2>. QED
    BY <2>3, <2>4 DEF Copied
<1>14. Mirror(p)' /\ Rests(p)'
  <2>1. Business(p)' = {} /\ Releasing(p)' = {}
    BY <1>1, <1>3 DEF Business, Releasing, Todo
  <2>. QED
    BY <1>1, <1>3, <1>6, <1>8, <1>12, <1>13, <2>1 DEF Mirror, Rests
<1>15. Fine(p)'
  BY <1>12, <1>14, RestsIsFineNext
<1>16. TypedAt(p)'
  <2>1. mirror'[p][i] \in Copy
    BY <1>8, <1>9 DEF Copy
  <2>2. \A j \in DOMAIN mirror'[p] : mirror'[p][j] \in Copy
    BY <1>4, <1>8, <2>1
  <2>3. mirror'[p] \in [DOMAIN mirror'[p] -> Copy]
    BY <1>7, <2>2
  <2>4. DOMAIN mirror'[p] \subseteq Nat \ {0} /\ ticket'[p] \in Nat
    BY <1>1, <1>3, <1>6, <1>8 DEF TypedAt
  <2>. QED
    BY <1>12, <2>3, <2>4 DEF TypedAt
<1>17. Only({p})
  BY <1>1, <1>4, <1>7 DEF Only, Aside
<1>. QED
  BY <1>1, <1>2, <1>3, <1>6, <1>15, <1>16, <1>17, RestStep

\* The body of the innermost section begins.
LEMMA BeginBodyKeeps ==
    ASSUME IInv, HomeInv, IInv', Bounds', NEW p \in Pids, BeginBody(p)
    PROVE  HomeInv'
<1>1. /\ Steps(p) /\ ~InBody(p) /\ StartBody(p, Top(p).hold)
      /\ frames' = [frames EXCEPT ![p][Len(frames[p])].body = TRUE]
      /\ work' = work /\ port' = port /\ mirror' = mirror /\ ticket' = ticket
      /\ waiting' = waiting /\ ended' = ended /\ homes' = homes /\ nextHome' = nextHome
  BY DEF BeginBody, StartBody
<1>2. /\ TypedAt(p) /\ Fine(p) /\ Business(p) = {} /\ Releasing(p) = {} /\ HomeOf[p] \in homes
      /\ ticket[p] = 0 /\ TicketOf(p) = 0 /\ p \notin waiting /\ p \notin ended
      /\ Runs(p) /\ FramesOK(p) /\ frames[p] \in Seq(OneFrame) /\ Len(frames[p]) \in Nat
      /\ DOMAIN mirror[p] = Known(p) /\ Copied(p) /\ Stands(p)
  BY <1>1, StepsFacts
<1>3. /\ Matching /\ DOMAIN mirror = Pids /\ DOMAIN ticket = Pids /\ DOMAIN frames = Pids
      /\ waiting \subseteq Pids /\ ended \subseteq Pids
  BY HomeFacts
<1>4. View({}) /\ Woken = {} /\ Stable(p)
  <2>1. View({}) /\ Woken = {}
    BY <1>1, <1>3, StartBodyView
  <2>. QED
    BY <2>1 DEF View
<1>5. PICK m, f : m = Len(frames[p]) /\ f = frames[p]
  OBVIOUS
<1>6. m \in Nat \ {0} /\ m \in 1 .. m
  <2>1. \E n \in 1 .. m : TRUE
    BY <1>1, <1>5 DEF InBody
  <2>. QED
    BY <1>2, <1>5, <2>1
<1>7. f[m] \in OneFrame
  BY <1>2, <1>5, <1>6, ElementOfSeq
<1>8. PICK e \in OneFrame : /\ e = [f[m] EXCEPT !.body = TRUE]
                            /\ e.hold = f[m].hold /\ e.req = f[m].req
  <2>1. /\ [f[m] EXCEPT !.body = TRUE] \in OneFrame
        /\ [f[m] EXCEPT !.body = TRUE].hold = f[m].hold
        /\ [f[m] EXCEPT !.body = TRUE].req = f[m].req
    BY <1>7 DEF OneFrame
  <2>. QED
    BY <2>1
<1>9. frames'[p] = [f EXCEPT ![m] = e] /\ \A q \in Pids \ {p} : frames'[q] = frames[q]
  BY <1>1, <1>3, <1>5, <1>8
<1>10. /\ frames'[p] \in Seq(OneFrame) /\ Len(frames'[p]) = m /\ frames'[p][m] = e
       /\ \A n \in 1 .. m : n # m => frames'[p][n] = f[n]
  BY <1>2, <1>5, <1>6, <1>9, ExceptSeq
<1>11. \A n \in 1 .. m : /\ frames'[p][n].hold = f[n].hold /\ frames'[p][n].req = f[n].req
                         /\ f[n].hold # 0 /\ f[n].hold \in DOMAIN mirror[p]
  BY <1>2, <1>5, <1>8, <1>10 DEF Runs, FramesOK
<1>12. FramesOK(p)' /\ Runs(p)'
  <2>1. \A n \in 1 .. m : n < m => n # m /\ f[n].body
    BY <1>2, <1>5, <1>6 DEF FramesOK
  <2>2. Runs(p)'
    BY <1>10, <1>11 DEF Runs
  <2>. QED
    BY <1>1, <1>10, <1>11, <2>1, <2>2 DEF FramesOK
<1>13. Stands(p)'
  <2>1. \A n \in 1 .. m : StandsAt(p, n)'
    <3>1. m \in Nat /\ m <= Len(frames[p])
      BY <1>5, <1>6
    <3>2. \A n \in 1 .. m : /\ frames'[p][n].hold = frames[p][n].hold
                            /\ frames'[p][n].req = frames[p][n].req
                            /\ frames[p][n].hold \in DOMAIN mirror[p] =>
                                    /\ frames[p][n].hold \in DOMAIN mirror'[p]
                                    /\ SameAs(mirror'[p][frames[p][n].hold], mirror[p][frames[p][n].hold])
      BY <1>1, <1>5, <1>11 DEF SameAs
    <3>. QED
      BY <1>2, <3>1, <3>2, StandsKept
  <2>. QED
    BY <1>10, <2>1 DEF Stands
<1>14. \A j : Counts(p, j)' = Counts(p, j)
  BY <1>5, <1>10, <1>11 DEF Counts
<1>15. Mirror(p)' /\ Rests(p)'
  <2>1. Business(p)' = {} /\ Releasing(p)' = {}
    BY <1>1, <1>2 DEF Business, Releasing, Todo
  <2>2. Known(p)' = Known(p) /\ TicketOf(p)' = 0 /\ ticket'[p] = 0
    BY <1>1, <1>2, <1>4 DEF Stable, Same
  <2>3. Copied(p)'
    BY <1>1, <1>2, <1>4, <1>14 DEF Copied, Stable, Same, SameAs
  <2>. QED
    BY <1>1, <1>2, <1>10, <1>12, <2>1, <2>2, <2>3 DEF Mirror, Rests
<1>16. Fine(p)'
  BY <1>13, <1>15, RestsIsFineNext
<1>17. TypedAt(p)'
  BY <1>1, <1>2, <1>10 DEF TypedAt
<1>18. Only({p}) /\ View({p})
  BY <1>1, <1>3, <1>4, <1>9 DEF Only, Aside, View
<1>. QED
  BY <1>1, <1>2, <1>4, <1>16, <1>17, <1>18, RestStep

\* The innermost frame goes: the sections around it stand.
LEMMA FrameGoes ==
    ASSUME NEW p \in Pids, TypedAt(p), FramesOK(p), Runs(p), Stands(p), frames[p] # << >>,
           frames'[p] = Outer(frames[p]), NEW i, i = Top(p).hold,
           \A n \in 1 .. Len(frames[p]) - 1 :
                /\ frames[p][n].hold \in DOMAIN mirror'[p]
                /\ SameAs(mirror'[p][frames[p][n].hold], mirror[p][frames[p][n].hold])
    PROVE  /\ FramesOK(p)' /\ Runs(p)' /\ Stands(p)' /\ frames'[p] \in Seq(OneFrame)
           /\ \A j : j # i => Counts(p, j)' = Counts(p, j)
           /\ Counts(p, i)' = Counts(p, i) \ {Len(frames[p])}
<1>1. PICK m, f : m = Len(frames[p]) /\ f = frames[p]
  OBVIOUS
<1>2. /\ frames'[p] \in Seq(OneFrame) /\ m \in Nat \ {0} /\ Len(frames'[p]) = m - 1
      /\ \A n \in 1 .. m - 1 : frames'[p][n] = f[n]
  BY <1>1, OuterFacts DEF TypedAt
<1>3. /\ m - 1 \in Nat /\ m - 1 <= m /\ m \in 1 .. m
      /\ \A n \in 1 .. m - 1 : n \in 1 .. m /\ n < m /\ n # m
      /\ \A n \in 1 .. m : n # m => n \in 1 .. m - 1
  BY <1>2
<1>4. \A n \in 1 .. m - 1 : f[n].body /\ f[n].hold # 0
  BY <1>1, <1>3 DEF FramesOK, Runs
<1>5. FramesOK(p)' /\ Runs(p)'
  BY <1>1, <1>2, <1>4 DEF FramesOK, Runs
<1>6. Stands(p)'
  <2>1. \A n \in 1 .. m - 1 : StandsAt(p, n)'
    <3>1. m - 1 <= Len(frames[p]) /\ Len(frames[p]) \in Nat
      BY <1>1, <1>2, <1>3
    <3>2. \A n \in 1 .. m - 1 : /\ frames'[p][n].hold = frames[p][n].hold
                                /\ frames'[p][n].req = frames[p][n].req
                                /\ frames[p][n].hold \in DOMAIN mirror[p] =>
                                    /\ frames[p][n].hold \in DOMAIN mirror'[p]
                                    /\ SameAs(mirror'[p][frames[p][n].hold], mirror[p][frames[p][n].hold])
      BY <1>1, <1>2
    <3>. QED
      BY <1>3, <3>1, <3>2, StandsKept
  <2>. QED
    BY <1>2, <2>1 DEF Stands
<1>7. \A j : /\ Counts(p, j) = {n \in 1 .. m : f[n].hold = j}
             /\ Counts(p, j)' = {n \in 1 .. m - 1 : f[n].hold = j}
  <2>1. \A j : Counts(p, j)' = {n \in 1 .. m - 1 : frames'[p][n].hold = j}
    BY <1>2 DEF Counts
  <2>. QED
    BY <1>1, <1>2, <2>1 DEF Counts
<1>8. \A j : Counts(p, j)' = Counts(p, j) \ {m}
  BY <1>3, <1>7
<1>9. \A j : j # f[m].hold => m \notin Counts(p, j)
  BY <1>7
<1>10. i = f[m].hold
  BY <1>1 DEF Top
<1>11. /\ \A j : j # i => Counts(p, j)' = Counts(p, j)
       /\ Counts(p, i)' = Counts(p, i) \ {m}
  BY <1>8, <1>9, <1>10
<1>. QED
  BY <1>1, <1>2, <1>5, <1>6, <1>11

\* Another section counts on the hold.
LEMMA ReleaseCountedKeeps ==
    ASSUME IInv, HomeInv, IInv', Bounds', NEW p \in Pids, ReleaseFrame(p),
           mirror[p][Top(p).hold].count > 1,
           mirror' = [mirror EXCEPT ![p][Top(p).hold].count = @ - 1], UNCHANGED <<table, work>>
    PROVE  HomeInv'
<1>1. /\ Steps(p) /\ frames[p] # << >> /\ frames' = [frames EXCEPT ![p] = Outer(@)]
      /\ port' = port /\ ticket' = ticket /\ waiting' = waiting /\ ended' = ended
  BY DEF ReleaseFrame
<1>2. /\ TypedAt(p) /\ Fine(p) /\ Business(p) = {} /\ Releasing(p) = {} /\ HomeOf[p] \in homes
      /\ ticket[p] = 0 /\ TicketOf(p) = 0 /\ p \notin waiting /\ p \notin ended
      /\ Runs(p) /\ FramesOK(p) /\ frames[p] \in Seq(OneFrame) /\ Len(frames[p]) \in Nat
      /\ DOMAIN mirror[p] = Known(p) /\ Copied(p) /\ Stands(p)
  BY <1>1, StepsFacts
<1>3. /\ Matching /\ DOMAIN mirror = Pids /\ DOMAIN ticket = Pids /\ DOMAIN frames = Pids
      /\ waiting \subseteq Pids /\ ended \subseteq Pids
  BY HomeFacts
<1>4. View({}) /\ Woken = {} /\ Stable(p) /\ homes' = homes /\ nextHome' = nextHome
  BY <1>3, StillView, UnchangedIsStill DEF table, vars
<1>5. PICK i : i = Top(p).hold
  OBVIOUS
<1>6. PICK m : m = Len(frames[p])
  OBVIOUS
<1>7. m \in Nat \ {0} /\ m \in 1 .. m /\ m \in Counts(p, i)
  <2>1. m \in Nat \ {0}
    BY <1>1, <1>2, <1>6, EmptySeq
  <2>2. m \in 1 .. m
    BY <2>1
  <2>3. frames[p][m].hold = i
    BY <1>5, <1>6 DEF Top
  <2>. QED
    BY <1>6, <2>1, <2>2, <2>3 DEF Counts
<1>8. i \in DOMAIN mirror[p]
  BY <1>2, <1>5, <1>6, <1>7 DEF FramesOK, Runs, Top
<1>9. mirror[p][i] \in Copy /\ mirror[p][i].count > 1
  BY <1>2, <1>5, <1>8, MirrorCounts
<1>10. /\ mirror'[p] = [mirror[p] EXCEPT ![i].count = @ - 1]
       /\ frames'[p] = Outer(frames[p])
       /\ \A q \in Pids \ {p} : mirror'[q] = mirror[q] /\ frames'[q] = frames[q]
       /\ DOMAIN mirror' = Pids /\ DOMAIN frames' = Pids
  BY <1>1, <1>3, <1>5
<1>11. /\ DOMAIN mirror'[p] = DOMAIN mirror[p]
       /\ \A j \in DOMAIN mirror[p] : j # i => mirror'[p][j] = mirror[p][j]
       /\ mirror'[p][i] = [mirror[p][i] EXCEPT !.count = @ - 1]
  BY <1>8, <1>10
<1>12. /\ mirror'[p][i] \in Copy /\ SameAs(mirror'[p][i], mirror[p][i])
       /\ mirror'[p][i].count = mirror[p][i].count - 1
  <2>1. mirror[p][i].count - 1 \in Nat \ {0}
    BY <1>9 DEF Copy
  <2>. QED
    BY <1>9, <1>11, <2>1 DEF Copy, SameAs
<1>13. \A j \in DOMAIN mirror[p] : j \in DOMAIN mirror'[p] /\ SameAs(mirror'[p][j], mirror[p][j])
  BY <1>11, <1>12 DEF SameAs
<1>14. /\ frames'[p] \in Seq(OneFrame) /\ FramesOK(p)' /\ Stands(p)' /\ Runs(p)'
       /\ \A j : j # i => Counts(p, j)' = Counts(p, j)
       /\ Counts(p, i)' = Counts(p, i) \ {m}
  <2>1. \A n \in 1 .. m - 1 : n \in 1 .. m
    BY <1>7
  <2>2. \A n \in 1 .. Len(frames[p]) - 1 :
            /\ frames[p][n].hold \in DOMAIN mirror'[p]
            /\ SameAs(mirror'[p][frames[p][n].hold], mirror[p][frames[p][n].hold])
    BY <1>2, <1>6, <1>13, <2>1 DEF FramesOK, Runs
  <2>. QED
    BY <1>1, <1>2, <1>5, <1>6, <1>10, <2>2, FrameGoes, SMTT(30)
<1>15. Copied(p)'
  <2>1. mirror'[p][i].count = Cardinality(Counts(p, i)')
    <3>1. PICK N : N = Counts(p, i)
      OBVIOUS
    <3>2. IsFiniteSet(N) /\ Cardinality(N) \in Nat /\ m \in N /\ mirror[p][i].count = Cardinality(N)
      BY <1>2, <1>7, <1>8, <3>1, CountsFinite DEF Copied
    <3>3. Cardinality(N \ {m}) = Cardinality(N) - 1
      BY <3>2, FS_RemoveElement
    <3>. QED
      BY <1>12, <1>14, <3>1, <3>2, <3>3
  <2>2. \A j \in DOMAIN mirror[p] : SameAs(mirror'[p][j], holds'[j])
    BY <1>2, <1>4, <1>13 DEF Stable, Same, Copied, SameAs
  <2>3. \A j \in DOMAIN mirror[p] : mirror'[p][j].count = Cardinality(Counts(p, j)')
    <3>1. ASSUME NEW j \in DOMAIN mirror[p], j # i
          PROVE  mirror'[p][j].count = Cardinality(Counts(p, j)')
      <4>1. mirror'[p][j] = mirror[p][j] /\ Counts(p, j)' = Counts(p, j)
        BY <1>11, <1>14, <3>1
      <4>2. mirror[p][j].count = Cardinality(Counts(p, j))
        BY <1>2 DEF Copied
      <4>. QED
        BY <4>1, <4>2
    <3>. QED
      BY <2>1, <3>1
  <2>. QED
    BY <1>11, <2>2, <2>3 DEF Copied
<1>16. Mirror(p)' /\ Rests(p)'
  <2>1. Business(p)' = {} /\ Releasing(p)' = {}
    BY <1>2 DEF Business, Releasing, Todo
  <2>2. Known(p)' = Known(p) /\ TicketOf(p)' = 0 /\ ticket'[p] = 0
    BY <1>1, <1>2, <1>4 DEF Stable, Same
  <2>. QED
    BY <1>1, <1>2, <1>11, <1>14, <1>15, <2>1, <2>2 DEF Mirror, Rests
<1>17. Fine(p)'
  BY <1>14, <1>16, RestsIsFineNext
<1>18. TypedAt(p)'
  <2>1. \A j \in DOMAIN mirror'[p] : mirror'[p][j] \in Copy
    BY <1>2, <1>11, <1>12 DEF TypedAt
  <2>2. mirror'[p] \in [DOMAIN mirror'[p] -> Copy]
    BY <1>2, <1>10, <2>1 DEF TypedAt
  <2>3. DOMAIN mirror'[p] \subseteq Nat \ {0} /\ ticket'[p] \in Nat
    BY <1>1, <1>2, <1>11 DEF TypedAt
  <2>. QED
    BY <1>14, <2>2, <2>3 DEF TypedAt
<1>19. Only({p}) /\ View({p})
  BY <1>1, <1>3, <1>4, <1>10 DEF Only, Aside, View
<1>. QED
  BY <1>1, <1>2, <1>4, <1>17, <1>18, <1>19, RestStep

\* The notes of an operation, as what a thread has to do next.
LEMMA NotesTurn ==
    ASSUME IInv, HomeInv, NEW E, View(E), NEW h
    PROVE  /\ Notes \in Seq(Wake)
           /\ \A c \in Range(Notes) : Owned(c, h) /\ Decided(c.tid)' /\ c.call = "note"
           /\ \A u \in Woken : \E c \in Range(Notes) :
                c.call = "note" /\ c.tid = u /\ c.pid = tickets[u].pid
<1>1. /\ Notes \in Seq(Wake)
      /\ \A c \in Range(Notes) : c.call = "note" /\ c.tid \in Woken /\ HomeOf[c.pid] \in homes
      /\ \A u \in Woken : \E c \in Range(Notes) :
            c.call = "note" /\ c.tid = u /\ c.pid = tickets[u].pid
  BY NotesFacts DEF HomeInv
<1>2. \A g \in homes : g < nextHome
  BY DEF IInv, TypeOK
<1>3. \A c \in Range(Notes) : Owned(c, h)
  BY <1>1, <1>2 DEF Owned, Asked
<1>4. \A c \in Range(Notes) : Decided(c.tid)'
  <2>. SUFFICES ASSUME NEW c \in Range(Notes) PROVE Decided(c.tid)'
    OBVIOUS
  <2>1. PICK u \in Woken : u = c.tid
    BY <1>1
  <2>2. Decided(u)'
    BY DEF View, WokenDecided
  <2>. QED
    BY <2>1, <2>2
<1>. QED
  BY <1>1, <1>3, <1>4

\* An open port that nothing is taken from.
LEMMA SamePort ==
    ASSUME HomeInv, NEW h \in HomeIds, NEW s, NEW t, port' = port, ~port[h].closed,
           \A c \in Range(t) : c.call # "detach"
    PROVE  PortTurn(h, s, t)
BY DEF HomeInv, Typed, PortTurn, PortTyped, Posts

\* A process that has nothing any more.
LEMMA ClearedFine ==
    ASSUME NEW p \in Pids, frames'[p] = << >>, mirror'[p] = Empty, ticket'[p] = 0, TicketOf(p)' = 0,
           Known(p)' = {}, p \notin waiting', Business(p)' = {}
    PROVE  TypedAt(p)' /\ Fine(p)'
<1>1. << >> \in Seq(OneFrame) /\ Len(<< >>) = 0 /\ DOMAIN Empty = {}
  BY EmptySeq DEF Empty
<1>2. TypedAt(p)'
  BY <1>1 DEF TypedAt, Empty
<1>3. FramesOK(p)' /\ Runs(p)' /\ Stands(p)'
  BY <1>1 DEF FramesOK, Runs, Stands
<1>4. Rests(p)'
  BY <1>1, <1>3 DEF Rests
<1>5. Releasing(p)' = {}
  BY DEF Releasing
<1>6. Mirror(p)'
  BY <1>1, <1>5 DEF Mirror, Copied
<1>. QED
  BY <1>2, <1>3, <1>4, <1>6, RestsIsFineNext

LEMMA KillKeeps ==
    ASSUME IInv, HomeInv, IInv', Bounds', NEW p \in Pids, KillProcess(p)
    PROVE  HomeInv'
<1>1. PICK h : h = HomeOf[p]
  OBVIOUS
<1>2. /\ Idle(h) /\ End(p, TRUE) /\ work' = [work EXCEPT ![h] = Notes]
      /\ mirror' = [mirror EXCEPT ![p] = Empty] /\ ticket' = [ticket EXCEPT ![p] = 0]
      /\ frames' = [frames EXCEPT ![p] = << >>] /\ port' = port
      /\ waiting' = waiting \ {p} /\ ended' = ended \cup {p}
      /\ homes' = homes /\ nextHome' = nextHome
  BY <1>1 DEF KillProcess, End
<1>3. /\ Typed /\ Matching /\ DOMAIN mirror = Pids /\ DOMAIN ticket = Pids /\ DOMAIN frames = Pids
      /\ h \in homes /\ h \in HomeIds /\ waiting \subseteq Pids /\ ended \subseteq Pids
  BY <1>1, <1>2, HomeFacts DEF Idle
<1>4. View({p}) /\ TicketOf(p)' = 0 /\ Known(p)' = {}
  BY <1>2, <1>3, EndView
<1>5. /\ Notes \in Seq(Wake)
      /\ \A c \in Range(Notes) : Owned(c, h) /\ Decided(c.tid)' /\ c.call = "note"
      /\ \A u \in Woken : \E c \in Range(Notes) :
            c.call = "note" /\ c.tid = u /\ c.pid = tickets[u].pid
  BY <1>4, NotesTurn
<1>6. /\ Notes \o << >> = Notes /\ << >> \in Seq(AnyCall) /\ Len(<< >>) <= 1 /\ Range(<< >>) = {}
  BY <1>5, Empties, EmptySeq, RangeFacts
<1>7. Todo(h) = {}
  BY <1>2, <1>3, Heads DEF Idle
<1>8. work' = [work EXCEPT ![h] = Notes \o << >>]
  BY <1>2, <1>6
<1>9. Turn(h, Notes, << >>)
  BY <1>5, <1>6, <1>7, <1>8 DEF Turn
<1>10. PortTurn(h, Notes, << >>)
  BY <1>2, <1>3, <1>6, SamePort DEF Idle
<1>11. Business(p)' = {}
  <2>1. PICK s, t : s = Notes /\ t = << >>
    OBVIOUS
  <2>2. /\ Typed /\ h \in HomeIds /\ HomeOf[p] = h /\ s \in Seq(Wake) /\ t \in Seq(AnyCall)
        /\ t = << >> /\ work' = [work EXCEPT ![h] = s \o t]
    BY <1>1, <1>3, <1>5, <1>6, <1>8, <2>1
  <2>. QED
    BY <2>2, QuietTurn
<1>12. TypedAt(p)' /\ Fine(p)'
  <2>1. frames'[p] = << >> /\ mirror'[p] = Empty /\ ticket'[p] = 0 /\ p \notin waiting'
    BY <1>2, <1>3
  <2>. QED
    BY <1>4, <1>11, <2>1, ClearedFine
<1>13. Only({p})
  BY <1>2, <1>3 DEF Only, Aside
<1>. QED
  BY <1>1, <1>2, <1>3, <1>4, <1>6, <1>7, <1>9, <1>10, <1>12, <1>13, TurnStep

\* Busy: the frame is bare, and the wait is the next call.
LEMMA EnterBusyKeeps ==
    ASSUME IInv, HomeInv, IInv', Bounds', NEW p \in Pids, NEW r \in Requests,
           TryEnter(p, r), EnterBusy(p, r)
    PROVE  HomeInv'
<1>1. PICK h, c : h = HomeOf[p] /\ c = [call |-> "wait", pid |-> p, req |-> r]
  OBVIOUS
<1>2. /\ Steps(p) /\ InBody(p) /\ port' = port /\ ticket' = ticket /\ waiting' = waiting /\ ended' = ended
      /\ UNCHANGED table /\ mirror' = mirror
      /\ work' = [work EXCEPT ![h] = <<c>>] /\ frames' = Push(p, Frame(0, FALSE, r))
  BY <1>1 DEF TryEnter, EnterBusy
<1>3. /\ TypedAt(p) /\ Business(p) = {} /\ Releasing(p) = {} /\ h \in homes /\ h \in HomeIds
      /\ Todo(h) = {} /\ ~port[h].closed
      /\ ticket[p] = 0 /\ TicketOf(p) = 0 /\ p \notin waiting /\ p \notin ended
      /\ Runs(p) /\ FramesOK(p) /\ frames[p] \in Seq(OneFrame) /\ Len(frames[p]) \in Nat
      /\ DOMAIN mirror[p] = Known(p) /\ Copied(p) /\ Stands(p)
  BY <1>1, <1>2, StepsFacts
<1>4. /\ Typed /\ Matching /\ DOMAIN mirror = Pids /\ DOMAIN ticket = Pids /\ DOMAIN frames = Pids
      /\ waiting \subseteq Pids /\ ended \subseteq Pids
  BY HomeFacts
<1>5. Still /\ homes' = homes /\ nextHome' = nextHome
  BY <1>2, UnchangedIsStill DEF table, vars
<1>6. View({}) /\ Woken = {} /\ Stable(p)
  BY <1>4, <1>5, StillView
<1>7. /\ frames'[p] = Append(frames[p], Frame(0, FALSE, r))
      /\ \A q \in Pids \ {p} : frames'[q] = frames[q]
      /\ DOMAIN frames' = Pids
  BY <1>2, <1>4 DEF Push
<1>8. /\ frames'[p] \in Seq(OneFrame) /\ FramesOK(p)' /\ Stands(p)'
      /\ frames'[p] # << >> /\ Top(p)' = Frame(0, FALSE, r)
      /\ \A j : j # 0 => Counts(p, j)' = Counts(p, j)
  <2>1. PICK z, b : z = 0 /\ b = FALSE
    OBVIOUS
  <2>2. /\ z \in Nat /\ b \in BOOLEAN /\ frames'[p] = Append(frames[p], Frame(z, b, r))
        /\ \A j \in DOMAIN mirror[p] : j \in DOMAIN mirror'[p] /\ SameAs(mirror'[p][j], mirror[p][j])
    BY <1>2, <1>7, <2>1 DEF SameAs
  <2>3. /\ b => z # 0
        /\ z # 0 => z \in DOMAIN mirror'[p]
        /\ z # 0 => \A k \in r.keys : \E j \in DOMAIN mirror'[p] :
                        (j = z \/ Counts(p, j) # {}) /\ Covers(mirror'[p], j, r, k)
    BY <2>1
  <2>4. TypedAt(p) /\ FramesOK(p) /\ InBody(p) /\ Stands(p)
    BY <1>2, <1>3
  <2>5. /\ frames'[p] \in Seq(OneFrame) /\ FramesOK(p)' /\ Stands(p)'
        /\ frames'[p] # << >> /\ Top(p)' = Frame(z, b, r)
        /\ \A j : j # z => Counts(p, j)' = Counts(p, j)
    BY <2>2, <2>3, <2>4, PushFacts
  <2>. QED
    BY <2>1, <2>5
<1>9. /\ c \in AnyCall /\ c.call = "wait" /\ c.pid = p /\ c.req = r /\ Owned(c, h)
  BY <1>1 DEF AnyCall, Owned
<1>10. /\ << >> \in Seq(Wake) /\ <<c>> \in Seq(AnyCall) /\ Len(<<c>>) <= 1 /\ << >> \o <<c>> = <<c>>
       /\ Range(<< >>) = {} /\ Range(<<c>>) = {c}
  <2>1. <<c>> \in Seq(AnyCall) /\ Len(<<c>>) = 1
    BY <1>9
  <2>. QED
    BY <2>1, Empties, EmptySeq, RangeFacts
<1>11. Turn(h, << >>, <<c>>)
  BY <1>2, <1>3, <1>6, <1>9, <1>10 DEF Turn, Wakes
<1>12. PortTurn(h, << >>, <<c>>)
  BY <1>2, <1>3, <1>9, <1>10, SamePort
<1>13. Business(p)' = {c}
  <2>1. PICK s, t : s = << >> /\ t = <<c>>
    OBVIOUS
  <2>2. /\ Typed /\ h \in HomeIds /\ HomeOf[p] = h /\ s \in Seq(Wake) /\ t \in Seq(AnyCall)
        /\ work' = [work EXCEPT ![h] = s \o t] /\ Range(t) = {c}
    BY <1>1, <1>2, <1>3, <1>4, <1>10, <2>1
  <2>3. Business(p)' = {d \in Range(t) : d.call \in Asked \cup {"release"} /\ d.pid = p}
    BY <2>2, TurnBusiness
  <2>. QED
    BY <1>9, <2>2, <2>3 DEF Asked
<1>14. /\ Doing(p, Asked)' /\ ~Doing(p, Asked \ {"wait"})' /\ ~Doing(p, {"collect", "unwind"})'
       /\ ~Doing(p, {"park"})' /\ Releasing(p)' = {}
  BY <1>9, <1>13 DEF Doing, Asked, Releasing
<1>15. Status(p)'
  <2>1. Top(p)'.hold = 0 /\ Top(p)'.req = r
    BY <1>8 DEF Frame
  <2>2. Asks(p)'
    BY <1>14 DEF Asks
  <2>3. ticket'[p] = 0 /\ p \notin waiting' /\ p \notin ended'
    BY <1>2, <1>3
  <2>. QED
    BY <1>8, <1>9, <1>13, <1>14, <2>1, <2>2, <2>3 DEF Status
<1>16. Mirror(p)'
  <2>1. Known(p)' = Known(p) /\ TicketOf(p)' = 0 /\ \A i \in Known(p) : SameAs(holds'[i], holds[i])
    BY <1>3, <1>6 DEF Stable, Same
  <2>2. \A j \in DOMAIN mirror[p] : Counts(p, j)' = Counts(p, j)
    BY <1>3, <1>8 DEF TypedAt
  <2>3. Copied(p)'
    BY <1>2, <1>3, <2>1, <2>2 DEF Copied, SameAs
  <2>. QED
    BY <1>2, <1>3, <1>14, <2>1, <2>3 DEF Mirror
<1>17. Fine(p)' /\ TypedAt(p)'
  <2>1. Reached(p)'
    BY <1>2, <1>3, <1>14 DEF Reached
  <2>2. TypedAt(p)'
    BY <1>2, <1>3, <1>8 DEF TypedAt
  <2>. QED
    BY <1>8, <1>15, <1>16, <2>1, <2>2 DEF Fine
<1>18. Only({p}) /\ View({p})
  BY <1>2, <1>4, <1>6, <1>7 DEF Only, Aside, View
<1>. QED
  BY <1>1, <1>3, <1>5, <1>9, <1>10, <1>11, <1>12, <1>17, <1>18, TurnStep

\* The last section that counts on a hold gives it back.
LEMMA ReleaseLastKeeps ==
    ASSUME IInv, HomeInv, IInv', Bounds', NEW p \in Pids, ReleaseFrame(p),
           mirror[p][Top(p).hold].count = 1, mirror' = Forgotten(p, Top(p).hold),
           Release(p, Top(p).hold), work' = [work EXCEPT ![HomeOf[p]] = Notes]
    PROVE  HomeInv'
<1>1. PICK h, i, m : h = HomeOf[p] /\ i = Top(p).hold /\ m = Len(frames[p])
  OBVIOUS
<1>2. /\ Steps(p) /\ frames[p] # << >> /\ frames' = [frames EXCEPT ![p] = Outer(@)]
      /\ port' = port /\ ticket' = ticket /\ waiting' = waiting /\ ended' = ended
      /\ homes' = homes /\ nextHome' = nextHome
  BY DEF ReleaseFrame, Release
<1>3. /\ TypedAt(p) /\ h \in homes /\ h \in HomeIds /\ Todo(h) = {} /\ ~port[h].closed
      /\ ticket[p] = 0 /\ p \notin waiting /\ p \notin ended
      /\ Runs(p) /\ FramesOK(p) /\ frames[p] \in Seq(OneFrame) /\ Len(frames[p]) \in Nat
      /\ DOMAIN mirror[p] = Known(p) /\ Copied(p) /\ Stands(p)
  BY <1>1, <1>2, StepsFacts
<1>4. /\ Typed /\ Matching /\ DOMAIN mirror = Pids /\ DOMAIN ticket = Pids /\ DOMAIN frames = Pids
      /\ waiting \subseteq Pids /\ ended \subseteq Pids
  BY HomeFacts
<1>5. /\ View({p}) /\ TicketOf(p)' = 0 /\ Known(p)' = Known(p) \ {i}
      /\ \A j \in Known(p) \ {i} : SameAs(holds'[j], holds[j])
  BY <1>1, <1>4, ReleaseView
<1>6. /\ mirror'[p] = [j \in DOMAIN mirror[p] \ {i} |-> mirror[p][j]]
      /\ frames'[p] = Outer(frames[p])
      /\ \A q \in Pids \ {p} : mirror'[q] = mirror[q] /\ frames'[q] = frames[q]
      /\ DOMAIN mirror' = Pids /\ DOMAIN frames' = Pids
  BY <1>1, <1>2, <1>4 DEF Forgotten
<1>7. m \in Nat \ {0} /\ m \in 1 .. m /\ m \in Counts(p, i) /\ i \in DOMAIN mirror[p]
  <2>1. m \in Nat \ {0} /\ m \in 1 .. m /\ frames[p][m].hold = i
    BY <1>1, <1>2, <1>3, EmptySeq DEF Top
  <2>. QED
    BY <1>1, <1>3, <2>1 DEF Counts, FramesOK, Runs
<1>8. Counts(p, i) = {m}
  <2>1. IsFiniteSet(Counts(p, i)) /\ Cardinality(Counts(p, i)) = 1
    BY <1>1, <1>3, <1>7, CountsFinite DEF Copied
  <2>2. \E x : Counts(p, i) = {x}
    BY <2>1, FS_Singleton
  <2>. QED
    BY <1>7, <2>2
<1>9. \A n \in 1 .. m - 1 : n \in 1 .. m /\ frames[p][n].hold # i /\ frames[p][n].hold \in DOMAIN mirror[p]
  <2>1. \A n \in 1 .. m - 1 : n \in 1 .. m /\ n # m
    BY <1>7
  <2>. QED
    BY <1>1, <1>3, <1>8, <2>1 DEF Counts, FramesOK, Runs
<1>10. /\ frames'[p] \in Seq(OneFrame) /\ FramesOK(p)' /\ Stands(p)' /\ Runs(p)'
       /\ \A j : j # i => Counts(p, j)' = Counts(p, j)
  <2>1. \A n \in 1 .. Len(frames[p]) - 1 :
            /\ frames[p][n].hold \in DOMAIN mirror'[p]
            /\ SameAs(mirror'[p][frames[p][n].hold], mirror[p][frames[p][n].hold])
    BY <1>1, <1>6, <1>9 DEF SameAs
  <2>2. /\ TypedAt(p) /\ FramesOK(p) /\ Runs(p) /\ Stands(p) /\ frames[p] # << >>
        /\ frames'[p] = Outer(frames[p]) /\ i = Top(p).hold
    BY <1>1, <1>2, <1>3, <1>6
  <2>. QED
    BY <2>1, <2>2, FrameGoes
<1>11. /\ Notes \in Seq(Wake)
       /\ \A c \in Range(Notes) : Owned(c, h) /\ Decided(c.tid)' /\ c.call = "note"
       /\ \A u \in Woken : \E c \in Range(Notes) :
            c.call = "note" /\ c.tid = u /\ c.pid = tickets[u].pid
  BY <1>5, NotesTurn
<1>12. /\ Notes \o << >> = Notes /\ << >> \in Seq(AnyCall) /\ Len(<< >>) <= 1 /\ Range(<< >>) = {}
  BY <1>11, Empties, EmptySeq, RangeFacts
<1>13. work' = [work EXCEPT ![h] = Notes \o << >>]
  BY <1>1, <1>12
<1>14. Turn(h, Notes, << >>)
  BY <1>3, <1>11, <1>12, <1>13 DEF Turn
<1>15. PortTurn(h, Notes, << >>)
  BY <1>2, <1>3, <1>12, SamePort
<1>16. Business(p)' = {} /\ Releasing(p)' = {}
  <2>1. PICK s, t : s = Notes /\ t = << >>
    OBVIOUS
  <2>2. /\ Typed /\ h \in HomeIds /\ HomeOf[p] = h /\ s \in Seq(Wake) /\ t \in Seq(AnyCall)
        /\ t = << >> /\ work' = [work EXCEPT ![h] = s \o t]
    BY <1>1, <1>3, <1>4, <1>11, <1>13, <2>1
  <2>3. Business(p)' = {}
    BY <2>2, QuietTurn
  <2>. QED
    BY <2>3 DEF Releasing
<1>17. Mirror(p)' /\ Rests(p)'
  <2>1. Copied(p)'
    BY <1>3, <1>5, <1>6, <1>10 DEF Copied, SameAs
  <2>. QED
    BY <1>2, <1>3, <1>5, <1>6, <1>10, <1>16, <2>1 DEF Mirror, Rests
<1>18. Fine(p)' /\ TypedAt(p)'
  <2>1. Fine(p)'
    BY <1>10, <1>17, RestsIsFineNext
  <2>2. TypedAt(p)'
    BY <1>2, <1>3, <1>6, <1>10 DEF TypedAt
  <2>. QED
    BY <2>1, <2>2
<1>19. Only({p})
  BY <1>2, <1>4, <1>6 DEF Only, Aside
<1>. QED
  BY <1>1, <1>2, <1>3, <1>5, <1>12, <1>14, <1>15, <1>18, <1>19, TurnStep

-----------------------------------------------------------------------------
(* The calls of a home's thread that are no wakes. *)

\* Such a call is all that the thread has to do, of a home that is attached.
LEMMA OneHead ==
    ASSUME IInv, HomeInv, NEW h \in HomeIds, NEW c, work[h] # << >>, c = work[h][1],
           c.call \notin Wakes \cup {"discard"}
    PROVE  /\ h \in homes /\ Todo(h) = {c} /\ Tail(work[h]) = << >> /\ Owned(c, h) /\ c \in AnyCall
           /\ c.call # "detach" => ~port[h].closed
<1>1. Todo(h) = {c} /\ Tail(work[h]) = << >> /\ Owned(c, h) /\ c \in AnyCall
  BY OneCall DEF HomeInv
<1>2. h \in homes
  <2>1. Life(h)
    BY DEF HomeInv, Shapes
  <2>2. ~Gone(h) /\ ~Unborn(h)
    BY <1>1 DEF Gone, Unborn, Wakes
  <2>. QED
    BY <2>1, <2>2 DEF Life
<1>3. c.call # "detach" => ~port[h].closed
  BY <1>1, <1>2 DEF HomeInv, Shapes, Life, Alive
<1>. QED
  BY <1>1, <1>2, <1>3

\* The thread of h has the wakes s to deliver next, and then t, about processes E.
Onward(h, s, t, E) ==
    /\ s \in Seq(Wake) /\ t \in Seq(AnyCall) /\ Len(t) <= 1 /\ Then(h, s \o t)
    /\ \A d \in Range(s) : Owned(d, h) /\ Decided(d.tid)'
    /\ \A d \in Range(t) : /\ Owned(d, h) /\ d.call \notin Wakes \cup {"detach", "discard"}
                           /\ d.call \in Lone => s = << >>
                           /\ d.call \in Asked \cup {"release"} => d.pid \in E
    /\ \A u \in Woken : \E d \in Range(s) : d.call = "note" /\ d.tid = u /\ d.pid = tickets[u].pid

LEMMA OnwardFacts ==
    ASSUME IInv, HomeInv, NEW h \in HomeIds, work[h] # << >>, work[h][1].call \notin Wakes \cup {"discard"},
           NEW s, NEW t, NEW E, Onward(h, s, t, E)
    PROVE  /\ work' = [work EXCEPT ![h] = s \o t]
           /\ Todo(h)' = Range(s) \cup Range(t)
           /\ \A g \in HomeIds \ {h} : Todo(g)' = Todo(g)
           /\ \A q \in Pids : HomeOf[q] = h =>
                Business(q)' = {c \in Range(t) : c.call \in Asked \cup {"release"} /\ c.pid = q}
<1>1. PICK w, u : w = work[h] /\ u = s \o t
  OBVIOUS
<1>2. s \in Seq(Wake) /\ t \in Seq(AnyCall) /\ Then(h, u) /\ Typed
  BY <1>1 DEF Onward, HomeInv
<1>3. Tail(w) = << >>
  <2>1. PICK c : c = work[h][1]
    OBVIOUS
  <2>. QED
    BY <1>1, <2>1, OneHead
<1>4. u \in Seq(AnyCall)
  BY <1>1, <1>2, WakesAreCalls, SeqMonotonic, ConcatProperties
<1>5. u \o << >> = u
  BY <1>4, Empties
<1>6. h \in DOMAIN work
  BY <1>2 DEF Typed
<1>7. work' = [work EXCEPT ![h] = u \o Tail(w)]
  BY <1>1, <1>2, <1>6 DEF Then
<1>8. work' = [work EXCEPT ![h] = s \o t]
  BY <1>1, <1>3, <1>5, <1>7
<1>9. /\ Todo(h)' = Range(s) \cup Range(t)
      /\ \A g \in HomeIds \ {h} : Todo(g)' = Todo(g)
  BY <1>2, <1>8, TurnFacts, ZenonT(60)
<1>10. ASSUME NEW q \in Pids, HomeOf[q] = h
       PROVE  Business(q)' = {c \in Range(t) : c.call \in Asked \cup {"release"} /\ c.pid = q}
  BY <1>2, <1>8, <1>10, TurnBusiness
<1>. QED
  BY <1>8, <1>9, <1>10

\* The thread of h makes its one call.
LEMMA TurnOn ==
    ASSUME IInv, HomeInv, IInv', Bounds', NEW h \in HomeIds, NEW c, work[h] # << >>, c = work[h][1],
           c.call \notin Wakes \cup {"detach", "discard"}, NEW s, NEW t, NEW E \in SUBSET Pids,
           Onward(h, s, t, E), homes' = homes, nextHome' = nextHome, port' = port, Only(E), View(E),
           c.call \in Asked \cup {"release"} => c.pid \in E,
           \A p \in E : HomeOf[p] = h /\ TypedAt(p)' /\ Fine(p)'
    PROVE  HomeInv'
<1>1. h \in homes /\ Todo(h) = {c} /\ ~port[h].closed
  BY OneHead
<1>2. work' = [work EXCEPT ![h] = s \o t]
  BY OnwardFacts
<1>3. Turn(h, s, t)
  BY <1>1, <1>2 DEF Turn, Onward
<1>4. PortTurn(h, s, t)
  BY <1>1, SamePort DEF Onward
<1>. QED
  BY <1>1, <1>3, <1>4, TurnStep DEF Onward

\* A process that goes on asking, in whatever way.
LEMMA AskingFine ==
    ASSUME NEW p \in Pids, TypedAt(p), Fine(p), Asks(p), \A c \in Business(p) : c.call # "release",
           Same(p), mirror'[p] = mirror[p], frames'[p] = frames[p], p \in ended' <=> p \in ended,
           ticket'[p] = TicketOf(p)', ticket'[p] \in Nat \ {0},
           SameAs(tickets'[ticket'[p]], Top(p).req),
           \/ p \in waiting' /\ Business(p)' = {}
           \/ /\ p \notin waiting'
              /\ \E c : /\ Business(p)' = {c} /\ c.call \in {"park", "collect", "unwind"}
                        /\ c.call # "park" => Decided(ticket[p])',
           Reached(p)'
    PROVE  Fine(p)' /\ TypedAt(p)'
<1>1. Status(p) /\ Mirror(p) /\ frames[p] # << >> /\ Top(p).hold = 0 /\ p \notin ended
  BY FineAsks DEF Fine
<1>2. Top(p)' = Top(p)
  BY DEF Top
<1>3. FramesOK(p)' /\ Stands(p)'
  BY <1>1 DEF Status, FramesOK, Fine, Stands, StandsAt
<1>4. /\ p \in waiting' \/ (Doing(p, Asked \ {"wait"})' /\ Doing(p, Asked)')
      /\ p \in waiting' => Business(p)' = {}
      /\ \A c \in Business(p)' : c.call \notin {"wait", "release"}
      /\ Doing(p, {"collect", "unwind"})' => Decided(ticket[p])'
  <2>1. CASE p \in waiting' /\ Business(p)' = {}
    <3>1. ~Doing(p, {"collect", "unwind"})'
      BY <2>1 DEF Doing
    <3>. QED
      BY <2>1, <3>1
  <2>2. CASE ~(p \in waiting' /\ Business(p)' = {})
    <3>1. PICK c : /\ p \notin waiting' /\ Business(p)' = {c}
                   /\ c.call \in {"park", "collect", "unwind"}
                   /\ c.call # "park" => Decided(ticket[p])'
      BY <2>2
    <3>2. Doing(p, Asked \ {"wait"})' /\ Doing(p, Asked)'
      BY <3>1 DEF Doing, Asked
    <3>3. Doing(p, {"collect", "unwind"})' => Decided(ticket[p])'
      BY <3>1 DEF Doing
    <3>. QED
      BY <3>1, <3>2, <3>3
  <2>. QED
    BY <2>1, <2>2
<1>5. Status(p)'
  BY <1>1, <1>2, <1>3, <1>4 DEF Status, Asks
<1>6. Releasing(p) = {} /\ Releasing(p)' = {}
  BY <1>4 DEF Releasing
<1>7. Mirror(p)'
  <2>1. \A j : Counts(p, j)' = Counts(p, j)
    BY DEF Counts
  <2>2. Copied(p)'
    BY <1>1, <1>6, <2>1 DEF Mirror, Copied, Same, SameAs
  <2>. QED
    BY <1>1, <1>6, <2>2 DEF Mirror, Same
<1>8. TypedAt(p)'
  BY DEF TypedAt
<1>. QED
  BY <1>3, <1>5, <1>7, <1>8 DEF Fine

\* One call of a sequence of calls.
LEMMA OneAfter ==
    ASSUME NEW c \in AnyCall
    PROVE  /\ << >> \in Seq(Wake) /\ << >> \in Seq(AnyCall) /\ <<c>> \in Seq(AnyCall)
           /\ Len(<< >>) <= 1 /\ Len(<<c>>) <= 1 /\ << >> \o <<c>> = <<c>> /\ << >> \o << >> = << >>
           /\ Range(<< >>) = {} /\ Range(<<c>>) = {c}
<1>1. <<c>> \in Seq(AnyCall) /\ Len(<<c>>) = 1
  OBVIOUS
<1>2. << >> \in Seq(AnyCall) /\ << >> \in Seq(Wake) /\ Len(<< >>) = 0
  BY EmptySeq
<1>. QED
  BY <1>1, <1>2, Empties, RangeFacts

\* Whose call it is, and what p is then in the middle of.
LEMMA AskedHead ==
    ASSUME IInv, HomeInv, NEW h \in HomeIds, NEW c, work[h] # << >>, c = work[h][1],
           c.call \in Asked \cup {"release"}
    PROVE  /\ h \in homes /\ c \in AnyCall /\ c.pid \in Pids /\ HomeOf[c.pid] = h
           /\ Todo(h) = {c} /\ Business(c.pid) = {c} /\ c.pid \notin waiting /\ c.pid \notin ended
           /\ Fine(c.pid) /\ TypedAt(c.pid) /\ (c.call \in Asked => Asks(c.pid))
<1>1. c.call \notin Wakes \cup {"discard"}
  BY DEF Asked, Wakes
<1>2. h \in homes /\ Todo(h) = {c} /\ Owned(c, h) /\ c \in AnyCall
  BY <1>1, OneHead
<1>3. c.pid \in Pids /\ HomeOf[c.pid] = h
  BY <1>2, CallTypes DEF Owned
<1>4. Business(c.pid) = {c}
  BY <1>2, <1>3 DEF Business
<1>5. Fine(c.pid) /\ TypedAt(c.pid)
  BY <1>2, <1>3, HomeFacts
<1>6. c.pid \notin waiting /\ c.pid \notin ended
  BY <1>4, <1>5 DEF Fine, Status
<1>7. c.call \in Asked => Asks(c.pid)
  BY <1>4 DEF Asks, Doing
<1>. QED
  BY <1>2, <1>3, <1>4, <1>5, <1>6, <1>7

LEMMA RunWaitKeeps ==
    ASSUME IInv, HomeInv, IInv', Bounds', NEW h \in HomeIds, RunWait(h)
    PROVE  HomeInv'
<1>1. PICK c, p, r : c = work[h][1] /\ p = c.pid /\ r = c.req
  OBVIOUS
<1>2. PICK d : d = [call |-> IF nextSeq' \in Queued(tickets') THEN "park" ELSE "collect", pid |-> p]
  OBVIOUS
<1>3. /\ work[h] # << >> /\ c.call = "wait" /\ Block(p, r)
      /\ ticket' = [ticket EXCEPT ![p] = nextSeq'] /\ Then(h, <<d>>)
      /\ port' = port /\ mirror' = mirror /\ waiting' = waiting /\ ended' = ended /\ frames' = frames
      /\ homes' = homes /\ nextHome' = nextHome
  BY <1>1, <1>2 DEF RunWait, Calls, Block
<1>4. /\ h \in homes /\ c \in AnyCall /\ p \in Pids /\ HomeOf[p] = h /\ Todo(h) = {c}
      /\ Business(p) = {c} /\ p \notin waiting /\ p \notin ended /\ Fine(p) /\ TypedAt(p) /\ Asks(p)
  BY <1>1, <1>3, AskedHead DEF Asked
<1>5. /\ Typed /\ Matching /\ DOMAIN mirror = Pids /\ DOMAIN ticket = Pids /\ DOMAIN frames = Pids
      /\ waiting \subseteq Pids /\ ended \subseteq Pids
  BY HomeFacts
<1>6. r \in Requests /\ r = Top(p).req
  BY <1>1, <1>3, <1>4, CallTypes DEF Fine, Status
<1>7. PICK n : n = nextSeq'
  OBVIOUS
<1>8. /\ View({p}) /\ Same(p) /\ Woken = {} /\ n \in Nat \ {0} /\ TicketOf(p)' = n
      /\ SameAs(tickets'[n], r) /\ (n \notin Queued(tickets') => Decided(n)')
  <2>1. /\ View({p}) /\ Same(p) /\ Woken = {} /\ nextSeq' \in Nat \ {0} /\ TicketOf(p)' = nextSeq'
        /\ SameAs(tickets'[nextSeq'], r)
        /\ \A t : t = nextSeq' /\ t \notin Queued(tickets') => Decided(t)'
    BY <1>3, <1>4, <1>5, <1>6, BlockView
  <2>. QED
    BY <1>7, <2>1
<1>9. /\ d \in AnyCall /\ d.call = (IF n \in Queued(tickets') THEN "park" ELSE "collect") /\ d.pid = p
      /\ d.call \in {"park", "collect"}
  BY <1>2, <1>4, <1>7 DEF AnyCall
<1>10. /\ << >> \in Seq(Wake) /\ <<d>> \in Seq(AnyCall) /\ Len(<<d>>) <= 1
       /\ Range(<< >>) = {} /\ Range(<<d>>) = {d} /\ Then(h, << >> \o <<d>>)
  BY <1>3, <1>9, OneAfter
<1>11. c.call \notin Wakes \cup {"detach", "discard"}
  BY <1>3 DEF Wakes
<1>12. Onward(h, << >>, <<d>>, {p})
  BY <1>4, <1>8, <1>9, <1>10 DEF Onward, Owned, Wakes
<1>13. Business(p)' = {d}
  <2>1. Business(p)' = {e \in Range(<<d>>) : e.call \in Asked \cup {"release"} /\ e.pid = p}
    BY <1>1, <1>3, <1>4, <1>11, <1>12, OnwardFacts
  <2>. QED
    BY <1>9, <1>10, <2>1 DEF Asked
<1>14. ticket'[p] = n
  BY <1>3, <1>4, <1>5, <1>7
<1>15. Reached(p)'
  <2>1. n \notin Queued(tickets') => ~Doing(p, {"park"})'
    BY <1>9, <1>13 DEF Doing
  <2>. QED
    BY <1>3, <1>4, <1>14, <2>1 DEF Reached
<1>16. Decided(n)' => Decided(ticket[p])'
  BY <1>14 DEF Decided
<1>17. Fine(p)' /\ TypedAt(p)'
  <2>1. \A b \in Business(p) : b.call # "release"
    BY <1>3, <1>4
  <2>2. /\ mirror'[p] = mirror[p] /\ frames'[p] = frames[p] /\ (p \in ended' <=> p \in ended)
        /\ ticket'[p] = TicketOf(p)' /\ ticket'[p] \in Nat \ {0}
        /\ SameAs(tickets'[ticket'[p]], Top(p).req)
    BY <1>3, <1>6, <1>8, <1>14
  <2>3. /\ p \notin waiting'
        /\ Business(p)' = {d} /\ d.call \in {"park", "collect", "unwind"}
        /\ d.call # "park" => Decided(ticket[p])'
    BY <1>3, <1>4, <1>8, <1>9, <1>13, <1>16
  <2>. QED
    BY <1>4, <1>8, <1>15, <2>1, <2>2, <2>3, AskingFine
<1>18. Only({p})
  BY <1>3, <1>5 DEF Only, Aside
<1>. QED
  BY <1>1, <1>3, <1>4, <1>8, <1>11, <1>12, <1>17, <1>18, TurnOn

LEMMA RunParkKeeps ==
    ASSUME IInv, HomeInv, IInv', Bounds', NEW h \in HomeIds, RunPark(h)
    PROVE  HomeInv'
<1>1. PICK c, p : c = work[h][1] /\ p = c.pid
  OBVIOUS
<1>2. /\ work[h] # << >> /\ c.call = "park" /\ Then(h, << >>) /\ waiting' = waiting \cup {p}
      /\ UNCHANGED table /\ homes' = homes /\ nextHome' = nextHome
      /\ port' = port /\ mirror' = mirror /\ ticket' = ticket /\ ended' = ended /\ frames' = frames
  BY <1>1 DEF RunPark, Calls, table, vars
<1>3. /\ h \in homes /\ c \in AnyCall /\ p \in Pids /\ HomeOf[p] = h /\ Todo(h) = {c}
      /\ Business(p) = {c} /\ p \notin waiting /\ p \notin ended /\ Fine(p) /\ TypedAt(p) /\ Asks(p)
  BY <1>1, <1>2, AskedHead DEF Asked
<1>4. /\ Typed /\ Matching /\ DOMAIN mirror = Pids /\ DOMAIN ticket = Pids /\ DOMAIN frames = Pids
      /\ waiting \subseteq Pids /\ ended \subseteq Pids
  BY HomeFacts
<1>5. View({}) /\ Woken = {} /\ Stable(p) /\ Still
  BY <1>2, <1>3, <1>4, UnchangedIsStill, StillView
<1>6. /\ << >> \in Seq(Wake) /\ << >> \in Seq(AnyCall) /\ Len(<< >>) <= 1
      /\ Range(<< >>) = {} /\ Then(h, << >> \o << >>)
  BY <1>2, <1>3, OneAfter
<1>7. c.call \notin Wakes \cup {"detach", "discard"}
  BY <1>2 DEF Wakes
<1>8. Onward(h, << >>, << >>, {p})
  BY <1>5, <1>6 DEF Onward
<1>9. /\ Todo(h)' = {} /\ \A g \in HomeIds \ {h} : Todo(g)' = Todo(g)
  <2>1. /\ Todo(h)' = Range(<< >>) \cup Range(<< >>)
        /\ \A g \in HomeIds \ {h} : Todo(g)' = Todo(g)
    BY <1>1, <1>2, <1>7, <1>8, OnwardFacts
  <2>. QED
    BY <1>6, <2>1
<1>10. Business(p)' = {}
  BY <1>3, <1>9 DEF Business
<1>11. Reached(p)'
  <2>. SUFFICES ASSUME ticket'[p] \notin Queued(tickets')
                PROVE  Coming(p)' \/ port'[HomeOf[p]].closed
    BY DEF Reached
  <2>1. Doing(p, {"park"}) /\ ticket[p] \notin Queued(tickets)
    BY <1>2, <1>3, <1>5 DEF Doing, Still
  <2>2. CASE Coming(p)
    <3>1. \A e \in Todo(h) : e.call \notin Wakes
      BY <1>3, <1>7
    <3>2. Posts(HomeOf[p])' = Posts(HomeOf[p])
      BY <1>2 DEF Posts
    <3>. QED
      BY <1>2, <1>9, <2>2, <3>1, <3>2 DEF Coming
  <2>3. CASE ~Coming(p)
    BY <1>2, <1>3, <2>1, <2>3 DEF Fine, Reached
  <2>. QED
    BY <2>2, <2>3
<1>12. Fine(p)' /\ TypedAt(p)'
  <2>1. \A b \in Business(p) : b.call # "release"
    BY <1>2, <1>3
  <2>2. ticket[p] = TicketOf(p) /\ ticket[p] # 0 /\ SameAs(tickets[ticket[p]], Top(p).req)
    BY <1>2, <1>3 DEF Fine, Mirror, Status, Doing, Asked
  <2>3. /\ mirror'[p] = mirror[p] /\ frames'[p] = frames[p] /\ (p \in ended' <=> p \in ended)
        /\ ticket'[p] = TicketOf(p)' /\ ticket'[p] \in Nat \ {0}
        /\ SameAs(tickets'[ticket'[p]], Top(p).req) /\ Same(p)
    BY <1>2, <1>3, <1>5, <2>2 DEF Stable, Still, TypedAt
  <2>. QED
    BY <1>2, <1>3, <1>10, <1>11, <2>1, <2>3, AskingFine
<1>13. Only({p}) /\ View({p})
  BY <1>2, <1>3, <1>4, <1>5 DEF Only, Aside, View
<1>. QED
  BY <1>1, <1>2, <1>3, <1>7, <1>8, <1>12, <1>13, TurnOn

LEMMA RunCollectKeeps ==
    ASSUME IInv, HomeInv, IInv', Bounds', NEW h \in HomeIds, RunCollect(h)
    PROVE  HomeInv'
<1>1. PICK c, p : c = work[h][1] /\ p = c.pid
  OBVIOUS
<1>2. /\ work[h] # << >> /\ c.call = "collect" /\ Then(h, << >>) /\ Collect(p)
      /\ port' = port /\ waiting' = waiting /\ ended' = ended
      /\ homes' = homes /\ nextHome' = nextHome
  BY <1>1 DEF RunCollect, Calls, Collect, Resume
<1>3. /\ h \in homes /\ c \in AnyCall /\ p \in Pids /\ HomeOf[p] = h /\ Todo(h) = {c}
      /\ Business(p) = {c} /\ p \notin waiting /\ p \notin ended /\ Fine(p) /\ TypedAt(p) /\ Asks(p)
  BY <1>1, <1>2, AskedHead DEF Asked
<1>4. Typed /\ waiting \subseteq Pids /\ ended \subseteq Pids
  BY HomeFacts
<1>5. /\ << >> \in Seq(Wake) /\ << >> \in Seq(AnyCall) /\ Len(<< >>) <= 1
      /\ Range(<< >>) = {} /\ Then(h, << >> \o << >>)
  BY <1>2, <1>3, OneAfter
<1>6. c.call \notin Wakes \cup {"detach", "discard"}
  BY <1>2 DEF Wakes
<1>7. Woken = {}
  BY <1>2, <1>3, ResumeView DEF Collect, HomeInv
<1>8. Onward(h, << >>, << >>, {p})
  BY <1>5, <1>7 DEF Onward
<1>9. Business(p)' = {}
  <2>1. Business(p)' = {e \in Range(<< >>) : e.call \in Asked \cup {"release"} /\ e.pid = p}
    BY <1>1, <1>2, <1>3, <1>6, <1>8, OnwardFacts
  <2>. QED
    BY <1>5, <2>1
<1>10. View({p}) /\ Spares({p}) /\ TypedAt(p)' /\ Fine(p)'
  <2>1. \A b \in Business(p) : b.call # "release"
    BY <1>2, <1>3
  <2>. QED
    BY <1>2, <1>3, <1>9, <2>1, CollectFine
<1>11. Only({p})
  BY <1>2, <1>4, <1>10 DEF Only, Spares, Aside
<1>. QED
  BY <1>1, <1>2, <1>3, <1>6, <1>8, <1>10, <1>11, TurnOn

\* Cancelled or decided before, the ticket of a process that asks is decided.
LEMMA CancelTicketView ==
    ASSUME IInv, HomeInv, NEW p \in Pids, Fine(p), CancelTicket(p), NEW t, t = ticket[p], t # 0
    PROVE  /\ View({p}) /\ Same(p) /\ TicketOf(p) = t /\ TicketOf(p)' = t /\ Decided(t)'
           /\ SameAs(tickets'[t], Top(p).req) /\ t \in 1 .. MaxSeq
           /\ homes' = homes /\ nextHome' = nextHome
<1>1. /\ t = TicketOf(p) /\ t \in DOMAIN tickets /\ SameAs(tickets[t], Top(p).req) /\ Matching
      /\ t \in 1 .. nextSeq
  BY TypesLinks DEF Fine, Mirror, Status, HomeInv, TicketRead, TicketsOK
<1>2. t \in 1 .. MaxSeq
  <2>1. nextSeq \in Nat /\ nextSeq <= MaxSeq /\ MaxSeq \in Nat
    BY TypesLinks, BoundAssumption DEF HomeInv, Bounds
  <2>. QED
    BY <1>1, <2>1
<1>3. CASE Cancel(p)
  <2>1. /\ View({p}) /\ Same(p) /\ TicketOf(p)' = TicketOf(p)
        /\ SameAs(tickets'[TicketOf(p)], tickets[TicketOf(p)])
        /\ \A u : u = TicketOf(p) => Decided(u)'
    BY <1>1, <1>3, CancelView
  <2>2. homes' = homes /\ nextHome' = nextHome
    BY <1>3 DEF Cancel
  <2>. QED
    BY <1>1, <1>2, <2>1, <2>2 DEF SameAs
<1>4. CASE t \notin Queued(tickets) /\ UNCHANGED table
  <2>1. Still /\ homes' = homes /\ nextHome' = nextHome
    BY <1>4, UnchangedIsStill DEF table, vars
  <2>2. View({}) /\ Stable(p)
    BY <1>1, <2>1, StillView
  <2>3. Decided(t)'
    BY <1>1, <1>4, <2>1 DEF Still, Decided, Queued
  <2>4. View({p})
    BY <2>2 DEF View
  <2>. QED
    BY <1>1, <1>2, <2>1, <2>2, <2>3, <2>4 DEF Stable, Still
<1>. QED
  BY <1>3, <1>4 DEF CancelTicket

LEMMA RunThrowKeeps ==
    ASSUME IInv, HomeInv, IInv', Bounds', NEW h \in HomeIds, RunThrow(h)
    PROVE  HomeInv'
<1>1. PICK c, p, d, t : /\ c = work[h][1] /\ p = c.pid /\ d = [call |-> "unwind", pid |-> p]
                        /\ t = ticket[p]
  OBVIOUS
<1>2. /\ work[h] # << >> /\ c.call = "park" /\ Then(h, Notes \o <<d>>) /\ CancelTicket(p)
      /\ port' = port /\ mirror' = mirror /\ ticket' = ticket /\ waiting' = waiting
      /\ ended' = ended /\ frames' = frames
  BY <1>1 DEF RunThrow, Calls
<1>3. /\ h \in homes /\ c \in AnyCall /\ p \in Pids /\ HomeOf[p] = h /\ Todo(h) = {c}
      /\ Business(p) = {c} /\ p \notin waiting /\ p \notin ended /\ Fine(p) /\ TypedAt(p) /\ Asks(p)
  BY <1>1, <1>2, AskedHead DEF Asked
<1>4. /\ DOMAIN mirror = Pids /\ DOMAIN ticket = Pids /\ DOMAIN frames = Pids
      /\ waiting \subseteq Pids /\ ended \subseteq Pids
  BY HomeFacts
<1>5. t # 0 /\ t \in Nat
  BY <1>1, <1>2, <1>3 DEF Fine, Status, Doing, Asked, TypedAt
<1>6. /\ View({p}) /\ Same(p) /\ TicketOf(p)' = t /\ Decided(t)'
      /\ SameAs(tickets'[t], Top(p).req) /\ homes' = homes /\ nextHome' = nextHome
  BY <1>1, <1>2, <1>3, <1>5, CancelTicketView
<1>7. /\ Notes \in Seq(Wake)
      /\ \A e \in Range(Notes) : Owned(e, h) /\ Decided(e.tid)' /\ e.call = "note"
      /\ \A u \in Woken : \E e \in Range(Notes) :
            e.call = "note" /\ e.tid = u /\ e.pid = tickets[u].pid
  BY <1>6, NotesTurn
<1>8. d \in AnyCall /\ d.call = "unwind" /\ d.pid = p
  BY <1>1, <1>3 DEF AnyCall
<1>9. <<d>> \in Seq(AnyCall) /\ Len(<<d>>) <= 1 /\ Range(<<d>>) = {d}
  BY <1>8, OneAfter
<1>10. Onward(h, Notes, <<d>>, {p})
  BY <1>2, <1>3, <1>7, <1>8, <1>9 DEF Onward, Owned, Wakes, Lone
<1>11. c.call \notin Wakes \cup {"detach", "discard"}
  BY <1>2 DEF Wakes
<1>12. Business(p)' = {d}
  <2>1. Business(p)' = {e \in Range(<<d>>) : e.call \in Asked \cup {"release"} /\ e.pid = p}
    BY <1>1, <1>2, <1>3, <1>10, <1>11, OnwardFacts
  <2>. QED
    BY <1>8, <1>9, <2>1 DEF Asked
<1>13. Decided(ticket[p])' /\ ticket'[p] = t
  BY <1>1, <1>2, <1>6 DEF Decided
<1>14. Fine(p)' /\ TypedAt(p)'
  <2>1. \A b \in Business(p) : b.call # "release"
    BY <1>2, <1>3
  <2>2. Reached(p)'
    BY <1>2, <1>3, <1>8, <1>12 DEF Reached, Doing
  <2>3. /\ p \notin waiting'
        /\ Business(p)' = {d} /\ d.call \in {"park", "collect", "unwind"}
        /\ d.call # "park" => Decided(ticket[p])'
    BY <1>2, <1>3, <1>8, <1>12, <1>13
  <2>4. /\ mirror'[p] = mirror[p] /\ frames'[p] = frames[p] /\ (p \in ended' <=> p \in ended)
        /\ ticket'[p] = TicketOf(p)' /\ ticket'[p] \in Nat \ {0}
        /\ SameAs(tickets'[ticket'[p]], Top(p).req)
    BY <1>2, <1>5, <1>6, <1>13
  <2>. QED
    BY <1>3, <1>6, <2>1, <2>2, <2>3, <2>4, AskingFine
<1>15. Only({p})
  BY <1>2, <1>4 DEF Only, Aside
<1>. QED
  BY <1>1, <1>2, <1>3, <1>6, <1>10, <1>11, <1>14, <1>15, TurnOn, ZenonT(60)

LEMMA RunUnwindKeeps ==
    ASSUME IInv, HomeInv, IInv', Bounds', NEW h \in HomeIds, RunUnwind(h)
    PROVE  HomeInv'
<1>1. PICK c, p, t, i : c = work[h][1] /\ p = c.pid /\ t = TicketOf(p) /\ i = tickets[t].hold
  OBVIOUS
<1>2. PICK d : d = [call |-> "release", pid |-> p, hold |-> i]
  OBVIOUS
<1>3. /\ work[h] # << >> /\ c.call = "unwind" /\ Resume(p)
      /\ ticket' = [ticket EXCEPT ![p] = 0] /\ frames' = [frames EXCEPT ![p] = Outer(@)]
      /\ Then(h, IF tickets[t].state = "granted" THEN <<d>> ELSE << >>)
      /\ port' = port /\ mirror' = mirror /\ waiting' = waiting /\ ended' = ended
      /\ homes' = homes /\ nextHome' = nextHome
  BY <1>1, <1>2 DEF RunUnwind, Calls, Resume
<1>4. /\ h \in homes /\ c \in AnyCall /\ p \in Pids /\ HomeOf[p] = h /\ Todo(h) = {c}
      /\ Business(p) = {c} /\ p \notin waiting /\ p \notin ended /\ Fine(p) /\ TypedAt(p) /\ Asks(p)
  BY <1>1, <1>3, AskedHead DEF Asked
<1>5. /\ Matching /\ DOMAIN mirror = Pids /\ DOMAIN ticket = Pids /\ DOMAIN frames = Pids
      /\ waiting \subseteq Pids /\ ended \subseteq Pids
  BY HomeFacts
<1>6. /\ View({p}) /\ Woken = {} /\ holds' = holds /\ TicketOf(p)' = 0
      /\ IF tickets[t].state = "granted"
           THEN i \notin Known(p) /\ i \in Nat \ {0} /\ Known(p)' = Known(p) \cup {i}
           ELSE Known(p)' = Known(p)
  BY <1>1, <1>3, <1>4, <1>5, ResumeView
<1>7. /\ frames'[p] = Outer(frames[p]) /\ mirror'[p] = mirror[p] /\ ticket'[p] = 0
      /\ \A q \in Pids \ {p} : frames'[q] = frames[q] /\ ticket'[q] = ticket[q]
      /\ DOMAIN frames' = Pids /\ DOMAIN ticket' = Pids
  BY <1>3, <1>4, <1>5
<1>8. /\ FramesOK(p)' /\ Runs(p)' /\ Stands(p)' /\ frames'[p] \in Seq(OneFrame)
      /\ \A j \in DOMAIN mirror[p] : Counts(p, j)' = Counts(p, j)
  BY <1>4, <1>7, BareFrameGoes
<1>9. DOMAIN mirror[p] = Known(p) /\ Copied(p)
  <2>1. Releasing(p) = {}
    BY <1>3, <1>4 DEF Releasing
  <2>. QED
    BY <1>4, <2>1 DEF Fine, Mirror
<1>10. Copied(p)'
  BY <1>6, <1>7, <1>8, <1>9 DEF Copied
<1>11. c.call \notin Wakes \cup {"detach", "discard"}
  BY <1>3 DEF Wakes
<1>12. PICK s : s = IF tickets[t].state = "granted" THEN <<d>> ELSE << >>
  OBVIOUS
<1>13. /\ Onward(h, << >>, s, {p}) /\ Range(s) = (IF tickets[t].state = "granted" THEN {d} ELSE {})
       /\ tickets[t].state = "granted" => d.call = "release" /\ d.pid = p /\ d.hold = i
  <2>1. CASE tickets[t].state = "granted"
    <3>1. d \in AnyCall /\ d.call = "release" /\ d.pid = p /\ d.hold = i /\ Owned(d, h)
      BY <1>2, <1>4, <1>6, <2>1 DEF AnyCall, Owned
    <3>2. /\ << >> \in Seq(Wake) /\ s \in Seq(AnyCall) /\ Len(s) <= 1
          /\ Range(<< >>) = {} /\ Range(s) = {d} /\ Then(h, << >> \o s)
      BY <1>3, <1>12, <2>1, <3>1, OneAfter
    <3>. QED
      BY <1>6, <2>1, <3>1, <3>2 DEF Onward, Wakes
  <2>2. CASE tickets[t].state # "granted"
    <3>1. /\ << >> \in Seq(Wake) /\ s \in Seq(AnyCall) /\ Len(s) <= 1
          /\ Range(<< >>) = {} /\ Range(s) = {} /\ Then(h, << >> \o s)
      BY <1>3, <1>4, <1>12, <2>2, OneAfter
    <3>. QED
      BY <1>6, <2>2, <3>1 DEF Onward
  <2>. QED
    BY <2>1, <2>2
<1>14. /\ \A e \in Business(p)' : e.call = "release"
       /\ Releasing(p)' = (IF tickets[t].state = "granted" THEN {i} ELSE {})
  <2>1. Business(p)' = {e \in Range(s) : e.call \in Asked \cup {"release"} /\ e.pid = p}
    <3>1. PICK w, E : w = << >> /\ E = {p}
      OBVIOUS
    <3>2. /\ work[h] # << >> /\ work[h][1].call \notin Wakes \cup {"discard"}
          /\ Onward(h, w, s, E) /\ HomeOf[p] = h /\ p \in Pids
      BY <1>1, <1>3, <1>4, <1>11, <1>13, <3>1
    <3>. QED
      BY <3>2, OnwardFacts
  <2>2. Business(p)' = (IF tickets[t].state = "granted" THEN {d} ELSE {})
    BY <1>13, <2>1
  <2>. QED
    BY <1>13, <2>2 DEF Releasing
<1>15. Mirror(p)' /\ Rests(p)'
  <2>1. DOMAIN mirror[p] = Known(p)' \ Releasing(p)' /\ Releasing(p)' \subseteq Known(p)'
    BY <1>6, <1>9, <1>14
  <2>. QED
    BY <1>3, <1>4, <1>6, <1>7, <1>8, <1>10, <1>14, <2>1 DEF Mirror, Rests
<1>16. Fine(p)' /\ TypedAt(p)'
  <2>1. Fine(p)'
    BY <1>4, <1>8, <1>15, RestsIsFineNext
  <2>2. TypedAt(p)'
    BY <1>4, <1>7, <1>8 DEF TypedAt
  <2>. QED
    BY <2>1, <2>2
<1>17. Only({p})
  BY <1>3, <1>5, <1>7 DEF Only, Aside
<1>. QED
  BY <1>1, <1>3, <1>4, <1>6, <1>11, <1>13, <1>16, <1>17, TurnOn, ZenonT(60)

LEMMA RunReleaseKeeps ==
    ASSUME IInv, HomeInv, IInv', Bounds', NEW h \in HomeIds, RunRelease(h)
    PROVE  HomeInv'
<1>1. PICK c, p, i : c = work[h][1] /\ p = c.pid /\ i = c.hold
  OBVIOUS
<1>2. /\ work[h] # << >> /\ c.call = "release" /\ Release(p, i) /\ Then(h, Notes)
      /\ port' = port /\ mirror' = mirror /\ ticket' = ticket /\ waiting' = waiting
      /\ ended' = ended /\ frames' = frames /\ homes' = homes /\ nextHome' = nextHome
  BY <1>1 DEF RunRelease, Calls, Release
<1>3. /\ h \in homes /\ c \in AnyCall /\ p \in Pids /\ HomeOf[p] = h /\ Todo(h) = {c}
      /\ Business(p) = {c} /\ p \notin waiting /\ p \notin ended /\ Fine(p) /\ TypedAt(p)
  BY <1>1, <1>2, AskedHead
<1>4. /\ Matching /\ DOMAIN mirror = Pids /\ DOMAIN ticket = Pids /\ DOMAIN frames = Pids
      /\ waiting \subseteq Pids /\ ended \subseteq Pids
  BY HomeFacts
<1>5. /\ View({p}) /\ TicketOf(p)' = 0 /\ Known(p)' = Known(p) \ {i}
      /\ \A j \in Known(p) \ {i} : SameAs(holds'[j], holds[j])
  BY <1>2, <1>3, <1>4, ReleaseView
<1>6. ~Asks(p) /\ Releasing(p) = {i}
  BY <1>1, <1>2, <1>3 DEF Asks, Doing, Asked, Releasing
<1>7. Runs(p) /\ ticket[p] = 0 /\ FramesOK(p) /\ frames[p] \in Seq(OneFrame)
  BY <1>3, <1>6, FineRests
<1>8. DOMAIN mirror[p] = Known(p) \ {i} /\ Copied(p)
  BY <1>3, <1>6 DEF Fine, Mirror
<1>9. /\ Notes \in Seq(Wake)
      /\ \A e \in Range(Notes) : Owned(e, h) /\ Decided(e.tid)' /\ e.call = "note"
      /\ \A u \in Woken : \E e \in Range(Notes) :
            e.call = "note" /\ e.tid = u /\ e.pid = tickets[u].pid
  BY <1>5, NotesTurn
<1>10. /\ Then(h, Notes \o << >>) /\ << >> \in Seq(AnyCall) /\ Len(<< >>) <= 1 /\ Range(<< >>) = {}
  BY <1>2, <1>9, Empties, EmptySeq, RangeFacts
<1>11. Onward(h, Notes, << >>, {p})
  BY <1>9, <1>10 DEF Onward
<1>12. c.call \notin Wakes \cup {"detach", "discard"}
  BY <1>2 DEF Wakes
<1>13. Business(p)' = {} /\ Releasing(p)' = {}
  <2>1. Business(p)' = {e \in Range(<< >>) : e.call \in Asked \cup {"release"} /\ e.pid = p}
    BY <1>1, <1>2, <1>3, <1>11, <1>12, OnwardFacts
  <2>2. Business(p)' = {}
    BY <1>10, <2>1
  <2>. QED
    BY <2>2 DEF Releasing
<1>14. /\ FramesOK(p)' /\ Runs(p)' /\ Stands(p)' /\ Copied(p)'
  <2>1. Stands(p)
    BY <1>3 DEF Fine
  <2>2. FramesOK(p)' /\ Runs(p)' /\ Stands(p)'
    BY <1>2, <1>7, <2>1 DEF FramesOK, Runs, Stands, StandsAt
  <2>3. \A j : Counts(p, j)' = Counts(p, j)
    BY <1>2 DEF Counts
  <2>4. Copied(p)'
    BY <1>2, <1>5, <1>8, <2>3 DEF Copied, SameAs
  <2>. QED
    BY <2>2, <2>4
<1>15. Mirror(p)' /\ Rests(p)'
  BY <1>2, <1>3, <1>5, <1>7, <1>8, <1>13, <1>14 DEF Mirror, Rests
<1>16. Fine(p)' /\ TypedAt(p)'
  <2>1. Fine(p)'
    BY <1>3, <1>14, <1>15, RestsIsFineNext
  <2>2. TypedAt(p)'
    BY <1>2, <1>3 DEF TypedAt
  <2>. QED
    BY <2>1, <2>2
<1>17. Only({p})
  BY <1>2, <1>4 DEF Only, Aside
<1>. QED
  BY <1>1, <1>2, <1>3, <1>5, <1>11, <1>12, <1>16, <1>17, TurnOn

\* The rest of a list of deadlines that have passed.
LEMMA ExpireRest ==
    ASSUME NEW h, NEW others, others \subseteq Pids, \A p \in others : HomeOf[p] = h, NEW t,
           t = IF others = {} THEN << >> ELSE <<[call |-> "expire", pids |-> others]>>
    PROVE  /\ t \in Seq(AnyCall) /\ Len(t) <= 1
           /\ \A d \in Range(t) : d.call = "expire" /\ Owned(d, h)
<1>1. CASE others = {}
  BY <1>1, EmptySeq, RangeFacts
<1>2. CASE others # {}
  <2>1. PICK d : d = [call |-> "expire", pids |-> others]
    OBVIOUS
  <2>2. d \in AnyCall /\ d.call = "expire" /\ d.pids = others
    BY <1>2, <2>1 DEF AnyCall
  <2>3. Owned(d, h)
    BY <2>2 DEF Owned, Asked
  <2>4. t = <<d>>
    BY <1>2, <2>1
  <2>. QED
    BY <2>2, <2>3, <2>4, OneAfter
<1>. QED
  BY <1>1, <1>2

LEMMA RunExpireKeeps ==
    ASSUME IInv, HomeInv, IInv', Bounds', NEW h \in HomeIds, RunExpire(h)
    PROVE  HomeInv'
<1>1. PICK c : c = work[h][1]
  OBVIOUS
<1>2. PICK p, others, rest, wake :
        /\ p \in c.pids /\ others = c.pids \ {p}
        /\ rest = (IF others = {} THEN << >> ELSE <<[call |-> "expire", pids |-> others]>>)
        /\ wake = [call |-> "wake", pid |-> p, tid |-> ticket[p]]
        /\ \/ p \notin waiting /\ Then(h, rest) /\ UNCHANGED table
           \/ p \in waiting /\ CancelTicket(p) /\ Then(h, Notes \o <<wake>> \o rest)
  BY <1>1 DEF RunExpire
<1>3. /\ work[h] # << >> /\ c.call = "expire"
      /\ port' = port /\ mirror' = mirror /\ ticket' = ticket /\ waiting' = waiting
      /\ ended' = ended /\ frames' = frames
  BY <1>1 DEF RunExpire, Calls
<1>4. /\ c.call \notin Wakes \cup {"detach", "discard"}
      /\ c.call \notin Asked \cup {"release"}
  BY <1>3 DEF Wakes, Asked
<1>5. /\ h \in homes /\ c.pids \subseteq Pids /\ (\A q \in c.pids : HomeOf[q] = h) /\ Todo(h) = {c}
  <2>1. h \in homes /\ Todo(h) = {c} /\ Owned(c, h) /\ c \in AnyCall
    BY <1>1, <1>3, <1>4, OneHead
  <2>. QED
    BY <1>3, <2>1, CallTypes DEF Owned
<1>6. /\ Matching /\ DOMAIN mirror = Pids /\ DOMAIN ticket = Pids /\ DOMAIN frames = Pids
      /\ waiting \subseteq Pids /\ ended \subseteq Pids
  BY HomeFacts
<1>7. /\ rest \in Seq(AnyCall) /\ Len(rest) <= 1
      /\ \A d \in Range(rest) : d.call = "expire" /\ Owned(d, h)
  BY <1>2, <1>5, ExpireRest
<1>8. \A d \in Range(rest) :
        /\ d.call \notin Wakes \cup {"detach", "discard"} /\ d.call \notin Lone
        /\ d.call \notin Asked \cup {"release"}
  BY <1>7 DEF Wakes, Lone, Asked
<1>9. \A E \in SUBSET Pids : Only(E)
  BY <1>3, <1>6 DEF Only, Aside
<1>10. CASE p \notin waiting /\ Then(h, rest) /\ UNCHANGED table
  <2>1. Still /\ homes' = homes /\ nextHome' = nextHome
    BY <1>10, UnchangedIsStill DEF table, vars
  <2>2. View({}) /\ Woken = {}
    BY <1>6, <2>1, StillView
  <2>3. << >> \in Seq(Wake) /\ Range(<< >>) = {} /\ Then(h, << >> \o rest)
    BY <1>7, <1>10, Empties, EmptySeq, RangeFacts
  <2>4. Onward(h, << >>, rest, {})
    BY <1>7, <1>8, <2>2, <2>3 DEF Onward
  <2>5. {} \in SUBSET Pids /\ Only({})
    BY <1>9
  <2>. QED
    BY <1>1, <1>3, <1>4, <2>1, <2>2, <2>4, <2>5, TurnOn
<1>11. CASE p \in waiting /\ CancelTicket(p) /\ Then(h, Notes \o <<wake>> \o rest)
  <2>1. p \in Pids /\ HomeOf[p] = h /\ Fine(p) /\ TypedAt(p) /\ Asks(p)
    BY <1>2, <1>5, <1>11, HomeFacts DEF Asks
  <2>2. PICK t : t = ticket[p]
    OBVIOUS
  <2>3. t # 0 /\ t \in Nat /\ Business(p) = {}
    BY <1>11, <2>1, <2>2 DEF Fine, Status, TypedAt
  <2>4. /\ View({p}) /\ Same(p) /\ TicketOf(p)' = t /\ Decided(t)' /\ t \in 1 .. MaxSeq
        /\ SameAs(tickets'[t], Top(p).req) /\ homes' = homes /\ nextHome' = nextHome
    BY <1>11, <2>1, <2>2, <2>3, CancelTicketView
  <2>5. /\ Notes \in Seq(Wake)
        /\ \A e \in Range(Notes) : Owned(e, h) /\ Decided(e.tid)' /\ e.call = "note"
        /\ \A u \in Woken : \E e \in Range(Notes) :
              e.call = "note" /\ e.tid = u /\ e.pid = tickets[u].pid
    BY <2>4, NotesTurn
  <2>6. wake \in Wake /\ wake.call = "wake" /\ wake.pid = p /\ wake.tid = t /\ Owned(wake, h)
    BY <1>2, <2>1, <2>2, <2>4 DEF Wake, Owned
  <2>7. PICK s : s = Notes \o <<wake>>
    OBVIOUS
  <2>8. s \in Seq(Wake) /\ Range(s) = Range(Notes) \cup {wake} /\ Then(h, s \o rest)
    <3>1. <<wake>> \in Seq(Wake) /\ Range(<<wake>>) = {wake}
      BY <2>6, RangeFacts
    <3>2. s \in Seq(Wake)
      BY <2>5, <2>7, <3>1, ConcatProperties
    <3>3. PICK m, x \in Seq(Wake) : m = Notes /\ x = <<wake>>
      BY <2>5, <3>1
    <3>4. Range(m \o x) = Range(m) \cup Range(x)
      BY RangeConcatenation
    <3>5. Range(s) = Range(Notes) \cup Range(<<wake>>)
      BY <2>7, <3>3, <3>4
    <3>. QED
      BY <1>11, <2>7, <3>1, <3>2, <3>5
  <2>9. Decided(wake.tid)'
    <3>1. wake.tid = t
      BY <2>6
    <3>. QED
      BY <2>4, <3>1
  <2>10. Onward(h, s, rest, {p})
    BY <1>7, <1>8, <2>5, <2>6, <2>8, <2>9 DEF Onward
  <2>11. Business(p)' = {} /\ wake \in Todo(h)'
    <3>1. /\ Business(p)' = {e \in Range(rest) : e.call \in Asked \cup {"release"} /\ e.pid = p}
          /\ Todo(h)' = Range(s) \cup Range(rest)
      BY <1>1, <1>3, <1>4, <2>1, <2>10, OnwardFacts
    <3>. QED
      BY <1>8, <2>8, <3>1
  <2>12. Reached(p)'
    <3>1. ticket'[p] = t
      BY <1>3, <2>2
    <3>2. Coming(p)'
      BY <2>6, <2>11, <3>1 DEF Coming, Wakes
    <3>. QED
      BY <3>2 DEF Reached
  <2>13. Fine(p)' /\ TypedAt(p)'
    <3>1. \A b \in Business(p) : b.call # "release"
      BY <2>3
    <3>2. p \in waiting' /\ Business(p)' = {}
      BY <1>3, <1>11, <2>11
    <3>3. /\ mirror'[p] = mirror[p] /\ frames'[p] = frames[p] /\ (p \in ended' <=> p \in ended)
          /\ ticket'[p] = TicketOf(p)' /\ ticket'[p] \in Nat \ {0}
          /\ SameAs(tickets'[ticket'[p]], Top(p).req)
      BY <1>3, <2>2, <2>3, <2>4
    <3>. QED
      BY <2>1, <2>4, <2>12, <3>1, <3>2, <3>3, AskingFine
  <2>14. {p} \in SUBSET Pids /\ Only({p})
    BY <1>9, <2>1
  <2>. QED
    BY <1>1, <1>3, <1>4, <2>1, <2>4, <2>10, <2>13, <2>14, TurnOn
<1>. QED
  BY <1>2, <1>10, <1>11

-----------------------------------------------------------------------------
(* What a home's thread does when it has nothing else to do. *)

LEMMA IdleFacts ==
    ASSUME IInv, HomeInv, NEW h \in HomeIds, Idle(h)
    PROVE  /\ h \in homes /\ work[h] = << >> /\ Todo(h) = {} /\ ~port[h].closed
           /\ PortTyped(h) /\ DOMAIN port = HomeIds
BY Heads DEF Idle, HomeInv, Typed

\* The table, the mirrors and the frames stay.
LEMMA QuietView ==
    ASSUME IInv, HomeInv, UNCHANGED <<table, mirror, ticket, waiting, ended, frames>>
    PROVE  /\ View({}) /\ Woken = {} /\ Only({}) /\ homes' = homes /\ nextHome' = nextHome
           /\ \A u : Decided(u) => Decided(u)'
<1>1. Matching /\ Still /\ homes' = homes /\ nextHome' = nextHome
  BY HomeFacts, UnchangedIsStill DEF table, vars
<1>2. View({}) /\ Woken = {} /\ Forward
  BY <1>1, StillView
<1>3. Only({})
  BY HomeFacts DEF Only, Aside
<1>. QED
  BY <1>1, <1>2, <1>3 DEF Forward

LEMMA DrainKeeps ==
    ASSUME IInv, HomeInv, IInv', Bounds', NEW h \in HomeIds, DrainPort(h)
    PROVE  HomeInv'
<1>1. PICK s : s = port[h].posts
  OBVIOUS
<1>2. /\ Idle(h) /\ work' = [work EXCEPT ![h] = s] /\ port' = [port EXCEPT ![h].posts = << >>]
      /\ UNCHANGED <<table, mirror, ticket, waiting, ended, frames>>
  BY <1>1 DEF DrainPort
<1>3. /\ h \in homes /\ Todo(h) = {} /\ ~port[h].closed /\ PortTyped(h) /\ DOMAIN port = HomeIds
  BY <1>2, IdleFacts
<1>4. /\ View({}) /\ Woken = {} /\ Only({}) /\ homes' = homes /\ nextHome' = nextHome
      /\ \A u : Decided(u) => Decided(u)'
  BY <1>2, QuietView
<1>5. /\ s \in Seq(Wake) /\ s \o << >> = s /\ << >> \in Seq(AnyCall) /\ Len(<< >>) <= 1
      /\ Range(<< >>) = {}
  BY <1>1, <1>3, Empties, EmptySeq, RangeFacts DEF PortTyped
<1>6. \A c \in Range(s) : Owned(c, h) /\ Decided(c.tid)'
  <2>1. \A c \in Posts(h) : c.call = "wake" /\ HomeOf[c.pid] = h /\ Decided(c.tid)
    BY DEF HomeInv, Shapes, Shape, Timely
  <2>. QED
    BY <1>1, <1>4, <2>1 DEF Posts, Owned
<1>7. work' = [work EXCEPT ![h] = s \o << >>]
  BY <1>2, <1>5
<1>8. Turn(h, s, << >>)
  BY <1>3, <1>4, <1>5, <1>6, <1>7 DEF Turn
<1>9. PortTurn(h, s, << >>)
  <2>1. /\ DOMAIN port' = HomeIds /\ \A g \in HomeIds \ {h} : port'[g] = port[g]
        /\ port'[h] = [port[h] EXCEPT !.posts = << >>]
    BY <1>2, <1>3
  <2>2. port'[h] = [closed |-> port[h].closed, posts |-> << >>]
    BY <1>3, <2>1 DEF PortTyped
  <2>3. << >> \in Seq(Wake)
    BY EmptySeq
  <2>4. Posts(h)' = {} /\ Posts(h) = Range(s)
    BY <1>1, <2>2, RangeFacts DEF Posts
  <2>. QED
    BY <1>3, <1>5, <2>1, <2>2, <2>3, <2>4 DEF PortTurn, PortTyped
<1>. QED
  BY <1>3, <1>4, <1>5, <1>8, <1>9, TurnStep

LEMMA WakeDueKeeps ==
    ASSUME IInv, HomeInv, IInv', Bounds', NEW h \in HomeIds, WakeDue(h)
    PROVE  HomeInv'
<1>1. PICK E \in (SUBSET {p \in waiting : HomeOf[p] = h}) \ {{}} :
        work' = [work EXCEPT ![h] = <<[call |-> "expire", pids |-> E]>>]
  BY DEF WakeDue
<1>2. PICK c : c = [call |-> "expire", pids |-> E]
  OBVIOUS
<1>3. /\ Idle(h) /\ work' = [work EXCEPT ![h] = <<c>>] /\ port' = port
      /\ UNCHANGED <<table, mirror, ticket, waiting, ended, frames>>
  BY <1>1, <1>2 DEF WakeDue
<1>4. /\ h \in homes /\ Todo(h) = {} /\ ~port[h].closed
  BY <1>3, IdleFacts
<1>5. View({}) /\ Woken = {} /\ Only({}) /\ homes' = homes /\ nextHome' = nextHome
  BY <1>3, QuietView
<1>6. c \in AnyCall /\ c.call = "expire" /\ Owned(c, h)
  <2>1. c.call = "expire" /\ c.pids = E /\ E \in (SUBSET Pids) \ {{}}
    BY <1>1, <1>2, HomeFacts
  <2>. QED
    BY <1>1, <1>2, <2>1 DEF AnyCall, Owned, Asked
<1>7. /\ << >> \in Seq(Wake) /\ <<c>> \in Seq(AnyCall) /\ Len(<<c>>) <= 1 /\ << >> \o <<c>> = <<c>>
      /\ Range(<< >>) = {} /\ Range(<<c>>) = {c}
  BY <1>6, OneAfter
<1>8. Turn(h, << >>, <<c>>)
  BY <1>3, <1>4, <1>5, <1>6, <1>7 DEF Turn, Wakes, Lone
<1>9. PortTurn(h, << >>, <<c>>)
  BY <1>3, <1>4, <1>6, <1>7, SamePort
<1>10. \A d \in Todo(h) \cup Range(<<c>>) : d.call \notin Asked \cup {"release"}
  BY <1>4, <1>6, <1>7 DEF Asked
<1>. QED
  BY <1>4, <1>5, <1>8, <1>9, <1>10, TurnStep

LEMMA DestroyKeeps ==
    ASSUME IInv, HomeInv, IInv', Bounds', NEW h \in HomeIds, Destroy(h)
    PROVE  HomeInv'
<1>1. PICK c : c = [call |-> "detach"]
  OBVIOUS
<1>2. /\ Idle(h) /\ work' = [work EXCEPT ![h] = <<c>>] /\ port' = [port EXCEPT ![h].closed = TRUE]
      /\ UNCHANGED <<table, mirror, ticket, waiting, ended, frames>>
  BY <1>1 DEF Destroy
<1>3. /\ h \in homes /\ Todo(h) = {} /\ PortTyped(h) /\ DOMAIN port = HomeIds
  BY <1>2, IdleFacts
<1>4. View({}) /\ Woken = {} /\ Only({}) /\ homes' = homes /\ nextHome' = nextHome
  BY <1>2, QuietView
<1>5. c \in AnyCall /\ c.call = "detach" /\ Owned(c, h)
  BY <1>1 DEF AnyCall, Owned, Asked
<1>6. /\ << >> \in Seq(Wake) /\ <<c>> \in Seq(AnyCall) /\ Len(<<c>>) <= 1 /\ << >> \o <<c>> = <<c>>
      /\ Range(<< >>) = {} /\ Range(<<c>>) = {c}
  BY <1>5, OneAfter
<1>7. Turn(h, << >>, <<c>>)
  BY <1>2, <1>3, <1>4, <1>5, <1>6 DEF Turn, Wakes
<1>8. PortTurn(h, << >>, <<c>>)
  <2>1. /\ DOMAIN port' = HomeIds /\ \A g \in HomeIds \ {h} : port'[g] = port[g]
        /\ port'[h] = [port[h] EXCEPT !.closed = TRUE]
    BY <1>2, <1>3
  <2>2. port'[h] = [closed |-> TRUE, posts |-> port[h].posts]
    BY <1>3, <2>1 DEF PortTyped
  <2>3. Posts(h)' = Posts(h)
    BY <2>2 DEF Posts
  <2>. QED
    BY <1>3, <1>5, <1>6, <2>1, <2>2, <2>3 DEF PortTurn, PortTyped
<1>9. \A d \in Todo(h) \cup Range(<<c>>) : d.call \notin Asked \cup {"release"}
  BY <1>3, <1>5, <1>6 DEF Asked
<1>. QED
  BY <1>3, <1>4, <1>7, <1>8, <1>9, TurnStep

-----------------------------------------------------------------------------
(* Wakes, applied or passed on. *)

\* An attached home applies a wake: it ends the wait, or it is stale.
LEMMA WakeApplied ==
    ASSUME IInv, HomeInv, IInv', Bounds', NEW h \in HomeIds, NEW c, work[h] # << >>, c = work[h][1],
           c.call \in Wakes, HomeOf[c.pid] = h, c.call = "note" => h \in homes,
           ApplyWake(c.pid, c.tid), Then(h, << >>), port' = port, ended' = ended
    PROVE  HomeInv'
<1>1. PICK p : p = c.pid
  OBVIOUS
<1>2. /\ Typed /\ Matching /\ Shapes /\ DOMAIN mirror = Pids /\ DOMAIN ticket = Pids
      /\ DOMAIN frames = Pids /\ waiting \subseteq Pids /\ ended \subseteq Pids
  BY HomeFacts
<1>3. c \in Todo(h) /\ c \in AnyCall
  BY <1>2, Heads
<1>4. p \in Pids /\ HomeOf[p] = h
  BY <1>1, <1>3, CallTypes
<1>5. h \in homes
  <2>1. Life(h)
    BY DEF HomeInv, Shapes
  <2>2. ~Gone(h) \/ h \in homes
    BY <1>3 DEF Gone, Wakes
  <2>3. ~Unborn(h)
    BY DEF Unborn
  <2>. QED
    BY <2>1, <2>2, <2>3 DEF Life
<1>6. Fine(p) /\ TypedAt(p)
  BY <1>4, <1>5, HomeFacts
<1>7. /\ \A q \in Pids : Business(q)' = Business(q)
      /\ \A d \in Todo(h) : d.call \notin Lone
  BY <1>2, PopFacts
<1>8. PortPop(c)
  BY <1>2 DEF PortPop, Typed, PortTyped, Posts
<1>9. CASE Current(p, c.tid) /\ Collect(p) /\ waiting' = waiting \ {p}
  <2>1. p \in waiting /\ Asks(p) /\ Business(p) = {}
    BY <1>6, <1>9 DEF Current, Asks, Fine, Status
  <2>2. p \notin waiting' /\ Business(p)' = {} /\ (p \in ended' <=> p \in ended)
    BY <1>4, <1>7, <1>9, <2>1
  <2>3. View({p}) /\ Woken = {} /\ Spares({p}) /\ TypedAt(p)' /\ Fine(p)'
    BY <1>4, <1>5, <1>9, <2>1, <2>2, CollectFine
  <2>4. Only({p})
    BY <1>2, <1>9, <2>3 DEF Only, Spares, Aside
  <2>5. homes' = homes /\ nextHome' = nextHome
    BY <1>9 DEF Collect, Resume
  <2>. QED
    BY <1>1, <1>4, <1>5, <1>8, <2>3, <2>4, <2>5, PopStep
<1>10. CASE ~Current(p, c.tid) /\ UNCHANGED <<table, mirror, ticket, waiting, frames>>
  <2>1. View({}) /\ Woken = {} /\ Only({}) /\ homes' = homes /\ nextHome' = nextHome
    BY <1>10, QuietView
  <2>2. ~(c.tid = ticket[p] /\ (p \in waiting \/ Doing(p, {"park"})))
    <3>. SUFFICES ASSUME c.tid = ticket[p], p \in waiting \/ Doing(p, {"park"}) PROVE FALSE
      OBVIOUS
    <3>1. ~Doing(p, {"park"})
      BY <1>4, <1>7 DEF Doing, Business, Lone
    <3>2. p \in waiting /\ p \in ended
      BY <1>10, <3>1 DEF Current
    <3>3. Asks(p)
      BY <3>2 DEF Asks
    <3>. QED
      BY <1>4, <1>6, <3>2, <3>3, FineAsks
  <2>3. \A q \in Pids \ {} :
            ~((q \in waiting \/ Doing(q, {"park"})) /\ c.pid = q /\ c.tid = ticket[q])
    BY <1>1, <2>2
  <2>. QED
    BY <1>8, <2>1, <2>3, PopStep
<1>. QED
  BY <1>1, <1>9, <1>10 DEF ApplyWake

LEMMA RunWakeKeeps ==
    ASSUME IInv, HomeInv, IInv', Bounds', NEW h \in HomeIds, RunWake(h)
    PROVE  HomeInv'
<1>1. PICK c : c = work[h][1]
  OBVIOUS
<1>2. /\ work[h] # << >> /\ c.call = "wake" /\ ApplyWake(c.pid, c.tid) /\ Then(h, << >>)
      /\ port' = port /\ ended' = ended
  BY <1>1 DEF RunWake, Calls
<1>3. HomeOf[c.pid] = h
  <2>1. Row(work[h], h) /\ 1 \in 1 .. Len(work[h])
    <3>1. Len(work[h]) \in Nat \ {0}
      BY <1>2, HomeFacts, Heads
    <3>. QED
      BY <3>1 DEF HomeInv, Shapes, Shape
  <2>. QED
    BY <1>1, <1>2, <2>1 DEF Row, Owned
<1>. QED
  BY <1>1, <1>2, <1>3, WakeApplied DEF Wakes

LEMMA RunNoteKeeps ==
    ASSUME IInv, HomeInv, IInv', Bounds', NEW h \in HomeIds, RunNote(h)
    PROVE  HomeInv'
<1>1. PICK c, p, g : c = work[h][1] /\ p = c.pid /\ g = HomeOf[p]
  OBVIOUS
<1>2. PICK d : d = [call |-> "wake", pid |-> p, tid |-> c.tid]
  OBVIOUS
<1>3. /\ work[h] # << >> /\ c.call = "note" /\ Then(h, << >>) /\ ended' = ended
      /\ \/ g = h /\ ApplyWake(p, c.tid) /\ port' = port
         \/ /\ g # h
            /\ port' = IF port[g].closed THEN port ELSE [port EXCEPT ![g].posts = Append(@, d)]
            /\ UNCHANGED <<table, mirror, ticket, waiting, frames>>
  BY <1>1, <1>2 DEF RunNote, Calls
<1>4. Typed /\ c \in Todo(h) /\ c \in AnyCall
  BY <1>1, <1>3, HomeFacts, Heads
<1>5. c \in Wake /\ p \in Pids /\ c.tid \in 1 .. MaxSeq /\ g \in HomeIds
  BY <1>1, <1>3, <1>4, CallTypes, HomeAssumption DEF Wakes
<1>6. g < nextHome
  <2>1. Row(work[h], h) /\ 1 \in 1 .. Len(work[h])
    <3>1. Len(work[h]) \in Nat \ {0}
      BY <1>3, <1>4, Heads
    <3>. QED
      BY <3>1 DEF HomeInv, Shapes, Shape
  <2>. QED
    BY <1>1, <1>3, <2>1 DEF Row, Owned
<1>7. CASE g = h /\ ApplyWake(p, c.tid) /\ port' = port
  <2>1. h \in homes
    <3>1. Life(h)
      BY DEF HomeInv, Shapes
    <3>2. ~Gone(h)
      BY <1>1, <1>3, <1>4, <1>7 DEF Gone
    <3>3. ~Unborn(h)
      BY <1>3 DEF Unborn
    <3>. QED
      BY <3>1, <3>2, <3>3 DEF Life
  <2>. QED
    BY <1>1, <1>3, <1>7, <2>1, WakeApplied DEF Wakes
<1>8. CASE /\ g # h
           /\ port' = IF port[g].closed THEN port ELSE [port EXCEPT ![g].posts = Append(@, d)]
           /\ UNCHANGED <<table, mirror, ticket, waiting, frames>>
  <2>1. View({}) /\ Woken = {} /\ Only({}) /\ homes' = homes /\ nextHome' = nextHome
    BY <1>3, <1>8, QuietView
  <2>2. d \in Wake /\ d.call = "wake" /\ d.pid = p /\ d.tid = c.tid
    BY <1>2, <1>5 DEF Wake
  <2>3. /\ PortPop(c)
        /\ port[g].closed \/ d \in Posts(g)'
    <3>1. CASE port[g].closed
      BY <1>4, <1>8, <3>1 DEF PortPop, Typed, PortTyped, Posts
    <3>2. CASE ~port[g].closed
      <4>1. /\ DOMAIN port' = HomeIds /\ \A f \in HomeIds \ {g} : port'[f] = port[f]
            /\ port'[g] = [port[g] EXCEPT !.posts = Append(@, d)]
        BY <1>4, <1>5, <1>8, <3>2 DEF Typed
      <4>2. PICK s : s = port[g].posts
        OBVIOUS
      <4>3. s \in Seq(Wake) /\ PortTyped(g)
        BY <1>4, <1>5, <4>2 DEF Typed, PortTyped
      <4>4. port'[g] = [closed |-> port[g].closed, posts |-> Append(s, d)]
        BY <4>1, <4>2, <4>3 DEF PortTyped
      <4>5. Append(s, d) \in Seq(Wake) /\ Range(Append(s, d)) = Range(s) \cup {d}
        <5>1. Append(s, d) \in Seq(Wake) /\ Append(s, d) = s \o <<d>>
          BY <2>2, <4>3, AppendIsConcat
        <5>2. <<d>> \in Seq(Wake) /\ Range(<<d>>) = {d}
          BY <2>2, RangeFacts
        <5>3. PICK x \in Seq(Wake) : x = <<d>>
          BY <5>2
        <5>4. Range(s \o x) = Range(s) \cup Range(x)
          BY <4>3, RangeConcatenation
        <5>. QED
          BY <5>1, <5>2, <5>3, <5>4
      <4>6. Posts(g)' = Posts(g) \cup {d} /\ Posts(g) = Range(s)
        BY <4>2, <4>4, <4>5 DEF Posts
      <4>7. \A f \in HomeIds \ {g} : PortTyped(f)' /\ Posts(f)' = Posts(f)
        BY <1>4, <4>1 DEF Typed, PortTyped, Posts
      <4>8. PortTyped(g)'
        BY <4>3, <4>4, <4>5 DEF PortTyped
      <4>9. /\ port'[g].closed = port[g].closed /\ Posts(g) \subseteq Posts(g)'
            /\ \A e \in Posts(g)' \ Posts(g) : e = d
            /\ HomeOf[d.pid] = g
        BY <1>1, <2>2, <4>4, <4>6
      <4>10. PortPop(c)
        <5>. SUFFICES ASSUME NEW f \in HomeIds
                      PROVE  /\ PortTyped(f)' /\ port'[f].closed = port[f].closed
                             /\ Posts(f) \subseteq Posts(f)'
                             /\ \A e \in Posts(f)' \ Posts(f) :
                                    e.call = "wake" /\ HomeOf[e.pid] = f /\ e.tid = c.tid
                             /\ port'[f] # port[f] => ~port[f].closed /\ f < nextHome
          BY <4>1 DEF PortPop
        <5>1. CASE f = g
          BY <1>6, <2>2, <3>2, <4>8, <4>9, <5>1
        <5>2. CASE f # g
          BY <4>1, <4>7, <5>2
        <5>. QED
          BY <5>1, <5>2
      <4>. QED
        BY <4>6, <4>10
    <3>. QED
      BY <3>1, <3>2
  <2>4. \A q \in Pids \ {} : c.pid = q /\ c.tid = ticket[q] =>
            port[HomeOf[q]].closed \/ \E e \in Posts(HomeOf[q])' : e.pid = q /\ e.tid = ticket[q]
    BY <1>1, <2>2, <2>3
  <2>. QED
    BY <1>1, <1>3, <2>1, <2>3, <2>4, PopStep DEF Wakes
<1>. QED
  BY <1>3, <1>7, <1>8

-----------------------------------------------------------------------------
(* Homes come and go. *)

\* A home that is attached finds its processes with nothing.
LEMMA AttachKeeps ==
    ASSUME IInv, HomeInv, IInv', Bounds', AttachLockHome
    PROVE  HomeInv'
<1>1. PICK n : n = nextHome
  OBVIOUS
<1>2. /\ homes' = homes \cup {n} /\ nextHome' = n + 1 /\ n < MaxHome /\ Still
      /\ work' = work /\ port' = port /\ mirror' = mirror /\ ticket' = ticket
      /\ waiting' = waiting /\ ended' = ended /\ frames' = frames
  BY <1>1, AttachIsStill DEF AttachLockHome, AttachHome
<1>3. /\ Typed /\ Matching /\ Shapes /\ homes \subseteq HomeIds
      /\ \A p \in Pids : TypedAt(p) /\ (HomeOf[p] \in homes => Fine(p)) /\ HomeOf[p] \in HomeIds
  BY HomeFacts
<1>4. /\ n \in Nat /\ n \notin homes /\ n \in HomeIds /\ HomeIds \subseteq Nat
      /\ \A g \in homes : g < n
  BY <1>1, <1>2, HomeAssumption DEF IInv, TypeOK, HomeIds
<1>5. /\ Matching' /\ Forward /\ Woken = {} /\ \A p \in Pids : Stable(p)
  BY <1>2, <1>3, StillView
<1>6. /\ \A g \in HomeIds : Todo(g)' = Todo(g) /\ Posts(g)' = Posts(g)
      /\ \A q \in Pids : Business(q)' = Business(q) /\ Aside(q)
  BY <1>2 DEF Todo, Posts, Business, Aside
<1>7. Typed'
  BY <1>2, <1>3 DEF Typed, PortTyped, TypedAt
<1>8. Shapes'
  <2>1. ASSUME NEW g \in HomeIds
        PROVE  Shape(g)'
    <3>1. Shape(g)
      BY <1>3 DEF Shapes
    <3>2. \A c \in Todo(g) : Owned(c, g) => Owned(c, g)'
      <4>1. ASSUME NEW c \in Todo(g), Owned(c, g), c.call = "note"
            PROVE  HomeOf[c.pid] < n + 1
        <5>1. HomeOf[c.pid] < n
          BY <1>1, <4>1 DEF Owned
        <5>2. HomeOf[c.pid] \in Nat
          <6>1. \A d \in Todo(g) : d \in AnyCall
            BY <1>3, Heads
          <6>. QED
            BY <1>3, <1>4, <4>1, <6>1, CallTypes DEF Wakes
        <5>. QED
          BY <1>4, <5>1, <5>2
      <4>. QED
        BY <1>2, <4>1 DEF Owned
    <3>3. Row(work[g], g)'
      <4>1. \A m \in 1 .. Len(work[g]) : work[g][m] \in Todo(g)
        BY <1>3, Heads
      <4>. QED
        BY <1>2, <3>1, <3>2, <4>1 DEF Shape, Row
    <3>. QED
      BY <1>6, <3>1, <3>3 DEF Shape
  <2>2. ASSUME NEW g \in HomeIds
        PROVE  Life(g)'
    <3>1. Life(g)
      BY <1>3 DEF Shapes
    <3>2. CASE g = n
      <4>1. Unborn(n)
        BY <1>1, <1>4, <3>1, <3>2 DEF Life
      <4>2. Todo(n) = {}
        BY <1>3, <1>4, <4>1, Heads DEF Unborn
      <4>3. ~port[n].closed
        BY <4>1 DEF Unborn
      <4>4. Alive(n)'
        BY <1>2, <1>4, <1>6, <4>2, <4>3 DEF Alive
      <4>. QED
        BY <1>2, <3>2, <4>4 DEF Life
    <3>3. CASE g \in homes
      <4>1. Alive(g)'
        BY <1>2, <1>6, <3>1, <3>3 DEF Life, Alive
      <4>. QED
        BY <1>2, <3>3, <4>1 DEF Life
    <3>4. CASE g \notin homes /\ g # n
      <4>1. g < n + 1 <=> g < n
        BY <1>4, <3>4
      <4>2. Gone(g) => Gone(g)'
        BY <1>2, <1>6 DEF Gone
      <4>3. Unborn(g) => Unborn(g)'
        BY <1>2 DEF Unborn
      <4>. QED
        BY <1>1, <1>2, <3>1, <3>4, <4>1, <4>2, <4>3 DEF Life
    <3>. QED
      BY <3>2, <3>3, <3>4
  <2>. QED
    BY <2>1, <2>2 DEF Shapes
<1>9. Local'
  <2>. SUFFICES ASSUME NEW p \in Pids, HomeOf[p] \in homes'
                PROVE  Fine(p)'
    BY DEF Local
  <2>1. CASE HomeOf[p] = n
    <3>1. Life(n)
      BY <1>3, <1>4 DEF Shapes
    <3>2. Unborn(n)
      BY <1>1, <1>4, <3>1 DEF Life
    <3>3. frames'[p] = << >> /\ mirror'[p] = Empty /\ ticket'[p] = 0 /\ p \notin waiting'
      BY <1>2, <2>1, <3>2 DEF Unborn
    <3>4. TicketOf(p)' = 0 /\ Known(p)' = {}
      <4>1. TicketOf(p) = 0 /\ Known(p) = {}
        BY <1>4, <2>1, Strangers
      <4>. QED
        BY <1>5, <4>1 DEF Stable, Same
    <3>5. Business(p)' = {}
      <4>1. Todo(n) = {}
        BY <1>3, <1>4, <3>2, Heads DEF Unborn
      <4>. QED
        BY <1>6, <2>1, <4>1 DEF Business
    <3>. QED
      BY <3>3, <3>4, <3>5, ClearedFine
  <2>2. CASE HomeOf[p] # n
    <3>1. Fine(p) /\ Aside(p) /\ Stable(p) /\ Business(p)' = Business(p)
      BY <1>2, <1>3, <1>5, <1>6, <2>2
    <3>2. Told(p)
      <4>1. Coming(p) => Coming(p)'
        BY <1>2, <1>3, <1>6 DEF Coming
      <4>. QED
        BY <1>2, <1>5, <4>1 DEF Told
    <3>. QED
      BY <1>5, <3>1, <3>2, BystanderFine
  <2>. QED
    BY <2>1, <2>2
<1>10. Timely'
  BY <1>5, <1>6 DEF HomeInv, Timely, Forward
<1>. QED
  BY <1>5, <1>7, <1>8, <1>9, <1>10 DEF HomeInv

\* The home leaves the table, its posts unread, and those it kept waiting are told.
LEMMA RunDetachKeeps ==
    ASSUME IInv, HomeInv, IInv', Bounds', NEW h \in HomeIds, RunDetach(h)
    PROVE  HomeInv'
<1>. DEFINE E == {p \in Pids : HomeOf[p] = h}
<1>1. PICK c, d : c = work[h][1] /\ d = [call |-> "discard"]
  OBVIOUS
<1>2. /\ work[h] # << >> /\ c.call = "detach" /\ DetachHome(h) /\ Then(h, Notes \o <<d>>)
      /\ frames' = [p \in Pids |-> IF HomeOf[p] = h THEN << >> ELSE frames[p]]
      /\ port' = port /\ mirror' = mirror /\ ticket' = ticket /\ waiting' = waiting
      /\ ended' = ended /\ homes' = homes \ {h} /\ nextHome' = nextHome
  BY <1>1 DEF RunDetach, Calls, DetachHome
<1>3. /\ Typed /\ Matching /\ Shapes /\ DOMAIN mirror = Pids /\ DOMAIN ticket = Pids
      /\ DOMAIN frames = Pids /\ waiting \subseteq Pids /\ ended \subseteq Pids
      /\ homes \subseteq HomeIds
      /\ \A p \in Pids : TypedAt(p) /\ (HomeOf[p] \in homes => Fine(p)) /\ HomeOf[p] \in HomeIds
  BY HomeFacts
<1>4. h \in homes /\ Todo(h) = {c} /\ Tail(work[h]) = << >>
  BY <1>1, <1>2, OneHead DEF Wakes
<1>5. /\ View(E) /\ \A u \in Woken : HomeOf[tickets[u].pid] \in homes \ {h}
  BY <1>2, <1>3, <1>4, DetachView
<1>6. /\ Notes \in Seq(Wake)
      /\ \A e \in Range(Notes) :
            Owned(e, h) /\ Decided(e.tid)' /\ e.call = "note" /\ HomeOf[e.pid] # h
      /\ \A u \in Woken : \E e \in Range(Notes) :
            e.call = "note" /\ e.tid = u /\ e.pid = tickets[u].pid
  <2>1. /\ Notes \in Seq(Wake)
        /\ \A e \in Range(Notes) : Owned(e, h) /\ Decided(e.tid)' /\ e.call = "note"
        /\ \A u \in Woken : \E e \in Range(Notes) :
              e.call = "note" /\ e.tid = u /\ e.pid = tickets[u].pid
    BY <1>5, NotesTurn
  <2>2. \A e \in Range(Notes) : HomeOf[e.pid] # h
    BY <1>3, <1>5, NotesFacts DEF HomeInv
  <2>. QED
    BY <2>1, <2>2
<1>7. d \in AnyCall /\ d.call = "discard" /\ Owned(d, h)
  BY <1>1 DEF AnyCall, Owned, Asked
<1>8. <<d>> \in Seq(AnyCall) /\ Len(<<d>>) <= 1 /\ Range(<<d>>) = {d}
  BY <1>7, OneAfter
<1>9. PICK s, t : s = Notes /\ t = <<d>>
  OBVIOUS
<1>10. /\ s \in Seq(Wake) /\ t \in Seq(AnyCall) /\ Len(t) <= 1 /\ Range(t) = {d}
       /\ \A e \in Range(s) :
             Owned(e, h) /\ Decided(e.tid)' /\ e.call = "note" /\ HomeOf[e.pid] # h
  BY <1>6, <1>8, <1>9
<1>11. s \o t \in Seq(AnyCall) /\ Row(s \o t, h)
  BY <1>7, <1>10, RowMade DEF Lone
<1>12. work' = [work EXCEPT ![h] = s \o t]
  <2>1. s \o t \o << >> = s \o t
    BY <1>11, Empties
  <2>2. work' = [work EXCEPT ![h] = s \o t \o Tail(@)]
    BY <1>2, <1>9 DEF Then
  <2>. QED
    BY <1>4, <2>1, <2>2
<1>13. /\ work' \in [HomeIds -> Seq(AnyCall)] /\ work'[h] = s \o t
       /\ Todo(h)' = Range(s) \cup {d}
       /\ \A g \in HomeIds \ {h} : work'[g] = work[g] /\ Todo(g)' = Todo(g)
       /\ \A q \in Pids : HomeOf[q] # h => Business(q)' = Business(q)
  <2>1. /\ work' \in [HomeIds -> Seq(AnyCall)] /\ work'[h] = s \o t
        /\ Todo(h)' = Range(s) \cup Range(t)
        /\ \A g \in HomeIds \ {h} : work'[g] = work[g] /\ Todo(g)' = Todo(g)
        /\ \A q \in Pids : Business(q)' =
             IF HomeOf[q] = h
               THEN {e \in Range(t) : e.call \in Asked \cup {"release"} /\ e.pid = q}
               ELSE Business(q)
    <3>1. Typed /\ s \in Seq(Wake) /\ t \in Seq(AnyCall) /\ work' = [work EXCEPT ![h] = s \o t]
      BY <1>3, <1>10, <1>12
    <3>. QED
      BY <3>1, TurnFacts
  <2>. QED
    BY <1>10, <2>1
<1>14. \A q \in Pids : HomeOf[q] # h => Aside(q)
  BY <1>2, <1>3 DEF Aside
<1>15. Typed'
  <2>1. ASSUME NEW p \in Pids
        PROVE  TypedAt(p)'
    <3>1. frames'[p] \in Seq(OneFrame)
      BY <1>2, <1>3, EmptySeq DEF TypedAt
    <3>. QED
      BY <1>2, <1>3, <3>1 DEF TypedAt
  <2>. QED
    BY <1>2, <1>3, <1>13, <2>1 DEF Typed, PortTyped
<1>16. Shapes'
  <2>1. ASSUME NEW g \in HomeIds, g # h
        PROVE  Shape(g)' /\ Life(g)'
    <3>1. Shape(g) /\ Life(g) /\ work'[g] = work[g] /\ port'[g] = port[g]
      BY <1>2, <1>3, <1>13, <2>1 DEF Shapes
    <3>2. Shape(g)'
      BY <1>2, <3>1, ShapeSame
    <3>3. Alive(g) => Alive(g)'
      BY <3>1 DEF Alive, Todo
    <3>4. Gone(g) => Gone(g)'
      BY <1>14, <2>1, <3>1 DEF Gone, Todo, Aside
    <3>5. Unborn(g) => Unborn(g)'
      BY <1>14, <2>1, <3>1 DEF Unborn, Aside
    <3>6. g \in homes' <=> g \in homes
      BY <1>2, <2>1
    <3>. QED
      BY <1>2, <3>1, <3>2, <3>3, <3>4, <3>5, <3>6 DEF Life
  <2>2. Shape(h)'
    <3>1. Row(work[h], h)'
      BY <1>2, <1>11, <1>13 DEF Row, Owned
    <3>2. \A e \in Posts(h) : e.call = "wake" /\ HomeOf[e.pid] = h
      BY <1>3 DEF Shapes, Shape
    <3>. QED
      BY <1>2, <3>1, <3>2 DEF Shape, Posts
  <2>3. Life(h)'
    <3>1. port[h].closed
      <4>1. Life(h)
        BY <1>3 DEF Shapes
      <4>. QED
        BY <1>2, <1>4, <4>1 DEF Life, Alive
    <3>2. \A e \in Todo(h)' : e.call = "discard" \/ (e.call = "note" /\ HomeOf[e.pid] # h)
      BY <1>7, <1>10, <1>13
    <3>3. \A p \in Pids : HomeOf[p] = h => frames'[p] = << >>
      BY <1>2
    <3>4. Gone(h)'
      BY <1>2, <3>1, <3>2, <3>3 DEF Gone
    <3>5. h < nextHome'
      BY <1>2, <1>4 DEF IInv, TypeOK
    <3>. QED
      BY <1>2, <3>4, <3>5 DEF Life
  <2>. QED
    BY <2>1, <2>2, <2>3 DEF Shapes
<1>17. Local'
  <2>. SUFFICES ASSUME NEW p \in Pids, HomeOf[p] \in homes'
                PROVE  Fine(p)'
    BY DEF Local
  <2>1. HomeOf[p] \in homes /\ HomeOf[p] # h /\ HomeOf[p] \in HomeIds
    BY <1>2, <1>3
  <2>2. Fine(p) /\ Aside(p) /\ Stable(p) /\ Forward /\ Business(p)' = Business(p)
    BY <1>3, <1>5, <1>13, <1>14, <2>1 DEF View
  <2>3. Coming(p) => Coming(p)'
    <3>1. ticket'[p] = ticket[p] /\ Posts(HomeOf[p])' = Posts(HomeOf[p])
      BY <1>2 DEF Posts
    <3>2. ASSUME NEW g \in HomeIds, NEW e \in Todo(g), e.call \in Wakes
          PROVE  e \in Todo(g)'
      <4>1. g # h
        BY <1>2, <1>4, <3>2 DEF Wakes
      <4>. QED
        BY <1>13, <4>1
    <3>. QED
      BY <3>1, <3>2 DEF Coming
  <2>4. Told(p)
    <3>1. \A u \in Woken : tickets[u].pid = p =>
            \E g \in HomeIds : \E e \in Todo(g)' : e.call = "note" /\ e.tid = u /\ e.pid = p
      BY <1>6, <1>9, <1>13
    <3>. QED
      BY <1>2, <2>3, <3>1 DEF Told
  <2>. QED
    BY <2>2, <2>4, BystanderFine
<1>18. Timely'
  <2>1. \A u : Decided(u) => Decided(u)'
    BY <1>5 DEF View, Forward
  <2>2. ASSUME NEW g \in HomeIds, NEW e \in Todo(g)', e.call \in Wakes
        PROVE  Decided(e.tid)'
    <3>1. CASE g = h
      BY <1>7, <1>10, <1>13, <2>2, <3>1 DEF Wakes
    <3>2. CASE g # h
      BY <1>13, <2>1, <2>2, <3>2 DEF HomeInv, Timely
    <3>. QED
      BY <3>1, <3>2
  <2>3. ASSUME NEW g \in HomeIds, NEW e \in Posts(g)'
        PROVE  Decided(e.tid)'
    <3>1. e \in Posts(g)
      BY <1>2 DEF Posts
    <3>. QED
      BY <2>1, <3>1 DEF HomeInv, Timely
  <2>. QED
    BY <2>2, <2>3 DEF Timely
<1>. QED
  BY <1>5, <1>15, <1>16, <1>17, <1>18 DEF HomeInv, View

\* What was left of it goes: no process of another home looks there.
LEMMA RunDiscardKeeps ==
    ASSUME IInv, HomeInv, IInv', Bounds', NEW h \in HomeIds, RunDiscard(h)
    PROVE  HomeInv'
<1>1. PICK c : c = work[h][1]
  OBVIOUS
<1>2. /\ work[h] # << >> /\ c.call = "discard" /\ Then(h, << >>)
      /\ port' = [port EXCEPT ![h].posts = << >>]
      /\ mirror' = [p \in Pids |-> IF HomeOf[p] = h THEN Empty ELSE mirror[p]]
      /\ ticket' = [p \in Pids |-> IF HomeOf[p] = h THEN 0 ELSE ticket[p]]
      /\ waiting' = {p \in waiting : HomeOf[p] # h}
      /\ UNCHANGED table /\ ended' = ended /\ frames' = frames
  BY <1>1 DEF RunDiscard, Calls
<1>3. /\ Typed /\ Matching /\ Shapes /\ DOMAIN mirror = Pids /\ DOMAIN ticket = Pids
      /\ DOMAIN frames = Pids /\ waiting \subseteq Pids /\ ended \subseteq Pids
      /\ homes \subseteq HomeIds
      /\ \A p \in Pids : TypedAt(p) /\ (HomeOf[p] \in homes => Fine(p)) /\ HomeOf[p] \in HomeIds
  BY HomeFacts
<1>4. Todo(h) = {c} /\ Tail(work[h]) = << >>
  BY <1>1, <1>2, <1>3, OneCall DEF Wakes
<1>5. h \notin homes /\ h < nextHome /\ Gone(h)
  <2>1. Life(h)
    BY <1>3 DEF Shapes
  <2>2. ~Alive(h) /\ ~Unborn(h)
    BY <1>2, <1>4 DEF Alive, Unborn
  <2>. QED
    BY <2>1, <2>2 DEF Life
<1>6. Still /\ homes' = homes /\ nextHome' = nextHome
  BY <1>2, UnchangedIsStill DEF table, vars
<1>7. /\ Matching' /\ Forward /\ Woken = {} /\ \A p \in Pids : Stable(p)
  BY <1>3, <1>6, StillView
<1>8. work' = [work EXCEPT ![h] = << >> \o << >>]
  BY <1>2, <1>4 DEF Then
<1>9. /\ << >> \in Seq(Wake) /\ << >> \in Seq(AnyCall) /\ Range(<< >>) = {} /\ << >> \o << >> = << >>
  BY EmptySeq, RangeFacts, Empties
<1>10. /\ work' \in [HomeIds -> Seq(AnyCall)] /\ work'[h] = << >> /\ Todo(h)' = {}
       /\ \A g \in HomeIds \ {h} : work'[g] = work[g] /\ Todo(g)' = Todo(g)
       /\ \A q \in Pids : HomeOf[q] # h => Business(q)' = Business(q)
  <2>1. PICK s \in Seq(Wake), t \in Seq(AnyCall) : s = << >> /\ t = << >>
    BY <1>9
  <2>2. /\ work' \in [HomeIds -> Seq(AnyCall)] /\ work'[h] = s \o t
        /\ Todo(h)' = Range(s) \cup Range(t)
        /\ \A g \in HomeIds \ {h} : work'[g] = work[g] /\ Todo(g)' = Todo(g)
        /\ \A q \in Pids : Business(q)' =
             IF HomeOf[q] = h
               THEN {e \in Range(t) : e.call \in Asked \cup {"release"} /\ e.pid = q}
               ELSE Business(q)
    <3>1. Typed /\ s \in Seq(Wake) /\ t \in Seq(AnyCall) /\ work' = [work EXCEPT ![h] = s \o t]
      BY <1>3, <1>8, <2>1
    <3>. QED
      BY <3>1, TurnFacts
  <2>. QED
    BY <1>9, <2>1, <2>2
<1>11. \A q \in Pids : HomeOf[q] # h => Aside(q)
  BY <1>2, <1>3 DEF Aside
<1>12. /\ DOMAIN port' = HomeIds /\ \A g \in HomeIds \ {h} : port'[g] = port[g]
       /\ port'[h] = [closed |-> port[h].closed, posts |-> << >>]
  <2>1. /\ DOMAIN port = HomeIds /\ PortTyped(h)
    BY <1>3 DEF Typed
  <2>2. /\ DOMAIN port' = HomeIds /\ \A g \in HomeIds \ {h} : port'[g] = port[g]
        /\ port'[h] = [port[h] EXCEPT !.posts = << >>]
    BY <1>2, <2>1
  <2>. QED
    BY <2>1, <2>2 DEF PortTyped
<1>13. Posts(h)' = {} /\ \A g \in HomeIds \ {h} : Posts(g)' = Posts(g)
  BY <1>9, <1>12 DEF Posts
<1>14. Typed'
  <2>1. ASSUME NEW p \in Pids
        PROVE  TypedAt(p)'
    <3>1. CASE HomeOf[p] = h
      <4>1. mirror'[p] = Empty /\ ticket'[p] = 0 /\ frames'[p] = frames[p]
        BY <1>2, <3>1
      <4>. QED
        BY <1>3, <4>1 DEF TypedAt, Empty
    <3>2. CASE HomeOf[p] # h
      BY <1>3, <1>11, <3>2, OthersTyped
    <3>. QED
      BY <3>1, <3>2
  <2>2. \A g \in HomeIds : PortTyped(g)'
    <3>1. PortTyped(h)'
      BY <1>3, <1>9, <1>12 DEF Typed, PortTyped
    <3>2. \A g \in HomeIds \ {h} : PortTyped(g)'
      BY <1>3, <1>12 DEF Typed, PortTyped
    <3>. QED
      BY <3>1, <3>2
  <2>. QED
    BY <1>2, <1>3, <1>10, <1>12, <2>1, <2>2 DEF Typed
<1>15. Shapes'
  <2>1. ASSUME NEW g \in HomeIds, g # h
        PROVE  Shape(g)' /\ Life(g)'
    <3>1. Shape(g) /\ Life(g) /\ work'[g] = work[g] /\ port'[g] = port[g]
          /\ \A p \in Pids : HomeOf[p] = g => Aside(p)
      BY <1>3, <1>10, <1>11, <1>12, <2>1 DEF Shapes
    <3>. QED
      BY <1>6, <3>1, ShapeSame, LifeSame
  <2>2. Shape(h)'
    <3>1. Len(work'[h]) = 0
      BY <1>10, EmptySeq
    <3>2. Row(work[h], h)'
      BY <3>1 DEF Row
    <3>. QED
      BY <1>13, <3>2 DEF Shape
  <2>3. Life(h)'
    <3>1. Gone(h)'
      BY <1>2, <1>5, <1>10, <1>12 DEF Gone
    <3>. QED
      BY <1>5, <1>6, <3>1 DEF Life
  <2>. QED
    BY <2>1, <2>2, <2>3 DEF Shapes
<1>16. Local'
  <2>. SUFFICES ASSUME NEW p \in Pids, HomeOf[p] \in homes
                PROVE  Fine(p)'
    BY <1>6 DEF Local
  <2>1. HomeOf[p] # h /\ HomeOf[p] \in HomeIds
    BY <1>3, <1>5
  <2>2. Fine(p) /\ Aside(p) /\ Stable(p) /\ Business(p)' = Business(p)
    BY <1>3, <1>7, <1>10, <1>11, <2>1
  <2>3. Coming(p) => Coming(p)'
    <3>1. ticket'[p] = ticket[p] /\ Posts(HomeOf[p])' = Posts(HomeOf[p])
      BY <1>2, <1>13, <2>1
    <3>2. ASSUME NEW g \in HomeIds, NEW e \in Todo(g), e.call \in Wakes
          PROVE  e \in Todo(g)'
      <4>1. g # h
        BY <1>2, <1>4, <3>2 DEF Wakes
      <4>. QED
        BY <1>10, <4>1
    <3>. QED
      BY <3>1, <3>2 DEF Coming
  <2>4. Told(p)
    BY <1>7, <1>12, <2>1, <2>3 DEF Told
  <2>. QED
    BY <1>7, <2>2, <2>4, BystanderFine
<1>17. Timely'
  <2>1. \A u : Decided(u) => Decided(u)'
    BY <1>7 DEF Forward
  <2>2. \A g \in HomeIds : Todo(g)' \subseteq Todo(g) /\ Posts(g)' \subseteq Posts(g)
    BY <1>10, <1>13
  <2>. QED
    BY <2>1, <2>2 DEF HomeInv, Timely
<1>. QED
  BY <1>7, <1>14, <1>15, <1>16, <1>17 DEF HomeInv

-----------------------------------------------------------------------------
(* HomeInv holds throughout. *)

LEMMA ProcessKeeps ==
    ASSUME IInv, HomeInv, IInv', Bounds', NEW p \in Pids,
           (\E r \in Requests : TryEnter(p, r)) \/ BeginBody(p) \/ ReleaseFrame(p) \/ KillProcess(p)
    PROVE  HomeInv'
<1>1. CASE \E r \in Requests : TryEnter(p, r)
  <2>1. PICK r \in Requests : TryEnter(p, r)
    BY <1>1
  <2>2. EnterCovered(p, r) \/ EnterFast(p, r) \/ EnterBusy(p, r)
    BY <2>1 DEF TryEnter
  <2>. QED
    BY <2>1, <2>2, EnterCoveredKeeps, EnterFastKeeps, EnterBusyKeeps
<1>2. CASE BeginBody(p)
  BY <1>2, BeginBodyKeeps
<1>3. CASE ReleaseFrame(p)
  <2>1. CASE /\ mirror[p][Top(p).hold].count > 1
             /\ mirror' = [mirror EXCEPT ![p][Top(p).hold].count = @ - 1]
             /\ UNCHANGED <<table, work>>
    BY <1>3, <2>1, ReleaseCountedKeeps
  <2>2. CASE /\ mirror[p][Top(p).hold].count = 1
             /\ mirror' = Forgotten(p, Top(p).hold)
             /\ Release(p, Top(p).hold)
             /\ work' = [work EXCEPT ![HomeOf[p]] = Notes]
    BY <1>3, <2>2, ReleaseLastKeeps
  <2>. QED
    BY <1>3, <2>1, <2>2 DEF ReleaseFrame
<1>4. CASE KillProcess(p)
  BY <1>4, KillKeeps
<1>. QED
  BY <1>1, <1>2, <1>3, <1>4

LEMMA RunKeeps ==
    ASSUME IInv, HomeInv, IInv', Bounds', NEW h \in HomeIds, Run(h)
    PROVE  HomeInv'
<1>1. CASE RunNote(h) \/ RunWake(h) \/ RunExpire(h)
  BY <1>1, RunNoteKeeps, RunWakeKeeps, RunExpireKeeps
<1>2. CASE RunWait(h) \/ RunPark(h) \/ RunCollect(h)
  BY <1>2, RunWaitKeeps, RunParkKeeps, RunCollectKeeps
<1>3. CASE RunThrow(h) \/ RunUnwind(h) \/ RunRelease(h)
  BY <1>3, RunThrowKeeps, RunUnwindKeeps, RunReleaseKeeps
<1>4. CASE RunDetach(h) \/ RunDiscard(h)
  BY <1>4, RunDetachKeeps, RunDiscardKeeps
<1>. QED
  BY <1>1, <1>2, <1>3, <1>4 DEF Run

LEMMA HomeStep ==
    ASSUME IInv, HomeInv, [HNext]_hvars
    PROVE  IInv' /\ HomeInv'
<1>1. CASE UNCHANGED hvars
  <2>1. UNCHANGED <<table, mirror, ticket, waiting, ended, frames>> /\ work' = work /\ port' = port
    BY <1>1 DEF hvars
  <2>2. IInv' /\ Bounds'
    <3>1. [Next]_vars
      BY <2>1 DEF table
    <3>. QED
      BY <3>1, StepKeeps, BoundsKept DEF HomeInv
  <2>3. View({}) /\ Woken = {} /\ Only({}) /\ homes' = homes /\ nextHome' = nextHome
    BY <2>1, QuietView
  <2>. QED
    BY <2>1, <2>2, <2>3, RestStep
<1>2. CASE HNext
  <2>1. IInv' /\ Bounds'
    BY <1>2, TableKept
  <2>2. CASE AttachLockHome
    BY <2>1, <2>2, AttachKeeps
  <2>3. ASSUME NEW p \in Pids, \/ \E r \in Requests : TryEnter(p, r)
                               \/ BeginBody(p) \/ ReleaseFrame(p) \/ KillProcess(p)
        PROVE  HomeInv'
    BY <2>1, <2>3, ProcessKeeps
  <2>4. ASSUME NEW h \in HomeIds, DrainPort(h) \/ WakeDue(h) \/ Destroy(h) \/ Run(h)
        PROVE  HomeInv'
    BY <2>1, <2>4, DrainKeeps, WakeDueKeeps, DestroyKeeps, RunKeeps
  <2>. QED
    BY <1>2, <2>1, <2>2, <2>3, <2>4 DEF HNext
<1>. QED
  BY <1>1, <1>2

LEMMA HomeStart == HInit => IInv /\ HomeInv
<1>. SUFFICES ASSUME HInit PROVE IInv /\ HomeInv
  OBVIOUS
<1>1. IInv
  BY InitHolds DEF HInit
<1>2. /\ homes = {} /\ nextHome = 0 /\ nextSeq = 0 /\ tickets = Empty
      /\ work = [h \in HomeIds |-> << >>]
      /\ port = [h \in HomeIds |-> [closed |-> FALSE, posts |-> << >>]]
      /\ mirror = [p \in Pids |-> Empty] /\ ticket = [p \in Pids |-> 0]
      /\ waiting = {} /\ ended = {} /\ frames = [p \in Pids |-> << >>]
  BY DEF HInit, Init, LocalInit
<1>3. HomeIds \subseteq Nat /\ \A p \in Pids : HomeOf[p] \in HomeIds
  BY HomeAssumption DEF HomeIds
<1>4. Typed
  <2>1. \A S : << >> \in Seq(S)
    BY EmptySeq
  <2>2. \A p \in Pids : TypedAt(p)
    BY <1>2, <2>1 DEF TypedAt, Empty
  <2>3. \A h \in HomeIds : PortTyped(h)
    BY <1>2, <2>1 DEF PortTyped
  <2>4. work \in [HomeIds -> Seq(AnyCall)]
    BY <1>2, <2>1
  <2>. QED
    BY <1>2, <2>2, <2>3, <2>4 DEF Typed
<1>5. Bounds
  BY <1>2, HomeAssumption, BoundAssumption DEF Bounds
<1>6. \A h \in HomeIds : Todo(h) = {} /\ Posts(h) = {}
  BY <1>2, RangeFacts DEF Todo, Posts
<1>7. Shapes
  <2>. SUFFICES ASSUME NEW h \in HomeIds PROVE Shape(h) /\ Life(h)
    BY DEF Shapes
  <2>1. Shape(h)
    <3>1. work[h] = << >> /\ Len(<< >>) = 0
      BY <1>2, EmptySeq
    <3>2. Row(work[h], h)
      BY <3>1 DEF Row
    <3>. QED
      BY <1>6, <3>2 DEF Shape
  <2>2. Unborn(h)
    BY <1>2 DEF Unborn
  <2>. QED
    BY <1>2, <1>3, <2>1, <2>2 DEF Life
<1>8. Local
  BY <1>2 DEF Local
<1>9. Matching
  BY <1>2 DEF Matching, Empty
<1>10. Timely
  BY <1>6 DEF Timely
<1>. QED
  BY <1>1, <1>4, <1>5, <1>7, <1>8, <1>9, <1>10 DEF HomeInv

\* The invariant: the table's own, and that each home and its processes are
\* where the table, the ports and the calls under way say they are.
THEOREM HomesInvariant == HSpec => [](IInv /\ HomeInv)
<1>1. HInit => IInv /\ HomeInv
  BY HomeStart
<1>2. (IInv /\ HomeInv) /\ [HNext]_hvars => (IInv /\ HomeInv)'
  BY HomeStep
<1>. QED
  BY <1>1, <1>2, PTL DEF HSpec

\* The homes' side keeps its types: calls, posts, mirrors, tickets and frames.
THEOREM HomesTyped == HSpec => []Typed
<1>1. IInv /\ HomeInv => Typed
  BY DEF HomeInv
<1>. QED
  BY <1>1, HomesInvariant, PTL

\* The homes use the table as its specification has it, and its theorems hold
\* of it with them.
THEOREM HomesUseTable == HSpec => Spec
<1>1. HInit => Init
  BY DEF HInit
<1>2. IInv /\ HomeInv /\ [HNext]_hvars => [Next]_vars
  BY TableCalls DEF IInv, HomeInv
<1>. QED
  BY <1>1, <1>2, HomesInvariant, PTL DEF HSpec, Spec

-----------------------------------------------------------------------------
(* What the runs check of the homes. *)

\* Which ticket of p is granted, and which hold is being given back.
LEMMA UncollectedIs ==
    ASSUME IInv, HomeInv, NEW p \in Pids
    PROVE  Uncollected(p) = Granted(p) \cup Releasing(p)
<1>1. TicketRead /\ TicketsOK(tickets, nextSeq) /\ nextSeq \in Nat
  BY TypesLinks
<1>2. Typed /\ Shapes /\ HomeOf[p] \in HomeIds
  BY HomeFacts
<1>3. \A t \in DOMAIN tickets : t = TicketOf(p) <=> tickets[t].pid = p
  <2>1. \A t \in DOMAIN tickets : t # 0
    BY <1>1 DEF TicketsOK
  <2>. QED
    BY <1>1, <2>1 DEF TicketRead
<1>4. {tickets[t].hold : t \in {u \in DOMAIN tickets : u = TicketOf(p) /\ tickets[u].state = "granted"}}
        = Granted(p)
  <2>1. {u \in DOMAIN tickets : u = TicketOf(p) /\ tickets[u].state = "granted"}
          = {u \in DOMAIN tickets : tickets[u].pid = p /\ tickets[u].state = "granted"}
    BY <1>3
  <2>. QED
    BY <2>1 DEF Granted
<1>5. ASSUME NEW h \in HomeIds, Calls(h, "release"), work[h][1].pid = p
      PROVE  work[h][1] \in {d \in Business(p) : d.call = "release"}
  <2>1. work[h] # << >> /\ work[h][1].call = "release"
    BY <1>5 DEF Calls
  <2>2. Todo(h) = {work[h][1]} /\ Owned(work[h][1], h)
    <3>1. work[h][1].call \notin Wakes
      BY <2>1 DEF Wakes
    <3>. QED
      BY <1>2, <2>1, <3>1, OneCall
  <2>3. HomeOf[p] = h
    BY <1>5, <2>1, <2>2 DEF Owned
  <2>. QED
    BY <1>5, <2>1, <2>2, <2>3 DEF Business
<1>6. ASSUME NEW d \in Business(p), d.call = "release"
      PROVE  Calls(HomeOf[p], "release") /\ work[HomeOf[p]][1] = d
  <2>1. PICK h \in HomeIds : h = HomeOf[p]
    BY <1>2
  <2>2. d \in Todo(h) /\ work[h] # << >>
    <3>1. d \in Todo(h)
      BY <2>1 DEF Business
    <3>. QED
      BY <1>2, <3>1, Heads
  <2>3. Len(work[h]) = 1 /\ d = work[h][1]
    <3>1. PICK n \in 1 .. Len(work[h]) : d = work[h][n]
      BY <1>2, <2>2, Heads
    <3>2. Len(work[h]) = 1
      BY <1>2, <1>6, <3>1 DEF Shapes, Shape, Row, Lone
    <3>. QED
      BY <3>1, <3>2
  <2>. QED
    BY <1>6, <2>1, <2>2, <2>3 DEF Calls
<1>7. {work[h][1].hold : h \in {g \in HomeIds : Calls(g, "release") /\ work[g][1].pid = p}} = Releasing(p)
  <2>1. ASSUME NEW x \in {work[h][1].hold : h \in {g \in HomeIds : Calls(g, "release") /\ work[g][1].pid = p}}
        PROVE  x \in Releasing(p)
    BY <1>5 DEF Releasing
  <2>2. ASSUME NEW x \in Releasing(p)
        PROVE  x \in {work[h][1].hold : h \in {g \in HomeIds : Calls(g, "release") /\ work[g][1].pid = p}}
    <3>1. PICK d \in Business(p) : d.call = "release" /\ x = d.hold
      BY DEF Releasing
    <3>2. d.pid = p
      BY DEF Business
    <3>. QED
      BY <1>2, <1>6, <3>1, <3>2
  <2>. QED
    BY <2>1, <2>2
<1>. QED
  BY <1>4, <1>7 DEF Uncollected

\* I2, I3, home side.  What a live process knows of its holds is what the table
\* has of it, whatever other homes do to the table in between.
THEOREM MirrorsMatch == HSpec => []MirrorMatches
<1>1. IInv /\ HomeInv => MirrorMatches
  <2>. SUFFICES ASSUME IInv, HomeInv, NEW p \in Pids, HomeOf[p] \in homes
                PROVE  /\ ticket[p] = TicketOf(p)
                       /\ DOMAIN mirror[p] = HoldIds(recs, p) \ Uncollected(p)
                       /\ \A i \in DOMAIN mirror[p] :
                            /\ mirror[p][i].mode = holds[i].mode /\ mirror[p][i].keys = holds[i].keys
                            /\ mirror[p][i].count =
                                  Cardinality({n \in 1 .. Len(frames[p]) : frames[p][n].hold = i})
    BY DEF MirrorMatches
  <2>1. Mirror(p)
    BY HomeFacts DEF Fine
  <2>2. HoldIds(recs, p) = Mine(p)
    BY TypesLinks DEF TicketRead
  <2>3. DOMAIN mirror[p] = HoldIds(recs, p) \ Uncollected(p)
    BY <2>1, <2>2, UncollectedIs DEF Mirror, Known
  <2>. QED
    BY <2>1, <2>3 DEF Mirror, Copied, SameAs, Counts
<1>. QED
  BY <1>1, HomesInvariant, PTL

\* The processes of a home that is not attached wait for nothing, or it is closed.
LEMMA ClosedOrIdle ==
    ASSUME HomeInv, NEW p \in Pids, HomeOf[p] \in HomeIds \ homes
    PROVE  port[HomeOf[p]].closed \/ (p \notin waiting /\ Business(p) = {})
<1>1. Life(HomeOf[p]) /\ Typed
  BY DEF HomeInv, Shapes
<1>2. Gone(HomeOf[p]) \/ Unborn(HomeOf[p])
  BY <1>1 DEF Life
<1>3. Gone(HomeOf[p]) => port[HomeOf[p]].closed
  BY DEF Gone
<1>4. Unborn(HomeOf[p]) => p \notin waiting /\ Business(p) = {}
  <2>. SUFFICES ASSUME Unborn(HomeOf[p]) PROVE p \notin waiting /\ Business(p) = {}
    OBVIOUS
  <2>1. Todo(HomeOf[p]) = {}
    BY <1>1, Heads DEF Unborn
  <2>. QED
    BY <2>1 DEF Unborn, Business
<1>. QED
  BY <1>2, <1>3, <1>4

\* I6, home side.  No process stays parked on a ticket that is decided without
\* its wake on the way, on whatever thread the grant was made.
THEOREM WakesReach == HSpec => []WakesReachWaiters
<1>1. IInv /\ HomeInv => WakesReachWaiters
  <2>. SUFFICES ASSUME IInv, HomeInv, NEW p \in Pids,
                       p \in waiting \/ \E h \in HomeIds : Calls(h, "park") /\ work[h][1].pid = p,
                       ticket[p] \notin Queued(tickets), ~port[HomeOf[p]].closed
                PROVE  InFlight(p)
    BY DEF WakesReachWaiters
  <2>1. Typed /\ Shapes /\ homes \subseteq HomeIds /\ HomeOf[p] \in HomeIds
    BY HomeFacts
  <2>2. p \in waiting \/ Doing(p, {"park"})
    <3>1. ASSUME NEW h \in HomeIds, Calls(h, "park"), work[h][1].pid = p
          PROVE  Doing(p, {"park"})
      <4>1. work[h] # << >> /\ work[h][1].call = "park" /\ work[h][1].call \notin Wakes
        BY <3>1 DEF Calls, Wakes
      <4>2. Todo(h) = {work[h][1]} /\ Owned(work[h][1], h)
        BY <2>1, <4>1, OneCall
      <4>3. HomeOf[p] = h
        BY <3>1, <4>1, <4>2 DEF Owned, Asked
      <4>. QED
        BY <3>1, <4>1, <4>2, <4>3 DEF Doing, Business, Asked
    <3>. QED
      BY <3>1
  <2>3. Coming(p)
    <3>1. HomeOf[p] \in homes
      BY <2>1, <2>2, ClosedOrIdle DEF Doing
    <3>. QED
      BY <2>2, <3>1, HomeFacts DEF Fine, Reached
  <2>4. CASE \E h \in HomeIds : \E c \in Todo(h) : c.call \in Wakes /\ c.pid = p /\ c.tid = ticket[p]
    <3>1. PICK h \in HomeIds : \E c \in Todo(h) : c.call \in Wakes /\ c.pid = p /\ c.tid = ticket[p]
      BY <2>4
    <3>2. PICK c \in Todo(h) : c.call \in Wakes /\ c.pid = p /\ c.tid = ticket[p]
      BY <3>1
    <3>3. c \in AnyCall /\ \E n \in 1 .. Len(work[h]) : c = work[h][n]
      BY <2>1, Heads
    <3>4. c \in Wake
      BY <3>3, <3>2, CallTypes
    <3>. QED
      BY <3>3, <3>4, <3>2 DEF InFlight
  <2>5. CASE \E c \in Posts(HomeOf[p]) : c.pid = p /\ c.tid = ticket[p]
    <3>1. Range(port[HomeOf[p]].posts) = {port[HomeOf[p]].posts[n] : n \in 1 .. Len(port[HomeOf[p]].posts)}
      BY <2>1, RangeFacts DEF Typed, PortTyped
    <3>. QED
      BY <2>1, <2>5, <3>1 DEF InFlight, Posts
  <2>. QED
    BY <2>3, <2>4, <2>5 DEF Coming
<1>. QED
  BY <1>1, HomesInvariant, PTL

\* LX-11.  No late wake ends a newer wait: one that is applied is for a ticket
\* that has been decided.
THEOREM WakesTimely == HSpec => []WakesAreTimely
<1>1. IInv /\ HomeInv => WakesAreTimely
  <2>. SUFFICES ASSUME IInv, HomeInv, NEW h \in HomeIds,
                       Calls(h, "wake") \/ (Calls(h, "note") /\ HomeOf[work[h][1].pid] = h),
                       Current(work[h][1].pid, work[h][1].tid)
                PROVE  /\ ticket[work[h][1].pid] = work[h][1].tid
                       /\ ticket[work[h][1].pid] \in DOMAIN tickets \ Queued(tickets)
    BY DEF WakesAreTimely
  <2>1. PICK c, p : c = work[h][1] /\ p = c.pid
    OBVIOUS
  <2>2. Typed /\ Shapes
    BY HomeFacts
  <2>3. c \in Todo(h) /\ c.call \in Wakes /\ c \in AnyCall
    BY <2>1, <2>2, Heads DEF Calls, Wakes
  <2>4. p \in Pids /\ ticket[p] = c.tid /\ p \in waiting
    BY <2>1, <2>3, CallTypes DEF Current
  <2>5. HomeOf[p] = h
    <3>1. CASE Calls(h, "wake")
      <4>1. Row(work[h], h) /\ 1 \in 1 .. Len(work[h])
        <5>1. Len(work[h]) \in Nat \ {0}
          BY <2>2, <3>1, Heads DEF Calls
        <5>. QED
          BY <2>2, <5>1 DEF Shapes, Shape
      <4>. QED
        BY <2>1, <3>1, <4>1 DEF Row, Owned, Calls
    <3>. QED
      BY <2>1, <3>1
  <2>6. h \in homes
    <3>1. Life(h)
      BY <2>2 DEF Shapes
    <3>2. ~Gone(h)
      BY <2>1, <2>3, <2>5 DEF Gone, Wakes
    <3>3. ~Unborn(h)
      BY <2>4, <2>5 DEF Unborn
    <3>. QED
      BY <3>1, <3>2, <3>3 DEF Life
  <2>7. Decided(c.tid)
    BY <2>3 DEF HomeInv, Timely
  <2>8. ticket[p] \in DOMAIN tickets
    <3>1. Fine(p)
      BY <2>4, <2>5, <2>6, HomeFacts
    <3>2. ticket[p] # 0 /\ ticket[p] = TicketOf(p)
      BY <2>4, <3>1 DEF Fine, Status, Mirror
    <3>. QED
      BY <3>2, TypesLinks DEF TicketRead
  <2>. QED
    BY <2>1, <2>4, <2>7, <2>8 DEF Decided
<1>. QED
  BY <1>1, HomesInvariant, PTL

=============================================================================
