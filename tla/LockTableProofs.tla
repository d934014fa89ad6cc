--------------------------- MODULE LockTableProofs ---------------------------
(***************************************************************************)
(* Proofs about LockTable, for any processes, homes and keys.              *)
(*                                                                         *)
(* The table keeps its types, its records, holds and tickets name each     *)
(* other, and no two processes hold conflicting locks.  IInv is inductive: *)
(* exclusion needs the links (a release drops the hold its record names),  *)
(* and the links need the types (a granted ticket's hold id is fresh).     *)
(*                                                                         *)
(* Of the queue: no waiter that could go stays queued, waiting closes no   *)
(* cycle, nobody is passed but by the conversion rule, generations fence,  *)
(* and no report of an abandoned section is lost.  Cancel, Release, End    *)
(* and DetachHome drop holds and tickets and let a pass grant what it can: *)
(* each is a Passing step below, so that the facts about the queue are     *)
(* argued once for all four.                                               *)
(***************************************************************************)
EXTENDS LockTable, TLAPS, FiniteSetTheorems, WellFoundedInduction

IInv == TypeOK /\ RecordsMatch /\ MutualExclusion

-----------------------------------------------------------------------------
(* The ids a pass hands out. *)

\* A set of the ids handed out so far is finite.
LEMMA BoundedFinite ==
    ASSUME NEW n \in Nat, NEW S \in SUBSET (1 .. n)
    PROVE  IsFiniteSet(S) /\ Cardinality(S) \in Nat
<1>1. IsFiniteSet(1 .. n)
  BY FS_Interval
<1>. QED
  BY <1>1, FS_Subset, FS_CardinalityType

\* Tickets granted in one pass get fresh ids, different from each other.
LEMMA GrantIdsFresh ==
    ASSUME nextHold \in Nat, NEW n \in Nat, NEW G \in SUBSET (1 .. n)
    PROVE  /\ Cardinality(G) \in Nat
           /\ \A t \in G : GrantId(G, t) \in nextHold + 1 .. nextHold + Cardinality(G)
           /\ \A t, u \in G : GrantId(G, t) = GrantId(G, u) => t = u
<1>1. IsFiniteSet(G) /\ Cardinality(G) \in Nat
  BY BoundedFinite
<1>. \A t \in G : t \in Nat
  OBVIOUS
<1>2. ASSUME NEW t \in G
      PROVE  /\ IsFiniteSet(UpTo(G, t))
             /\ Cardinality(UpTo(G, t)) \in 1 .. Cardinality(G)
  <2>1. UpTo(G, t) \in SUBSET G /\ t \in UpTo(G, t)
    BY DEF UpTo
  <2>2. IsFiniteSet(UpTo(G, t)) /\ Cardinality(UpTo(G, t)) <= Cardinality(G)
    BY <1>1, <2>1, FS_Subset
  <2>3. Cardinality(UpTo(G, t)) \in Nat
    BY <2>2, FS_CardinalityType
  <2>4. Cardinality(UpTo(G, t)) # 0
    BY <2>1, <2>2, FS_EmptySet
  <2>. QED
    BY <1>1, <2>2, <2>3, <2>4
<1>3. ASSUME NEW t \in G, NEW u \in G, t < u
      PROVE  Cardinality(UpTo(G, t)) < Cardinality(UpTo(G, u))
  <2>1. UpTo(G, t) \in SUBSET UpTo(G, u)
    <3>1. \A v \in G : v <= t => v <= u
      BY <1>3
    <3>. QED
      BY <3>1 DEF UpTo
  <2>2. UpTo(G, t) # UpTo(G, u)
    BY <1>3 DEF UpTo
  <2>3. IsFiniteSet(UpTo(G, u)) /\ IsFiniteSet(UpTo(G, t))
    BY <1>2
  <2>4. /\ Cardinality(UpTo(G, t)) <= Cardinality(UpTo(G, u))
        /\ Cardinality(UpTo(G, u)) = Cardinality(UpTo(G, t)) => UpTo(G, u) = UpTo(G, t)
    BY <2>1, <2>3, FS_Subset
  <2>. QED
    BY <1>2, <2>2, <2>4
<1>4. \A t \in G : GrantId(G, t) \in nextHold + 1 .. nextHold + Cardinality(G)
  BY <1>1, <1>2 DEF GrantId
<1>5. ASSUME NEW t \in G, NEW u \in G, GrantId(G, t) = GrantId(G, u)
      PROVE  t = u
  <2>1. Cardinality(UpTo(G, t)) = Cardinality(UpTo(G, u))
    BY <1>2, <1>5 DEF GrantId
  <2>2. ~(t < u) /\ ~(u < t)
    BY <1>2, <1>3, <2>1
  <2>. QED
    BY <2>2
<1>. QED
  BY <1>1, <1>4, <1>5

-----------------------------------------------------------------------------
(* What a pass that grants G makes of holds, tickets and records. *)

\* F is H and a hold under a new id for each ticket of G.
Extends(F, H, T, flags, G) ==
    /\ DOMAIN F = DOMAIN H \cup {GrantId(G, t) : t \in G}
    /\ \A i \in DOMAIN H : F[i] = H[i]
    /\ \A t \in G : F[GrantId(G, t)] = GrantedHold(T, G, flags, t)
    /\ \A t \in G : GrantId(G, t) \notin DOMAIN H

\* The hold of each granted ticket is there under its id, and no hold is lost.
LEMMA AddGrantsFacts ==
    ASSUME nextHold \in Nat, NEW n \in Nat, NEW H, NEW T, NEW flags,
           HoldsOK(H, nextHold), TicketsOK(T, n), NEW G \in SUBSET Queued(T)
    PROVE  Extends(AddGrants(H, T, flags, G), H, T, flags, G)
<1>1. G \in SUBSET (1 .. n)
  BY DEF Queued, TicketsOK
<1>2. /\ \A t \in G : GrantId(G, t) \in nextHold + 1 .. nextHold + Cardinality(G)
      /\ \A t, u \in G : GrantId(G, t) = GrantId(G, u) => t = u
      /\ Cardinality(G) \in Nat
  BY <1>1, GrantIdsFresh
<1>3. \A t \in G : GrantId(G, t) \notin DOMAIN H
  BY <1>2 DEF HoldsOK
<1>4. \A t \in G : (CHOOSE u \in G : GrantId(G, u) = GrantId(G, t)) = t
  BY <1>2
<1>. QED
  BY <1>3, <1>4 DEF AddGrants, Extends

\* A pass keeps the types.
LEMMA PassTypes ==
    ASSUME nextHold \in Nat, nextGen \in Nat, NEW n \in Nat,
           NEW R, NEW H, NEW T, NEW flags \in SUBSET Keys,
           RecsOK(R), HoldsOK(H, nextHold), TicketsOK(T, n), NEW G \in SUBSET Queued(T)
    PROVE  /\ HoldsOK(AddGrants(H, T, flags, G), nextHold + Cardinality(G))
           /\ TicketsOK(GrantTickets(T, G), n)
           /\ RecsOK(GrantRecs(R, T, G))
           /\ nextHold + Cardinality(G) \in Nat
           /\ nextGen + Cardinality({t \in G : T[t].mode = "exclusive"}) \in Nat
<1>. DEFINE F == AddGrants(H, T, flags, G)
<1>1. G \in SUBSET (1 .. n)
  BY DEF Queued, TicketsOK
<1>2. /\ Cardinality(G) \in Nat
      /\ \A t \in G : GrantId(G, t) \in nextHold + 1 .. nextHold + Cardinality(G)
  BY <1>1, GrantIdsFresh
<1>3. \A S \in SUBSET G : Cardinality(S) \in Nat
  BY <1>1, BoundedFinite
<1>4. \A t \in G : GrantedHold(T, G, flags, t) \in Hold
  <2>. SUFFICES ASSUME NEW t \in G
                PROVE  GrantedHold(T, G, flags, t) \in Hold
    OBVIOUS
  <2>1. T[t] \in Ticket
    BY DEF Queued, TicketsOK
  <2>2. GrantGen(T, G, t) \in Nat
    BY <1>3 DEF GrantGen, UpTo
  <2>3. Taken(T[t], flags) \in SUBSET Keys
    BY <2>1 DEF Taken, Ticket
  <2>. QED
    BY <2>1, <2>2, <2>3 DEF GrantedHold, Hold, Ticket
<1>5. HoldsOK(F, nextHold + Cardinality(G))
  <2>1. /\ DOMAIN F = DOMAIN H \cup {GrantId(G, t) : t \in G}
        /\ \A i \in DOMAIN H : F[i] = H[i]
        /\ \A t \in G : F[GrantId(G, t)] = GrantedHold(T, G, flags, t)
    <3>1. Extends(F, H, T, flags, G)
      BY AddGrantsFacts
    <3>. QED
      BY <3>1 DEF Extends
  <2>2. \A i \in DOMAIN F : F[i] \in Hold
    BY <1>4, <2>1 DEF HoldsOK
  <2>3. DOMAIN F \in SUBSET (1 .. nextHold + Cardinality(G))
    BY <1>2, <2>1 DEF HoldsOK
  <2>4. F = [i \in DOMAIN F |-> F[i]]
    BY DEF AddGrants
  <2>. HIDE DEF F
  <2>. QED
    BY <2>2, <2>3, <2>4 DEF HoldsOK
<1>6. TicketsOK(GrantTickets(T, G), n)
  <2>1. \A t \in G : GrantId(G, t) \in Nat
    BY <1>2
  <2>2. \A t \in DOMAIN T : T[t] \in Ticket
    BY DEF TicketsOK
  <2>. QED
    BY <2>1, <2>2 DEF GrantTickets, TicketsOK, Ticket
<1>7. RecsOK(GrantRecs(R, T, G))
  <2>1. \A t \in G : GrantId(G, t) \in Nat
    BY <1>2
  <2>2. \A p \in DOMAIN R : R[p] \in Rec
    BY DEF RecsOK
  <2>. QED
    BY <2>1, <2>2 DEF GrantRecs, RecsOK, Rec
<1>. QED
  BY <1>2, <1>3, <1>5, <1>6, <1>7

\* A pass keeps exclusion: what it grants conflicts with no hold of another
\* process, and with no ticket it granted before.
LEMMA PassExclusive ==
    ASSUME nextHold \in Nat, NEW n \in Nat, NEW R, NEW H, NEW T, NEW flags, NEW region,
           HoldsOK(H, nextHold), TicketsOK(T, n), Exclusive(H),
           NEW G \in SUBSET Queued(T), IsPass(R, H, T, region, G)
    PROVE  Exclusive(AddGrants(H, T, flags, G))
<1>. DEFINE F == AddGrants(H, T, flags, G)
            granted(t) == GrantedHold(T, G, flags, t)
<1>1. /\ \A i \in DOMAIN H : F[i] = H[i]
      /\ \A t \in G : F[GrantId(G, t)] = granted(t)
      /\ \A i \in DOMAIN F : i \in DOMAIN H \/ \E t \in G : i = GrantId(G, t)
  <2>1. Extends(F, H, T, flags, G)
    BY AddGrantsFacts
  <2>. QED
    BY <2>1 DEF Extends
<1>2. \A a, b : Conflicts(a, b) <=> Conflicts(b, a)
  BY DEF Conflicts, Compat, Overlap
<1>3. \A t \in G : \A a : Conflicts(granted(t), a) <=> Conflicts(T[t], a)
  BY DEF Conflicts, Compat, GrantedHold
<1>4. \A t \in G, i \in DOMAIN H : H[i].pid # granted(t).pid => ~Conflicts(granted(t), H[i])
  BY <1>3 DEF IsPass, BlkHold, GrantedHold
<1>5. \A t, u \in G : t # u => ~Conflicts(granted(t), granted(u))
  <2>1. G \in SUBSET Nat
    BY DEF Queued, TicketsOK
  <2>2. \A t, u \in G : u < t => ~Conflicts(T[t], T[u])
    BY DEF IsPass
  <2>. QED
    BY <1>2, <1>3, <2>1, <2>2
<1>. SUFFICES ASSUME NEW i \in DOMAIN F, NEW j \in DOMAIN F, F[i].pid # F[j].pid
              PROVE  ~Conflicts(F[i], F[j])
  BY DEF Exclusive
<1>. HIDE DEF F, granted
<1>6. CASE i \in DOMAIN H /\ j \in DOMAIN H
  BY <1>1, <1>6 DEF Exclusive
<1>7. CASE i \in DOMAIN H /\ j \notin DOMAIN H
  BY <1>1, <1>2, <1>4, <1>7
<1>8. CASE i \notin DOMAIN H /\ j \in DOMAIN H
  BY <1>1, <1>2, <1>4, <1>8
<1>9. CASE i \notin DOMAIN H /\ j \notin DOMAIN H
  BY <1>1, <1>5, <1>9
<1>. QED
  BY <1>6, <1>7, <1>8, <1>9

\* Records, holds and tickets that name each other.
Linked(R, H, T) == HoldsLinked(R, H) /\ TicketsLinked(R, T) /\ GrantsLinked(H, T)

\* A pass keeps the links: a ticket, its process's record and its new hold.
LEMMA PassLinks ==
    ASSUME nextHold \in Nat, NEW n \in Nat, NEW R, NEW H, NEW T, NEW flags,
           RecsOK(R), HoldsOK(H, nextHold), TicketsOK(T, n), Linked(R, H, T),
           NEW G \in SUBSET Queued(T)
    PROVE  Linked(GrantRecs(R, T, G), AddGrants(H, T, flags, G), GrantTickets(T, G))
<1>. DEFINE F == AddGrants(H, T, flags, G)
            S == GrantRecs(R, T, G)
            U == GrantTickets(T, G)
<1>1. Extends(F, H, T, flags, G)
  BY AddGrantsFacts
<1>2. /\ DOMAIN S = DOMAIN R
      /\ \A p \in DOMAIN R :
            /\ S[p].ticket = R[p].ticket
            /\ S[p].holds = R[p].holds \cup {GrantId(G, t) : t \in {u \in G : T[u].pid = p}}
  BY DEF GrantRecs, RecsOK, Rec
<1>3. /\ DOMAIN U = DOMAIN T
      /\ \A t \in DOMAIN T : U[t].pid = T[t].pid
      /\ \A t \in G : U[t].state = "granted" /\ U[t].hold = GrantId(G, t)
      /\ \A t \in DOMAIN T \ G : U[t] = T[t]
  BY DEF GrantTickets, TicketsOK, Ticket, Queued
<1>. HIDE DEF F
<1>4. \A t \in G : /\ t \in DOMAIN T
                   /\ F[GrantId(G, t)].pid = T[t].pid
                   /\ ~F[GrantId(G, t)].started
  <2>1. \A t \in G : t \in DOMAIN T
    BY DEF Queued
  <2>2. \A t \in G : F[GrantId(G, t)] = GrantedHold(T, G, flags, t)
    BY <1>1 DEF Extends
  <2>3. \A t \in G : LET h == GrantedHold(T, G, flags, t) IN h.pid = T[t].pid /\ ~h.started
    BY DEF GrantedHold
  <2>. QED
    BY <2>1, <2>2, <2>3
<1>. HIDE DEF S, U
<1>5. HoldsLinked(S, F)
  <2>1. ASSUME NEW p \in DOMAIN S
        PROVE  S[p].holds = {i \in DOMAIN F : F[i].pid = p}
    <3>1. R[p].holds = {i \in DOMAIN H : H[i].pid = p}
      BY <1>2 DEF Linked, HoldsLinked
    <3>2. \A i \in DOMAIN H : i \in DOMAIN F /\ F[i] = H[i]
      BY <1>1 DEF Extends
    <3>3. \A i \in DOMAIN F : i \in DOMAIN H \/ \E t \in G : i = GrantId(G, t)
      BY <1>1 DEF Extends
    <3>4. \A t \in G : GrantId(G, t) \in DOMAIN F
      BY <1>1 DEF Extends
    <3>. QED
      BY <1>2, <1>4, <3>1, <3>2, <3>3, <3>4
  <2>2. ASSUME NEW i \in DOMAIN F
        PROVE  F[i].pid \in DOMAIN S
    BY <1>1, <1>2, <1>4 DEF Extends, Linked, HoldsLinked, TicketsLinked
  <2>. QED
    BY <2>1, <2>2 DEF HoldsLinked
<1>6. TicketsLinked(S, U)
  BY <1>2, <1>3 DEF Linked, TicketsLinked
<1>7. GrantsLinked(F, U)
  <2>1. ASSUME NEW t \in G
        PROVE  U[t].hold \in DOMAIN F /\ F[U[t].hold].pid = U[t].pid /\ ~F[U[t].hold].started
    BY <1>1, <1>3, <1>4 DEF Extends
  <2>2. ASSUME NEW t \in DOMAIN T, T[t].state = "granted"
        PROVE  T[t].hold \in DOMAIN F /\ F[T[t].hold].pid = T[t].pid /\ ~F[T[t].hold].started
    BY <1>1, <2>2 DEF Extends, Linked, GrantsLinked
  <2>3. \A t \in DOMAIN T : T[t].state # "granted" => T[t].hold = 0
    BY DEF Linked, GrantsLinked
  <2>. QED
    BY <1>3, <2>1, <2>2, <2>3 DEF GrantsLinked
<1>. QED
  BY <1>5, <1>6, <1>7 DEF Linked, F, S, U

\* Dropping empty records breaks no link.
LEMMA DropKeepsLinks ==
    ASSUME NEW R, NEW H, NEW T, NEW S, NEW n \in Nat,
           RecsOK(R), TicketsOK(T, n), Linked(R, H, T)
    PROVE  /\ RecsOK(DropEmpty(R, S)) /\ Linked(DropEmpty(R, S), H, T)
           /\ DOMAIN DropEmpty(R, S) \subseteq DOMAIN R
           /\ \A p \in DOMAIN DropEmpty(R, S) :
                DropEmpty(R, S)[p] = R[p] /\ (p \in S => R[p].holds # {} \/ R[p].ticket # 0)
<1>. DEFINE D == DropEmpty(R, S)
<1>1. /\ DOMAIN D = {p \in DOMAIN R : p \in S => R[p].holds # {} \/ R[p].ticket # 0}
      /\ \A p \in DOMAIN D : D[p] = R[p]
  BY DEF DropEmpty
<1>2. RecsOK(D)
  BY DEF RecsOK, DropEmpty
<1>. HIDE DEF D
<1>3. HoldsLinked(D, H)
  BY <1>1 DEF Linked, HoldsLinked
<1>4. TicketsLinked(D, T)
  <2>1. ASSUME NEW t \in DOMAIN T
        PROVE  T[t].pid \in DOMAIN D /\ D[T[t].pid].ticket = t
    <3>1. T[t].pid \in DOMAIN R /\ R[T[t].pid].ticket = t
      BY DEF Linked, TicketsLinked
    <3>2. R[T[t].pid].ticket # 0
      BY <3>1 DEF TicketsOK
    <3>. QED
      BY <1>1, <3>1, <3>2
  <2>. QED
    BY <1>1, <2>1 DEF Linked, TicketsLinked
<1>. QED
  BY <1>1, <1>2, <1>3, <1>4 DEF Linked, D

\* What every operation that drops holds or tickets ends with keeps the
\* invariant, if it held with the drop made but records not yet cleared.
LEMMA FinishKeeps ==
    ASSUME nextHold \in Nat, nextGen \in Nat, NEW n \in Nat,
           NEW R, NEW H, NEW T, NEW flags \in SUBSET Keys, NEW region, NEW seeds,
           RecsOK(R), HoldsOK(H, nextHold), TicketsOK(T, n),
           Linked(R, H, T), Exclusive(H),
           \A p \in DOMAIN R : p \notin seeds => R[p].holds # {} \/ R[p].ticket # 0,
           Finish(R, H, T, flags, region, seeds)
    PROVE  /\ RecsOK(recs') /\ HoldsOK(holds', nextHold') /\ TicketsOK(tickets', n)
           /\ nextHold' \in Nat /\ nextGen' \in Nat /\ abandoned' \in SUBSET Keys
           /\ Linked(recs', holds', tickets') /\ Exclusive(holds')
           /\ DOMAIN recs' \subseteq DOMAIN R
           /\ \A p \in DOMAIN recs' : recs'[p].holds # {} \/ recs'[p].ticket # 0
<1>1. PICK G \in SUBSET Queued(T) :
        /\ IsPass(R, H, T, region, G)
        /\ holds' = AddGrants(H, T, flags, G)
        /\ tickets' = GrantTickets(T, G)
        /\ recs' = DropEmpty(GrantRecs(R, T, G), seeds)
        /\ abandoned' = flags \ UNION {Taken(T[t], flags) : t \in G}
        /\ nextHold' = nextHold + Cardinality(G)
        /\ nextGen' = nextGen + Cardinality({t \in G : T[t].mode = "exclusive"})
  BY DEF Finish
<1>2. /\ HoldsOK(holds', nextHold') /\ TicketsOK(tickets', n)
      /\ RecsOK(GrantRecs(R, T, G))
      /\ nextHold' \in Nat /\ nextGen' \in Nat
  BY <1>1, PassTypes
<1>3. Exclusive(holds')
  BY <1>1, PassExclusive
<1>4. Linked(GrantRecs(R, T, G), holds', tickets')
  BY <1>1, PassLinks
<1>5. /\ RecsOK(recs') /\ Linked(recs', holds', tickets')
      /\ DOMAIN recs' \subseteq DOMAIN GrantRecs(R, T, G)
      /\ \A p \in DOMAIN recs' :
            /\ recs'[p] = GrantRecs(R, T, G)[p]
            /\ p \in seeds => GrantRecs(R, T, G)[p].holds # {} \/ GrantRecs(R, T, G)[p].ticket # 0
  BY <1>1, <1>2, <1>4, DropKeepsLinks
<1>6. /\ DOMAIN GrantRecs(R, T, G) = DOMAIN R
      /\ \A p \in DOMAIN R : /\ GrantRecs(R, T, G)[p].ticket = R[p].ticket
                             /\ R[p].holds \subseteq GrantRecs(R, T, G)[p].holds
  BY DEF GrantRecs, RecsOK, Rec
<1>7. \A p \in DOMAIN recs' : recs'[p].holds # {} \/ recs'[p].ticket # 0
  BY <1>5, <1>6
<1>8. abandoned' \in SUBSET Keys
  BY <1>1
<1>. QED
  BY <1>2, <1>3, <1>5, <1>6, <1>7, <1>8

-----------------------------------------------------------------------------
(* The operations. *)

\* A process's record, made if need be.
LEMMA EnsureRecFacts ==
    ASSUME NEW p \in Pids, RecsOK(recs)
    PROVE  /\ RecsOK(EnsureRec(p)) /\ DOMAIN EnsureRec(p) = DOMAIN recs \cup {p}
           /\ \A q \in DOMAIN recs : EnsureRec(p)[q] = recs[q]
           /\ p \notin DOMAIN recs => EnsureRec(p)[p] = [holds |-> {}, ticket |-> 0]
  BY DEF EnsureRec, RecsOK, Rec

\* A process that may ask has no ticket in the table.
LEMMA NoTicket ==
    ASSUME RecordsMatch, TypeOK, NEW p, TicketOf(p) = 0
    PROVE  \A t \in DOMAIN tickets : tickets[t].pid # p
  BY DEF RecordsMatch, TypeOK, TicketsLinked, TicketsOK, TicketOf

\* A new hold that conflicts with no other process's keeps exclusion.
LEMMA GrantExclusive ==
    ASSUME IInv, NEW p \in Pids, NEW r \in Requests, NEW started \in BOOLEAN,
           Grantable(p, r, SeqInf), Grant(p, r, started)
    PROVE  Exclusive(holds')
<1>1. \A a, b : Conflicts(a, b) <=> Conflicts(b, a)
  BY DEF Conflicts, Compat, Overlap
<1>. DEFINE hold == NewHold(p, r, NextGen(r), started)
<1>2. /\ hold.pid = p
      /\ \A a : Conflicts(hold, a) <=> Conflicts(r, a)
  BY DEF NewHold, Conflicts, Compat
<1>3. \A i \in DOMAIN holds : holds[i].pid # p => ~Conflicts(hold, holds[i])
  BY <1>2 DEF Grantable, BlkHold
<1>4. /\ DOMAIN holds' = DOMAIN holds \cup {nextHold + 1}
      /\ \A i \in DOMAIN holds' :
            holds'[i] = IF i = nextHold + 1 THEN hold ELSE holds[i]
  BY DEF Grant
<1>. HIDE DEF hold
<1>. QED
  BY <1>1, <1>2, <1>3, <1>4 DEF IInv, MutualExclusion, Exclusive

\* A hold granted at the request keeps the types and the holds' links.
LEMMA GrantLinks ==
    ASSUME IInv, NEW p \in Pids, NEW r \in Requests, NEW started \in BOOLEAN,
           Grant(p, r, started)
    PROVE  /\ RecsOK(recs') /\ HoldsOK(holds', nextHold') /\ nextHold' \in Nat
           /\ nextGen' \in Nat /\ abandoned' \in SUBSET Keys
           /\ pendingReport' \in SUBSET Keys
           /\ HoldsLinked(recs', holds')
           /\ DOMAIN recs' = DOMAIN recs \cup {p}
           /\ \A q \in DOMAIN recs' : q # p => recs'[q] = recs[q]
           /\ recs'[p].ticket = IF started THEN 0 ELSE nextSeq + 1
           /\ nextHold + 1 \in recs'[p].holds
           /\ nextHold + 1 \in DOMAIN holds'
           /\ holds'[nextHold + 1].pid = p /\ holds'[nextHold + 1].started = started
           /\ \A i \in DOMAIN holds : i \in DOMAIN holds' /\ holds'[i] = holds[i]
           /\ nextHold + 1 \notin DOMAIN holds
<1>. DEFINE hold == NewHold(p, r, NextGen(r), started)
            id == nextHold + 1
<1>1. /\ nextHold \in Nat /\ nextGen \in Nat /\ nextSeq \in Nat
      /\ abandoned \in SUBSET Keys /\ pendingReport \in SUBSET Keys
      /\ RecsOK(recs) /\ HoldsOK(holds, nextHold)
  BY DEF IInv, TypeOK
<1>2. NextGen(r) \in Nat
  BY <1>1 DEF NextGen
<1>3. hold \in Hold
  BY <1>1, <1>2, KeySetsAssumption DEF NewHold, Hold, Requests, Taken
<1>4. hold.pid = p /\ hold.started = started /\ hold.taken \in SUBSET Keys
  BY <1>3 DEF NewHold, Hold
<1>5. id \notin DOMAIN holds
  BY <1>1 DEF HoldsOK
<1>6. /\ holds' = [i \in DOMAIN holds \cup {id} |-> IF i = id THEN hold ELSE holds[i]]
      /\ nextHold' = id /\ nextGen' = NextGen(r)
      /\ abandoned' = abandoned \ hold.taken
      /\ pendingReport' = IF started THEN pendingReport \ hold.taken ELSE pendingReport
  BY DEF Grant
<1>. HIDE DEF hold
<1>7. HoldsOK(holds', nextHold')
  BY <1>1, <1>3, <1>6 DEF HoldsOK
<1>. DEFINE R == EnsureRec(p)
<1>8. /\ RecsOK(R) /\ DOMAIN R = DOMAIN recs \cup {p}
      /\ \A q \in DOMAIN recs : R[q] = recs[q]
      /\ p \notin DOMAIN recs => R[p] = [holds |-> {}, ticket |-> 0]
  BY <1>1, EnsureRecFacts
<1>9. recs' = [R EXCEPT ![p] = [holds |-> R[p].holds \cup {id},
                                ticket |-> IF started THEN 0 ELSE nextSeq + 1]]
  BY DEF Grant
<1>. HIDE DEF R
<1>10. R[p] \in Rec
  BY <1>8 DEF RecsOK
<1>11. /\ DOMAIN recs' = DOMAIN R
       /\ \A q \in DOMAIN R : q # p => recs'[q] = R[q]
       /\ recs'[p].holds = R[p].holds \cup {id}
       /\ recs'[p].ticket = IF started THEN 0 ELSE nextSeq + 1
       /\ recs'[p] \in Rec
  BY <1>1, <1>8, <1>9, <1>10 DEF Rec, RecsOK
<1>12. RecsOK(recs')
  <2>1. recs' = [q \in DOMAIN recs' |-> recs'[q]]
    BY <1>8, <1>9 DEF RecsOK
  <2>. QED
    BY <1>8, <1>11, <2>1 DEF RecsOK
<1>13. HoldsLinked(recs', holds')
  <2>1. R[p].holds = {i \in DOMAIN holds : holds[i].pid = p}
    BY <1>8 DEF IInv, RecordsMatch, HoldsLinked
  <2>2. \A q \in DOMAIN recs : recs[q].holds = {i \in DOMAIN holds : holds[i].pid = q}
    BY DEF IInv, RecordsMatch, HoldsLinked
  <2>3. \A i \in DOMAIN holds : holds[i].pid \in DOMAIN recs
    BY DEF IInv, RecordsMatch, HoldsLinked
  <2>4. /\ DOMAIN holds' = DOMAIN holds \cup {id}
        /\ holds'[id] = hold
        /\ \A i \in DOMAIN holds : holds'[i] = holds[i]
    BY <1>5, <1>6
  <2>5. \A q \in DOMAIN recs' : recs'[q].holds = {i \in DOMAIN holds' : holds'[i].pid = q}
    BY <1>4, <1>5, <1>8, <1>11, <2>1, <2>2, <2>4
  <2>6. \A i \in DOMAIN holds' : holds'[i].pid \in DOMAIN recs'
    BY <1>4, <1>8, <1>11, <2>3, <2>4
  <2>. QED
    BY <2>5, <2>6 DEF HoldsLinked
<1>. QED
  BY <1>1, <1>2, <1>4, <1>5, <1>6, <1>7, <1>8, <1>11, <1>12, <1>13

\* A grant made at the request.
LEMMA TryAcquireKeeps ==
    ASSUME IInv, NEW p \in Pids, NEW r \in Requests, TryAcquire(p, r)
    PROVE  IInv'
<1>1. /\ MayRequest(p, r) /\ Grantable(p, r, SeqInf) /\ Grant(p, r, TRUE)
      /\ UNCHANGED <<homes, nextHome, tickets, nextSeq>>
  BY DEF TryAcquire
<1>2. TicketOf(p) = 0 /\ HomeOf[p] \in homes
  BY <1>1 DEF MayRequest
<1>3. \A t \in DOMAIN tickets : tickets[t].pid # p
  BY <1>2, NoTicket DEF IInv
<1>4. Exclusive(holds')
  BY <1>1, GrantExclusive
<1>5. /\ RecsOK(recs') /\ HoldsOK(holds', nextHold') /\ nextHold' \in Nat
      /\ nextGen' \in Nat /\ abandoned' \in SUBSET Keys /\ pendingReport' \in SUBSET Keys
      /\ HoldsLinked(recs', holds')
      /\ DOMAIN recs' = DOMAIN recs \cup {p}
      /\ \A q \in DOMAIN recs' : q # p => recs'[q] = recs[q]
      /\ recs'[p].ticket = 0 /\ nextHold + 1 \in recs'[p].holds
      /\ \A i \in DOMAIN holds : i \in DOMAIN holds' /\ holds'[i] = holds[i]
  BY <1>1, GrantLinks
<1>6. TypeOK'
  BY <1>1, <1>5 DEF IInv, TypeOK
<1>7. TicketsLinked(recs', tickets')
  BY <1>1, <1>3, <1>5 DEF IInv, RecordsMatch, TicketsLinked
<1>8. GrantsLinked(holds', tickets')
  BY <1>1, <1>5 DEF IInv, RecordsMatch, GrantsLinked
<1>9. RecordsMatch'
  BY <1>1, <1>2, <1>5, <1>7, <1>8 DEF IInv, RecordsMatch
<1>. QED
  BY <1>4, <1>6, <1>9 DEF IInv, MutualExclusion

\* A ticket added to the table: what is new, and what stays.
TicketAdded(p, state, hold) ==
    /\ nextSeq' \in Nat /\ nextSeq' # 0 /\ nextSeq' = nextSeq + 1
    /\ nextSeq' \notin DOMAIN tickets
    /\ TicketsOK(tickets', nextSeq')
    /\ DOMAIN tickets' = DOMAIN tickets \cup {nextSeq'}
    /\ \A t \in DOMAIN tickets : tickets'[t] = tickets[t]
    /\ tickets'[nextSeq'].pid = p /\ tickets'[nextSeq'].state = state
    /\ tickets'[nextSeq'].hold = hold

LEMMA AddTicketFacts ==
    ASSUME TypeOK, NEW p \in Pids, NEW r \in Requests, NEW hold \in Nat,
           NEW state \in {"queued", "granted", "failed"}, AddTicket(p, r, state, hold)
    PROVE  TicketAdded(p, state, hold)
<1>. DEFINE new == [pid |-> p, mode |-> r.mode, keys |-> r.keys, state |-> state, hold |-> hold]
<1>1. new \in Ticket
  BY KeySetsAssumption DEF Ticket, Requests
<1>2. new.pid = p /\ new.state = state /\ new.hold = hold
  OBVIOUS
<1>. HIDE DEF new
<1>3. /\ nextSeq' = nextSeq + 1
      /\ tickets' = [t \in DOMAIN tickets \cup {nextSeq + 1} |->
                        IF t = nextSeq + 1 THEN new ELSE tickets[t]]
  BY DEF AddTicket, new
<1>4. nextSeq \in Nat /\ TicketsOK(tickets, nextSeq)
  BY DEF TypeOK
<1>. QED
  BY <1>1, <1>2, <1>3, <1>4 DEF TicketsOK, TicketAdded

\* A busy request, queued, failed or granted after all.
LEMMA BlockKeeps ==
    ASSUME IInv, NEW p \in Pids, NEW r \in Requests, Block(p, r)
    PROVE  IInv'
<1>1. /\ MayRequest(p, r) /\ UNCHANGED <<homes, nextHome>>
      /\ BlockGranted(p, r) \/ BlockBusy(p, r)
  BY DEF Block
<1>2. TicketOf(p) = 0 /\ HomeOf[p] \in homes
  BY <1>1 DEF MayRequest
<1>3. \A t \in DOMAIN tickets : tickets[t].pid # p
  BY <1>2, NoTicket DEF IInv
<1>4. nextHold \in Nat /\ nextHold + 1 \in Nat /\ nextHold + 1 # 0
  BY DEF IInv, TypeOK
<1>5. CASE BlockGranted(p, r)
  <2>1. /\ Grantable(p, r, SeqInf) /\ Grant(p, r, FALSE)
        /\ AddTicket(p, r, "granted", nextHold + 1)
    BY <1>5 DEF BlockGranted
  <2>2. Exclusive(holds')
    BY <2>1, GrantExclusive
  <2>3. /\ RecsOK(recs') /\ HoldsOK(holds', nextHold') /\ nextHold' \in Nat
        /\ nextGen' \in Nat /\ abandoned' \in SUBSET Keys /\ pendingReport' \in SUBSET Keys
        /\ HoldsLinked(recs', holds')
        /\ DOMAIN recs' = DOMAIN recs \cup {p}
        /\ \A q \in DOMAIN recs' : q # p => recs'[q] = recs[q]
        /\ recs'[p].ticket = nextSeq + 1 /\ nextHold + 1 \in recs'[p].holds
        /\ nextHold + 1 \in DOMAIN holds' /\ holds'[nextHold + 1].pid = p
        /\ ~holds'[nextHold + 1].started
        /\ \A i \in DOMAIN holds : i \in DOMAIN holds' /\ holds'[i] = holds[i]
    BY <2>1, GrantLinks
  <2>4. /\ nextSeq' \in Nat /\ nextSeq' = nextSeq + 1 /\ nextSeq' \notin DOMAIN tickets
        /\ TicketsOK(tickets', nextSeq')
        /\ DOMAIN tickets' = DOMAIN tickets \cup {nextSeq'}
        /\ \A t \in DOMAIN tickets : tickets'[t] = tickets[t]
        /\ tickets'[nextSeq'].pid = p /\ tickets'[nextSeq'].state = "granted"
        /\ tickets'[nextSeq'].hold = nextHold + 1
    BY <1>4, <2>1, AddTicketFacts DEF IInv, TicketAdded
  <2>5. TypeOK'
    BY <1>1, <2>3, <2>4 DEF IInv, TypeOK
  <2>6. TicketsLinked(recs', tickets')
    BY <1>3, <2>3, <2>4 DEF IInv, RecordsMatch, TicketsLinked
  <2>7. GrantsLinked(holds', tickets')
    BY <2>3, <2>4 DEF IInv, RecordsMatch, GrantsLinked
  <2>8. RecordsMatch'
    BY <1>1, <1>2, <2>3, <2>6, <2>7 DEF IInv, RecordsMatch
  <2>. QED
    BY <2>2, <2>5, <2>8 DEF IInv, MutualExclusion
<1>6. CASE BlockBusy(p, r)
  <2>1. PICK state \in {"queued", "failed"} : AddTicket(p, r, state, 0)
    BY <1>6 DEF BlockBusy
  <2>2. /\ recs' = [EnsureRec(p) EXCEPT ![p].ticket = nextSeq + 1]
        /\ UNCHANGED <<holds, nextHold, nextGen, abandoned, pendingReport>>
    BY <1>6 DEF BlockBusy
  <2>3. /\ nextSeq' \in Nat /\ nextSeq' # 0 /\ nextSeq' = nextSeq + 1
        /\ nextSeq' \notin DOMAIN tickets
        /\ TicketsOK(tickets', nextSeq')
        /\ DOMAIN tickets' = DOMAIN tickets \cup {nextSeq'}
        /\ \A t \in DOMAIN tickets : tickets'[t] = tickets[t]
        /\ tickets'[nextSeq'].pid = p /\ tickets'[nextSeq'].state = state
        /\ tickets'[nextSeq'].hold = 0
    <3>1. TypeOK /\ state \in {"queued", "granted", "failed"} /\ 0 \in Nat
      BY DEF IInv
    <3>2. TicketAdded(p, state, 0)
      BY <2>1, <3>1, AddTicketFacts
    <3>. QED
      BY <3>2 DEF TicketAdded
  <2>. DEFINE R == EnsureRec(p)
  <2>4. /\ RecsOK(R) /\ DOMAIN R = DOMAIN recs \cup {p}
        /\ \A q \in DOMAIN recs : R[q] = recs[q]
        /\ p \notin DOMAIN recs => R[p] = [holds |-> {}, ticket |-> 0]
    BY EnsureRecFacts DEF IInv, TypeOK
  <2>5. recs' = [R EXCEPT ![p].ticket = nextSeq + 1]
    BY <2>2
  <2>. HIDE DEF R
  <2>6. /\ DOMAIN recs' = DOMAIN R
        /\ \A q \in DOMAIN R : q # p => recs'[q] = R[q]
        /\ recs'[p].holds = R[p].holds /\ recs'[p].ticket = nextSeq'
    BY <2>3, <2>4, <2>5 DEF RecsOK, Rec
  <2>7. RecsOK(recs')
    BY <2>3, <2>4, <2>5 DEF RecsOK, Rec
  <2>8. HoldsLinked(recs', holds')
    <3>1. R[p].holds = {i \in DOMAIN holds : holds[i].pid = p}
      BY <2>4 DEF IInv, RecordsMatch, HoldsLinked
    <3>. QED
      BY <2>2, <2>4, <2>6, <3>1 DEF IInv, RecordsMatch, HoldsLinked
  <2>9. TypeOK'
    BY <1>1, <2>2, <2>3, <2>7 DEF IInv, TypeOK
  <2>10. TicketsLinked(recs', tickets')
    BY <1>3, <2>3, <2>4, <2>6 DEF IInv, RecordsMatch, TicketsLinked
  <2>11. GrantsLinked(holds', tickets')
    BY <2>2, <2>3 DEF IInv, RecordsMatch, GrantsLinked
  <2>12. RecordsMatch'
    BY <1>1, <1>2, <2>3, <2>4, <2>6, <2>8, <2>10, <2>11 DEF IInv, RecordsMatch
  <2>. QED
    BY <2>2, <2>9, <2>12 DEF IInv, MutualExclusion
<1>. QED
  BY <1>1, <1>5, <1>6

\* A waiter collects its outcome.
LEMMA ResumeKeeps ==
    ASSUME IInv, NEW p \in Pids, Resume(p)
    PROVE  IInv'
<1>. DEFINE t == TicketOf(p)
            R == [recs EXCEPT ![p].ticket = 0]
            T == [u \in DOMAIN tickets \ {t} |-> tickets[u]]
<1>1. /\ t # 0 /\ tickets' = T /\ recs' = DropEmpty(R, {p})
      /\ UNCHANGED <<homes, nextHome, holds, nextSeq, nextHold, nextGen,
                     abandoned, pendingReport>>
  BY DEF Resume, counters
<1>2. p \in DOMAIN recs /\ recs[p].ticket = t
  BY <1>1 DEF TicketOf
<1>3. /\ RecsOK(recs) /\ TicketsOK(tickets, nextSeq) /\ nextSeq \in Nat
      /\ HoldsLinked(recs, holds) /\ TicketsLinked(recs, tickets) /\ GrantsLinked(holds, tickets)
  BY DEF IInv, TypeOK, RecordsMatch
<1>. HIDE DEF t
<1>4. /\ RecsOK(R) /\ DOMAIN R = DOMAIN recs
      /\ R[p].holds = recs[p].holds /\ R[p].ticket = 0
      /\ \A q \in DOMAIN recs : q # p => R[q] = recs[q]
  BY <1>2, <1>3 DEF RecsOK, Rec
<1>5. TicketsOK(T, nextSeq)
  BY <1>3 DEF TicketsOK
<1>. HIDE DEF R
<1>6. Linked(R, holds, T)
  <2>1. HoldsLinked(R, holds)
    BY <1>3, <1>4 DEF HoldsLinked
  <2>2. TicketsLinked(R, T)
    BY <1>2, <1>3, <1>4 DEF TicketsLinked
  <2>3. GrantsLinked(holds, T)
    BY <1>3 DEF GrantsLinked
  <2>. QED
    BY <2>1, <2>2, <2>3 DEF Linked
<1>. HIDE DEF T
<1>7. /\ RecsOK(recs') /\ Linked(recs', holds, T)
      /\ DOMAIN recs' \subseteq DOMAIN R
      /\ \A q \in DOMAIN recs' :
            recs'[q] = R[q] /\ (q \in {p} => R[q].holds # {} \/ R[q].ticket # 0)
  <2>. DEFINE D == DropEmpty(R, {p})
  <2>1. /\ RecsOK(D) /\ Linked(D, holds, T)
        /\ DOMAIN D \subseteq DOMAIN R
        /\ \A q \in DOMAIN D :
              D[q] = R[q] /\ (q \in {p} => R[q].holds # {} \/ R[q].ticket # 0)
    BY <1>3, <1>4, <1>5, <1>6, DropKeepsLinks
  <2>2. recs' = D
    BY <1>1
  <2>. HIDE DEF D
  <2>. QED
    BY <2>1, <2>2
<1>8. TypeOK'
  BY <1>1, <1>5, <1>7 DEF IInv, TypeOK
<1>9. RecordsMatch'
  BY <1>1, <1>4, <1>7, ZenonT(60) DEF IInv, RecordsMatch, Linked
<1>. QED
  BY <1>1, <1>8, <1>9 DEF IInv, MutualExclusion

\* A collected grant's section begins.
LEMMA StartBodyKeeps ==
    ASSUME IInv, NEW p \in Pids, NEW i \in HoldIds(recs, p), StartBody(p, i)
    PROVE  IInv'
<1>1. /\ TicketOf(p) = 0
      /\ holds' = [holds EXCEPT ![i].started = TRUE]
      /\ pendingReport' = pendingReport \ holds[i].taken
      /\ UNCHANGED <<homes, nextHome, recs, tickets, nextSeq, nextHold, nextGen, abandoned>>
  BY DEF StartBody, counters
<1>2. i \in DOMAIN holds /\ holds[i].pid = p
  BY DEF IInv, RecordsMatch, HoldsLinked, HoldIds
<1>3. HoldsOK(holds, nextHold)
  BY DEF IInv, TypeOK
<1>4. /\ HoldsOK(holds', nextHold) /\ DOMAIN holds' = DOMAIN holds
      /\ \A j \in DOMAIN holds : /\ holds'[j].pid = holds[j].pid
                                 /\ holds'[j].mode = holds[j].mode
                                 /\ holds'[j].keys = holds[j].keys
      /\ \A j \in DOMAIN holds : j # i => holds'[j] = holds[j]
  BY <1>1, <1>2, <1>3, ZenonT(60) DEF HoldsOK, Hold
<1>5. TypeOK'
  BY <1>1, <1>4 DEF IInv, TypeOK
<1>6. HoldsLinked(recs', holds')
  BY <1>1, <1>4 DEF IInv, RecordsMatch, HoldsLinked
<1>7. GrantsLinked(holds', tickets')
  <2>1. \A t \in DOMAIN tickets : tickets[t].pid # p
    BY <1>1, NoTicket DEF IInv
  <2>. QED
    BY <1>1, <1>2, <1>4, <2>1 DEF IInv, RecordsMatch, GrantsLinked
<1>8. RecordsMatch'
  BY <1>1, <1>6, <1>7 DEF IInv, RecordsMatch
<1>9. MutualExclusion'
  BY <1>4 DEF IInv, MutualExclusion, Exclusive, Conflicts
<1>. QED
  BY <1>5, <1>8, <1>9 DEF IInv

\* A wait's deadline passes.
LEMMA CancelKeeps ==
    ASSUME IInv, NEW p \in Pids, Cancel(p)
    PROVE  IInv'
<1>. DEFINE t == TicketOf(p)
            T == [tickets EXCEPT ![t].state = "cancelled"]
<1>1. /\ t \in Queued(tickets)
      /\ Finish(recs, holds, T, abandoned, tickets[t].keys, {p})
      /\ UNCHANGED <<homes, nextHome, nextSeq, pendingReport>>
  BY DEF Cancel
<1>2. /\ RecsOK(recs) /\ HoldsOK(holds, nextHold) /\ TicketsOK(tickets, nextSeq)
      /\ nextSeq \in Nat /\ nextHold \in Nat /\ nextGen \in Nat /\ abandoned \in SUBSET Keys
      /\ HoldsLinked(recs, holds) /\ TicketsLinked(recs, tickets)
      /\ GrantsLinked(holds, tickets) /\ Exclusive(holds)
  BY DEF IInv, TypeOK, RecordsMatch, MutualExclusion
<1>. HIDE DEF t
<1>3. /\ TicketsOK(T, nextSeq) /\ DOMAIN T = DOMAIN tickets
      /\ \A u \in DOMAIN tickets : T[u].pid = tickets[u].pid /\ T[u].hold = tickets[u].hold
      /\ \A u \in DOMAIN tickets : u # t => T[u] = tickets[u]
      /\ T[t].state = "cancelled" /\ tickets[t].state = "queued" /\ t \in DOMAIN tickets
  BY <1>1, <1>2 DEF TicketsOK, Ticket, Queued
<1>. HIDE DEF T
<1>4. Linked(recs, holds, T)
  <2>1. TicketsLinked(recs, T)
    BY <1>2, <1>3 DEF TicketsLinked
  <2>2. GrantsLinked(holds, T)
    BY <1>2, <1>3 DEF GrantsLinked
  <2>. QED
    BY <1>2, <2>1, <2>2 DEF Linked
<1>5. \A q \in DOMAIN recs : recs[q].holds # {} \/ recs[q].ticket # 0
  BY DEF IInv, RecordsMatch
<1>6. /\ RecsOK(recs') /\ HoldsOK(holds', nextHold') /\ TicketsOK(tickets', nextSeq)
      /\ nextHold' \in Nat /\ nextGen' \in Nat /\ abandoned' \in SUBSET Keys
      /\ Linked(recs', holds', tickets') /\ Exclusive(holds')
      /\ DOMAIN recs' \subseteq DOMAIN recs
      /\ \A q \in DOMAIN recs' : recs'[q].holds # {} \/ recs'[q].ticket # 0
  BY <1>1, <1>2, <1>3, <1>4, <1>5, FinishKeeps
<1>. QED
  BY <1>1, <1>2, <1>6 DEF IInv, TypeOK, RecordsMatch, MutualExclusion, Linked

\* A section ends.
LEMMA ReleaseKeeps ==
    ASSUME IInv, NEW p \in Pids, NEW i \in HoldIds(recs, p), Release(p, i)
    PROVE  IInv'
<1>. DEFINE R == [recs EXCEPT ![p].holds = @ \ {i}]
            H == [j \in DOMAIN holds \ {i} |-> holds[j]]
            flags == abandoned \cup Returned(i)
            region == holds[i].keys
<1>1. /\ TicketOf(p) = 0
      /\ Finish(R, H, tickets, flags, region, {p})
      /\ UNCHANGED <<homes, nextHome, nextSeq, pendingReport>>
  BY DEF Release
<1>2. /\ RecsOK(recs) /\ HoldsOK(holds, nextHold) /\ TicketsOK(tickets, nextSeq)
      /\ nextSeq \in Nat /\ nextHold \in Nat /\ nextGen \in Nat /\ abandoned \in SUBSET Keys
      /\ HoldsLinked(recs, holds) /\ TicketsLinked(recs, tickets)
      /\ GrantsLinked(holds, tickets) /\ Exclusive(holds)
  BY DEF IInv, TypeOK, RecordsMatch, MutualExclusion
<1>3. p \in DOMAIN recs /\ i \in DOMAIN holds /\ holds[i].pid = p
  BY <1>2 DEF HoldsLinked, HoldIds
<1>4. /\ RecsOK(R) /\ DOMAIN R = DOMAIN recs
      /\ \A q \in DOMAIN recs : R[q].ticket = recs[q].ticket
      /\ R[p].holds = recs[p].holds \ {i}
      /\ \A q \in DOMAIN recs : q # p => R[q] = recs[q]
  BY <1>2, <1>3 DEF RecsOK, Rec
<1>5. /\ HoldsOK(H, nextHold) /\ DOMAIN H = DOMAIN holds \ {i}
      /\ \A j \in DOMAIN H : H[j] = holds[j]
  BY <1>2 DEF HoldsOK
<1>6. flags \in SUBSET Keys
  BY <1>2, <1>3 DEF Returned, HoldsOK, Hold
<1>. HIDE DEF R, H, flags, region
<1>7. Linked(R, H, tickets)
  <2>1. HoldsLinked(R, H)
    BY <1>2, <1>3, <1>4, <1>5 DEF HoldsLinked
  <2>2. TicketsLinked(R, tickets)
    BY <1>2, <1>4 DEF TicketsLinked
  <2>3. \A t \in DOMAIN tickets : tickets[t].pid # p
    BY <1>1, NoTicket DEF IInv
  <2>4. GrantsLinked(H, tickets)
    BY <1>2, <1>3, <1>5, <2>3 DEF GrantsLinked
  <2>. QED
    BY <2>1, <2>2, <2>4 DEF Linked
<1>8. Exclusive(H)
  BY <1>2, <1>5 DEF Exclusive
<1>9. \A q \in DOMAIN R : q \notin {p} => R[q].holds # {} \/ R[q].ticket # 0
  BY <1>4 DEF IInv, RecordsMatch
<1>10. /\ RecsOK(recs') /\ HoldsOK(holds', nextHold') /\ TicketsOK(tickets', nextSeq)
       /\ nextHold' \in Nat /\ nextGen' \in Nat /\ abandoned' \in SUBSET Keys
       /\ Linked(recs', holds', tickets') /\ Exclusive(holds')
       /\ DOMAIN recs' \subseteq DOMAIN R
       /\ \A q \in DOMAIN recs' : recs'[q].holds # {} \/ recs'[q].ticket # 0
  BY <1>1, <1>2, <1>4, <1>5, <1>6, <1>7, <1>8, <1>9, FinishKeeps
<1>. QED
  BY <1>1, <1>2, <1>4, <1>10 DEF IInv, TypeOK, RecordsMatch, MutualExclusion, Linked

\* Ending any set of processes keeps the table's part of the invariant, and
\* leaves no record of them.
LEMMA EndAllKeeps ==
    ASSUME IInv, NEW E \in SUBSET DOMAIN recs, NEW abandon \in BOOLEAN, EndAll(E, abandon)
    PROVE  /\ RecsOK(recs') /\ HoldsOK(holds', nextHold') /\ TicketsOK(tickets', nextSeq')
           /\ nextSeq' \in Nat /\ nextHold' \in Nat /\ nextGen' \in Nat
           /\ abandoned' \in SUBSET Keys /\ pendingReport' \in SUBSET Keys
           /\ Linked(recs', holds', tickets') /\ Exclusive(holds')
           /\ DOMAIN recs' \subseteq DOMAIN recs \ E
           /\ \A q \in DOMAIN recs' : recs'[q].holds # {} \/ recs'[q].ticket # 0
<1>. DEFINE gone == UNION {recs[p].holds : p \in E}
            own == {recs[p].ticket : p \in E} \ {0}
            written == IF abandon
                         THEN UNION {holds[i].keys : i \in
                                {j \in gone : holds[j].started /\ holds[j].mode = "exclusive"}}
                         ELSE {}
            R == [p \in DOMAIN recs \ E |-> recs[p]]
            H == [i \in DOMAIN holds \ gone |-> holds[i]]
            T == [t \in DOMAIN tickets \ own |-> tickets[t]]
            flags == abandoned \cup (UNION {Returned(i) : i \in gone}) \cup written
            region == (UNION {holds[i].keys : i \in gone})
                        \cup (UNION {tickets[t].keys : t \in own \cap Queued(tickets)})
<1>1. /\ Finish(R, H, T, flags, region, {})
      /\ pendingReport' = pendingReport \cup written
      /\ UNCHANGED nextSeq
  BY DEF EndAll
<1>2. /\ RecsOK(recs) /\ HoldsOK(holds, nextHold) /\ TicketsOK(tickets, nextSeq)
      /\ nextSeq \in Nat /\ nextHold \in Nat /\ nextGen \in Nat
      /\ abandoned \in SUBSET Keys /\ pendingReport \in SUBSET Keys
      /\ HoldsLinked(recs, holds) /\ TicketsLinked(recs, tickets)
      /\ GrantsLinked(holds, tickets) /\ Exclusive(holds)
  BY DEF IInv, TypeOK, RecordsMatch, MutualExclusion
<1>3. gone = {i \in DOMAIN holds : holds[i].pid \in E}
  BY <1>2 DEF HoldsLinked
<1>4. \A t \in DOMAIN tickets : t \in own <=> tickets[t].pid \in E
  BY <1>2 DEF TicketsLinked, TicketsOK
<1>5. \A i \in gone : holds[i].keys \in SUBSET Keys /\ holds[i].taken \in SUBSET Keys
  BY <1>2, <1>3 DEF HoldsOK, Hold
<1>6. written \in SUBSET Keys
  BY <1>5
<1>7. flags \in SUBSET Keys
  BY <1>2, <1>5, <1>6 DEF Returned
<1>8. /\ RecsOK(R) /\ DOMAIN R = DOMAIN recs \ E
      /\ \A q \in DOMAIN R : R[q] = recs[q]
  BY <1>2 DEF RecsOK
<1>9. /\ HoldsOK(H, nextHold) /\ DOMAIN H = DOMAIN holds \ gone
      /\ \A i \in DOMAIN H : H[i] = holds[i]
  BY <1>2 DEF HoldsOK
<1>10. /\ TicketsOK(T, nextSeq) /\ DOMAIN T = DOMAIN tickets \ own
       /\ \A t \in DOMAIN T : T[t] = tickets[t]
  BY <1>2 DEF TicketsOK
<1>. HIDE DEF gone, own, written, flags, region, R, H, T
<1>11. Linked(R, H, T)
  <2>1. HoldsLinked(R, H)
    BY <1>2, <1>3, <1>8, <1>9 DEF HoldsLinked
  <2>2. TicketsLinked(R, T)
    <3>1. ASSUME NEW p \in DOMAIN R, R[p].ticket # 0
          PROVE  R[p].ticket \in DOMAIN T /\ T[R[p].ticket].pid = p
      BY <1>2, <1>4, <1>8, <1>10, <3>1 DEF TicketsLinked
    <3>2. ASSUME NEW t \in DOMAIN T
          PROVE  T[t].pid \in DOMAIN R /\ R[T[t].pid].ticket = t
      BY <1>2, <1>4, <1>8, <1>10 DEF TicketsLinked
    <3>. QED
      BY <3>1, <3>2 DEF TicketsLinked
  <2>3. GrantsLinked(H, T)
    BY <1>2, <1>3, <1>4, <1>9, <1>10 DEF GrantsLinked
  <2>. QED
    BY <2>1, <2>2, <2>3 DEF Linked
<1>12. Exclusive(H)
  BY <1>2, <1>9 DEF Exclusive
<1>13. \A q \in DOMAIN R : q \notin {} => R[q].holds # {} \/ R[q].ticket # 0
  BY <1>8 DEF IInv, RecordsMatch
<1>14. /\ RecsOK(recs') /\ HoldsOK(holds', nextHold') /\ TicketsOK(tickets', nextSeq)
       /\ nextHold' \in Nat /\ nextGen' \in Nat /\ abandoned' \in SUBSET Keys
       /\ Linked(recs', holds', tickets') /\ Exclusive(holds')
       /\ DOMAIN recs' \subseteq DOMAIN R
       /\ \A q \in DOMAIN recs' : recs'[q].holds # {} \/ recs'[q].ticket # 0
  BY <1>1, <1>2, <1>7, <1>8, <1>9, <1>10, <1>11, <1>12, <1>13, FinishKeeps
<1>. QED
  BY <1>1, <1>2, <1>6, <1>8, <1>14

\* One process ends.
LEMMA EndKeeps ==
    ASSUME IInv, NEW p \in Pids, NEW abandon \in BOOLEAN, End(p, abandon)
    PROVE  IInv'
<1>1. p \in DOMAIN recs /\ EndAll({p}, abandon) /\ UNCHANGED <<homes, nextHome>>
  BY DEF End
<1>2. {p} \in SUBSET DOMAIN recs
  BY <1>1
<1>3. /\ RecsOK(recs') /\ HoldsOK(holds', nextHold') /\ TicketsOK(tickets', nextSeq')
      /\ nextSeq' \in Nat /\ nextHold' \in Nat /\ nextGen' \in Nat
      /\ abandoned' \in SUBSET Keys /\ pendingReport' \in SUBSET Keys
      /\ Linked(recs', holds', tickets') /\ Exclusive(holds')
      /\ DOMAIN recs' \subseteq DOMAIN recs \ {p}
      /\ \A q \in DOMAIN recs' : recs'[q].holds # {} \/ recs'[q].ticket # 0
  BY <1>1, <1>2, EndAllKeeps
<1>. QED
  BY <1>1, <1>3 DEF IInv, TypeOK, RecordsMatch, MutualExclusion, Linked

\* A home goes, with all of its processes.
LEMMA DetachHomeKeeps ==
    ASSUME IInv, NEW h \in homes, DetachHome(h)
    PROVE  IInv'
<1>. DEFINE E == {p \in DOMAIN recs : HomeOf[p] = h}
<1>1. EndAll(E, TRUE) /\ homes' = homes \ {h} /\ UNCHANGED nextHome
  BY DEF DetachHome
<1>2. E \in SUBSET DOMAIN recs
  OBVIOUS
<1>3. /\ RecsOK(recs') /\ HoldsOK(holds', nextHold') /\ TicketsOK(tickets', nextSeq')
      /\ nextSeq' \in Nat /\ nextHold' \in Nat /\ nextGen' \in Nat
      /\ abandoned' \in SUBSET Keys /\ pendingReport' \in SUBSET Keys
      /\ Linked(recs', holds', tickets') /\ Exclusive(holds')
      /\ DOMAIN recs' \subseteq DOMAIN recs \ E
      /\ \A q \in DOMAIN recs' : recs'[q].holds # {} \/ recs'[q].ticket # 0
  BY <1>1, <1>2, EndAllKeeps
<1>4. \A q \in DOMAIN recs' : HomeOf[q] \in homes'
  BY <1>1, <1>3 DEF IInv, RecordsMatch
<1>. QED
  BY <1>1, <1>3, <1>4 DEF IInv, TypeOK, RecordsMatch, MutualExclusion, Linked

\* A home arrives.
LEMMA AttachHomeKeeps ==
    ASSUME IInv, AttachHome
    PROVE  IInv'
<1>1. /\ homes' = homes \cup {nextHome} /\ nextHome' = nextHome + 1
      /\ UNCHANGED <<recs, holds, tickets, nextSeq, nextHold, nextGen,
                     abandoned, pendingReport>>
  BY DEF AttachHome, counters
<1>2. TypeOK'
  BY <1>1 DEF IInv, TypeOK
<1>3. RecordsMatch'
  BY <1>1 DEF IInv, RecordsMatch
<1>. QED
  BY <1>1, <1>2, <1>3 DEF IInv, MutualExclusion

\* The empty table satisfies the invariant.
LEMMA InitHolds == Init => IInv
<1>. SUFFICES ASSUME Init PROVE IInv
  OBVIOUS
<1>1. /\ DOMAIN recs = {} /\ DOMAIN holds = {} /\ DOMAIN tickets = {}
      /\ recs = [x \in {} |-> 0] /\ holds = recs /\ tickets = recs
  BY DEF Init, Empty
<1>2. RecsOK(recs) /\ HoldsOK(holds, 0) /\ TicketsOK(tickets, 0)
  BY <1>1 DEF RecsOK, HoldsOK, TicketsOK
<1>3. TypeOK
  BY <1>2 DEF TypeOK, Init
<1>4. RecordsMatch
  BY <1>1 DEF RecordsMatch, HoldsLinked, TicketsLinked, GrantsLinked
<1>5. MutualExclusion
  BY <1>1 DEF MutualExclusion, Exclusive
<1>. QED
  BY <1>3, <1>4, <1>5 DEF IInv

\* Every operation keeps the invariant.
LEMMA StepKeeps == IInv /\ [Next]_vars => IInv'
<1>. SUFFICES ASSUME IInv, [Next]_vars PROVE IInv'
  OBVIOUS
<1>1. CASE AttachHome
  BY <1>1, AttachHomeKeeps
<1>2. CASE \E h \in homes : DetachHome(h)
  BY <1>2, DetachHomeKeeps
<1>3. CASE \E p \in Pids, r \in Requests : TryAcquire(p, r) \/ Block(p, r)
  BY <1>3, TryAcquireKeeps, BlockKeeps
<1>4. CASE \E p \in Pids : Resume(p) \/ Cancel(p)
  BY <1>4, ResumeKeeps, CancelKeeps
<1>5. CASE \E p \in Pids : \E i \in HoldIds(recs, p) : StartBody(p, i) \/ Release(p, i)
  BY <1>5, StartBodyKeeps, ReleaseKeeps
<1>6. CASE \E p \in Pids, abandon \in BOOLEAN : End(p, abandon)
  BY <1>6, EndKeeps
<1>7. CASE UNCHANGED vars
  BY <1>7 DEF vars, counters, IInv, TypeOK, RecordsMatch, MutualExclusion
<1>. QED
  BY <1>1, <1>2, <1>3, <1>4, <1>5, <1>6, <1>7 DEF Next

-----------------------------------------------------------------------------
(* Types, links and exclusion. *)

\* The invariant holds throughout, and so does each of its parts.
LEMMA Invariance == Spec => []IInv
<1>1. Init => IInv
  BY InitHolds
<1>2. IInv /\ [Next]_vars => IInv'
  BY StepKeeps
<1>. QED
  BY <1>1, <1>2, PTL DEF Spec

\* The table keeps its types whatever the homes call, and in whatever order.
THEOREM TypeCorrect == Spec => []TypeOK
<1>1. IInv => TypeOK
  BY DEF IInv
<1>. QED
  BY <1>1, Invariance, PTL

\* I1 for any number of processes, homes and keys: try_acquire, block and the
\* re-examination grant nothing that conflicts with another process's hold.
THEOREM Exclusion == Spec => []MutualExclusion
<1>1. IInv => MutualExclusion
  BY DEF IInv
<1>. QED
  BY <1>1, Invariance, PTL

\* I2 and I3: no operation leaves a hold or ticket its record does not name, a
\* record of a detached home or an empty one, or a granted ticket whose hold
\* is gone or whose section has begun.
THEOREM Consistency == Spec => []RecordsMatch
<1>1. IInv => RecordsMatch
  BY DEF IInv
<1>. QED
  BY <1>1, Invariance, PTL

-----------------------------------------------------------------------------
(* What a pass grants there always is.                                     *)

\* A set of naturals that is not empty has a least one, and so those that hold
\* zero and with each the next are all.
LEMMA Least ==
    ASSUME NEW T \in SUBSET Nat, T # {}
    PROVE  \E x \in T : \A y \in T : ~(y < x)
<1>1. PICK R : R = {ss \in Nat \X Nat : ss[1] < ss[2]}
  OBVIOUS
<1>2. IsWellFoundedOn(R, Nat)
  BY <1>1, NatLessThanWellFounded DEF OpToRel
<1>3. \E x \in T : \A y \in T : <<y, x>> \notin R
  BY <1>2, WFMin
<1>. QED
  BY <1>1, <1>3

LEMMA AllNaturals ==
    ASSUME NEW T, 0 \in T, \A n \in Nat : n \in T => n + 1 \in T
    PROVE  \A n \in Nat : n \in T
<1>. SUFFICES ASSUME Nat \ T # {} PROVE FALSE
  OBVIOUS
<1>1. PICK x \in Nat \ T : \A y \in Nat \ T : ~(y < x)
  BY Least
<1>2. x - 1 \in Nat /\ x - 1 < x /\ (x - 1) + 1 = x
  BY <1>1
<1>. QED
  BY <1>1, <1>2

\* A pass over what an operation leaves has an outcome.
CanFinish(R, H, T, region) == \E G \in SUBSET Queued(T) : IsPass(R, H, T, region, G)

\* What a pass asks of t but for the tickets granted before it.
Passable(R, H, T, region, t) ==
    /\ Touches(T[t], region)
    /\ BlkHold(H, T[t].pid, T[t]) = {}
    /\ BlkWait(R, H, T, T[t].pid, T[t], t) = {}

\* G is what a pass grants of the tickets up to m.
PassTo(R, H, T, region, m, G) ==
    /\ \A t \in G : t <= m
    /\ \A t \in Queued(T) : t <= m =>
        (t \in G <=> /\ Passable(R, H, T, region, t)
                     /\ \A u \in G : u < t => ~Conflicts(T[t], T[u]))

\* The walk finds what to grant, ticket by ticket: a pass blocks no operation.
LEMMA PassExists ==
    ASSUME NEW n \in Nat, NEW R, NEW H, NEW T, TicketsOK(T, n), NEW region
    PROVE  CanFinish(R, H, T, region)
<1>. DEFINE S == {m \in Nat : \E G \in SUBSET Queued(T) : PassTo(R, H, T, region, m, G)}
<1>1. Queued(T) \subseteq 1 .. n
  BY DEF Queued, TicketsOK
<1>2. 0 \in S
  <2>1. \A t \in Queued(T) : ~(t <= 0)
    BY <1>1
  <2>2. PassTo(R, H, T, region, 0, {}) /\ {} \in SUBSET Queued(T)
    BY <2>1 DEF PassTo
  <2>. QED
    BY <2>2
<1>3. ASSUME NEW m \in Nat, m \in S
      PROVE  m + 1 \in S
  <2>1. PICK G \in SUBSET Queued(T) : PassTo(R, H, T, region, m, G)
    BY <1>3
  <2>2. PICK F : F = G \cup {t \in Queued(T) : /\ t = m + 1 /\ Passable(R, H, T, region, t)
                                               /\ \A u \in G : ~Conflicts(T[t], T[u])}
    OBVIOUS
  <2>3. F \in SUBSET Queued(T) /\ \A t \in F : t <= m + 1
    BY <1>1, <2>1, <2>2 DEF PassTo
  <2>4. \A u \in F : u <= m => u \in G
    BY <2>2
  <2>5. ASSUME NEW t \in Queued(T), t <= m + 1
        PROVE  t \in F <=> /\ Passable(R, H, T, region, t)
                           /\ \A u \in F : u < t => ~Conflicts(T[t], T[u])
    <3>1. t \in Nat /\ \A u \in F : u \in Nat
      BY <1>1, <2>3
    <3>2. CASE t <= m
      <4>1. t \in F <=> t \in G
        BY <2>2, <2>4, <3>2
      <4>2. t \in G <=> /\ Passable(R, H, T, region, t)
                        /\ \A u \in G : u < t => ~Conflicts(T[t], T[u])
        BY <2>1, <3>2 DEF PassTo
      <4>3. \A u \in F : u < t => u \in G
        BY <2>4, <3>1, <3>2
      <4>4. G \subseteq F
        BY <2>2
      <4>. QED
        BY <4>1, <4>2, <4>3, <4>4
    <3>3. CASE t = m + 1
      <4>1. t \notin G /\ \A u \in G : u < t
        BY <1>1, <2>1, <3>3 DEF PassTo
      <4>2. t \in F <=> Passable(R, H, T, region, t) /\ \A u \in G : ~Conflicts(T[t], T[u])
        BY <2>2, <3>3, <4>1
      <4>3. \A u \in F : u < t <=> u \in G
        BY <1>1, <2>2, <3>1, <3>3, <4>1
      <4>4. G \subseteq F
        BY <2>2
      <4>. QED
        BY <4>2, <4>3, <4>4
    <3>. QED
      BY <2>5, <3>1, <3>2, <3>3
  <2>6. PassTo(R, H, T, region, m + 1, F)
    BY <2>3, <2>5 DEF PassTo
  <2>. QED
    BY <2>3, <2>6
<1>4. n \in S
  <2>. HIDE DEF S
  <2>. QED
    BY <1>2, <1>3, AllNaturals
<1>5. PICK G \in SUBSET Queued(T) : PassTo(R, H, T, region, n, G)
  BY <1>4
<1>6. IsPass(R, H, T, region, G)
  BY <1>1, <1>5 DEF PassTo, Passable, IsPass
<1>. QED
  BY <1>6 DEF CanFinish

-----------------------------------------------------------------------------
(* What the proofs about the queue rest on. *)

\* No hold's generation is above the last one handed out.
GensBounded == \A i \in DOMAIN holds : holds[i].gen <= nextGen

\* A report is taken for a key of an exclusive hold.
TakenOwn(H) ==
    \A i \in DOMAIN H :
        /\ H[i].taken \subseteq H[i].keys
        /\ H[i].taken # {} => H[i].mode = "exclusive"

\* Every abandonment not told of is flagged, or taken by a section to begin.
ReportsKept ==
    \A k \in pendingReport :
        k \in abandoned \/ \E i \in DOMAIN holds : ~holds[i].started /\ k \in holds[i].taken

\* No flag stands on a key that an exclusive section is about to begin on.
FlagsTaken(H, flags) ==
    \A i \in DOMAIN H :
        ~H[i].started /\ H[i].mode = "exclusive" => H[i].keys \cap flags = {}

\* No two grants of one process that wait for their bodies conflict, and none
\* conflicts with what the process queues for.
GrantsApart(H) ==
    \A i, j \in DOMAIN H :
        i # j /\ H[i].pid = H[j].pid /\ ~H[i].started /\ ~H[j].started
            => ~Conflicts(H[i], H[j])

QueuedApart(H, T) ==
    \A i \in DOMAIN H, t \in Queued(T) :
        H[i].pid = T[t].pid /\ ~H[i].started => ~Conflicts(H[i], T[t])

ReportsInv ==
    /\ TakenOwn(holds) /\ ReportsKept /\ FlagsTaken(holds, abandoned)
    /\ GrantsApart(holds) /\ QueuedApart(holds, tickets)

-----------------------------------------------------------------------------
(* Who waits for whom, told by holds and tickets alone: where records match, *)
(* the holds a record names are those of its process.                        *)

Spared(H, p, u) == \E i \in DOMAIN H : H[i].pid = p /\ Conflicts(u, H[i])

ByHold(H, p, r, q) == \E i \in DOMAIN H : H[i].pid = q /\ q # p /\ Conflicts(r, H[i])

ByWait(H, T, p, r, s, q) ==
    \E u \in Queued(T) : /\ u < s /\ T[u].pid = q /\ q # p
                         /\ Conflicts(r, T[u]) /\ ~Spared(H, p, T[u])

\* A request r of p at place s waits for q.
Behind(H, T, p, r, s, q) == ByHold(H, p, r, q) \/ ByWait(H, T, p, r, s, q)

\* So does the queued ticket t.
Waits(H, T, t, q) == Behind(H, T, T[t].pid, T[t], t, q)

\* The exemption looks at the asking process's holds.
LEMMA SparedIsExempt ==
    ASSUME NEW R, NEW H, HoldsLinked(R, H), NEW p, NEW u
    PROVE  Exempt(R, H, p, u) <=> Spared(H, p, u)
<1>1. HoldIds(R, p) = {i \in DOMAIN H : H[i].pid = p}
  BY DEF HoldsLinked, HoldIds
<1>. QED
  BY <1>1 DEF Exempt, Spared

\* A request is blocked by those it waits for.
LEMMA BehindIsBlocked ==
    ASSUME NEW R, NEW H, HoldsLinked(R, H), NEW T, NEW p, NEW r, NEW s
    PROVE  /\ \A q : Behind(H, T, p, r, s, q) <=>
                \/ \E i \in BlkHold(H, p, r) : H[i].pid = q
                \/ \E u \in BlkWait(R, H, T, p, r, s) : T[u].pid = q
           /\ (BlkHold(H, p, r) = {} /\ BlkWait(R, H, T, p, r, s) = {})
                <=> \A q : ~Behind(H, T, p, r, s, q)
<1>1. \A u : Exempt(R, H, p, u) <=> Spared(H, p, u)
  BY SparedIsExempt
<1>2. ASSUME NEW q
      PROVE  /\ ByHold(H, p, r, q) <=> \E i \in BlkHold(H, p, r) : H[i].pid = q
             /\ ByWait(H, T, p, r, s, q) <=>
                  \E u \in BlkWait(R, H, T, p, r, s) : T[u].pid = q
  BY <1>1 DEF ByHold, ByWait, BlkHold, BlkWait
<1>. QED
  BY <1>2 DEF Behind

\* What the table's own operators say.
TargetsAre == \A p, r, s, q : q \in Targets(p, r, s) <=> Behind(holds, tickets, p, r, s, q)

GrantableIs ==
    \A p, r, s : Grantable(p, r, s) <=> \A q : ~Behind(holds, tickets, p, r, s, q)

\* a waits for b.
Edge(a, b) == \E t \in Queued(tickets) : tickets[t].pid = a /\ Waits(holds, tickets, t, b)

SuccIs == \A a, b : b \in Succ(a) <=> Edge(a, b)

\* A process has at most one ticket.
OneTicket == \A t, u \in DOMAIN tickets : tickets[t].pid = tickets[u].pid => t = u

Reading == TargetsAre /\ GrantableIs /\ SuccIs /\ OneTicket

\* Where records match, the table's operators read off holds and tickets.
LEMMA Reads == IInv => Reading
<1>. SUFFICES ASSUME IInv PROVE Reading
  OBVIOUS
<1>1. HoldsLinked(recs, holds) /\ TicketsLinked(recs, tickets) /\ TicketsOK(tickets, nextSeq)
  BY DEF IInv, RecordsMatch, TypeOK
<1>2. TargetsAre /\ GrantableIs
  <2>1. ASSUME NEW p, NEW r, NEW s
        PROVE  /\ \A q : q \in Targets(p, r, s) <=> Behind(holds, tickets, p, r, s, q)
               /\ Grantable(p, r, s) <=> \A q : ~Behind(holds, tickets, p, r, s, q)
    <3>1. /\ \A q : Behind(holds, tickets, p, r, s, q) <=>
                \/ \E i \in BlkHold(holds, p, r) : holds[i].pid = q
                \/ \E u \in BlkWait(recs, holds, tickets, p, r, s) : tickets[u].pid = q
          /\ (BlkHold(holds, p, r) = {} /\ BlkWait(recs, holds, tickets, p, r, s) = {})
                <=> \A q : ~Behind(holds, tickets, p, r, s, q)
      BY <1>1, BehindIsBlocked
    <3>. QED
      BY <3>1 DEF Targets, Grantable
  <2>. QED
    BY <2>1 DEF TargetsAre, GrantableIs
<1>3. OneTicket
  BY <1>1 DEF TicketsLinked, OneTicket
<1>4. SuccIs
  <2>1. ASSUME NEW a, NEW b, b \in Succ(a)
        PROVE  Edge(a, b)
    <3>1. TicketOf(a) \in Queued(tickets) /\ b \in Targets(a, tickets[TicketOf(a)], TicketOf(a))
      BY <2>1 DEF Succ
    <3>2. TicketOf(a) \in DOMAIN tickets /\ TicketOf(a) # 0
      BY <1>1, <3>1 DEF Queued, TicketsOK
    <3>3. tickets[TicketOf(a)].pid = a
      BY <1>1, <3>2 DEF TicketOf, TicketsLinked
    <3>. QED
      BY <1>2, <3>1, <3>3 DEF TargetsAre, Edge, Waits
  <2>2. ASSUME NEW a, NEW b, Edge(a, b)
        PROVE  b \in Succ(a)
    <3>1. PICK t \in Queued(tickets) : tickets[t].pid = a /\ Waits(holds, tickets, t, b)
      BY <2>2 DEF Edge
    <3>2. TicketOf(a) = t
      BY <1>1, <3>1 DEF TicketOf, TicketsLinked, Queued
    <3>. QED
      BY <1>2, <3>1, <3>2 DEF TargetsAre, Waits, Succ
  <2>. QED
    BY <2>1, <2>2 DEF SuccIs
<1>. QED
  BY <1>2, <1>3, <1>4 DEF Reading

\* The same of the state after a step.
LEMMA ReadsNext == IInv' => Reading'
BY Reads, PTL

-----------------------------------------------------------------------------
(* What a step does to holds and queued tickets.  It decides nothing, it   *)
(* grants a request at once, it queues one, or it drops and passes.        *)

Alike(a, b) == a.pid = b.pid /\ a.mode = b.mode /\ a.keys = b.keys

\* The tickets queued before stay as they are.
QueueStays ==
    Queued(tickets') = Queued(tickets) /\ \A t \in Queued(tickets) : tickets'[t] = tickets[t]

Quiet ==
    /\ DOMAIN holds' = DOMAIN holds
    /\ \A i \in DOMAIN holds : Alike(holds'[i], holds[i]) /\ holds'[i].gen = holds[i].gen
    /\ QueueStays /\ nextGen' = nextGen

\* p's request r is granted, as the hold after the last.
AtOnce(p, r) ==
    /\ \A t \in Queued(tickets) : tickets[t].pid # p
    /\ Grantable(p, r, SeqInf) /\ \A t \in Queued(tickets) : t < SeqInf
    /\ nextHold + 1 \notin DOMAIN holds
    /\ DOMAIN holds' = DOMAIN holds \cup {nextHold + 1}
    /\ \A i \in DOMAIN holds : holds'[i] = holds[i]
    /\ LET new == holds'[nextHold + 1]
       IN  new.pid = p /\ new.mode = r.mode /\ new.keys = r.keys /\ new.gen = NextGen(r)
    /\ QueueStays /\ nextGen' = NextGen(r)

\* p's request r is refused: it queues behind all, or fails.
Refused(p, r) ==
    /\ \A t \in Queued(tickets) : tickets[t].pid # p
    /\ ~Grantable(p, r, SeqInf) /\ \A t \in Queued(tickets) : t < SeqInf
    /\ UNCHANGED <<holds, nextGen>>
    /\ SeqInf \notin DOMAIN tickets
    /\ \A t \in Queued(tickets) : tickets'[t] = tickets[t]
    /\ \/ Queued(tickets') = Queued(tickets)
       \/ /\ Queued(tickets') = Queued(tickets) \cup {SeqInf}
          /\ LET new == tickets'[SeqInf]
             IN  new.pid = p /\ new.mode = r.mode /\ new.keys = r.keys
          /\ ~Deadlocks(p, r)

\* H and T are the holds and tickets left: no waiter's hold is dropped, and
\* what is dropped lies in the region.
Dropping(H, T, region) ==
    /\ DOMAIN H \subseteq DOMAIN holds /\ \A i \in DOMAIN H : H[i] = holds[i]
    /\ Queued(T) \subseteq Queued(tickets) /\ \A t \in Queued(T) : T[t] = tickets[t]
    /\ \A i \in DOMAIN holds \ DOMAIN H :
          /\ holds[i].keys \subseteq region
          /\ \A t \in Queued(T) : T[t].pid # holds[i].pid
    /\ \A t \in Queued(tickets) \ Queued(T) : tickets[t].keys \subseteq region

\* The pass grants, in seq order, whatever touches the region and waits for
\* nobody by then.
Granting(H, T, flags, region, G) ==
    /\ G \in SUBSET Queued(T)
    /\ \A t \in Queued(T) :
          t \in G <=> /\ Touches(T[t], region)
                      /\ \A q : ~Waits(H, T, t, q)
                      /\ \A u \in G : u < t => ~Conflicts(T[t], T[u])
    /\ Extends(holds', H, T, flags, G)
    /\ Queued(tickets') = Queued(T) \ G
    /\ \A t \in Queued(T) \ G : tickets'[t] = T[t]
    /\ \A t \in G : t \in DOMAIN tickets' /\ tickets'[t].hold = GrantId(G, t)
    /\ nextGen' = nextGen + Cardinality({t \in G : T[t].mode = "exclusive"})

Passing(H, T, flags, region, G) ==
    Dropping(H, T, region) /\ Granting(H, T, flags, region, G)

\* Every operation that ends with a pass makes it as described.
LEMMA FinishGrants ==
    ASSUME nextHold \in Nat, NEW n \in Nat, NEW R, NEW H, NEW T, NEW flags, NEW region, NEW seeds,
           HoldsOK(H, nextHold), TicketsOK(T, n), HoldsLinked(R, H),
           Finish(R, H, T, flags, region, seeds)
    PROVE  \E G : /\ Granting(H, T, flags, region, G)
                  /\ abandoned' = flags \ UNION {Taken(T[t], flags) : t \in G}
<1>1. PICK G \in SUBSET Queued(T) :
        /\ IsPass(R, H, T, region, G)
        /\ holds' = AddGrants(H, T, flags, G)
        /\ tickets' = GrantTickets(T, G)
        /\ abandoned' = flags \ UNION {Taken(T[t], flags) : t \in G}
        /\ nextGen' = nextGen + Cardinality({t \in G : T[t].mode = "exclusive"})
  BY DEF Finish
<1>2. Extends(holds', H, T, flags, G)
  <2>1. Extends(AddGrants(H, T, flags, G), H, T, flags, G)
    BY AddGrantsFacts
  <2>. QED
    BY <1>1, <2>1
<1>3. ASSUME NEW t \in Queued(T)
      PROVE  t \in G <=> /\ Touches(T[t], region)
                         /\ \A q : ~Waits(H, T, t, q)
                         /\ \A u \in G : u < t => ~Conflicts(T[t], T[u])
  <2>1. (BlkHold(H, T[t].pid, T[t]) = {} /\ BlkWait(R, H, T, T[t].pid, T[t], t) = {})
            <=> \A q : ~Behind(H, T, T[t].pid, T[t], t, q)
    BY BehindIsBlocked
  <2>. QED
    BY <1>1, <2>1 DEF IsPass, Waits
<1>4. /\ DOMAIN tickets' = DOMAIN T
      /\ \A t \in DOMAIN T \ G : tickets'[t] = T[t]
      /\ \A t \in G : tickets'[t].state = "granted" /\ tickets'[t].hold = GrantId(G, t)
  BY <1>1 DEF GrantTickets, TicketsOK, Ticket, Queued
<1>5. Queued(tickets') = Queued(T) \ G
  BY <1>4 DEF Queued
<1>6. /\ \A t \in Queued(T) \ G : tickets'[t] = T[t]
      /\ \A t \in G : t \in DOMAIN tickets' /\ tickets'[t].hold = GrantId(G, t)
  BY <1>4 DEF Queued
<1>. QED
  BY <1>1, <1>2, <1>3, <1>5, <1>6 DEF Granting

-----------------------------------------------------------------------------
(* Each operation is one of the four. *)

\* The flags an operation leaves before its pass: those there were, the reports
\* of dropped grants, and keys of the exclusive sections it cuts short.
Flagging(H, T, flags, G) ==
    /\ abandoned \subseteq flags
    /\ \A j \in DOMAIN holds \ DOMAIN H : ~holds[j].started => holds[j].taken \subseteq flags
    /\ \A k \in flags \ abandoned : \E j \in DOMAIN holds \ DOMAIN H :
          /\ holds[j].mode = "exclusive" /\ k \in holds[j].keys
          /\ holds[j].started => \A i \in DOMAIN H : H[i].pid # holds[j].pid
    /\ pendingReport' \subseteq pendingReport \cup flags
    /\ abandoned' = flags \ UNION {Taken(T[t], flags) : t \in G}

\* What is dropped is of the processes E.
DropsOf(H, T, E) ==
    /\ \A i \in DOMAIN holds \ DOMAIN H : holds[i].pid \in E
    /\ \A t \in Queued(tickets) \ Queued(T) : tickets[t].pid \in E

Passes(E) ==
    \E H, T, flags, region, G :
        Passing(H, T, flags, region, G) /\ Flagging(H, T, flags, G) /\ DropsOf(H, T, E)

LEMMA TypesAndLinks ==
    ASSUME IInv
    PROVE  /\ RecsOK(recs) /\ HoldsOK(holds, nextHold) /\ TicketsOK(tickets, nextSeq)
           /\ nextSeq \in Nat /\ nextHold \in Nat /\ nextGen \in Nat /\ abandoned \in SUBSET Keys
           /\ HoldsLinked(recs, holds) /\ TicketsLinked(recs, tickets)
           /\ GrantsLinked(holds, tickets) /\ Exclusive(holds)
BY DEF IInv, TypeOK, RecordsMatch, MutualExclusion

LEMMA AttachHomeIsQuiet == AttachHome => Quiet
BY DEF AttachHome, Quiet, QueueStays, Alike, counters

LEMMA StartBodyIsQuiet ==
    ASSUME IInv, NEW p \in Pids, NEW i \in HoldIds(recs, p), StartBody(p, i)
    PROVE  Quiet
<1>1. /\ holds' = [holds EXCEPT ![i].started = TRUE]
      /\ tickets' = tickets /\ nextGen' = nextGen
  BY DEF StartBody, counters
<1>2. HoldsOK(holds, nextHold)
  BY TypesAndLinks
<1>3. /\ DOMAIN holds' = DOMAIN holds
      /\ \A j \in DOMAIN holds : Alike(holds'[j], holds[j]) /\ holds'[j].gen = holds[j].gen
  BY <1>1, <1>2 DEF HoldsOK, Hold, Alike
<1>. QED
  BY <1>1, <1>3 DEF Quiet, QueueStays

LEMMA ResumeIsQuiet ==
    ASSUME NEW p \in Pids, Resume(p)
    PROVE  Quiet
<1>. DEFINE t == TicketOf(p)
<1>1. /\ tickets[t].state # "queued"
      /\ tickets' = [u \in DOMAIN tickets \ {t} |-> tickets[u]]
      /\ holds' = holds /\ nextGen' = nextGen
  BY DEF Resume, counters
<1>. HIDE DEF t
<1>. QED
  BY <1>1 DEF Quiet, QueueStays, Queued, Alike

LEMMA AskerHasNoTicket ==
    ASSUME IInv, NEW p, TicketOf(p) = 0
    PROVE  /\ \A t \in Queued(tickets) : tickets[t].pid # p
           /\ \A t \in Queued(tickets) : t < SeqInf
           /\ SeqInf = nextSeq + 1 /\ SeqInf \notin DOMAIN tickets
<1>1. \A t \in DOMAIN tickets : tickets[t].pid # p
  BY NoTicket DEF IInv
<1>2. TicketsOK(tickets, nextSeq) /\ nextSeq \in Nat
  BY TypesAndLinks
<1>. QED
  BY <1>1, <1>2 DEF Queued, TicketsOK, SeqInf

LEMMA GrantIsAtOnce ==
    ASSUME IInv, NEW p \in Pids, NEW r \in Requests, NEW started \in BOOLEAN,
           TicketOf(p) = 0, Grantable(p, r, SeqInf), Grant(p, r, started), QueueStays
    PROVE  /\ AtOnce(p, r)
           /\ holds'[nextHold + 1].started = started
           /\ holds'[nextHold + 1].taken = Taken(r, abandoned)
           /\ abandoned' = abandoned \ Taken(r, abandoned)
<1>. DEFINE hold == NewHold(p, r, NextGen(r), started)
<1>1. hold.pid = p /\ hold.mode = r.mode /\ hold.keys = r.keys /\ hold.gen = NextGen(r)
  BY DEF NewHold
<1>2. hold.started = started /\ hold.taken = Taken(r, abandoned)
  BY DEF NewHold
<1>3. /\ holds' = [i \in DOMAIN holds \cup {nextHold + 1} |->
                    IF i = nextHold + 1 THEN hold ELSE holds[i]]
      /\ nextGen' = NextGen(r) /\ abandoned' = abandoned \ hold.taken
  BY DEF Grant
<1>. HIDE DEF hold
<1>4. nextHold + 1 \notin DOMAIN holds
  BY TypesAndLinks DEF HoldsOK
<1>5. AtOnce(p, r)
  BY <1>1, <1>3, <1>4, AskerHasNoTicket DEF AtOnce
<1>. QED
  BY <1>2, <1>3, <1>5

LEMMA TryAcquireIsAtOnce ==
    ASSUME IInv, NEW p \in Pids, NEW r \in Requests, TryAcquire(p, r)
    PROVE  /\ AtOnce(p, r)
           /\ holds'[nextHold + 1].started
           /\ holds'[nextHold + 1].taken = Taken(r, abandoned)
           /\ abandoned' = abandoned \ Taken(r, abandoned)
<1>1. TicketOf(p) = 0 /\ Grantable(p, r, SeqInf) /\ Grant(p, r, TRUE) /\ tickets' = tickets
  BY DEF TryAcquire, MayRequest
<1>2. QueueStays
  BY <1>1 DEF QueueStays
<1>3. holds'[nextHold + 1].started = TRUE
  BY <1>1, <1>2, GrantIsAtOnce
<1>. QED
  BY <1>1, <1>2, <1>3, GrantIsAtOnce

LEMMA BlockGrantedIsAtOnce ==
    ASSUME IInv, NEW p \in Pids, NEW r \in Requests, MayRequest(p, r), BlockGranted(p, r)
    PROVE  /\ AtOnce(p, r)
           /\ ~holds'[nextHold + 1].started
           /\ holds'[nextHold + 1].taken = Taken(r, abandoned)
           /\ abandoned' = abandoned \ Taken(r, abandoned)
<1>1. /\ TicketOf(p) = 0 /\ Grantable(p, r, SeqInf) /\ Grant(p, r, FALSE)
      /\ AddTicket(p, r, "granted", nextHold + 1)
  BY DEF BlockGranted, MayRequest
<1>2. TicketAdded(p, "granted", nextHold + 1)
  <2>1. nextHold + 1 \in Nat /\ TypeOK
    BY TypesAndLinks DEF IInv
  <2>. QED
    BY <1>1, <2>1, AddTicketFacts
<1>3. QueueStays
  BY <1>2 DEF TicketAdded, QueueStays, Queued
<1>4. holds'[nextHold + 1].started = FALSE
  BY <1>1, <1>3, GrantIsAtOnce
<1>. QED
  BY <1>1, <1>3, <1>4, GrantIsAtOnce

LEMMA BlockBusyIsRefused ==
    ASSUME IInv, NEW p \in Pids, NEW r \in Requests, MayRequest(p, r), BlockBusy(p, r)
    PROVE  Refused(p, r)
<1>1. /\ TicketOf(p) = 0 /\ ~Grantable(p, r, SeqInf)
      /\ AddTicket(p, r, IF Deadlocks(p, r) THEN "failed" ELSE "queued", 0)
      /\ UNCHANGED <<holds, nextGen>>
  BY DEF BlockBusy, MayRequest
<1>2. PICK state \in {"queued", "failed"} :
        /\ AddTicket(p, r, state, 0)
        /\ state = "queued" => ~Deadlocks(p, r)
  BY <1>1
<1>3. TicketAdded(p, state, 0)
  BY <1>2, AddTicketFacts DEF IInv
<1>4. /\ \A t \in Queued(tickets) : tickets[t].pid # p
      /\ \A t \in Queued(tickets) : t < SeqInf
      /\ SeqInf = nextSeq + 1 /\ SeqInf \notin DOMAIN tickets
  BY <1>1, AskerHasNoTicket
<1>5. LET new == tickets'[SeqInf] IN new.pid = p /\ new.mode = r.mode /\ new.keys = r.keys
  BY <1>2, <1>4 DEF AddTicket
<1>6. Queued(tickets') = IF state = "queued" THEN Queued(tickets) \cup {SeqInf} ELSE Queued(tickets)
  BY <1>3, <1>4 DEF TicketAdded, Queued
<1>7. \A t \in Queued(tickets) : tickets'[t] = tickets[t]
  BY <1>3 DEF TicketAdded, Queued
<1>. QED
  BY <1>1, <1>2, <1>4, <1>5, <1>6, <1>7 DEF Refused

LEMMA CancelPasses ==
    ASSUME IInv, NEW p \in Pids, Cancel(p)
    PROVE  Passes({p})
<1>. DEFINE t == TicketOf(p)
            T == [tickets EXCEPT ![t].state = "cancelled"]
<1>1. /\ t \in Queued(tickets)
      /\ Finish(recs, holds, T, abandoned, tickets[t].keys, {p})
      /\ pendingReport' = pendingReport
  BY DEF Cancel
<1>2. /\ HoldsOK(holds, nextHold) /\ TicketsOK(tickets, nextSeq) /\ nextSeq \in Nat
      /\ nextHold \in Nat /\ HoldsLinked(recs, holds) /\ TicketsLinked(recs, tickets)
  BY TypesAndLinks
<1>8. tickets[t].pid = p
  <2>1. t \in DOMAIN tickets /\ t # 0
    BY <1>1, <1>2 DEF Queued, TicketsOK
  <2>. QED
    BY <1>2, <2>1 DEF TicketOf, TicketsLinked
<1>. HIDE DEF t
<1>3. /\ TicketsOK(T, nextSeq) /\ DOMAIN T = DOMAIN tickets
      /\ T[t].state = "cancelled"
      /\ \A u \in DOMAIN tickets : u # t => T[u] = tickets[u]
  BY <1>1, <1>2 DEF TicketsOK, Ticket, Queued
<1>. HIDE DEF T
<1>4. PICK G : /\ Granting(holds, T, abandoned, tickets[t].keys, G)
               /\ abandoned' = abandoned \ UNION {Taken(T[u], abandoned) : u \in G}
  BY <1>1, <1>2, <1>3, FinishGrants
<1>5. Queued(T) = Queued(tickets) \ {t}
  BY <1>3 DEF Queued
<1>6. Dropping(holds, T, tickets[t].keys)
  <2>1. \A u \in Queued(T) : T[u] = tickets[u]
    BY <1>3, <1>5 DEF Queued
  <2>. QED
    BY <1>5, <2>1 DEF Dropping
<1>7. Flagging(holds, T, abandoned, G)
  BY <1>1, <1>4 DEF Flagging
<1>9. DropsOf(holds, T, {p})
  BY <1>5, <1>8 DEF DropsOf
<1>. QED
  BY <1>4, <1>6, <1>7, <1>9 DEF Passes, Passing

LEMMA ReleasePasses ==
    ASSUME IInv, TakenOwn(holds), NEW p \in Pids, NEW i \in HoldIds(recs, p), Release(p, i)
    PROVE  Passes({p})
<1>. DEFINE R == [recs EXCEPT ![p].holds = @ \ {i}]
            H == [j \in DOMAIN holds \ {i} |-> holds[j]]
            flags == abandoned \cup Returned(i)
            region == holds[i].keys
<1>1. /\ TicketOf(p) = 0
      /\ Finish(R, H, tickets, flags, region, {p})
      /\ pendingReport' = pendingReport
  BY DEF Release
<1>2. /\ RecsOK(recs) /\ HoldsOK(holds, nextHold) /\ TicketsOK(tickets, nextSeq)
      /\ nextSeq \in Nat /\ nextHold \in Nat
      /\ HoldsLinked(recs, holds)
  BY TypesAndLinks
<1>3. p \in DOMAIN recs /\ i \in DOMAIN holds /\ holds[i].pid = p
  BY <1>2 DEF HoldsLinked, HoldIds
<1>4. /\ DOMAIN R = DOMAIN recs
      /\ R[p].holds = recs[p].holds \ {i}
      /\ \A q \in DOMAIN recs : q # p => R[q] = recs[q]
  BY <1>2, <1>3 DEF RecsOK, Rec
<1>5. /\ HoldsOK(H, nextHold) /\ DOMAIN H = DOMAIN holds \ {i}
      /\ \A j \in DOMAIN H : H[j] = holds[j]
  BY <1>2 DEF HoldsOK
<1>6. /\ holds[i].started => flags = abandoned
      /\ ~holds[i].started => flags = abandoned \cup holds[i].taken
  BY DEF Returned
<1>. HIDE DEF R, H, flags
<1>7. HoldsLinked(R, H)
  BY <1>2, <1>3, <1>4, <1>5 DEF HoldsLinked
<1>8. \A t \in DOMAIN tickets : tickets[t].pid # p
  BY <1>1, NoTicket DEF IInv
<1>9. PICK G : /\ Granting(H, tickets, flags, region, G)
               /\ abandoned' = flags \ UNION {Taken(tickets[u], flags) : u \in G}
  BY <1>1, <1>2, <1>5, <1>7, FinishGrants
<1>10. DOMAIN holds \ DOMAIN H = {i}
  BY <1>3, <1>5
<1>11. Dropping(H, tickets, region)
  <2>1. \A t \in Queued(tickets) : tickets[t].pid # holds[i].pid
    BY <1>3, <1>8 DEF Queued
  <2>. QED
    BY <1>5, <1>10, <2>1 DEF Dropping
<1>12. Flagging(H, tickets, flags, G)
  <2>1. holds[i].taken \subseteq holds[i].keys
        /\ (holds[i].taken # {} => holds[i].mode = "exclusive")
    BY <1>3 DEF TakenOwn
  <2>. QED
    BY <1>1, <1>6, <1>9, <1>10, <2>1 DEF Flagging
<1>13. DropsOf(H, tickets, {p})
  BY <1>3, <1>10 DEF DropsOf
<1>. HIDE DEF region
<1>. QED
  BY <1>9, <1>11, <1>12, <1>13 DEF Passes, Passing

\* Ending processes drops all that is theirs.
LEMMA EndAllPasses ==
    ASSUME IInv, TakenOwn(holds), NEW E \in SUBSET DOMAIN recs, NEW abandon \in BOOLEAN,
           EndAll(E, abandon)
    PROVE  Passes(E)
<1>. DEFINE gone == UNION {recs[p].holds : p \in E}
            own == {recs[p].ticket : p \in E} \ {0}
            cut == {j \in gone : holds[j].started /\ holds[j].mode = "exclusive"}
            written == IF abandon THEN UNION {holds[i].keys : i \in cut} ELSE {}
            R == [p \in DOMAIN recs \ E |-> recs[p]]
            H == [i \in DOMAIN holds \ gone |-> holds[i]]
            T == [t \in DOMAIN tickets \ own |-> tickets[t]]
            flags == abandoned \cup (UNION {Returned(i) : i \in gone}) \cup written
            region == (UNION {holds[i].keys : i \in gone})
                        \cup (UNION {tickets[t].keys : t \in own \cap Queued(tickets)})
<1>1. /\ Finish(R, H, T, flags, region, {})
      /\ pendingReport' = pendingReport \cup written
  BY DEF EndAll
<1>2. /\ RecsOK(recs) /\ HoldsOK(holds, nextHold) /\ TicketsOK(tickets, nextSeq)
      /\ nextSeq \in Nat /\ nextHold \in Nat
      /\ HoldsLinked(recs, holds) /\ TicketsLinked(recs, tickets)
  BY TypesAndLinks
<1>3. gone = {i \in DOMAIN holds : holds[i].pid \in E}
  BY <1>2 DEF HoldsLinked
<1>4. \A t \in DOMAIN tickets : t \in own <=> tickets[t].pid \in E
  BY <1>2 DEF TicketsLinked, TicketsOK
<1>5. /\ DOMAIN R = DOMAIN recs \ E
      /\ \A q \in DOMAIN R : R[q] = recs[q]
  OBVIOUS
<1>6. /\ HoldsOK(H, nextHold) /\ DOMAIN H = DOMAIN holds \ gone
      /\ \A i \in DOMAIN H : H[i] = holds[i]
  BY <1>2 DEF HoldsOK
<1>7. /\ TicketsOK(T, nextSeq) /\ DOMAIN T = DOMAIN tickets \ own
      /\ \A t \in DOMAIN T : T[t] = tickets[t]
  BY <1>2 DEF TicketsOK
<1>8. /\ \A i \in gone : holds[i].keys \subseteq region
      /\ \A t \in own \cap Queued(tickets) : tickets[t].keys \subseteq region
  OBVIOUS
<1>9. /\ abandoned \subseteq flags /\ written \subseteq flags
      /\ \A i \in gone : ~holds[i].started => holds[i].taken \subseteq flags
      /\ \A k \in flags \ abandoned : \E i \in gone :
            \/ ~holds[i].started /\ k \in holds[i].taken
            \/ holds[i].mode = "exclusive" /\ k \in holds[i].keys
  BY DEF Returned
<1>. HIDE DEF gone, own, cut, written, flags, region, R, H, T
<1>10. HoldsLinked(R, H)
  BY <1>2, <1>3, <1>5, <1>6 DEF HoldsLinked
<1>11. PICK G : /\ Granting(H, T, flags, region, G)
                /\ abandoned' = flags \ UNION {Taken(T[u], flags) : u \in G}
  BY <1>1, <1>2, <1>6, <1>7, <1>10, FinishGrants
<1>12. Queued(T) = Queued(tickets) \ own
  BY <1>7 DEF Queued
<1>13. DOMAIN holds \ DOMAIN H = gone
  BY <1>3, <1>6
<1>14. Dropping(H, T, region)
  <2>1. \A t \in Queued(T) : T[t] = tickets[t] /\ T[t].pid \notin E
    BY <1>4, <1>7, <1>12 DEF Queued
  <2>2. \A i \in gone : holds[i].pid \in E
    BY <1>3
  <2>3. Queued(tickets) \ Queued(T) \subseteq own \cap Queued(tickets)
    BY <1>12
  <2>. QED
    BY <1>6, <1>8, <1>12, <1>13, <2>1, <2>2, <2>3 DEF Dropping
<1>15. Flagging(H, T, flags, G)
  <2>1. \A i \in DOMAIN H : H[i].pid \notin E
    BY <1>3, <1>6
  <2>2. ASSUME NEW k \in flags \ abandoned
        PROVE  \E j \in gone : /\ holds[j].mode = "exclusive" /\ k \in holds[j].keys
                               /\ \A i \in DOMAIN H : H[i].pid # holds[j].pid
    <3>1. PICK j \in gone : \/ ~holds[j].started /\ k \in holds[j].taken
                            \/ holds[j].mode = "exclusive" /\ k \in holds[j].keys
      BY <1>9
    <3>2. j \in DOMAIN holds /\ holds[j].pid \in E
      BY <1>3
    <3>3. holds[j].mode = "exclusive" /\ k \in holds[j].keys
      BY <3>1, <3>2 DEF TakenOwn
    <3>. QED
      BY <2>1, <3>2, <3>3
  <2>. QED
    BY <1>1, <1>9, <1>11, <1>13, <2>2 DEF Flagging
<1>16. DropsOf(H, T, E)
  BY <1>3, <1>4, <1>12, <1>13 DEF DropsOf, Queued
<1>. QED
  BY <1>11, <1>14, <1>15, <1>16 DEF Passes, Passing

LEMMA EndPasses ==
    ASSUME IInv, TakenOwn(holds), NEW p \in Pids, NEW abandon \in BOOLEAN, End(p, abandon)
    PROVE  Passes({p})
<1>1. {p} \in SUBSET DOMAIN recs /\ EndAll({p}, abandon)
  BY DEF End
<1>. QED
  BY <1>1, EndAllPasses

LEMMA DetachHomePasses ==
    ASSUME IInv, TakenOwn(holds), NEW h \in homes, DetachHome(h)
    PROVE  Passes({p \in DOMAIN recs : HomeOf[p] = h})
<1>. DEFINE E == {p \in DOMAIN recs : HomeOf[p] = h}
<1>1. EndAll(E, TRUE)
  BY DEF DetachHome
<1>2. E \in SUBSET DOMAIN recs
  OBVIOUS
<1>. HIDE DEF E
<1>3. Passes(E)
  BY <1>1, <1>2, EndAllPasses
<1>. QED
  BY <1>3 DEF E

\* A step of the table, as its queue sees it.
Step ==
    \/ Quiet
    \/ \E p \in Pids, r \in Requests : AtOnce(p, r) \/ Refused(p, r)
    \/ \E H, T, flags, region, G : Passing(H, T, flags, region, G)

LEMMA StepIs ==
    ASSUME IInv, TakenOwn(holds), [Next]_vars
    PROVE  Step
<1>1. \A E : Passes(E) => Step
  BY DEF Passes, Step
<1>2. Quiet => Step
  BY DEF Step
<1>3. CASE AttachHome
  BY <1>2, <1>3, AttachHomeIsQuiet
<1>4. CASE \E h \in homes : DetachHome(h)
  BY <1>1, <1>4, DetachHomePasses
<1>5. ASSUME NEW p \in Pids, NEW r \in Requests, TryAcquire(p, r) \/ Block(p, r)
      PROVE  Step
  <2>1. CASE TryAcquire(p, r)
    BY <2>1, TryAcquireIsAtOnce DEF Step
  <2>2. CASE Block(p, r)
    <3>1. MayRequest(p, r) /\ (BlockGranted(p, r) \/ BlockBusy(p, r))
      BY <2>2 DEF Block
    <3>. QED
      BY <3>1, BlockGrantedIsAtOnce, BlockBusyIsRefused DEF Step
  <2>. QED
    BY <1>5, <2>1, <2>2
<1>6. CASE \E p \in Pids : Resume(p) \/ Cancel(p)
  BY <1>1, <1>2, <1>6, ResumeIsQuiet, CancelPasses
<1>7. CASE \E p \in Pids : \E i \in HoldIds(recs, p) : StartBody(p, i) \/ Release(p, i)
  BY <1>1, <1>2, <1>7, StartBodyIsQuiet, ReleasePasses
<1>8. CASE \E p \in Pids, abandon \in BOOLEAN : End(p, abandon)
  BY <1>1, <1>8, EndPasses
<1>9. CASE UNCHANGED vars
  BY <1>2, <1>9 DEF vars, counters, Quiet, QueueStays, Alike
<1>. QED
  BY <1>3, <1>4, <1>5, <1>6, <1>7, <1>8, <1>9 DEF Next

-----------------------------------------------------------------------------
(* The queue: no waiter that could go stays queued, and waiting closes no   *)
(* cycle.                                                                   *)

LEMMA ConflictsSymmetric == \A a, b : Conflicts(a, b) <=> Conflicts(b, a)
BY DEF Conflicts, Compat, Overlap

\* Conflicts sees modes and keys alone.
LEMMA ConflictsAlike ==
    ASSUME NEW a, NEW b, a.mode = b.mode, a.keys = b.keys, NEW c
    PROVE  /\ Conflicts(a, c) <=> Conflicts(b, c)
           /\ Conflicts(c, a) <=> Conflicts(c, b)
BY DEF Conflicts, Compat

\* What conflicts with something inside a region touches the region.
LEMMA ConflictTouches ==
    ASSUME NEW a, NEW b, NEW region, Conflicts(a, b), b.keys \subseteq region
    PROVE  Touches(a, region)
BY DEF Conflicts, Touches

\* A quiet step moves no edge.
LEMMA QuietWaits ==
    ASSUME Quiet, NEW t \in Queued(tickets), NEW q
    PROVE  Waits(holds', tickets', t, q) <=> Waits(holds, tickets, t, q)
<1>1. /\ DOMAIN holds' = DOMAIN holds
      /\ \A i \in DOMAIN holds : /\ holds'[i].pid = holds[i].pid
                                 /\ holds'[i].mode = holds[i].mode
                                 /\ holds'[i].keys = holds[i].keys
      /\ Queued(tickets') = Queued(tickets)
      /\ \A u \in Queued(tickets) : tickets'[u] = tickets[u]
  BY DEF Quiet, Alike, QueueStays
<1>2. \A i \in DOMAIN holds : \A c : Conflicts(c, holds'[i]) <=> Conflicts(c, holds[i])
  BY <1>1, ConflictsAlike
<1>3. \A p, c : Spared(holds', p, c) <=> Spared(holds, p, c)
  BY <1>1, <1>2 DEF Spared
<1>4. \A p, r : ByHold(holds', p, r, q) <=> ByHold(holds, p, r, q)
  BY <1>1, <1>2 DEF ByHold
<1>5. \A p, r, s : ByWait(holds', tickets', p, r, s, q) <=> ByWait(holds, tickets, p, r, s, q)
  BY <1>1, <1>3 DEF ByWait
<1>6. tickets'[t] = tickets[t]
  BY <1>1
<1>. QED
  BY <1>4, <1>5, <1>6 DEF Waits, Behind

\* A grant at the request adds edges to its process alone, and takes none.
LEMMA AtOnceWaits ==
    ASSUME NEW p, NEW r, AtOnce(p, r), NEW t \in Queued(tickets), NEW q
    PROVE  /\ Waits(holds, tickets, t, q) => Waits(holds', tickets', t, q)
           /\ q # p /\ Waits(holds', tickets', t, q) => Waits(holds, tickets, t, q)
<1>. DEFINE a == tickets[t].pid
<1>1. /\ a # p
      /\ DOMAIN holds' = DOMAIN holds \cup {nextHold + 1}
      /\ \A i \in DOMAIN holds : holds'[i] = holds[i]
      /\ holds'[nextHold + 1].pid = p
      /\ Queued(tickets') = Queued(tickets)
      /\ \A u \in Queued(tickets) : tickets'[u] = tickets[u]
  BY DEF AtOnce, QueueStays
<1>2. \A c : Spared(holds', a, c) <=> Spared(holds, a, c)
  BY <1>1 DEF Spared
<1>3. /\ ByHold(holds, a, tickets[t], q) => ByHold(holds', a, tickets[t], q)
      /\ q # p /\ ByHold(holds', a, tickets[t], q) => ByHold(holds, a, tickets[t], q)
  BY <1>1 DEF ByHold
<1>4. ByWait(holds', tickets', a, tickets[t], t, q) <=> ByWait(holds, tickets, a, tickets[t], t, q)
  BY <1>1, <1>2 DEF ByWait
<1>5. tickets'[t] = tickets[t]
  BY <1>1
<1>. QED
  BY <1>3, <1>4, <1>5 DEF Waits, Behind

\* A refused request moves no edge of those that queued before it, and waits
\* itself for those it was blocked by.
LEMMA RefusedWaits ==
    ASSUME IInv, NEW p, NEW r, Refused(p, r), NEW q
    PROVE  /\ \A t \in Queued(tickets) :
                  Waits(holds', tickets', t, q) <=> Waits(holds, tickets, t, q)
           /\ SeqInf \in Queued(tickets') =>
                  (Waits(holds', tickets', SeqInf, q)
                    <=> Behind(holds, tickets, p, r, SeqInf, q))
<1>1. /\ \A t \in Queued(tickets) : t < SeqInf /\ tickets'[t] = tickets[t]
      /\ holds' = holds
      /\ SeqInf \notin Queued(tickets)
      /\ \/ Queued(tickets') = Queued(tickets)
         \/ /\ Queued(tickets') = Queued(tickets) \cup {SeqInf}
            /\ tickets'[SeqInf].pid = p /\ tickets'[SeqInf].mode = r.mode
            /\ tickets'[SeqInf].keys = r.keys
  BY DEF Refused, Queued
<1>2. SeqInf \in Nat /\ \A t \in Queued(tickets) : t \in Nat
  BY TypesAndLinks DEF TicketsOK, Queued, SeqInf
<1>3. ASSUME NEW t \in Queued(tickets)
      PROVE  Waits(holds', tickets', t, q) <=> Waits(holds, tickets, t, q)
  <2>. DEFINE a == tickets[t].pid
  <2>1. ASSUME NEW u \in Queued(tickets'), u < t
        PROVE  u \in Queued(tickets)
    <3>1. ~(SeqInf < t)
      BY <1>1, <1>2
    <3>. QED
      BY <1>1, <2>1, <3>1
  <2>2. ByWait(holds', tickets', a, tickets[t], t, q) <=> ByWait(holds, tickets, a, tickets[t], t, q)
    BY <1>1, <2>1 DEF ByWait
  <2>3. tickets'[t] = tickets[t]
    BY <1>1
  <2>. QED
    BY <1>1, <2>2, <2>3 DEF Waits, Behind
<1>4. ASSUME SeqInf \in Queued(tickets')
      PROVE  Waits(holds', tickets', SeqInf, q) <=> Behind(holds, tickets, p, r, SeqInf, q)
  <2>1. /\ Queued(tickets') = Queued(tickets) \cup {SeqInf}
        /\ tickets'[SeqInf].pid = p /\ tickets'[SeqInf].mode = r.mode
        /\ tickets'[SeqInf].keys = r.keys
    BY <1>1, <1>4
  <2>2. \A c : Conflicts(tickets'[SeqInf], c) <=> Conflicts(r, c)
    BY <2>1, ConflictsAlike
  <2>3. \A u \in Queued(tickets') : u < SeqInf => u \in Queued(tickets)
    BY <1>2, <2>1
  <2>4. ByHold(holds', p, tickets'[SeqInf], q) <=> ByHold(holds, p, r, q)
    BY <1>1, <2>2 DEF ByHold
  <2>5. ByWait(holds', tickets', p, tickets'[SeqInf], SeqInf, q)
            <=> ByWait(holds, tickets, p, r, SeqInf, q)
    BY <1>1, <2>1, <2>2, <2>3 DEF ByWait
  <2>. QED
    BY <2>1, <2>4, <2>5 DEF Waits, Behind
<1>. QED
  BY <1>3, <1>4

\* What a pass leaves queued waits for somebody, if it did before the drop; and
\* an edge it adds leads to a process the pass has granted.
LEMMA PassingWaits ==
    ASSUME IInv, NEW H, NEW T, NEW flags, NEW region, NEW G,
           Passing(H, T, flags, region, G), NEW t \in Queued(tickets')
    PROVE  /\ t \in Queued(tickets) /\ tickets'[t] = tickets[t]
           /\ \A g \in G : g \in Queued(tickets) /\ tickets[g].pid # tickets[t].pid
           /\ \A q : Waits(holds', tickets', t, q)
                        => \/ Waits(holds, tickets, t, q)
                           \/ \E g \in G : tickets[g].pid = q
           /\ (\E q : Waits(holds, tickets, t, q)) => \E q : Waits(holds', tickets', t, q)
<1>. DEFINE a == tickets[t].pid
<1>1. /\ DOMAIN H \subseteq DOMAIN holds /\ \A i \in DOMAIN H : H[i] = holds[i]
      /\ Queued(T) \subseteq Queued(tickets) /\ \A u \in Queued(T) : T[u] = tickets[u]
      /\ \A i \in DOMAIN holds \ DOMAIN H :
            holds[i].keys \subseteq region /\ \A u \in Queued(T) : T[u].pid # holds[i].pid
      /\ \A u \in Queued(tickets) \ Queued(T) : tickets[u].keys \subseteq region
  BY DEF Passing, Dropping
<1>2. /\ G \in SUBSET Queued(T)
      /\ \A u \in Queued(T) :
            u \in G <=> /\ Touches(T[u], region)
                        /\ \A q : ~Waits(H, T, u, q)
                        /\ \A v \in G : v < u => ~Conflicts(T[u], T[v])
      /\ Queued(tickets') = Queued(T) \ G
      /\ \A u \in Queued(T) \ G : tickets'[u] = T[u]
  BY DEF Passing, Granting
<1>3. /\ DOMAIN holds' = DOMAIN H \cup {GrantId(G, g) : g \in G}
      /\ \A i \in DOMAIN H : holds'[i] = H[i]
      /\ \A g \in G : /\ holds'[GrantId(G, g)].pid = T[g].pid
                      /\ holds'[GrantId(G, g)].mode = T[g].mode
                      /\ holds'[GrantId(G, g)].keys = T[g].keys
  <2>1. Extends(holds', H, T, flags, G)
    BY DEF Passing, Granting
  <2>2. \A g \in G : LET new == GrantedHold(T, G, flags, g)
                    IN  new.pid = T[g].pid /\ new.mode = T[g].mode /\ new.keys = T[g].keys
    BY DEF GrantedHold
  <2>. QED
    BY <2>1, <2>2 DEF Extends
<1>4. t \in Queued(T) /\ t \notin G /\ t \in Queued(tickets) /\ T[t] = tickets[t] /\ tickets'[t] = tickets[t]
  BY <1>1, <1>2
<1>5. \A u, v \in Queued(tickets) : tickets[u].pid = tickets[v].pid => u = v
  BY Reads DEF Reading, OneTicket, Queued
<1>6. \A g \in G : g \in Queued(tickets) /\ T[g] = tickets[g] /\ tickets[g].pid # a
  BY <1>1, <1>2, <1>4, <1>5
<1>7. \A c : /\ Spared(H, a, c) <=> Spared(holds, a, c)
             /\ Spared(holds', a, c) <=> Spared(holds, a, c)
  <2>1. \A i : i \in DOMAIN holds /\ holds[i].pid = a <=> i \in DOMAIN H /\ H[i].pid = a
    BY <1>1, <1>4
  <2>2. \A i : i \in DOMAIN holds' /\ holds'[i].pid = a <=> i \in DOMAIN H /\ H[i].pid = a
    BY <1>3, <1>6
  <2>3. \A i \in DOMAIN H : H[i] = holds[i] /\ holds'[i] = holds[i]
    BY <1>1, <1>3
  <2>. QED
    BY <2>1, <2>2, <2>3 DEF Spared
<1>8. \A g \in G : \A c : Conflicts(c, holds'[GrantId(G, g)]) <=> Conflicts(c, tickets[g])
  BY <1>3, <1>6, ConflictsAlike
<1>9. ASSUME NEW q, Waits(holds', tickets', t, q)
      PROVE  Waits(holds, tickets, t, q) \/ \E g \in G : tickets[g].pid = q
  <2>1. ByHold(holds', a, tickets[t], q) \/ ByWait(holds', tickets', a, tickets[t], t, q)
    BY <1>4, <1>9 DEF Waits, Behind
  <2>2. CASE ByHold(holds', a, tickets[t], q)
    <3>1. PICK i \in DOMAIN holds' : holds'[i].pid = q /\ q # a /\ Conflicts(tickets[t], holds'[i])
      BY <2>2 DEF ByHold
    <3>2. CASE i \in DOMAIN H
      <4>1. ByHold(holds, a, tickets[t], q)
        BY <1>1, <1>3, <3>1, <3>2 DEF ByHold
      <4>. QED
        BY <4>1 DEF Waits, Behind
    <3>3. CASE i \notin DOMAIN H
      BY <1>3, <1>6, <3>1, <3>3
    <3>. QED
      BY <3>2, <3>3
  <2>3. CASE ByWait(holds', tickets', a, tickets[t], t, q)
    <3>1. ByWait(holds, tickets, a, tickets[t], t, q)
      BY <1>1, <1>2, <1>7, <2>3 DEF ByWait
    <3>. QED
      BY <3>1 DEF Waits, Behind
  <2>. QED
    BY <2>1, <2>2, <2>3
<1>10. ASSUME NEW q, Waits(holds, tickets, t, q)
       PROVE  \E b : Waits(holds', tickets', t, b)
  <2>1. ASSUME NEW g \in G, Conflicts(tickets[t], tickets[g])
        PROVE  \E b : Waits(holds', tickets', t, b)
    <3>1. ByHold(holds', a, tickets[t], tickets[g].pid)
      BY <1>3, <1>6, <1>8, <2>1, SMTT(30) DEF ByHold
    <3>. QED
      BY <1>4, <3>1 DEF Waits, Behind
  <2>2. ASSUME NEW b, ByHold(H, a, tickets[t], b)
        PROVE  Waits(holds', tickets', t, b)
    <3>1. ByHold(holds', a, tickets[t], b)
      BY <1>3, <2>2 DEF ByHold
    <3>. QED
      BY <1>4, <3>1 DEF Waits, Behind
  <2>3. ASSUME NEW b, ByWait(H, T, a, tickets[t], t, b)
        PROVE  \E c : Waits(holds', tickets', t, c)
    <3>1. PICK u \in Queued(T) : /\ u < t /\ T[u].pid = b /\ b # a
                                 /\ Conflicts(tickets[t], T[u]) /\ ~Spared(H, a, T[u])
      BY <2>3 DEF ByWait
    <3>2. T[u] = tickets[u]
      BY <1>1
    <3>3. CASE u \in G
      BY <2>1, <3>1, <3>2, <3>3
    <3>4. CASE u \notin G
      <4>1. ByWait(holds', tickets', a, tickets[t], t, b)
        BY <1>2, <1>7, <3>1, <3>2, <3>4 DEF ByWait
      <4>. QED
        BY <1>4, <4>1 DEF Waits, Behind
    <3>. QED
      BY <3>3, <3>4
  <2>4. CASE \E b : Waits(H, T, t, b)
    BY <1>4, <2>2, <2>3, <2>4 DEF Waits, Behind
  <2>5. CASE \E u \in G : u < t /\ Conflicts(T[t], T[u])
    BY <1>4, <1>6, <2>1, <2>5
  <2>6. CASE ~Touches(tickets[t], region)
    <3>1. ASSUME ByHold(holds, a, tickets[t], q)
          PROVE  ByHold(H, a, tickets[t], q)
      <4>1. PICK i \in DOMAIN holds : holds[i].pid = q /\ q # a /\ Conflicts(tickets[t], holds[i])
        BY <3>1 DEF ByHold
      <4>2. i \in DOMAIN H
        BY <1>1, <2>6, <4>1, ConflictTouches
      <4>. QED
        BY <1>1, <4>1, <4>2 DEF ByHold
    <3>2. ASSUME ByWait(holds, tickets, a, tickets[t], t, q)
          PROVE  ByWait(H, T, a, tickets[t], t, q)
      <4>1. PICK u \in Queued(tickets) :
                /\ u < t /\ tickets[u].pid = q /\ q # a
                /\ Conflicts(tickets[t], tickets[u]) /\ ~Spared(holds, a, tickets[u])
        BY <3>2 DEF ByWait
      <4>2. u \in Queued(T)
        BY <1>1, <2>6, <4>1, ConflictTouches
      <4>. QED
        BY <1>1, <1>7, <4>1, <4>2 DEF ByWait
    <3>3. Waits(H, T, t, q)
      BY <1>4, <1>10, <3>1, <3>2 DEF Waits, Behind
    <3>. QED
      BY <2>4, <3>3
  <2>. QED
    BY <1>2, <1>4, <2>4, <2>5, <2>6
<1>. QED
  BY <1>4, <1>6, <1>9, <1>10

\* I6 in terms of who waits for whom.
LEMMA MissedGrantIs == Reading =>
    (NoMissedGrant <=> \A t \in Queued(tickets) : \E q : Waits(holds, tickets, t, q))
BY DEF Reading, GrantableIs, NoMissedGrant, Waits

LEMMA MissedGrantIsNext == (Reading =>
    (NoMissedGrant <=> \A t \in Queued(tickets) : \E q : Waits(holds, tickets, t, q)))'
BY MissedGrantIs, PTL

\* No step leaves a waiter behind that nobody blocks.
LEMMA NoMissedGrantKept ==
    ASSUME IInv, IInv', NoMissedGrant, Step
    PROVE  NoMissedGrant'
<1>1. \A t \in Queued(tickets) : \E q : Waits(holds, tickets, t, q)
  BY Reads, MissedGrantIs
<1>. SUFFICES ASSUME NEW t \in Queued(tickets')
              PROVE  \E q : Waits(holds', tickets', t, q)
  BY ReadsNext, MissedGrantIsNext
<1>2. CASE Quiet
  <2>1. t \in Queued(tickets)
    BY <1>2 DEF Quiet, QueueStays
  <2>. QED
    BY <1>1, <1>2, <2>1, QuietWaits
<1>3. ASSUME NEW p, NEW r, AtOnce(p, r)
      PROVE  \E q : Waits(holds', tickets', t, q)
  <2>1. t \in Queued(tickets)
    BY <1>3 DEF AtOnce, QueueStays
  <2>. QED
    BY <1>1, <1>3, <2>1, AtOnceWaits
<1>4. ASSUME NEW p, NEW r, Refused(p, r)
      PROVE  \E q : Waits(holds', tickets', t, q)
  <2>1. CASE t \in Queued(tickets)
    BY <1>1, <1>4, <2>1, RefusedWaits
  <2>2. CASE t \notin Queued(tickets)
    <3>1. t = SeqInf /\ ~Grantable(p, r, SeqInf)
      BY <1>4, <2>2 DEF Refused
    <3>2. PICK q : Behind(holds, tickets, p, r, SeqInf, q)
      BY <3>1, Reads DEF Reading, GrantableIs
    <3>3. Waits(holds', tickets', SeqInf, q)
      BY <1>4, <3>1, <3>2, RefusedWaits
    <3>. QED
      BY <3>1, <3>3
  <2>. QED
    BY <2>1, <2>2
<1>5. ASSUME NEW H, NEW T, NEW flags, NEW region, NEW G, Passing(H, T, flags, region, G)
      PROVE  \E q : Waits(holds', tickets', t, q)
  <2>1. /\ t \in Queued(tickets)
        /\ (\E q : Waits(holds, tickets, t, q)) => \E q : Waits(holds', tickets', t, q)
    BY <1>5, PassingWaits
  <2>. QED
    BY <1>1, <2>1
<1>. QED
  BY <1>2, <1>3, <1>4, <1>5 DEF Step

\* I7 in those terms.
EdgesEnd ==
    \A C \in SUBSET Pids : C # {} =>
        \E a \in C : \A b \in C : ~Edge(a, b)

LEMMA NoDeadlockIs == Reading => (NoDeadlock <=> EdgesEnd)
<1>. SUFFICES ASSUME Reading PROVE NoDeadlock <=> EdgesEnd
  OBVIOUS
<1>1. \A C \in SUBSET Pids : \A a \in C : Succ(a) \cap C = {} <=> \A b \in C : ~Edge(a, b)
  BY DEF Reading, SuccIs
<1>. QED
  BY <1>1 DEF NoDeadlock, EdgesEnd

LEMMA NoDeadlockIsNext == (Reading => (NoDeadlock <=> EdgesEnd))'
BY NoDeadlockIs, PTL

\* Edges gained by none but towards processes that wait for nobody close no
\* cycle.
LEMMA NoCycleKept ==
    ASSUME EdgesEnd, NEW S, \A a \in S : \A b : ~Edge(a, b)',
           \A a, b : Edge(a, b)' => Edge(a, b) \/ b \in S
    PROVE  EdgesEnd'
<1>. SUFFICES ASSUME NEW C \in SUBSET Pids, C # {}
              PROVE  \E a \in C : \A b \in C : ~Edge(a, b)'
  BY DEF EdgesEnd
<1>1. CASE \E a \in C : a \in S
  BY <1>1
<1>2. CASE \A a \in C : a \notin S
  <2>1. PICK a \in C : \A b \in C : ~Edge(a, b)
    BY DEF EdgesEnd
  <2>. QED
    BY <1>2, <2>1
<1>. QED
  BY <1>1, <1>2

\* A refused request queues only if waiting closes no cycle: there is a set
\* of processes, closed under waiting, with all it would wait for and not it.
LEMMA RefusedEnds ==
    ASSUME IInv, EdgesEnd, NEW p \in Pids, NEW r, Refused(p, r)
    PROVE  EdgesEnd'
<1>1. /\ \A t \in Queued(tickets) : tickets[t].pid # p /\ tickets'[t] = tickets[t]
      /\ \/ Queued(tickets') = Queued(tickets)
         \/ /\ Queued(tickets') = Queued(tickets) \cup {SeqInf}
            /\ tickets'[SeqInf].pid = p /\ ~Deadlocks(p, r)
  BY DEF Refused
<1>2. \A t \in Queued(tickets), q \in Pids : Waits(holds', tickets', t, q) <=> Waits(holds, tickets, t, q)
  BY RefusedWaits
<1>3. ASSUME NEW a, NEW b \in Pids, a # p
      PROVE  Edge(a, b)' <=> Edge(a, b)
  BY <1>1, <1>2, <1>3 DEF Edge
<1>4. CASE Queued(tickets') = Queued(tickets)
  <2>1. \A a, b \in Pids : Edge(a, b)' => Edge(a, b)
    BY <1>1, <1>2, <1>4 DEF Edge
  <2>. QED
    BY <2>1 DEF EdgesEnd
<1>5. CASE SeqInf \in Queued(tickets') /\ tickets'[SeqInf].pid = p /\ ~Deadlocks(p, r)
  <2>1. PICK D \in SUBSET Pids : /\ Targets(p, r, SeqInf) \subseteq D
                                 /\ \A a \in D : Succ(a) \subseteq D
                                 /\ p \notin D
    BY <1>5 DEF Deadlocks, Reaches
  <2>2. ASSUME NEW b \in Pids, Edge(p, b)'
        PROVE  b \in D
    <3>1. PICK t \in Queued(tickets') : tickets'[t].pid = p /\ Waits(holds', tickets', t, b)
      BY <2>2 DEF Edge
    <3>2. t = SeqInf
      BY <1>1, <3>1
    <3>3. Behind(holds, tickets, p, r, SeqInf, b)
      BY <1>5, <3>1, <3>2, RefusedWaits
    <3>. QED
      BY <2>1, <3>3, Reads DEF Reading, TargetsAre
  <2>3. \A a \in D : \A b : Edge(a, b) => b \in D
    BY <2>1, Reads DEF Reading, SuccIs
  <2>. SUFFICES ASSUME NEW C \in SUBSET Pids, C # {}
                PROVE  \E a \in C : \A b \in C : ~Edge(a, b)'
    BY DEF EdgesEnd
  <2>4. CASE C \cap D # {}
    <3>1. PICK a \in C \cap D : \A b \in C \cap D : ~Edge(a, b)
      BY <2>4 DEF EdgesEnd
    <3>2. \A b \in C : ~Edge(a, b)
      BY <2>3, <3>1
    <3>. QED
      BY <1>3, <2>1, <3>1, <3>2
  <2>5. CASE C \cap D = {} /\ p \in C
    BY <2>2, <2>5
  <2>6. CASE p \notin C
    <3>1. PICK a \in C : \A b \in C : ~Edge(a, b)
      BY DEF EdgesEnd
    <3>. QED
      BY <1>3, <2>6, <3>1
  <2>. QED
    BY <2>4, <2>5, <2>6
<1>. QED
  BY <1>1, <1>4, <1>5

\* Every step keeps the wait-for graph without a cycle.
LEMMA NoDeadlockKept ==
    ASSUME IInv, IInv', NoDeadlock, Step
    PROVE  NoDeadlock'
<1>1. EdgesEnd
  BY Reads, NoDeadlockIs
<1>. SUFFICES EdgesEnd'
  BY ReadsNext, NoDeadlockIsNext
<1>2. CASE Quiet
  <2>1. \A a, b : Edge(a, b)' => Edge(a, b)
    BY <1>2, QuietWaits DEF Quiet, QueueStays, Edge
  <2>. QED
    BY <1>1, <2>1 DEF EdgesEnd
<1>3. ASSUME NEW p \in Pids, NEW r, AtOnce(p, r)
      PROVE  EdgesEnd'
  <2>1. \A t \in Queued(tickets) : tickets[t].pid # p
    BY <1>3 DEF AtOnce
  <2>2. Queued(tickets') = Queued(tickets) /\ \A t \in Queued(tickets) : tickets'[t] = tickets[t]
    BY <1>3 DEF AtOnce, QueueStays
  <2>3. \A b : ~Edge(p, b)'
    BY <2>1, <2>2 DEF Edge
  <2>4. \A a, b : Edge(a, b)' => Edge(a, b) \/ b = p
    BY <1>3, <2>2, AtOnceWaits DEF Edge
  <2>. DEFINE S == {p}
  <2>5. /\ \A a \in S : \A b : ~Edge(a, b)'
        /\ \A a, b : Edge(a, b)' => Edge(a, b) \/ b \in S
    BY <2>3, <2>4
  <2>. HIDE DEF S
  <2>. QED
    BY <1>1, <2>5, NoCycleKept
<1>4. ASSUME NEW p \in Pids, NEW r, Refused(p, r)
      PROVE  EdgesEnd'
  BY <1>1, <1>4, RefusedEnds
<1>5. ASSUME NEW H, NEW T, NEW flags, NEW region, NEW G, Passing(H, T, flags, region, G)
      PROVE  EdgesEnd'
  <2>. DEFINE S == {tickets[g].pid : g \in G}
  <2>1. ASSUME NEW t \in Queued(tickets')
        PROVE  /\ t \in Queued(tickets) /\ tickets'[t] = tickets[t]
               /\ tickets'[t].pid \notin S
               /\ \A q : Waits(holds', tickets', t, q)
                            => Waits(holds, tickets, t, q) \/ q \in S
    <3>1. /\ t \in Queued(tickets) /\ tickets'[t] = tickets[t]
          /\ \A g \in G : tickets[g].pid # tickets[t].pid
          /\ \A q : Waits(holds', tickets', t, q)
                        => Waits(holds, tickets, t, q) \/ \E g \in G : tickets[g].pid = q
      BY <1>5, PassingWaits
    <3>. QED
      BY <3>1
  <2>. HIDE DEF S
  <2>2. /\ \A a \in S : \A b : ~Edge(a, b)'
        /\ \A a, b : Edge(a, b)' => Edge(a, b) \/ b \in S
    BY <2>1 DEF Edge
  <2>. QED
    BY <1>1, <2>2, NoCycleKept
<1>. QED
  BY <1>2, <1>3, <1>4, <1>5 DEF Step

-----------------------------------------------------------------------------
(* Order and fencing: who is passed, and the generations grants carry.      *)

\* Nobody is passed but by a process that already blocks him.
LEMMA PassedOnlyByRule ==
    ASSUME IInv, IInv', Step
    PROVE  PassedByRule
<1>1. HoldsLinked(recs, holds)
  BY TypesAndLinks
<1>2. \A p, u : Exempt(recs, holds, p, u) <=> Spared(holds, p, u)
  BY <1>1, SparedIsExempt
<1>. SUFFICES ASSUME NEW i \in DOMAIN holds' \ DOMAIN holds, NEW u \in Queued(tickets'),
                     tickets'[u].pid # holds'[i].pid,
                     \A t \in DOMAIN tickets' : tickets'[t].hold = i => u < t,
                     Conflicts(holds'[i], tickets'[u])
              PROVE  Spared(holds, holds'[i].pid, tickets'[u])
  BY <1>2 DEF PassedByRule
<1>3. CASE Quiet
  BY <1>3 DEF Quiet
<1>4. ASSUME NEW p, NEW r, AtOnce(p, r)
      PROVE  Spared(holds, holds'[i].pid, tickets'[u])
  <2>1. /\ i = nextHold + 1 /\ holds'[i].pid = p
        /\ holds'[i].mode = r.mode /\ holds'[i].keys = r.keys
    BY <1>4 DEF AtOnce
  <2>2. u \in Queued(tickets) /\ tickets'[u] = tickets[u] /\ u < SeqInf
    BY <1>4 DEF AtOnce, QueueStays
  <2>3. Conflicts(r, tickets[u])
    BY <2>1, <2>2, ConflictsAlike
  <2>4. \A q : ~Behind(holds, tickets, p, r, SeqInf, q)
    BY <1>4, Reads DEF AtOnce, Reading, GrantableIs
  <2>5. ~ByWait(holds, tickets, p, r, SeqInf, tickets[u].pid)
    BY <2>4 DEF Behind
  <2>. QED
    BY <2>1, <2>2, <2>3, <2>5 DEF ByWait
<1>5. CASE holds' = holds
  BY <1>5
<1>6. ASSUME NEW H, NEW T, NEW flags, NEW region, NEW G, Passing(H, T, flags, region, G)
      PROVE  Spared(holds, holds'[i].pid, tickets'[u])
  <2>1. /\ DOMAIN H \subseteq DOMAIN holds /\ \A j \in DOMAIN H : H[j] = holds[j]
        /\ G \in SUBSET Queued(T)
        /\ Queued(tickets') = Queued(T) \ G
        /\ \A t \in Queued(T) \ G : tickets'[t] = T[t]
        /\ \A t \in G : \A q : ~Waits(H, T, t, q)
    BY <1>6 DEF Passing, Dropping, Granting
  <2>2. PICK t \in G : /\ i = GrantId(G, t)
                       /\ holds'[i].pid = T[t].pid /\ holds'[i].mode = T[t].mode
                       /\ holds'[i].keys = T[t].keys
    <3>1. Extends(holds', H, T, flags, G)
      BY <1>6 DEF Passing, Granting
    <3>2. PICK t \in G : i = GrantId(G, t)
      <4>1. i \notin DOMAIN H
        BY <2>1
      <4>. QED
        BY <3>1, <4>1 DEF Extends
    <3>3. holds'[i] = GrantedHold(T, G, flags, t)
      BY <3>1, <3>2 DEF Extends
    <3>. QED
      BY <3>2, <3>3 DEF GrantedHold
  <2>3. t \in DOMAIN tickets' /\ tickets'[t].hold = i
    <3>1. \A g \in G : g \in DOMAIN tickets' /\ tickets'[g].hold = GrantId(G, g)
      BY <1>6 DEF Passing, Granting
    <3>. QED
      BY <2>2, <3>1
  <2>4. u \in Queued(T) /\ tickets'[u] = T[u] /\ u < t
    BY <2>1, <2>3
  <2>5. Conflicts(T[t], T[u])
    BY <2>2, <2>4, ConflictsAlike
  <2>6. ~ByWait(H, T, T[t].pid, T[t], t, T[u].pid)
    BY <2>1 DEF Waits, Behind
  <2>7. Spared(H, T[t].pid, T[u])
    BY <2>2, <2>4, <2>5, <2>6 DEF ByWait
  <2>. QED
    BY <2>1, <2>2, <2>4, <2>7 DEF Spared
<1>7. ASSUME NEW p, NEW r, Refused(p, r)
      PROVE  holds' = holds
  BY <1>7 DEF Refused
<1>. QED
  BY <1>3, <1>4, <1>5, <1>6, <1>7 DEF Step

\* Tickets granted in one pass get generations in the order of their ids, an
\* exclusive one a generation of its own.
LEMMA GrantGensGrow ==
    ASSUME nextHold \in Nat, nextGen \in Nat, NEW n \in Nat, NEW G \in SUBSET (1 .. n), NEW T
    PROVE  LET all == Cardinality({t \in G : T[t].mode = "exclusive"})
           IN  /\ all \in Nat
               /\ \A t \in G : /\ GrantGen(T, G, t) \in nextGen .. nextGen + all
                               /\ T[t].mode = "exclusive" => GrantGen(T, G, t) > nextGen
               /\ \A t, u \in G : GrantId(G, u) < GrantId(G, t) =>
                    /\ GrantGen(T, G, u) <= GrantGen(T, G, t)
                    /\ T[t].mode = "exclusive" => GrantGen(T, G, u) < GrantGen(T, G, t)
<1>. DEFINE Ex(t) == {u \in UpTo(G, t) : T[u].mode = "exclusive"}
            All == {t \in G : T[t].mode = "exclusive"}
<1>1. \A t \in G : t \in Nat
  OBVIOUS
<1>2. \A S \in SUBSET G : IsFiniteSet(S) /\ Cardinality(S) \in Nat
  BY BoundedFinite
<1>3. \A t \in G : Ex(t) \in SUBSET All /\ (T[t].mode = "exclusive" => t \in Ex(t))
  BY <1>1 DEF UpTo
<1>4. All \in SUBSET G /\ \A t \in G : Ex(t) \in SUBSET G
  BY DEF UpTo
<1>5. \A t \in G : GrantGen(T, G, t) = nextGen + Cardinality(Ex(t))
  BY DEF GrantGen
<1>6. ASSUME NEW t \in G, NEW u \in G, GrantId(G, u) < GrantId(G, t)
      PROVE  u < t
  <2>1. CASE t <= u
    <3>1. UpTo(G, t) \in SUBSET UpTo(G, u) /\ UpTo(G, u) \in SUBSET G
      <4>1. \A v \in G : v <= t => v <= u
        BY <1>1, <2>1
      <4>. QED
        BY <4>1 DEF UpTo
    <3>2. Cardinality(UpTo(G, t)) <= Cardinality(UpTo(G, u))
      BY <1>2, <3>1, FS_Subset
    <3>3. Cardinality(UpTo(G, t)) \in Nat /\ Cardinality(UpTo(G, u)) \in Nat
      BY <1>2, <3>1
    <3>. QED
      BY <1>6, <3>2, <3>3 DEF GrantId
  <2>. QED
    BY <1>1, <2>1
<1>7. ASSUME NEW t \in G, NEW u \in G, u < t
      PROVE  Ex(u) \in SUBSET Ex(t) /\ (T[t].mode = "exclusive" => Ex(u) # Ex(t))
  <2>1. t \notin UpTo(G, u)
    BY <1>1, <1>7 DEF UpTo
  <2>2. UpTo(G, u) \in SUBSET UpTo(G, t)
    <3>1. \A v \in G : v <= u => v <= t
      BY <1>1, <1>7
    <3>. QED
      BY <3>1 DEF UpTo
  <2>. QED
    BY <1>3, <2>1, <2>2
<1>. HIDE DEF Ex, All
<1>8. ASSUME NEW t \in G
      PROVE  /\ GrantGen(T, G, t) \in nextGen .. nextGen + Cardinality(All)
             /\ T[t].mode = "exclusive" => GrantGen(T, G, t) > nextGen
  <2>1. Cardinality(Ex(t)) <= Cardinality(All)
    BY <1>2, <1>3, <1>4, FS_Subset
  <2>2. T[t].mode = "exclusive" => Cardinality(Ex(t)) # 0
    BY <1>2, <1>3, <1>4, FS_EmptySet
  <2>3. Cardinality(Ex(t)) \in Nat /\ Cardinality(All) \in Nat
    BY <1>2, <1>4
  <2>4. GrantGen(T, G, t) = nextGen + Cardinality(Ex(t))
    BY <1>5
  <2>. QED
    BY <2>1, <2>2, <2>3, <2>4
<1>9. ASSUME NEW t \in G, NEW u \in G, GrantId(G, u) < GrantId(G, t)
      PROVE  /\ GrantGen(T, G, u) <= GrantGen(T, G, t)
             /\ T[t].mode = "exclusive" => GrantGen(T, G, u) < GrantGen(T, G, t)
  <2>1. Ex(u) \in SUBSET Ex(t) /\ (T[t].mode = "exclusive" => Ex(u) # Ex(t))
    BY <1>6, <1>7, <1>9
  <2>2. /\ Cardinality(Ex(u)) <= Cardinality(Ex(t))
        /\ Cardinality(Ex(u)) = Cardinality(Ex(t)) => Ex(u) = Ex(t)
    BY <1>2, <1>4, <2>1, FS_Subset
  <2>3. Cardinality(Ex(u)) \in Nat /\ Cardinality(Ex(t)) \in Nat
    BY <1>2, <1>4
  <2>. QED
    BY <1>5, <2>1, <2>2, <2>3
<1>. QED
  BY <1>2, <1>4, <1>8, <1>9 DEF All

LEMMA Greatest ==
    ASSUME NEW n \in Nat, NEW S \in SUBSET (1 .. n), S # {}
    PROVE  \E x \in S : \A y \in S : y <= x
<1>. DEFINE R == {n - y : y \in S}
<1>1. R \in SUBSET Nat /\ R # {}
  <2>1. \A y \in S : n - y \in Nat
    OBVIOUS
  <2>. QED
    BY <2>1
<1>2. PICK z \in R : \A w \in R : ~(w < z)
  <2>. HIDE DEF R
  <2>. QED
    BY <1>1, Least
<1>3. PICK x \in S : z = n - x
  BY <1>2
<1>4. \A y \in S : ~(n - y < n - x)
  BY <1>2, <1>3
<1>. QED
  BY <1>4

\* Among the tickets granted in one pass, a shared one's generation is that of
\* the last exclusive one before it, or the counter's if there is none, and the
\* counter is left at that of the last exclusive one.
LEMMA GrantGensLast ==
    ASSUME nextHold \in Nat, nextGen \in Nat, NEW n \in Nat, NEW G \in SUBSET (1 .. n), NEW T
    PROVE  LET ex == {t \in G : T[t].mode = "exclusive"}
           IN  /\ \A t \in G : GrantId(G, t) \in Nat /\ GrantId(G, t) > nextHold
               /\ \A t \in G : T[t].mode # "exclusive" =>
                    \/ GrantGen(T, G, t) = nextGen
                    \/ \E u \in ex : /\ GrantId(G, u) < GrantId(G, t)
                                    /\ GrantGen(T, G, u) = GrantGen(T, G, t)
               /\ \/ Cardinality(ex) = 0
                  \/ \E u \in ex : GrantGen(T, G, u) = nextGen + Cardinality(ex)
<1>. DEFINE Ex(D) == {u \in D : T[u].mode = "exclusive"}
<1>1. \A t \in G : t \in Nat
  OBVIOUS
<1>2. \A S \in SUBSET G : IsFiniteSet(S) /\ Cardinality(S) \in Nat
  BY BoundedFinite
<1>3. \A t \in G : GrantGen(T, G, t) = nextGen + Cardinality(Ex(UpTo(G, t)))
  BY DEF GrantGen
<1>4. \A t \in G : UpTo(G, t) \in SUBSET G /\ t \in UpTo(G, t)
  BY <1>1 DEF UpTo
<1>5. \A t \in G : GrantId(G, t) \in Nat /\ GrantId(G, t) > nextHold
  <2>. SUFFICES ASSUME NEW t \in G
                PROVE  GrantId(G, t) \in Nat /\ GrantId(G, t) > nextHold
    OBVIOUS
  <2>1. UpTo(G, t) # {} /\ IsFiniteSet(UpTo(G, t)) /\ Cardinality(UpTo(G, t)) \in Nat
    BY <1>2, <1>4
  <2>2. Cardinality(UpTo(G, t)) # 0
    BY <2>1, FS_EmptySet
  <2>. QED
    BY <2>1, <2>2 DEF GrantId
<1>6. ASSUME NEW D \in SUBSET G, \A u \in D, v \in G : v <= u => v \in D
      PROVE  \/ Cardinality(Ex(D)) = 0
             \/ \E u \in Ex(D) : GrantGen(T, G, u) = nextGen + Cardinality(Ex(D))
  <2>1. CASE Ex(D) = {}
    BY <2>1, FS_EmptySet
  <2>2. CASE Ex(D) # {}
    <3>1. PICK u \in Ex(D) : \A v \in Ex(D) : v <= u
      <4>1. Ex(D) \in SUBSET (1 .. n)
        OBVIOUS
      <4>. QED
        BY <2>2, <4>1, Greatest
    <3>2. Ex(UpTo(G, u)) = Ex(D)
      BY <1>6, <3>1 DEF UpTo
    <3>. QED
      BY <1>3, <3>1, <3>2
  <2>. QED
    BY <2>1, <2>2
<1>7. ASSUME NEW t \in G, T[t].mode # "exclusive"
      PROVE  \/ GrantGen(T, G, t) = nextGen
             \/ \E u \in Ex(G) : /\ GrantId(G, u) < GrantId(G, t)
                                /\ GrantGen(T, G, u) = GrantGen(T, G, t)
  <2>1. \A u \in UpTo(G, t), v \in G : v <= u => v \in UpTo(G, t)
    BY <1>1 DEF UpTo
  <2>2. CASE Cardinality(Ex(UpTo(G, t))) = 0
    BY <1>3, <2>2
  <2>3. CASE \E u \in Ex(UpTo(G, t)) : GrantGen(T, G, u) = nextGen + Cardinality(Ex(UpTo(G, t)))
    <3>1. PICK u \in Ex(UpTo(G, t)) : GrantGen(T, G, u) = GrantGen(T, G, t)
      BY <1>3, <2>3
    <3>2. u \in G /\ u < t /\ u \in Ex(G)
      <4>1. u \in G /\ u <= t /\ T[u].mode = "exclusive"
        BY DEF UpTo
      <4>2. u # t /\ u \in Nat /\ t \in Nat
        BY <1>1, <1>7, <4>1
      <4>. QED
        BY <4>1, <4>2
    <3>3. /\ UpTo(G, u) \in SUBSET UpTo(G, t) /\ t \notin UpTo(G, u)
      <4>1. \A v \in G : v <= u => v <= t
        BY <1>1, <3>2
      <4>2. ~(t <= u)
        BY <1>1, <3>2
      <4>. QED
        BY <4>1, <4>2 DEF UpTo
    <3>4. /\ Cardinality(UpTo(G, u)) <= Cardinality(UpTo(G, t))
          /\ Cardinality(UpTo(G, u)) # Cardinality(UpTo(G, t))
      BY <1>2, <1>4, <3>3, FS_Subset
    <3>5. GrantId(G, u) < GrantId(G, t)
      BY <1>2, <1>4, <3>2, <3>4 DEF GrantId
    <3>. QED
      BY <3>1, <3>2, <3>5
  <2>. QED
    BY <1>4, <1>6, <2>1, <2>2, <2>3
<1>8. \/ Cardinality(Ex(G)) = 0
      \/ \E u \in Ex(G) : GrantGen(T, G, u) = nextGen + Cardinality(Ex(G))
  BY <1>6
<1>. QED
  BY <1>5, <1>7, <1>8

\* A step that grants nothing leaves the counter where it is.
LEMMA NothingNewFenced ==
    ASSUME nextGen \in Nat, nextGen' = nextGen, DOMAIN holds' \subseteq DOMAIN holds
    PROVE  FencedGrants
BY DEF FencedGrants, IsGreatest, Given

\* Every grant is fenced off from those before it.
LEMMA GrantsFenced ==
    ASSUME IInv, IInv', GensBounded, Step
    PROVE  FencedGrants /\ GensBounded'
<1>1. /\ nextGen \in Nat /\ nextHold \in Nat /\ HoldsOK(holds, nextHold)
      /\ TicketsOK(tickets, nextSeq) /\ nextSeq \in Nat
  BY TypesAndLinks
<1>2. \A j \in DOMAIN holds : /\ j \in 1 .. nextHold /\ holds[j].gen \in Nat
                              /\ holds[j].gen <= nextGen
  BY <1>1 DEF HoldsOK, Hold, GensBounded
<1>3. CASE Quiet
  <2>1. DOMAIN holds' = DOMAIN holds /\ nextGen' = nextGen
        /\ \A j \in DOMAIN holds : holds'[j].gen = holds[j].gen
    BY <1>3 DEF Quiet
  <2>. QED
    BY <1>1, <2>1, NothingNewFenced DEF GensBounded
<1>4. ASSUME NEW p, NEW r, AtOnce(p, r)
      PROVE  FencedGrants /\ GensBounded'
  <2>1. /\ DOMAIN holds' = DOMAIN holds \cup {nextHold + 1}
        /\ \A j \in DOMAIN holds : holds'[j] = holds[j]
        /\ holds'[nextHold + 1].gen = nextGen' /\ holds'[nextHold + 1].mode = r.mode
        /\ nextHold + 1 \notin DOMAIN holds
        /\ nextGen' = IF r.mode = "exclusive" THEN nextGen + 1 ELSE nextGen
    BY <1>4 DEF AtOnce, NextGen
  <2>2. GensBounded'
    BY <1>1, <1>2, <2>1 DEF GensBounded
  <2>3. \A j \in DOMAIN holds' : j < nextHold + 1 => j \in DOMAIN holds
    BY <1>1, <2>1
  <2>4. FencedGrants
    <3>1. DOMAIN holds' \ DOMAIN holds = {nextHold + 1}
      BY <2>1
    <3>2. {j \in {nextHold + 1} : j < nextHold + 1} = {}
      BY <1>1
    <3>3. Given({}) = {nextGen}
      BY DEF Given
    <3>4. \A j \in DOMAIN holds : holds'[j].gen \in Nat /\ holds'[j].gen <= nextGen
      BY <1>2, <2>1
    <3>5. CASE r.mode = "exclusive"
      <4>1. Given({nextHold + 1}) = {nextGen, nextGen + 1}
        BY <2>1, <3>5 DEF Given
      <4>2. IsGreatest(nextGen', Given({nextHold + 1}))
        BY <1>1, <2>1, <3>5, <4>1 DEF IsGreatest
      <4>3. holds'[nextHold + 1].mode = "exclusive" /\ holds'[nextHold + 1].gen = nextGen + 1
        BY <2>1, <3>5
      <4>4. \A j \in DOMAIN holds' : j < nextHold + 1 => holds'[j].gen < nextGen + 1
        BY <1>1, <2>3, <3>4
      <4>5. nextGen < nextGen + 1
        BY <1>1
      <4>. QED
        BY <3>1, <3>2, <3>3, <4>2, <4>3, <4>4, <4>5 DEF FencedGrants
    <3>6. CASE r.mode # "exclusive"
      <4>1. Given({nextHold + 1}) = {nextGen}
        BY <2>1, <3>6 DEF Given
      <4>2. holds'[nextHold + 1].mode # "exclusive" /\ holds'[nextHold + 1].gen = nextGen
        BY <2>1, <3>6
      <4>3. nextGen' = nextGen /\ IsGreatest(nextGen, {nextGen})
        BY <1>1, <2>1, <3>6 DEF IsGreatest
      <4>. QED
        BY <3>1, <3>2, <3>3, <4>1, <4>2, <4>3 DEF FencedGrants
    <3>. QED
      BY <3>5, <3>6
  <2>. QED
    BY <2>2, <2>4
<1>5. ASSUME NEW p, NEW r, Refused(p, r)
      PROVE  FencedGrants /\ GensBounded'
  <2>1. holds' = holds /\ nextGen' = nextGen
    BY <1>5 DEF Refused
  <2>. QED
    BY <1>1, <2>1, NothingNewFenced DEF GensBounded
<1>6. ASSUME NEW H, NEW T, NEW flags, NEW region, NEW G, Passing(H, T, flags, region, G)
      PROVE  FencedGrants /\ GensBounded'
  <2>1. /\ DOMAIN H \subseteq DOMAIN holds /\ \A j \in DOMAIN H : H[j] = holds[j]
        /\ G \in SUBSET Queued(T) /\ Queued(T) \subseteq Queued(tickets)
        /\ nextGen' = nextGen + Cardinality({t \in G : T[t].mode = "exclusive"})
    BY <1>6 DEF Passing, Dropping, Granting
  <2>2. /\ DOMAIN holds' = DOMAIN H \cup {GrantId(G, t) : t \in G}
        /\ \A j \in DOMAIN H : holds'[j] = H[j]
        /\ \A t \in G : /\ holds'[GrantId(G, t)].gen = GrantGen(T, G, t)
                        /\ holds'[GrantId(G, t)].mode = T[t].mode
    <3>1. Extends(holds', H, T, flags, G)
      BY <1>6 DEF Passing, Granting
    <3>2. \A t \in G : LET new == GrantedHold(T, G, flags, t)
                      IN  new.gen = GrantGen(T, G, t) /\ new.mode = T[t].mode
      BY DEF GrantedHold
    <3>. QED
      BY <3>1, <3>2 DEF Extends
  <2>3. G \in SUBSET (1 .. nextSeq)
    BY <1>1, <2>1 DEF TicketsOK, Queued
  <2>. DEFINE all == Cardinality({t \in G : T[t].mode = "exclusive"})
  <2>4. /\ all \in Nat
        /\ \A t \in G : /\ GrantGen(T, G, t) \in nextGen .. nextGen + all
                        /\ T[t].mode = "exclusive" => GrantGen(T, G, t) > nextGen
        /\ \A t, u \in G : GrantId(G, u) < GrantId(G, t) =>
                /\ GrantGen(T, G, u) <= GrantGen(T, G, t)
                /\ T[t].mode = "exclusive" => GrantGen(T, G, u) < GrantGen(T, G, t)
    BY <1>1, <2>3, GrantGensGrow
  <2>5. nextGen' = nextGen + all
    BY <2>1
  <2>. HIDE DEF all
  <2>6. ASSUME NEW t \in G
        PROVE  /\ holds'[GrantId(G, t)].gen \in nextGen .. nextGen + all
               /\ holds'[GrantId(G, t)].mode = "exclusive" => holds'[GrantId(G, t)].gen > nextGen
    <3>1. holds'[GrantId(G, t)].gen = GrantGen(T, G, t) /\ holds'[GrantId(G, t)].mode = T[t].mode
      BY <2>2
    <3>2. /\ GrantGen(T, G, t) \in nextGen .. nextGen + all
          /\ T[t].mode = "exclusive" => GrantGen(T, G, t) > nextGen
      BY <2>4
    <3>. QED
      BY <3>1, <3>2
  <2>7. GensBounded'
    <3>1. \A j \in DOMAIN H : holds'[j].gen \in Nat /\ holds'[j].gen <= nextGen + all
      BY <1>1, <1>2, <2>1, <2>2, <2>4
    <3>2. \A t \in G : holds'[GrantId(G, t)].gen <= nextGen + all
      BY <1>1, <2>4, <2>6
    <3>. QED
      BY <2>2, <2>5, <3>1, <3>2 DEF GensBounded
  <2>8. FencedGrants
    <3>. DEFINE new == DOMAIN holds' \ DOMAIN holds
                ex  == {t \in G : T[t].mode = "exclusive"}
    <3>1. /\ \A t \in G : GrantId(G, t) \in Nat /\ GrantId(G, t) > nextHold
          /\ \A t \in G : T[t].mode # "exclusive" =>
                \/ GrantGen(T, G, t) = nextGen
                \/ \E u \in ex : /\ GrantId(G, u) < GrantId(G, t)
                                /\ GrantGen(T, G, u) = GrantGen(T, G, t)
          /\ \/ all = 0
             \/ \E u \in ex : GrantGen(T, G, u) = nextGen + all
      BY <1>1, <2>3, GrantGensLast, ZenonT(60) DEF all
    <3>2. new = {GrantId(G, t) : t \in G}
      <4>1. \A t \in G : GrantId(G, t) \notin DOMAIN holds
        BY <1>1, <1>2, <3>1
      <4>. QED
        BY <2>1, <2>2, <4>1
    <3>3. \A ids \in SUBSET new : \A g :
             g \in Given(ids) <=>
                \/ g = nextGen
                \/ \E u \in ex : GrantId(G, u) \in ids /\ g = GrantGen(T, G, u)
      <4>. SUFFICES ASSUME NEW ids \in SUBSET new, NEW g
                    PROVE  g \in Given(ids) <=>
                              \/ g = nextGen
                              \/ \E u \in ex : GrantId(G, u) \in ids /\ g = GrantGen(T, G, u)
        OBVIOUS
      <4>1. g \in Given(ids) <=>
              g = nextGen \/ \E j \in ids : holds'[j].mode = "exclusive" /\ g = holds'[j].gen
        BY DEF Given
      <4>2. \A j \in ids : \E t \in G : j = GrantId(G, t)
        BY <3>2
      <4>. QED
        BY <2>2, <4>1, <4>2
    <3>4. ASSUME NEW i \in new
          PROVE  LET before == Given({j \in new : j < i})
                 IN  IF holds'[i].mode = "exclusive"
                       THEN /\ \A g \in before : g < holds'[i].gen
                            /\ \A j \in DOMAIN holds' : j < i => holds'[j].gen < holds'[i].gen
                       ELSE IsGreatest(holds'[i].gen, before)
      <4>. DEFINE before == Given({j \in new : j < i})
      <4>1. PICK t \in G : i = GrantId(G, t)
        BY <3>2
      <4>2. holds'[i].gen = GrantGen(T, G, t) /\ holds'[i].mode = T[t].mode
        BY <2>2, <4>1
      <4>3. /\ GrantGen(T, G, t) \in nextGen .. nextGen + all
            /\ T[t].mode = "exclusive" => GrantGen(T, G, t) > nextGen
        BY <2>4
      <4>4. \A g : g \in before <=>
               \/ g = nextGen
               \/ \E u \in ex : GrantId(G, u) < i /\ g = GrantGen(T, G, u)
        <5>1. \A u \in ex : GrantId(G, u) \in new
          BY <3>2
        <5>. QED
          BY <3>3, <5>1
      <4>5. \A u \in G : GrantId(G, u) < i =>
               /\ GrantGen(T, G, u) <= GrantGen(T, G, t)
               /\ T[t].mode = "exclusive" => GrantGen(T, G, u) < GrantGen(T, G, t)
        BY <2>4, <4>1
      <4>. HIDE DEF before, new, ex
      <4>6. CASE T[t].mode = "exclusive"
        <5>1. \A g \in before : g < holds'[i].gen
          BY <1>1, <2>4, <4>2, <4>3, <4>4, <4>5, <4>6 DEF ex
        <5>2. ASSUME NEW j \in DOMAIN holds', j < i
              PROVE  holds'[j].gen < holds'[i].gen
          <6>1. CASE j \in DOMAIN H
            BY <1>1, <1>2, <2>1, <2>2, <2>4, <4>2, <4>3, <4>6, <6>1
          <6>2. CASE \E u \in G : j = GrantId(G, u)
            BY <2>2, <4>2, <4>5, <4>6, <5>2, <6>2
          <6>. QED
            BY <2>2, <6>1, <6>2
        <5>. QED
          BY <4>2, <4>6, <5>1, <5>2 DEF before
      <4>7. CASE T[t].mode # "exclusive"
        <5>1. GrantGen(T, G, t) \in before
          BY <3>1, <4>1, <4>4, <4>7
        <5>2. \A g \in before : g <= GrantGen(T, G, t)
          BY <1>1, <2>4, <4>3, <4>4, <4>5 DEF ex
        <5>3. IsGreatest(holds'[i].gen, before)
          BY <4>2, <5>1, <5>2 DEF IsGreatest
        <5>. QED
          BY <4>2, <4>7, <5>3 DEF before
      <4>. QED
        BY <4>6, <4>7
    <3>5. IsGreatest(nextGen', Given(new))
      <4>1. \A g : g \in Given(new) <=> g = nextGen \/ \E u \in ex : g = GrantGen(T, G, u)
        BY <3>2, <3>3
      <4>2. \A u \in ex : GrantGen(T, G, u) <= nextGen + all
        BY <1>1, <2>4
      <4>3. \A g \in Given(new) : g <= nextGen'
        BY <1>1, <2>4, <2>5, <4>1, <4>2
      <4>4. nextGen' \in Given(new)
        <5>1. CASE all = 0
          BY <1>1, <2>5, <4>1, <5>1
        <5>2. CASE \E u \in ex : GrantGen(T, G, u) = nextGen + all
          BY <2>5, <4>1, <5>2
        <5>. QED
          BY <3>1, <5>1, <5>2
      <4>. QED
        BY <4>3, <4>4 DEF IsGreatest
    <3>. QED
      BY <3>4, <3>5 DEF FencedGrants
  <2>. QED
    BY <2>7, <2>8
<1>. QED
  BY <1>3, <1>4, <1>5, <1>6 DEF Step

-----------------------------------------------------------------------------
(* Reports of abandoned sections.                                           *)

\* Two that name a key in common, one of them exclusive, conflict.
LEMMA CommonKeyConflicts ==
    ASSUME NEW a, NEW b, NEW k \in Keys, k \in a.keys, k \in b.keys, a.mode = "exclusive"
    PROVE  Conflicts(a, b) /\ Conflicts(b, a)
<1>1. Overlap(k, k)
  BY PrefixAssumption DEF Overlap
<1>. QED
  BY <1>1 DEF Conflicts, Compat

\* A process that may ask conflicts with none of its grants to begin.
LEMMA AskerIsApart ==
    ASSUME IInv, NEW p, NEW r, MayRequest(p, r), NEW i \in DOMAIN holds,
           holds[i].pid = p, ~holds[i].started
    PROVE  ~Conflicts(holds[i], r)
<1>1. i \in HoldIds(recs, p)
  BY TypesAndLinks DEF HoldsLinked, HoldIds
<1>. QED
  BY <1>1 DEF MayRequest, Interrupts

\* A section about to begin has taken every report pending for its keys.
LEMMA TakenIsAll ==
    ASSUME IInv, ReportsInv, NEW i \in DOMAIN holds, ~holds[i].started,
           holds[i].mode = "exclusive"
    PROVE  holds[i].keys \cap pendingReport \subseteq holds[i].taken
<1>. SUFFICES ASSUME NEW k \in holds[i].keys, k \in pendingReport
              PROVE  k \in holds[i].taken
  OBVIOUS
<1>1. k \in Keys
  BY DEF IInv, TypeOK
<1>2. k \notin abandoned
  BY DEF ReportsInv, FlagsTaken
<1>3. PICK j \in DOMAIN holds : ~holds[j].started /\ k \in holds[j].taken
  BY <1>2 DEF ReportsInv, ReportsKept
<1>4. k \in holds[j].keys
  BY <1>3 DEF ReportsInv, TakenOwn
<1>5. Conflicts(holds[i], holds[j])
  BY <1>1, <1>4, CommonKeyConflicts
<1>6. holds[i].pid = holds[j].pid
  BY <1>5, TypesAndLinks DEF Exclusive
<1>7. i = j
  BY <1>3, <1>5, <1>6 DEF ReportsInv, GrantsApart
<1>. QED
  BY <1>3, <1>7

\* So has a request granted at once.
LEMMA AskedIsAll ==
    ASSUME IInv, ReportsInv, NEW p, NEW r, MayRequest(p, r), Grantable(p, r, SeqInf),
           r.mode = "exclusive"
    PROVE  r.keys \cap pendingReport \subseteq Taken(r, abandoned)
<1>. SUFFICES ASSUME NEW k \in r.keys, k \in pendingReport, k \notin abandoned
              PROVE  FALSE
  BY DEF Taken
<1>1. k \in Keys
  BY DEF IInv, TypeOK
<1>2. PICK j \in DOMAIN holds : ~holds[j].started /\ k \in holds[j].taken
  BY DEF ReportsInv, ReportsKept
<1>3. k \in holds[j].keys
  BY <1>2 DEF ReportsInv, TakenOwn
<1>4. Conflicts(r, holds[j]) /\ Conflicts(holds[j], r)
  BY <1>1, <1>3, CommonKeyConflicts
<1>5. holds[j].pid = p
  BY <1>4 DEF Grantable, BlkHold
<1>. QED
  BY <1>2, <1>4, <1>5, AskerIsApart


\* A request granted at once leaves every report flagged or taken.
LEMMA AtOnceReports ==
    ASSUME IInv, ReportsInv, NEW p \in Pids, NEW r \in Requests, MayRequest(p, r), AtOnce(p, r),
           holds'[nextHold + 1].taken = Taken(r, abandoned),
           abandoned' = abandoned \ Taken(r, abandoned),
           \/ ~holds'[nextHold + 1].started /\ pendingReport' = pendingReport
           \/ holds'[nextHold + 1].started
              /\ pendingReport' = pendingReport \ Taken(r, abandoned)
    PROVE  ToldAtStart /\ ReportsInv'
<1>. DEFINE new == holds'[nextHold + 1]
<1>1. /\ DOMAIN holds' = DOMAIN holds \cup {nextHold + 1}
      /\ nextHold + 1 \notin DOMAIN holds
      /\ \A i \in DOMAIN holds : holds'[i] = holds[i]
      /\ new.pid = p /\ new.mode = r.mode /\ new.keys = r.keys
      /\ new.taken = Taken(r, abandoned)
      /\ Queued(tickets') = Queued(tickets)
      /\ \A t \in Queued(tickets) : tickets'[t] = tickets[t] /\ tickets[t].pid # p
      /\ Grantable(p, r, SeqInf)
  BY DEF AtOnce, QueueStays
<1>. HIDE DEF new
<1>2. /\ Taken(r, abandoned) \subseteq r.keys \cap abandoned
      /\ r.mode = "exclusive" => Taken(r, abandoned) = r.keys \cap abandoned
      /\ Taken(r, abandoned) # {} => r.mode = "exclusive"
  BY DEF Taken
<1>3. ToldAtStart
  <2>. SUFFICES ASSUME NEW i \in DOMAIN holds', holds'[i].started, holds'[i].mode = "exclusive",
                       i \notin DOMAIN holds \/ ~holds[i].started
                PROVE  holds'[i].keys \cap pendingReport \subseteq holds'[i].taken
    BY DEF ToldAtStart
  <2>1. i = nextHold + 1
    BY <1>1
  <2>. QED
    BY <1>1, <2>1, AskedIsAll DEF new
<1>4. TakenOwn(holds)'
  BY <1>1, <1>2 DEF ReportsInv, TakenOwn, new
<1>5. ReportsKept'
  <2>. SUFFICES ASSUME NEW k \in pendingReport'
                PROVE  \/ k \in abandoned'
                       \/ \E i \in DOMAIN holds' : ~holds'[i].started /\ k \in holds'[i].taken
    BY DEF ReportsKept
  <2>1. k \in abandoned \/ \E i \in DOMAIN holds : ~holds[i].started /\ k \in holds[i].taken
    BY DEF ReportsInv, ReportsKept
  <2>2. k \in Taken(r, abandoned) => ~new.started
    BY DEF new
  <2>. QED
    BY <1>1, <2>1, <2>2 DEF new
<1>6. FlagsTaken(holds, abandoned)'
  <2>1. FlagsTaken(holds, abandoned)
    BY DEF ReportsInv
  <2>. QED
    BY <1>1, <1>2, <2>1 DEF FlagsTaken, new
<1>7. \A i \in DOMAIN holds : holds[i].pid = p /\ ~holds[i].started => ~Conflicts(holds[i], new)
  BY <1>1, AskerIsApart, ConflictsAlike
<1>8. GrantsApart(holds)'
  <2>1. GrantsApart(holds)
    BY DEF ReportsInv
  <2>. QED
    BY <1>1, <1>7, <2>1, ConflictsSymmetric DEF GrantsApart, new
<1>9. QueuedApart(holds, tickets)'
  <2>1. QueuedApart(holds, tickets)
    BY DEF ReportsInv
  <2>. QED
    BY <1>1, <2>1 DEF QueuedApart, new
<1>. QED
  BY <1>3, <1>4, <1>5, <1>6, <1>8, <1>9 DEF ReportsInv

\* An operation that drops and passes tells nobody, and loses no report: what a
\* dropped grant took is flagged again, for the next grant of its key.
LEMMA PassesReports ==
    ASSUME IInv, ReportsInv, NEW E, Passes(E)
    PROVE  ToldAtStart /\ ReportsInv'
<1>1. PICK H, T, flags, region, G :
        Passing(H, T, flags, region, G) /\ Flagging(H, T, flags, G)
  BY DEF Passes
<1>2. /\ DOMAIN H \subseteq DOMAIN holds /\ \A i \in DOMAIN H : H[i] = holds[i]
      /\ Queued(T) \subseteq Queued(tickets) /\ \A t \in Queued(T) : T[t] = tickets[t]
      /\ G \in SUBSET Queued(T)
      /\ Queued(tickets') = Queued(T) \ G
      /\ \A t \in Queued(T) \ G : tickets'[t] = T[t]
  BY <1>1 DEF Passing, Dropping, Granting
<1>. DEFINE new(t) == holds'[GrantId(G, t)]
<1>3. /\ DOMAIN holds' = DOMAIN H \cup {GrantId(G, t) : t \in G}
      /\ \A i \in DOMAIN H : holds'[i] = H[i]
      /\ \A t \in G : GrantId(G, t) \notin DOMAIN H
      /\ \A t \in G : new(t) = GrantedHold(T, G, flags, t)
  BY <1>1 DEF Passing, Granting, Extends
<1>. HIDE DEF new
<1>4. \A t \in G : /\ new(t).pid = T[t].pid /\ new(t).mode = T[t].mode
                   /\ new(t).keys = T[t].keys /\ ~new(t).started
                   /\ new(t).taken = Taken(T[t], flags)
  <2>1. \A t \in G : LET h == GrantedHold(T, G, flags, t)
                     IN  /\ h.pid = T[t].pid /\ h.mode = T[t].mode /\ h.keys = T[t].keys
                         /\ ~h.started /\ h.taken = Taken(T[t], flags)
    BY DEF GrantedHold
  <2>. QED
    BY <1>3, <2>1
<1>5. \A i \in DOMAIN holds' : \/ i \in DOMAIN H /\ i \in DOMAIN holds /\ holds'[i] = holds[i]
                               \/ \E t \in G : i = GrantId(G, t) /\ holds'[i] = new(t)
  BY <1>2, <1>3 DEF new
<1>6. /\ abandoned \subseteq flags
      /\ \A j \in DOMAIN holds \ DOMAIN H : ~holds[j].started => holds[j].taken \subseteq flags
      /\ \A k \in flags \ abandoned : \E j \in DOMAIN holds \ DOMAIN H :
            /\ holds[j].mode = "exclusive" /\ k \in holds[j].keys
            /\ holds[j].started => \A i \in DOMAIN H : H[i].pid # holds[j].pid
      /\ pendingReport' \subseteq pendingReport \cup flags
      /\ abandoned' = flags \ UNION {Taken(T[t], flags) : t \in G}
  BY <1>1 DEF Flagging
<1>7. \A t \in G : /\ Taken(T[t], flags) \subseteq T[t].keys \cap flags
                   /\ T[t].mode = "exclusive" => Taken(T[t], flags) = T[t].keys \cap flags
                   /\ Taken(T[t], flags) # {} => T[t].mode = "exclusive"
  BY DEF Taken
<1>8. ToldAtStart
  BY <1>2, <1>4, <1>5 DEF ToldAtStart
<1>9. TakenOwn(holds)'
  <2>1. TakenOwn(holds)
    BY DEF ReportsInv
  <2>. QED
    BY <1>4, <1>5, <1>7, <2>1 DEF TakenOwn
<1>10. ReportsKept'
  <2>. SUFFICES ASSUME NEW k \in pendingReport', k \notin abandoned'
                PROVE  \E i \in DOMAIN holds' : ~holds'[i].started /\ k \in holds'[i].taken
    BY DEF ReportsKept
  <2>1. CASE k \in flags
    <3>1. PICK t \in G : k \in Taken(T[t], flags)
      BY <1>6, <2>1
    <3>. QED
      BY <1>3, <1>4, <3>1 DEF new
  <2>2. CASE k \notin flags
    <3>1. PICK i \in DOMAIN holds : ~holds[i].started /\ k \in holds[i].taken
      BY <1>6, <2>2 DEF ReportsInv, ReportsKept
    <3>2. i \in DOMAIN H
      BY <1>6, <2>2, <3>1
    <3>. QED
      BY <1>2, <1>3, <3>1, <3>2
  <2>. QED
    BY <2>1, <2>2
<1>11. FlagsTaken(holds, abandoned)'
  <2>. SUFFICES ASSUME NEW i \in DOMAIN holds', ~holds'[i].started, holds'[i].mode = "exclusive",
                       NEW k \in holds'[i].keys, k \in abandoned'
                PROVE  FALSE
    BY DEF FlagsTaken
  <2>1. CASE i \in DOMAIN H
    <3>1. i \in DOMAIN holds /\ holds'[i] = holds[i] /\ H[i] = holds[i]
      BY <1>2, <1>3, <2>1
    <3>2. k \notin abandoned
      BY <3>1 DEF ReportsInv, FlagsTaken
    <3>3. PICK j \in DOMAIN holds \ DOMAIN H :
                /\ holds[j].mode = "exclusive" /\ k \in holds[j].keys
                /\ holds[j].started => \A h \in DOMAIN H : H[h].pid # holds[j].pid
      BY <1>6, <3>2
    <3>4. holds[i].keys \in SUBSET Keys
      BY <3>1, TypesAndLinks DEF HoldsOK, Hold
    <3>5. Conflicts(holds[i], holds[j])
      BY <3>1, <3>3, <3>4, CommonKeyConflicts
    <3>6. holds[i].pid = holds[j].pid
      BY <3>1, <3>5, TypesAndLinks DEF Exclusive
    <3>7. ~holds[j].started /\ i # j
      BY <2>1, <3>1, <3>3, <3>6
    <3>8. GrantsApart(holds)
      BY DEF ReportsInv
    <3>. QED
      BY <3>1, <3>3, <3>5, <3>6, <3>7, <3>8 DEF GrantsApart
  <2>2. CASE i \notin DOMAIN H
    <3>1. PICK t \in G : holds'[i] = new(t)
      BY <1>5, <2>2
    <3>. QED
      BY <1>4, <1>6, <1>7, <3>1
  <2>. QED
    BY <2>1, <2>2
<1>12. \A t, u \in Queued(tickets) : tickets[t].pid = tickets[u].pid => t = u
  BY Reads DEF Reading, OneTicket, Queued
<1>13. \A i \in DOMAIN holds, t \in Queued(tickets) :
          holds[i].pid = tickets[t].pid /\ ~holds[i].started => ~Conflicts(holds[i], tickets[t])
  BY DEF ReportsInv, QueuedApart
<1>14. \A t \in G : \A c : Conflicts(c, new(t)) <=> Conflicts(c, tickets[t])
  BY <1>2, <1>4, ConflictsAlike
<1>15. GrantsApart(holds)'
  <2>1. ASSUME NEW i \in DOMAIN holds, NEW t \in G, holds[i].pid = new(t).pid, ~holds[i].started
        PROVE  ~Conflicts(holds[i], new(t)) /\ ~Conflicts(new(t), holds[i])
    <3>1. t \in Queued(tickets) /\ tickets[t].pid = holds[i].pid
      BY <1>2, <1>4, <2>1
    <3>. QED
      BY <1>13, <1>14, <2>1, <3>1, ConflictsSymmetric
  <2>2. \A t, u \in G : new(t).pid = new(u).pid => t = u
    BY <1>2, <1>4, <1>12
  <2>3. GrantsApart(holds)
    BY DEF ReportsInv
  <2>. SUFFICES ASSUME NEW i \in DOMAIN holds', NEW j \in DOMAIN holds', i # j,
                       holds'[i].pid = holds'[j].pid, ~holds'[i].started, ~holds'[j].started
                PROVE  ~Conflicts(holds'[i], holds'[j])
    BY DEF GrantsApart
  <2>4. CASE i \in DOMAIN H /\ j \in DOMAIN H
    BY <1>2, <1>3, <2>3, <2>4 DEF GrantsApart
  <2>5. CASE i \in DOMAIN H /\ j \notin DOMAIN H
    BY <1>2, <1>3, <1>5, <2>1, <2>5
  <2>6. CASE i \notin DOMAIN H /\ j \in DOMAIN H
    BY <1>2, <1>3, <1>5, <2>1, <2>6
  <2>7. CASE i \notin DOMAIN H /\ j \notin DOMAIN H
    BY <1>5, <2>2, <2>7
  <2>. QED
    BY <2>4, <2>5, <2>6, <2>7
<1>16. QueuedApart(holds, tickets)'
  <2>. SUFFICES ASSUME NEW i \in DOMAIN holds', NEW t \in Queued(tickets'),
                       holds'[i].pid = tickets'[t].pid, ~holds'[i].started
                PROVE  ~Conflicts(holds'[i], tickets'[t])
    BY DEF QueuedApart
  <2>1. t \in Queued(tickets) /\ tickets'[t] = tickets[t] /\ t \notin G
    BY <1>2
  <2>2. \A g \in G : new(g).pid # tickets[t].pid
    BY <1>2, <1>4, <1>12, <2>1
  <2>3. i \in DOMAIN holds /\ holds'[i] = holds[i]
    BY <1>5, <2>1, <2>2
  <2>. QED
    BY <1>13, <2>1, <2>3
<1>. QED
  BY <1>8, <1>9, <1>10, <1>11, <1>15, <1>16 DEF ReportsInv

\* A section that begins is told of all there is to tell.
LEMMA StartBodyReports ==
    ASSUME IInv, ReportsInv, NEW p \in Pids, NEW i \in HoldIds(recs, p), StartBody(p, i)
    PROVE  ToldAtStart /\ ReportsInv'
<1>1. /\ ~holds[i].started
      /\ holds' = [holds EXCEPT ![i].started = TRUE]
      /\ pendingReport' = pendingReport \ holds[i].taken
      /\ tickets' = tickets /\ abandoned' = abandoned
  BY DEF StartBody
<1>2. i \in DOMAIN holds /\ HoldsOK(holds, nextHold)
  BY TypesAndLinks DEF HoldsLinked, HoldIds
<1>3. /\ DOMAIN holds' = DOMAIN holds
      /\ \A j \in DOMAIN holds : /\ holds'[j].pid = holds[j].pid
                                 /\ holds'[j].mode = holds[j].mode
                                 /\ holds'[j].keys = holds[j].keys
                                 /\ holds'[j].taken = holds[j].taken
                                 /\ ~holds'[j].started => j # i /\ ~holds[j].started
                                 /\ j # i => holds'[j].started = holds[j].started
  BY <1>1, <1>2 DEF HoldsOK, Hold
<1>4. ToldAtStart
  <2>. SUFFICES ASSUME NEW j \in DOMAIN holds', holds'[j].started, holds'[j].mode = "exclusive",
                       j \notin DOMAIN holds \/ ~holds[j].started
                PROVE  holds'[j].keys \cap pendingReport \subseteq holds'[j].taken
    BY DEF ToldAtStart
  <2>1. j \in DOMAIN holds /\ ~holds[j].started /\ holds[j].mode = "exclusive"
    BY <1>3
  <2>. QED
    BY <1>3, <2>1, TakenIsAll
<1>5. TakenOwn(holds)'
  BY <1>3 DEF ReportsInv, TakenOwn
<1>6. ReportsKept'
  <2>. SUFFICES ASSUME NEW k \in pendingReport', k \notin abandoned'
                PROVE  \E j \in DOMAIN holds' : ~holds'[j].started /\ k \in holds'[j].taken
    BY DEF ReportsKept
  <2>1. PICK j \in DOMAIN holds : ~holds[j].started /\ k \in holds[j].taken
    BY <1>1 DEF ReportsInv, ReportsKept
  <2>2. j # i
    BY <1>1, <2>1
  <2>. QED
    BY <1>3, <2>1, <2>2
<1>7. FlagsTaken(holds, abandoned)'
  BY <1>1, <1>3 DEF ReportsInv, FlagsTaken
<1>8. \A j \in DOMAIN holds : \A c : /\ Conflicts(holds'[j], c) <=> Conflicts(holds[j], c)
                                     /\ Conflicts(c, holds'[j]) <=> Conflicts(c, holds[j])
  BY <1>3, ConflictsAlike
<1>9. GrantsApart(holds)'
  <2>1. GrantsApart(holds)
    BY DEF ReportsInv
  <2>. QED
    BY <1>3, <1>8, <2>1 DEF GrantsApart
<1>10. QueuedApart(holds, tickets)'
  <2>1. QueuedApart(holds, tickets)
    BY DEF ReportsInv
  <2>. QED
    BY <1>1, <1>3, <1>8, <2>1 DEF QueuedApart
<1>. QED
  BY <1>4, <1>5, <1>6, <1>7, <1>9, <1>10 DEF ReportsInv

\* A refused request asks for nothing its own grants conflict with.
LEMMA BlockBusyReports ==
    ASSUME IInv, ReportsInv, NEW p \in Pids, NEW r \in Requests, MayRequest(p, r), BlockBusy(p, r)
    PROVE  ToldAtStart /\ ReportsInv'
<1>1. UNCHANGED <<holds, abandoned, pendingReport>>
  BY DEF BlockBusy
<1>2. ToldAtStart
  BY <1>1 DEF ToldAtStart
<1>3. /\ TakenOwn(holds)' /\ ReportsKept' /\ FlagsTaken(holds, abandoned)' /\ GrantsApart(holds)'
  BY <1>1 DEF ReportsInv, TakenOwn, ReportsKept, FlagsTaken, GrantsApart
<1>4. QueuedApart(holds, tickets)'
  <2>. SUFFICES ASSUME NEW i \in DOMAIN holds, NEW t \in Queued(tickets'),
                       holds[i].pid = tickets'[t].pid, ~holds[i].started
                PROVE  ~Conflicts(holds[i], tickets'[t])
    BY <1>1 DEF QueuedApart
  <2>1. Refused(p, r)
    BY BlockBusyIsRefused
  <2>2. CASE t \in Queued(tickets)
    <3>1. tickets'[t] = tickets[t]
      BY <2>1, <2>2 DEF Refused
    <3>. QED
      BY <2>2, <3>1 DEF ReportsInv, QueuedApart
  <2>3. CASE t \notin Queued(tickets)
    <3>1. tickets'[t].pid = p /\ tickets'[t].mode = r.mode /\ tickets'[t].keys = r.keys
      BY <2>1, <2>3 DEF Refused
    <3>2. ~Conflicts(holds[i], r)
      BY <3>1, AskerIsApart
    <3>. QED
      BY <3>1, <3>2, ConflictsAlike
  <2>. QED
    BY <2>2, <2>3
<1>. QED
  BY <1>2, <1>3, <1>4 DEF ReportsInv

LEMMA ReportsKeptByStep ==
    ASSUME IInv, ReportsInv, [Next]_vars
    PROVE  (ToldAtStart \/ UNCHANGED vars) /\ ReportsInv'
<1>1. \A E : Passes(E) => ToldAtStart /\ ReportsInv'
  BY PassesReports
<1>2. TakenOwn(holds)
  BY DEF ReportsInv
<1>3. ASSUME UNCHANGED <<holds, abandoned, pendingReport>>, QueueStays
      PROVE  ToldAtStart /\ ReportsInv'
  BY <1>3 DEF ToldAtStart, QueueStays, ReportsInv, TakenOwn, ReportsKept, FlagsTaken,
              GrantsApart, QueuedApart
<1>4. CASE AttachHome
  <2>1. UNCHANGED <<holds, abandoned, pendingReport>> /\ QueueStays
    BY <1>4 DEF AttachHome, QueueStays
  <2>. QED
    BY <1>3, <2>1
<1>5. CASE \E h \in homes : DetachHome(h)
  BY <1>1, <1>2, <1>5, DetachHomePasses
<1>6. ASSUME NEW p \in Pids, NEW r \in Requests, TryAcquire(p, r)
      PROVE  ToldAtStart /\ ReportsInv'
  <2>1. MayRequest(p, r) /\ Grant(p, r, TRUE)
    BY <1>6 DEF TryAcquire
  <2>2. /\ AtOnce(p, r)
        /\ holds'[nextHold + 1].started
        /\ holds'[nextHold + 1].taken = Taken(r, abandoned)
        /\ abandoned' = abandoned \ Taken(r, abandoned)
    BY <1>6, TryAcquireIsAtOnce
  <2>3. pendingReport' = pendingReport \ Taken(r, abandoned)
    <3>1. NewHold(p, r, NextGen(r), TRUE).taken = Taken(r, abandoned)
      BY DEF NewHold
    <3>. QED
      BY <2>1, <3>1 DEF Grant
  <2>. QED
    BY <2>1, <2>2, <2>3, AtOnceReports
<1>7. ASSUME NEW p \in Pids, NEW r \in Requests, Block(p, r)
      PROVE  ToldAtStart /\ ReportsInv'
  <2>1. MayRequest(p, r) /\ (BlockGranted(p, r) \/ BlockBusy(p, r))
    BY <1>7 DEF Block
  <2>2. CASE BlockGranted(p, r)
    <3>1. pendingReport' = pendingReport
      BY <2>2 DEF BlockGranted, Grant
    <3>2. /\ AtOnce(p, r)
          /\ ~holds'[nextHold + 1].started
          /\ holds'[nextHold + 1].taken = Taken(r, abandoned)
          /\ abandoned' = abandoned \ Taken(r, abandoned)
      BY <2>1, <2>2, BlockGrantedIsAtOnce
    <3>. QED
      BY <2>1, <3>1, <3>2, AtOnceReports
  <2>. QED
    BY <2>1, <2>2, BlockBusyReports
<1>8. ASSUME NEW p \in Pids, Resume(p) \/ Cancel(p)
      PROVE  ToldAtStart /\ ReportsInv'
  <2>1. CASE Resume(p)
    <3>1. UNCHANGED <<holds, abandoned, pendingReport>> /\ QueueStays
      BY <2>1, ResumeIsQuiet DEF Resume, Quiet
    <3>. QED
      BY <1>3, <3>1
  <2>. QED
    BY <1>1, <1>8, <2>1, CancelPasses
<1>9. CASE \E p \in Pids : \E i \in HoldIds(recs, p) : StartBody(p, i) \/ Release(p, i)
  BY <1>1, <1>2, <1>9, StartBodyReports, ReleasePasses
<1>10. CASE \E p \in Pids, abandon \in BOOLEAN : End(p, abandon)
  BY <1>1, <1>2, <1>10, EndPasses
<1>11. CASE UNCHANGED vars
  <2>1. UNCHANGED <<holds, abandoned, pendingReport>> /\ QueueStays
    BY <1>11 DEF vars, QueueStays
  <2>. QED
    BY <1>3, <2>1
<1>. QED
  BY <1>4, <1>5, <1>6, <1>7, <1>8, <1>9, <1>10, <1>11 DEF Next

-----------------------------------------------------------------------------
(* Order, fencing, queue and reports: the theorems. *)

QueueInv == ReportsInv /\ GensBounded /\ NoMissedGrant /\ NoDeadlock

LEMMA EmptyQueue == Init => QueueInv
<1>. SUFFICES ASSUME Init PROVE QueueInv
  OBVIOUS
<1>1. DOMAIN holds = {} /\ DOMAIN tickets = {} /\ abandoned = {} /\ pendingReport = {}
  BY DEF Init, Empty
<1>2. Queued(tickets) = {}
  BY <1>1 DEF Queued
<1>3. ReportsInv
  BY <1>1, <1>2 DEF ReportsInv, TakenOwn, ReportsKept, FlagsTaken, GrantsApart, QueuedApart
<1>4. GensBounded /\ NoMissedGrant
  BY <1>1, <1>2 DEF GensBounded, NoMissedGrant
<1>5. NoDeadlock
  BY <1>2 DEF NoDeadlock, Succ
<1>. QED
  BY <1>3, <1>4, <1>5 DEF QueueInv

LEMMA QueueStep ==
    IInv /\ IInv' /\ QueueInv /\ [Next]_vars
        => QueueInv' /\ PassedByRule /\ FencedGrants /\ [ToldAtStart]_vars
<1>. SUFFICES ASSUME IInv, IInv', QueueInv, [Next]_vars
              PROVE  QueueInv' /\ PassedByRule /\ FencedGrants /\ [ToldAtStart]_vars
  OBVIOUS
<1>1. ReportsInv /\ TakenOwn(holds) /\ GensBounded /\ NoMissedGrant /\ NoDeadlock
  BY DEF QueueInv, ReportsInv
<1>2. Step
  BY <1>1, StepIs
<1>3. ReportsInv' /\ [ToldAtStart]_vars
  BY <1>1, ReportsKeptByStep
<1>4. NoMissedGrant' /\ NoDeadlock'
  BY <1>1, <1>2, NoMissedGrantKept, NoDeadlockKept
<1>5. FencedGrants /\ GensBounded' /\ PassedByRule
  BY <1>1, <1>2, GrantsFenced, PassedOnlyByRule
<1>. QED
  BY <1>3, <1>4, <1>5 DEF QueueInv

LEMMA QueueInvariance == Spec => []QueueInv
<1>1. IInv /\ IInv' /\ QueueInv /\ [Next]_vars => QueueInv'
  BY QueueStep
<1>. QED
  BY <1>1, EmptyQueue, Invariance, PTL DEF Spec

\* I6, for any processes, homes and keys: whatever touches a key re-examines all
\* that its change can free, so no waiter that could go is left in the queue.
THEOREM NoMissedGrantHolds == Spec => []NoMissedGrant
<1>1. QueueInv => NoMissedGrant
  BY DEF QueueInv
<1>. QED
  BY <1>1, QueueInvariance, PTL

\* I7: block's search refuses whatever would close a cycle, and no grant, drop
\* or pass closes one behind its back.
THEOREM NoDeadlockHolds == Spec => []NoDeadlock
<1>1. QueueInv => NoDeadlock
  BY DEF QueueInv
<1>. QED
  BY <1>1, QueueInvariance, PTL

\* I5: try_acquire, block and the passes overtake an earlier conflicting waiter
\* only by the conversion rule.
THEOREM FifoHolds == Spec => Fifo
<1>1. IInv /\ IInv' /\ QueueInv /\ [Next]_vars => [PassedByRule]_vars
  BY QueueStep
<1>. QED
  BY <1>1, Invariance, QueueInvariance, PTL DEF Spec, Fifo

\* I15: the generations that the table hands out fence every exclusive
\* grant off from all earlier ones, those of the same pass included, and a
\* shared grant carries that of the last exclusive one and raises nothing.
THEOREM GenerationsIncreaseHolds == Spec => GenerationsIncrease
<1>1. IInv /\ IInv' /\ QueueInv /\ [Next]_vars => [FencedGrants]_vars
  BY QueueStep
<1>. QED
  BY <1>1, Invariance, QueueInvariance, PTL DEF Spec, GenerationsIncrease

\* I11: however grants are dropped and sections cut short, the next exclusive
\* section on an abandoned key is told.
THEOREM SectionsAreToldHolds == Spec => SectionsAreTold
<1>1. IInv /\ IInv' /\ QueueInv /\ [Next]_vars => [ToldAtStart]_vars
  BY QueueStep
<1>. QED
  BY <1>1, Invariance, QueueInvariance, PTL DEF Spec, SectionsAreTold

=============================================================================
