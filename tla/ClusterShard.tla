---------------------------- MODULE ClusterShard ----------------------------
(* The replication of one path between the nodes of a cluster that resolves
   conflicts: state_sync_adapter journals a node's own writes, its pump drains
   the journal of the state_cluster_shard onto the connections of a
   state_transport_ipc, and a reader per connection ingests what the peers
   send.  Two nodes may dial each other, and hold two connections then.  Each end
   of a connection finds out by itself that it is gone: a read or a write fails.
   A node is named by its rank in the order of the node ids.

   A value is <<n, k>>, the k-th that n's application writes, <<0, 0>> before any.
   Time is what a hybrid clock counts, wall time and counter in one number; the
   wall clocks stand still over a run, each ahead by what Ahead says.  *)
EXTENDS Naturals, FiniteSets, Sequences

CONSTANTS
    Nodes,      \* the nodes, as ranks of their ids
    Writers,    \* the nodes whose application writes, one thread each
    Dials,      \* the connections there may be: <<who dials, who accepts, which one>>
    Standing,   \* those that stand at the start, one of a pair at most
    Ahead,      \* Ahead[n]: how far ahead the wall clock of n is
    Plans       \* bound: what may happen in a run: the writes of each writer, the
                \* connections dialed, and those on which a read or a write fails

ASSUME NodesAssumption ==
    /\ Nodes \subseteq Nat \ {0} /\ IsFiniteSet(Nodes)
    /\ Writers \subseteq Nodes
    /\ Dials \subseteq {d \in Nodes \X Nodes \X Nat : d[1] # d[2]}
    /\ Standing \subseteq Dials
    /\ \A d, e \in Standing : {d[1], d[2]} = {e[1], e[2]} => d = e
ASSUME BoundAssumption ==
    /\ Ahead \in [Nodes -> Nat]
    /\ Plans \subseteq [writes : [Writers -> Nat], dials : SUBSET Dials, frail : SUBSET Dials]

VARIABLES
    value,         \* value[n]: the node of the state tree at n
    fired,         \* fired[n]: n has written and the handler is on its way
    journal,       \* journal[n]: n's own writes; a sequence number is an index
    cursor,        \* cursor[n]: the last sequence the pump has drained
    pending,       \* pending[n]: what the pump has drained and not yet published
    clock,         \* clock[n]: the hybrid clock, wall time and counter as one number
    conns,         \* conns[n][p]: n's connections with p, as n admitted them
    link,          \* link[n][d]: n's end of d
    known,         \* known[n]: those whose HELLO has been read
    wire,          \* wire[d][n]: the frames n has sent on d and the other has not read
    heard,         \* heard[n]: the mutations in n's seen-set, as n first got them
    lastMutation,  \* lastMutation[n]: the last one applied, None before any
    applying,      \* applying[n]: the ones recorded and not yet applied
    writes,        \* writes[n]: how many n's application has made
    plan,          \* which plan it is, with the failures that are left
    switched       \* <<n, p>>: n went over to a connection with p it had left out

vars == <<value, fired, journal, cursor, pending, clock, conns, link, known, wire,
          heard, lastMutation, applying, writes, plan, switched>>
pumpVars == <<cursor, pending>>
endVars == <<conns, link, plan, switched>>
linkVars == <<endVars, known, wire>>
shardVars == <<heard, lastMutation, applying>>
appVars == <<value, fired, journal, writes>>

None == [origin |-> 0]
Hello == [origin |-> 0]

Ends(d) == {d[1], d[2]}
Peer(d, n) == IF d[1] = n THEN d[2] ELSE d[1]

\* An end that is not admitted yet, one that is alive, one that is not alive but has
\* a reader that still waits for a frame, and one that is shut.
LinkStates == {"none", "alive", "dying", "closed"}
Live(n) == {d \in Dials : link[n][d] = "alive"}

Values == {<<0, 0>>} \cup Writers \X (Nat \ {0})
Mutations == [origin : Nodes, seq : Nat \ {0}, time : Nat \ {0}, value : Values]

Init ==
    /\ value = [n \in Nodes |-> <<0, 0>>] /\ fired = [n \in Nodes |-> FALSE]
    /\ journal = [n \in Nodes |-> << >>] /\ cursor = [n \in Nodes |-> 0]
    /\ pending = [n \in Nodes |-> << >>]
    /\ clock = Ahead
    /\ conns = [n \in Nodes |-> [p \in Nodes |->
                   LET between == {d \in Standing : Ends(d) = {n, p}} IN
                   IF between = {} THEN << >> ELSE << CHOOSE d \in between : TRUE >>]]
    /\ link = [n \in Nodes |-> [d \in Dials |->
                  IF d \in Standing /\ n \in Ends(d) THEN "alive" ELSE "none"]]
    /\ known = [n \in Nodes |-> {d \in Standing : n \in Ends(d)}]
    /\ wire = [d \in Dials |-> [n \in Nodes |-> << >>]]
    /\ heard = [n \in Nodes |-> {}] /\ lastMutation = [n \in Nodes |-> None]
    /\ applying = [n \in Nodes |-> {}]
    /\ writes = [n \in Writers |-> 0] /\ plan \in Plans /\ switched = {}

-----------------------------------------------------------------------------
(* The application and the adapter's handler of its signal. *)

\* state::value: the value is set under the node's mutex; valueChanged is then
\* called without it.
Write(n) ==
    /\ n \in Writers /\ ~fired[n] /\ writes[n] < plan.writes[n]
    /\ writes' = [writes EXCEPT ![n] = @ + 1]
    /\ value' = [value EXCEPT ![n] = <<n, writes'[n]>>]
    /\ fired' = [fired EXCEPT ![n] = TRUE]
    /\ UNCHANGED <<journal, clock, pumpVars, linkVars, shardVars>>

\* The handler reads the value of that moment, whoever set it last, and appends
\* it to the journal.
Journal(n) ==
    /\ fired[n]
    /\ journal' = [journal EXCEPT ![n] = Append(@, value[n])]
    /\ fired' = [fired EXCEPT ![n] = FALSE]
    /\ UNCHANGED <<value, writes, clock, pumpVars, linkVars, shardVars>>

-----------------------------------------------------------------------------
(* The clock and the pump. *)

\* collect_local: n's own entries after a sequence, each with a new time.  The
\* journal keeps none: what is replayed is stamped again.
Collected(n, after) ==
    [i \in 1 .. Len(journal[n]) - after |->
        [origin |-> n, seq |-> after + i, time |-> clock[n] + i,
         value |-> journal[n][after + i]]]

\* drain_local: what is collected is the pump's, and behind the cursor.
DrainLocal(n) ==
    /\ pending[n] = << >> /\ cursor[n] < Len(journal[n])
    /\ pending' = [pending EXCEPT ![n] = Collected(n, cursor[n])]
    /\ cursor' = [cursor EXCEPT ![n] = Len(journal[n])]
    /\ clock' = [clock EXCEPT ![n] = @ + Len(journal[n]) - cursor[n]]
    /\ UNCHANGED <<appVars, linkVars, shardVars>>

\* claim_peer: of the connections of n that are alive, publish serves a peer on the
\* first, and every one whose peer is not known yet.
Claimed(n, live) ==
    {d \in live : d \in known[n] =>
        LET cs == conns[n][Peer(d, n)] IN
        \A i, j \in DOMAIN cs : cs[i] = d /\ j < i => cs[j] \notin live \cap known[n]}

Sent(n, to, frames) ==
    [d \in Dials |->
        IF d \in to THEN [wire[d] EXCEPT ![n] = @ \o frames] ELSE wire[d]]

\* n's ends of ds die: n may claim a connection then that it had left out.
Turn(n, ds, s) ==
    /\ link' = [link EXCEPT ![n] = [d \in Dials |-> IF d \in ds THEN s ELSE @[d]]]
    /\ switched' = switched \cup
          {<<n, Peer(d, n)>> : d \in Claimed(n, Live(n) \ ds) \ Claimed(n, Live(n))}

\* A write of n fails on a connection that the peer has shut.
Shut(n) == {d \in Dials : link[Peer(d, n)][d] = "closed"}

\* publish: the next of the pump's mutations.  A peer is served once claimed,
\* whether or not the write goes through; one that fails, in write_frame_locked,
\* leaves the connection dead.
Publish(n) ==
    /\ pending[n] # << >>
    /\ pending' = [pending EXCEPT ![n] = Tail(@)]
    /\ LET to == Claimed(n, Live(n)) IN
       \E failed \in SUBSET to :
          /\ to \cap Shut(n) \subseteq failed /\ failed \ Shut(n) \subseteq plan.frail
          /\ plan' = [plan EXCEPT !.frail = @ \ (failed \ Shut(n))]
          /\ wire' = Sent(n, to \ failed, <<Head(pending[n])>>)
          /\ Turn(n, failed, "dying")
    /\ UNCHANGED <<appVars, cursor, clock, conns, known, shardVars>>

-----------------------------------------------------------------------------
(* Connections. *)

\* Mutant of Backfill: what the pump has drained is left to it.
BackfillUndrained(n) == Collected(n, cursor[n])

\* replay_local: the whole journal, drained or not.
Backfill(n) == Collected(n, 0)

\* admit_connection: n registers a connection, and no publish writes on it
\* before its HELLO and the backfill are on the wire.  If one of these writes fails
\* the rest is left, and the reader has nothing to do but shut the connection.
Admit(n, d) ==
    LET frames == <<Hello>> \o Backfill(n) IN
    /\ n \in Ends(d) /\ link[n][d] = "none"
    /\ conns' = [conns EXCEPT ![n][Peer(d, n)] = Append(@, d)]
    /\ clock' = [clock EXCEPT ![n] = @ + Len(Backfill(n))]
    /\ \/ /\ d \notin Shut(n) /\ wire' = Sent(n, {d}, frames)
          /\ link' = [link EXCEPT ![n][d] = "alive"]
          /\ UNCHANGED plan
       \/ /\ d \notin Shut(n) /\ d \in plan.frail
          /\ plan' = [plan EXCEPT !.frail = @ \ {d}]
          /\ \E k \in 1 .. Len(frames) : wire' = Sent(n, {d}, SubSeq(frames, 1, k - 1))
          /\ link' = [link EXCEPT ![n][d] = "closed"]
       \/ /\ d \in Shut(n) /\ link' = [link EXCEPT ![n][d] = "closed"]
          /\ UNCHANGED <<wire, plan>>
    /\ UNCHANGED <<appVars, pumpVars, known, switched, shardVars>>

\* connect_to_peer, and the accept loop of the other.
Dial(d) == d \in plan.dials /\ Admit(d[1], d)
Accept(d) == link[d[1]][d] # "none" /\ Admit(d[2], d)

\* reader_loop's end: the connection is dead and shut, and what was still on its
\* way to n is lost.
Close(n, d) ==
    /\ Turn(n, {d}, "closed")
    /\ wire' = [wire EXCEPT ![d][Peer(d, n)] = << >>]
    /\ UNCHANGED <<appVars, clock, pumpVars, conns, known, shardVars>>

\* n's reader of d reads on, if only the frame that it waits for.
Reading(n, d) == n \in Ends(d) /\ link[n][d] \in {"alive", "dying"}

\* The reader finds that the peer has shut the connection.
End(n, d) ==
    /\ Reading(n, d) /\ d \in Shut(n) /\ wire[d][Peer(d, n)] = << >>
    /\ Close(n, d) /\ UNCHANGED plan

\* A read fails, or the reader was not yet back at a frame when a write failed.
Fail(n, d) ==
    /\ Reading(n, d)
    /\ \/ link[n][d] = "dying" /\ UNCHANGED plan
       \/ d \in plan.frail /\ plan' = [plan EXCEPT !.frail = @ \ {d}]
    /\ Close(n, d)

-----------------------------------------------------------------------------
(* Readers. *)

\* The frame n's reader of d is about to read.
Frame(n, d) == Head(wire[d][Peer(d, n)])
Readable(n, d) == Reading(n, d) /\ wire[d][Peer(d, n)] # << >>

\* If the connection has died meanwhile the reader shuts it after this frame, and
\* reads no other.
Read(n, d) ==
    /\ wire' = [wire EXCEPT ![d][Peer(d, n)] =
                  IF link[n][d] = "dying" THEN << >> ELSE Tail(@)]
    /\ link' = [link EXCEPT ![n][d] = IF @ = "dying" THEN "closed" ELSE @]
    /\ UNCHANGED <<conns, plan, switched>>

\* reader_loop: a HELLO names the peer.
ReadHello(n, d) ==
    /\ Readable(n, d) /\ Frame(n, d) = Hello
    /\ Read(n, d) /\ known' = [known EXCEPT ![n] = @ \cup {d}]
    /\ UNCHANGED <<appVars, clock, pumpVars, shardVars>>

\* Mutant of IngestFree: readers do not wait for each other.
NoMutex(n) == TRUE

\* The ingest mutex is free.
IngestFree(n) == applying[n] = {}

Seen(n, m) == \E h \in heard[n] : h.origin = m.origin /\ h.seq = m.seq

\* Mutant of ShouldReplace: of two writes at one time the later to arrive wins.
ReplacesTies(current, m) == m.time >= current.time

\* state_replica::should_replace, for mutations of different origins: all carry
\* a time.
ShouldReplace(current, m) ==
    IF m.time # current.time THEN m.time > current.time
                             ELSE m.origin > current.origin

\* The conflict check of ingest_remote: only against another origin.
ConflictLost(n, m) ==
    /\ lastMutation[n] # None /\ lastMutation[n].origin # m.origin
    /\ ~ShouldReplace(lastMutation[n], m)

\* hybrid_clock::update.
Merged(n, m) == (IF clock[n] >= m.time THEN clock[n] ELSE m.time) + 1

\* ingest_remote drops what it has seen.
IngestDuplicate(n, d) ==
    /\ Readable(n, d) /\ Frame(n, d) # Hello
    /\ IngestFree(n) /\ Seen(n, Frame(n, d))
    /\ Read(n, d)
    /\ UNCHANGED <<appVars, clock, pumpVars, known, shardVars>>

\* It records, and merges the time of, the rest, and applies what loses to none.
Ingest(n, d) ==
    LET m == Frame(n, d) IN
    /\ Readable(n, d) /\ m # Hello /\ IngestFree(n) /\ ~Seen(n, m)
    /\ Read(n, d)
    /\ heard' = [heard EXCEPT ![n] = @ \cup {m}]
    /\ clock' = [clock EXCEPT ![n] = Merged(n, m)]
    /\ applying' = [applying EXCEPT
                      ![n] = IF ConflictLost(n, m) THEN @ ELSE @ \cup {m}]
    /\ UNCHANGED <<appVars, pumpVars, known, lastMutation>>

\* apply_remote sets the value with the handler suppressed; the mutation is then
\* the last of the path, and the mutex is released.
Apply(n) ==
    \E m \in applying[n] :
        /\ value' = [value EXCEPT ![n] = m.value]
        /\ lastMutation' = [lastMutation EXCEPT ![n] = m]
        /\ applying' = [applying EXCEPT ![n] = @ \ {m}]
        /\ UNCHANGED <<fired, journal, writes, clock, pumpVars, linkVars, heard>>

\* What a node's own threads do: the handler on the application's, the pump, the
\* accept loop and the readers.
SystemStep ==
    \/ \E n \in Nodes : Journal(n) \/ DrainLocal(n) \/ Publish(n) \/ Apply(n)
    \/ \E d \in Dials : Accept(d)
    \/ \E d \in Dials : \E n \in Ends(d) :
          ReadHello(n, d) \/ IngestDuplicate(n, d) \/ Ingest(n, d) \/ End(n, d)

Next ==
    \/ SystemStep
    \/ \E n \in Nodes : Write(n)
    \/ \E d \in Dials : Dial(d)
    \/ \E d \in Dials : \E n \in Ends(d) : Fail(n, d)

Spec == Init /\ [][Next]_vars

-----------------------------------------------------------------------------
(* Properties. *)

TypeOK ==
    /\ value \in [Nodes -> Values] /\ fired \in [Nodes -> BOOLEAN]
    /\ writes \in [Writers -> Nat] /\ clock \in [Nodes -> Nat]
    /\ journal \in [Nodes -> Seq(Values)] /\ cursor \in [Nodes -> Nat]
    /\ pending \in [Nodes -> Seq(Mutations)]
    /\ conns \in [Nodes -> [Nodes -> Seq(Dials)]] /\ known \in [Nodes -> SUBSET Dials]
    /\ link \in [Nodes -> [Dials -> LinkStates]] /\ switched \subseteq Nodes \X Nodes
    /\ wire \in [Dials -> [Nodes -> Seq(Mutations \cup {Hello})]]
    /\ heard \in [Nodes -> SUBSET Mutations] /\ applying \in [Nodes -> SUBSET Mutations]
    /\ lastMutation \in [Nodes -> Mutations \cup {None}]

\* A reader never puts an older write of a node over a newer one of it, whatever
\* connections and backfills carry the two (ingest_remote's mutex, and the order in
\* which admit_connection and publish write), as long as the writer has not gone
\* over to a connection that it had left out: what it published, or claimed to have,
\* on the dead one alone is missing there, and comes with the next backfill.
NewestKept ==
    \A n \in Nodes : \A m \in applying[n], h \in heard[n] :
        h.origin = m.origin /\ <<m.origin, n>> \notin switched => h.seq <= m.seq

\* What a node that does not write itself holds depends on what it has heard and
\* not on the order it heard it in: the winner by time and then origin, unless
\* copies of two writes carry times in another order than the writes, or a writer
\* has gone over to a connection that it had left out.
InOrder(ms) ==
    \A a, b \in ms : a.origin = b.origin /\ a.seq < b.seq => a.time < b.time
Beats(a, b) == a.time > b.time \/ (a.time = b.time /\ a.origin > b.origin)

WinnerHeld ==
    \A n \in Nodes \ Writers : \A m \in heard[n] :
        /\ IngestFree(n) /\ InOrder(heard[n])
        /\ \A o \in Nodes : <<o, n>> \notin switched
        /\ \A h \in heard[n] \ {m} : Beats(m, h)
        => value[n] = m.value

\* As long as there is something to do, the threads do some of it.
FairSpec == Spec /\ WF_vars(SystemStep)

\* Every write that is journaled reaches every node the writer is connected to,
\* whether it was made before they were connected, as they were, or after: unless the
\* writer has gone over to a connection with it that it had left out.
Connected(m, n) == \E d \in Live(m) \cap Live(n) : Ends(d) = {m, n}
HasAll(m, n) == \A i \in DOMAIN journal[n] : Seen(m, [origin |-> n, seq |-> i])

Delivered ==
    []<>(\A m, n \in Nodes :
            Connected(m, n) /\ <<n, m>> \notin switched => HasAll(m, n))

\* Once all is written, sent and ingested, the replicas of a path are equal.
Quiet ==
    /\ \A n \in Nodes : ~fired[n] /\ applying[n] = {}
    /\ \A m, n \in Nodes : m # n => HasAll(m, n)

ReplicasAgree == Quiet => \A m, n \in Nodes : value[m] = value[n]
=============================================================================
