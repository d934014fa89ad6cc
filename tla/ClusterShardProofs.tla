------------------------- MODULE ClusterShardProofs -------------------------
(***************************************************************************)
(* Proofs about ClusterShard for every value of the constants.             *)
(*                                                                         *)
(* NewestKept is inductive only with what makes it true: the pump's        *)
(* pending mutations are the last it has drained (Pended), every frame of  *)
(* a mutation comes after the ones the writer made before it, or those     *)
(* have been heard (Ordered), a connection publish still writes on has     *)
(* carried all that was published (Complete), and so what a node has heard *)
(* of another is a prefix of its journal (PrefixHeard).                    *)
(*                                                                         *)
(* All this is of a writer and a reader of which the writer has not gone   *)
(* over to a connection that it had left out: switched grows, and a step   *)
(* by which a connection is claimed anew adds to it (TurnFacts), so that a *)
(* connection that may have missed a frame is one the invariant leaves     *)
(* out.  Complete leaves out, too, what the other end has shut: there a    *)
(* write can only fail, and a dead connection is never claimed again.      *)
(*                                                                         *)
(* WinnerHeld rests on the same invariant: a write that is applied without *)
(* a comparison, because the last one was of the same origin, is the newer *)
(* of the two.                                                             *)
(***************************************************************************)
EXTENDS ClusterShard, SequenceTheorems, TLAPS

Has(n, o, s) == Seen(n, [origin |-> o, seq |-> s])
Carries(q, k, s) == \E j \in 1 .. k : q[j] \in Mutations /\ q[j].seq = s
Published(n) == cursor[n] - Len(pending[n])
Serves(n) == Claimed(n, Live(n))
Stays(n, p) == <<n, p>> \notin switched

Pended ==
    \A n \in Nodes :
        /\ Len(pending[n]) <= cursor[n] /\ cursor[n] <= Len(journal[n])
        /\ \A i \in 1 .. Len(pending[n]) :
              pending[n][i].origin = n /\ pending[n][i].seq = Published(n) + i

OwnFrames ==
    \A d \in Dials, n \in Nodes : \A i \in 1 .. Len(wire[d][n]) :
        wire[d][n][i] \in Mutations => wire[d][n][i].origin = n

Ordered ==
    \A d \in Dials : \A n \in Ends(d) : \A i \in 1 .. Len(wire[d][n]) :
        wire[d][n][i] \in Mutations /\ Stays(n, Peer(d, n)) =>
            \A s \in 1 .. wire[d][n][i].seq - 1 :
                Carries(wire[d][n], i - 1, s) \/ Has(Peer(d, n), n, s)

Complete ==
    \A n \in Nodes : \A d \in Serves(n) \ Shut(n) :
        n \in Ends(d) /\ Stays(n, Peer(d, n)) =>
            \A s \in 1 .. Published(n) :
                Carries(wire[d][n], Len(wire[d][n]), s) \/ Has(Peer(d, n), n, s)

PrefixHeard ==
    \A n \in Nodes : \A m \in heard[n] :
        Stays(m.origin, n) => \A s \in 1 .. m.seq - 1 : Has(n, m.origin, s)

OneApplying ==
    \A n \in Nodes : applying[n] \subseteq heard[n] /\ \A a, b \in applying[n] : a = b

IInv ==
    /\ TypeOK /\ Pended /\ OwnFrames /\ Ordered /\ Complete
    /\ PrefixHeard /\ OneApplying /\ NewestKept

-----------------------------------------------------------------------------

LEMMA EndsFacts ==
  ASSUME NEW d \in Dials
  PROVE  /\ d[1] \in Nodes /\ d[2] \in Nodes /\ d[1] # d[2]
         /\ Ends(d) = {d[1], d[2]}
         /\ \A n \in Ends(d) : Peer(d, n) \in Ends(d) /\ Peer(d, n) # n
                               /\ Peer(d, Peer(d, n)) = n /\ Ends(d) = {n, Peer(d, n)}
  BY NodesAssumption DEF Ends, Peer, NodesAssumption

\* A HELLO is no mutation.
LEMMA HelloApart == Hello \notin Mutations /\ None \notin Mutations
  <1>1. \A m \in Mutations : m.origin \in Nodes
    BY DEF Mutations
  <1>2. 0 \notin Nodes
    BY NodesAssumption DEF NodesAssumption
  <1>3. Hello.origin = 0 /\ None.origin = 0
    BY DEF Hello, None
  <1> QED
    BY <1>1, <1>2, <1>3

\* What is collected is a sequence of n's mutations, numbered from after + 1.
LEMMA CollectedFacts ==
  ASSUME TypeOK, NEW n \in Nodes, NEW after \in Nat, after <= Len(journal[n])
  PROVE  /\ Collected(n, after) \in Seq(Mutations)
         /\ Len(Collected(n, after)) = Len(journal[n]) - after
         /\ \A i \in 1 .. Len(journal[n]) - after :
               /\ Collected(n, after)[i].origin = n
               /\ Collected(n, after)[i].seq = after + i
  <1> DEFINE k == Len(journal[n]) - after
             c == Collected(n, after)
  <1>1. journal[n] \in Seq(Values) /\ Len(journal[n]) \in Nat /\ clock[n] \in Nat
    BY DEF TypeOK
  <1>2. k \in Nat
    BY <1>1
  <1>3. ASSUME NEW i \in 1 .. k
        PROVE  /\ c[i] = [origin |-> n, seq |-> after + i, time |-> clock[n] + i,
                          value |-> journal[n][after + i]]
               /\ c[i] \in Mutations
               /\ c[i].origin = n /\ c[i].seq = after + i
    <2>1. after + i \in 1 .. Len(journal[n])
      BY <1>1
    <2>2. journal[n][after + i] \in Values
      BY <1>1, <2>1, ElementOfSeq
    <2>3. after + i \in Nat \ {0} /\ clock[n] + i \in Nat \ {0}
      BY <1>1
    <2>4. c[i] = [origin |-> n, seq |-> after + i, time |-> clock[n] + i,
                  value |-> journal[n][after + i]]
      BY DEF Collected
    <2> HIDE DEF c
    <2> QED
      BY <2>2, <2>3, <2>4 DEF Mutations
  <1>4. c \in [1 .. k -> Mutations]
    BY <1>3 DEF Collected
  <1> HIDE DEF c
  <1>5. c \in Seq(Mutations)
    BY <1>2, <1>4
  <1>6. Len(c) = k
    BY <1>2, <1>4, <1>5
  <1>7. \A i \in 1 .. k : c[i].origin = n /\ c[i].seq = after + i
    BY <1>3
  <1> QED
    BY <1>5, <1>6, <1>7 DEF c

LEMMA TypeInit == Init => TypeOK
  <1> SUFFICES ASSUME Init PROVE TypeOK
    OBVIOUS
  <1>1. \A S : << >> \in Seq(S)
    OBVIOUS
  <1>2. \A n, p \in Nodes : conns[n][p] \in Seq(Dials)
    <2> SUFFICES ASSUME NEW n \in Nodes, NEW p \in Nodes PROVE conns[n][p] \in Seq(Dials)
      OBVIOUS
    <2> DEFINE between == {d \in Standing : Ends(d) = {n, p}}
    <2>1. \A d \in Dials : << d >> \in Seq(Dials)
      OBVIOUS
    <2>2. between \subseteq Dials
      BY NodesAssumption DEF NodesAssumption
    <2>3. conns[n][p] = IF between = {} THEN << >> ELSE << CHOOSE d \in between : TRUE >>
      BY DEF Init
    <2> HIDE DEF between
    <2>4. between # {} => (CHOOSE d \in between : TRUE) \in between
      OBVIOUS
    <2> QED
      BY <1>1, <2>1, <2>2, <2>3, <2>4
  <1>3. conns \in [Nodes -> [Nodes -> Seq(Dials)]]
    BY <1>2 DEF Init
  <1>4. Ahead \in [Nodes -> Nat] /\ 0 \in Nat /\ <<0, 0>> \in Values
    BY BoundAssumption DEF BoundAssumption, Values
  <1>5. known \in [Nodes -> SUBSET Dials]
    BY NodesAssumption DEF Init, NodesAssumption
  <1>6. wire \in [Dials -> [Nodes -> Seq(Mutations \cup {Hello})]]
    BY <1>1 DEF Init
  <1>10. link \in [Nodes -> [Dials -> LinkStates]] /\ switched \subseteq Nodes \X Nodes
    BY DEF Init, LinkStates
  <1>7. /\ value \in [Nodes -> Values] /\ fired \in [Nodes -> BOOLEAN]
        /\ writes \in [Writers -> Nat] /\ clock \in [Nodes -> Nat]
        /\ cursor \in [Nodes -> Nat]
    BY <1>4 DEF Init
  <1>8. journal \in [Nodes -> Seq(Values)] /\ pending \in [Nodes -> Seq(Mutations)]
    BY <1>1 DEF Init
  <1>9. /\ heard \in [Nodes -> SUBSET Mutations] /\ applying \in [Nodes -> SUBSET Mutations]
        /\ lastMutation \in [Nodes -> Mutations \cup {None}]
    BY DEF Init
  <1> QED
    BY <1>3, <1>5, <1>6, <1>7, <1>8, <1>9, <1>10 DEF TypeOK

Frames == Mutations \cup {Hello}

LEMMA WireType ==
  ASSUME TypeOK
  PROVE  wire \in [Dials -> [Nodes -> Seq(Frames)]]
  BY DEF TypeOK, Frames

\* Frames are appended to the wires of some connections.
LEMMA SentType ==
  ASSUME TypeOK, NEW n \in Nodes, NEW to, NEW fs \in Seq(Frames), wire' = Sent(n, to, fs)
  PROVE  /\ wire' \in [Dials -> [Nodes -> Seq(Frames)]]
         /\ \A d \in Dials, x \in Nodes :
               wire'[d][x] = IF d \in to /\ x = n THEN wire[d][x] \o fs ELSE wire[d][x]
  <1>1. wire \in [Dials -> [Nodes -> Seq(Frames)]]
    BY WireType
  <1>2. \A q \in Seq(Frames) : q \o fs \in Seq(Frames)
    BY ConcatProperties
  <1>3. \A d \in Dials :
           wire'[d] = IF d \in to THEN [wire[d] EXCEPT ![n] = @ \o fs] ELSE wire[d]
    BY DEF Sent
  <1>4. ASSUME NEW d \in Dials
        PROVE  /\ wire'[d] \in [Nodes -> Seq(Frames)]
               /\ \A x \in Nodes :
                     wire'[d][x] = IF d \in to /\ x = n THEN wire[d][x] \o fs ELSE wire[d][x]
    <2> DEFINE w == wire[d]
               q == wire[d][n] \o fs
    <2>1. w \in [Nodes -> Seq(Frames)] /\ q \in Seq(Frames)
      BY <1>1, <1>2
    <2>2. wire'[d] = IF d \in to THEN [w EXCEPT ![n] = q] ELSE w
      BY <1>3
    <2>3. w[n] \o fs = q /\ w = wire[d]
      OBVIOUS
    <2> HIDE DEF w, q
    <2>4. CASE d \in to
      <3>1. wire'[d] = [w EXCEPT ![n] = q]
        BY <2>2, <2>4
      <3>2. wire'[d] \in [Nodes -> Seq(Frames)]
        BY <2>1, <3>1
      <3>3. \A x \in Nodes : wire'[d][x] = IF x = n THEN q ELSE w[x]
        BY <2>1, <3>1
      <3> QED
        BY <2>3, <2>4, <3>2, <3>3
    <2> QED
      BY <2>1, <2>2, <2>3, <2>4
  <1>5. wire' \in [Dials -> [Nodes -> Seq(Frames)]]
    BY <1>4 DEF Sent
  <1>6. \A d \in Dials, x \in Nodes :
           wire'[d][x] = IF d \in to /\ x = n THEN wire[d][x] \o fs ELSE wire[d][x]
    BY <1>4
  <1> QED
    BY <1>5, <1>6

LEMMA SentNothing ==
  ASSUME TypeOK, NEW n \in Nodes, NEW to
  PROVE  Sent(n, to, << >>) = wire
  <1>1. wire \in [Dials -> [Nodes -> Seq(Frames)]]
    BY WireType
  <1>2. ASSUME NEW d \in Dials PROVE [wire[d] EXCEPT ![n] = @ \o << >>] = wire[d]
    <2>1. wire[d] \in [Nodes -> Seq(Frames)] /\ wire[d][n] \in Seq(Frames)
      BY <1>1
    <2>2. wire[d][n] \o << >> = wire[d][n]
      BY <2>1, ConcatEmptySeq
    <2> QED
      BY <2>1, <2>2
  <1>3. Sent(n, to, << >>) = [d \in Dials |-> wire[d]]
    BY <1>2 DEF Sent
  <1> QED
    BY <1>1, <1>3

\* A reader takes the first frame of a wire, and all that is left of it if the
\* connection has died.
LEMMA ReadType ==
  ASSUME TypeOK, NEW d \in Dials, NEW n \in Ends(d), Readable(n, d), Read(n, d)
  PROVE  /\ wire' \in [Dials -> [Nodes -> Seq(Mutations \cup {Hello})]]
         /\ \A e \in Dials, x \in Nodes :
               wire'[e][x] = IF e = d /\ x = Peer(d, n)
                             THEN IF link[n][d] = "dying" THEN << >> ELSE Tail(wire[e][x])
                             ELSE wire[e][x]
         /\ link' \in [Nodes -> [Dials -> LinkStates]]
         /\ \A x \in Nodes, e \in Dials :
               link'[x][e] = IF x = n /\ e = d /\ link[n][d] = "dying" THEN "closed"
                                                                     ELSE link[x][e]
         /\ Frame(n, d) \in Mutations \cup {Hello}
  <1> DEFINE F == Mutations \cup {Hello}
             p == Peer(d, n)
             r == IF link[n][d] = "dying" THEN << >> ELSE Tail(wire[d][p])
  <1>a. wire \in [Dials -> [Nodes -> Seq(F)]]
    BY DEF TypeOK
  <1>b. p \in Nodes /\ n \in Nodes
    BY EndsFacts
  <1>1. wire \in [Dials -> [Nodes -> Seq(F)]] /\ p \in Nodes
    BY <1>a, <1>b
  <1>2. wire[d][p] \in Seq(F) /\ wire[d][p] # << >>
    <2>1. wire[d][p] # << >>
      BY DEF Readable
    <2> HIDE DEF F, p
    <2> QED
      BY <1>1, <2>1
  <1>3. Head(wire[d][p]) \in F /\ Tail(wire[d][p]) \in Seq(F)
    BY <1>2, HeadTailProperties
  <1>r. r \in Seq(F)
    BY <1>3
  <1>4. wire' = [wire EXCEPT ![d][p] = r]
    BY DEF Read
  <1>5. Frame(n, d) \in F
    BY <1>3 DEF Frame
  <1>8. r = IF link[n][d] = "dying" THEN << >> ELSE Tail(wire[d][p])
    OBVIOUS
  <1> HIDE DEF F, p, r
  <1>6. wire' \in [Dials -> [Nodes -> Seq(F)]]
    BY <1>1, <1>r, <1>4
  <1>7. \A e \in Dials, x \in Nodes :
           wire'[e][x] = IF e = d /\ x = p THEN r ELSE wire[e][x]
    BY <1>1, <1>4
  <1>9. /\ link' \in [Nodes -> [Dials -> LinkStates]]
        /\ \A x \in Nodes, e \in Dials :
              link'[x][e] = IF x = n /\ e = d /\ link[n][d] = "dying" THEN "closed"
                                                                    ELSE link[x][e]
    <2> DEFINE l == IF link[n][d] = "dying" THEN "closed" ELSE link[n][d]
    <2>1. link \in [Nodes -> [Dials -> LinkStates]] /\ l \in LinkStates
      BY <1>b DEF TypeOK, LinkStates
    <2>2. link' = [link EXCEPT ![n][d] = l]
      BY DEF Read
    <2>3. l = IF link[n][d] = "dying" THEN "closed" ELSE link[n][d]
      OBVIOUS
    <2> HIDE DEF l
    <2> QED
      BY <1>b, <2>1, <2>2, <2>3
  <1> QED
    BY <1>5, <1>6, <1>7, <1>8, <1>9 DEF F, p

\* Ends of n that die: those who switch are recorded for good.
LEMMA TurnFacts ==
  ASSUME TypeOK, NEW n \in Nodes, NEW ds \in SUBSET Dials, NEW s \in {"dying", "closed"},
         Turn(n, ds, s), UNCHANGED <<conns, known>>
  PROVE  /\ link' \in [Nodes -> [Dials -> LinkStates]] /\ switched' \subseteq Nodes \X Nodes
         /\ switched \subseteq switched'
         /\ \A x \in Nodes, d \in Dials :
               link'[x][d] = IF x = n /\ d \in ds THEN s ELSE link[x][d]
         /\ \A x \in Nodes : \A d \in Serves(x)' :
               x \in Ends(d) => d \in Serves(x) \/ ~Stays(x, Peer(d, x))'
  <1>1. /\ link' = [link EXCEPT ![n] = [d \in Dials |-> IF d \in ds THEN s ELSE @[d]]]
        /\ switched' = switched \cup
              {<<n, Peer(d, n)>> : d \in Claimed(n, Live(n) \ ds) \ Claimed(n, Live(n))}
    BY DEF Turn
  <1>2. link \in [Nodes -> [Dials -> LinkStates]] /\ s \in LinkStates
    BY DEF TypeOK, LinkStates
  <1>3. /\ link' \in [Nodes -> [Dials -> LinkStates]]
        /\ \A x \in Nodes, d \in Dials :
              link'[x][d] = IF x = n /\ d \in ds THEN s ELSE link[x][d]
    <2> DEFINE l == [d \in Dials |-> IF d \in ds THEN s ELSE link[n][d]]
    <2>1. l \in [Dials -> LinkStates] /\ link' = [link EXCEPT ![n] = l]
      BY <1>1, <1>2
    <2>2. \A d \in Dials : l[d] = IF d \in ds THEN s ELSE link[n][d]
      OBVIOUS
    <2> HIDE DEF l
    <2>3. link' \in [Nodes -> [Dials -> LinkStates]] /\ link'[n] = l
      BY <1>2, <2>1
    <2>4. \A x \in Nodes : x # n => link'[x] = link[x]
      BY <1>2, <2>1
    <2> QED
      BY <2>2, <2>3, <2>4
  <1>4. \A x \in Nodes : Live(x)' = IF x = n THEN Live(n) \ ds ELSE Live(x)
    BY <1>3 DEF Live
  <1>5. \A x \in Nodes : Serves(x)' = Claimed(x, IF x = n THEN Live(n) \ ds ELSE Live(x))
    BY <1>4 DEF Serves, Claimed
  <1>6. ASSUME NEW x \in Nodes, NEW d \in Serves(x)', x \in Ends(d), d \notin Serves(x)
        PROVE  ~Stays(x, Peer(d, x))'
    <2>1. x = n
      BY <1>5, <1>6 DEF Serves
    <2>2. d \in Claimed(n, Live(n) \ ds) \ Claimed(n, Live(n))
      BY <1>5, <1>6, <2>1 DEF Serves
    <2> QED
      BY <1>1, <2>1, <2>2 DEF Stays
  <1>7. ASSUME NEW d \in Claimed(n, Live(n) \ ds)
        PROVE  Peer(d, n) \in Nodes
    <2>1. d \in Dials
      BY DEF Claimed, Live
    <2> QED
      BY <2>1, EndsFacts DEF Peer
  <1>8. switched' \subseteq Nodes \X Nodes
    <2>1. switched \subseteq Nodes \X Nodes
      BY DEF TypeOK
    <2> QED
      BY <1>1, <1>7, <2>1
  <1> QED
    BY <1>1, <1>3, <1>6, <1>8

LEMMA TypeWrite ==
  ASSUME TypeOK, NEW n \in Nodes, Write(n) \/ Journal(n)
  PROVE  TypeOK'
  <1>1. CASE Write(n)
    <2>1. writes' \in [Writers -> Nat] /\ writes'[n] \in Nat \ {0} /\ n \in Writers
      BY <1>1 DEF Write, TypeOK
    <2>2. <<n, writes'[n]>> \in Values
      BY <2>1 DEF Values
    <2>3. value' \in [Nodes -> Values] /\ fired' \in [Nodes -> BOOLEAN]
      BY <1>1, <2>2 DEF Write, TypeOK
    <2> QED
      BY <1>1, <2>1, <2>3 DEF Write, TypeOK, pumpVars, linkVars, endVars, shardVars
  <1>2. CASE Journal(n)
    <2>1. Append(journal[n], value[n]) \in Seq(Values)
      BY AppendProperties DEF TypeOK
    <2>2. journal' \in [Nodes -> Seq(Values)] /\ fired' \in [Nodes -> BOOLEAN]
      BY <1>2, <2>1 DEF Journal, TypeOK
    <2> QED
      BY <1>2, <2>2 DEF Journal, TypeOK, pumpVars, linkVars, endVars, shardVars
  <1> QED
    BY <1>1, <1>2

LEMMA TypePump ==
  ASSUME TypeOK, Pended, NEW n \in Nodes, DrainLocal(n) \/ Publish(n)
  PROVE  TypeOK'
  <1>1. CASE DrainLocal(n)
    <2>a. cursor[n] \in Nat /\ Len(journal[n]) \in Nat
      BY DEF TypeOK
    <2>b. cursor[n] <= Len(journal[n])
      BY DEF Pended
    <2>1. cursor[n] \in Nat /\ Len(journal[n]) \in Nat /\ cursor[n] <= Len(journal[n])
      BY <2>a, <2>b
    <2>2. Collected(n, cursor[n]) \in Seq(Mutations)
      BY <2>1, CollectedFacts
    <2>3. pending' \in [Nodes -> Seq(Mutations)] /\ cursor' \in [Nodes -> Nat]
      BY <1>1, <2>1, <2>2 DEF DrainLocal, TypeOK
    <2>4. clock[n] \in Nat /\ clock[n] + Len(journal[n]) - cursor[n] \in Nat
      BY <2>1 DEF TypeOK
    <2>5. clock' \in [Nodes -> Nat]
      BY <1>1, <2>4 DEF DrainLocal, TypeOK
    <2> QED
      BY <1>1, <2>3, <2>5 DEF DrainLocal, TypeOK, appVars, linkVars, endVars, shardVars
  <1>2. CASE Publish(n)
    <2>1. pending[n] \in Seq(Mutations) /\ pending[n] # << >>
      BY <1>2 DEF Publish, TypeOK
    <2>2. Head(pending[n]) \in Mutations /\ Tail(pending[n]) \in Seq(Mutations)
      BY <2>1, HeadTailProperties
    <2>3. <<Head(pending[n])>> \in Seq(Frames)
      BY <2>2 DEF Frames
    <2> PICK failed \in SUBSET Claimed(n, Live(n)) :
           /\ wire' = Sent(n, Claimed(n, Live(n)) \ failed, <<Head(pending[n])>>)
           /\ Turn(n, failed, "dying")
      BY <1>2 DEF Publish
    <2>a. failed \in SUBSET Dials /\ conns' = conns /\ known' = known
      BY <1>2 DEF Claimed, Live, Publish
    <2>b. wire' \in [Dials -> [Nodes -> Seq(Frames)]]
      BY <2>3, SentType
    <2>4. wire' \in [Dials -> [Nodes -> Seq(Mutations \cup {Hello})]]
      BY <2>b DEF Frames
    <2>5. pending' \in [Nodes -> Seq(Mutations)]
      BY <1>2, <2>2 DEF Publish, TypeOK
    <2>6. link' \in [Nodes -> [Dials -> LinkStates]] /\ switched' \subseteq Nodes \X Nodes
      BY <2>a, TurnFacts
    <2> QED
      BY <1>2, <2>4, <2>5, <2>6 DEF Publish, TypeOK, appVars, shardVars
  <1> QED
    BY <1>1, <1>2

\* What admit_connection writes on a connection: a HELLO and the whole journal.
LEMMA BackfillFacts ==
  ASSUME TypeOK, NEW n \in Nodes
  PROVE  /\ <<Hello>> \o Backfill(n) \in Seq(Frames)
         /\ Len(<<Hello>> \o Backfill(n)) = Len(journal[n]) + 1
         /\ Len(journal[n]) \in Nat /\ Len(Backfill(n)) = Len(journal[n])
         /\ (<<Hello>> \o Backfill(n))[1] = Hello
         /\ \A s \in 1 .. Len(journal[n]) :
               /\ (<<Hello>> \o Backfill(n))[s + 1] \in Mutations
               /\ (<<Hello>> \o Backfill(n))[s + 1].origin = n
               /\ (<<Hello>> \o Backfill(n))[s + 1].seq = s
  <1> DEFINE b == Backfill(n)
             k == Len(journal[n])
  <1>1. k \in Nat /\ 0 \in Nat /\ 0 <= k
    BY DEF TypeOK
  <1>2. /\ b \in Seq(Mutations) /\ Len(b) = k - 0
        /\ \A i \in 1 .. k - 0 : b[i].origin = n /\ b[i].seq = 0 + i
    BY <1>1, CollectedFacts DEF Backfill
  <1>3. \A i \in 1 .. k : b[i] \in Mutations
    BY <1>1, <1>2, ElementOfSeq
  <1>4. b \in Seq(Frames)
    BY <1>2, SeqMonotonic DEF Frames
  <1>5. <<Hello>> \in Seq(Frames) /\ Len(<<Hello>>) = 1 /\ <<Hello>>[1] = Hello
    BY DEF Frames
  <1> HIDE DEF b, k
  <1>6. /\ <<Hello>> \o b \in Seq(Frames) /\ Len(<<Hello>> \o b) = 1 + Len(b)
        /\ \A i \in 1 .. 1 + Len(b) :
              (<<Hello>> \o b)[i] = IF i <= 1 THEN <<Hello>>[i] ELSE b[i - 1]
    BY <1>4, <1>5, ConcatProperties
  <1>7. (<<Hello>> \o b)[1] = Hello
    BY <1>1, <1>2, <1>5, <1>6
  <1>8. \A s \in 1 .. k : (<<Hello>> \o b)[s + 1] = b[s]
    BY <1>1, <1>2, <1>6
  <1> QED
    BY <1>1, <1>2, <1>3, <1>6, <1>7, <1>8 DEF b, k

\* admit_connection appends a connection, alive or shut, and its frames, or some.
LEMMA AdmitFacts ==
  ASSUME TypeOK, NEW d \in Dials, NEW n \in Ends(d), Admit(n, d)
  PROVE  /\ \E fs \in Seq(Frames) :
               /\ wire' = Sent(n, {d}, fs)
               /\ \/ link'[n][d] = "alive" /\ fs = <<Hello>> \o Backfill(n)
                  \/ /\ link'[n][d] = "closed"
                     /\ \E k \in 0 .. Len(<<Hello>> \o Backfill(n)) :
                           fs = SubSeq(<<Hello>> \o Backfill(n), 1, k)
         /\ link' \in [Nodes -> [Dials -> LinkStates]]
         /\ \A x \in Nodes, e \in Dials : ~(x = n /\ e = d) => link'[x][e] = link[x][e]
         /\ link[n][d] = "none"
  <1> DEFINE all == <<Hello>> \o Backfill(n)
  <1>1. n \in Nodes
    BY EndsFacts
  <1>2. all \in Seq(Frames) /\ Len(all) \in Nat
    BY <1>1, BackfillFacts, LenProperties
  <1>3. link[n][d] = "none" /\ link \in [Nodes -> [Dials -> LinkStates]]
    BY DEF Admit, TypeOK
  <1>4. "alive" \in LinkStates /\ "closed" \in LinkStates
    BY DEF LinkStates
  <1>5. PICK l \in {"alive", "closed"} : link' = [link EXCEPT ![n][d] = l]
    BY DEF Admit
  <1>6. /\ link' \in [Nodes -> [Dials -> LinkStates]] /\ link'[n][d] = l
        /\ \A x \in Nodes, e \in Dials : ~(x = n /\ e = d) => link'[x][e] = link[x][e]
    BY <1>1, <1>3, <1>4, <1>5
  <1>7. \/ /\ wire' = Sent(n, {d}, all) /\ link' = [link EXCEPT ![n][d] = "alive"]
        \/ /\ \E k \in 1 .. Len(all) : wire' = Sent(n, {d}, SubSeq(all, 1, k - 1))
           /\ link' = [link EXCEPT ![n][d] = "closed"]
        \/ /\ wire' = wire /\ link' = [link EXCEPT ![n][d] = "closed"]
    BY DEF Admit
  <1> HIDE DEF all
  <1>8. CASE wire' = Sent(n, {d}, all) /\ link' = [link EXCEPT ![n][d] = "alive"]
    <2>1. link'[n][d] = "alive"
      BY <1>1, <1>3, <1>8
    <2> QED
      BY <1>2, <1>3, <1>6, <1>8, <2>1 DEF all
  <1>9. CASE /\ \E k \in 1 .. Len(all) : wire' = Sent(n, {d}, SubSeq(all, 1, k - 1))
             /\ link' = [link EXCEPT ![n][d] = "closed"]
    <2> PICK k \in 1 .. Len(all) : wire' = Sent(n, {d}, SubSeq(all, 1, k - 1))
      BY <1>9
    <2>1. k - 1 \in 0 .. Len(all) /\ SubSeq(all, 1, k - 1) \in Seq(Frames)
      <3>1. k - 1 \in 0 .. Len(all)
        BY <1>2
      <3> QED
        BY <1>2, <3>1, SubSeqProperties
    <2>2. link'[n][d] = "closed"
      BY <1>1, <1>3, <1>9
    <2> QED
      BY <1>3, <1>6, <2>1, <2>2 DEF all
  <1>10. CASE wire' = wire /\ link' = [link EXCEPT ![n][d] = "closed"]
    <2>1. link'[n][d] = "closed"
      BY <1>1, <1>3, <1>10
    <2>2. 0 \in 0 .. Len(all) /\ << >> \in Seq(Frames) /\ SubSeq(all, 1, 0) = << >>
      BY <1>2
    <2>3. wire' = Sent(n, {d}, << >>)
      BY <1>1, <1>10, SentNothing
    <2> QED
      BY <1>3, <1>6, <2>1, <2>2, <2>3 DEF all
  <1> QED
    BY <1>7, <1>8, <1>9, <1>10

LEMMA TypeLinks ==
  ASSUME TypeOK, NEW d \in Dials, NEW n \in Ends(d), Admit(n, d) \/ End(n, d) \/ Fail(n, d)
  PROVE  TypeOK'
  <1> DEFINE p == Peer(d, n)
  <1>1. n \in Nodes /\ p \in Nodes
    BY EndsFacts
  <1>2. CASE Admit(n, d)
    <2>1. wire' \in [Dials -> [Nodes -> Seq(Mutations \cup {Hello})]]
          /\ link' \in [Nodes -> [Dials -> LinkStates]]
      <3> PICK fs \in Seq(Frames) : wire' = Sent(n, {d}, fs)
        BY <1>2, AdmitFacts
      <3>1. wire' \in [Dials -> [Nodes -> Seq(Frames)]]
        BY <1>1, SentType
      <3>2. link' \in [Nodes -> [Dials -> LinkStates]]
        BY <1>2, AdmitFacts
      <3> QED
        BY <3>1, <3>2 DEF Frames
    <2>4. conns' = [conns EXCEPT ![n][p] = Append(conns[n][p], d)]
      BY <1>2 DEF Admit
    <2>5. conns' \in [Nodes -> [Nodes -> Seq(Dials)]]
      <3> HIDE DEF p
      <3>1. conns \in [Nodes -> [Nodes -> Seq(Dials)]]
        BY DEF TypeOK
      <3>2. conns[n][p] \in Seq(Dials)
        BY <1>1, <3>1
      <3>3. Append(conns[n][p], d) \in Seq(Dials)
        BY <3>2, AppendProperties
      <3> QED
        BY <1>1, <3>1, <3>3, <2>4
    <2>6. clock[n] \in Nat /\ Len(Backfill(n)) \in Nat
      BY <1>1, BackfillFacts DEF TypeOK
    <2>7. clock' \in [Nodes -> Nat]
      <3>1. clock' = [clock EXCEPT ![n] = clock[n] + Len(Backfill(n))]
        BY <1>2 DEF Admit
      <3>2. clock[n] + Len(Backfill(n)) \in Nat
        BY <2>6
      <3> QED
        BY <3>1, <3>2 DEF TypeOK
    <2>8. switched' \subseteq Nodes \X Nodes
      BY <1>2 DEF Admit, TypeOK
    <2> QED
      BY <1>2, <2>1, <2>5, <2>7, <2>8 DEF Admit, TypeOK, appVars, pumpVars, shardVars
  <1>3. CASE Close(n, d)
    <2>1. << >> \in Seq(Mutations \cup {Hello})
      OBVIOUS
    <2>2. wire' \in [Dials -> [Nodes -> Seq(Mutations \cup {Hello})]]
      BY <1>3, <2>1 DEF Close, TypeOK
    <2>3. {d} \in SUBSET Dials /\ Turn(n, {d}, "closed") /\ UNCHANGED <<conns, known>>
      BY <1>3 DEF Close
    <2>4. link' \in [Nodes -> [Dials -> LinkStates]] /\ switched' \subseteq Nodes \X Nodes
      BY <1>1, <2>3, TurnFacts
    <2> QED
      BY <1>3, <2>2, <2>4 DEF Close, TypeOK, appVars, pumpVars, shardVars
  <1> QED
    BY <1>2, <1>3 DEF End, Fail

LEMMA TypeRead ==
  ASSUME TypeOK, NEW d \in Dials, NEW n \in Ends(d),
         ReadHello(n, d) \/ IngestDuplicate(n, d) \/ Ingest(n, d)
  PROVE  TypeOK'
  <1>1. n \in Nodes
    BY EndsFacts
  <1>2. /\ wire' \in [Dials -> [Nodes -> Seq(Mutations \cup {Hello})]]
        /\ Frame(n, d) \in Mutations \cup {Hello}
        /\ link' \in [Nodes -> [Dials -> LinkStates]]
    BY ReadType DEF ReadHello, IngestDuplicate, Ingest
  <1>r. UNCHANGED <<conns, plan, switched>>
    BY DEF ReadHello, IngestDuplicate, Ingest, Read
  <1>3. CASE ReadHello(n, d)
    <2>1. known' \in [Nodes -> SUBSET Dials]
      BY <1>1, <1>3 DEF ReadHello, TypeOK
    <2> QED
      BY <1>2, <1>r, <1>3, <2>1 DEF ReadHello, TypeOK, appVars, pumpVars, shardVars
  <1>4. CASE IngestDuplicate(n, d)
    BY <1>2, <1>r, <1>4 DEF IngestDuplicate, TypeOK, appVars, pumpVars, shardVars
  <1>5. CASE Ingest(n, d)
    <2> DEFINE m == Frame(n, d)
    <2>1. m \in Mutations /\ m.time \in Nat /\ clock[n] \in Nat
      BY <1>1, <1>2, <1>5 DEF Ingest, TypeOK, Mutations
    <2>2. Merged(n, m) \in Nat
      BY <2>1 DEF Merged
    <2>3. clock' \in [Nodes -> Nat] /\ heard' \in [Nodes -> SUBSET Mutations]
      BY <1>1, <1>5, <2>1, <2>2 DEF Ingest, TypeOK
    <2>4. applying' \in [Nodes -> SUBSET Mutations]
      BY <1>1, <1>5, <2>1 DEF Ingest, TypeOK
    <2> QED
      BY <1>2, <1>r, <1>5, <2>3, <2>4 DEF Ingest, TypeOK, appVars, pumpVars
  <1> QED
    BY <1>3, <1>4, <1>5

LEMMA TypeApply ==
  ASSUME TypeOK, NEW n \in Nodes, Apply(n)
  PROVE  TypeOK'
  <1> PICK m \in applying[n] :
          /\ value' = [value EXCEPT ![n] = m.value]
          /\ lastMutation' = [lastMutation EXCEPT ![n] = m]
          /\ applying' = [applying EXCEPT ![n] = @ \ {m}]
          /\ UNCHANGED <<fired, journal, writes, clock, pumpVars, linkVars, heard>>
    BY DEF Apply
  <1>1. m \in Mutations /\ m.value \in Values
    BY DEF TypeOK, Mutations
  <1>2. /\ value' \in [Nodes -> Values] /\ applying' \in [Nodes -> SUBSET Mutations]
        /\ lastMutation' \in [Nodes -> Mutations \cup {None}]
    BY <1>1 DEF TypeOK
  <1> QED
    BY <1>2 DEF TypeOK, pumpVars, linkVars, endVars

LEMMA TypeStep == TypeOK /\ Pended /\ [Next]_vars => TypeOK'
  <1> SUFFICES ASSUME TypeOK, Pended, [Next]_vars PROVE TypeOK'
    OBVIOUS
  <1>1. CASE SystemStep
    <2>1. ASSUME NEW n \in Nodes, Journal(n) PROVE TypeOK'
      BY <2>1, TypeWrite
    <2>2. ASSUME NEW n \in Nodes, DrainLocal(n) \/ Publish(n) PROVE TypeOK'
      BY <2>2, TypePump
    <2>3. ASSUME NEW n \in Nodes, Apply(n) PROVE TypeOK'
      BY <2>3, TypeApply
    <2>4. ASSUME NEW d \in Dials, Accept(d) PROVE TypeOK'
      BY <2>4, TypeLinks DEF Accept, Ends
    <2>5. ASSUME NEW d \in Dials, NEW n \in Ends(d),
                 ReadHello(n, d) \/ IngestDuplicate(n, d) \/ Ingest(n, d)
          PROVE  TypeOK'
      BY <2>5, TypeRead
    <2>6. ASSUME NEW d \in Dials, NEW n \in Ends(d), End(n, d) PROVE TypeOK'
      BY <2>6, TypeLinks
    <2> QED
      BY <1>1, <2>1, <2>2, <2>3, <2>4, <2>5, <2>6 DEF SystemStep
  <1>2. ASSUME NEW n \in Nodes, Write(n) PROVE TypeOK'
    BY <1>2, TypeWrite
  <1>3. ASSUME NEW d \in Dials, Dial(d) PROVE TypeOK'
    BY <1>3, TypeLinks DEF Dial, Ends
  <1>4. ASSUME NEW d \in Dials, NEW n \in Ends(d), Fail(n, d) PROVE TypeOK'
    BY <1>4, TypeLinks
  <1>5. CASE UNCHANGED vars
    BY <1>5 DEF vars, TypeOK
  <1> QED
    BY <1>1, <1>2, <1>3, <1>4, <1>5 DEF Next

-----------------------------------------------------------------------------
(* What a wire carries. *)

\* What a wire carries it carries with more frames behind it.
LEMMA CarriesMore ==
  ASSUME NEW q \in Seq(Frames), NEW r \in Seq(Frames), NEW k \in 0 .. Len(q),
         NEW l \in 0 .. Len(r), NEW s
  PROVE  /\ Carries(q, k, s) => Carries(q \o r, k, s) /\ Carries(q, Len(q), s)
         /\ Carries(q, k, s) => Carries(q \o r, Len(q) + l, s)
         /\ Carries(r, l, s) => Carries(q \o r, Len(q) + l, s)
  <1>1. /\ Len(q) \in Nat /\ Len(r) \in Nat
        /\ \A i \in 1 .. Len(q) + Len(r) :
              (q \o r)[i] = IF i <= Len(q) THEN q[i] ELSE r[i - Len(q)]
    BY ConcatProperties
  <1>2. ASSUME Carries(q, k, s)
        PROVE  /\ Carries(q \o r, k, s) /\ Carries(q, Len(q), s)
               /\ Carries(q \o r, Len(q) + l, s)
    <2> PICK j \in 1 .. k : q[j] \in Mutations /\ q[j].seq = s
      BY <1>2 DEF Carries
    <2>1. j \in 1 .. Len(q) /\ j \in 1 .. Len(q) + l /\ (q \o r)[j] = q[j]
      BY <1>1
    <2> QED
      BY <2>1 DEF Carries
  <1>3. ASSUME Carries(r, l, s) PROVE Carries(q \o r, Len(q) + l, s)
    <2> PICK j \in 1 .. l : r[j] \in Mutations /\ r[j].seq = s
      BY <1>3 DEF Carries
    <2>1. Len(q) + j \in 1 .. Len(q) + l /\ (q \o r)[Len(q) + j] = r[j]
      BY <1>1
    <2> QED
      BY <2>1 DEF Carries
  <1> QED
    BY <1>2, <1>3

\* With its first frame read, a wire carries the rest.
LEMMA CarriesTail ==
  ASSUME NEW q \in Seq(Frames), q # << >>, NEW k \in 1 .. Len(q), NEW s, Carries(q, k, s)
  PROVE  Carries(Tail(q), k - 1, s) \/ (Head(q) \in Mutations /\ Head(q).seq = s)
  <1>1. /\ Len(q) \in Nat /\ Len(Tail(q)) = Len(q) - 1
        /\ \A i \in 1 .. Len(Tail(q)) : Tail(q)[i] = q[i + 1]
    BY HeadTailProperties
  <1>2. Head(q) = q[1]
    OBVIOUS
  <1> PICK j \in 1 .. k : q[j] \in Mutations /\ q[j].seq = s
    BY DEF Carries
  <1>3. CASE j = 1
    BY <1>2, <1>3
  <1>4. CASE j # 1
    <2>1. j - 1 \in 1 .. k - 1 /\ Tail(q)[j - 1] = q[j]
      BY <1>1, <1>4
    <2> QED
      BY <2>1 DEF Carries
  <1> QED
    BY <1>3, <1>4

\* Frames in order, appended to wires that carry what is before them, keep the
\* order of every wire.
LEMMA SendKeeps ==
  ASSUME TypeOK, OwnFrames, Ordered, NEW n \in Nodes, NEW to, NEW fs \in Seq(Frames),
         wire' = Sent(n, to, fs), heard' = heard,
         \A j \in 1 .. Len(fs) : fs[j] \in Mutations => fs[j].origin = n,
         switched \subseteq switched',
         \A d \in Dials \cap to : \A j \in 1 .. Len(fs) :
            fs[j] \in Mutations /\ n \in Ends(d) /\ Stays(n, Peer(d, n))' =>
               \A s \in 1 .. fs[j].seq - 1 :
                  \/ Carries(wire[d][n], Len(wire[d][n]), s) \/ Carries(fs, j - 1, s)
                  \/ Has(Peer(d, n), n, s)
  PROVE  OwnFrames' /\ Ordered'
  <1>1. \A d \in Dials, x \in Nodes :
           wire'[d][x] = IF d \in to /\ x = n THEN wire[d][x] \o fs ELSE wire[d][x]
    BY SentType
  <1>s. \A x, p : Stays(x, p)' => Stays(x, p)
    BY DEF Stays
  <1>2. ASSUME NEW d \in Dials, NEW x \in Nodes, NEW i \in 1 .. Len(wire'[d][x]),
               wire'[d][x][i] \in Mutations
        PROVE  /\ wire'[d][x][i].origin = x
               /\ x \in Ends(d) /\ Stays(x, Peer(d, x))' => \A s \in 1 .. wire'[d][x][i].seq - 1 :
                     Carries(wire'[d][x], i - 1, s) \/ Has(Peer(d, x), x, s)
    <2>1. CASE ~(d \in to /\ x = n)
      <3>1. wire'[d][x] = wire[d][x]
        BY <1>1, <2>1
      <3> QED
        BY <1>2, <1>s, <3>1 DEF OwnFrames, Ordered
    <2>2. CASE d \in to /\ x = n
      <3> DEFINE q == wire[d][n]
      <3>1. wire'[d][x] = q \o fs
        BY <1>1, <2>2
      <3>2. q \in Seq(Frames)
        BY WireType
      <3>3. /\ Len(q) \in Nat /\ Len(fs) \in Nat /\ Len(q \o fs) = Len(q) + Len(fs)
            /\ \A j \in 1 .. Len(q) + Len(fs) :
                  (q \o fs)[j] = IF j <= Len(q) THEN q[j] ELSE fs[j - Len(q)]
        BY <3>2, ConcatProperties
      <3>q. q = wire[d][n]
        OBVIOUS
      <3> HIDE DEF q
      <3>4. CASE i <= Len(q)
        <4>1. i \in 1 .. Len(q) /\ i - 1 \in 0 .. Len(q) /\ (q \o fs)[i] = q[i]
          BY <3>1, <3>3, <3>4
        <4>2. q[i] \in Mutations
          BY <1>2, <3>1, <4>1
        <4>3. q[i].origin = n
          BY <3>q, <4>1, <4>2 DEF OwnFrames
        <4>4. ASSUME x \in Ends(d), Stays(x, Peer(d, x))', NEW s \in 1 .. q[i].seq - 1
              PROVE  Carries(q, i - 1, s) \/ Has(Peer(d, n), n, s)
          BY <1>s, <2>2, <3>q, <4>1, <4>2, <4>4 DEF Ordered
        <4>5. 0 \in 0 .. Len(fs)
          BY <3>3
        <4>6. \A s : Carries(q, i - 1, s) => Carries(q \o fs, i - 1, s)
          BY <3>2, <4>1, <4>5, CarriesMore
        <4> QED
          BY <2>2, <3>1, <4>1, <4>3, <4>4, <4>6
      <3>5. CASE i > Len(q)
        <4> DEFINE j == i - Len(q)
        <4>1. j \in 1 .. Len(fs) /\ j - 1 \in 0 .. Len(fs) /\ (q \o fs)[i] = fs[j]
          BY <3>1, <3>3, <3>5
        <4>2. i - 1 = Len(q) + (j - 1) /\ Len(q) \in 0 .. Len(q)
          BY <3>3
        <4>3. fs[j] \in Mutations
          BY <1>2, <3>1, <4>1
        <4> HIDE DEF j
        <4>4. fs[j].origin = n
          BY <4>1, <4>3
        <4>5. x \in Ends(d) /\ Stays(x, Peer(d, x))' => \A s \in 1 .. fs[j].seq - 1 :
                 Carries(q, Len(q), s) \/ Carries(fs, j - 1, s) \/ Has(Peer(d, n), n, s)
          BY <2>2, <3>q, <4>1, <4>3
        <4>6. \A s : Carries(fs, j - 1, s) => Carries(q \o fs, i - 1, s)
          BY <3>2, <4>1, <4>2, CarriesMore
        <4>7. \A s : Carries(q, Len(q), s) => Carries(q \o fs, i - 1, s)
          BY <3>2, <4>1, <4>2, CarriesMore
        <4> QED
          BY <2>2, <3>1, <4>1, <4>4, <4>5, <4>6, <4>7
      <3> QED
        <4>1. i \in Nat
          BY <3>1, <3>3
        <4> QED
          BY <3>3, <3>4, <3>5, <4>1
    <2> QED
      BY <2>1, <2>2
  <1>3. OwnFrames'
    BY <1>2 DEF OwnFrames
  <1>4. Ordered'
    <2>1. \A d \in Dials : Ends(d) \subseteq Nodes
      BY EndsFacts
    <2>2. ASSUME NEW d \in Dials, NEW x \in Ends(d), NEW i \in 1 .. Len(wire'[d][x]),
                 wire'[d][x][i] \in Mutations, Stays(x, Peer(d, x))',
                 NEW s \in 1 .. wire'[d][x][i].seq - 1
          PROVE  (Carries(wire[d][x], i - 1, s) \/ Has(Peer(d, x), x, s))'
      <3>1. Carries(wire'[d][x], i - 1, s) \/ Has(Peer(d, x), x, s)
        BY <1>2, <2>1, <2>2
      <3>2. Has(Peer(d, x), x, s)' <=> Has(Peer(d, x), x, s)
        BY DEF Has, Seen
      <3>3. Carries(wire[d][x], i - 1, s)' <=> Carries(wire'[d][x], i - 1, s)
        BY DEF Carries
      <3> QED
        BY <3>1, <3>2, <3>3
    <2> QED
      BY <2>2 DEF Ordered
  <1> QED
    BY <1>3, <1>4

\* What is still to come, or has come, at the other end of a wire.
Reaches(d, n, s) == Carries(wire[d][n], Len(wire[d][n]), s) \/ Has(Peer(d, n), n, s)

\* A frame that has been read and heard leaves the rest in order.
LEMMA ReadKeeps ==
  ASSUME TypeOK, OwnFrames, Ordered, NEW d \in Dials, NEW n \in Ends(d),
         Readable(n, d), Read(n, d), \A x \in Nodes : heard[x] \subseteq heard'[x],
         Frame(n, d) \in Mutations =>
            \E h \in heard'[n] : h.origin = Peer(d, n) /\ h.seq = Frame(n, d).seq
  PROVE  /\ OwnFrames' /\ Ordered'
         /\ \A e \in Dials : \A x \in Ends(e) :
               \/ x = Peer(d, n) /\ e = d /\ link'[n][d] = "closed"
               \/ \A s : Reaches(e, x, s) => Reaches(e, x, s)'
  <1> DEFINE p == Peer(d, n)
             q == wire[d][p]
  <1>1. n \in Nodes /\ p \in Nodes /\ p \in Ends(d) /\ Peer(d, p) = n
    BY EndsFacts
  <1>2. \A e \in Dials, x \in Nodes :
           wire'[e][x] = IF e = d /\ x = p
                         THEN IF link[n][d] = "dying" THEN << >> ELSE Tail(wire[e][x])
                         ELSE wire[e][x]
    BY ReadType
  <1>l. link[n][d] = "dying" => link'[n][d] = "closed"
    BY <1>1, ReadType
  <1>s. \A x, o : Stays(x, o)' <=> Stays(x, o)
    BY DEF Read, Stays
  <1>3. q \in Seq(Frames)
    <2>1. wire \in [Dials -> [Nodes -> Seq(Frames)]]
      BY WireType
    <2> HIDE DEF p
    <2> QED
      BY <1>1, <2>1
  <1>a. q # << >>
    <2>1. wire[d][Peer(d, n)] # << >>
      BY DEF Readable
    <2> QED
      BY <2>1
  <1>b. Frame(n, d) = Head(q)
    BY DEF Frame
  <1>4. q # << >> /\ Frame(n, d) = Head(q)
    BY <1>a, <1>b
  <1>5. Head(q) \in Mutations => \E h \in heard'[n] : h.origin = p /\ h.seq = Head(q).seq
    BY <1>b
  <1>6. \A m, o \in Nodes : \A s : Has(m, o, s) => Has(m, o, s)'
    BY DEF Has, Seen
  <1>7. q = wire[d][p] /\ p = Peer(d, n)
    OBVIOUS
  <1> HIDE DEF p, q
  <1>8. /\ Len(q) \in Nat \ {0} /\ Len(Tail(q)) = Len(q) - 1
        /\ \A i \in 1 .. Len(Tail(q)) : Tail(q)[i] = q[i + 1]
    BY <1>3, <1>4, HeadTailProperties, EmptySeq
  <1>9. \A k \in 1 .. Len(q) : \A s :
           Carries(q, k, s) => Carries(Tail(q), k - 1, s) \/ Has(n, p, s)'
    <2> SUFFICES ASSUME NEW k \in 1 .. Len(q), NEW s, Carries(q, k, s)
                 PROVE  Carries(Tail(q), k - 1, s) \/ Has(n, p, s)'
      OBVIOUS
    <2>1. Carries(Tail(q), k - 1, s) \/ (Head(q) \in Mutations /\ Head(q).seq = s)
      BY <1>3, <1>4, CarriesTail
    <2>2. (\E h \in heard'[n] : h.origin = p /\ h.seq = s) => Has(n, p, s)'
      BY <1>7 DEF Has, Seen
    <2> QED
      BY <1>5, <2>1, <2>2
  <1>10. \A e \in Dials : \A x \in Ends(e) : x \in Nodes /\ Peer(e, x) \in Nodes
    BY EndsFacts
  <1>11. ASSUME NEW e \in Dials, NEW x \in Nodes, NEW i \in 1 .. Len(wire'[e][x]),
                wire'[e][x][i] \in Mutations
         PROVE  /\ wire'[e][x][i].origin = x
                /\ x \in Ends(e) /\ Stays(x, Peer(e, x)) => \A s \in 1 .. wire'[e][x][i].seq - 1 :
                      Carries(wire'[e][x], i - 1, s) \/ Has(Peer(e, x), x, s)'
    <2>1. CASE ~(e = d /\ x = p)
      <3>1. wire'[e][x] = wire[e][x]
        BY <1>2, <2>1
      <3>2. wire'[e][x][i].origin = x
        BY <1>11, <3>1 DEF OwnFrames
      <3>3. ASSUME x \in Ends(e), Stays(x, Peer(e, x)), NEW s \in 1 .. wire'[e][x][i].seq - 1
            PROVE  Carries(wire'[e][x], i - 1, s) \/ Has(Peer(e, x), x, s)'
        <4>1. Carries(wire[e][x], i - 1, s) \/ Has(Peer(e, x), x, s)
          BY <1>11, <3>1, <3>3 DEF Ordered
        <4> QED
          BY <1>6, <1>10, <3>1, <3>3, <4>1
      <3> QED
        BY <3>2, <3>3
    <2>2. CASE e = d /\ x = p
      <3>d. link[n][d] # "dying"
        <4>1. link[n][d] = "dying" => wire'[e][x] = << >>
          BY <1>2, <2>2
        <4> QED
          BY <1>11, <4>1
      <3>1. wire'[e][x] = Tail(q) /\ wire[e][x] = q
        BY <1>2, <1>7, <2>2, <3>d
      <3>2. i \in 1 .. Len(q) - 1 /\ i + 1 \in 1 .. Len(q) /\ wire'[e][x][i] = q[i + 1]
        BY <1>8, <3>1
      <3>3. wire'[e][x][i].origin = x
        BY <1>11, <3>1, <3>2 DEF OwnFrames
      <3>4. ASSUME x \in Ends(e), Stays(x, Peer(e, x)), NEW s \in 1 .. wire'[e][x][i].seq - 1
            PROVE  Carries(wire'[e][x], i - 1, s) \/ Has(Peer(e, x), x, s)'
        <4>a. q[i + 1] \in Mutations /\ s \in 1 .. q[i + 1].seq - 1
          BY <1>11, <3>2
        <4>b. q = wire[d][p] /\ Peer(d, p) = n /\ p \in Ends(d)
          BY <1>1, <1>7
        <4>1. Carries(q, i + 1 - 1, s) \/ Has(n, p, s)
          BY <2>2, <3>2, <3>4, <4>a, <4>b DEF Ordered
        <4>2. CASE Has(n, p, s)
          BY <1>1, <1>6, <2>2, <4>2
        <4>3. CASE Carries(q, i, s)
          <5>1. i \in 1 .. Len(q) /\ i + 1 - 1 = i
            BY <3>2
          <5> QED
            BY <1>1, <1>9, <2>2, <3>1, <4>3, <5>1
        <4>4. i + 1 - 1 = i
          BY <3>2
        <4> QED
          BY <4>1, <4>2, <4>3, <4>4
      <3> QED
        BY <3>3, <3>4
    <2> QED
      BY <2>1, <2>2
  <1>12. OwnFrames'
    BY <1>11 DEF OwnFrames
  <1>13. Ordered'
    <2>1. ASSUME NEW e \in Dials, NEW x \in Ends(e), NEW i \in 1 .. Len(wire'[e][x]),
                 wire'[e][x][i] \in Mutations, Stays(x, Peer(e, x)),
                 NEW s \in 1 .. wire'[e][x][i].seq - 1
          PROVE  (Carries(wire[e][x], i - 1, s) \/ Has(Peer(e, x), x, s))'
      <3>1. Carries(wire'[e][x], i - 1, s) \/ Has(Peer(e, x), x, s)'
        BY <1>10, <1>11, <2>1
      <3>2. Carries(wire[e][x], i - 1, s)' <=> Carries(wire'[e][x], i - 1, s)
        BY DEF Carries
      <3> QED
        BY <3>1, <3>2
    <2> QED
      BY <1>s, <2>1 DEF Ordered
  <1>14. ASSUME NEW e \in Dials, NEW x \in Ends(e), NEW s, Reaches(e, x, s),
                ~(x = p /\ e = d /\ link[n][d] = "dying")
         PROVE  Reaches(e, x, s)'
    <2>1. CASE Has(Peer(e, x), x, s)
      BY <1>6, <1>10, <2>1 DEF Reaches
    <2>2. CASE Carries(wire[e][x], Len(wire[e][x]), s)
      <3>1. Carries(wire[e][x], Len(wire[e][x]), s)'
               <=> Carries(wire'[e][x], Len(wire'[e][x]), s)
        BY DEF Carries
      <3>2. CASE ~(e = d /\ x = p)
        <4>1. wire'[e][x] = wire[e][x]
          BY <1>2, <1>10, <3>2
        <4> QED
          BY <2>2, <3>1, <4>1 DEF Reaches
      <3>3. CASE e = d /\ x = p
        <4>1. wire'[e][x] = Tail(q) /\ wire[e][x] = q
          BY <1>1, <1>2, <1>7, <1>14, <3>3
        <4>2. Carries(q, Len(q), s) /\ Len(q) \in 1 .. Len(q)
          BY <1>8, <2>2, <4>1
        <4>3. Carries(Tail(q), Len(Tail(q)), s) \/ Has(n, p, s)'
          BY <1>8, <1>9, <4>2
        <4> QED
          BY <1>1, <3>1, <3>3, <4>1, <4>3 DEF Reaches
      <3> QED
        BY <3>2, <3>3
    <2> QED
      BY <1>14, <2>1, <2>2 DEF Reaches
  <1> QED
    BY <1>7, <1>12, <1>13, <1>14, <1>l

\* With more peers known, publish serves no connection it did not serve before.
LEMMA ServesShrinks ==
  ASSUME conns' = conns, \A x \in Nodes : known[x] \subseteq known'[x], NEW n \in Nodes,
         Live(n)' = Live(n)
  PROVE  Serves(n)' \subseteq Serves(n)
  <1> SUFFICES ASSUME NEW d \in Serves(n)' PROVE d \in Serves(n)
    OBVIOUS
  <1> DEFINE cs == conns[n][Peer(d, n)]
             live == Live(n)
  <1>1. d \in live
    BY DEF Serves, Claimed
  <1>2. d \in known'[n] =>
           \A i, j \in DOMAIN cs : cs[i] = d /\ j < i => cs[j] \notin live \cap known'[n]
    BY DEF Serves, Claimed
  <1> HIDE DEF cs
  <1>3. d \in known[n] =>
           \A i, j \in DOMAIN cs : cs[i] = d /\ j < i => cs[j] \notin live \cap known[n]
    BY <1>2
  <1> QED
    BY <1>1, <1>3 DEF Serves, Claimed, cs

-----------------------------------------------------------------------------
(* The invariant at the start and over each step. *)

LEMMA Initially == Init => IInv
  <1> SUFFICES ASSUME Init PROVE IInv
    OBVIOUS
  <1>1. TypeOK
    BY TypeInit
  <1>2. Len(<< >>) = 0
    OBVIOUS
  <1>3. Pended
    <2>1. \A n \in Nodes : pending[n] = << >> /\ cursor[n] = 0 /\ journal[n] = << >>
      BY DEF Init
    <2>2. \A n \in Nodes : Len(pending[n]) = 0 /\ cursor[n] = 0 /\ Len(journal[n]) = 0
      BY <1>2, <2>1
    <2>3. \A i : i \notin 1 .. 0
      OBVIOUS
    <2> QED
      BY <2>2, <2>3 DEF Pended
  <1>4. OwnFrames /\ Ordered
    <2>1. \A d \in Dials, n \in Nodes : wire[d][n] = << >>
      BY DEF Init
    <2>2. \A d \in Dials : Ends(d) \subseteq Nodes
      BY EndsFacts
    <2>3. \A d \in Dials, n \in Nodes : Len(wire[d][n]) = 0
      BY <1>2, <2>1
    <2>4. \A i : i \notin 1 .. 0
      OBVIOUS
    <2> QED
      BY <2>2, <2>3, <2>4 DEF OwnFrames, Ordered
  <1>6. Complete
    <2>1. \A n \in Nodes : Published(n) = 0
      BY <1>2 DEF Published, Init
    <2>2. \A s : s \notin 1 .. 0
      OBVIOUS
    <2> QED
      BY <2>1, <2>2 DEF Complete
  <1>7. PrefixHeard /\ OneApplying /\ NewestKept
    <2>1. \A n \in Nodes : heard[n] = {} /\ applying[n] = {}
      BY DEF Init
    <2> QED
      BY <2>1 DEF PrefixHeard, OneApplying, NewestKept
  <1> QED
    BY <1>1, <1>3, <1>4, <1>6, <1>7 DEF IInv

Rest == Pended /\ OwnFrames /\ Ordered /\ Complete
        /\ PrefixHeard /\ OneApplying /\ NewestKept

linkState == <<conns, link, known, wire, switched>>

\* What is left alone keeps its part of the invariant.
LEMMA WireKept ==
  ASSUME OwnFrames, Ordered, UNCHANGED <<linkState, heard>>
  PROVE  OwnFrames' /\ Ordered'
  BY DEF OwnFrames, Ordered, Carries, Has, Seen, Stays, linkState

LEMMA CompleteKept ==
  ASSUME Complete, UNCHANGED <<linkState, heard>>,
         \A n \in Nodes : Published(n)' = Published(n)
  PROVE  Complete'
  <1>1. /\ conns' = conns /\ known' = known /\ wire' = wire /\ heard' = heard
        /\ link' = link /\ switched' = switched
    BY DEF linkState
  <1>2. \A n \in Nodes : Serves(n)' = Serves(n) /\ Shut(n)' = Shut(n)
    BY <1>1 DEF Serves, Claimed, Live, Shut
  <1>3. \A x, p : Stays(x, p)' <=> Stays(x, p)
    BY <1>1 DEF Stays
  <1> SUFFICES ASSUME NEW n \in Nodes, NEW d \in Serves(n) \ Shut(n),
                      n \in Ends(d), Stays(n, Peer(d, n)), NEW s \in 1 .. Published(n)
               PROVE  (Carries(wire[d][n], Len(wire[d][n]), s) \/ Has(Peer(d, n), n, s))'
    BY <1>2, <1>3 DEF Complete
  <1>4. Carries(wire[d][n], Len(wire[d][n]), s) \/ Has(Peer(d, n), n, s)
    BY DEF Complete
  <1>5. Carries(wire[d][n], Len(wire[d][n]), s)' <=> Carries(wire[d][n], Len(wire[d][n]), s)
    BY <1>1 DEF Carries
  <1>6. Has(Peer(d, n), n, s)' <=> Has(Peer(d, n), n, s)
    BY <1>1 DEF Has, Seen
  <1> QED
    BY <1>4, <1>5, <1>6

LEMMA PrefixKept ==
  ASSUME PrefixHeard, heard' = heard, switched \subseteq switched'
  PROVE  PrefixHeard'
  <1>1. ASSUME NEW n \in Nodes, NEW m \in heard[n], Stays(m.origin, n)', NEW s \in 1 .. m.seq - 1
        PROVE  Has(n, m.origin, s)'
    <2>1. Stays(m.origin, n)
      BY <1>1 DEF Stays
    <2>2. Has(n, m.origin, s)
      BY <2>1 DEF PrefixHeard
    <2> QED
      BY <2>2 DEF Has, Seen
  <1> QED
    BY <1>1 DEF PrefixHeard

LEMMA HeardKept ==
  ASSUME PrefixHeard, OneApplying, NewestKept, UNCHANGED <<heard, applying>>,
         switched \subseteq switched'
  PROVE  PrefixHeard' /\ OneApplying' /\ NewestKept'
  <1>1. PrefixHeard'
    BY PrefixKept
  <1>2. OneApplying' /\ NewestKept'
    BY DEF OneApplying, NewestKept
  <1> QED
    BY <1>1, <1>2

LEMMA PendedKept ==
  ASSUME TypeOK, Pended, UNCHANGED pumpVars,
         \A n \in Nodes : Len(journal'[n]) \in Nat /\ Len(journal[n]) <= Len(journal'[n])
  PROVE  Pended' /\ \A n \in Nodes : Published(n)' = Published(n)
  <1>1. \A n \in Nodes : cursor[n] \in Nat /\ Len(journal[n]) \in Nat
    BY DEF TypeOK
  <1>2. pending' = pending /\ cursor' = cursor
    BY DEF pumpVars
  <1>3. \A n \in Nodes : Published(n)' = Published(n)
    BY <1>2 DEF Published
  <1>4. \A n \in Nodes : cursor'[n] <= Len(journal'[n])
    <2>1. \A n \in Nodes : cursor[n] <= Len(journal[n])
      BY DEF Pended
    <2> QED
      BY <1>1, <1>2, <2>1
  <1>5. ASSUME NEW n \in Nodes, NEW i \in 1 .. Len(pending'[n])
        PROVE  pending'[n][i].origin = n /\ pending'[n][i].seq = Published(n)' + i
    <2>1. pending[n][i].origin = n /\ pending[n][i].seq = Published(n) + i
      BY <1>2 DEF Pended
    <2> QED
      BY <1>2, <1>3, <2>1
  <1>6. \A n \in Nodes : Len(pending'[n]) <= cursor'[n]
    BY <1>2 DEF Pended
  <1>7. Pended'
    BY <1>4, <1>5, <1>6 DEF Pended
  <1> QED
    BY <1>3, <1>7

LEMMA WriteKeeps ==
  ASSUME TypeOK, Rest, NEW n \in Nodes, Write(n) \/ Journal(n) \/ Apply(n)
  PROVE  Rest'
  <1>1. UNCHANGED <<linkState, heard, pumpVars>>
    BY DEF Write, Journal, Apply, linkState, linkVars, endVars, shardVars
  <1>2. \A x \in Nodes : Len(journal'[x]) \in Nat /\ Len(journal[x]) <= Len(journal'[x])
    <2>1. \A x \in Nodes : journal[x] \in Seq(Values) /\ Len(journal[x]) \in Nat
      BY DEF TypeOK
    <2>2. CASE Journal(n)
      <3>1. value[n] \in Values
        BY DEF TypeOK
      <3>2. Len(Append(journal[n], value[n])) = Len(journal[n]) + 1
        BY <2>1, <3>1, AppendProperties
      <3> DEFINE a == Append(journal[n], value[n])
      <3>3. journal' = [journal EXCEPT ![n] = a] /\ journal \in [Nodes -> Seq(Values)]
        BY <2>2 DEF Journal, TypeOK
      <3> HIDE DEF a
      <3>4. \A x \in Nodes : journal'[x] = IF x = n THEN a ELSE journal[x]
        BY <3>3
      <3>5. Len(a) = Len(journal[n]) + 1
        BY <3>2 DEF a
      <3> QED
        BY <2>1, <3>4, <3>5
    <2>3. CASE Write(n) \/ Apply(n)
      <3>1. journal' = journal
        BY <2>3 DEF Write, Apply
      <3> QED
        BY <2>1, <3>1
    <2> QED
      BY <2>2, <2>3
  <1>3. Pended' /\ \A x \in Nodes : Published(x)' = Published(x)
    BY <1>1, <1>2, PendedKept DEF Rest
  <1>s. switched' = switched
    BY <1>1 DEF linkState
  <1>4. PrefixHeard' /\ OneApplying' /\ NewestKept'
    <2>1. CASE Write(n) \/ Journal(n)
      <3>1. UNCHANGED <<heard, applying>>
        BY <2>1 DEF Write, Journal, shardVars
      <3> QED
        BY <1>s, <3>1, HeardKept DEF Rest
    <2>2. CASE Apply(n)
      <3>1. heard' = heard
        BY <1>1
      <3>2. \A x \in Nodes : applying'[x] \subseteq applying[x]
        BY <2>2 DEF Apply, TypeOK
      <3>3. PrefixHeard'
        BY <1>s, <3>1, PrefixKept DEF Rest
      <3>4. OneApplying'
        BY <3>1, <3>2 DEF Rest, OneApplying
      <3>5. NewestKept'
        BY <1>s, <3>1, <3>2 DEF Rest, NewestKept
      <3> QED
        BY <3>3, <3>4, <3>5
    <2> QED
      BY <2>1, <2>2
  <1>5. OwnFrames' /\ Ordered' /\ Complete'
    BY <1>1, <1>3, WireKept, CompleteKept DEF Rest
  <1> QED
    BY <1>3, <1>4, <1>5 DEF Rest

LEMMA DrainKeeps ==
  ASSUME TypeOK, Rest, NEW n \in Nodes, DrainLocal(n)
  PROVE  Rest'
  <1>1. UNCHANGED <<linkState, heard, applying, journal>>
    BY DEF DrainLocal, linkState, linkVars, endVars, shardVars, appVars
  <1>2. cursor[n] \in Nat /\ Len(journal[n]) \in Nat /\ cursor[n] <= Len(journal[n])
    <2>1. cursor[n] \in Nat /\ Len(journal[n]) \in Nat
      BY DEF TypeOK
    <2>2. cursor[n] <= Len(journal[n])
      BY DEF Rest, Pended
    <2> QED
      BY <2>1, <2>2
  <1>3. pending[n] = << >> /\ Len(pending[n]) = 0
    BY DEF DrainLocal
  <1> DEFINE c == Collected(n, cursor[n])
  <1>4. /\ Len(c) = Len(journal[n]) - cursor[n]
        /\ \A i \in 1 .. Len(journal[n]) - cursor[n] :
              c[i].origin = n /\ c[i].seq = cursor[n] + i
    BY <1>2, CollectedFacts
  <1> HIDE DEF c
  <1>5. \A x \in Nodes : /\ pending'[x] = IF x = n THEN c ELSE pending[x]
                         /\ cursor'[x] = IF x = n THEN Len(journal[n]) ELSE cursor[x]
    BY DEF DrainLocal, TypeOK, c
  <1>6. \A x \in Nodes : Published(x)' = Published(x)
    <2>1. ASSUME NEW x \in Nodes PROVE Published(x)' = Published(x)
      <3>1. Published(x)' = cursor'[x] - Len(pending'[x])
        BY DEF Published
      <3>2. CASE x = n
        <4>1. Published(x)' = Len(journal[n]) - Len(c)
          BY <1>5, <3>1, <3>2
        <4>2. Published(x) = cursor[n] - 0
          BY <1>3, <3>2 DEF Published
        <4> QED
          BY <1>2, <1>4, <4>1, <4>2
      <3>3. CASE x # n
        BY <1>5, <3>1, <3>3 DEF Published
      <3> QED
        BY <3>2, <3>3
    <2> QED
      BY <2>1
  <1>7. Pended'
    <2> SUFFICES ASSUME NEW x \in Nodes
                 PROVE  /\ Len(pending'[x]) <= cursor'[x] /\ cursor'[x] <= Len(journal'[x])
                        /\ \A i \in 1 .. Len(pending'[x]) :
                              /\ pending'[x][i].origin = x
                              /\ pending'[x][i].seq = Published(x)' + i
      BY DEF Pended
    <2>1. CASE x = n
      <3>1. Published(x) = cursor[n] - 0
        BY <1>3, <2>1 DEF Published
      <3>2. Published(x)' = cursor[n]
        BY <1>2, <1>6, <3>1
      <3>3. pending'[x] = c /\ cursor'[x] = Len(journal[n]) /\ journal'[x] = journal[n]
        BY <1>1, <1>5, <2>1
      <3> QED
        BY <1>2, <1>4, <2>1, <3>2, <3>3
    <2>2. CASE x # n
      <3>1. pending'[x] = pending[x] /\ cursor'[x] = cursor[x] /\ journal'[x] = journal[x]
        BY <1>1, <1>5, <2>2
      <3> QED
        BY <1>6, <3>1 DEF Rest, Pended
    <2> QED
      BY <2>1, <2>2
  <1>8. OwnFrames' /\ Ordered' /\ Complete'
    BY <1>1, <1>6, WireKept, CompleteKept DEF Rest
  <1>9. PrefixHeard' /\ OneApplying' /\ NewestKept'
    <2>1. switched' = switched
      BY <1>1 DEF linkState
    <2> QED
      BY <1>1, <2>1, HeardKept DEF Rest
  <1> QED
    BY <1>7, <1>8, <1>9 DEF Rest

LEMMA PublishKeeps ==
  ASSUME TypeOK, Rest, NEW n \in Nodes, Publish(n)
  PROVE  Rest'
  <1> DEFINE f == Head(pending[n])
             q == Tail(pending[n])
             k == Published(n)
  <1>1. UNCHANGED <<conns, known, cursor, heard, applying, journal>>
    BY DEF Publish, shardVars, appVars
  <1>pk. PICK failed \in SUBSET Serves(n), to \in SUBSET Serves(n) :
         /\ to = Serves(n) \ failed /\ Serves(n) \cap Shut(n) \subseteq failed
         /\ wire' = Sent(n, to, <<f>>)
         /\ Turn(n, failed, "dying")
    BY DEF Publish, Serves
  <1>to. /\ to \cap Shut(n) = {} /\ \A d \in Serves(n) : d \notin failed => d \in to
    BY <1>pk
  <1>w. wire' = Sent(n, to, <<f>>)
    BY <1>pk
  <1>l. /\ switched \subseteq switched'
        /\ \A x \in Nodes, d \in Dials :
              link'[x][d] = IF x = n /\ d \in failed THEN "dying" ELSE link[x][d]
        /\ \A x \in Nodes : \A d \in Serves(x)' :
              x \in Ends(d) => d \in Serves(x) \/ ~Stays(x, Peer(d, x))'
    <2>1. failed \in SUBSET Dials
      BY DEF Serves, Claimed, Live
    <2> QED
      BY <1>pk, <1>1, <2>1, TurnFacts
  <1>s. \A x, p : Stays(x, p)' => Stays(x, p)
    BY <1>l DEF Stays
  <1>c. \A d \in Serves(n)' : d \notin failed
    <2>1. \A d \in Serves(n)' : d \in Dials /\ link'[n][d] = "alive"
      BY DEF Serves, Claimed, Live
    <2> QED
      BY <1>l, <2>1
  \* An end that is shut stays so.
  <1>d. \A x \in Nodes : \A d \in Dials : x \in Ends(d) /\ d \in Shut(x) => d \in Shut(x)'
    <2> SUFFICES ASSUME NEW x \in Nodes, NEW d \in Dials, x \in Ends(d), d \in Shut(x)
                 PROVE  d \in Shut(x)'
      OBVIOUS
    <2>1. Peer(d, x) \in Nodes /\ link[Peer(d, x)][d] = "closed"
      BY EndsFacts DEF Shut
    <2>2. \A e \in failed : link[n][e] = "alive"
      BY DEF Serves, Claimed, Live
    <2>3. link'[Peer(d, x)][d] = "closed"
      BY <1>l, <2>1, <2>2
    <2> QED
      BY <2>3 DEF Shut
  <1>2. pending[n] \in Seq(Mutations) /\ pending[n] # << >>
    BY DEF Publish, TypeOK
  <1>3. /\ f \in Mutations /\ q \in Seq(Mutations) /\ Len(q) = Len(pending[n]) - 1
        /\ \A i \in 1 .. Len(q) : q[i] = pending[n][i + 1]
        /\ Len(pending[n]) \in Nat \ {0}
    BY <1>2, HeadTailProperties, EmptySeq
  <1>4. f = pending[n][1]
    BY <1>2
  <1>5. \A x \in Nodes : pending'[x] = IF x = n THEN q ELSE pending[x]
    BY DEF Publish, TypeOK
  <1>6. /\ Len(pending[n]) <= cursor[n] /\ cursor[n] <= Len(journal[n])
        /\ \A i \in 1 .. Len(pending[n]) :
              pending[n][i].origin = n /\ pending[n][i].seq = k + i
    BY DEF Rest, Pended
  <1>7. k = cursor[n] - Len(pending[n]) /\ cursor[n] \in Nat
    BY DEF Published, TypeOK
  <1> HIDE DEF f, q, k
  <1>8. f.origin = n /\ f.seq = k + 1 /\ k \in Nat
    <2>1. 1 \in 1 .. Len(pending[n])
      BY <1>3
    <2>2. pending[n][1].origin = n /\ pending[n][1].seq = k + 1
      BY <1>6, <2>1
    <2>3. k \in Nat
      BY <1>3, <1>6, <1>7
    <2> QED
      BY <1>4, <2>2, <2>3
  <1>9. /\ Published(n)' = k + 1
        /\ \A x \in Nodes : x # n => Published(x)' = Published(x)
    <2>1. Published(n)' = cursor[n] - Len(q)
      BY <1>1, <1>5 DEF Published
    <2>2. ASSUME NEW x \in Nodes, x # n PROVE Published(x)' = Published(x)
      <3>1. pending'[x] = pending[x] /\ cursor' = cursor
        BY <1>1, <1>5, <2>2
      <3> QED
        BY <3>1 DEF Published
    <2>3. cursor[n] - Len(q) = k + 1
      BY <1>3, <1>7
    <2> QED
      BY <2>1, <2>2, <2>3
  <1>10. Pended'
    <2> SUFFICES ASSUME NEW x \in Nodes
                 PROVE  /\ Len(pending'[x]) <= cursor'[x] /\ cursor'[x] <= Len(journal'[x])
                        /\ \A i \in 1 .. Len(pending'[x]) :
                              /\ pending'[x][i].origin = x
                              /\ pending'[x][i].seq = Published(x)' + i
      BY DEF Pended
    <2>1. CASE x = n
      <3>1. pending'[x] = q /\ cursor'[x] = cursor[n] /\ journal'[x] = journal[n]
        BY <1>1, <1>5, <2>1
      <3>2. ASSUME NEW i \in 1 .. Len(q)
            PROVE  q[i].origin = n /\ q[i].seq = k + 1 + i
        <4>1. i + 1 \in 1 .. Len(pending[n]) /\ q[i] = pending[n][i + 1]
          BY <1>3
        <4>2. pending[n][i + 1].origin = n /\ pending[n][i + 1].seq = k + (i + 1)
          BY <1>6, <4>1
        <4>3. k + (i + 1) = k + 1 + i
          BY <1>3, <1>8
        <4> QED
          BY <4>1, <4>2, <4>3
      <3>3. \A i \in 1 .. Len(q) : q[i].origin = n /\ q[i].seq = k + 1 + i
        BY <3>2
      <3>4. Len(q) <= cursor[n]
        BY <1>3, <1>6, <1>7
      <3> QED
        BY <1>6, <1>9, <2>1, <3>1, <3>3, <3>4
    <2>2. CASE x # n
      <3>1. pending'[x] = pending[x] /\ cursor'[x] = cursor[x] /\ journal'[x] = journal[x]
        BY <1>1, <1>5, <2>2
      <3>2. Published(x)' = Published(x)
        BY <1>9, <2>2
      <3> QED
        BY <3>1, <3>2 DEF Rest, Pended
    <2> QED
      BY <2>1, <2>2
  <1> DEFINE fs == <<f>>
  <1>11. /\ fs \in Seq(Frames) /\ Len(fs) = 1 /\ fs[1] = f
         /\ wire' = Sent(n, to, fs)
    BY <1>w, <1>3 DEF Frames
  <1> HIDE DEF fs
  <1>12. \A d \in Dials, x \in Nodes : wire'[d][x] =
            IF d \in to /\ x = n THEN wire[d][x] \o fs ELSE wire[d][x]
    BY <1>11, SentType
  <1>13. \A d \in to : n \in Ends(d) /\ Stays(n, Peer(d, n)) => \A s \in 1 .. k :
            Carries(wire[d][n], Len(wire[d][n]), s) \/ Has(Peer(d, n), n, s)
    BY <1>to DEF Rest, Complete, k
  <1>14. OwnFrames' /\ Ordered'
    <2>1. \A j \in 1 .. Len(fs) : fs[j].origin = n /\ fs[j].seq = k + 1
      BY <1>8, <1>11
    <2>2. \A j \in 1 .. Len(fs) : \A s \in 1 .. fs[j].seq - 1 : s \in 1 .. k
      BY <1>8, <2>1
    <2> QED
      BY <1>1, <1>l, <1>s, <1>11, <1>13, <2>1, <2>2, SendKeeps DEF Rest
  <1>16. Complete'
    <2> SUFFICES ASSUME NEW x \in Nodes, NEW d \in (Serves(x) \ Shut(x))',
                        x \in Ends(d), Stays(x, Peer(d, x))', NEW s \in 1 .. Published(x)'
                 PROVE  (Carries(wire[d][x], Len(wire[d][x]), s) \/ Has(Peer(d, x), x, s))'
      BY DEF Complete
    <2>1. d \in Dials
      BY DEF Serves, Claimed, Live
    <2>c. d \in Serves(x) \ Shut(x) /\ Stays(x, Peer(d, x))
      <3>1. d \in Serves(x)' /\ d \notin Shut(x)'
        OBVIOUS
      <3> QED
        BY <1>l, <1>s, <1>d, <2>1, <3>1
    <2>2. Has(Peer(d, x), x, s) => Has(Peer(d, x), x, s)'
      BY <1>1 DEF Has, Seen
    <2>3. Carries(wire[d][x], Len(wire[d][x]), s)'
             <=> Carries(wire'[d][x], Len(wire'[d][x]), s)
      BY DEF Carries
    <2>4. CASE x # n
      <3>1. wire'[d][x] = wire[d][x] /\ s \in 1 .. Published(x)
        BY <1>9, <1>12, <2>1, <2>4
      <3>2. Carries(wire[d][x], Len(wire[d][x]), s) \/ Has(Peer(d, x), x, s)
        BY <2>c, <3>1 DEF Rest, Complete
      <3> QED
        BY <2>2, <2>3, <3>1, <3>2
    <2>5. CASE x = n
      <3> DEFINE w == wire[d][n]
      <3>t. d \in to
        <4>1. d \in Serves(n)'
          BY <2>5
        <4> QED
          BY <1>c, <1>to, <2>c, <2>5, <4>1
      <3>1. wire'[d][x] = w \o fs
        BY <1>12, <2>1, <2>5, <3>t
      <3>2. w \in Seq(Frames)
        <4>1. wire \in [Dials -> [Nodes -> Seq(Frames)]]
          BY WireType
        <4> QED
          BY <2>1, <4>1
      <3>w. w = wire[d][n]
        OBVIOUS
      <3> HIDE DEF w
      <3>3. /\ Len(w) \in Nat /\ Len(w \o fs) = Len(w) + 1
            /\ \A i \in 1 .. Len(w) + 1 :
                  (w \o fs)[i] = IF i <= Len(w) THEN w[i] ELSE fs[i - Len(w)]
        <4>1. fs \in Seq(Frames)
          BY <1>11
        <4>2. Len(w) \in Nat /\ Len(fs) = 1
          BY <1>11, <3>2, LenProperties
        <4>3. /\ Len(w \o fs) = Len(w) + Len(fs)
              /\ \A i \in 1 .. Len(w) + Len(fs) :
                    (w \o fs)[i] = IF i <= Len(w) THEN w[i] ELSE fs[i - Len(w)]
          BY <3>2, <4>1, ConcatProperties
        <4> QED
          BY <4>1, <4>2, <4>3
      <3>4. CASE s = k + 1
        <4>1. Len(w) + 1 \in 1 .. Len(w) + 1 /\ (w \o fs)[Len(w) + 1] = f
          BY <1>11, <3>3
        <4>2. Carries(w \o fs, Len(w \o fs), s)
          BY <1>3, <1>8, <3>3, <3>4, <4>1 DEF Carries
        <4> QED
          BY <2>3, <3>1, <4>2
      <3>5. CASE s # k + 1
        <4>1. s \in 1 .. k
          BY <1>8, <1>9, <2>5, <3>5
        <4>2. Carries(w, Len(w), s) \/ Has(Peer(d, n), n, s)
          BY <1>13, <2>c, <2>5, <3>t, <3>w, <4>1
        <4>3. Len(w) \in 0 .. Len(w) /\ 1 \in 0 .. Len(fs)
          BY <1>11, <3>3
        <4>4. Carries(w, Len(w), s) => Carries(w \o fs, Len(w) + 1, s)
          BY <1>11, <3>2, <4>3, CarriesMore
        <4> QED
          BY <2>2, <2>3, <2>5, <3>1, <3>3, <4>2, <4>4
      <3> QED
        BY <3>4, <3>5
    <2> QED
      BY <2>4, <2>5
  <1>18. PrefixHeard' /\ OneApplying' /\ NewestKept'
    BY <1>1, <1>l, HeardKept DEF Rest
  <1> QED
    BY <1>10, <1>14, <1>16, <1>18 DEF Rest

LEMMA AdmitKeeps ==
  ASSUME TypeOK, Rest, NEW d \in Dials, NEW n \in Ends(d), Admit(n, d)
  PROVE  Rest'
  <1> DEFINE p == Peer(d, n)
             all == <<Hello>> \o Backfill(n)
             k == Len(journal[n])
  <1>1. /\ UNCHANGED <<known, cursor, pending, heard, applying, journal, switched>>
        /\ conns' = [conns EXCEPT ![n][p] = Append(conns[n][p], d)]
    BY DEF Admit, shardVars, appVars, pumpVars
  <1>2. n \in Nodes /\ p \in Nodes
    BY EndsFacts
  <1>3. k \in Nat /\ Len(all) = k + 1 /\ all \in Seq(Frames) /\ all[1] = Hello
    BY <1>2, BackfillFacts
  <1>4. \A s \in 1 .. k :
           all[s + 1] \in Mutations /\ all[s + 1].origin = n /\ all[s + 1].seq = s
    BY <1>2, BackfillFacts
  <1>5. conns \in [Nodes -> [Nodes -> Seq(Dials)]]
    BY DEF TypeOK
  <1>pk. PICK fs \in Seq(Frames) :
            /\ wire' = Sent(n, {d}, fs)
            /\ \/ link'[n][d] = "alive" /\ fs = all
               \/ /\ link'[n][d] = "closed"
                  /\ \E l \in 0 .. Len(all) : fs = SubSeq(all, 1, l)
    BY AdmitFacts
  <1>l. /\ \A x \in Nodes, e \in Dials : ~(x = n /\ e = d) => link'[x][e] = link[x][e]
        /\ link[n][d] = "none"
    BY AdmitFacts
  <1>p. p = Peer(d, n)
    OBVIOUS
  <1>k. k = Len(journal[n])
    OBVIOUS
  <1> HIDE DEF p, all, k
  \* It has written what it had to, or the start of it.
  <1>b. Len(fs) \in 0 .. k + 1 /\ \A i \in 1 .. Len(fs) : fs[i] = all[i]
    <2>1. CASE fs = all
      BY <1>3, <2>1
    <2>2. ASSUME NEW l \in 0 .. Len(all), fs = SubSeq(all, 1, l)
          PROVE  Len(fs) \in 0 .. k + 1 /\ \A i \in 1 .. Len(fs) : fs[i] = all[i]
      <3>1. \A i \in 1 .. l : all[i] \in Frames
        BY <1>3
      <3>2. /\ Len(fs) = IF 1 <= l THEN l - 1 + 1 ELSE 0
            /\ \A i \in 1 .. l - 1 + 1 : fs[i] = all[1 + i - 1]
        BY <1>3, <2>2, <3>1, SubSeqProperties
      <3>3. l \in 0 .. k + 1 /\ l \in Nat
        BY <1>3
      <3>4. Len(fs) = l
        BY <3>2, <3>3
      <3>5. ASSUME NEW i \in 1 .. Len(fs) PROVE fs[i] = all[i]
        <4>1. i \in 1 .. l - 1 + 1 /\ 1 + i - 1 = i
          BY <3>3, <3>4
        <4>2. fs[i] = all[1 + i - 1]
          BY <3>2, <4>1
        <4> QED
          BY <4>1, <4>2
      <3> QED
        BY <3>3, <3>4, <3>5
    <2> QED
      BY <1>pk, <2>1, <2>2
  <1>7. \A e \in Dials, x \in Nodes : wire'[e][x] =
           IF e = d /\ x = n THEN wire[e][x] \o fs ELSE wire[e][x]
    <2> DEFINE to == {d}
    <2>1. wire' = Sent(n, to, fs) /\ n \in Nodes
      BY <1>pk, <1>2
    <2>3. \A e : e \in to <=> e = d
      OBVIOUS
    <2> HIDE DEF to
    <2>4. \A e \in Dials, x \in Nodes : wire'[e][x] =
             IF e \in to /\ x = n THEN wire[e][x] \o fs ELSE wire[e][x]
      BY <2>1, SentType
    <2> QED
      BY <2>3, <2>4
  \* The backfill carries all that comes before any frame of it.
  <1>8. ASSUME NEW j \in 1 .. Len(fs), fs[j] \in Mutations
        PROVE  /\ fs[j].origin = n /\ fs[j].seq = j - 1
               /\ \A s \in 1 .. fs[j].seq - 1 : Carries(fs, j - 1, s)
    <2>0. fs[j] = all[j] /\ j \in 1 .. k + 1
      BY <1>3, <1>b
    <2>1. j # 1
      BY <1>3, <1>8, <2>0, HelloApart
    <2>2. j - 1 \in 1 .. k /\ j = (j - 1) + 1
      BY <1>3, <2>0, <2>1
    <2>3. fs[j].origin = n /\ fs[j].seq = j - 1
      BY <1>4, <2>0, <2>2
    <2>4. ASSUME NEW s \in 1 .. fs[j].seq - 1 PROVE Carries(fs, j - 1, s)
      <3>a. s \in 1 .. (j - 1) - 1 /\ j \in Nat /\ k \in Nat
        BY <1>3, <2>0, <2>3
      <3>1. s \in 1 .. k /\ s + 1 \in 1 .. j - 1 /\ s + 1 \in 1 .. Len(fs)
        BY <1>b, <2>2, <3>a
      <3>2. fs[s + 1] = all[s + 1]
        BY <1>b, <3>1
      <3> QED
        BY <1>4, <3>1, <3>2 DEF Carries
    <2> QED
      BY <2>3, <2>4
  <1>9. OwnFrames' /\ Ordered'
    <2>1. wire' = Sent(n, {d}, fs) /\ heard' = heard /\ switched \subseteq switched'
      BY <1>1, <1>pk
    <2> QED
      BY <1>2, <1>8, <2>1, SendKeeps DEF Rest
  <1>10. Pended'
    <2>1. \A x \in Nodes : Len(journal'[x]) \in Nat /\ Len(journal[x]) <= Len(journal'[x])
      BY <1>1 DEF TypeOK
    <2> QED
      BY <1>1, <2>1, PendedKept DEF Rest, pumpVars
  <1>11. \A x \in Nodes : Published(x)' = Published(x)
    BY <1>1 DEF Published
  <1> DEFINE old == conns[n][p]
             new == Append(old, d)
  <1>12. /\ \A x, y \in Nodes : conns'[x][y] = IF x = n /\ y = p THEN new ELSE conns[x][y]
         /\ old \in Seq(Dials)
    BY <1>1, <1>2, <1>5
  <1>old. old = conns[n][p]
    OBVIOUS
  <1> HIDE DEF old
  <1>13. \A i \in DOMAIN old : i \in DOMAIN new /\ new[i] = old[i]
    <2>1. new \in Seq(Dials)
      BY <1>12, AppendProperties
    <2>2. /\ Len(new) = Len(old) + 1
          /\ \A i \in 1 .. Len(old) : new[i] = old[i]
      BY <1>12, AppendProperties
    <2>3. Len(old) \in Nat /\ DOMAIN old = 1 .. Len(old)
      BY <1>12, LenProperties
    <2>4. DOMAIN new = 1 .. Len(new)
      BY <2>1, LenProperties
    <2> QED
      BY <2>2, <2>3, <2>4
  <1> HIDE DEF new
  <1>14. /\ \A x \in Nodes : Live(x) \subseteq Live(x)'
         /\ \A x \in Nodes : \A e \in Live(x)' : ~(x = n /\ e = d) => e \in Live(x)
    BY <1>l DEF Live
  \* No other connection becomes one that publish writes on: the new one is behind.
  <1>16. ASSUME NEW x \in Nodes, NEW e \in Serves(x)', ~(x = n /\ e = d)
         PROVE  e \in Serves(x)
    <2> DEFINE y == Peer(e, x)
               live == Live(x)
    <2>1. e \in Live(x)' /\ e \in live
      <3>1. e \in Live(x)'
        BY DEF Serves, Claimed
      <3> QED
        BY <1>14, <1>16, <3>1
    <2>2. y \in Nodes
      <3>1. e \in Dials
        BY <2>1 DEF Live
      <3> QED
        BY <3>1, EndsFacts DEF Peer
    <2>3. e \in known[x] =>
             \A i, j \in DOMAIN conns'[x][y] :
                conns'[x][y][i] = e /\ j < i => conns'[x][y][j] \notin live \cap known[x]
      <3>1. e \in known'[x] =>
               \A i, j \in DOMAIN conns'[x][y] : conns'[x][y][i] = e /\ j < i =>
                  conns'[x][y][j] \notin Live(x)' \cap known'[x]
        BY DEF Serves, Claimed
      <3>2. live \subseteq Live(x)' /\ known' = known
        BY <1>1, <1>14
      <3> QED
        BY <3>1, <3>2
    <2>4. \A i \in DOMAIN conns[x][y] :
             i \in DOMAIN conns'[x][y] /\ conns'[x][y][i] = conns[x][y][i]
      <3>1. CASE x = n /\ y = p
        BY <1>12, <1>13, <1>old, <1>2, <3>1
      <3>2. CASE ~(x = n /\ y = p)
        BY <1>12, <2>2, <3>2
      <3> QED
        BY <3>1, <3>2
    <2>y. y = Peer(e, x)
      OBVIOUS
    <2> HIDE DEF y
    <2>5. e \in known[x] =>
             \A i, j \in DOMAIN conns[x][y] :
                conns[x][y][i] = e /\ j < i => conns[x][y][j] \notin live \cap known[x]
      BY <2>3, <2>4
    <2> QED
      BY <2>1, <2>5, <2>y DEF Serves, Claimed
  <1>17. Complete'
    <2> SUFFICES ASSUME NEW x \in Nodes, NEW e \in (Serves(x) \ Shut(x))',
                        x \in Ends(e), Stays(x, Peer(e, x))', NEW s \in 1 .. Published(x)
                 PROVE  (Carries(wire[e][x], Len(wire[e][x]), s) \/ Has(Peer(e, x), x, s))'
      BY <1>11 DEF Complete
    <2>1. e \in Dials /\ link'[x][e] = "alive" /\ e \in Serves(x)' /\ e \notin Shut(x)'
      BY DEF Serves, Claimed, Live
    <2>2. Has(Peer(e, x), x, s) => Has(Peer(e, x), x, s)'
      BY <1>1 DEF Has, Seen
    <2>3. Carries(wire[e][x], Len(wire[e][x]), s)'
             <=> Carries(wire'[e][x], Len(wire'[e][x]), s)
      BY DEF Carries
    <2>4. CASE ~(x = n /\ e = d)
      <3>1. wire'[e][x] = wire[e][x]
        BY <1>7, <2>1, <2>4
      <3>2. e \in Serves(x) /\ Stays(x, Peer(e, x))
        BY <1>1, <1>16, <2>1, <2>4 DEF Stays
      <3>3. e \notin Shut(x)
        <4>1. Peer(e, x) \in Nodes
          BY <2>1, EndsFacts
        <4>2. link'[Peer(e, x)][e] # "closed"
          BY <2>1 DEF Shut
        <4>3. link[Peer(e, x)][e] # "closed"
          BY <1>l, <2>1, <4>1, <4>2
        <4> QED
          BY <4>3 DEF Shut
      <3>4. Carries(wire[e][x], Len(wire[e][x]), s) \/ Has(Peer(e, x), x, s)
        BY <3>2, <3>3 DEF Rest, Complete
      <3> QED
        BY <2>2, <2>3, <3>1, <3>4
    <2>5. CASE x = n /\ e = d
      <3>a. fs = all
        BY <1>pk, <2>1, <2>5
      <3> DEFINE w == wire[d][n]
      <3>1. wire'[e][x] = w \o fs
        BY <1>2, <1>7, <2>5
      <3>2. w \in Seq(Frames)
        <4>1. wire \in [Dials -> [Nodes -> Seq(Frames)]]
          BY WireType
        <4> QED
          BY <1>2, <4>1
      <3> HIDE DEF w
      <3>3. s \in 1 .. k
        <4>1. cursor[n] <= k /\ Len(pending[n]) \in Nat /\ cursor[n] \in Nat
          BY <1>2, <1>k DEF Rest, Pended, TypeOK
        <4>2. s \in 1 .. cursor[n] - Len(pending[n])
          BY <2>5 DEF Published
        <4> QED
          BY <1>3, <4>1, <4>2
      <3>4. Carries(fs, k + 1, s)
        <4>1. s + 1 \in 1 .. k + 1
          BY <1>3, <3>3
        <4> QED
          BY <1>4, <3>3, <3>a, <4>1 DEF Carries
      <3>5. Len(w) \in Nat /\ Len(w \o fs) = Len(w) + Len(fs)
        <4>1. Len(w) \in Nat
          BY <3>2, LenProperties
        <4>2. Len(w \o fs) = Len(w) + Len(fs)
          BY <3>2, ConcatProperties
        <4> QED
          BY <4>1, <4>2
      <3>6. Len(w) \in 0 .. Len(w) /\ k + 1 \in 0 .. Len(fs) /\ Len(fs) = k + 1
        BY <1>3, <3>5, <3>a
      <3>7. Carries(w \o fs, Len(w) + (k + 1), s)
        BY <3>2, <3>4, <3>6, CarriesMore
      <3> QED
        BY <2>3, <3>1, <3>5, <3>6, <3>7
    <2> QED
      BY <2>4, <2>5
  <1>18. PrefixHeard' /\ OneApplying' /\ NewestKept'
    BY <1>1, HeardKept DEF Rest
  <1> QED
    BY <1>9, <1>10, <1>17, <1>18 DEF Rest

\* An end that is shut loses what was on its way to it; the peer finds it shut.
LEMMA CloseKeeps ==
  ASSUME TypeOK, Rest, NEW d \in Dials, NEW n \in Ends(d), Close(n, d)
  PROVE  Rest'
  <1> DEFINE p == Peer(d, n)
  <1>1. UNCHANGED <<conns, known, cursor, pending, heard, applying, journal>>
    BY DEF Close, shardVars, appVars, pumpVars
  <1>2. n \in Nodes /\ p \in Nodes /\ p \in Ends(d) /\ Peer(d, p) = n /\ Ends(d) = {n, p}
    BY EndsFacts
  <1>p. p = Peer(d, n)
    OBVIOUS
  <1> HIDE DEF p
  <1>3. \A e \in Dials, x \in Nodes :
           wire'[e][x] = IF e = d /\ x = p THEN << >> ELSE wire[e][x]
    <2>1. wire' = [wire EXCEPT ![d][p] = << >>]
      BY <1>p DEF Close
    <2>2. wire \in [Dials -> [Nodes -> Seq(Frames)]]
      BY WireType
    <2> QED
      BY <1>2, <2>1, <2>2
  <1>4. /\ switched \subseteq switched'
        /\ \A x \in Nodes, e \in Dials :
              link'[x][e] = IF x = n /\ e = d THEN "closed" ELSE link[x][e]
        /\ \A x \in Nodes : \A e \in Serves(x)' :
              x \in Ends(e) => e \in Serves(x) \/ ~Stays(x, Peer(e, x))'
    <2>1. Turn(n, {d}, "closed") /\ {d} \in SUBSET Dials /\ "closed" \in {"dying", "closed"}
      BY DEF Close
    <2>2. /\ switched \subseteq switched'
          /\ \A x \in Nodes, e \in Dials :
                link'[x][e] = IF x = n /\ e \in {d} THEN "closed" ELSE link[x][e]
          /\ \A x \in Nodes : \A e \in Serves(x)' :
                x \in Ends(e) => e \in Serves(x) \/ ~Stays(x, Peer(e, x))'
      BY <1>1, <1>2, <2>1, TurnFacts
    <2> QED
      BY <2>2
  <1>s. \A x, y : Stays(x, y)' => Stays(x, y)
    BY <1>4 DEF Stays
  <1>5. \A o, x, s : Has(o, x, s)' <=> Has(o, x, s)
    BY <1>1 DEF Has, Seen
  <1>6. Len(<< >>) = 0 /\ \A i : i \notin 1 .. 0
    OBVIOUS
  <1>7. OwnFrames'
    <2> SUFFICES ASSUME NEW e \in Dials, NEW x \in Nodes, NEW i \in 1 .. Len(wire'[e][x]),
                        wire'[e][x][i] \in Mutations
                 PROVE  wire'[e][x][i].origin = x
      BY DEF OwnFrames
    <2>1. wire'[e][x] = wire[e][x]
      BY <1>3, <1>6
    <2> QED
      BY <2>1 DEF Rest, OwnFrames
  <1>8. Ordered'
    <2> SUFFICES ASSUME NEW e \in Dials, NEW x \in Ends(e), NEW i \in 1 .. Len(wire'[e][x]),
                        wire'[e][x][i] \in Mutations, Stays(x, Peer(e, x))',
                        NEW s \in 1 .. wire'[e][x][i].seq - 1
                 PROVE  (Carries(wire[e][x], i - 1, s) \/ Has(Peer(e, x), x, s))'
      BY DEF Ordered
    <2>1. x \in Nodes
      BY EndsFacts
    <2>2. wire'[e][x] = wire[e][x]
      BY <1>3, <1>6, <2>1
    <2>3. Stays(x, Peer(e, x))
      BY <1>s
    <2>4. Carries(wire[e][x], i - 1, s) \/ Has(Peer(e, x), x, s)
      BY <2>2, <2>3 DEF Rest, Ordered
    <2>5. Carries(wire[e][x], i - 1, s)' <=> Carries(wire'[e][x], i - 1, s)
      BY DEF Carries
    <2> QED
      BY <1>5, <2>2, <2>4, <2>5
  <1>9. Complete'
    <2> SUFFICES ASSUME NEW x \in Nodes, NEW e \in (Serves(x) \ Shut(x))',
                        x \in Ends(e), Stays(x, Peer(e, x))', NEW s \in 1 .. Published(x)'
                 PROVE  (Carries(wire[e][x], Len(wire[e][x]), s) \/ Has(Peer(e, x), x, s))'
      BY DEF Complete
    <2>1. e \in Dials /\ e \in Serves(x)' /\ e \notin Shut(x)'
      BY DEF Serves, Claimed, Live
    <2>2. link'[Peer(e, x)][e] # "closed"
      BY <2>1 DEF Shut
    <2>3. Peer(e, x) \in Nodes
      BY <2>1, EndsFacts
    <2>4. ~(Peer(e, x) = n /\ e = d) /\ e \notin Shut(x)
      <3>1. ~(Peer(e, x) = n /\ e = d)
        BY <1>4, <2>1, <2>2, <2>3
      <3>2. link[Peer(e, x)][e] # "closed"
        BY <1>4, <2>1, <2>2, <2>3, <3>1
      <3> QED
        BY <3>1, <3>2 DEF Shut
    <2>5. wire'[e][x] = wire[e][x]
      BY <1>2, <1>3, <2>1, <2>4
    <2>6. e \in Serves(x) /\ Stays(x, Peer(e, x)) /\ s \in 1 .. Published(x)
      <3>1. Published(x)' = Published(x)
        BY <1>1 DEF Published
      <3> QED
        BY <1>4, <1>s, <2>1, <3>1
    <2>7. Carries(wire[e][x], Len(wire[e][x]), s) \/ Has(Peer(e, x), x, s)
      BY <2>4, <2>6 DEF Rest, Complete
    <2>8. Carries(wire[e][x], Len(wire[e][x]), s)'
             <=> Carries(wire'[e][x], Len(wire'[e][x]), s)
      BY DEF Carries
    <2> QED
      BY <1>5, <2>5, <2>7, <2>8
  <1>10. Pended'
    <2>1. \A x \in Nodes : Len(journal'[x]) \in Nat /\ Len(journal[x]) <= Len(journal'[x])
      BY <1>1 DEF TypeOK
    <2> QED
      BY <1>1, <2>1, PendedKept DEF Rest, pumpVars
  <1>11. PrefixHeard' /\ OneApplying' /\ NewestKept'
    BY <1>1, <1>4, HeardKept DEF Rest
  <1> QED
    BY <1>7, <1>8, <1>9, <1>10, <1>11 DEF Rest

\* Every step of a reader: what it has read it has heard, or it was a HELLO.
LEMMA ReaderKeeps ==
  ASSUME TypeOK, Rest, NEW d \in Dials, NEW n \in Ends(d), Readable(n, d), Read(n, d),
         UNCHANGED <<conns, cursor, pending, journal>>,
         \A x \in Nodes : heard[x] \subseteq heard'[x] /\ known[x] \subseteq known'[x],
         Frame(n, d) \in Mutations =>
            \E h \in heard'[n] : h.origin = Peer(d, n) /\ h.seq = Frame(n, d).seq
  PROVE  OwnFrames' /\ Ordered' /\ Complete' /\ Pended'
  <1>1. /\ OwnFrames' /\ Ordered'
        /\ \A e \in Dials : \A x \in Ends(e) :
              \/ x = Peer(d, n) /\ e = d /\ link'[n][d] = "closed"
              \/ \A s : Reaches(e, x, s) => Reaches(e, x, s)'
    BY ReadKeeps DEF Rest
  <1>2. /\ \A x \in Nodes, e \in Dials :
              link'[x][e] = IF x = n /\ e = d /\ link[n][d] = "dying" THEN "closed" ELSE link[x][e]
        /\ n \in Nodes /\ Peer(d, Peer(d, n)) = n
    BY ReadType, EndsFacts
  <1>l. \A x \in Nodes : Live(x)' = Live(x)
    BY <1>2 DEF Live
  <1>s. \A x, y : Stays(x, y)' <=> Stays(x, y)
    BY DEF Read, Stays
  <1>3. Pended' /\ \A x \in Nodes : Published(x)' = Published(x)
    <2>1. \A x \in Nodes : Len(journal'[x]) \in Nat /\ Len(journal[x]) <= Len(journal'[x])
      BY DEF TypeOK
    <2> QED
      BY <2>1, PendedKept DEF Rest, pumpVars
  <1>4. Complete'
    <2> SUFFICES ASSUME NEW x \in Nodes, NEW e \in (Serves(x) \ Shut(x))',
                        x \in Ends(e), Stays(x, Peer(e, x))', NEW s \in 1 .. Published(x)'
                 PROVE  (Carries(wire[e][x], Len(wire[e][x]), s) \/ Has(Peer(e, x), x, s))'
      BY DEF Complete
    <2>0. e \in Serves(x)' /\ e \notin Shut(x)' /\ e \in Dials
      BY DEF Serves, Claimed, Live
    <2>1. e \in Serves(x) /\ s \in 1 .. Published(x) /\ Stays(x, Peer(e, x))
      <3>1. Serves(x)' \subseteq Serves(x)
        BY <1>l, ServesShrinks
      <3> QED
        BY <1>3, <1>s, <2>0, <3>1
    <2>2. link'[Peer(e, x)][e] # "closed" /\ Peer(e, x) \in Nodes
      BY <2>0, EndsFacts DEF Shut
    <2>3. e \notin Shut(x)
      <3>1. link[Peer(e, x)][e] # "closed"
        BY <1>2, <2>0, <2>2
      <3> QED
        BY <3>1 DEF Shut
    <2>5. Reaches(e, x, s)
      BY <2>1, <2>3 DEF Rest, Complete, Reaches
    <2>4. Reaches(e, x, s)'
      <3>1. ~(x = Peer(d, n) /\ e = d /\ link'[n][d] = "closed")
        BY <1>2, <2>2
      <3> QED
        BY <1>1, <2>0, <2>5, <3>1
    <2> QED
      BY <2>4 DEF Reaches
  <1> QED
    BY <1>1, <1>3, <1>4

\* The first frame of a wire is the other's, and what comes before it is heard.
LEMMA FrameOrigin ==
  ASSUME TypeOK, OwnFrames, Ordered, NEW d \in Dials, NEW n \in Ends(d), Readable(n, d),
         Frame(n, d) \in Mutations
  PROVE  /\ Frame(n, d).origin = Peer(d, n)
         /\ Stays(Peer(d, n), n) => \A s \in 1 .. Frame(n, d).seq - 1 : Has(n, Peer(d, n), s)
  <1> DEFINE p == Peer(d, n)
             q == wire[d][p]
  <1>1. p \in Nodes /\ p \in Ends(d) /\ Peer(d, p) = n
    BY EndsFacts
  <1>2. wire \in [Dials -> [Nodes -> Seq(Frames)]]
    BY WireType
  <1>3. q # << >>
    <2>1. wire[d][Peer(d, n)] # << >>
      BY DEF Readable
    <2> QED
      BY <2>1
  <1>4. Frame(n, d) = Head(q)
    BY DEF Frame
  <1>p. p = Peer(d, n) /\ q = wire[d][p]
    OBVIOUS
  <1> HIDE DEF p, q
  <1>5. q \in Seq(Frames)
    BY <1>1, <1>2, <1>p
  <1>6. Len(q) \in Nat \ {0}
    BY <1>3, <1>5, EmptySeq
  <1>7. Head(q) = q[1] /\ 1 \in 1 .. Len(q)
    BY <1>3, <1>5, <1>6
  <1>8. q[1] \in Mutations
    BY <1>4, <1>7
  <1>9. q[1].origin = p
    BY <1>1, <1>7, <1>8, <1>p DEF OwnFrames
  <1>10. Stays(p, n) => \A s \in 1 .. q[1].seq - 1 : Has(n, p, s)
    <2> SUFFICES ASSUME Stays(p, n), NEW s \in 1 .. q[1].seq - 1 PROVE Has(n, p, s)
      OBVIOUS
    <2>1. Carries(q, 1 - 1, s) \/ Has(n, p, s)
      BY <1>1, <1>7, <1>8, <1>p DEF Ordered
    <2>2. ~Carries(q, 1 - 1, s)
      BY DEF Carries
    <2> QED
      BY <2>1, <2>2
  <1> QED
    BY <1>4, <1>7, <1>9, <1>10, <1>p

LEMMA IngestKeeps ==
  ASSUME TypeOK, Rest, NEW d \in Dials, NEW n \in Ends(d),
         ReadHello(n, d) \/ IngestDuplicate(n, d) \/ Ingest(n, d)
  PROVE  Rest'
  <1>1. n \in Nodes /\ Peer(d, n) \in Nodes /\ Peer(d, n) \in Ends(d) /\ Peer(d, Peer(d, n)) = n
    BY EndsFacts
  <1>2. Readable(n, d) /\ Read(n, d) /\ UNCHANGED <<conns, cursor, pending, journal>>
    BY DEF ReadHello, IngestDuplicate, Ingest, appVars, pumpVars, Read
  <1>s. switched' = switched
    BY <1>2 DEF Read
  <1>3. CASE ReadHello(n, d)
    <2>1. UNCHANGED <<heard, applying>>
      BY <1>3 DEF ReadHello, shardVars
    <2>2. \A x \in Nodes : heard[x] \subseteq heard'[x] /\ known[x] \subseteq known'[x]
      BY <1>3, <2>1 DEF ReadHello, TypeOK
    <2>3. Frame(n, d) \notin Mutations
      BY <1>3, HelloApart DEF ReadHello
    <2>4. OwnFrames' /\ Ordered' /\ Complete' /\ Pended'
      BY <1>2, <2>2, <2>3, ReaderKeeps
    <2>5. PrefixHeard' /\ OneApplying' /\ NewestKept'
      BY <1>s, <2>1, HeardKept DEF Rest
    <2> QED
      BY <2>4, <2>5 DEF Rest
  <1>4. CASE IngestDuplicate(n, d)
    <2>1. UNCHANGED <<heard, applying, known>>
      BY <1>4 DEF IngestDuplicate, shardVars
    <2>2. \A x \in Nodes : heard[x] \subseteq heard'[x] /\ known[x] \subseteq known'[x]
      BY <2>1
    <2>3. Frame(n, d) \in Mutations =>
             \E h \in heard'[n] : h.origin = Peer(d, n) /\ h.seq = Frame(n, d).seq
      <3> SUFFICES ASSUME Frame(n, d) \in Mutations
                   PROVE  \E h \in heard'[n] : h.origin = Peer(d, n) /\ h.seq = Frame(n, d).seq
        OBVIOUS
      <3>1. \E h \in heard[n] : h.origin = Frame(n, d).origin /\ h.seq = Frame(n, d).seq
        BY <1>4 DEF IngestDuplicate, Seen
      <3>2. Frame(n, d).origin = Peer(d, n)
        BY <1>1, <1>2, FrameOrigin DEF Rest
      <3> QED
        BY <2>1, <3>1, <3>2
    <2>4. OwnFrames' /\ Ordered' /\ Complete' /\ Pended'
      BY <1>2, <2>2, <2>3, ReaderKeeps
    <2>5. PrefixHeard' /\ OneApplying' /\ NewestKept'
      BY <1>s, <2>1, HeardKept DEF Rest
    <2> QED
      BY <2>4, <2>5 DEF Rest
  <1>5. CASE Ingest(n, d)
    <2> DEFINE m == Frame(n, d)
               p == Peer(d, n)
    <2>1. m \in Mutations /\ ~Seen(n, m) /\ applying[n] = {} /\ known' = known
      <3>1. m \in Mutations \cup {Hello} /\ m # Hello
        BY <1>2, <1>5, ReadType DEF Ingest
      <3>2. ~Seen(n, m) /\ applying[n] = {} /\ known' = known
        BY <1>5 DEF Ingest, IngestFree
      <3> QED
        BY <3>1, <3>2
    <2>2. \A x \in Nodes : heard'[x] = IF x = n THEN heard[x] \cup {m} ELSE heard[x]
      BY <1>5 DEF Ingest, TypeOK
    <2>3. /\ \A x \in Nodes : x # n => applying'[x] = applying[x]
          /\ applying'[n] \subseteq {m}
      <3>1. applying' = [applying EXCEPT ![n] = IF ConflictLost(n, m) THEN @ ELSE @ \cup {m}]
        BY <1>5 DEF Ingest
      <3> HIDE DEF m
      <3> QED
        BY <1>1, <2>1, <3>1 DEF TypeOK
    <2>4. m.origin = p
      BY <1>1, <1>2, <2>1, FrameOrigin DEF Rest
    <2>5. Stays(p, n) => \A s \in 1 .. m.seq - 1 : Has(n, p, s)
      BY <1>1, <1>2, <2>1, FrameOrigin DEF Rest
    <2>6. m.seq \in Nat \ {0} /\ \A h \in heard[n] : h.seq \in Nat \ {0} /\ h \in Mutations
      BY <1>1, <2>1 DEF TypeOK, Mutations
    <2>7. \A x \in Nodes : heard[x] \subseteq heard'[x] /\ known[x] \subseteq known'[x]
      BY <2>1, <2>2
    <2>8. OwnFrames' /\ Ordered' /\ Complete' /\ Pended'
      <3>1. \E h \in heard'[n] : h.origin = Peer(d, n) /\ h.seq = Frame(n, d).seq
        BY <1>1, <2>2, <2>4
      <3> QED
        BY <1>2, <2>7, <3>1, ReaderKeeps
    <2> HIDE DEF m, p
    <2>9. \A x \in Nodes : \A o, s : Has(x, o, s) => Has(x, o, s)'
      BY <2>7 DEF Has, Seen
    <2>10. PrefixHeard'
      <3> SUFFICES ASSUME NEW x \in Nodes, NEW h \in heard'[x], Stays(h.origin, x),
                          NEW s \in 1 .. h.seq - 1
                   PROVE  Has(x, h.origin, s)'
        BY <1>s DEF PrefixHeard, Stays
      <3>1. Has(x, h.origin, s)
        <4>1. CASE h \in heard[x]
          BY <4>1 DEF Rest, PrefixHeard
        <4>2. CASE x = n /\ h = m
          BY <2>4, <2>5, <4>2
        <4> QED
          BY <2>2, <4>1, <4>2
      <3> QED
        BY <2>9, <3>1
    <2>11. OneApplying'
      <3> SUFFICES ASSUME NEW x \in Nodes
                   PROVE  applying'[x] \subseteq heard'[x] /\ \A a, b \in applying'[x] : a = b
        BY DEF OneApplying
      <3>1. CASE x = n
        BY <2>2, <2>3, <3>1
      <3>2. CASE x # n
        BY <2>2, <2>3, <3>2 DEF Rest, OneApplying
      <3> QED
        BY <3>1, <3>2
    <2>12. NewestKept'
      <3> SUFFICES ASSUME NEW x \in Nodes, NEW a \in applying'[x], NEW h \in heard'[x],
                          h.origin = a.origin, Stays(a.origin, x)
                   PROVE  h.seq <= a.seq
        BY <1>s DEF NewestKept, Stays
      <3>1. CASE x = n
        <4>a. a \in applying'[n]
          BY <3>1
        <4>b. h \in heard[n] \cup {m}
          BY <2>2, <3>1
        <4>1. a = m /\ (h = m \/ h \in heard[n])
          BY <2>3, <4>a, <4>b
        <4>2. CASE h = m
          BY <2>6, <4>1, <4>2
        <4>3. CASE h \in heard[n]
          <5> SUFFICES ASSUME m.seq < h.seq PROVE FALSE
            BY <2>6, <4>1, <4>3
          <5>1. m.seq \in 1 .. h.seq - 1
            BY <2>6, <4>3
          <5>2. Has(n, h.origin, m.seq)
            BY <1>1, <3>1, <4>3, <5>1 DEF Rest, PrefixHeard
          <5>3. Seen(n, m)
            BY <4>1, <5>2 DEF Has, Seen
          <5> QED
            BY <2>1, <5>3
        <4> QED
          BY <4>1, <4>2, <4>3
      <3>2. CASE x # n
        <4>1. a \in applying[x] /\ h \in heard[x]
          BY <2>2, <2>3, <3>2
        <4> QED
          BY <4>1 DEF Rest, NewestKept, Stays
      <3> QED
        BY <3>1, <3>2
    <2> QED
      BY <2>8, <2>10, <2>11, <2>12 DEF Rest
  <1> QED
    BY <1>3, <1>4, <1>5

LEMMA RestStep == TypeOK /\ Rest /\ [Next]_vars => Rest'
  <1> SUFFICES ASSUME TypeOK, Rest, [Next]_vars PROVE Rest'
    OBVIOUS
  <1>2. CASE SystemStep
    <2>1. ASSUME NEW n \in Nodes, Journal(n) \/ Apply(n) PROVE Rest'
      BY <2>1, WriteKeeps
    <2>2. ASSUME NEW n \in Nodes, DrainLocal(n) PROVE Rest'
      BY <2>2, DrainKeeps
    <2>3. ASSUME NEW n \in Nodes, Publish(n) PROVE Rest'
      BY <2>3, PublishKeeps
    <2>4. ASSUME NEW d \in Dials, Accept(d) PROVE Rest'
      BY <2>4, AdmitKeeps DEF Accept, Ends
    <2>5. ASSUME NEW d \in Dials, NEW n \in Ends(d),
                 ReadHello(n, d) \/ IngestDuplicate(n, d) \/ Ingest(n, d)
          PROVE  Rest'
      BY <2>5, IngestKeeps
    <2>6. ASSUME NEW d \in Dials, NEW n \in Ends(d), End(n, d) PROVE Rest'
      BY <2>6, CloseKeeps DEF End
    <2> QED
      BY <1>2, <2>1, <2>2, <2>3, <2>4, <2>5, <2>6 DEF SystemStep
  <1>3. ASSUME NEW n \in Nodes, Write(n) PROVE Rest'
    BY <1>3, WriteKeeps
  <1>4. ASSUME NEW d \in Dials, Dial(d) PROVE Rest'
    BY <1>4, AdmitKeeps DEF Dial, Ends
  <1>5. ASSUME NEW d \in Dials, NEW n \in Ends(d), Fail(n, d) PROVE Rest'
    BY <1>5, CloseKeeps DEF Fail
  <1>6. CASE UNCHANGED vars
    <2>1. UNCHANGED <<linkState, heard, applying, pumpVars, journal>>
      BY <1>6 DEF vars, linkState, pumpVars
    <2>4. switched \subseteq switched'
      BY <2>1 DEF linkState
    <2>2. \A x \in Nodes : Len(journal'[x]) \in Nat /\ Len(journal[x]) <= Len(journal'[x])
      BY <2>1 DEF TypeOK
    <2>3. Pended' /\ \A x \in Nodes : Published(x)' = Published(x)
      BY <2>1, <2>2, PendedKept DEF Rest
    <2> QED
      BY <2>1, <2>3, <2>4, WireKept, CompleteKept, HeardKept DEF Rest
  <1> QED
    BY <1>2, <1>3, <1>4, <1>5, <1>6 DEF Next

LEMMA InvStep == IInv /\ [Next]_vars => IInv'
  BY TypeStep, RestStep DEF IInv, Rest

-----------------------------------------------------------------------------

LEMMA Inductive == Spec => []IInv
  BY Initially, InvStep, PTL DEF Spec

\* Every variable stays in its type: sequence numbers, cursors and times among
\* them, and what is on a wire is a HELLO or a mutation.
THEOREM Typed == Spec => []TypeOK
  <1>1. IInv => TypeOK
    BY DEF IInv
  <1> QED
    BY <1>1, Inductive, PTL

\* For any number of nodes, connections, failures and writes, no reader applies an
\* older write of a node over a newer one, although two connections and their
\* backfills race the pump: as long as the writer has not gone over to a connection
\* with the reader that it had left out.
THEOREM NewestKeptHolds == Spec => []NewestKept
  <1>1. IInv => NewestKept
    BY DEF IInv
  <1> QED
    BY <1>1, Inductive, PTL

\* What a node has heard of another has no gap: a mutation is heard only after
\* all that the writer made before it, through failures of reads and writes at
\* either end and the backfills of new connections, as long as the writer has not
\* gone over to a connection with the node that it had left out.
THEOREM PrefixHeardHolds == Spec => []PrefixHeard
  <1>1. IInv => PrefixHeard
    BY DEF IInv
  <1> QED
    BY <1>1, Inductive, PTL

-----------------------------------------------------------------------------
(* The winner of what has been heard. *)

Wins(m, ms) == m \in ms /\ \A h \in ms \ {m} : Beats(m, h)

Winning ==
    \A n \in Nodes \ Writers :
        /\ lastMutation[n] # None =>
              lastMutation[n] \in heard[n] /\ value[n] = lastMutation[n].value
        /\ InOrder(heard[n]) /\ (\A o \in Nodes : Stays(o, n)) =>
              /\ applying[n] = {} /\ heard[n] # {} => Wins(lastMutation[n], heard[n])
              /\ \A m \in applying[n] : Wins(m, heard[n])

\* The order of the winners is a strict one.
LEMMA BeatsOrder ==
  ASSUME NEW a \in Mutations, NEW b \in Mutations, NEW c \in Mutations
  PROVE  /\ ~(Beats(a, b) /\ Beats(b, a))
         /\ Beats(a, b) /\ Beats(b, c) => Beats(a, c)
  <1>1. /\ a.time \in Nat /\ b.time \in Nat /\ c.time \in Nat
        /\ a.origin \in Nat /\ b.origin \in Nat /\ c.origin \in Nat
    BY NodesAssumption DEF Mutations, NodesAssumption
  <1> QED
    BY <1>1 DEF Beats

KeepsShard == UNCHANGED <<value, shardVars>> /\ switched \subseteq switched'

LEMMA WinningKept ==
  ASSUME Winning, UNCHANGED <<shardVars>>, switched \subseteq switched',
         \A n \in Nodes \ Writers : value'[n] = value[n]
  PROVE  Winning'
  <1>1. UNCHANGED <<heard, lastMutation, applying>>
    BY DEF shardVars
  <1> SUFFICES ASSUME NEW n \in Nodes \ Writers
               PROVE  /\ lastMutation[n] # None =>
                            lastMutation[n] \in heard[n] /\ value'[n] = lastMutation[n].value
                      /\ InOrder(heard[n]) /\ (\A o \in Nodes : Stays(o, n)') =>
                            /\ applying[n] = {} /\ heard[n] # {} =>
                                  Wins(lastMutation[n], heard[n])
                            /\ \A m \in applying[n] : Wins(m, heard[n])
    BY <1>1 DEF Winning, InOrder, Wins
  <1>2. \A o : Stays(o, n)' => Stays(o, n)
    BY DEF Stays
  <1> QED
    BY <1>2 DEF Winning

\* What is ingested either loses to the last one, or beats it and all the others.
LEMMA WinningIngest ==
  ASSUME IInv, IInv', Winning, NEW d \in Dials, NEW n \in Ends(d), Ingest(n, d)
  PROVE  Winning'
  <1> DEFINE m == Frame(n, d)
             last == lastMutation[n]
  <1>1. n \in Nodes
    BY EndsFacts
  <1>2. m \in Mutations
    <2>1. m \in Mutations \cup {Hello}
      BY ReadType DEF Ingest, IInv
    <2> QED
      BY <2>1 DEF Ingest
  <1>3. /\ ~Seen(n, m) /\ applying[n] = {} /\ UNCHANGED <<lastMutation, value, switched>>
        /\ heard' = [heard EXCEPT ![n] = @ \cup {m}]
        /\ applying' = [applying EXCEPT ![n] = IF ConflictLost(n, m) THEN @ ELSE @ \cup {m}]
    BY DEF Ingest, IngestFree, appVars, Read
  <1> HIDE DEF m
  <1>4. heard \in [Nodes -> SUBSET Mutations] /\ applying \in [Nodes -> SUBSET Mutations]
    BY DEF IInv, TypeOK
  <1>5. /\ \A x \in Nodes : heard'[x] = IF x = n THEN heard[x] \cup {m} ELSE heard[x]
        /\ \A x \in Nodes : applying'[x] =
              IF x = n THEN (IF ConflictLost(n, m) THEN {} ELSE {m}) ELSE applying[x]
    <2>1. \A x \in Nodes : heard'[x] = IF x = n THEN heard[x] \cup {m} ELSE heard[x]
      BY <1>3, <1>4
    <2>2. \A x \in Nodes : x # n => applying'[x] = applying[x]
      BY <1>3, <1>4
    <2>3. applying'[n] = IF ConflictLost(n, m) THEN {} ELSE {m}
      BY <1>1, <1>3, <1>4
    <2> QED
      BY <2>1, <2>2, <2>3
  <1> SUFFICES ASSUME NEW x \in Nodes \ Writers
               PROVE  /\ lastMutation[x] # None =>
                            lastMutation[x] \in heard'[x] /\ value[x] = lastMutation[x].value
                      /\ InOrder(heard'[x]) /\ (\A o \in Nodes : Stays(o, x)) =>
                            /\ applying'[x] = {} /\ heard'[x] # {} =>
                                  Wins(lastMutation[x], heard'[x])
                            /\ \A a \in applying'[x] : Wins(a, heard'[x])
    BY <1>3 DEF Winning, InOrder, Wins, Stays
  <1>6. CASE x # n
    BY <1>5, <1>6 DEF Winning
  <1>7. CASE x = n
    <2>1. last # None => last \in heard[n] /\ value[n] = last.value
      BY <1>7 DEF Winning
    <2>2. ASSUME InOrder(heard[n] \cup {m}), \A o \in Nodes : Stays(o, n)
          PROVE  IF ConflictLost(n, m) THEN Wins(last, heard[n] \cup {m})
                                       ELSE Wins(m, heard[n] \cup {m})
      <3>1. InOrder(heard[n])
        BY <2>2 DEF InOrder
      <3>2. heard[n] # {} => Wins(last, heard[n])
        BY <1>3, <1>7, <2>2, <3>1 DEF Winning
      <3>3. CASE heard[n] = {}
        <4>1. ~ConflictLost(n, m)
          BY <2>1, <3>3 DEF ConflictLost
        <4> QED
          BY <3>3, <4>1 DEF Wins
      <3>4. CASE heard[n] # {}
        <4>1. last \in heard[n] /\ last \in Mutations /\ \A h \in heard[n] \ {last} : Beats(last, h)
          BY <1>1, <1>4, <3>2, <3>4 DEF Wins
        <4>2. /\ last.time \in Nat /\ m.time \in Nat /\ last.origin \in Nat /\ m.origin \in Nat
              /\ last.seq \in Nat /\ m.seq \in Nat
          BY <1>2, <4>1, NodesAssumption DEF Mutations, NodesAssumption
        <4>3. last # None
          BY <4>1, HelloApart
        <4>4. CASE ConflictLost(n, m)
          <5>1. last.origin # m.origin /\ ~ShouldReplace(last, m)
            BY <4>4 DEF ConflictLost
          <5>2. Beats(last, m)
            BY <4>2, <5>1 DEF ShouldReplace, Beats
          <5> QED
            BY <4>1, <4>4, <5>2 DEF Wins
        <4>5. CASE ~ConflictLost(n, m)
          <5>1. ASSUME last.origin = m.origin PROVE Beats(m, last)
            <6>1. m \in applying'[n] /\ last \in heard'[n]
              BY <1>1, <1>5, <4>1, <4>5
            <6>5. m.origin \in Nodes /\ <<m.origin, n>> \notin switched'
              BY <1>2, <1>3, <2>2 DEF Mutations, Stays
            <6>2. last.seq <= m.seq
              BY <1>1, <5>1, <6>1, <6>5 DEF IInv, NewestKept
            <6>3. last.seq # m.seq
              BY <1>3, <4>1, <5>1 DEF Seen
            <6>4. last.time < m.time
              BY <2>2, <4>1, <4>2, <5>1, <6>2, <6>3 DEF InOrder
            <6> QED
              BY <4>2, <6>4 DEF Beats
          <5>2. ASSUME last.origin # m.origin PROVE Beats(m, last)
            <6>1. ShouldReplace(last, m)
              BY <4>3, <4>5, <5>2 DEF ConflictLost
            <6>2. Beats(m, last)
              BY <4>2, <6>1 DEF ShouldReplace, Beats
            <6> QED
              BY <6>2
          <5>3. ASSUME NEW h \in heard[n] PROVE Beats(m, h)
            <6>1. h \in Mutations /\ Beats(m, last)
              BY <1>1, <1>4, <5>1, <5>2
            <6>2. h # last => Beats(last, h)
              BY <4>1
            <6> QED
              BY <1>2, <4>1, <6>1, <6>2, BeatsOrder
          <5> QED
            BY <4>5, <5>3 DEF Wins
        <4> QED
          BY <4>4, <4>5
      <3> QED
        BY <3>3, <3>4
    <2>3. CASE ConflictLost(n, m)
      BY <1>1, <1>5, <1>7, <2>1, <2>2, <2>3
    <2>4. CASE ~ConflictLost(n, m)
      BY <1>1, <1>5, <1>7, <2>1, <2>2, <2>4
    <2> QED
      BY <2>3, <2>4
  <1> QED
    BY <1>6, <1>7

LEMMA WinningApply ==
  ASSUME IInv, Winning, NEW n \in Nodes, Apply(n)
  PROVE  Winning'
  <1> PICK m \in applying[n] :
          /\ value' = [value EXCEPT ![n] = m.value]
          /\ lastMutation' = [lastMutation EXCEPT ![n] = m]
          /\ applying' = [applying EXCEPT ![n] = @ \ {m}]
          /\ heard' = heard /\ switched' = switched
    BY DEF Apply, linkVars, endVars
  <1>1. m \in heard[n]
    BY DEF IInv, OneApplying
  <1>2. \A x \in Nodes : /\ value'[x] = IF x = n THEN m.value ELSE value[x]
                         /\ lastMutation'[x] = IF x = n THEN m ELSE lastMutation[x]
                         /\ applying'[x] = IF x = n THEN applying[x] \ {m} ELSE applying[x]
    BY DEF IInv, TypeOK
  <1> SUFFICES ASSUME NEW x \in Nodes \ Writers
               PROVE  /\ lastMutation'[x] # None =>
                            lastMutation'[x] \in heard[x] /\ value'[x] = lastMutation'[x].value
                      /\ InOrder(heard[x]) /\ (\A o \in Nodes : Stays(o, x)) =>
                            /\ applying'[x] = {} /\ heard[x] # {} =>
                                  Wins(lastMutation'[x], heard[x])
                            /\ \A a \in applying'[x] : Wins(a, heard[x])
    BY DEF Winning, InOrder, Wins, Stays
  <1>3. CASE x # n
    BY <1>2, <1>3 DEF Winning
  <1>4. CASE x = n
    <2>1. InOrder(heard[x]) /\ (\A o \in Nodes : Stays(o, x)) =>
             \A a \in applying[x] : Wins(a, heard[x])
      BY DEF Winning
    <2>2. /\ lastMutation'[x] = m /\ value'[x] = m.value
          /\ applying'[x] \subseteq applying[x] /\ m \in applying[x] /\ m \in heard[x]
      BY <1>1, <1>2, <1>4
    <2> QED
      BY <2>1, <2>2
  <1> QED
    BY <1>3, <1>4

LEMMA WinningStep == IInv /\ IInv' /\ Winning /\ [Next]_vars => Winning'
  <1> SUFFICES ASSUME IInv, IInv', Winning, [Next]_vars PROVE Winning'
    OBVIOUS
  <1>1. ASSUME NEW n \in Nodes, Apply(n) PROVE Winning'
    BY <1>1, WinningApply
  <1>2. ASSUME NEW d \in Dials, NEW n \in Ends(d), Ingest(n, d) PROVE Winning'
    BY <1>2, WinningIngest
  <1>3. ASSUME NEW n \in Nodes, Write(n) PROVE Winning'
    <2>1. UNCHANGED shardVars /\ n \in Writers /\ switched' = switched
      BY <1>3 DEF Write, linkVars, endVars
    <2>2. \A x \in Nodes \ Writers : value'[x] = value[x]
      BY <1>3, <2>1 DEF Write, IInv, TypeOK
    <2> QED
      BY <2>1, <2>2, WinningKept
  <1>4. CASE KeepsShard
    BY <1>4, WinningKept DEF KeepsShard
  <1>5. ASSUME NEW n \in Nodes, Journal(n) \/ DrainLocal(n) \/ Publish(n)
        PROVE  KeepsShard
    <2>1. CASE Journal(n) \/ DrainLocal(n)
      BY <2>1 DEF Journal, DrainLocal, appVars, linkVars, endVars, KeepsShard
    <2>2. CASE Publish(n)
      BY <2>2 DEF Publish, Turn, appVars, KeepsShard
    <2> QED
      BY <1>5, <2>1, <2>2
  <1>6. ASSUME NEW d \in Dials, NEW n \in Ends(d),
               ReadHello(n, d) \/ IngestDuplicate(n, d) \/ Admit(n, d)
        PROVE  KeepsShard
    BY <1>6 DEF ReadHello, IngestDuplicate, Admit, Read, appVars, KeepsShard
  <1>7. ASSUME NEW d \in Dials, NEW n \in Ends(d), End(n, d) \/ Fail(n, d)
        PROVE  KeepsShard
    BY <1>7 DEF End, Fail, Close, Turn, appVars, KeepsShard
  <1>8. CASE SystemStep
    <2>1. CASE \E n \in Nodes : Journal(n) \/ DrainLocal(n) \/ Publish(n) \/ Apply(n)
      BY <1>1, <1>4, <1>5, <2>1
    <2>2. CASE \E d \in Dials : Accept(d)
      BY <1>4, <1>6, <2>2 DEF Accept, Ends
    <2>3. CASE \E d \in Dials : \E n \in Ends(d) :
                  ReadHello(n, d) \/ IngestDuplicate(n, d) \/ Ingest(n, d) \/ End(n, d)
      BY <1>2, <1>4, <1>6, <1>7, <2>3
    <2> QED
      BY <1>8, <2>1, <2>2, <2>3 DEF SystemStep
  <1>9. CASE \E d \in Dials : Dial(d)
    BY <1>4, <1>6, <1>9 DEF Dial, Ends
  <1>10. CASE \E d \in Dials : \E n \in Ends(d) : Fail(n, d)
    BY <1>4, <1>7, <1>10
  <1>11. CASE UNCHANGED vars
    <2>1. KeepsShard
      BY <1>11 DEF vars, shardVars, KeepsShard
    <2> QED
      BY <1>4, <2>1
  <1> QED
    BY <1>3, <1>8, <1>9, <1>10, <1>11 DEF Next

\* What a node that does not write holds is decided by what it has heard alone, in
\* whatever order and over however many connections it came: once a reader is done,
\* the winner by time and then origin.  This holds of a node whose copies carry times
\* in the order of the writes, and to which no writer has gone over to a connection
\* that it had left out: a replayed write is stamped again, and its copy may carry a
\* later time than one of a newer write that came over another connection.
THEOREM WinnerHeldHolds == Spec => []WinnerHeld
  <1>1. Init => Winning
    <2>1. Init => \A n \in Nodes : heard[n] = {} /\ applying[n] = {} /\ lastMutation[n] = None
      BY DEF Init
    <2> QED
      BY <2>1 DEF Winning
  <1>2. IInv /\ Winning => WinnerHeld
    <2> SUFFICES ASSUME IInv, Winning, NEW n \in Nodes \ Writers, NEW m \in heard[n],
                        applying[n] = {}, InOrder(heard[n]), \A o \in Nodes : Stays(o, n),
                        \A h \in heard[n] \ {m} : Beats(m, h)
                 PROVE  value[n] = m.value
      BY DEF WinnerHeld, IngestFree, Stays
    <2> DEFINE last == lastMutation[n]
    <2>1. last \in heard[n] /\ \A h \in heard[n] \ {last} : Beats(last, h)
      BY DEF Winning, Wins
    <2>2. heard[n] \subseteq Mutations
      BY DEF IInv, TypeOK
    <2>3. last # None
      BY <2>1, <2>2, HelloApart
    <2>4. last = m
      <3> SUFFICES ASSUME last # m PROVE FALSE
        OBVIOUS
      <3>1. Beats(last, m) /\ Beats(m, last)
        BY <2>1
      <3> QED
        BY <2>1, <2>2, <3>1, BeatsOrder
    <2> QED
      BY <2>3, <2>4 DEF Winning
  <1> QED
    BY <1>1, <1>2, Inductive, WinningStep, PTL DEF Spec
=============================================================================
