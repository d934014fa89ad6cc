--------------------------- MODULE LockPromiseProofs ---------------------------
(***************************************************************************)
(* Proofs about LockHomes that rest on LockHomesProofs: the homes and the  *)
(* table together are what WithLock says with-lock is, and no call that a  *)
(* home makes meets a table that can't take it.                            *)
(***************************************************************************)
EXTENDS LockHomesProofs

-----------------------------------------------------------------------------
(* The homes keep what with-lock promises. *)

\* The sections whose bodies have begun, in frames s.
AllIn(s) == \A n \in 1 .. Len(s) : s[n].body
Begun(s) == [n \in 1 .. (IF AllIn(s) THEN Len(s) ELSE Len(s) - 1) |-> s[n].req]

\* Only the innermost section may be yet to begin.
Nested(s) == s \in Seq(OneFrame) /\ \A n \in 1 .. Len(s) : n < Len(s) => s[n].body

LEMMA SectionsAre == \A p \in Pids : Sections[p] = Begun(frames[p])
BY DEF Sections, Begun, InBody, AllIn

LEMMA BegunFacts ==
    ASSUME NEW s, Nested(s)
    PROVE  /\ Begun(s) \in Seq(Requests)
           /\ Len(Begun(s)) = (IF AllIn(s) THEN Len(s) ELSE Len(s) - 1)
           /\ Len(s) \in Nat /\ (s = << >> <=> Len(s) = 0)
           /\ \A n \in 1 .. Len(Begun(s)) :
                n \in 1 .. Len(s) /\ s[n].body /\ Begun(s)[n] = s[n].req
<1>1. s \in Seq(OneFrame) /\ Len(s) \in Nat /\ (s = << >> <=> Len(s) = 0)
  BY EmptySeq, LenProperties DEF Nested
<1>2. PICK m : m = Len(s)
  OBVIOUS
<1>3. ~AllIn(s) => m # 0
  BY <1>1, <1>2 DEF AllIn
<1>4. PICK k : k = IF AllIn(s) THEN m ELSE m - 1
  OBVIOUS
<1>5. k \in Nat /\ k <= m /\ (k = m => AllIn(s))
  BY <1>1, <1>2, <1>3, <1>4
<1>6. \A n \in 1 .. m : s[n] \in OneFrame
  BY <1>1, <1>2, ElementOfSeq
<1>7. \A n \in 1 .. k : n \in 1 .. m /\ s[n].body /\ s[n].req \in Requests
  <2>1. ASSUME NEW n \in 1 .. k
        PROVE  n \in 1 .. m /\ (n < m \/ k = m)
    BY <1>1, <1>2, <1>5, <2>1
  <2>. QED
    BY <1>2, <1>5, <1>6, <2>1 DEF Nested, AllIn, OneFrame
<1>8. Begun(s) = [n \in 1 .. k |-> s[n].req]
  BY <1>2, <1>4 DEF Begun
<1>9. Begun(s) \in Seq(Requests) /\ Len(Begun(s)) = k
  <2>1. [n \in 1 .. k |-> s[n].req] \in [1 .. k -> Requests]
    BY <1>7
  <2>. QED
    BY <1>5, <1>8, <2>1, SeqDef, LenProperties
<1>. QED
  BY <1>1, <1>2, <1>4, <1>7, <1>8, <1>9

\* Two sequences of sections are the same when they are section by section.
LEMMA SameSections ==
    ASSUME NEW s \in Seq(Requests), NEW t \in Seq(Requests), Len(s) = Len(t),
           \A n \in 1 .. Len(s) : s[n] = t[n]
    PROVE  s = t
BY SeqEqual

\* A section that begins at once, or a frame that waits.
LEMMA BegunPush ==
    ASSUME NEW s, Nested(s), AllIn(s), NEW f \in OneFrame
    PROVE  /\ Nested(Append(s, f))
           /\ Begun(Append(s, f)) = IF f.body THEN Append(Begun(s), f.req) ELSE Begun(s)
<1>1. PICK u, m : u = Append(s, f) /\ m = Len(s)
  OBVIOUS
<1>2. /\ s \in Seq(OneFrame) /\ m \in Nat /\ u \in Seq(OneFrame) /\ Len(u) = m + 1
      /\ \A n \in 1 .. m : u[n] = s[n]
      /\ u[m + 1] = f
  BY <1>1, LenProperties, AppendProperties DEF Nested
<1>3. \A n \in 1 .. m : u[n].body
  BY <1>1, <1>2 DEF AllIn
<1>4. Nested(u) /\ (AllIn(u) <=> f.body)
  <2>1. \A n \in 1 .. m + 1 : n < m + 1 => n \in 1 .. m
    BY <1>2
  <2>2. \A n \in 1 .. m + 1 : n \in 1 .. m \/ n = m + 1
    BY <1>2
  <2>3. m + 1 \in 1 .. m + 1
    BY <1>2
  <2>. QED
    BY <1>2, <1>3, <2>1, <2>2, <2>3 DEF Nested, AllIn
<1>5. PICK a, b : a = Begun(s) /\ b = Begun(u)
  OBVIOUS
<1>6. /\ a \in Seq(Requests) /\ Len(a) = m /\ \A n \in 1 .. m : a[n] = s[n].req
      /\ b \in Seq(Requests) /\ Len(b) = (IF f.body THEN m + 1 ELSE m)
      /\ \A n \in 1 .. Len(b) : b[n] = u[n].req
  <2>1. Len(a) = m /\ a \in Seq(Requests) /\ \A n \in 1 .. m : a[n] = s[n].req
    BY <1>1, <1>5, BegunFacts
  <2>2. b \in Seq(Requests) /\ Len(b) = (IF AllIn(u) THEN Len(u) ELSE Len(u) - 1)
        /\ \A n \in 1 .. Len(b) : b[n] = u[n].req
    BY <1>4, <1>5, BegunFacts
  <2>. QED
    BY <1>2, <1>4, <2>1, <2>2
<1>7. CASE f.body
  <2>1. PICK c : c = Append(a, f.req)
    OBVIOUS
  <2>2. /\ c \in Seq(Requests) /\ Len(c) = m + 1 /\ \A n \in 1 .. m : c[n] = a[n]
        /\ c[m + 1] = f.req
    <3>1. f.req \in Requests
      BY DEF OneFrame
    <3>. QED
      BY <1>6, <2>1, <3>1, AppendProperties
  <2>3. \A n \in 1 .. m + 1 : b[n] = c[n]
    <3>1. ASSUME NEW n \in 1 .. m
          PROVE  b[n] = c[n]
      <4>1. n \in 1 .. Len(b)
        BY <1>2, <1>6, <1>7
      <4>2. b[n] = u[n].req /\ u[n] = s[n] /\ a[n] = s[n].req /\ c[n] = a[n]
        BY <1>2, <1>6, <2>2, <4>1
      <4>. QED
        BY <4>2
    <3>2. b[m + 1] = c[m + 1]
      <4>1. m + 1 \in 1 .. m + 1
        BY <1>2
      <4>. QED
        BY <1>2, <1>6, <1>7, <2>2, <4>1
    <3>3. \A n \in 1 .. m + 1 : n \in 1 .. m \/ n = m + 1
      BY <1>2
    <3>. QED
      BY <3>1, <3>2, <3>3
  <2>4. b = c
    BY <1>6, <1>7, <2>2, <2>3, SameSections
  <2>. QED
    BY <1>1, <1>4, <1>5, <1>7, <2>1, <2>4
<1>8. CASE ~f.body
  <2>1. \A n \in 1 .. m : b[n] = a[n]
    BY <1>2, <1>6, <1>8
  <2>2. b = a
    BY <1>6, <1>8, <2>1, SameSections
  <2>. QED
    BY <1>1, <1>4, <1>5, <1>8, <2>2
<1>. QED
  BY <1>7, <1>8

\* The innermost frame goes: its section ends, if it has begun.
LEMMA BegunPop ==
    ASSUME NEW s, Nested(s), s # << >>
    PROVE  /\ Nested(Outer(s)) /\ Len(Begun(s)) \in Nat
           /\ AllIn(s) => /\ Begun(s) # << >>
                          /\ Begun(Outer(s)) = SubSeq(Begun(s), 1, Len(Begun(s)) - 1)
           /\ ~AllIn(s) => Begun(Outer(s)) = Begun(s)
<1>1. PICK u, m : u = Outer(s) /\ m = Len(s) - 1
  OBVIOUS
<1>2. s \in Seq(OneFrame) /\ Len(s) \in Nat /\ Len(s) # 0
  BY EmptySeq, LenProperties DEF Nested
<1>3. m \in Nat /\ Len(s) = m + 1
  <2>1. PICK k : k = Len(s)
    OBVIOUS
  <2>2. k \in Nat /\ k # 0 /\ m = k - 1
    BY <1>1, <1>2, <2>1
  <2>. QED
    BY <2>1, <2>2
<1>4. /\ u \in Seq(OneFrame) /\ Len(u) = m
      /\ \A n \in 1 .. m : u[n] = s[n]
  <2>1. u = SubSeq(s, 1, m) /\ 1 \in 1 .. m + 1 /\ m \in 0 .. m + 1
    BY <1>1, <1>3 DEF Outer
  <2>2. \A n \in 1 .. m : s[n] \in OneFrame
    <3>1. \A n \in 1 .. m : n \in 1 .. m + 1
      BY <1>3
    <3>. QED
      BY <1>2, <1>3, <3>1, ElementOfSeq
  <2>. QED
    BY <1>2, <1>3, <2>1, <2>2, SubSeqProperties
<1>5. Nested(u) /\ AllIn(u)
  <2>1. \A n \in 1 .. m : n \in 1 .. m + 1 /\ n < m + 1
    BY <1>3
  <2>. QED
    BY <1>3, <1>4, <2>1 DEF Nested, AllIn
<1>6. PICK a, b : a = Begun(s) /\ b = Begun(u)
  OBVIOUS
<1>7. /\ a \in Seq(Requests) /\ Len(a) = (IF AllIn(s) THEN m + 1 ELSE m)
      /\ \A n \in 1 .. Len(a) : a[n] = s[n].req
      /\ b \in Seq(Requests) /\ Len(b) = m
      /\ \A n \in 1 .. m : b[n] = u[n].req
  <2>1. /\ a \in Seq(Requests) /\ Len(a) = (IF AllIn(s) THEN Len(s) ELSE Len(s) - 1)
        /\ \A n \in 1 .. Len(a) : a[n] = s[n].req
    BY <1>6, BegunFacts
  <2>2. b \in Seq(Requests) /\ Len(b) = Len(u) /\ \A n \in 1 .. Len(b) : b[n] = u[n].req
    BY <1>5, <1>6, BegunFacts
  <2>. QED
    BY <1>1, <1>3, <1>4, <2>1, <2>2
<1>8. \A n \in 1 .. m : b[n] = a[n]
  <2>1. \A n \in 1 .. m : n \in 1 .. m + 1
    BY <1>3
  <2>. QED
    BY <1>4, <1>7, <2>1
<1>9. CASE AllIn(s)
  <2>1. PICK c : c = SubSeq(a, 1, m)
    OBVIOUS
  <2>2. c \in Seq(Requests) /\ Len(c) = m /\ \A n \in 1 .. m : c[n] = a[n]
    <3>1. 1 \in 1 .. m + 1 /\ m \in 0 .. m + 1
      BY <1>3
    <3>2. \A n \in 1 .. m : a[n] \in Requests
      <4>1. \A n \in 1 .. m : n \in 1 .. m + 1
        BY <1>3
      <4>. QED
        BY <1>7, <1>9, <4>1, ElementOfSeq
    <3>. QED
      BY <1>3, <1>7, <1>9, <2>1, <3>1, <3>2, SubSeqProperties
  <2>3. b = c
    BY <1>7, <1>8, <2>2, SameSections
  <2>4. a # << >> /\ Len(a) - 1 = m /\ Len(a) \in Nat
    BY <1>3, <1>7, <1>9, EmptySeq
  <2>. QED
    BY <1>1, <1>5, <1>6, <1>9, <2>1, <2>3, <2>4
<1>10. CASE ~AllIn(s)
  <2>1. b = a
    BY <1>7, <1>8, <1>10, SameSections
  <2>. QED
    BY <1>1, <1>3, <1>5, <1>6, <1>7, <1>10, <2>1
<1>. QED
  BY <1>9, <1>10

\* Frames that keep their requests, and begin no section, or the innermost.
LEMMA BegunSame ==
    ASSUME NEW s, Nested(s), NEW t \in Seq(OneFrame), Len(t) = Len(s),
           \A n \in 1 .. Len(s) : t[n].req = s[n].req /\ t[n].body = s[n].body
    PROVE  Nested(t) /\ Begun(t) = Begun(s)
<1>1. Nested(t) /\ (AllIn(t) <=> AllIn(s))
  BY DEF Nested, AllIn
<1>2. PICK a, b : a = Begun(s) /\ b = Begun(t)
  OBVIOUS
<1>3. /\ a \in Seq(Requests) /\ \A n \in 1 .. Len(a) : n \in 1 .. Len(s) /\ a[n] = s[n].req
      /\ b \in Seq(Requests) /\ \A n \in 1 .. Len(b) : b[n] = t[n].req
      /\ Len(a) = Len(b)
  BY <1>1, <1>2, BegunFacts
<1>4. a = b
  BY <1>3, SameSections
<1>. QED
  BY <1>1, <1>2, <1>4

LEMMA BegunTop ==
    ASSUME NEW s, Nested(s), ~AllIn(s), NEW t \in Seq(OneFrame), Len(t) = Len(s),
           \A n \in 1 .. Len(s) : t[n].req = s[n].req /\ t[n].body
    PROVE  Nested(t) /\ Begun(t) = Append(Begun(s), s[Len(s)].req)
<1>1. Nested(t) /\ AllIn(t)
  BY DEF Nested, AllIn
<1>2. Len(s) \in Nat /\ Len(s) # 0
  BY BegunFacts DEF AllIn
<1>3. PICK m \in Nat : Len(s) = m + 1
  <2>1. PICK k : k = Len(s)
    OBVIOUS
  <2>2. k - 1 \in Nat /\ k = (k - 1) + 1
    BY <1>2, <2>1
  <2>. QED
    BY <2>1, <2>2
<1>4. PICK a, b : a = Begun(s) /\ b = Begun(t)
  OBVIOUS
<1>5. /\ a \in Seq(Requests) /\ Len(a) = m /\ \A n \in 1 .. m : a[n] = s[n].req
      /\ b \in Seq(Requests) /\ Len(b) = m + 1 /\ \A n \in 1 .. m + 1 : b[n] = s[n].req
  <2>1. a \in Seq(Requests) /\ Len(a) = Len(s) - 1 /\ \A n \in 1 .. Len(a) : a[n] = s[n].req
    BY <1>4, BegunFacts
  <2>2. b \in Seq(Requests) /\ Len(b) = Len(t) /\ \A n \in 1 .. Len(b) : b[n] = t[n].req
    BY <1>1, <1>4, BegunFacts
  <2>3. Len(a) = m
    BY <1>3, <2>1
  <2>. QED
    BY <1>3, <2>1, <2>2, <2>3
<1>6. PICK r : r = s[m + 1].req
  OBVIOUS
<1>7. r \in Requests
  <2>1. m + 1 \in 1 .. m + 1
    BY <1>3
  <2>2. s[m + 1] \in OneFrame
    BY <1>3, <2>1, ElementOfSeq DEF Nested
  <2>. QED
    BY <1>6, <2>2 DEF OneFrame
<1>8. PICK c : c = Append(a, r)
  OBVIOUS
<1>9. /\ c \in Seq(Requests) /\ Len(c) = m + 1 /\ \A n \in 1 .. m : c[n] = a[n]
      /\ c[m + 1] = r
  BY <1>5, <1>7, <1>8, AppendProperties
<1>10. \A n \in 1 .. m + 1 : c[n] = b[n]
  <2>1. \A n \in 1 .. m + 1 : n \in 1 .. m \/ n = m + 1
    BY <1>3
  <2>. QED
    BY <1>5, <1>6, <1>9, <2>1
<1>11. b = c
  BY <1>5, <1>9, <1>10, SameSections
<1>. QED
  BY <1>1, <1>3, <1>4, <1>6, <1>8, <1>11

\* Every process nests its frames, and has none unless its home is attached.
LEMMA FramesNest ==
    ASSUME IInv, HomeInv, NEW p \in Pids
    PROVE  Nested(frames[p]) /\ (frames[p] # << >> => HomeOf[p] \in homes /\ Fine(p))
<1>1. TypedAt(p) /\ (HomeOf[p] \in homes => Fine(p)) /\ HomeOf[p] \in HomeIds
  BY HomeFacts
<1>2. CASE HomeOf[p] \in homes
  BY <1>1, <1>2 DEF Fine, Status, FramesOK, Nested, TypedAt
<1>3. CASE HomeOf[p] \notin homes
  <2>1. Life(HomeOf[p])
    BY <1>1 DEF HomeInv, Shapes
  <2>2. frames[p] = << >>
    BY <1>3, <2>1 DEF Life, Gone, Unborn
  <2>3. Len(<< >>) = 0
    BY EmptySeq
  <2>. QED
    BY <1>1, <2>2, <2>3 DEF Nested, TypedAt
<1>. QED
  BY <1>2, <1>3

\* The table has holds of p for all that r asks for.
Backed(p, r) ==
    \A k \in r.keys : \E i \in DOMAIN holds :
        /\ holds[i].pid = p /\ (holds[i].mode = "exclusive" \/ r.mode = "shared")
        /\ \E l \in holds[i].keys : <<l, k>> \in Prefix

LEMMA SectionsBacked ==
    ASSUME IInv, HomeInv, NEW p \in Pids, NEW n \in 1 .. Len(Begun(frames[p]))
    PROVE  Backed(p, Begun(frames[p])[n])
<1>1. Nested(frames[p]) /\ (frames[p] # << >> => Fine(p))
  BY FramesNest
<1>2. PICK f : f = frames[p][n]
  OBVIOUS
<1>3. n \in 1 .. Len(frames[p]) /\ f.body /\ Begun(frames[p])[n] = f.req /\ frames[p] # << >>
  <2>1. n \in 1 .. Len(frames[p]) /\ f.body /\ Begun(frames[p])[n] = f.req
    BY <1>1, <1>2, BegunFacts
  <2>2. frames[p] = << >> => Len(frames[p]) = 0
    BY EmptySeq
  <2>. QED
    BY <2>1, <2>2
<1>4. Fine(p) /\ f.hold # 0
  BY <1>1, <1>2, <1>3 DEF Fine, Status, FramesOK
<1>5. StandsAt(p, n)
  BY <1>3, <1>4 DEF Fine, Stands
<1>6. ASSUME NEW k \in f.req.keys
      PROVE  \E i \in DOMAIN holds :
                /\ holds[i].pid = p /\ (holds[i].mode = "exclusive" \/ f.req.mode = "shared")
                /\ \E l \in holds[i].keys : <<l, k>> \in Prefix
  <2>1. PICK i \in DOMAIN mirror[p] : Covers(mirror[p], i, f.req, k)
    BY <1>2, <1>4, <1>5 DEF StandsAt
  <2>2. i \in DOMAIN holds /\ holds[i].pid = p
    BY <1>4, <2>1 DEF Fine, Mirror, Known, Mine
  <2>3. SameAs(mirror[p][i], holds[i])
    BY <1>4, <2>1 DEF Fine, Mirror, Copied
  <2>. QED
    BY <2>1, <2>2, <2>3 DEF Covers, Above, SameAs
<1>. QED
  BY <1>3, <1>6 DEF Backed

\* Holds that do not conflict back requests that do not.
LEMMA BackedApart ==
    ASSUME IInv, MutualExclusion, NEW p, NEW q, p # q, NEW r \in Requests, NEW s \in Requests,
           Backed(p, r), Backed(q, s)
    PROVE  ~Conflicts(r, s)
<1>. SUFFICES ASSUME Conflicts(r, s) PROVE FALSE
  OBVIOUS
<1>1. PICK k \in r.keys : \E l \in s.keys : Overlap(k, l)
  BY DEF Conflicts
<1>2. PICK l \in s.keys : Overlap(k, l)
  BY <1>1
<1>3. PICK i \in DOMAIN holds :
        /\ holds[i].pid = p /\ (holds[i].mode = "exclusive" \/ r.mode = "shared")
        /\ \E a \in holds[i].keys : <<a, k>> \in Prefix
  BY DEF Backed
<1>4. PICK a \in holds[i].keys : <<a, k>> \in Prefix
  BY <1>3
<1>5. PICK j \in DOMAIN holds :
        /\ holds[j].pid = q /\ (holds[j].mode = "exclusive" \/ s.mode = "shared")
        /\ \E b \in holds[j].keys : <<b, l>> \in Prefix
  BY DEF Backed
<1>6. PICK b \in holds[j].keys : <<b, l>> \in Prefix
  BY <1>5
<1>7. a \in Keys /\ b \in Keys /\ k \in Keys /\ l \in Keys
  BY <1>4, <1>6, PrefixAssumption
<1>8. Overlap(a, b)
  <2>1. CASE <<k, l>> \in Prefix
    <3>1. <<a, l>> \in Prefix
      BY <1>4, <1>7, <2>1, TreeAssumption
    <3>. QED
      BY <1>6, <1>7, <3>1, TreeAssumption DEF Overlap
  <2>2. CASE <<l, k>> \in Prefix
    <3>1. <<b, k>> \in Prefix
      BY <1>6, <1>7, <2>2, TreeAssumption
    <3>. QED
      BY <1>4, <1>7, <3>1, TreeAssumption DEF Overlap
  <2>. QED
    BY <1>2, <2>1, <2>2 DEF Overlap
<1>9. ~Compat(holds[i].mode, holds[j].mode)
  BY <1>3, <1>5 DEF Conflicts, Compat
<1>10. Conflicts(holds[i], holds[j])
  BY <1>4, <1>6, <1>8, <1>9 DEF Conflicts
<1>. QED
  BY <1>3, <1>5, <1>10 DEF MutualExclusion, Exclusive

LEMMA SectionsExclude == IInv /\ HomeInv => Promise!Exclusion
<1>. SUFFICES ASSUME IInv, HomeInv, NEW p \in Pids, NEW q \in Pids, p # q,
                     NEW m \in 1 .. Len(Sections[p]), NEW n \in 1 .. Len(Sections[q])
              PROVE  ~Conflicts(Sections[p][m], Sections[q][n])
  BY DEF Promise!Exclusion, Promise!Conflicts, Promise!Compat, Promise!Overlap,
         Conflicts, Compat, Overlap
<1>1. PICK a, b : a = Begun(frames[p]) /\ b = Begun(frames[q])
  OBVIOUS
<1>2. Sections[p] = a /\ Sections[q] = b
  BY <1>1, SectionsAre
<1>3. Nested(frames[p]) /\ Nested(frames[q])
  BY FramesNest
<1>4. m \in 1 .. Len(a) /\ n \in 1 .. Len(b) /\ a[m] \in Requests /\ b[n] \in Requests
  <2>1. a \in Seq(Requests) /\ b \in Seq(Requests)
    BY <1>1, <1>3, BegunFacts
  <2>. QED
    BY <1>2, <2>1, ElementOfSeq
<1>5. Backed(p, a[m]) /\ Backed(q, b[n])
  BY <1>1, <1>4, SectionsBacked
<1>6. MutualExclusion
  BY DEF IInv
<1>. QED
  BY <1>2, <1>4, <1>5, <1>6, BackedApart

LEMMA SectionsExcludeNext == (IInv /\ HomeInv => Promise!Exclusion)'
BY SectionsExclude, PTL

\* A step that changes the frames of p alone.
Alone(p) == DOMAIN frames' = Pids /\ \A q \in Pids \ {p} : frames'[q] = frames[q]

\* No section begins or ends.
LEMMA Stutters ==
    ASSUME \A p \in Pids : Begun(frames'[p]) = Begun(frames[p])
    PROVE  Sections' = Sections
<1>1. Sections = [p \in Pids |-> Begun(frames[p])]
  BY DEF Sections, Begun, InBody, AllIn
<1>2. Sections' = [p \in Pids |-> Begun(frames'[p])]
  BY DEF Sections, Begun, InBody, AllIn
<1>. QED
  BY <1>1, <1>2

LEMMA StuttersAlone ==
    ASSUME NEW p \in Pids, Alone(p), Begun(frames'[p]) = Begun(frames[p])
    PROVE  Sections' = Sections
BY Stutters DEF Alone

\* A section begins: no other process is in one that conflicts.
LEMMA Enters ==
    ASSUME IInv, HomeInv, IInv', HomeInv', NEW p \in Pids, NEW r \in Requests, Alone(p),
           Begun(frames'[p]) = Append(Begun(frames[p]), r)
    PROVE  Promise!Next
<1>1. /\ Sections = [q \in Pids |-> Begun(frames[q])]
      /\ Sections' = [q \in Pids |-> Begun(frames'[q])]
  BY DEF Sections, Begun, InBody, AllIn
<1>2. Sections' = [Sections EXCEPT ![p] = Append(@, r)]
  BY <1>1 DEF Alone
<1>3. PICK a, b : a = Begun(frames[p]) /\ b = Append(a, r)
  OBVIOUS
<1>4. a \in Seq(Requests) /\ Sections'[p] = b
  <2>1. Begun(frames[p]) \in Seq(Requests)
    BY FramesNest, BegunFacts
  <2>. QED
    BY <1>1, <1>3, <2>1
<1>5. Len(b) = Len(a) + 1 /\ b[Len(a) + 1] = r /\ Len(a) \in Nat
  BY <1>3, <1>4, AppendProperties, LenProperties
<1>6. PICK m : m = Len(a) + 1
  OBVIOUS
<1>7. m \in 1 .. Len(b) /\ b[m] = r
  BY <1>5, <1>6
<1>8. ASSUME NEW q \in Pids \ {p}, NEW n \in 1 .. Len(Sections[q])
      PROVE  ~Promise!Conflicts(r, Sections[q][n])
  <2>1. Sections'[q] = Sections[q]
    BY <1>1 DEF Alone
  <2>2. \A u, v \in Pids : u # v =>
            \A i \in 1 .. Len(Sections'[u]), j \in 1 .. Len(Sections'[v]) :
                ~Promise!Conflicts(Sections'[u][i], Sections'[v][j])
    BY SectionsExcludeNext DEF Promise!Exclusion
  <2>3. ~Promise!Conflicts(Sections'[p][m], Sections'[q][n])
    BY <1>4, <1>7, <2>1, <2>2
  <2>. QED
    BY <1>4, <1>7, <2>1, <2>3
<1>9. Promise!Enter(p, r)
  BY <1>2, <1>8 DEF Promise!Enter, Promise!Admits
<1>. QED
  BY <1>9 DEF Promise!Next, Promise!Requests, Requests, Promise!Modes, Modes

LEMMA Exits ==
    ASSUME NEW p \in Pids, Alone(p), Begun(frames[p]) # << >>,
           Begun(frames'[p]) = SubSeq(Begun(frames[p]), 1, Len(Begun(frames[p])) - 1)
    PROVE  Promise!Next
<1>1. /\ Sections = [q \in Pids |-> Begun(frames[q])]
      /\ Sections' = [q \in Pids |-> Begun(frames'[q])]
  BY DEF Sections, Begun, InBody, AllIn
<1>2. Sections' = [Sections EXCEPT ![p] = SubSeq(@, 1, Len(@) - 1)]
  BY <1>1 DEF Alone
<1>3. Promise!Exit(p)
  BY <1>1, <1>2 DEF Promise!Exit
<1>. QED
  BY <1>3 DEF Promise!Next

LEMMA BegunNone == Begun(<< >>) = << >>
<1>1. << >> \in Seq(OneFrame) /\ Len(<< >>) = 0
  BY EmptySeq
<1>2. PICK s : s = << >>
  OBVIOUS
<1>3. Nested(s) /\ AllIn(s) /\ Len(s) = 0
  BY <1>1, <1>2 DEF Nested, AllIn
<1>4. Begun(s) \in Seq(Requests) /\ Len(Begun(s)) = 0
  BY <1>3, BegunFacts
<1>5. Begun(s) = << >>
  BY <1>4, EmptySeq
<1>. QED
  BY <1>2, <1>5

\* The sections of E end, whatever they nest.
LEMMA Cuts ==
    ASSUME NEW E \in SUBSET Pids,
           \A p \in Pids : frames'[p] = IF p \in E THEN << >> ELSE frames[p]
    PROVE  Promise!Next \/ Sections' = Sections
<1>1. /\ Sections = [q \in Pids |-> Begun(frames[q])]
      /\ Sections' = [q \in Pids |-> Begun(frames'[q])]
  BY DEF Sections, Begun, InBody, AllIn
<1>2. \A p \in Pids : Begun(frames'[p]) = IF p \in E THEN << >> ELSE Begun(frames[p])
  BY BegunNone
<1>3. Sections' = [p \in Pids |-> IF p \in E THEN << >> ELSE Sections[p]]
  BY <1>1, <1>2
<1>4. CASE E = {}
  BY <1>1, <1>2, <1>4
<1>5. CASE E # {}
  BY <1>3, <1>5 DEF Promise!Next, Promise!Cut
<1>. QED
  BY <1>4, <1>5

\* One frame more.
LEMMA Pushed ==
    ASSUME IInv, HomeInv, NEW p \in Pids, InBody(p), NEW f \in OneFrame, frames' = Push(p, f)
    PROVE  /\ Alone(p)
           /\ Begun(frames'[p]) = IF f.body THEN Append(Begun(frames[p]), f.req) ELSE Begun(frames[p])
<1>1. DOMAIN frames = Pids /\ Nested(frames[p]) /\ AllIn(frames[p])
  BY HomeFacts, FramesNest DEF InBody, AllIn
<1>2. Alone(p) /\ frames'[p] = Append(frames[p], f)
  BY <1>1 DEF Alone, Push
<1>. QED
  BY <1>1, <1>2, BegunPush

LEMMA EnterPromised ==
    ASSUME IInv, HomeInv, IInv', HomeInv', NEW p \in Pids, NEW r \in Requests, TryEnter(p, r)
    PROVE  Promise!Next \/ Sections' = Sections
<1>1. InBody(p) /\ Steps(p) /\ nextHold \in Nat /\ TypedAt(p)
  BY HomeFacts DEF TryEnter, IInv, TypeOK
<1>2. ASSUME NEW i \in Nat, frames' = Push(p, Frame(i, TRUE, r))
      PROVE  Promise!Next
  <2>1. PICK f : f = Frame(i, TRUE, r)
    OBVIOUS
  <2>2. f \in OneFrame /\ f.body /\ f.req = r
    BY <2>1 DEF Frame, OneFrame
  <2>3. Alone(p) /\ Begun(frames'[p]) = Append(Begun(frames[p]), r)
    BY <1>1, <1>2, <2>1, <2>2, Pushed
  <2>. QED
    BY <2>3, Enters
<1>3. CASE EnterCovered(p, r)
  <2>1. PICK i \in DOMAIN mirror[p] : frames' = Push(p, Frame(i, TRUE, r))
    BY <1>3 DEF EnterCovered
  <2>2. i \in Nat
    BY <1>1, <2>1 DEF TypedAt
  <2>. QED
    BY <1>2, <2>1, <2>2
<1>4. CASE EnterFast(p, r)
  <2>1. frames' = Push(p, Frame(nextHold + 1, TRUE, r)) /\ nextHold + 1 \in Nat
    BY <1>1, <1>4 DEF EnterFast
  <2>2. PICK i \in Nat : i = nextHold + 1
    BY <2>1
  <2>. QED
    BY <1>2, <2>1, <2>2
<1>5. CASE EnterBusy(p, r)
  <2>1. PICK f : f = Frame(0, FALSE, r)
    OBVIOUS
  <2>2. f \in OneFrame /\ f.body = FALSE
    BY <2>1 DEF Frame, OneFrame
  <2>3. frames' = Push(p, f)
    BY <1>5, <2>1 DEF EnterBusy
  <2>4. Alone(p) /\ Begun(frames'[p]) = Begun(frames[p])
    <3>1. /\ Alone(p)
          /\ Begun(frames'[p]) = IF f.body THEN Append(Begun(frames[p]), f.req) ELSE Begun(frames[p])
      BY <1>1, <2>2, <2>3, Pushed
    <3>. QED
      BY <2>2, <3>1
  <2>. QED
    BY <2>4, StuttersAlone
<1>. QED
  BY <1>3, <1>4, <1>5 DEF TryEnter

LEMMA BeginPromised ==
    ASSUME IInv, HomeInv, IInv', HomeInv', NEW p \in Pids, BeginBody(p)
    PROVE  Promise!Next
<1>1. PICK s, m : s = frames[p] /\ m = Len(s)
  OBVIOUS
<1>2. /\ ~AllIn(s) /\ DOMAIN frames = Pids
      /\ frames' = [frames EXCEPT ![p][m].body = TRUE]
  BY <1>1, HomeFacts DEF BeginBody, InBody, AllIn
<1>3. s # << >> /\ Nested(s)
  <2>1. Nested(s)
    BY <1>1, FramesNest
  <2>2. Len(s) # 0
    BY <1>2, <2>1, BegunFacts DEF AllIn
  <2>. QED
    BY <2>1, <2>2, EmptySeq
<1>4. m \in 1 .. m /\ s[m] \in OneFrame
  <2>1. m \in Nat /\ m # 0 /\ s \in Seq(OneFrame)
    BY <1>1, <1>3, BegunFacts DEF Nested
  <2>2. m \in 1 .. m
    BY <2>1
  <2>. QED
    BY <1>1, <2>1, <2>2, ElementOfSeq
<1>5. PICK e \in OneFrame : e = [s[m] EXCEPT !.body = TRUE] /\ e.req = s[m].req /\ e.body
  <2>1. /\ [s[m] EXCEPT !.body = TRUE] \in OneFrame
        /\ [s[m] EXCEPT !.body = TRUE].req = s[m].req /\ [s[m] EXCEPT !.body = TRUE].body
    BY <1>4 DEF OneFrame
  <2>. QED
    BY <2>1
<1>6. frames' = [frames EXCEPT ![p] = [s EXCEPT ![m] = e]]
  BY <1>1, <1>2, <1>5
<1>7. /\ Alone(p) /\ frames'[p] \in Seq(OneFrame) /\ Len(frames'[p]) = m
      /\ frames'[p][m] = e /\ \A n \in 1 .. m : n # m => frames'[p][n] = s[n]
      /\ \A n \in 1 .. m : n # m => s[n].body
  <2>1. Alone(p) /\ frames'[p] = [s EXCEPT ![m] = e]
    BY <1>2, <1>6 DEF Alone
  <2>2. s \in Seq(OneFrame) /\ m \in Nat /\ m = Len(s)
    BY <1>1, <1>3, BegunFacts DEF Nested
  <2>3. \A n \in 1 .. m : n # m => s[n].body
    <3>1. \A n \in 1 .. m : n # m => n < m
      BY <2>2
    <3>. QED
      BY <1>1, <1>3, <3>1 DEF Nested
  <2>4. m \in 1 .. Len(s)
    BY <1>4, <2>2
  <2>5. PICK t : t = [s EXCEPT ![m] = e]
    OBVIOUS
  <2>6. /\ t \in Seq(OneFrame) /\ Len(t) = Len(s) /\ t[m] = e
        /\ \A n \in 1 .. Len(s) : n # m => t[n] = s[n]
    BY <2>2, <2>4, <2>5, ExceptSeq
  <2>. QED
    BY <2>1, <2>2, <2>3, <2>5, <2>6
<1>8. \A n \in 1 .. m : frames'[p][n].req = s[n].req /\ frames'[p][n].body
  BY <1>5, <1>7
<1>9. PICK r : r = s[m].req
  OBVIOUS
<1>10. Begun(frames'[p]) = Append(Begun(frames[p]), r)
  <2>1. PICK t \in Seq(OneFrame) : t = frames'[p]
    BY <1>7
  <2>2. Len(t) = Len(s) /\ \A n \in 1 .. Len(s) : t[n].req = s[n].req /\ t[n].body
    BY <1>1, <1>7, <1>8, <2>1
  <2>3. Nested(s) /\ ~AllIn(s)
    BY <1>2, <1>3
  <2>4. Begun(t) = Append(Begun(s), s[Len(s)].req)
    BY <2>2, <2>3, BegunTop
  <2>. QED
    BY <1>1, <1>9, <2>1, <2>4
<1>11. r \in Requests
  BY <1>4, <1>9 DEF OneFrame
<1>. QED
  BY <1>7, <1>10, <1>11, Enters

\* A bare frame goes, or gets its hold: the section has not begun.
LEMMA BareIs ==
    ASSUME IInv, HomeInv, NEW p \in Pids, HomeOf[p] \in homes, Asks(p)
    PROVE  Nested(frames[p]) /\ frames[p] # << >> /\ ~AllIn(frames[p])
<1>1. Fine(p) /\ Nested(frames[p])
  BY HomeFacts, FramesNest
<1>2. frames[p] # << >> /\ Top(p).hold = 0 /\ FramesOK(p)
  BY <1>1 DEF Fine, Status
<1>3. Len(frames[p]) \in 1 .. Len(frames[p])
  <2>1. Len(frames[p]) \in Nat /\ Len(frames[p]) # 0
    BY <1>1, <1>2, BegunFacts
  <2>. QED
    BY <2>1
<1>4. ~frames[p][Len(frames[p])].body
  BY <1>2, <1>3 DEF FramesOK, Top
<1>. QED
  BY <1>1, <1>2, <1>3, <1>4 DEF AllIn

LEMMA BareGone ==
    ASSUME IInv, HomeInv, NEW p \in Pids, HomeOf[p] \in homes, Asks(p),
           frames' = [frames EXCEPT ![p] = Outer(@)]
    PROVE  Sections' = Sections
<1>1. DOMAIN frames = Pids
  BY HomeFacts
<1>2. Alone(p) /\ frames'[p] = Outer(frames[p])
  BY <1>1 DEF Alone
<1>3. Begun(frames'[p]) = Begun(frames[p])
  BY <1>2, BareIs, BegunPop
<1>. QED
  BY <1>2, <1>3, StuttersAlone

LEMMA CollectPromised ==
    ASSUME IInv, HomeInv, NEW p \in Pids, HomeOf[p] \in homes, Asks(p), Collect(p), TypedAt(p)'
    PROVE  Sections' = Sections
<1>1. PICK i : i = tickets[TicketOf(p)].hold
  OBVIOUS
<1>2. CASE frames' = [frames EXCEPT ![p] = Outer(@)]
  BY <1>2, BareGone
<1>3. CASE frames' = [frames EXCEPT ![p][Len(frames[p])].hold = i]
  <2>1. PICK s, m : s = frames[p] /\ m = Len(s)
    OBVIOUS
  <2>2. Nested(s) /\ s # << >> /\ DOMAIN frames = Pids
    BY <2>1, BareIs, HomeFacts
  <2>3. m \in 1 .. m /\ s \in Seq(OneFrame) /\ s[m] \in OneFrame
    <3>1. m \in Nat /\ m # 0 /\ s \in Seq(OneFrame)
      BY <2>1, <2>2, BegunFacts DEF Nested
    <3>2. m \in 1 .. m
      BY <3>1
    <3>. QED
      BY <2>1, <3>1, <3>2, ElementOfSeq
  <2>4. frames' = [frames EXCEPT ![p] = [s EXCEPT ![m] = [s[m] EXCEPT !.hold = i]]]
    BY <1>3, <2>1, <2>2
  <2>5. frames'[p] = [s EXCEPT ![m] = [s[m] EXCEPT !.hold = i]] /\ Alone(p)
    BY <2>2, <2>4 DEF Alone
  <2>6. frames'[p] \in Seq(OneFrame)
    BY DEF TypedAt
  <2>7. /\ Len(frames'[p]) = m
        /\ \A n \in 1 .. m : frames'[p][n] = IF n = m THEN [s[m] EXCEPT !.hold = i] ELSE s[n]
    <3>1. DOMAIN s = 1 .. m /\ DOMAIN frames'[p] = 1 .. Len(frames'[p]) /\ Len(frames'[p]) \in Nat /\ m \in Nat
      BY <2>1, <2>3, <2>6, LenProperties
    <3>2. DOMAIN frames'[p] = DOMAIN s
      BY <2>5
    <3>3. Len(frames'[p]) = m
      <4>1. PICK k : k = Len(frames'[p])
        OBVIOUS
      <4>2. k \in Nat /\ m \in Nat /\ 1 .. k = 1 .. m
        BY <3>1, <3>2, <4>1
      <4>3. k = m
        BY <4>2
      <4>. QED
        BY <4>1, <4>3
    <3>. QED
      BY <2>5, <3>1, <3>3
  <2>8. /\ [s[m] EXCEPT !.hold = i].req = s[m].req /\ [s[m] EXCEPT !.hold = i].body = s[m].body
    BY <2>3 DEF OneFrame
  <2>9. \A n \in 1 .. Len(s) : frames'[p][n].req = s[n].req /\ frames'[p][n].body = s[n].body
    BY <2>1, <2>7, <2>8
  <2>10. Begun(frames'[p]) = Begun(s)
    BY <2>1, <2>2, <2>6, <2>7, <2>9, BegunSame
  <2>. QED
    BY <2>1, <2>5, <2>10, StuttersAlone
<1>. QED
  BY <1>1, <1>2, <1>3 DEF Collect

LEMMA ReleasePromised ==
    ASSUME IInv, HomeInv, NEW p \in Pids, ReleaseFrame(p)
    PROVE  Promise!Next \/ Sections' = Sections
<1>1. /\ frames[p] # << >> /\ frames' = [frames EXCEPT ![p] = Outer(@)]
      /\ DOMAIN frames = Pids /\ Nested(frames[p])
  BY HomeFacts, FramesNest DEF ReleaseFrame
<1>2. Alone(p) /\ frames'[p] = Outer(frames[p])
  BY <1>1 DEF Alone
<1>3. CASE AllIn(frames[p])
  <2>1. /\ Begun(frames[p]) # << >>
        /\ Begun(frames'[p]) = SubSeq(Begun(frames[p]), 1, Len(Begun(frames[p])) - 1)
    BY <1>1, <1>2, <1>3, BegunPop
  <2>. QED
    BY <1>2, <2>1, Exits
<1>4. CASE ~AllIn(frames[p])
  <2>1. Begun(frames'[p]) = Begun(frames[p])
    BY <1>1, <1>2, <1>4, BegunPop
  <2>. QED
    BY <1>2, <2>1, StuttersAlone
<1>. QED
  BY <1>3, <1>4

LEMMA KillPromised ==
    ASSUME IInv, HomeInv, NEW p \in Pids, KillProcess(p)
    PROVE  Promise!Next \/ Sections' = Sections
<1>1. DOMAIN frames = Pids /\ frames' = [frames EXCEPT ![p] = << >>]
  BY HomeFacts DEF KillProcess
<1>2. PICK E \in SUBSET Pids : E = {p}
  OBVIOUS
<1>3. \A q \in Pids : frames'[q] = IF q \in E THEN << >> ELSE frames[q]
  BY <1>1, <1>2
<1>. QED
  BY <1>3, Cuts

LEMMA ApplyPromised ==
    ASSUME IInv, HomeInv, HomeInv', NEW h \in HomeIds, NEW p \in Pids, NEW t, ApplyWake(p, t)
    PROVE  Sections' = Sections
<1>1. CASE p \in waiting /\ Collect(p)
  <2>1. TypedAt(p)'
    BY DEF HomeInv, Typed
  <2>2. CASE HomeOf[p] \in homes
    BY <1>1, <2>1, <2>2, CollectPromised DEF Asks
  <2>3. CASE HomeOf[p] \notin homes
    <3>1. TicketOf(p) = 0
      BY <2>3, Strangers
    <3>2. TicketOf(p) # 0
      BY <1>1 DEF Collect, Resume
    <3>. QED
      BY <3>1, <3>2
  <2>. QED
    BY <2>2, <2>3
<1>2. CASE frames' = frames
  BY <1>2, Stutters
<1>. QED
  BY <1>1, <1>2 DEF ApplyWake, Current

LEMMA RunPromised ==
    ASSUME IInv, HomeInv, HomeInv', NEW h \in HomeIds, Run(h)
    PROVE  Promise!Next \/ Sections' = Sections
<1>1. frames' = frames => Sections' = Sections
  BY Stutters
<1>2. CASE RunNote(h) \/ RunWake(h)
  <2>1. PICK c : c = work[h][1]
    OBVIOUS
  <2>2. work[h] # << >> /\ c.call \in Wakes
    BY <1>2, <2>1 DEF RunNote, RunWake, Calls, Wakes
  <2>3. c.pid \in Pids
    <3>1. c \in AnyCall
      BY <2>1, <2>2, HomeFacts, Heads
    <3>. QED
      BY <2>2, <3>1, CallTypes
  <2>4. ApplyWake(c.pid, c.tid) \/ frames' = frames
    BY <1>2, <2>1 DEF RunNote, RunWake
  <2>. QED
    BY <1>1, <2>3, <2>4, ApplyPromised
<1>3. CASE RunExpire(h) \/ RunWait(h) \/ RunPark(h) \/ RunThrow(h) \/ RunRelease(h) \/ RunDiscard(h)
  BY <1>1, <1>3 DEF RunExpire, RunWait, RunPark, RunThrow, RunRelease, RunDiscard
<1>4. CASE RunCollect(h) \/ RunUnwind(h)
  <2>1. PICK c, p : c = work[h][1] /\ p = c.pid
    OBVIOUS
  <2>2. work[h] # << >> /\ c.call \in {"collect", "unwind"}
    BY <1>4, <2>1 DEF RunCollect, RunUnwind, Calls
  <2>3. p \in Pids /\ HomeOf[p] \in homes /\ Asks(p)
    <3>1. h \in homes /\ p \in Pids /\ HomeOf[p] = h /\ (c.call \in Asked => Asks(p))
      BY <2>1, <2>2, AskedHead DEF Asked
    <3>. QED
      BY <2>2, <3>1 DEF Asked
  <2>4. CASE RunCollect(h)
    <3>1. Collect(p) /\ TypedAt(p)'
      BY <2>1, <2>3, <2>4 DEF RunCollect, HomeInv, Typed
    <3>. QED
      BY <2>3, <3>1, CollectPromised
  <2>5. CASE RunUnwind(h)
    <3>1. frames' = [frames EXCEPT ![p] = Outer(@)]
      BY <2>1, <2>5 DEF RunUnwind
    <3>. QED
      BY <2>3, <3>1, BareGone
  <2>. QED
    BY <1>4, <2>4, <2>5
<1>5. CASE RunDetach(h)
  <2>1. PICK E \in SUBSET Pids : E = {p \in Pids : HomeOf[p] = h}
    OBVIOUS
  <2>2. \A p \in Pids : frames'[p] = IF p \in E THEN << >> ELSE frames[p]
    BY <1>5, <2>1 DEF RunDetach
  <2>. QED
    BY <2>2, Cuts
<1>. QED
  BY <1>2, <1>3, <1>4, <1>5 DEF Run

LEMMA StepPromised ==
    ASSUME IInv, HomeInv, IInv', HomeInv', [HNext]_hvars
    PROVE  [Promise!Next]_Sections
<1>1. frames' = frames => Sections' = Sections
  BY Stutters
<1>2. CASE UNCHANGED hvars
  BY <1>1, <1>2 DEF hvars
<1>3. CASE AttachLockHome
  BY <1>1, <1>3 DEF AttachLockHome
<1>4. ASSUME NEW p \in Pids, \/ \E r \in Requests : TryEnter(p, r)
                             \/ BeginBody(p) \/ ReleaseFrame(p) \/ KillProcess(p)
      PROVE  Promise!Next \/ Sections' = Sections
  BY <1>4, EnterPromised, BeginPromised, ReleasePromised, KillPromised
<1>5. ASSUME NEW h \in HomeIds, DrainPort(h) \/ WakeDue(h) \/ Destroy(h) \/ Run(h)
      PROVE  Promise!Next \/ Sections' = Sections
  <2>1. CASE Run(h)
    BY <2>1, RunPromised
  <2>2. CASE DrainPort(h) \/ WakeDue(h) \/ Destroy(h)
    BY <1>1, <2>2 DEF DrainPort, WakeDue, Destroy
  <2>. QED
    BY <1>5, <2>1, <2>2
<1>. QED
  BY <1>2, <1>3, <1>4, <1>5 DEF HNext

LEMMA StartPromised == HInit => Promise!Init
<1>. SUFFICES ASSUME HInit PROVE Promise!Init
  OBVIOUS
<1>1. \A p \in Pids : frames[p] = << >>
  BY DEF HInit, LocalInit
<1>2. \A p \in Pids : Begun(frames[p]) = << >>
  BY <1>1, BegunNone
<1>3. Sections = [p \in Pids |-> Begun(frames[p])]
  BY DEF Sections, Begun, InBody, AllIn
<1>. QED
  BY <1>2, <1>3 DEF Promise!Init

\* The homes and the table implement with-lock: a section begins only when no
\* other process, of any home, is in one that conflicts.
THEOREM PromiseKept == HSpec => KeepsPromise
<1>1. HInit => Promise!Init
  BY StartPromised
<1>2. (IInv /\ HomeInv) /\ (IInv /\ HomeInv)' /\ [HNext]_hvars => [Promise!Next]_Sections
  BY StepPromised
<1>. QED
  BY <1>1, <1>2, HomesInvariant, PTL DEF HSpec, KeepsPromise, Promise!Spec

\* No two processes, of any homes, are in conflicting sections, whatever each
\* has nested.
THEOREM SectionsApart == HSpec => []Promise!Exclusion
<1>1. IInv /\ HomeInv => Promise!Exclusion
  BY SectionsExclude
<1>. QED
  BY <1>1, HomesInvariant, PTL

-----------------------------------------------------------------------------
(* No call meets a table that can't take it.  Fits is the guards of Run,   *)
(* call by call; GoInv is what they need beyond HomeInv: bodies run under  *)
(* sections that have begun, requests on their way were let through by the *)
(* mirror, and the bounds leave room for them.                             *)

CanCancel(p) ==
    \/ ticket[p] \notin Queued(tickets)
    \/ /\ TicketOf(p) \in Queued(tickets)
       /\ CanFinish(recs, holds, [tickets EXCEPT ![TicketOf(p)].state = "cancelled"],
                    tickets[TicketOf(p)].keys)

CanResume(p) == TicketOf(p) # 0 /\ TicketOf(p) \in DOMAIN tickets \ Queued(tickets)

CanRelease(p, i) ==
    /\ TicketOf(p) = 0 /\ i \in HoldIds(recs, p)
    /\ CanFinish([recs EXCEPT ![p].holds = @ \ {i}], [j \in DOMAIN holds \ {i} |-> holds[j]],
                 tickets, holds[i].keys)

CanDetach(h) ==
    LET E == {p \in DOMAIN recs : HomeOf[p] = h}
        gone == UNION {recs[p].holds : p \in E}
        own == {recs[p].ticket : p \in E} \ {0}
    IN  /\ h \in homes
        /\ CanFinish([p \in DOMAIN recs \ E |-> recs[p]],
                     [i \in DOMAIN holds \ gone |-> holds[i]],
                     [t \in DOMAIN tickets \ own |-> tickets[t]],
                     (UNION {holds[i].keys : i \in gone})
                       \cup (UNION {tickets[t].keys : t \in own \cap Queued(tickets)}))

\* The table can take the call c of home h: the guards of Run(h).
Fits(c, h) ==
    /\ c.call \in Wakes /\ HomeOf[c.pid] = h /\ Current(c.pid, c.tid) => CanResume(c.pid)
    /\ c.call = "expire" => \E p \in c.pids : p \in waiting => CanCancel(p)
    /\ c.call = "wait" => MayRequest(c.pid, c.req) /\ nextSeq < MaxSeq
    /\ c.call \in {"collect", "unwind"} => CanResume(c.pid)
    /\ c.call = "release" => CanRelease(c.pid, c.hold)
    /\ c.call = "detach" => CanDetach(h)

CallsFit == \A h \in HomeIds : work[h] # << >> => Fits(work[h][1], h)

\* Bodies run under holds whose sections have begun.
BodiesBegan(p) ==
    \A n \in 1 .. Len(frames[p]) : frames[p][n].body => holds[frames[p][n].hold].started

\* A request on its way to the table is one that the home has let through.
LetThrough(p) ==
    \A c \in Business(p) : c.call = "wait" => ~Upgrades(mirror[p], c.req) /\ ~Covered(mirror[p], c.req)

\* The bounds leave room for what is queued and for the requests on their way.
Room ==
    /\ nextHold + Cardinality(Queued(tickets)) + Cardinality(Pending) <= MaxHold
    /\ nextSeq + Cardinality(Pending) <= MaxSeq

Each == \A p \in Pids : HomeOf[p] \in homes => BodiesBegan(p) /\ LetThrough(p)

GoInv == Room /\ Each

\* A ticket that its home knows of and that is decided can be collected.
LEMMA ResumeFits ==
    ASSUME IInv, HomeInv, NEW p \in Pids, Mirror(p), ticket[p] # 0, Decided(ticket[p])
    PROVE  CanResume(p)
<1>1. TicketOf(p) = ticket[p] /\ TicketOf(p) \in DOMAIN tickets
  BY TicketReads DEF TicketRead, Mirror
<1>. QED
  BY <1>1 DEF CanResume, Decided

LEMMA WakeFits ==
    ASSUME IInv, HomeInv, NEW h \in HomeIds, NEW c \in Todo(h), c.call \in Wakes,
           HomeOf[c.pid] = h, Current(c.pid, c.tid)
    PROVE  CanResume(c.pid)
<1>1. c \in AnyCall /\ c.pid \in Pids /\ c.tid \in 1 .. MaxSeq
  BY HomeFacts, Heads, CallTypes
<1>2. Decided(c.tid)
  BY DEF HomeInv, Timely
<1>3. h \in homes
  <2>1. Life(h)
    BY DEF HomeInv, Shapes
  <2>2. ~Unborn(h)
    <3>1. work[h] # << >>
      BY HomeFacts, Heads
    <3>. QED
      BY <3>1 DEF Unborn
  <2>3. ~Gone(h)
    BY DEF Gone, Wakes
  <2>. QED
    BY <2>1, <2>2, <2>3 DEF Life
<1>4. Mirror(c.pid)
  BY <1>1, <1>3, HomeFacts DEF Fine
<1>5. ticket[c.pid] = c.tid /\ c.tid # 0
  BY <1>1, BoundAssumption DEF Current
<1>. QED
  BY <1>1, <1>2, <1>4, <1>5, ResumeFits

LEMMA CancelFits ==
    ASSUME IInv, HomeInv, NEW p \in Pids, Mirror(p)
    PROVE  CanCancel(p)
<1>. SUFFICES ASSUME ticket[p] \in Queued(tickets)
              PROVE  CanCancel(p)
  BY DEF CanCancel
<1>1. TicketOf(p) \in Queued(tickets)
  BY DEF Mirror
<1>2. TicketsOK(tickets, nextSeq) /\ nextSeq \in Nat
  BY TypesLinks
<1>3. TicketsOK([tickets EXCEPT ![TicketOf(p)].state = "cancelled"], nextSeq)
  BY <1>1, <1>2 DEF TicketsOK, Ticket, Queued
<1>. QED
  BY <1>1, <1>2, <1>3, PassExists DEF CanCancel

LEMMA ReleaseFits ==
    ASSUME IInv, HomeInv, NEW h \in HomeIds, NEW c, work[h] # << >>, c = work[h][1], c.call = "release"
    PROVE  CanRelease(c.pid, c.hold)
<1>1. c.pid \in Pids /\ Business(c.pid) = {c} /\ c.pid \notin waiting /\ Fine(c.pid)
  BY AskedHead
<1>2. TicketOf(c.pid) = 0
  <2>1. ~Doing(c.pid, Asked \ {"wait"})
    BY <1>1 DEF Doing, Asked
  <2>. QED
    BY <1>1, <2>1 DEF Fine, Status, Mirror
<1>3. c.hold \in HoldIds(recs, c.pid)
  <2>1. c.hold \in Known(c.pid)
    BY <1>1 DEF Fine, Mirror, Releasing
  <2>2. HoldIds(recs, c.pid) = Mine(c.pid)
    BY TicketReads DEF TicketRead
  <2>. QED
    BY <2>1, <2>2 DEF Known
<1>4. TicketsOK(tickets, nextSeq) /\ nextSeq \in Nat
  BY TypesLinks
<1>. QED
  BY <1>2, <1>3, <1>4, PassExists DEF CanRelease

LEMMA DetachFits ==
    ASSUME IInv, HomeInv, NEW h \in HomeIds, NEW c, work[h] # << >>, c = work[h][1], c.call = "detach"
    PROVE  CanDetach(h)
<1>1. h \in homes
  BY OneHead DEF Wakes
<1>2. TicketsOK(tickets, nextSeq) /\ nextSeq \in Nat
  BY TypesLinks
<1>3. \A D : TicketsOK([t \in DOMAIN tickets \ D |-> tickets[t]], nextSeq)
  BY <1>2 DEF TicketsOK
<1>. QED
  BY <1>1, <1>2, <1>3, PassExists DEF CanDetach

\* What a home let through the table lets through: its mirror is what it holds.
LEMMA OwnIsMirror ==
    ASSUME IInv, HomeInv, NEW p \in Pids, Mirror(p), ticket[p] = 0, Releasing(p) = {}
    PROVE  /\ DOMAIN mirror[p] = HoldIds(recs, p) /\ DOMAIN Own(p) = DOMAIN mirror[p]
           /\ \A i \in DOMAIN mirror[p] : SameAs(Own(p)[i], mirror[p][i]) /\ Own(p)[i] = holds[i]
<1>1. TicketOf(p) = 0 /\ HoldIds(recs, p) = Mine(p)
  BY TicketReads DEF TicketRead, Mirror
<1>2. Granted(p) = {}
  <2>1. \A t \in DOMAIN tickets : tickets[t].pid # p
    BY <1>1, TicketReads DEF TicketRead
  <2>. QED
    BY <2>1 DEF Granted
<1>3. DOMAIN mirror[p] = HoldIds(recs, p)
  BY <1>1, <1>2 DEF Mirror, Known
<1>4. Copied(p)
  BY DEF Mirror
<1>. QED
  BY <1>3, <1>4 DEF Own, Copied, SameAs

LEMMA CoverSame ==
    ASSUME NEW H, NEW F, DOMAIN H = DOMAIN F, \A i \in DOMAIN H : SameAs(H[i], F[i]), NEW r
    PROVE  (Upgrades(H, r) <=> Upgrades(F, r)) /\ (Covered(H, r) <=> Covered(F, r))
<1>1. \A k : Above(H, k) = Above(F, k)
  BY DEF Above, SameAs
<1>2. \A k : \A i \in Above(H, k) : i \in DOMAIN H
  BY DEF Above
<1>3. \A i, k : Covers(H, i, r, k) <=> Covers(F, i, r, k)
  BY <1>1, <1>2 DEF Covers, SameAs
<1>4. Upgrades(H, r) <=> Upgrades(F, r)
  BY <1>1, <1>2 DEF Upgrades, SameAs
<1>. QED
  BY <1>3, <1>4 DEF Covered

LEMMA WaitFits ==
    ASSUME IInv, HomeInv, GoInv, NEW h \in HomeIds, NEW c, work[h] # << >>, c = work[h][1], c.call = "wait"
    PROVE  MayRequest(c.pid, c.req) /\ nextSeq < MaxSeq
<1>1. /\ h \in homes /\ c.pid \in Pids /\ HomeOf[c.pid] = h /\ Business(c.pid) = {c}
      /\ c.pid \notin waiting /\ Fine(c.pid) /\ TypedAt(c.pid) /\ Asks(c.pid)
  BY AskedHead DEF Asked
<1>2. PICK p : p = c.pid
  OBVIOUS
<1>3. ticket[p] = 0 /\ Releasing(p) = {} /\ Mirror(p)
  <2>1. ~Doing(p, Asked \ {"wait"})
    BY <1>1, <1>2 DEF Doing, Asked
  <2>2. Releasing(p) = {}
    BY <1>1, <1>2 DEF Releasing
  <2>. QED
    BY <1>1, <1>2, <2>1, <2>2 DEF Fine, Status
<1>4. /\ DOMAIN mirror[p] = HoldIds(recs, p) /\ DOMAIN Own(p) = DOMAIN mirror[p]
      /\ \A i \in DOMAIN mirror[p] : SameAs(Own(p)[i], mirror[p][i]) /\ Own(p)[i] = holds[i]
  BY <1>1, <1>2, <1>3, OwnIsMirror
<1>5. ~Upgrades(Own(p), c.req) /\ ~Covered(Own(p), c.req)
  <2>1. LetThrough(p)
    BY <1>1, <1>2 DEF GoInv, Each
  <2>2. ~Upgrades(mirror[p], c.req) /\ ~Covered(mirror[p], c.req)
    BY <1>1, <1>2, <2>1 DEF LetThrough
  <2>3. \A r : (Upgrades(Own(p), r) <=> Upgrades(mirror[p], r)) /\ (Covered(Own(p), r) <=> Covered(mirror[p], r))
    BY <1>4, CoverSame
  <2>. QED
    BY <2>2, <2>3
<1>6. \A i \in HoldIds(recs, p) : holds[i].started
  <2>. SUFFICES ASSUME NEW i \in DOMAIN mirror[p] PROVE holds[i].started
    BY <1>4
  <2>1. Counts(p, i) # {} /\ i # 0
    BY <1>1, <1>2, <1>3, MirrorCounts DEF Mirror
  <2>2. PICK n \in 1 .. Len(frames[p]) : frames[p][n].hold = i
    BY <2>1 DEF Counts
  <2>3. n \in 1 .. Len(frames[p]) - 1
    <3>1. Top(p).hold = 0 /\ Len(frames[p]) \in Nat \ {0}
      BY <1>1, <1>2, FineAsks
    <3>2. n # Len(frames[p])
      BY <2>1, <2>2, <3>1 DEF Top
    <3>. QED
      BY <3>1, <3>2
  <2>4. frames[p][n].body
    BY <1>1, <1>2, <2>3, FineAsks
  <2>5. BodiesBegan(p)
    BY <1>1, <1>2 DEF GoInv, Each
  <2>. QED
    BY <2>2, <2>4, <2>5 DEF BodiesBegan
<1>7. ~Interrupts(p, c.req)
  BY <1>6 DEF Interrupts
<1>8. nextHold < MaxHold /\ nextSeq < MaxSeq
  <2>1. h \in Pending
    BY DEF Pending
  <2>2. IsFiniteSet(HomeIds) /\ Pending \subseteq HomeIds
    BY HomeAssumption, FS_Interval DEF HomeIds, Pending
  <2>3. Cardinality(Pending) \in Nat \ {0}
    <3>1. IsFiniteSet(Pending)
      BY <2>2, FS_Subset
    <3>. QED
      BY <2>1, <3>1, FS_CardinalityType, FS_EmptySet
  <2>4. Cardinality(Queued(tickets)) \in Nat
    <3>1. Queued(tickets) \in SUBSET (1 .. nextSeq) /\ nextSeq \in Nat
      BY TypesLinks DEF TicketsOK, Queued
    <3>. QED
      BY <3>1, BoundedFinite
  <2>5. nextHold \in Nat /\ nextSeq \in Nat
    BY DEF IInv, TypeOK
  <2>. QED
    BY <2>3, <2>4, <2>5, BoundAssumption DEF GoInv, Room
<1>9. TicketOf(p) = 0
  BY <1>3 DEF Mirror
<1>. QED
  BY <1>1, <1>2, <1>5, <1>7, <1>8, <1>9 DEF MayRequest

LEMMA AllFit == IInv /\ HomeInv /\ GoInv => CallsFit
<1>. SUFFICES ASSUME IInv, HomeInv, GoInv, NEW h \in HomeIds, work[h] # << >>
              PROVE  Fits(work[h][1], h)
  BY DEF CallsFit
<1>1. PICK c : c = work[h][1]
  OBVIOUS
<1>2. c \in Todo(h) /\ c \in AnyCall
  BY <1>1, HomeFacts, Heads
<1>3. c.call \in Wakes /\ HomeOf[c.pid] = h /\ Current(c.pid, c.tid) => CanResume(c.pid)
  BY <1>2, WakeFits
<1>4. c.call = "expire" => \E p \in c.pids : CanCancel(p)
  <2>. SUFFICES ASSUME c.call = "expire" PROVE \E p \in c.pids : CanCancel(p)
    OBVIOUS
  <2>1. PICK p \in c.pids : p \in Pids
    BY <1>2, CallTypes
  <2>2. h \in homes /\ Owned(c, h)
    BY <1>1, OneHead DEF Wakes
  <2>3. HomeOf[p] = h
    BY <2>2 DEF Owned
  <2>. QED
    BY <2>1, <2>2, <2>3, HomeFacts, CancelFits DEF Fine
<1>5. c.call = "wait" => MayRequest(c.pid, c.req) /\ nextSeq < MaxSeq
  BY <1>1, WaitFits
<1>6. c.call \in {"collect", "unwind"} => CanResume(c.pid)
  <2>. SUFFICES ASSUME c.call \in {"collect", "unwind"} PROVE CanResume(c.pid)
    OBVIOUS
  <2>1. c.pid \in Pids /\ Business(c.pid) = {c} /\ Fine(c.pid)
    BY <1>1, AskedHead DEF Asked
  <2>2. Doing(c.pid, {"collect", "unwind"}) /\ Doing(c.pid, Asked \ {"wait"})
    BY <2>1 DEF Doing, Asked
  <2>3. ticket[c.pid] # 0 /\ Decided(ticket[c.pid]) /\ Mirror(c.pid)
    BY <2>1, <2>2 DEF Fine, Status
  <2>. QED
    BY <2>1, <2>3, ResumeFits
<1>7. c.call = "release" => CanRelease(c.pid, c.hold)
  BY <1>1, ReleaseFits
<1>8. c.call = "detach" => CanDetach(h)
  BY <1>1, DetachFits
<1>. QED
  BY <1>1, <1>3, <1>4, <1>5, <1>6, <1>7, <1>8 DEF Fits

-----------------------------------------------------------------------------
(* What the table hands out, and that a section that has begun has begun.  *)

\* The holds handed out and those that queued tickets may still get.
Spent == nextHold + Cardinality(Queued(tickets))

StartedStays == \A i \in DOMAIN holds : i \in DOMAIN holds' /\ holds[i].started => holds'[i].started

\* The operations that ask the table for nothing.
Frees ==
    \/ UNCHANGED vars \/ AttachHome \/ \E h \in homes : DetachHome(h)
    \/ \E p \in Pids : \/ Resume(p) \/ Cancel(p)
                       \/ \E i \in HoldIds(recs, p) : StartBody(p, i) \/ Release(p, i)
                       \/ \E abandon \in BOOLEAN : End(p, abandon)

LEMMA SpentFacts ==
    ASSUME IInv
    PROVE  /\ nextHold \in Nat /\ nextSeq \in Nat /\ Spent \in Nat
           /\ HoldsOK(holds, nextHold) /\ TicketsOK(tickets, nextSeq)
           /\ IsFiniteSet(Queued(tickets)) /\ Cardinality(Queued(tickets)) \in Nat
           /\ \A S \in SUBSET Queued(tickets) :
                IsFiniteSet(S) /\ Cardinality(S) \in Nat /\ Cardinality(S) <= Cardinality(Queued(tickets))
<1>1. nextHold \in Nat /\ nextSeq \in Nat /\ HoldsOK(holds, nextHold) /\ TicketsOK(tickets, nextSeq)
  BY DEF IInv, TypeOK
<1>2. IsFiniteSet(Queued(tickets)) /\ Cardinality(Queued(tickets)) \in Nat
  <2>1. Queued(tickets) \in SUBSET (1 .. nextSeq)
    BY <1>1 DEF TicketsOK, Queued
  <2>. QED
    BY <1>1, <2>1, BoundedFinite
<1>3. \A S \in SUBSET Queued(tickets) :
        IsFiniteSet(S) /\ Cardinality(S) \in Nat /\ Cardinality(S) <= Cardinality(Queued(tickets))
  BY <1>2, FS_Subset, FS_CardinalityType
<1>. QED
  BY <1>1, <1>2, <1>3 DEF Spent

\* A pass turns queued tickets into holds, one for one, and touches no hold.
LEMMA FinishSpends ==
    ASSUME nextHold \in Nat, HoldsOK(holds, nextHold), NEW n \in Nat, NEW R, NEW H, NEW T,
           NEW flags, NEW region, NEW seeds, \A i \in DOMAIN H : i \in DOMAIN holds /\ H[i] = holds[i],
           HoldsOK(H, nextHold), TicketsOK(T, n), Finish(R, H, T, flags, region, seeds)
    PROVE  /\ \A i \in DOMAIN holds : i \in DOMAIN holds' => holds'[i] = holds[i]
           /\ Spent' = nextHold + Cardinality(Queued(T))
<1>1. PICK G \in SUBSET Queued(T) :
        /\ holds' = AddGrants(H, T, flags, G) /\ tickets' = GrantTickets(T, G)
        /\ nextHold' = nextHold + Cardinality(G)
  BY DEF Finish
<1>2. Extends(holds', H, T, flags, G)
  <2>1. Extends(AddGrants(H, T, flags, G), H, T, flags, G)
    BY AddGrantsFacts
  <2>. QED
    BY <1>1, <2>1
<1>3. Queued(T) \in SUBSET (1 .. n) /\ G \in SUBSET (1 .. n) /\ Queued(T) \ G \in SUBSET (1 .. n)
  BY DEF TicketsOK, Queued
<1>4. \A t \in G : GrantId(G, t) \notin DOMAIN holds
  <2>1. \A t \in G : GrantId(G, t) \in nextHold + 1 .. nextHold + Cardinality(G)
    BY <1>3, GrantIdsFresh
  <2>2. Cardinality(G) \in Nat
    BY <1>3, BoundedFinite
  <2>. QED
    BY <2>1, <2>2 DEF HoldsOK
<1>5. \A i \in DOMAIN holds : i \in DOMAIN holds' => holds'[i] = holds[i]
  BY <1>2, <1>4 DEF Extends
<1>6. Queued(tickets') = Queued(T) \ G
  BY <1>1 DEF GrantTickets, Queued, TicketsOK, Ticket
<1>7. /\ IsFiniteSet(Queued(T)) /\ IsFiniteSet(G)
      /\ Cardinality(Queued(T)) \in Nat /\ Cardinality(G) \in Nat /\ Cardinality(Queued(T) \ G) \in Nat
  BY <1>3, BoundedFinite
<1>8. Cardinality(Queued(T) \ G) = Cardinality(Queued(T)) - Cardinality(G)
  <2>1. Cardinality(Queued(T) \ G) = Cardinality(Queued(T)) - Cardinality(Queued(T) \cap G)
    BY <1>7, FS_Difference
  <2>2. Queued(T) \cap G = G
    OBVIOUS
  <2>. QED
    BY <2>1, <2>2
<1>9. Spent' = nextHold' + Cardinality(Queued(tickets'))
  BY DEF Spent
<1>. QED
  BY <1>1, <1>5, <1>6, <1>7, <1>8, <1>9

LEMMA EndAllSpends ==
    ASSUME IInv, NEW E, NEW abandon, EndAll(E, abandon)
    PROVE  StartedStays /\ Spent' <= Spent /\ nextSeq' = nextSeq
<1>1. PICK H, T, R, flags, region, seeds :
        /\ Finish(R, H, T, flags, region, seeds) /\ nextSeq' = nextSeq
        /\ \E gone : H = [i \in DOMAIN holds \ gone |-> holds[i]]
        /\ \E own : T = [t \in DOMAIN tickets \ own |-> tickets[t]]
  BY DEF EndAll
<1>2. PICK gone, own : /\ H = [i \in DOMAIN holds \ gone |-> holds[i]]
                       /\ T = [t \in DOMAIN tickets \ own |-> tickets[t]]
  BY <1>1
<1>3. /\ nextHold \in Nat /\ nextSeq \in Nat /\ HoldsOK(holds, nextHold) /\ TicketsOK(tickets, nextSeq)
      /\ \A S \in SUBSET Queued(tickets) :
            Cardinality(S) \in Nat /\ Cardinality(S) <= Cardinality(Queued(tickets))
      /\ Cardinality(Queued(tickets)) \in Nat
  BY SpentFacts
<1>4. HoldsOK(H, nextHold) /\ TicketsOK(T, nextSeq) /\ \A i \in DOMAIN H : i \in DOMAIN holds /\ H[i] = holds[i]
  BY <1>2, <1>3 DEF HoldsOK, TicketsOK
<1>5. /\ \A i \in DOMAIN holds : i \in DOMAIN holds' => holds'[i] = holds[i]
      /\ Spent' = nextHold + Cardinality(Queued(T))
  BY <1>1, <1>3, <1>4, FinishSpends
<1>6. Queued(T) \in SUBSET Queued(tickets)
  BY <1>2 DEF Queued
<1>7. Cardinality(Queued(T)) \in Nat /\ Cardinality(Queued(T)) <= Cardinality(Queued(tickets))
  BY <1>3, <1>6
<1>. QED
  BY <1>1, <1>3, <1>5, <1>7 DEF StartedStays, Spent

LEMMA FreesSpend ==
    ASSUME IInv, Frees
    PROVE  StartedStays /\ Spent' <= Spent /\ nextSeq' = nextSeq
<1>1. /\ nextHold \in Nat /\ nextSeq \in Nat /\ HoldsOK(holds, nextHold) /\ TicketsOK(tickets, nextSeq)
      /\ \A S \in SUBSET Queued(tickets) :
            Cardinality(S) \in Nat /\ Cardinality(S) <= Cardinality(Queued(tickets))
      /\ Spent \in Nat /\ Cardinality(Queued(tickets)) \in Nat
  BY SpentFacts
<1>2. ASSUME holds' = holds, nextHold' = nextHold, nextSeq' = nextSeq, Queued(tickets') = Queued(tickets)
      PROVE  StartedStays /\ Spent' <= Spent /\ nextSeq' = nextSeq
  BY <1>1, <1>2 DEF StartedStays, Spent
<1>3. CASE UNCHANGED vars \/ AttachHome
  BY <1>2, <1>3 DEF vars, counters, AttachHome
<1>4. ASSUME NEW h \in homes, DetachHome(h)
      PROVE  StartedStays /\ Spent' <= Spent /\ nextSeq' = nextSeq
  BY <1>4, EndAllSpends DEF DetachHome
<1>5. ASSUME NEW p \in Pids, Resume(p)
      PROVE  StartedStays /\ Spent' <= Spent /\ nextSeq' = nextSeq
  <2>1. PICK t : t = TicketOf(p)
    OBVIOUS
  <2>2. tickets[t].state # "queued" /\ tickets' = [u \in DOMAIN tickets \ {t} |-> tickets[u]]
    BY <1>5, <2>1 DEF Resume
  <2>3. Queued(tickets') = Queued(tickets)
    BY <2>2 DEF Queued
  <2>. QED
    BY <1>2, <1>5, <2>3 DEF Resume, counters
<1>6. ASSUME NEW p \in Pids, Cancel(p)
      PROVE  StartedStays /\ Spent' <= Spent /\ nextSeq' = nextSeq
  <2>1. PICK t, T : t = TicketOf(p) /\ T = [tickets EXCEPT ![t].state = "cancelled"]
    OBVIOUS
  <2>2. t \in Queued(tickets) /\ Finish(recs, holds, T, abandoned, tickets[t].keys, {p}) /\ nextSeq' = nextSeq
    BY <1>6, <2>1 DEF Cancel
  <2>3. TicketsOK(T, nextSeq)
    BY <1>1, <2>1, <2>2 DEF TicketsOK, Ticket, Queued
  <2>4. \A i \in DOMAIN holds : i \in DOMAIN holds /\ holds[i] = holds[i]
    OBVIOUS
  <2>5. /\ \A i \in DOMAIN holds : i \in DOMAIN holds' => holds'[i] = holds[i]
        /\ Spent' = nextHold + Cardinality(Queued(T))
    BY <1>1, <2>2, <2>3, <2>4, FinishSpends
  <2>6. Queued(T) \in SUBSET Queued(tickets)
    BY <1>1, <2>1, <2>2 DEF Queued, TicketsOK, Ticket
  <2>7. Cardinality(Queued(T)) \in Nat /\ Cardinality(Queued(T)) <= Cardinality(Queued(tickets))
    BY <1>1, <2>6
  <2>. QED
    BY <1>1, <2>2, <2>5, <2>7 DEF StartedStays, Spent
<1>7. ASSUME NEW p \in Pids, NEW i \in HoldIds(recs, p), StartBody(p, i)
      PROVE  StartedStays /\ Spent' <= Spent /\ nextSeq' = nextSeq
  <2>1. holds' = [holds EXCEPT ![i].started = TRUE] /\ nextHold' = nextHold /\ nextSeq' = nextSeq
        /\ tickets' = tickets
    BY <1>7 DEF StartBody, counters
  <2>2. StartedStays
    BY <1>1, <2>1 DEF StartedStays, HoldsOK, Hold
  <2>. QED
    BY <1>1, <2>1, <2>2 DEF Spent
<1>8. ASSUME NEW p \in Pids, NEW i \in HoldIds(recs, p), Release(p, i)
      PROVE  StartedStays /\ Spent' <= Spent /\ nextSeq' = nextSeq
  <2>1. PICK H, R, flags, region :
          /\ H = [j \in DOMAIN holds \ {i} |-> holds[j]] /\ nextSeq' = nextSeq
          /\ Finish(R, H, tickets, flags, region, {p})
    BY <1>8 DEF Release
  <2>2. HoldsOK(H, nextHold) /\ \A j \in DOMAIN H : j \in DOMAIN holds /\ H[j] = holds[j]
    BY <1>1, <2>1 DEF HoldsOK
  <2>3. /\ \A j \in DOMAIN holds : j \in DOMAIN holds' => holds'[j] = holds[j]
        /\ Spent' = nextHold + Cardinality(Queued(tickets))
    BY <1>1, <2>1, <2>2, FinishSpends
  <2>. QED
    BY <1>1, <2>1, <2>3 DEF StartedStays, Spent
<1>9. ASSUME NEW p \in Pids, NEW abandon \in BOOLEAN, End(p, abandon)
      PROVE  StartedStays /\ Spent' <= Spent /\ nextSeq' = nextSeq
  BY <1>9, EndAllSpends DEF End
<1>. QED
  BY <1>3, <1>4, <1>5, <1>6, <1>7, <1>8, <1>9 DEF Frees

\* A hold is granted under a new id.
LEMMA GrantStarts ==
    ASSUME IInv, NEW p, NEW r, NEW b, Grant(p, r, b)
    PROVE  /\ StartedStays /\ nextHold' = nextHold + 1
           /\ nextHold + 1 \in DOMAIN holds' /\ holds'[nextHold + 1].started = b
<1>1. PICK hold : /\ hold.started = b
                  /\ holds' = [i \in DOMAIN holds \cup {nextHold + 1} |->
                                  IF i = nextHold + 1 THEN hold ELSE holds[i]]
  BY DEF Grant, NewHold
<1>2. nextHold + 1 \notin DOMAIN holds
  BY SpentFacts DEF HoldsOK
<1>. QED
  BY <1>1, <1>2 DEF StartedStays, Grant

LEMMA TryAcquireSpends ==
    ASSUME IInv, NEW p, NEW r, TryAcquire(p, r)
    PROVE  /\ StartedStays /\ Spent' = Spent + 1 /\ nextSeq' = nextSeq
           /\ nextHold + 1 \in DOMAIN holds' /\ holds'[nextHold + 1].started
<1>1. Grant(p, r, TRUE) /\ tickets' = tickets /\ nextSeq' = nextSeq
  BY DEF TryAcquire
<1>2. /\ StartedStays /\ nextHold' = nextHold + 1
      /\ nextHold + 1 \in DOMAIN holds' /\ holds'[nextHold + 1].started
  BY <1>1, GrantStarts
<1>3. nextHold \in Nat /\ Cardinality(Queued(tickets)) \in Nat
  BY SpentFacts
<1>. QED
  BY <1>1, <1>2, <1>3 DEF Spent

LEMMA BlockSpends ==
    ASSUME IInv, NEW p, NEW r, Block(p, r)
    PROVE  StartedStays /\ Spent' <= Spent + 1 /\ nextSeq' = nextSeq + 1
<1>1. PICK state, hold : AddTicket(p, r, state, hold) /\ (Grantable(p, r, SeqInf) => state = "granted")
  BY DEF Block, BlockGranted, BlockBusy
<1>2. /\ nextSeq' = nextSeq + 1
      /\ tickets' = [t \in DOMAIN tickets \cup {nextSeq + 1} |->
            IF t = nextSeq + 1
              THEN [pid |-> p, mode |-> r.mode, keys |-> r.keys, state |-> state, hold |-> hold]
              ELSE tickets[t]]
  BY <1>1 DEF AddTicket
<1>3. /\ nextHold \in Nat /\ nextSeq \in Nat /\ TicketsOK(tickets, nextSeq)
      /\ IsFiniteSet(Queued(tickets)) /\ Cardinality(Queued(tickets)) \in Nat
  BY SpentFacts
<1>4. nextSeq + 1 \notin DOMAIN tickets
  BY <1>3 DEF TicketsOK
<1>5. Queued(tickets') \subseteq Queued(tickets) \cup {nextSeq + 1}
  BY <1>2 DEF Queued
<1>6. CASE BlockGranted(p, r)
  <2>1. nextHold' = nextHold + 1 /\ StartedStays
    BY <1>6, GrantStarts DEF BlockGranted
  <2>2. Queued(tickets') = Queued(tickets)
    <3>1. state = "granted"
      BY <1>1, <1>6 DEF BlockGranted
    <3>. QED
      BY <1>2, <1>4, <3>1 DEF Queued
  <2>. QED
    BY <1>2, <1>3, <2>1, <2>2 DEF Spent
<1>7. CASE BlockBusy(p, r)
  <2>1. nextHold' = nextHold /\ StartedStays
    BY <1>7 DEF BlockBusy, StartedStays
  <2>2. PICK Q : Q = Queued(tickets) \cup {nextSeq + 1}
    OBVIOUS
  <2>3. IsFiniteSet(Q) /\ Cardinality(Q) = Cardinality(Queued(tickets)) + 1
    <3>1. nextSeq + 1 \notin Queued(tickets)
      BY <1>4 DEF Queued
    <3>. QED
      BY <1>3, <2>2, <3>1, FS_AddElement
  <2>4. Cardinality(Queued(tickets')) <= Cardinality(Q) /\ Cardinality(Queued(tickets')) \in Nat
    BY <1>5, <2>2, <2>3, FS_Subset, FS_CardinalityType
  <2>. QED
    BY <1>2, <1>3, <2>1, <2>3, <2>4 DEF Spent
<1>. QED
  BY <1>6, <1>7 DEF Block

-----------------------------------------------------------------------------
(* Steps of the homes, by what they ask for.                               *)

\* A step of home h, and of its processes alone.
ActOf(h) ==
    /\ \A g \in HomeIds \ {h} : Todo(g)' = Todo(g)
    /\ \A p \in Pids : HomeOf[p] # h => mirror'[p] = mirror[p] /\ frames'[p] = frames[p]

\* The bodies that run in p ran before.
OldBodies(p) ==
    \A n \in 1 .. Len(frames'[p]) : frames'[p][n].body =>
        n \in 1 .. Len(frames[p]) /\ frames[p][n].body /\ frames[p][n].hold = frames'[p][n].hold

\* A step of home h that begins no section and asks the table for none.
Plain(h) ==
    /\ ActOf(h) /\ homes' \subseteq homes
    /\ \A c \in Todo(h)' : c.call # "wait"
    /\ \A p \in Pids : HomeOf[p] = h /\ h \in homes => OldBodies(p)

LEMMA OldSame ==
    ASSUME NEW p, frames'[p] = frames[p] \/ frames'[p] = << >>
    PROVE  OldBodies(p)
<1>1. CASE frames'[p] = frames[p]
  BY <1>1 DEF OldBodies
<1>2. CASE frames'[p] = << >>
  BY <1>2 DEF OldBodies
<1>. QED
  BY <1>1, <1>2

LEMMA OldOuter ==
    ASSUME NEW p, frames[p] \in Seq(OneFrame), frames[p] # << >>, frames'[p] = Outer(frames[p])
    PROVE  OldBodies(p)
<1>1. PICK f, m : f = frames[p] /\ m = Len(f)
  OBVIOUS
<1>2. m \in Nat \ {0} /\ Len(Outer(f)) = m - 1 /\ \A n \in 1 .. m - 1 : Outer(f)[n] = f[n]
  BY <1>1, OuterFacts
<1>3. \A n \in 1 .. m - 1 : n \in 1 .. m
  BY <1>2
<1>. QED
  BY <1>1, <1>2, <1>3 DEF OldBodies

\* Calls that hold no wait put before the rest of a row leave none.
LEMMA ThenPlain ==
    ASSUME IInv, HomeInv, NEW h \in HomeIds, work[h] # << >>,
           NEW s \in Seq(AnyCall), \A c \in Range(s) : c.call # "wait", Then(h, s)
    PROVE  /\ \A c \in Todo(h)' : c.call # "wait"
           /\ \A g \in HomeIds \ {h} : Todo(g)' = Todo(g)
<1>1. PICK w, u : w = work[h] /\ u = Tail(w)
  OBVIOUS
<1>2. work \in [HomeIds -> Seq(AnyCall)] /\ w \in Seq(AnyCall) /\ w # << >>
  BY <1>1 DEF HomeInv, Typed
<1>3. /\ u \in Seq(AnyCall) /\ Len(u) = Len(w) - 1 /\ Len(w) \in Nat \ {0}
      /\ \A n \in 1 .. Len(u) : u[n] = w[n + 1]
  <2>1. Len(w) \in Nat \ {0}
    BY <1>2, EmptySeq
  <2>2. u \in Seq(AnyCall) /\ Len(u) = Len(w) - 1 /\ \A n \in 1 .. Len(u) : u[n] = w[n + 1]
    BY <1>1, <1>2, HeadTailProperties
  <2>. QED
    BY <2>1, <2>2
<1>4. \A c \in Range(u) : c.call # "wait"
  <2>. SUFFICES ASSUME NEW n \in 1 .. Len(u) PROVE u[n].call # "wait"
    BY <1>3, RangeFacts
  <2>1. Row(w, h)
    BY <1>1 DEF HomeInv, Shapes, Shape
  <2>2. n + 1 \in 1 .. Len(w) /\ Len(w) # 1
    BY <1>3
  <2>3. w[n + 1].call \notin Lone
    BY <2>1, <2>2 DEF Row
  <2>. QED
    BY <1>3, <2>3 DEF Lone
<1>5. work' = [work EXCEPT ![h] = s \o u]
  BY <1>1, <1>2 DEF Then
<1>6. work'[h] = s \o u /\ \A g \in HomeIds \ {h} : work'[g] = work[g]
  BY <1>2, <1>5
<1>7. Todo(h)' = Range(s) \cup Range(u)
  <2>1. Range(s \o u) = Range(s) \cup Range(u)
    BY <1>3, RangeConcatenation
  <2>. QED
    BY <1>6, <2>1 DEF Todo
<1>. QED
  BY <1>4, <1>6, <1>7 DEF Todo

\* The notes of an operation of a home hold no wait, nor does a call after them.
LEMMA NotesPlain ==
    ASSUME IInv, HomeInv
    PROVE  /\ Notes \in Seq(AnyCall) /\ \A c \in Range(Notes) : c.call # "wait"
           /\ \A s \in Seq(AnyCall) : /\ Notes \o s \in Seq(AnyCall)
                                      /\ Range(Notes \o s) = Range(Notes) \cup Range(s)
<1>1. Notes \in Seq(Wake) /\ \A c \in Range(Notes) : c.call = "note"
  BY NotesFacts DEF HomeInv
<1>2. Notes \in Seq(AnyCall)
  BY <1>1, WakesAreCalls, SeqMonotonic
<1>3. \A s \in Seq(AnyCall) : /\ Notes \o s \in Seq(AnyCall)
                              /\ Range(Notes \o s) = Range(Notes) \cup Range(s)
  BY <1>2, ConcatProperties, RangeConcatenation
<1>. QED
  BY <1>1, <1>2, <1>3

\* What a home's thread does next when it is idle.
LEMMA IdlePlain ==
    ASSUME IInv, HomeInv, NEW h \in HomeIds, NEW s \in Seq(AnyCall), \A c \in Range(s) : c.call # "wait",
           work' = [work EXCEPT ![h] = s]
    PROVE  /\ \A c \in Todo(h)' : c.call # "wait"
           /\ \A g \in HomeIds \ {h} : Todo(g)' = Todo(g)
<1>1. work \in [HomeIds -> Seq(AnyCall)]
  BY DEF HomeInv, Typed
<1>2. work'[h] = s /\ \A g \in HomeIds \ {h} : work'[g] = work[g]
  BY <1>1
<1>. QED
  BY <1>2 DEF Todo

LEMMA BetweenPlain ==
    ASSUME IInv, HomeInv, IInv', HomeInv', NEW h \in HomeIds, DrainPort(h) \/ WakeDue(h) \/ Destroy(h)
    PROVE  Plain(h) /\ UNCHANGED vars
<1>1. UNCHANGED vars /\ mirror' = mirror /\ frames' = frames /\ homes' = homes
  BY DEF DrainPort, WakeDue, Destroy, table, vars
<1>2. \A p \in Pids : OldBodies(p)
  BY <1>1, OldSame
<1>3. PICK s : s = work'[h]
  OBVIOUS
<1>4. s \in Seq(AnyCall) /\ Todo(h)' = Range(s) /\ work' = [work EXCEPT ![h] = s]
  <2>1. work \in [HomeIds -> Seq(AnyCall)] /\ work' \in [HomeIds -> Seq(AnyCall)]
    BY DEF HomeInv, Typed
  <2>2. \E x : work' = [work EXCEPT ![h] = x]
    BY DEF DrainPort, WakeDue, Destroy
  <2>. QED
    BY <1>3, <2>1, <2>2 DEF Todo
<1>5. \A c \in Range(s) : c.call # "wait"
  <2>1. CASE DrainPort(h)
    <3>1. s = port[h].posts
      BY <1>3, <2>1 DEF DrainPort, HomeInv, Typed
    <3>2. \A c \in Posts(h) : c.call = "wake"
      BY DEF HomeInv, Shapes, Shape
    <3>. QED
      BY <3>1, <3>2 DEF Posts
  <2>2. CASE WakeDue(h) \/ Destroy(h)
    <3>1. \E c : s = <<c>> /\ c.call \in {"expire", "detach"}
      BY <1>3, <2>2 DEF WakeDue, Destroy, HomeInv, Typed
    <3>. QED
      BY <3>1, RangeFacts
  <2>. QED
    BY <2>1, <2>2
<1>6. /\ \A c \in Todo(h)' : c.call # "wait"
      /\ \A g \in HomeIds \ {h} : Todo(g)' = Todo(g)
  BY <1>4, <1>5, IdlePlain
<1>. QED
  BY <1>1, <1>2, <1>6 DEF Plain, ActOf

\* A collected outcome begins no section.
LEMMA CollectOld ==
    ASSUME IInv, HomeInv, NEW p \in Pids, HomeOf[p] \in homes, Asks(p), Collect(p)
    PROVE  OldBodies(p) /\ \A q \in Pids \ {p} : mirror'[q] = mirror[q] /\ frames'[q] = frames[q]
<1>1. /\ TypedAt(p) /\ Fine(p) /\ DOMAIN frames = Pids /\ DOMAIN mirror = Pids
  BY HomeFacts
<1>2. PICK f, m : f = frames[p] /\ m = Len(f)
  OBVIOUS
<1>3. /\ f # << >> /\ ~f[m].body /\ m \in Nat \ {0} /\ f \in Seq(OneFrame)
  BY <1>1, <1>2, FineAsks DEF Top
<1>4. \/ frames' = [frames EXCEPT ![p] = Outer(@)]
      \/ \E i : frames' = [frames EXCEPT ![p][Len(frames[p])].hold = i]
  BY DEF Collect
<1>5. \A q \in Pids \ {p} : mirror'[q] = mirror[q] /\ frames'[q] = frames[q]
  <2>1. mirror' = mirror \/ \E i, h : mirror' = Mirrored(p, i, h)
    BY DEF Collect
  <2>. QED
    BY <1>1, <1>4, <2>1 DEF Mirrored
<1>6. CASE frames' = [frames EXCEPT ![p] = Outer(@)]
  BY <1>1, <1>2, <1>3, <1>5, <1>6, OldOuter
<1>7. CASE \E i : frames' = [frames EXCEPT ![p][Len(frames[p])].hold = i]
  <2>1. PICK i : frames' = [frames EXCEPT ![p][m].hold = i]
    BY <1>2, <1>7
  <2>2. frames'[p] = [f EXCEPT ![m].hold = i]
    BY <1>1, <1>2, <2>1
  <2>3. DOMAIN f = 1 .. m /\ \A n \in 1 .. m : f[n] \in OneFrame
    BY <1>2, <1>3, LenProperties, ElementOfSeq
  <2>4. m \in 1 .. m /\ f[m] \in OneFrame
    BY <1>3, <2>3
  <2>5. /\ DOMAIN [f EXCEPT ![m].hold = i] = 1 .. m
        /\ [f EXCEPT ![m].hold = i][m].body = f[m].body
        /\ \A n \in 1 .. m : n # m => [f EXCEPT ![m].hold = i][n] = f[n]
    BY <2>3, <2>4 DEF OneFrame
  <2>6. Len(frames'[p]) = m
    <3>1. PICK e, S : e = [f EXCEPT ![m].hold = i] /\ S = {e[n] : n \in 1 .. m}
      OBVIOUS
    <3>2. e \in [1 .. m -> S]
      BY <2>3, <3>1
    <3>3. e \in Seq(S) /\ Len(e) = m
      BY <1>3, <3>2, SeqDef, LenProperties
    <3>. QED
      BY <2>2, <3>1, <3>3
  <2>. QED
    BY <1>2, <1>3, <1>5, <2>2, <2>5, <2>6 DEF OldBodies
<1>. QED
  BY <1>4, <1>5, <1>6, <1>7

LEMMA ApplyOld ==
    ASSUME IInv, HomeInv, NEW p \in Pids, NEW t, ApplyWake(p, t)
    PROVE  /\ HomeOf[p] \in homes => OldBodies(p)
           /\ \A q \in Pids \ {p} : mirror'[q] = mirror[q] /\ frames'[q] = frames[q]
<1>1. CASE Current(p, t) /\ Collect(p)
  <2>1. HomeOf[p] \in homes
    <3>1. HomeOf[p] \notin homes => TicketOf(p) = 0
      BY Strangers
    <3>. QED
      BY <1>1, <3>1 DEF Collect, Resume
  <2>. QED
    BY <1>1, <2>1, CollectOld DEF Current, Asks
<1>2. CASE UNCHANGED <<table, mirror, ticket, waiting, frames>>
  BY <1>2, OldSame
<1>. QED
  BY <1>1, <1>2 DEF ApplyWake

\* The calls a home's thread is left with hold no wait, whichever it makes.
LEMMA RunCalls ==
    ASSUME IInv, HomeInv, NEW h \in HomeIds, Run(h)
    PROVE  /\ work[h] # << >>
           /\ \E s \in Seq(AnyCall) : Then(h, s) /\ \A c \in Range(s) : c.call # "wait"
<1>1. work[h] # << >>
  BY DEF Run, RunNote, RunWake, RunExpire, RunWait, RunPark, RunCollect, RunThrow, RunUnwind,
         RunRelease, RunDetach, RunDiscard, Calls
<1>2. PICK c : c = work[h][1]
  OBVIOUS
<1>3. c \in AnyCall
  BY <1>1, <1>2, HomeFacts, Heads
<1>4. << >> \in Seq(AnyCall) /\ \A d \in Range(<< >>) : d.call # "wait"
  BY EmptySeq, RangeFacts
<1>5. \A d \in AnyCall : d.call # "wait" =>
        <<d>> \in Seq(AnyCall) /\ \A e \in Range(<<d>>) : e.call # "wait"
  <2>1. \A d \in AnyCall : <<d>> \in Seq(AnyCall) /\ Range(<<d>>) = {d}
    BY OneAfter
  <2>. QED
    BY <2>1
<1>6. /\ Notes \in Seq(AnyCall) /\ \A d \in Range(Notes) : d.call # "wait"
      /\ \A s \in Seq(AnyCall) : /\ Notes \o s \in Seq(AnyCall)
                                 /\ Range(Notes \o s) = Range(Notes) \cup Range(s)
  BY NotesPlain
<1>7. CASE Then(h, << >>)
  BY <1>1, <1>4, <1>7
<1>8. CASE RunNote(h) \/ RunWake(h) \/ RunPark(h) \/ RunCollect(h) \/ RunDiscard(h)
  BY <1>7, <1>8 DEF RunNote, RunWake, RunPark, RunCollect, RunDiscard
<1>9. CASE RunWait(h)
  <2>1. PICK d : /\ Then(h, <<d>>)
                 /\ d = [call |-> IF nextSeq' \in Queued(tickets') THEN "park" ELSE "collect",
                         pid |-> c.pid]
    BY <1>2, <1>9 DEF RunWait
  <2>2. c.pid \in Pids
    BY <1>2, <1>3, <1>9, CallTypes DEF RunWait, Calls, Asked
  <2>3. d \in AnyCall /\ d.call # "wait"
    BY <2>1, <2>2 DEF AnyCall
  <2>. QED
    BY <1>1, <1>5, <2>1, <2>3
<1>10. CASE RunThrow(h)
  <2>1. PICK d : d = [call |-> "unwind", pid |-> c.pid] /\ Then(h, Notes \o <<d>>)
    BY <1>2, <1>10 DEF RunThrow
  <2>2. c.pid \in Pids
    BY <1>2, <1>3, <1>10, CallTypes DEF RunThrow, Calls, Asked
  <2>3. d \in AnyCall /\ d.call # "wait"
    BY <2>1, <2>2 DEF AnyCall
  <2>4. <<d>> \in Seq(AnyCall) /\ \A e \in Range(<<d>>) : e.call # "wait"
    BY <1>5, <2>3
  <2>5. Notes \o <<d>> \in Seq(AnyCall) /\ \A e \in Range(Notes \o <<d>>) : e.call # "wait"
    BY <1>6, <2>4
  <2>. QED
    BY <1>1, <2>1, <2>5
<1>11. CASE RunDetach(h)
  <2>1. PICK d : d = [call |-> "discard"] /\ Then(h, Notes \o <<d>>)
    BY <1>11 DEF RunDetach
  <2>2. d \in AnyCall /\ d.call # "wait"
    BY <2>1 DEF AnyCall
  <2>3. <<d>> \in Seq(AnyCall) /\ \A e \in Range(<<d>>) : e.call # "wait"
    BY <1>5, <2>2
  <2>4. Notes \o <<d>> \in Seq(AnyCall) /\ \A e \in Range(Notes \o <<d>>) : e.call # "wait"
    BY <1>6, <2>3
  <2>. QED
    BY <1>1, <2>1, <2>4
<1>12. CASE RunRelease(h)
  BY <1>1, <1>6, <1>12 DEF RunRelease
<1>13. CASE RunUnwind(h)
  <2>1. PICK s : /\ Then(h, s)
                 /\ \/ s = << >>
                    \/ /\ tickets[TicketOf(c.pid)].state = "granted"
                       /\ s = <<[call |-> "release", pid |-> c.pid,
                                 hold |-> tickets[TicketOf(c.pid)].hold]>>
    BY <1>2, <1>13 DEF RunUnwind
  <2>2. CASE s = << >>
    BY <1>7, <2>1, <2>2
  <2>3. CASE s # << >>
    <3>1. PICK d : /\ s = <<d>>
                   /\ d = [call |-> "release", pid |-> c.pid, hold |-> tickets[TicketOf(c.pid)].hold]
      BY <2>1, <2>3
    <3>2. c.pid \in Pids
      BY <1>2, <1>3, <1>13, CallTypes DEF RunUnwind, Calls, Asked
    <3>3. tickets[TicketOf(c.pid)].hold \in Nat
      <4>1. TicketOf(c.pid) # 0
        BY <1>2, <1>13 DEF RunUnwind, Resume
      <4>. QED
        BY <4>1, TypesLinks DEF TicketRead, TicketsOK, Ticket
    <3>4. d \in AnyCall /\ d.call # "wait"
      BY <3>1, <3>2, <3>3 DEF AnyCall
    <3>. QED
      BY <1>1, <1>5, <2>1, <3>1, <3>4
  <2>. QED
    BY <2>2, <2>3
<1>14. CASE RunExpire(h)
  <2>1. PICK p, others, rest, wake :
          /\ p \in c.pids /\ others = c.pids \ {p}
          /\ rest = (IF others = {} THEN << >> ELSE <<[call |-> "expire", pids |-> others]>>)
          /\ wake = [call |-> "wake", pid |-> p, tid |-> ticket[p]]
          /\ \/ p \notin waiting /\ Then(h, rest)
             \/ p \in waiting /\ Then(h, Notes \o <<wake>> \o rest)
    BY <1>2, <1>14 DEF RunExpire
  <2>2. h \in homes /\ c.pids \subseteq Pids /\ \A q \in c.pids : HomeOf[q] = h
    <3>1. c.call = "expire"
      BY <1>2, <1>14 DEF RunExpire, Calls
    <3>2. h \in homes /\ Owned(c, h)
      BY <1>1, <1>2, <3>1, OneHead DEF Wakes
    <3>. QED
      BY <1>3, <3>1, <3>2, CallTypes DEF Owned
  <2>3. rest \in Seq(AnyCall) /\ \A d \in Range(rest) : d.call # "wait"
    BY <2>1, <2>2, ExpireRest
  <2>4. CASE p \notin waiting /\ Then(h, rest)
    BY <1>1, <2>3, <2>4
  <2>5. CASE p \in waiting /\ Then(h, Notes \o <<wake>> \o rest)
    <3>1. Fine(p) /\ p \in Pids
      BY <2>1, <2>2, HomeFacts
    <3>2. ticket[p] \in 1 .. MaxSeq
      <4>1. ticket[p] # 0 /\ ticket[p] = TicketOf(p)
        BY <2>5, <3>1 DEF Fine, Status, Mirror
      <4>2. ticket[p] \in 1 .. nextSeq /\ nextSeq \in Nat
        BY <4>1, TypesLinks DEF TicketRead, TicketsOK
      <4>. QED
        BY <4>2, BoundAssumption DEF HomeInv, Bounds
    <3>3. wake \in AnyCall /\ wake.call # "wait"
      BY <2>1, <3>1, <3>2 DEF AnyCall, Wake
    <3>4. <<wake>> \in Seq(AnyCall) /\ Range(<<wake>>) = {wake}
      BY <3>3, RangeFacts
    <3>5. PICK s : s = Notes \o <<wake>>
      OBVIOUS
    <3>6. s \in Seq(AnyCall) /\ \A d \in Range(s) : d.call # "wait"
      BY <1>6, <3>3, <3>4, <3>5
    <3>7. s \o rest \in Seq(AnyCall) /\ Range(s \o rest) = Range(s) \cup Range(rest)
      BY <2>3, <3>6, ConcatProperties, RangeConcatenation
    <3>8. Then(h, s \o rest)
      BY <2>5, <3>5
    <3>. QED
      BY <1>1, <2>3, <3>6, <3>7, <3>8
  <2>. QED
    BY <2>1, <2>4, <2>5
<1>. QED
  BY <1>8, <1>9, <1>10, <1>11, <1>12, <1>13, <1>14 DEF Run

LEMMA RunPlain ==
    ASSUME IInv, HomeInv, NEW h \in HomeIds, Run(h)
    PROVE  Plain(h)
<1>1. /\ work[h] # << >> /\ \A c \in Todo(h)' : c.call # "wait"
      /\ \A g \in HomeIds \ {h} : Todo(g)' = Todo(g)
  BY RunCalls, ThenPlain
<1>2. DOMAIN mirror = Pids /\ DOMAIN frames = Pids
  BY HomeFacts
<1>3. PICK c : c = work[h][1]
  OBVIOUS
<1>4. c \in AnyCall /\ c \in Todo(h)
  BY <1>1, <1>3, HomeFacts, Heads
<1>5. homes' \subseteq homes
  <2>1. [Next]_vars
    <3>1. HNext
      BY DEF HNext
    <3>. QED
      BY <3>1, TableCalls DEF IInv, HomeInv
  <2>2. ~AttachHome \/ homes' \subseteq homes
    BY DEF Run, RunNote, RunWake, RunExpire, RunWait, RunPark, RunCollect, RunThrow, RunUnwind,
           RunRelease, RunDetach, RunDiscard, ApplyWake, Collect, CancelTicket, Resume, Cancel,
           Block, Release, DetachHome, table, vars
  <2>. QED
    BY <2>1, <2>2 DEF Next, DetachHome, TryAcquire, Block, Resume, Cancel, StartBody, Release, End, vars
<1>6. CASE frames' = frames /\ mirror' = mirror
  BY <1>1, <1>5, <1>6, OldSame DEF Plain, ActOf
<1>7. CASE RunNote(h) \/ RunWake(h)
  <2>1. c.pid \in Pids
    BY <1>3, <1>4, <1>7, CallTypes DEF RunNote, RunWake, Calls, Wakes
  <2>2. CASE HomeOf[c.pid] = h /\ ApplyWake(c.pid, c.tid)
    <3>1. PICK p, t : p = c.pid /\ t = c.tid
      OBVIOUS
    <3>2. /\ HomeOf[p] \in homes => OldBodies(p)
          /\ \A q \in Pids \ {p} : mirror'[q] = mirror[q] /\ frames'[q] = frames[q]
      BY <2>1, <2>2, <3>1, ApplyOld
    <3>3. \A q \in Pids : HomeOf[q] = h /\ h \in homes => OldBodies(q)
      BY <2>2, <3>1, <3>2, OldSame
    <3>4. \A q \in Pids : HomeOf[q] # h => mirror'[q] = mirror[q] /\ frames'[q] = frames[q]
      BY <2>2, <3>1, <3>2
    <3>. QED
      BY <1>1, <1>5, <3>3, <3>4 DEF Plain, ActOf
  <2>3. \/ HomeOf[c.pid] = h /\ ApplyWake(c.pid, c.tid)
        \/ frames' = frames /\ mirror' = mirror
    <3>1. CASE RunNote(h)
      BY <1>3, <3>1 DEF RunNote
    <3>2. CASE RunWake(h)
      <4>1. HomeOf[c.pid] = h
        <5>1. Row(work[h], h) /\ 1 \in 1 .. Len(work[h])
          BY <1>1, HomeFacts, Heads DEF Shapes, Shape
        <5>. QED
          BY <1>3, <3>2, <5>1 DEF Row, Owned, RunWake, Calls
      <4>. QED
        BY <1>3, <3>2, <4>1 DEF RunWake
    <3>. QED
      BY <1>7, <3>1, <3>2
  <2>. QED
    BY <1>6, <2>2, <2>3
<1>8. CASE RunExpire(h) \/ RunWait(h) \/ RunPark(h) \/ RunThrow(h) \/ RunRelease(h)
  BY <1>6, <1>8 DEF RunExpire, RunWait, RunPark, RunThrow, RunRelease
<1>9. CASE RunCollect(h) \/ RunUnwind(h)
  <2>1. PICK p : p = c.pid
    OBVIOUS
  <2>2. /\ c.call \in {"collect", "unwind"} /\ c.call \in Asked
    BY <1>3, <1>9 DEF RunCollect, RunUnwind, Calls, Asked
  <2>3. p \in Pids /\ HomeOf[p] = h /\ h \in homes /\ Asks(p) /\ Fine(p) /\ TypedAt(p)
    BY <1>1, <1>3, <2>1, <2>2, AskedHead
  <2>4. OldBodies(p) /\ \A q \in Pids \ {p} : mirror'[q] = mirror[q] /\ frames'[q] = frames[q]
    <3>1. CASE RunCollect(h)
      BY <1>3, <2>1, <2>3, <3>1, CollectOld DEF RunCollect
    <3>2. CASE RunUnwind(h)
      <4>1. mirror' = mirror /\ frames' = [frames EXCEPT ![p] = Outer(@)]
        BY <1>3, <2>1, <3>2 DEF RunUnwind
      <4>2. frames[p] # << >> /\ frames[p] \in Seq(OneFrame)
        BY <2>3, FineAsks
      <4>. QED
        BY <1>2, <2>3, <4>1, <4>2, OldOuter
    <3>. QED
      BY <1>9, <3>1, <3>2
  <2>5. \A q \in Pids : HomeOf[q] = h /\ h \in homes => OldBodies(q)
    BY <2>4, OldSame
  <2>6. \A q \in Pids : HomeOf[q] # h => mirror'[q] = mirror[q] /\ frames'[q] = frames[q]
    BY <2>3, <2>4
  <2>. QED
    BY <1>1, <1>5, <2>5, <2>6 DEF Plain, ActOf
<1>10. CASE RunDetach(h) \/ RunDiscard(h)
  <2>1. \A q \in Pids : frames'[q] = frames[q] \/ frames'[q] = << >>
    BY <1>10 DEF RunDetach, RunDiscard
  <2>2. \A q \in Pids : OldBodies(q)
    BY <2>1, OldSame
  <2>3. \A q \in Pids : HomeOf[q] # h => mirror'[q] = mirror[q] /\ frames'[q] = frames[q]
    BY <1>10 DEF RunDetach, RunDiscard
  <2>. QED
    BY <1>1, <1>5, <2>2, <2>3 DEF Plain, ActOf
<1>. QED
  BY <1>7, <1>8, <1>9, <1>10 DEF Run

LEMMA LeavePlain ==
    ASSUME IInv, HomeInv, NEW p \in Pids, ReleaseFrame(p) \/ KillProcess(p)
    PROVE  Plain(HomeOf[p])
<1>1. PICK h \in HomeIds : h = HomeOf[p]
  BY HomeAssumption
<1>2. /\ DOMAIN mirror = Pids /\ DOMAIN frames = Pids /\ TypedAt(p)
      /\ \A i : Forgotten(p, i) = [mirror EXCEPT ![p] = [j \in DOMAIN @ \ {i} |-> @[j]]]
  BY HomeFacts DEF Forgotten
<1>3. /\ Notes \in Seq(AnyCall) /\ \A c \in Range(Notes) : c.call # "wait"
  BY NotesPlain
<1>4. homes' = homes /\ Todo(h) = {}
  <2>1. Idle(h)
    BY <1>1 DEF ReleaseFrame, KillProcess, Steps
  <2>. QED
    BY <2>1, IdleFacts DEF ReleaseFrame, KillProcess, Release, End, table, vars
<1>5. \A q \in Pids \ {p} : mirror'[q] = mirror[q] /\ frames'[q] = frames[q]
  <2>1. CASE ReleaseFrame(p)
    <3>1. PICK i : /\ frames' = [frames EXCEPT ![p] = Outer(@)]
                   /\ \/ mirror' = [mirror EXCEPT ![p][i].count = @ - 1]
                      \/ mirror' = [mirror EXCEPT ![p] = [j \in DOMAIN @ \ {i} |-> @[j]]]
      BY <1>2, <2>1 DEF ReleaseFrame
    <3>2. \A q \in Pids \ {p} : mirror'[q] = mirror[q]
      BY <1>2, <3>1
    <3>. QED
      BY <1>2, <3>1, <3>2
  <2>2. CASE KillProcess(p)
    BY <1>2, <2>2 DEF KillProcess
  <2>. QED
    BY <2>1, <2>2
<1>6. OldBodies(p)
  <2>1. CASE ReleaseFrame(p)
    <3>1. frames[p] # << >> /\ frames[p] \in Seq(OneFrame) /\ frames'[p] = Outer(frames[p])
      BY <1>2, <2>1 DEF ReleaseFrame, TypedAt
    <3>. QED
      BY <3>1, OldOuter
  <2>2. CASE KillProcess(p)
    BY <1>2, <2>2, OldSame DEF KillProcess
  <2>. QED
    BY <2>1, <2>2
<1>7. /\ \A c \in Todo(h)' : c.call # "wait"
      /\ \A g \in HomeIds \ {h} : Todo(g)' = Todo(g)
  <2>1. CASE work' = work
    BY <1>4, <2>1 DEF Todo
  <2>2. CASE work' = [work EXCEPT ![h] = Notes]
    BY <1>3, <2>2, IdlePlain
  <2>. QED
    BY <1>1, <2>1, <2>2 DEF ReleaseFrame, KillProcess
<1>8. \A q \in Pids : OldBodies(q)
  BY <1>5, <1>6, OldSame
<1>. QED
  BY <1>1, <1>4, <1>5, <1>7, <1>8 DEF Plain, ActOf

-----------------------------------------------------------------------------
(* What lets the calls through is kept.                                    *)

\* Who asks: with any other step the table is asked for nothing.
LEMMA RunFrees ==
    ASSUME IInv, HomeInv, NEW h \in HomeIds, Run(h), ~RunWait(h)
    PROVE  Frees
<1>1. PICK c : c = work[h][1]
  OBVIOUS
<1>2. work[h] # << >> /\ c \in AnyCall
  BY <1>1, RunCalls, HomeFacts, Heads
<1>3. \A p \in Pids : Resume(p) \/ Cancel(p) \/ Collect(p) \/ CancelTicket(p) => Frees
  BY DEF Frees, Collect, CancelTicket, table, vars
<1>4. UNCHANGED table => Frees
  BY DEF Frees, table
<1>5. CASE RunNote(h) \/ RunWake(h)
  <2>1. c.pid \in Pids
    BY <1>1, <1>2, <1>5, CallTypes DEF RunNote, RunWake, Calls, Wakes
  <2>2. ApplyWake(c.pid, c.tid) \/ UNCHANGED table
    BY <1>1, <1>5 DEF RunNote, RunWake
  <2>. QED
    BY <1>3, <1>4, <2>1, <2>2 DEF ApplyWake
<1>6. CASE RunExpire(h)
  <2>1. c.pids \subseteq Pids
    BY <1>1, <1>2, <1>6, CallTypes DEF RunExpire, Calls
  <2>2. UNCHANGED table \/ \E p \in c.pids : CancelTicket(p)
    BY <1>1, <1>6 DEF RunExpire
  <2>. QED
    BY <1>3, <1>4, <2>1, <2>2
<1>7. CASE RunPark(h) \/ RunDiscard(h)
  BY <1>4, <1>7 DEF RunPark, RunDiscard
<1>8. CASE RunCollect(h) \/ RunThrow(h) \/ RunUnwind(h)
  <2>1. c.pid \in Pids
    BY <1>1, <1>2, <1>8, CallTypes DEF RunCollect, RunThrow, RunUnwind, Calls, Asked
  <2>2. Collect(c.pid) \/ CancelTicket(c.pid) \/ Resume(c.pid)
    BY <1>1, <1>8 DEF RunCollect, RunThrow, RunUnwind
  <2>. QED
    BY <1>3, <2>1, <2>2
<1>9. CASE RunRelease(h)
  <2>1. c.pid \in Pids
    BY <1>1, <1>2, <1>9, CallTypes DEF RunRelease, Calls
  <2>2. Release(c.pid, c.hold) /\ c.hold \in HoldIds(recs, c.pid)
    BY <1>1, <1>9 DEF RunRelease, Release
  <2>. QED
    BY <2>1, <2>2 DEF Frees
<1>10. CASE RunDetach(h)
  BY <1>10 DEF RunDetach, DetachHome, Frees
<1>. QED
  BY <1>5, <1>6, <1>7, <1>8, <1>9, <1>10 DEF Run

LEMMA LeaveFrees ==
    ASSUME NEW p \in Pids, ReleaseFrame(p) \/ KillProcess(p) \/ BeginBody(p)
    PROVE  Frees
<1>1. CASE ReleaseFrame(p)
  <2>1. PICK i : i = Top(p).hold
    OBVIOUS
  <2>2. UNCHANGED table \/ (Release(p, i) /\ i \in HoldIds(recs, p))
    BY <1>1, <2>1 DEF ReleaseFrame, Release
  <2>. QED
    BY <2>2 DEF Frees, table
<1>2. CASE KillProcess(p)
  BY <1>2 DEF KillProcess, Frees
<1>3. CASE BeginBody(p)
  <2>1. PICK i : i = Top(p).hold
    OBVIOUS
  <2>2. StartBody(p, i) /\ i \in HoldIds(recs, p)
    BY <1>3, <2>1 DEF BeginBody, StartBody
  <2>. QED
    BY <2>2 DEF Frees
<1>. QED
  BY <1>1, <1>2, <1>3

\* A home that is about to ask does nothing else.
LEMMA PendingIs ==
    ASSUME IInv, HomeInv
    PROVE  /\ Pending = {h \in HomeIds : \E c \in Todo(h) : c.call = "wait"}
           /\ IsFiniteSet(Pending) /\ Cardinality(Pending) \in Nat
<1>1. ASSUME NEW h \in HomeIds, NEW c \in Todo(h), c.call = "wait"
      PROVE  work[h] # << >> /\ work[h][1].call = "wait"
  <2>1. work[h] # << >> /\ Len(work[h]) \in Nat /\ \E n \in 1 .. Len(work[h]) : c = work[h][n]
    BY HomeFacts, Heads
  <2>2. PICK n \in 1 .. Len(work[h]) : c = work[h][n]
    BY <2>1
  <2>3. Len(work[h]) = 1
    BY <1>1, <2>2 DEF HomeInv, Shapes, Shape, Row, Lone
  <2>. QED
    BY <1>1, <2>1, <2>2, <2>3
<1>2. ASSUME NEW h \in HomeIds, work[h] # << >>
      PROVE  work[h][1] \in Todo(h)
  BY <1>2, HomeFacts, Heads
<1>3. Pending = {h \in HomeIds : \E c \in Todo(h) : c.call = "wait"}
  BY <1>1, <1>2 DEF Pending
<1>4. IsFiniteSet(HomeIds) /\ Pending \subseteq HomeIds
  BY HomeAssumption, FS_Interval DEF HomeIds, Pending
<1>. QED
  BY <1>3, <1>4, FS_Subset, FS_CardinalityType

LEMMA PendingIsNow ==
    IInv /\ HomeInv => /\ Pending = {h \in HomeIds : \E c \in Todo(h) : c.call = "wait"}
                       /\ IsFiniteSet(Pending) /\ Cardinality(Pending) \in Nat
BY PendingIs

LEMMA PendingIsNext ==
    (IInv /\ HomeInv => /\ Pending = {h \in HomeIds : \E c \in Todo(h) : c.call = "wait"}
                        /\ IsFiniteSet(Pending) /\ Cardinality(Pending) \in Nat)'
BY PendingIsNow, PTL

\* After a plain step of h it asks for nothing, and the others as before.
LEMMA PlainPending ==
    ASSUME IInv, HomeInv, IInv', HomeInv', NEW h \in HomeIds, Plain(h)
    PROVE  Pending' = Pending \ {h} /\ Cardinality(Pending)' <= Cardinality(Pending)
           /\ (h \in Pending => Cardinality(Pending)' = Cardinality(Pending) - 1)
<1>1. /\ Pending = {g \in HomeIds : \E c \in Todo(g) : c.call = "wait"}
      /\ IsFiniteSet(Pending) /\ Cardinality(Pending) \in Nat
  BY PendingIs
<1>2. Pending' = {g \in HomeIds : \E c \in Todo(g)' : c.call = "wait"}
  BY PendingIsNext
<1>3. Pending' = Pending \ {h}
  BY <1>1, <1>2 DEF Plain, ActOf
<1>4. Cardinality(Pending)' = Cardinality(Pending \ {h})
  BY <1>3
<1>5. Cardinality(Pending \ {h}) <= Cardinality(Pending)
  BY <1>1, FS_Subset
<1>6. h \in Pending => Cardinality(Pending \ {h}) = Cardinality(Pending) - 1
  BY <1>1, FS_RemoveElement
<1>. QED
  BY <1>3, <1>4, <1>5, <1>6

\* A body that has begun is under a hold that the table keeps begun.
LEMMA BodyStays ==
    ASSUME IInv, HomeInv, IInv', HomeInv', StartedStays, NEW p \in Pids,
           HomeOf[p] \in homes, HomeOf[p] \in homes', BodiesBegan(p),
           NEW n \in 1 .. Len(frames[p]), NEW m \in 1 .. Len(frames'[p]),
           frames[p][n].body, frames'[p][m].body, frames'[p][m].hold = frames[p][n].hold
    PROVE  holds'[frames'[p][m].hold].started
<1>1. PICK i : i = frames[p][n].hold
  OBVIOUS
<1>2. i \in DOMAIN holds
  <2>1. Fine(p)
    BY HomeFacts
  <2>2. i \in DOMAIN mirror[p]
    BY <1>1, <2>1 DEF Fine, Status, FramesOK
  <2>. QED
    BY <2>1, <2>2 DEF Fine, Mirror, Known, Mine
<1>3. i \in DOMAIN holds'
  <2>1. Fine(p)'
    BY DEF HomeInv, Local
  <2>2. i \in DOMAIN mirror'[p]
    BY <1>1, <2>1 DEF Fine, Status, FramesOK
  <2>. QED
    BY <2>1, <2>2 DEF Fine, Mirror, Known, Mine
<1>4. holds[i].started
  BY <1>1 DEF BodiesBegan
<1>. QED
  BY <1>1, <1>2, <1>3, <1>4 DEF StartedStays

LEMMA OldBegan ==
    ASSUME IInv, HomeInv, IInv', HomeInv', StartedStays, NEW p \in Pids,
           HomeOf[p] \in homes, HomeOf[p] \in homes', BodiesBegan(p), OldBodies(p)
    PROVE  BodiesBegan(p)'
<1>. SUFFICES ASSUME NEW m \in 1 .. Len(frames'[p]), frames'[p][m].body
              PROVE  holds'[frames'[p][m].hold].started
  BY DEF BodiesBegan
<1>1. m \in 1 .. Len(frames[p]) /\ frames[p][m].body /\ frames[p][m].hold = frames'[p][m].hold
  BY DEF OldBodies
<1>. QED
  BY <1>1, BodyStays

\* Processes of other homes.
LEMMA FarKeeps ==
    ASSUME IInv, HomeInv, IInv', HomeInv', StartedStays, NEW h \in HomeIds, ActOf(h), NEW p \in Pids,
           HomeOf[p] # h, HomeOf[p] \in homes, HomeOf[p] \in homes', BodiesBegan(p), LetThrough(p)
    PROVE  BodiesBegan(p)' /\ LetThrough(p)'
<1>1. mirror'[p] = mirror[p] /\ frames'[p] = frames[p] /\ Todo(HomeOf[p])' = Todo(HomeOf[p])
  BY HomeAssumption DEF ActOf
<1>2. BodiesBegan(p)'
  BY <1>1, OldSame, OldBegan
<1>3. Business(p)' = Business(p)
  BY <1>1 DEF Business
<1>. QED
  BY <1>1, <1>2, <1>3 DEF LetThrough

LEMMA PlainKeeps ==
    ASSUME IInv, HomeInv, IInv', HomeInv', StartedStays, NEW h \in HomeIds, Plain(h), Each
    PROVE  Each'
<1>. SUFFICES ASSUME NEW p \in Pids, HomeOf[p] \in homes'
              PROVE  BodiesBegan(p)' /\ LetThrough(p)'
  BY DEF Each
<1>1. HomeOf[p] \in homes /\ BodiesBegan(p) /\ LetThrough(p)
  BY DEF Plain, Each
<1>2. CASE HomeOf[p] # h
  BY <1>1, <1>2, FarKeeps DEF Plain
<1>3. CASE HomeOf[p] = h
  <2>1. BodiesBegan(p)'
    BY <1>1, <1>3, OldBegan DEF Plain
  <2>2. LetThrough(p)'
    BY <1>3 DEF Plain, LetThrough, Business
  <2>. QED
    BY <2>1, <2>2
<1>. QED
  BY <1>2, <1>3

\* A process of h takes a step in which it asks for nothing that it must wait for.
LEMMA OwnKeeps ==
    ASSUME IInv, HomeInv, IInv', HomeInv', StartedStays, NEW p \in Pids, homes' = homes, Each,
           ActOf(HomeOf[p]), \A q \in Pids \ {p} : mirror'[q] = mirror[q] /\ frames'[q] = frames[q],
           BodiesBegan(p)', LetThrough(p)',
           \A c \in Todo(HomeOf[p])' : c.call = "wait" => c.pid = p
    PROVE  Each'
<1>. SUFFICES ASSUME NEW q \in Pids, HomeOf[q] \in homes', q # p
              PROVE  BodiesBegan(q)' /\ LetThrough(q)'
  BY DEF Each
<1>1. BodiesBegan(q) /\ LetThrough(q) /\ HomeOf[p] \in HomeIds
  BY HomeAssumption DEF Each
<1>2. CASE HomeOf[q] # HomeOf[p]
  BY <1>1, <1>2, FarKeeps
<1>3. CASE HomeOf[q] = HomeOf[p]
  <2>1. BodiesBegan(q)'
    BY <1>1, OldSame, OldBegan
  <2>2. LetThrough(q)'
    BY <1>3 DEF LetThrough, Business
  <2>. QED
    BY <2>1, <2>2
<1>. QED
  BY <1>2, <1>3

\* A frame is pushed.
LEMMA PushBegan ==
    ASSUME IInv, HomeInv, IInv', HomeInv', StartedStays, NEW p \in Pids, HomeOf[p] \in homes,
           homes' = homes, BodiesBegan(p), InBody(p), NEW i, NEW b, NEW r,
           frames' = Push(p, Frame(i, b, r)), b => holds'[i].started
    PROVE  BodiesBegan(p)' /\ \A q \in Pids \ {p} : frames'[q] = frames[q]
<1>1. DOMAIN frames = Pids /\ frames[p] \in Seq(OneFrame)
  BY HomeFacts DEF TypedAt
<1>2. PICK f, e, m : f = frames[p] /\ e = Frame(i, b, r) /\ m = Len(f)
  OBVIOUS
<1>3. frames'[p] = Append(f, e) /\ \A q \in Pids \ {p} : frames'[q] = frames[q]
  BY <1>1, <1>2 DEF Push
<1>4. e.hold = i /\ e.body = b /\ m \in Nat
  BY <1>1, <1>2, LenProperties DEF Frame
<1>5. /\ Len(Append(f, e)) = m + 1 /\ Append(f, e)[m + 1] = e
      /\ \A n \in 1 .. m : Append(f, e)[n] = f[n]
  <2>1. f \in Seq(OneFrame \cup {e}) /\ e \in OneFrame \cup {e}
    BY <1>1, <1>2, SeqMonotonic
  <2>. QED
    BY <1>2, <2>1, AppendProperties
<1>6. ASSUME NEW n \in 1 .. Len(frames'[p]), frames'[p][n].body
      PROVE  holds'[frames'[p][n].hold].started
  <2>1. n \in 1 .. m \/ n = m + 1
    BY <1>3, <1>4, <1>5
  <2>2. CASE n \in 1 .. m
    <3>1. frames'[p][n] = frames[p][n]
      BY <1>2, <1>3, <1>5, <2>2
    <3>. QED
      BY <1>2, <1>6, <2>2, <3>1, BodyStays
  <2>3. CASE n = m + 1
    BY <1>3, <1>4, <1>5, <1>6, <2>3
  <2>. QED
    BY <2>1, <2>2, <2>3
<1>. QED
  BY <1>3, <1>6 DEF BodiesBegan

LEMMA EnterCoveredGoes ==
    ASSUME IInv, HomeInv, IInv', HomeInv', Each, NEW p \in Pids, NEW r \in Requests,
           TryEnter(p, r), EnterCovered(p, r)
    PROVE  Each' /\ Pending' = Pending /\ Spent' = Spent /\ nextSeq' = nextSeq
<1>1. Steps(p) /\ InBody(p) /\ UNCHANGED table /\ work' = work
  BY DEF TryEnter, EnterCovered
<1>2. PICK i \in DOMAIN mirror[p] :
        /\ mirror' = [mirror EXCEPT ![p][i].count = @ + 1]
        /\ frames' = Push(p, Frame(i, TRUE, r))
  BY DEF EnterCovered
<1>3. /\ TypedAt(p) /\ HomeOf[p] \in homes /\ Copied(p) /\ Todo(HomeOf[p]) = {} /\ HomeOf[p] \in HomeIds
  BY <1>1, StepsFacts
<1>4. StartedStays /\ homes' = homes /\ holds' = holds /\ Spent' = Spent /\ nextSeq' = nextSeq
  BY <1>1 DEF StartedStays, table, vars, counters, Spent
<1>5. BodiesBegan(p)
  BY <1>3 DEF Each
<1>6. holds[i].started
  <2>1. PICK n \in 1 .. Len(frames[p]) : frames[p][n].hold = i
    BY <1>3, MirrorCounts DEF Counts
  <2>. QED
    BY <1>1, <1>5, <2>1 DEF InBody, BodiesBegan
<1>7. BodiesBegan(p)' /\ \A q \in Pids \ {p} : frames'[q] = frames[q]
  BY <1>1, <1>2, <1>3, <1>4, <1>5, <1>6, PushBegan
<1>8. \A q \in Pids \ {p} : mirror'[q] = mirror[q]
  BY <1>2, HomeFacts
<1>9. \A g : Todo(g)' = Todo(g)
  BY <1>1 DEF Todo
<1>10. LetThrough(p)' /\ ActOf(HomeOf[p])
  BY <1>3, <1>7, <1>8, <1>9 DEF LetThrough, Business, ActOf
<1>11. Each'
  BY <1>3, <1>4, <1>7, <1>8, <1>9, <1>10, OwnKeeps
<1>. QED
  BY <1>1, <1>4, <1>11 DEF Pending

LEMMA EnterFastGoes ==
    ASSUME IInv, HomeInv, IInv', HomeInv', Each, NEW p \in Pids, NEW r \in Requests,
           TryEnter(p, r), EnterFast(p, r)
    PROVE  Each' /\ Pending' = Pending /\ Spent' = Spent + 1 /\ nextSeq' = nextSeq
<1>1. Steps(p) /\ InBody(p) /\ TryAcquire(p, r) /\ work' = work
  BY DEF TryEnter, EnterFast
<1>2. PICK i : /\ i = nextHold + 1
               /\ mirror' = Mirrored(p, i, r)
               /\ frames' = Push(p, Frame(i, TRUE, r))
  BY DEF EnterFast
<1>3. /\ TypedAt(p) /\ HomeOf[p] \in homes /\ Todo(HomeOf[p]) = {} /\ HomeOf[p] \in HomeIds
  BY <1>1, StepsFacts
<1>4. /\ StartedStays /\ homes' = homes /\ Spent' = Spent + 1 /\ nextSeq' = nextSeq
      /\ holds'[i].started
  BY <1>1, <1>2, TryAcquireSpends DEF TryAcquire
<1>5. BodiesBegan(p)
  BY <1>3 DEF Each
<1>6. BodiesBegan(p)' /\ \A q \in Pids \ {p} : frames'[q] = frames[q]
  BY <1>1, <1>2, <1>3, <1>4, <1>5, PushBegan
<1>7. \A q \in Pids \ {p} : mirror'[q] = mirror[q]
  BY <1>2, HomeFacts DEF Mirrored
<1>8. \A g : Todo(g)' = Todo(g)
  BY <1>1 DEF Todo
<1>9. LetThrough(p)' /\ ActOf(HomeOf[p])
  BY <1>3, <1>6, <1>7, <1>8 DEF LetThrough, Business, ActOf
<1>10. Each'
  BY <1>3, <1>4, <1>6, <1>7, <1>8, <1>9, OwnKeeps
<1>. QED
  BY <1>1, <1>4, <1>10 DEF Pending

LEMMA EnterBusyGoes ==
    ASSUME IInv, HomeInv, IInv', HomeInv', Each, NEW p \in Pids, NEW r \in Requests,
           TryEnter(p, r), EnterBusy(p, r)
    PROVE  /\ Each' /\ Cardinality(Pending)' = Cardinality(Pending) + 1
           /\ Spent' = Spent /\ nextSeq' = nextSeq
<1>1. PICK h \in HomeIds : h = HomeOf[p]
  BY HomeAssumption
<1>2. PICK c : c = [call |-> "wait", pid |-> p, req |-> r]
  OBVIOUS
<1>3. /\ Steps(p) /\ InBody(p) /\ UNCHANGED table /\ mirror' = mirror
      /\ work' = [work EXCEPT ![h] = <<c>>] /\ frames' = Push(p, Frame(0, FALSE, r))
      /\ ~Upgrades(mirror[p], r) /\ ~Covered(mirror[p], r)
  BY <1>1, <1>2 DEF TryEnter, EnterBusy
<1>4. h \in homes /\ Todo(h) = {} /\ BodiesBegan(p)
  BY <1>1, <1>3, StepsFacts DEF Each
<1>5. StartedStays /\ homes' = homes /\ Spent' = Spent /\ nextSeq' = nextSeq
  BY <1>3 DEF StartedStays, table, vars, counters, Spent
<1>6. BodiesBegan(p)' /\ \A q \in Pids \ {p} : frames'[q] = frames[q]
  BY <1>1, <1>3, <1>4, <1>5, PushBegan
<1>7. Todo(h)' = {c} /\ \A g \in HomeIds \ {h} : Todo(g)' = Todo(g)
  <2>1. work'[h] = <<c>> /\ \A g \in HomeIds \ {h} : work'[g] = work[g]
    BY <1>3 DEF HomeInv, Typed
  <2>. QED
    BY <2>1, RangeFacts DEF Todo
<1>8. LetThrough(p)'
  BY <1>1, <1>2, <1>3, <1>7 DEF LetThrough, Business
<1>9. ActOf(HomeOf[p])
  BY <1>1, <1>3, <1>6, <1>7 DEF ActOf
<1>10. Each'
  <2>1. \A q \in Pids \ {p} : mirror'[q] = mirror[q] /\ frames'[q] = frames[q]
    BY <1>3, <1>6
  <2>2. \A d \in Todo(HomeOf[p])' : d.call = "wait" => d.pid = p
    BY <1>1, <1>2, <1>7
  <2>. QED
    BY <1>5, <1>6, <1>8, <1>9, <2>1, <2>2, OwnKeeps
<1>11. Cardinality(Pending)' = Cardinality(Pending) + 1
  <2>1. /\ Pending = {g \in HomeIds : \E d \in Todo(g) : d.call = "wait"}
        /\ IsFiniteSet(Pending) /\ Cardinality(Pending) \in Nat
    BY PendingIs
  <2>2. Pending' = {g \in HomeIds : \E d \in Todo(g)' : d.call = "wait"}
    BY PendingIsNext
  <2>3. h \notin Pending /\ Pending' = Pending \cup {h}
    BY <1>2, <1>4, <1>7, <2>1, <2>2
  <2>4. Cardinality(Pending \cup {h}) = Cardinality(Pending) + 1
    BY <2>1, <2>3, FS_AddElement
  <2>. QED
    BY <2>3, <2>4
<1>. QED
  BY <1>5, <1>10, <1>11

LEMMA BeginGoes ==
    ASSUME IInv, HomeInv, IInv', HomeInv', Each, NEW p \in Pids, BeginBody(p)
    PROVE  Each' /\ Pending' = Pending /\ homes' = homes
<1>1. PICK i, f, m : i = Top(p).hold /\ f = frames[p] /\ m = Len(f)
  OBVIOUS
<1>2. /\ Steps(p) /\ StartBody(p, i) /\ work' = work /\ mirror' = mirror
      /\ frames' = [frames EXCEPT ![p][m].body = TRUE]
  BY <1>1 DEF BeginBody
<1>3. /\ TypedAt(p) /\ HomeOf[p] \in homes /\ Todo(HomeOf[p]) = {} /\ HomeOf[p] \in HomeIds
  BY <1>2, StepsFacts
<1>4. StartedStays /\ homes' = homes /\ holds'[i].started
  <2>1. StartedStays
    BY FreesSpend, LeaveFrees
  <2>2. homes' = homes /\ holds' = [holds EXCEPT ![i].started = TRUE] /\ i \in HoldIds(recs, p)
    BY <1>2 DEF StartBody
  <2>3. i \in DOMAIN holds /\ holds[i] \in Hold
    BY <2>2, TypesLinks DEF TicketRead, Mine, HoldsOK
  <2>4. holds'[i].started
    BY <2>2, <2>3 DEF Hold
  <2>. QED
    BY <2>1, <2>2, <2>4
<1>5. BodiesBegan(p) /\ DOMAIN frames = Pids /\ f \in Seq(OneFrame)
  BY <1>1, <1>3, HomeFacts DEF Each, TypedAt
<1>6. /\ frames'[p] = [f EXCEPT ![m].body = TRUE]
      /\ \A q \in Pids \ {p} : frames'[q] = frames[q]
  BY <1>1, <1>2, <1>5
<1>7. DOMAIN f = 1 .. m /\ m \in Nat /\ \A n \in 1 .. m : f[n] \in OneFrame
  BY <1>1, <1>5, LenProperties, ElementOfSeq
<1>8. PICK e : e = [f EXCEPT ![m].body = TRUE]
  OBVIOUS
<1>9. DOMAIN e = 1 .. m /\ \A n \in 1 .. m : e[n].hold = f[n].hold /\ (n # m => e[n] = f[n])
  BY <1>7, <1>8 DEF OneFrame
<1>10. Len(e) = m
  <2>1. PICK S : S = {e[n] : n \in 1 .. m}
    OBVIOUS
  <2>2. e \in [1 .. m -> S]
    BY <1>7, <1>8, <1>9, <2>1
  <2>. QED
    BY <1>7, <2>2, SeqDef, LenProperties
<1>11. BodiesBegan(p)'
  <2>. SUFFICES ASSUME NEW n \in 1 .. Len(frames'[p]), frames'[p][n].body
                PROVE  holds'[frames'[p][n].hold].started
    BY DEF BodiesBegan
  <2>1. n \in 1 .. m /\ frames'[p] = e
    BY <1>6, <1>8, <1>10
  <2>2. CASE n = m
    <3>1. e[n].hold = i
      BY <1>1, <1>9, <2>1, <2>2 DEF Top
    <3>. QED
      BY <1>4, <2>1, <3>1
  <2>3. CASE n # m
    <3>1. frames'[p][n] = frames[p][n] /\ n \in 1 .. Len(frames[p])
      BY <1>1, <1>9, <2>1, <2>3
    <3>. QED
      BY <1>3, <1>4, <1>5, <3>1, BodyStays
  <2>. QED
    BY <2>2, <2>3
<1>12. \A g : Todo(g)' = Todo(g)
  BY <1>2 DEF Todo
<1>13. LetThrough(p)' /\ ActOf(HomeOf[p])
  BY <1>2, <1>3, <1>6, <1>12 DEF LetThrough, Business, ActOf
<1>14. Each'
  BY <1>2, <1>3, <1>4, <1>6, <1>11, <1>12, <1>13, OwnKeeps
<1>. QED
  BY <1>2, <1>4, <1>14 DEF Pending

LEMMA AttachGoes ==
    ASSUME IInv, HomeInv, IInv', HomeInv', Each, AttachLockHome
    PROVE  Each' /\ Pending' = Pending
<1>1. AttachHome /\ work' = work /\ mirror' = mirror /\ frames' = frames
  BY DEF AttachLockHome
<1>2. homes' = homes \cup {nextHome} /\ holds' = holds /\ nextHome < MaxHome
  BY <1>1 DEF AttachHome
<1>. SUFFICES ASSUME NEW p \in Pids, HomeOf[p] \in homes'
              PROVE  BodiesBegan(p)' /\ LetThrough(p)'
  BY <1>1 DEF Each, Pending
<1>3. Business(p)' = Business(p)
  BY <1>1 DEF Business, Todo
<1>4. CASE HomeOf[p] \in homes
  BY <1>1, <1>2, <1>3, <1>4 DEF Each, BodiesBegan, LetThrough
<1>5. CASE HomeOf[p] \notin homes
  <2>1. PICK h \in HomeIds : h = HomeOf[p]
    BY HomeAssumption
  <2>2. h = nextHome /\ nextHome \in Nat
    BY <1>2, <1>5, <2>1 DEF IInv, TypeOK
  <2>3. Unborn(h)
    BY <1>5, <2>1, <2>2 DEF HomeInv, Shapes, Life
  <2>4. frames[p] = << >> /\ Todo(h) = {}
    BY <2>1, <2>3, HomeFacts, Heads DEF Unborn
  <2>. QED
    BY <1>1, <1>3, <2>1, <2>4 DEF BodiesBegan, LetThrough, Business
<1>. QED
  BY <1>4, <1>5

-----------------------------------------------------------------------------
(* A step keeps what lets the calls through.                               *)

LEMMA RoomIs ==
    ASSUME IInv, HomeInv
    PROVE  /\ MaxHold \in Nat /\ MaxSeq \in Nat /\ nextSeq \in Nat /\ Spent \in Nat
           /\ Cardinality(Pending) \in Nat
           /\ (Room <=> Spent + Cardinality(Pending) <= MaxHold /\ nextSeq + Cardinality(Pending) <= MaxSeq)
BY BoundAssumption, SpentFacts, PendingIs DEF Room, Spent

LEMMA RoomIsNow ==
    IInv /\ HomeInv =>
        /\ MaxHold \in Nat /\ MaxSeq \in Nat /\ nextSeq \in Nat /\ Spent \in Nat
        /\ Cardinality(Pending) \in Nat
        /\ (Room <=> Spent + Cardinality(Pending) <= MaxHold /\ nextSeq + Cardinality(Pending) <= MaxSeq)
BY RoomIs

LEMMA RoomIsNext ==
    (IInv /\ HomeInv =>
        /\ MaxHold \in Nat /\ MaxSeq \in Nat /\ nextSeq \in Nat /\ Spent \in Nat
        /\ Cardinality(Pending) \in Nat
        /\ (Room <=> Spent + Cardinality(Pending) <= MaxHold /\ nextSeq + Cardinality(Pending) <= MaxSeq))'
BY RoomIsNow, PTL

\* Nothing more is spent and nobody more is on the way.
LEMMA RoomStays ==
    ASSUME IInv, HomeInv, IInv', HomeInv', Room, Spent' <= Spent, nextSeq' = nextSeq,
           Cardinality(Pending)' <= Cardinality(Pending)
    PROVE  Room'
BY RoomIs, RoomIsNext

LEMMA PlainGoes ==
    ASSUME IInv, HomeInv, IInv', HomeInv', GoInv, Frees, NEW h \in HomeIds, Plain(h)
    PROVE  GoInv'
<1>1. StartedStays /\ Spent' <= Spent /\ nextSeq' = nextSeq
  BY FreesSpend
<1>2. Each'
  BY <1>1, PlainKeeps DEF GoInv
<1>3. Cardinality(Pending)' <= Cardinality(Pending)
  BY PlainPending
<1>. QED
  BY <1>1, <1>2, <1>3, RoomStays DEF GoInv

LEMMA EnterGoes ==
    ASSUME IInv, HomeInv, IInv', HomeInv', GoInv, NEW p \in Pids, NEW r \in Requests, TryEnter(p, r)
    PROVE  GoInv'
<1>1. Each /\ Room
  BY DEF GoInv
<1>2. CASE EnterCovered(p, r)
  <2>1. Each' /\ Pending' = Pending /\ Spent' = Spent /\ nextSeq' = nextSeq
    BY <1>1, <1>2, EnterCoveredGoes
  <2>2. Room'
    BY <1>1, <2>1, RoomStays, RoomIs
  <2>. QED
    BY <2>1, <2>2 DEF GoInv
<1>3. CASE EnterFast(p, r)
  <2>1. Each' /\ Pending' = Pending /\ Spent' = Spent + 1 /\ nextSeq' = nextSeq
    BY <1>1, <1>3, EnterFastGoes
  <2>2. Spent + Cardinality(Pending) < MaxHold
    BY <1>3, RoomIs, SpentFacts DEF EnterFast, HoldsLeft, Spent
  <2>3. Cardinality(Pending)' = Cardinality(Pending)
    BY <2>1
  <2>4. Room'
    BY <1>1, <2>1, <2>2, <2>3, RoomIs, RoomIsNext
  <2>. QED
    BY <2>1, <2>4 DEF GoInv
<1>4. CASE EnterBusy(p, r)
  <2>1. /\ Each' /\ Cardinality(Pending)' = Cardinality(Pending) + 1
        /\ Spent' = Spent /\ nextSeq' = nextSeq
    BY <1>1, <1>4, EnterBusyGoes
  <2>2. Spent + Cardinality(Pending) < MaxHold /\ nextSeq + Cardinality(Pending) < MaxSeq
    BY <1>4, RoomIs, SpentFacts DEF EnterBusy, HoldsLeft, TicketsLeft, Spent
  <2>3. Room'
    BY <1>1, <2>1, <2>2, RoomIs, RoomIsNext
  <2>. QED
    BY <2>1, <2>3 DEF GoInv
<1>. QED
  BY <1>2, <1>3, <1>4 DEF TryEnter

\* The request that was on its way has its ticket, or its hold.
LEMMA WaitGoes ==
    ASSUME IInv, HomeInv, IInv', HomeInv', GoInv, NEW h \in HomeIds, RunWait(h)
    PROVE  GoInv'
<1>1. PICK p, r : Block(p, r)
  BY DEF RunWait
<1>2. StartedStays /\ Spent' <= Spent + 1 /\ nextSeq' = nextSeq + 1
  BY <1>1, BlockSpends
<1>3. Plain(h)
  BY RunPlain DEF Run
<1>4. Each'
  BY <1>2, <1>3, PlainKeeps DEF GoInv
<1>5. h \in Pending
  BY DEF RunWait, Calls, Pending
<1>6. Cardinality(Pending)' = Cardinality(Pending) - 1
  BY <1>3, <1>5, PlainPending
<1>7. Room'
  BY <1>2, <1>6, RoomIs, RoomIsNext DEF GoInv
<1>. QED
  BY <1>4, <1>7 DEF GoInv

LEMMA GoStep ==
    ASSUME IInv, HomeInv, GoInv, [HNext]_hvars
    PROVE  GoInv'
<1>1. IInv' /\ HomeInv'
  BY HomeStep
<1>2. Each /\ Room
  BY DEF GoInv
<1>3. CASE UNCHANGED hvars
  BY <1>3 DEF GoInv, Room, Each, BodiesBegan, LetThrough, Business, Todo, Pending, hvars, table, vars, counters
<1>4. CASE AttachLockHome
  <2>1. Each' /\ Pending' = Pending
    BY <1>1, <1>2, <1>4, AttachGoes
  <2>2. Spent' <= Spent /\ nextSeq' = nextSeq
    BY <1>4, FreesSpend DEF Frees, AttachLockHome
  <2>3. Room'
    BY <1>1, <1>2, <2>1, <2>2, RoomStays, RoomIs
  <2>. QED
    BY <2>1, <2>3 DEF GoInv
<1>5. ASSUME NEW p \in Pids, NEW r \in Requests, TryEnter(p, r)
      PROVE  GoInv'
  BY <1>1, <1>5, EnterGoes
<1>6. ASSUME NEW p \in Pids, BeginBody(p)
      PROVE  GoInv'
  <2>1. Each' /\ Pending' = Pending
    BY <1>1, <1>2, <1>6, BeginGoes
  <2>2. Spent' <= Spent /\ nextSeq' = nextSeq
    BY <1>6, LeaveFrees, FreesSpend
  <2>3. Room'
    BY <1>1, <1>2, <2>1, <2>2, RoomStays, RoomIs
  <2>. QED
    BY <2>1, <2>3 DEF GoInv
<1>7. ASSUME NEW p \in Pids, ReleaseFrame(p) \/ KillProcess(p)
      PROVE  GoInv'
  BY <1>1, <1>7, HomeAssumption, LeavePlain, LeaveFrees, PlainGoes
<1>8. ASSUME NEW h \in HomeIds, DrainPort(h) \/ WakeDue(h) \/ Destroy(h)
      PROVE  GoInv'
  <2>1. Plain(h) /\ UNCHANGED vars
    BY <1>1, <1>8, BetweenPlain
  <2>. QED
    BY <1>1, <2>1, PlainGoes DEF Frees
<1>9. ASSUME NEW h \in HomeIds, Run(h)
      PROVE  GoInv'
  <2>1. CASE RunWait(h)
    BY <1>1, <2>1, WaitGoes
  <2>2. CASE ~RunWait(h)
    BY <1>1, <1>9, <2>2, RunPlain, RunFrees, PlainGoes
  <2>. QED
    BY <2>1, <2>2
<1>. QED
  BY <1>3, <1>4, <1>5, <1>6, <1>7, <1>8, <1>9 DEF HNext

LEMMA GoStart == HInit => GoInv
<1>. SUFFICES ASSUME HInit PROVE GoInv
  OBVIOUS
<1>1. /\ homes = {} /\ nextSeq = 0 /\ nextHold = 0 /\ tickets = Empty
      /\ work = [h \in HomeIds |-> << >>]
  BY DEF HInit, Init, LocalInit, counters
<1>2. Queued(tickets) = {} /\ Pending = {}
  BY <1>1 DEF Queued, Pending, Empty
<1>3. Room
  BY <1>1, <1>2, BoundAssumption, FS_EmptySet DEF Room
<1>4. Each
  BY <1>1, HomeAssumption DEF Each
<1>. QED
  BY <1>3, <1>4 DEF GoInv

\* What HomesGoOn is for, guard by guard: the call that a home makes next,
\* whichever it is, always finds the table able to take it.  No thread of a
\* home meets an assertion of the table, or a wake whose ticket is gone.
THEOREM CallsAlwaysFit == HSpec => []CallsFit
<1>1. HInit => IInv /\ HomeInv /\ GoInv
  BY HomeStart, GoStart
<1>2. IInv /\ HomeInv /\ GoInv /\ [HNext]_hvars => IInv' /\ HomeInv' /\ GoInv'
  BY HomeStep, GoStep
<1>3. IInv /\ HomeInv /\ GoInv => CallsFit
  BY AllFit
<1>. QED
  BY <1>1, <1>2, <1>3, PTL DEF HSpec

=============================================================================
