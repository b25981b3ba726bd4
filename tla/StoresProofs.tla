----------------------------- MODULE StoresProofs -----------------------------
(***************************************************************************)
(* The stores, for every number of clients, flows, versions, tags, calls,  *)
(* runs, nodes and events.                                                 *)
(*                                                                         *)
(* The flow and tag stores.  A save uses at most one inode, so there is a  *)
(* fresh one whenever a file is opened (CountInv), and no inode has two    *)
(* names (Distinct).  A document that no overlapping saves have spoilt has *)
(* a whole file under its name (Serial), and a rename is the one step that *)
(* changes what a reader sees of it.  A reader has read, of each document  *)
(* it is through with, a state of the document during its call             *)
(* (ReaderInv).  Listings are sorted by rank; a list sorted by rank has    *)
(* each element once, and its pages of one add up.                         *)
(*                                                                         *)
(* The run stores.  Each store holds the events acknowledged (RunInv); the *)
(* database may have rows of the batch at hand already.  The answers that  *)
(* are the same fold over the same events are equal.  The attempts of a    *)
(* node are folded in two ways, whose results agree on logs in which every *)
(* end has its start (NodeInv) if no batch overtook another (Closed).  The *)
(* rows have signed numbers, in the order of the numbers but for a mark's. *)
(***************************************************************************)
EXTENDS FlowStores, RunStores, FiniteSetTheorems, SequenceTheorems, TLAPS

--------------------------------------------------------------------------
(* Sorted lists and their pages.                                           *)

\* Every set of numbers has a least one.
LEMMA LeastOf ==
  ASSUME NEW S, S \subseteq Nat, S # {}
  PROVE  \E x \in S : \A y \in S : x <= y
<1>1. PICK x \in S : \A y \in S : ~(<<y, x>> \in OpToRel(<, Nat))
  BY WFMin, NatLessThanWellFounded
<1>2. ASSUME NEW y \in S PROVE x <= y
  <2>1. x \in Nat /\ y \in Nat
    OBVIOUS
  <2>2. ~(y < x)
    BY <1>1, <2>1 DEF OpToRel
  <2> QED
    BY <2>1, <2>2
<1> QED
  BY <1>2

\* Two sets one of which numbers the other have the same size.
LEMMA SameSize ==
  ASSUME NEW S, NEW T, IsFiniteSet(S), NEW f \in [S -> T],
         \A x, y \in S : f[x] = f[y] => x = y, \A t \in T : \E x \in S : f[x] = t
  PROVE  IsFiniteSet(T) /\ Cardinality(T) = Cardinality(S)
<1>1. f \in Bijection(S, T)
  BY DEF Bijection, Injection, Surjection, IsInjective
<1>2. ExistsBijection(S, T)
  BY <1>1 DEF ExistsBijection
<1> QED
  BY <1>2, FS_Bijection

\* Before is a strict total order on S.
Orders(R, S) ==
  /\ \A x \in S : <<x, x>> \notin R
  /\ \A x, y, z \in S : <<x, y>> \in R /\ <<y, z>> \in R => <<x, z>> \in R
  /\ \A x, y \in S : x # y => <<x, y>> \in R \/ <<y, x>> \in R
Below(R, S, x) == {y \in S : <<y, x>> \in R}
\* q is S in the order of R, each element once.
Lists(q, R, S) ==
  /\ q \in [1..Cardinality(S) -> S]
  /\ \A x \in S : \E k \in 1..Cardinality(S) : q[k] = x
  /\ \A j, k \in 1..Cardinality(S) : j < k <=> <<q[j], q[k]>> \in R

\* The number of elements before an element tells where it is.
LEMMA RankOf ==
  ASSUME NEW R, NEW S, IsFiniteSet(S), Orders(R, S)
  PROVE  /\ \A x \in S : Cardinality(Below(R, S, x)) \in 0..(Cardinality(S) - 1)
         /\ \A x, y \in S : <<x, y>> \in R => Cardinality(Below(R, S, x)) < Cardinality(Below(R, S, y))
         /\ \A k \in 1..Cardinality(S) : \E x \in S : Cardinality(Below(R, S, x)) = k - 1
<1>0. Cardinality(S) \in Nat
  BY FS_CardinalityType
<1>1. ASSUME NEW x \in S
      PROVE  /\ IsFiniteSet(Below(R, S, x)) /\ Cardinality(Below(R, S, x)) \in Nat
             /\ Cardinality(Below(R, S, x)) <= Cardinality(S) - 1
  <2>1. Below(R, S, x) \subseteq S \ {x}
    BY DEF Below, Orders
  <2>2. IsFiniteSet(S \ {x}) /\ Cardinality(S \ {x}) = Cardinality(S) - 1
    BY FS_RemoveElement
  <2> QED
    BY <2>1, <2>2, FS_Subset, FS_CardinalityType
<1>2. ASSUME NEW x \in S, NEW y \in S, <<x, y>> \in R
      PROVE  Cardinality(Below(R, S, x)) < Cardinality(Below(R, S, y))
  <2>1. Below(R, S, x) \subseteq Below(R, S, y)
    BY <1>2 DEF Below, Orders
  <2>2. x \in Below(R, S, y) /\ x \notin Below(R, S, x)
    BY <1>2 DEF Below, Orders
  <2>3. Cardinality(Below(R, S, x)) <= Cardinality(Below(R, S, y))
        /\ Cardinality(Below(R, S, x)) # Cardinality(Below(R, S, y))
    BY <1>1, <2>1, <2>2, FS_Subset
  <2> QED
    BY <1>1, <2>3
<1> DEFINE f == [x \in S |-> Cardinality(Below(R, S, x))]
           N == 0..(Cardinality(S) - 1)
<1>3. f \in [S -> N]
  BY <1>0, <1>1
<1>4. \A x, y \in S : f[x] = f[y] => x = y
  <2> SUFFICES ASSUME NEW x \in S, NEW y \in S, f[x] = f[y], x # y PROVE FALSE
    OBVIOUS
  <2>1. <<x, y>> \in R \/ <<y, x>> \in R
    BY DEF Orders
  <2> QED
    BY <1>1, <1>2, <2>1
<1>5. IsFiniteSet(N) /\ Cardinality(N) = Cardinality(S)
  <2>1. 0 \in Int /\ Cardinality(S) - 1 \in Int /\ Cardinality(S) \in Nat
    BY <1>0
  <2>2. IsFiniteSet(N) /\ Cardinality(N) = IF 0 > Cardinality(S) - 1 THEN 0 ELSE (Cardinality(S) - 1) - 0 + 1
    BY ONLY <2>1, FS_Interval
  <2> QED
    BY ONLY <2>1, <2>2
<1>6. f \in Surjection(S, N)
  <2>1. f \in Injection(S, N)
    BY <1>3, <1>4 DEF Injection, IsInjective
  <2> HIDE DEF f, N
  <2> QED
    BY <1>5, <2>1, FS_Injection
<1>7. \A k \in 1..Cardinality(S) : \E x \in S : Cardinality(Below(R, S, x)) = k - 1
  <2>1. \A m \in N : \E x \in S : f[x] = m
    BY <1>6 DEF Surjection
  <2>2. \A k \in 1..Cardinality(S) : k - 1 \in N
    BY <1>0
  <2> QED
    BY <2>1, <2>2
<1> QED
  BY <1>0, <1>1, <1>2, <1>7

\* The sequence of the elements by the number of elements before them is the sorted sequence.
LEMMA ListsByRank ==
  ASSUME NEW R, NEW S, IsFiniteSet(S), Orders(R, S), NEW q \in [1..Cardinality(S) -> S],
         \A k \in 1..Cardinality(S) : Cardinality(Below(R, S, q[k])) = k - 1
  PROVE  Lists(q, R, S)
<1> DEFINE n == Cardinality(S)
           rank(x) == Cardinality(Below(R, S, x))
<1>0. n \in Nat
  BY FS_CardinalityType
<1>1. /\ \A x \in S : rank(x) \in 0..(n - 1)
      /\ \A x, y \in S : <<x, y>> \in R => rank(x) < rank(y)
      /\ \A k \in 1..n : \E x \in S : rank(x) = k - 1
  BY RankOf
<1>2. \A k \in 1..n : q[k] \in S /\ rank(q[k]) = k - 1
  OBVIOUS
<1>3. ASSUME NEW x \in S, NEW y \in S, rank(x) = rank(y) PROVE x = y
  <2>1. rank(x) \in Int /\ ~(rank(x) < rank(y)) /\ ~(rank(y) < rank(x))
    BY <1>0, <1>1, <1>3
  <2>2. <<x, y>> \notin R /\ <<y, x>> \notin R
    BY <1>1, <2>1
  <2> QED
    BY <2>2 DEF Orders
<1>4. ASSUME NEW x \in S PROVE \E k \in 1..n : q[k] = x
  <2>1. rank(x) + 1 \in 1..n /\ rank(x) = (rank(x) + 1) - 1
    BY <1>0, <1>1
  <2>2. rank(q[rank(x) + 1]) = rank(x) /\ q[rank(x) + 1] \in S
    BY <1>2, <2>1
  <2> QED
    BY <1>3, <2>1, <2>2
<1>5. ASSUME NEW j \in 1..n, NEW k \in 1..n PROVE j < k <=> <<q[j], q[k]>> \in R
  <2>1. q[j] \in S /\ q[k] \in S /\ rank(q[j]) = j - 1 /\ rank(q[k]) = k - 1
    BY <1>2
  <2>2. <<q[j], q[k]>> \in R => j < k
    BY <1>0, <1>1, <2>1
  <2>3. ASSUME j < k PROVE <<q[j], q[k]>> \in R
    <3>1. q[j] # q[k] /\ ~(<<q[k], q[j]>> \in R)
      BY <1>0, <1>1, <2>1, <2>3
    <3> QED
      BY <2>1, <3>1 DEF Orders
  <2> QED
    BY <2>2, <2>3
<1> QED
  BY <1>2, <1>4, <1>5 DEF Lists

\* No element is listed twice.
LEMMA ListsDistinct ==
  ASSUME NEW R, NEW S, IsFiniteSet(S), Orders(R, S), NEW q, Lists(q, R, S),
         NEW i \in 1..Cardinality(S), NEW j \in 1..Cardinality(S), q[i] = q[j]
  PROVE  i = j
<1>1. Cardinality(S) \in Nat
  BY FS_CardinalityType
<1>2. q[i] \in S /\ q[j] \in S /\ (i < j => <<q[i], q[j]>> \in R) /\ (j < i => <<q[j], q[i]>> \in R)
  BY DEF Lists
<1>3. <<q[i], q[i]>> \notin R
  BY <1>2 DEF Orders
<1>4. ~(i < j) /\ ~(j < i)
  BY <1>2, <1>3
<1> QED
  BY <1>1, <1>4

\* There is only one such sequence.
LEMMA ListsOnce ==
  ASSUME NEW R, NEW S, IsFiniteSet(S), Orders(R, S), NEW q, Lists(q, R, S), NEW p, Lists(p, R, S)
  PROVE  p = q
<1> DEFINE n == Cardinality(S)
<1>0. n \in Nat
  BY FS_CardinalityType
<1>1. ASSUME NEW s, Lists(s, R, S), NEW k \in 1..n PROVE s[k] \in S /\ Cardinality(Below(R, S, s[k])) = k - 1
  <2>1. s \in [1..n -> S] /\ (\A x \in S : \E j \in 1..n : s[j] = x)
        /\ (\A i, j \in 1..n : i < j <=> <<s[i], s[j]>> \in R)
    BY <1>1 DEF Lists
  <2> DEFINE f == [j \in 1..(k - 1) |-> s[j]]
             T == Below(R, S, s[k])
  <2>2. f \in [1..(k - 1) -> T]
    BY <1>0, <2>1 DEF Below
  <2>3. \A i, j \in 1..(k - 1) : f[i] = f[j] => i = j
    <3> SUFFICES ASSUME NEW i \in 1..(k - 1), NEW j \in 1..(k - 1), f[i] = f[j], i # j PROVE FALSE
      OBVIOUS
    <3>1. i \in 1..n /\ j \in 1..n /\ s[i] = s[j] /\ s[i] \in S
      BY <1>0, <2>1
    <3>2. <<s[i], s[i]>> \in R
      BY <1>0, <2>1, <3>1
    <3> QED
      BY <3>1, <3>2 DEF Orders
  <2>4. \A t \in T : \E j \in 1..(k - 1) : f[j] = t
    <3> SUFFICES ASSUME NEW t \in S, <<t, s[k]>> \in R PROVE \E j \in 1..(k - 1) : f[j] = t
      BY DEF Below
    <3>1. PICK j \in 1..n : s[j] = t
      BY <2>1
    <3>2. j < k
      BY <2>1, <3>1
    <3> QED
      BY <1>0, <3>1, <3>2
  <2>5. IsFiniteSet(1..(k - 1)) /\ Cardinality(1..(k - 1)) = k - 1
    <3>1. 1 \in Int /\ k - 1 \in Int /\ k - 1 >= 0
      BY <1>0
    <3>2. IsFiniteSet(1..(k - 1)) /\ Cardinality(1..(k - 1)) = IF 1 > k - 1 THEN 0 ELSE (k - 1) - 1 + 1
      BY <3>1, FS_Interval
    <3> QED
      BY <3>1, <3>2
  <2> DEFINE I == 1..(k - 1)
  <2> HIDE DEF f, T, I
  <2>6. /\ IsFiniteSet(I) /\ Cardinality(I) = k - 1 /\ f \in [I -> T]
        /\ (\A i, j \in I : f[i] = f[j] => i = j) /\ (\A t \in T : \E j \in I : f[j] = t)
    BY <2>2, <2>3, <2>4, <2>5 DEF I
  <2>7. Cardinality(T) = k - 1
    BY <2>6, SameSize
  <2> QED
    BY <2>1, <2>7 DEF T
<1>2. ASSUME NEW k \in 1..n PROVE p[k] = q[k]
  <2>1. /\ p[k] \in S /\ Cardinality(Below(R, S, p[k])) = k - 1
        /\ q[k] \in S /\ Cardinality(Below(R, S, q[k])) = k - 1
    BY <1>1, <1>2
  <2>2. \A x, y \in S : <<x, y>> \in R => Cardinality(Below(R, S, x)) < Cardinality(Below(R, S, y))
    BY RankOf
  <2>3. <<p[k], q[k]>> \notin R /\ <<q[k], p[k]>> \notin R
    <3>1. k - 1 \in Int /\ ~(k - 1 < k - 1)
      BY <1>0
    <3> QED
      BY <2>1, <2>2, <3>1
  <2> QED
    BY <2>1, <2>3 DEF Orders
<1>3. p \in [1..n -> S] /\ q \in [1..n -> S]
  BY DEF Lists
<1>4. \A k \in 1..n : p[k] = q[k]
  BY <1>2
<1>5. p = [k \in 1..n |-> p[k]] /\ q = [k \in 1..n |-> q[k]]
  BY <1>3
<1> HIDE DEF n
<1> QED
  BY <1>4, <1>5

\* A page of one starts at every element, and the pages behind the last are empty.
PageOfOne(q, k) == SubSeq(q, k, IF k < Len(q) THEN k ELSE Len(q))
\* The pages of one of a sequence, put together, are the sequence.
LEMMA PagesJoin ==
  ASSUME NEW S, NEW q \in Seq(S), NEW n \in Nat, Len(q) <= n
  PROVE  FlattenSeq([k \in 1..n |-> PageOfOne(q, k)]) = q
<1> DEFINE p == [k \in 1..n |-> PageOfOne(q, k)]
           upto(k) == IF k < Len(q) THEN k ELSE Len(q)
           g == [k \in 1..n |-> SubSeq(q, 1, upto(k))]
           Joins(h) == h = [i \in 1..n |-> IF i = 1 THEN p[i] ELSE h[i - 1] \o p[i]]
<1>0. Len(p) = n /\ Len(q) \in Nat
  OBVIOUS
<1>1. CASE n = 0
  <2>1. p = << >> /\ q = << >>
    BY <1>0, <1>1, EmptySeq
  <2> QED
    BY <1>0, <1>1, <2>1 DEF FlattenSeq
<1>2. CASE n # 0
  <2>1. Joins(g)
    <3>1. ASSUME NEW i \in 1..n PROVE g[i] = IF i = 1 THEN p[i] ELSE g[i - 1] \o p[i]
      <4>1. CASE i = 1
        BY <4>1 DEF PageOfOne
      <4>2. CASE i # 1 /\ i <= Len(q)
        <5>1. upto(i) = i /\ upto(i - 1) = i - 1 /\ i - 1 \in 1..n /\ p[i] = SubSeq(q, i, i)
          BY <1>0, <4>2 DEF PageOfOne
        <5>2. SubSeq(q, 1, i - 1) \o SubSeq(q, (i - 1) + 1, i) = SubSeq(q, 1, i)
          <6>1. 1 \in 1..(Len(q) + 1) /\ i - 1 \in (1 - 1)..Len(q) /\ i \in (i - 1)..Len(q)
            BY <1>0, <4>2
          <6> QED
            BY <6>1, ConcatAdjacentSubSeq
        <5>3. (i - 1) + 1 = i
          OBVIOUS
        <5> QED
          BY <4>2, <5>1, <5>2, <5>3
      <4>3. CASE i # 1 /\ i > Len(q)
        <5>1. upto(i) = Len(q) /\ upto(i - 1) = Len(q) /\ i - 1 \in 1..n /\ p[i] = SubSeq(q, i, Len(q))
          BY <1>0, <4>3 DEF PageOfOne
        <5>2. p[i] = << >>
          BY <1>0, <4>3, <5>1, SubSeqEmpty
        <5>3. SubSeq(q, 1, Len(q)) = q
          BY SubSeqFull
        <5> QED
          BY <4>3, <5>1, <5>2, <5>3, ConcatEmptySeq
      <4>4. i = 1 \/ (i # 1 /\ i <= Len(q)) \/ (i # 1 /\ i > Len(q))
        BY <1>0
      <4> HIDE DEF g, p
      <4> QED
        BY <4>1, <4>2, <4>3, <4>4
    <3>2. \A i \in 1..n : g[i] = IF i = 1 THEN p[i] ELSE g[i - 1] \o p[i]
      BY <3>1
    <3>3. g = [i \in 1..n |-> g[i]]
      OBVIOUS
    <3> HIDE DEF g, p
    <3> QED
      BY <3>2, <3>3
  <2>2. ASSUME NEW h, Joins(h) PROVE h = g
    <3> DEFINE D == {k \in 1..n : h[k] # g[k]}
    <3>1. CASE D = {}
      <4>1. h = [i \in 1..n |-> h[i]] /\ g = [i \in 1..n |-> g[i]]
        BY <2>2
      <4> HIDE DEF g, p
      <4> QED
        BY <3>1, <4>1
    <3>2. CASE D # {}
      <4>1. PICK k \in D : \A j \in D : k <= j
        <5>1. D \subseteq Nat
          OBVIOUS
        <5> HIDE DEF D
        <5> QED
          BY <3>2, <5>1, LeastOf
      <4>2. k \in 1..n /\ h[k] # g[k]
        OBVIOUS
      <4>3. k # 1 => k - 1 \in 1..n /\ k - 1 \notin D
        <5>1. k # 1 => k - 1 \in 1..n /\ ~(k <= k - 1)
          BY <4>2
        <5> HIDE DEF D
        <5> QED
          BY <4>1, <5>1
      <4> HIDE DEF g, p
      <4>4. k # 1 => k - 1 \in 1..n /\ h[k - 1] = g[k - 1]
        BY <4>3
      <4> HIDE DEF D
      <4>5. CASE k = 1
        BY <2>1, <2>2, <4>2, <4>5
      <4>6. CASE k # 1
        <5>1. h[k] = h[k - 1] \o p[k]
          BY <2>2, <4>2, <4>6
        <5>2. g[k] = g[k - 1] \o p[k]
          BY <2>1, <4>2, <4>6
        <5> QED
          BY <4>2, <4>4, <4>6, <5>1, <5>2
      <4> QED
        BY <4>5, <4>6
    <3> QED
      BY <3>1, <3>2
  <2>3. g[n] = q
    BY <1>0, <1>2, SubSeqFull
  <2> HIDE DEF g, p
  <2>4. FlattenSeq(p) = g[n]
    BY <1>0, <1>2, <2>1, <2>2 DEF FlattenSeq
  <2> QED
    BY <2>3, <2>4 DEF p
<1> QED
  BY <1>1, <1>2

--------------------------------------------------------------------------
(* The shape of the flow and tag stores.                                   *)

HeadValues == [version : VersionIds]
VersionValues == [flow : Flows, created : 0..MaxCalls]
\* What a document may hold: a version its flow and time, a head or a tag a version.
Fits(d) == IF d.kind = "version" THEN VersionValues ELSE HeadValues
Puts == {p \in [op : {"put"}, doc : Docs, value : Values, pc : {"called", "opened", "written"}, fd : 0..MaxCalls] :
           p.value \in Fits(p.doc) /\ (p.pc = "called" <=> p.fd = 0)}
Deletes == {p \in [op : {"delete"}, doc : Docs, value : {Absent}, pc : {"called", "exists"}, fd : {0}] :
           p.doc.kind = "tag"}
Outcomes == {"ok", "err", "absent", "deleted"}
Ended == {Idle} \cup {Outcome(o) : o \in Outcomes}

\* Shape of the state; only the file stores have calls half way.
Shape ==
  /\ backend \in Backends /\ calls \in 0..MaxCalls
  /\ table \in [Docs -> Values \cup {Absent}]
  /\ target \in [Docs -> 0..MaxCalls] /\ tmp \in [Docs -> 0..MaxCalls]
  /\ content \in [Inodes -> {Empty, Torn} \cup {Whole(v) : v \in Values}]
  /\ call \in [Clients -> Ended \cup Puts \cup Deletes]
  /\ \A c \in Clients : call[c] \in Puts /\ call[c].pc # "called" => backend = "file"
TableFits == \A d \in Docs : table[d] \in Fits(d) \cup {Absent}

\* What tells the states of a call apart.
LEMMA CallKinds ==
  /\ \A x \in Ended : x.op \in {"idle", "returned"}
  /\ \A x \in Puts : x.op = "put"
  /\ \A x \in Deletes : x.op = "delete"
  BY DEF Ended, Puts, Deletes, Idle, Outcome

\* No document is none (FlowStoresAssumption).
LEMMA NotAbsent ==
  /\ Absent \notin Values /\ Absent # NotParsed /\ Lost # Absent /\ Lost # NotParsed
  /\ \A d : Fits(d) \subseteq Values
  /\ MaxCalls \in Nat /\ Inodes = 1..MaxCalls
  /\ \A x, y \in Values \cup {NotParsed} : <<x, y>> # Absent
  BY FlowStoresAssumption DEF Values, Fits, HeadValues, VersionValues, NotParsed, Lost, Inodes

\* What cannot be read and what is lost is no value.
LEMMA NotValues == NotParsed \notin Values /\ Lost \notin Values
<1>1. \A x \in HeadValues : DOMAIN x = {"version"}
  BY DEF HeadValues
<1>2. \A x \in VersionValues : DOMAIN x = {"flow", "created"}
  BY DEF VersionValues
<1>3. DOMAIN NotParsed = {"error"} /\ DOMAIN Lost = {"error"}
  BY DEF NotParsed, Lost
<1> QED
  BY <1>1, <1>2, <1>3 DEF Values, HeadValues, VersionValues

\* The state of Init has the shape.
LEMMA InitShape == Init => Shape /\ TableFits
  BY FlowStoresAssumption, NotAbsent, CallKinds DEF Init, Shape, TableFits, Inodes, Ended, Idle

\* What a call puts into a document fits it.
LEMMA BeginKinds ==
  ASSUME calls \in 0..MaxCalls, calls < MaxCalls
  PROVE  /\ \A v \in VersionIds, f \in Flows :
              /\ VersionOf(v) \in Docs /\ VersionOf(v).kind = "version"
              /\ [flow |-> f, created |-> Now] \in Fits(VersionOf(v))
         /\ \A f \in Flows, v \in VersionIds :
              HeadOf(f) \in Docs /\ HeadOf(f).kind = "head" /\ [version |-> v] \in Fits(HeadOf(f))
         /\ \A f \in Flows, t \in Tags, v \in VersionIds :
              TagOf(f, t) \in Docs /\ TagOf(f, t).kind = "tag" /\ [version |-> v] \in Fits(TagOf(f, t))
<1>1. Now \in 0..MaxCalls
  BY FlowStoresAssumption DEF Now
<1>2. \A v \in VersionIds : VersionOf(v) \in Docs /\ VersionOf(v).kind = "version"
  BY DEF Docs, VersionOf
<1>3. \A f \in Flows : HeadOf(f) \in Docs /\ HeadOf(f).kind = "head"
  BY DEF Docs, HeadOf
<1>4. \A f \in Flows, t \in Tags : TagOf(f, t) \in Docs /\ TagOf(f, t).kind = "tag"
  BY DEF Docs, TagOf
<1> QED
  BY <1>1, <1>2, <1>3, <1>4 DEF Fits, HeadValues, VersionValues

\* The four calls that change something begin alike.
Begins(c) ==
  \E op \in {"put", "delete"}, d \in Docs, v \in Values \cup {Absent} :
    /\ Begin(c, op, d, v)
    /\ IF op = "put" THEN v \in Fits(d) ELSE d.kind = "tag" /\ v = Absent
\* A call of put_version, put_head, set_tag or delete_tag does no more than begin.
LEMMA CallsBegin ==
  ASSUME Shape, NEW c \in Clients,
         \/ \E v \in VersionIds, f \in Flows : put_version(c, v, f)
         \/ \E f \in Flows, v \in VersionIds : put_head(c, f, v)
         \/ \E f \in Flows, t \in Tags, v \in VersionIds : set_tag(c, f, t, v)
         \/ \E f \in Flows, t \in Tags : delete_tag(c, f, t)
  PROVE  Begins(c)
<1>0. calls \in 0..MaxCalls
  BY DEF Shape
<1>1. ASSUME NEW v \in VersionIds, NEW f \in Flows, put_version(c, v, f) PROVE Begins(c)
  <2>1. calls < MaxCalls
    BY <1>1 DEF put_version, Begin
  <2> QED
    BY <1>0, <1>1, <2>1, BeginKinds, NotAbsent DEF put_version, Begins
<1>2. ASSUME NEW v \in VersionIds, NEW f \in Flows, put_head(c, f, v) PROVE Begins(c)
  <2>1. calls < MaxCalls
    BY <1>2 DEF put_head, Begin
  <2> QED
    BY <1>0, <1>2, <2>1, BeginKinds, NotAbsent DEF put_head, Begins
<1>3. ASSUME NEW f \in Flows, NEW t \in Tags, NEW v \in VersionIds, set_tag(c, f, t, v) PROVE Begins(c)
  <2>1. calls < MaxCalls
    BY <1>3 DEF set_tag, Begin
  <2> QED
    BY <1>0, <1>3, <2>1, BeginKinds, NotAbsent DEF set_tag, Begins
<1>4. ASSUME NEW f \in Flows, NEW t \in Tags, delete_tag(c, f, t) PROVE Begins(c)
  <2>1. TagOf(f, t) \in Docs /\ TagOf(f, t).kind = "tag"
    BY DEF Docs, TagOf
  <2> QED
    BY <1>4, <2>1, NotAbsent DEF delete_tag, Begins
<1> QED
  BY <1>1, <1>2, <1>3, <1>4

\* A step is the begin of a call, a step of a file store or a database, a crash, or one of the
\* reader, which changes no document.
LEMMA StepCases ==
  ASSUME Shape, Next
  PROVE  \/ \E c \in Clients :
              \/ Begins(c) \/ open_tmp(c) \/ write_tmp(c) \/ write_fails(c) \/ rename(c)
              \/ file_delete_tag(c)
              \/ sql_put_version(c) \/ sql_put_head(c) \/ sql_set_tag(c) \/ sql_delete_tag(c)
         \/ Crash
         \/ UNCHANGED <<backend, table, fs, call, calls, clash, raced>>
  BY CallsBegin DEF Next, Change, Read, atomic_write

\* What the call of a client may be, by its operation.
LEMMA CallOf ==
  ASSUME Shape, NEW c \in Clients
  PROVE  /\ call[c].op = "put" => call[c] \in Puts
         /\ call[c].op = "delete" => call[c] \in Deletes
         /\ call[c].op \in {"idle", "returned"} => call[c] \in Ended
         /\ DOMAIN call = Clients
  BY CallKinds DEF Shape

\* A call that ends keeps the calls' shape.
LEMMA FinishCalls ==
  ASSUME Shape, NEW c \in Clients, NEW o \in Outcomes, Finish(c, o), backend' = backend
  PROVE  /\ call' \in [Clients -> Ended \cup Puts \cup Deletes]
         /\ \A e \in Clients : call'[e] \in Puts /\ call'[e].pc # "called" => backend' = "file"
         /\ call'[c] = Outcome(o) /\ Outcome(o) \in Ended
         /\ \A e \in Clients \ {c} : call'[e] = call[e]
<1>1. Outcome(o) \in Ended
  BY DEF Ended
<1>2. call' = [call EXCEPT ![c] = Outcome(o)]
  BY DEF Finish
<1>3. Outcome(o) \notin Puts
  BY <1>1, CallKinds
<1> QED
  BY <1>1, <1>2, <1>3 DEF Shape

\* A call that goes to its next step keeps everything else.
LEMMA GotoPut ==
  ASSUME Shape, NEW c \in Clients, call[c].op = "put", backend = "file", backend' = backend,
         NEW pc \in {"opened", "written"}, NEW fd \in Inodes, Goto(c, pc, fd)
  PROVE  /\ call' \in [Clients -> Ended \cup Puts \cup Deletes]
         /\ \A e \in Clients : call'[e] \in Puts /\ call'[e].pc # "called" => backend' = "file"
         /\ call'[c] \in Puts /\ call'[c].op = "put" /\ call'[c].pc = pc /\ call'[c].fd = fd
         /\ call'[c].doc = call[c].doc /\ call'[c].value = call[c].value
         /\ \A e \in Clients \ {c} : call'[e] = call[e]
<1>1. call[c] \in Puts /\ DOMAIN call = Clients
  BY CallOf
<1>2. call' = [call EXCEPT ![c].pc = pc, ![c].fd = fd]
  BY DEF Goto
<1>3. call'[c] = [call[c] EXCEPT !.pc = pc, !.fd = fd] /\ \A e \in Clients \ {c} : call'[e] = call[e]
  BY <1>1, <1>2
<1>4. call'[c] \in Puts
  <2>1. call'[c] \in [op : {"put"}, doc : Docs, value : Values, pc : {"called", "opened", "written"}, fd : 0..MaxCalls]
    <3>1. call[c] \in [op : {"put"}, doc : Docs, value : Values, pc : {"called", "opened", "written"}, fd : 0..MaxCalls]
      BY <1>1 DEF Puts
    <3>2. fd \in 0..MaxCalls
      BY NotAbsent
    <3> QED
      BY <1>3, <3>1, <3>2
  <2>2. /\ call'[c].value = call[c].value /\ call'[c].doc = call[c].doc
        /\ call'[c].pc = pc /\ call'[c].fd = fd
    BY <1>1, <1>3 DEF Puts
  <2>3. call[c].value \in Fits(call[c].doc)
    BY <1>1 DEF Puts
  <2>4. pc # "called" /\ fd # 0
    BY NotAbsent
  <2> QED
    BY <2>1, <2>2, <2>3, <2>4 DEF Puts
<1>5. call'[c].op = "put" /\ call'[c].pc = pc /\ call'[c].fd = fd
      /\ call'[c].doc = call[c].doc /\ call'[c].value = call[c].value
  BY <1>1, <1>3 DEF Puts
<1>6. call' \in [Clients -> Ended \cup Puts \cup Deletes]
  BY <1>2, <1>3, <1>4 DEF Shape
<1> QED
  BY <1>3, <1>4, <1>5, <1>6

--------------------------------------------------------------------------
(* There is always a fresh inode: a call uses at most one, so the inodes   *)
(* in use and the calls still to open their file are no more than the      *)
(* calls made.                                                             *)

Putting == {c \in Clients : call[c].op = "put"}
InUse == ({target[d] : d \in Docs} \cup {tmp[d] : d \in Docs} \cup {call[c].fd : c \in Putting}) \ {0}
Opening == {c \in Putting : call[c].pc = "called"}
CountInv == IsFiniteSet(Opening) /\ Cardinality(InUse) + Cardinality(Opening) <= calls

\* The inodes in use are inodes, and finitely many.
LEMMA InUseFinite ==
  ASSUME Shape
  PROVE  /\ InUse \subseteq Inodes /\ IsFiniteSet(InUse) /\ Cardinality(InUse) \in Nat
         /\ IsFiniteSet(Inodes) /\ Cardinality(Inodes) = MaxCalls
<1>1. \A c \in Putting : call[c].fd \in 0..MaxCalls
  BY CallOf DEF Putting, Puts
<1>2. InUse \subseteq Inodes
  BY <1>1, NotAbsent DEF InUse, Shape
<1>3. IsFiniteSet(Inodes) /\ Cardinality(Inodes) = MaxCalls
  BY FS_Interval, NotAbsent
<1> QED
  BY <1>2, <1>3, FS_Subset, FS_CardinalityType

\* Fewer inodes in use and fewer calls to come keep the count.
LEMMA CountShrinks ==
  ASSUME NEW U, NEW O, NEW V, NEW P, NEW n \in Nat, NEW m \in Nat,
         IsFiniteSet(U), IsFiniteSet(O), Cardinality(U) + Cardinality(O) <= n,
         V \subseteq U, P \subseteq O, n <= m
  PROVE  IsFiniteSet(P) /\ Cardinality(V) + Cardinality(P) <= m
<1>1. IsFiniteSet(V) /\ Cardinality(V) <= Cardinality(U) /\ IsFiniteSet(P) /\ Cardinality(P) <= Cardinality(O)
  BY FS_Subset
<1>2. Cardinality(V) \in Nat /\ Cardinality(U) \in Nat /\ Cardinality(O) \in Nat /\ Cardinality(P) \in Nat
  BY <1>1, FS_CardinalityType
<1> QED
  BY <1>1, <1>2

\* A call that is about to open its file finds an inode nobody uses.
LEMMA FreshExists ==
  ASSUME Shape, CountInv, NEW c \in Opening
  PROVE  Fresh \in Inodes /\ Fresh \notin InUse /\ Fresh # 0
<1>1. Cardinality(Opening) >= 1 /\ Cardinality(Opening) \in Nat
  <2>1. IsFiniteSet(Opening) /\ Opening # {}
    BY DEF CountInv
  <2> QED
    BY <2>1, FS_EmptySet, FS_CardinalityType
<1>2. Cardinality(InUse) < Cardinality(Inodes)
  BY <1>1, InUseFinite, NotAbsent DEF CountInv, Shape
<1>3. PICK j \in Inodes : j \notin InUse
  BY <1>2, InUseFinite
<1>4. \A i \in Inodes : i # 0
  BY NotAbsent
<1>5. \A i \in Inodes : i \notin InUse =>
        \A d \in Docs : i \notin {target[d], tmp[d]} /\ \A e \in Clients : call[e].op = "put" => call[e].fd # i
  BY <1>4 DEF InUse, Putting
<1>6. \E k \in Inodes : \A d \in Docs : k \notin {target[d], tmp[d]}
                                      /\ \A e \in Clients : call[e].op = "put" => call[e].fd # k
  BY <1>3, <1>5
<1>7. Fresh \in Inodes /\ \A d \in Docs : Fresh \notin {target[d], tmp[d]}
                                      /\ \A e \in Clients : call[e].op = "put" => call[e].fd # Fresh
  BY <1>6 DEF Fresh
<1>8. call[c] \in Puts /\ call[c].doc \in Docs
  BY CallOf DEF Opening, Putting, Puts
<1> QED
  BY <1>4, <1>7, <1>8 DEF InUse, Putting

\* One element more.
LEMMA AddAtMostOne ==
  ASSUME NEW S, NEW x, IsFiniteSet(S)
  PROVE  /\ IsFiniteSet(S \cup {x}) /\ Cardinality(S \cup {x}) <= Cardinality(S) + 1
         /\ Cardinality(S) \in Nat /\ Cardinality(S \cup {x}) \in Nat
<1>1. Cardinality(S) \in Nat
  BY FS_CardinalityType
<1>2. IsFiniteSet(S \cup {x})
      /\ Cardinality(S \cup {x}) = IF x \in S THEN Cardinality(S) ELSE Cardinality(S) + 1
  BY FS_AddElement
<1> QED
  BY <1>1, <1>2

\* An inode more and a call less keep the count.
LEMMA CountMoves ==
  ASSUME NEW U, NEW O, NEW V, NEW P, NEW n \in Nat, NEW i, NEW c \in O,
         IsFiniteSet(U), IsFiniteSet(O), Cardinality(U) + Cardinality(O) <= n,
         V \subseteq U \cup {i}, P \subseteq O \ {c}
  PROVE  IsFiniteSet(P) /\ Cardinality(V) + Cardinality(P) <= n
<1>1. IsFiniteSet(U \cup {i}) /\ Cardinality(U \cup {i}) <= Cardinality(U) + 1 /\ Cardinality(U) \in Nat
  BY AddAtMostOne
<1>2. IsFiniteSet(O \ {c}) /\ Cardinality(O \ {c}) = Cardinality(O) - 1 /\ Cardinality(O) \in Nat
  BY FS_RemoveElement, FS_CardinalityType
<1>3. Cardinality(U \cup {i}) \in Nat /\ Cardinality(O \ {c}) \in Nat
  BY <1>1, <1>2, FS_CardinalityType
<1>4. Cardinality(U \cup {i}) + Cardinality(O \ {c}) <= n
  BY <1>1, <1>2, <1>3
<1> DEFINE W == U \cup {i}
           Q == O \ {c}
<1>5. n <= n
  OBVIOUS
<1> HIDE DEF W, Q
<1>6. IsFiniteSet(W) /\ IsFiniteSet(Q) /\ Cardinality(W) + Cardinality(Q) <= n /\ V \subseteq W /\ P \subseteq Q
  BY <1>1, <1>2, <1>4 DEF W, Q
<1> QED
  BY <1>5, <1>6, CountShrinks

--------------------------------------------------------------------------
(* Files.                                                                  *)

\* No inode has two names.
Distinct ==
  /\ \A d, e \in Docs : target[d] # 0 /\ target[d] = target[e] => d = e
  /\ \A d, e \in Docs : tmp[d] # 0 /\ tmp[d] = tmp[e] => d = e
  /\ \A d, e \in Docs : target[d] # 0 => target[d] # tmp[e]
StoreInv == Shape /\ CountInv /\ Distinct /\ TableFits

\* What a file of d may hold.
Bytes(d) == {Empty, Torn} \cup {Whole(v) : v \in Fits(d)}
\* An inode belongs to one document, whoever has it open and however saves overlap.
Owned ==
  /\ \A c \in Putting : call[c].pc # "called" => \A d \in Docs : call[c].fd \in {target[d], tmp[d]} => d = Doc(c)
  /\ \A c, e \in Putting : call[c].pc # "called" /\ call[e].pc # "called" /\ call[c].fd = call[e].fd => Doc(c) = Doc(e)
  /\ \A d \in Docs : (target[d] # 0 => content[target[d]] \in Bytes(d)) /\ (tmp[d] # 0 => content[tmp[d]] \in Bytes(d))
\* Saves that overlap are known, and on files their documents.
Overlap ==
  /\ clash \subseteq Putting /\ raced \subseteq Docs /\ (backend # "file" => raced = {})
  /\ \A c, e \in Putting : Doc(c) = Doc(e) /\ c # e => c \in clash
  /\ backend = "file" => \A c \in clash : Doc(c) \in raced
\* The temporary file of a save that overlaps no other is its own, is empty when opened and
\* whole when written; a name leads to a whole file unless its document is lost.
OwnTmp == \A c \in Putting \ clash :
  /\ call[c].pc # "called" => call[c].fd = tmp[Doc(c)]
  /\ call[c].pc = "opened" => content[call[c].fd] = Empty
  /\ call[c].pc = "written" => content[call[c].fd] = Whole(call[c].value)
WholeTargets == \A d \in Docs \ raced : target[d] # 0 => \E v \in Fits(d) : content[target[d]] = Whole(v)
Serial == Overlap /\ Owned /\ (backend = "file" => OwnTmp /\ WholeTargets)

\* Nothing is stored and nobody saves initially.
LEMMA InitStoreInv == Init => StoreInv /\ Serial
<1> SUFFICES ASSUME Init PROVE StoreInv /\ Serial
  OBVIOUS
<1>1. Putting = {}
  BY DEF Init, Putting, Idle
<1>2. InUse = {} /\ Opening = {}
  BY <1>1 DEF Init, InUse, Opening
<1>3. CountInv
  BY <1>2, FS_EmptySet DEF CountInv, Init
<1>4. Distinct /\ Serial
  BY <1>1 DEF Init, Distinct, Serial, Overlap, Owned, OwnTmp, WholeTargets
<1> QED
  BY <1>3, <1>4, InitShape DEF StoreInv

\* The begin of a call: its record, and what it leaves alone.
LEMMA BeginCall ==
  ASSUME StoreInv, NEW c \in Clients, Begins(c)
  PROVE  /\ call'[c] \in Puts \cup Deletes /\ call'[c].pc = "called" /\ call'[c].fd = 0
         /\ call[c].op \in {"idle", "returned"}
         /\ call' \in [Clients -> Ended \cup Puts \cup Deletes]
         /\ \A e \in Clients \ {c} : call'[e] = call[e]
         /\ calls' = calls + 1 /\ calls < MaxCalls /\ UNCHANGED <<backend, table, fs>>
         /\ IF call'[c].op = "put" /\ Savers(call'[c].doc) # {}
            THEN /\ clash' = clash \cup Savers(call'[c].doc) \cup {c}
                 /\ raced' = IF backend = "file" THEN raced \cup {call'[c].doc} ELSE raced
            ELSE UNCHANGED <<clash, raced>>
<1>1. PICK op \in {"put", "delete"}, d \in Docs, v \in Values \cup {Absent} :
        /\ Begin(c, op, d, v)
        /\ IF op = "put" THEN v \in Fits(d) ELSE d.kind = "tag" /\ v = Absent
  BY DEF Begins
<1> DEFINE r == [op |-> op, doc |-> d, value |-> v, pc |-> "called", fd |-> 0]
<1>2. r \in Puts \cup Deletes
  <2>1. CASE op = "put"
    BY <1>1, <2>1, NotAbsent DEF Puts
  <2>2. CASE op = "delete"
    BY <1>1, <2>2 DEF Deletes
  <2> QED
    BY <2>1, <2>2
<1>3. call' = [call EXCEPT ![c] = r] /\ call \in [Clients -> Ended \cup Puts \cup Deletes]
  BY <1>1 DEF Begin, StoreInv, Shape
<1>4. call'[c] = r /\ \A e \in Clients \ {c} : call'[e] = call[e]
  BY <1>3
<1>5. call'[c].op = op /\ call'[c].doc = d
  BY <1>4
<1> HIDE DEF r
<1>6. IF op = "put" /\ Savers(d) # {}
      THEN clash' = clash \cup Savers(d) \cup {c} /\ raced' = IF backend = "file" THEN raced \cup {d} ELSE raced
      ELSE UNCHANGED <<clash, raced>>
  BY <1>1 DEF Begin
<1>7. call[c].op \in {"idle", "returned"} /\ calls' = calls + 1 /\ calls < MaxCalls /\ UNCHANGED <<backend, table, fs>>
  BY <1>1 DEF Begin
<1>8. call'[c].pc = "called" /\ call'[c].fd = 0
  BY <1>4 DEF r
<1> QED
  BY <1>2, <1>3, <1>4, <1>5, <1>6, <1>7, <1>8

\* Begin of a call.
LEMMA BeginKeeps ==
  ASSUME StoreInv, NEW c \in Clients, Begins(c)
  PROVE  StoreInv' /\ (Serial => Serial')
<1> USE BeginCall
<1>1. Shape'
  <2>1. /\ call' \in [Clients -> Ended \cup Puts \cup Deletes] /\ UNCHANGED <<backend, table, target, tmp, content>>
        /\ (\A e \in Clients \ {c} : call'[e] = call[e]) /\ call'[c].pc = "called"
    BY DEF fs
  <2>2. calls' = calls + 1 /\ calls < MaxCalls /\ calls \in 0..MaxCalls
    BY DEF StoreInv, Shape
  <2>3. calls' \in 0..MaxCalls
    BY <2>2, NotAbsent
  <2> QED
    BY <2>1, <2>3 DEF StoreInv, Shape
<1>2. c \notin Putting /\ Putting' \subseteq Putting \cup {c}
  BY DEF Putting
<1>3. InUse' \subseteq InUse
  BY <1>2 DEF InUse, fs, Putting
<1>4. Opening' \subseteq Opening \cup {c}
  BY <1>2 DEF Opening, Putting
<1>5. CountInv'
  <2>1. /\ IsFiniteSet(Opening \cup {c}) /\ Cardinality(Opening \cup {c}) <= Cardinality(Opening) + 1
        /\ Cardinality(Opening) \in Nat
    BY AddAtMostOne DEF StoreInv, CountInv
  <2> DEFINE O == Opening \cup {c}
  <2>2. IsFiniteSet(O) /\ IsFiniteSet(InUse) /\ Cardinality(InUse) + Cardinality(O) <= calls + 1
    <3>1. Cardinality(O) \in Nat
      BY <2>1, FS_CardinalityType
    <3> QED
      BY <2>1, <3>1, InUseFinite DEF StoreInv, CountInv, Shape
  <2>3. calls + 1 \in Nat /\ calls + 1 <= calls + 1 /\ calls' = calls + 1
    BY DEF StoreInv, Shape
  <2> HIDE DEF O
  <2>4. Opening' \subseteq O
    BY <1>4 DEF O
  <2>5. IsFiniteSet(Opening') /\ Cardinality(InUse') + Cardinality(Opening') <= calls + 1
    BY <1>3, <2>2, <2>3, <2>4, CountShrinks
  <2> QED
    BY <2>3, <2>5 DEF CountInv
<1>6. Distinct' /\ TableFits'
  BY DEF StoreInv, Distinct, TableFits, fs
<1>7. ASSUME Serial PROVE Serial'
  <2>0. call'[c].op = "put" => call'[c] \in Puts /\ call'[c].doc \in Docs
    BY CallKinds DEF Puts
  <2>1. Savers(call'[c].doc) = {e \in Putting : Doc(e) = call'[c].doc}
    BY DEF Savers, Putting
  <2>2. Overlap'
    <3>1. /\ clash' \subseteq clash \cup Putting \cup {c} /\ clash \subseteq clash'
          /\ (c \in clash' => call'[c].op = "put")
      BY <1>2, <1>7, <2>1 DEF Serial, Overlap
    <3>2. clash' \subseteq Putting' /\ raced' \subseteq Docs /\ (backend' # "file" => raced' = {})
      BY <1>2, <1>7, <2>0, <2>1, <3>1 DEF Serial, Overlap, Putting
    <3>3. ASSUME NEW x \in Putting', NEW y \in Putting', Doc(x)' = Doc(y)', x # y PROVE x \in clash'
      <4>1. CASE x # c /\ y # c
        BY <1>2, <1>7, <3>1, <3>3, <4>1 DEF Serial, Overlap, Putting, Doc
      <4>2. CASE x = c
        <5>1. call'[c].op = "put" /\ y \in Savers(call'[c].doc)
          BY <3>3, <4>2, <2>1 DEF Putting, Doc
        <5> QED
          BY <4>2, <5>1
      <4>3. CASE y = c
        <5>1. call'[c].op = "put" /\ x \in Savers(call'[c].doc)
          BY <3>3, <4>3, <2>1 DEF Putting, Doc
        <5> QED
          BY <4>3, <5>1
      <4> QED
        BY <4>1, <4>2, <4>3
    <3>4. ASSUME backend = "file", NEW x \in clash' PROVE Doc(x)' \in raced'
      <4>1. CASE x = c
        BY <1>2, <1>7, <3>4, <4>1 DEF Serial, Overlap, Doc
      <4>2. CASE x # c
        BY <1>2, <1>7, <2>1, <3>1, <3>4, <4>2 DEF Serial, Overlap, Doc, Putting
      <4> QED
        BY <4>1, <4>2
    <3> QED
      BY <3>2, <3>3, <3>4 DEF Overlap
  <2>3. Owned'
    BY <1>7, <1>2 DEF Serial, Owned, Putting, Doc, fs
  <2>4. ASSUME backend = "file" PROVE OwnTmp' /\ WholeTargets'
    <3>1. clash \subseteq clash' /\ raced \subseteq raced'
      BY <1>2, <1>7 DEF Serial, Overlap
    <3>2. OwnTmp'
      BY <1>7, <1>2, <2>4, <3>1 DEF Serial, OwnTmp, Putting, Doc, fs
    <3>3. WholeTargets'
      BY <1>7, <2>4, <3>1 DEF Serial, WholeTargets, fs
    <3> QED
      BY <3>2, <3>3
  <2> QED
    BY <2>2, <2>3, <2>4 DEF Serial
<1> QED
  BY <1>1, <1>5, <1>6, <1>7 DEF StoreInv

\* The temporary file is created or truncated: the call has its inode, which is no target.
LEMMA OpenTmp ==
  ASSUME StoreInv, NEW c \in Clients, open_tmp(c)
  PROVE  \E fd \in Inodes :
           /\ call[c] \in Puts /\ call[c].pc = "called" /\ c \in Opening /\ Doc(c) \in Docs
           /\ fd = tmp[Doc(c)] \/ (fd \notin InUse /\ tmp[Doc(c)] = 0)
           /\ tmp' = [tmp EXCEPT ![Doc(c)] = fd] /\ content' = [content EXCEPT ![fd] = Empty]
           /\ Goto(c, "opened", fd) /\ backend = "file" /\ UNCHANGED <<backend, table, target, calls, raced>>
<1>1. call[c] \in Puts /\ call[c].pc = "called" /\ c \in Opening /\ Doc(c) \in Docs
  BY CallOf DEF open_tmp, AtStep, Opening, Putting, Doc, Puts, StoreInv
<1>2. Fresh \in Inodes /\ Fresh \notin InUse
  BY <1>1, FreshExists DEF StoreInv
<1>3. tmp[Doc(c)] # 0 => tmp[Doc(c)] \in Inodes
  BY <1>1, NotAbsent DEF StoreInv, Shape
<1> QED
  BY <1>1, <1>2, <1>3 DEF open_tmp

\* Opening the temporary file takes the inode it has, or one that nobody uses.
LEMMA OpenKeeps ==
  ASSUME StoreInv, NEW c \in Clients, open_tmp(c)
  PROVE  StoreInv' /\ (Serial => Serial')
<1>0. PICK fd \in Inodes :
           /\ call[c] \in Puts /\ call[c].pc = "called" /\ c \in Opening /\ Doc(c) \in Docs
           /\ fd = tmp[Doc(c)] \/ (fd \notin InUse /\ tmp[Doc(c)] = 0)
           /\ tmp' = [tmp EXCEPT ![Doc(c)] = fd] /\ content' = [content EXCEPT ![fd] = Empty]
           /\ Goto(c, "opened", fd) /\ backend = "file" /\ UNCHANGED <<backend, table, target, calls, raced>>
  BY OpenTmp
<1>1. call[c].op = "put" /\ fd # 0 /\ fd \in 0..MaxCalls
  BY <1>0, NotAbsent DEF Puts
<1>2. /\ call' \in [Clients -> Ended \cup Puts \cup Deletes]
      /\ \A e \in Clients : call'[e] \in Puts /\ call'[e].pc # "called" => backend' = "file"
      /\ call'[c] \in Puts /\ call'[c].op = "put" /\ call'[c].pc = "opened" /\ call'[c].fd = fd
      /\ call'[c].doc = call[c].doc /\ call'[c].value = call[c].value
      /\ \A e \in Clients \ {c} : call'[e] = call[e]
  BY <1>0, <1>1, GotoPut DEF StoreInv
<1>3. tmp'[Doc(c)] = fd /\ (\A d \in Docs : d # Doc(c) => tmp'[d] = tmp[d]) /\ tmp' \in [Docs -> 0..MaxCalls]
  BY <1>0, <1>1 DEF StoreInv, Shape
<1>4. content'[fd] = Empty /\ (\A i \in Inodes : i # fd => content'[i] = content[i])
      /\ content' \in [Inodes -> {Empty, Torn} \cup {Whole(v) : v \in Values}]
  BY <1>0 DEF StoreInv, Shape
<1>5. Shape'
  BY <1>0, <1>2, <1>3, <1>4 DEF StoreInv, Shape
<1>6. Putting' = Putting /\ c \in Putting
  BY <1>1, <1>2 DEF Putting
<1>7. InUse' \subseteq InUse \cup {fd} /\ Opening' \subseteq Opening \ {c}
  <2>1. Opening' \subseteq Opening \ {c}
    BY <1>2, <1>6 DEF Opening, Putting
  <2>2. InUse' \subseteq InUse \cup {fd}
    BY <1>0, <1>2, <1>3, <1>6 DEF InUse, Putting
  <2> QED
    BY <2>1, <2>2
<1>8. CountInv'
  <2>1. /\ IsFiniteSet(InUse) /\ IsFiniteSet(Opening) /\ calls \in Nat /\ calls' = calls /\ c \in Opening
        /\ Cardinality(InUse) + Cardinality(Opening) <= calls
    BY <1>0, InUseFinite DEF StoreInv, CountInv, Shape
  <2>2. IsFiniteSet(Opening') /\ Cardinality(InUse') + Cardinality(Opening') <= calls
    BY <1>7, <2>1, CountMoves
  <2> QED
    BY <2>1, <2>2 DEF CountInv
<1>9. \A d \in Docs : target[d] # fd /\ (d # Doc(c) => tmp[d] # fd)
  BY <1>0, <1>1 DEF StoreInv, Distinct, InUse
<1>10. Distinct' /\ TableFits'
  BY <1>0, <1>3, <1>9 DEF StoreInv, Distinct, TableFits
<1>11. ASSUME Serial PROVE Serial'
  <2>0. Overlap /\ Owned /\ OwnTmp /\ WholeTargets
    BY <1>0, <1>11 DEF Serial
  <2>c. UNCHANGED <<clash, raced, Putting>> /\ \A e \in Putting : Doc(e)' = Doc(e)
    BY <1>0, <1>2, <1>6 DEF Goto, Putting, Doc
  <2>1. Overlap'
    BY <1>0, <2>0, <2>c DEF Overlap
  <2>2. ASSUME NEW e \in Putting, e # c, call[e].pc # "called"
        PROVE  call[e].fd \in Inodes /\ (call[e].fd = fd => Doc(e) = Doc(c))
    <3>1. call[e] \in Puts /\ call[e].fd \in Inodes /\ call[e].fd # 0
      BY <2>2, CallOf, NotAbsent DEF StoreInv, Putting, Puts
    <3>2. call[e].fd \in InUse
      BY <2>2, <3>1 DEF InUse
    <3> QED
      BY <1>0, <2>0, <2>2, <3>1, <3>2 DEF Owned
  <2>3. ASSUME NEW e \in Putting \ clash, e # c
        PROVE  Doc(e) # Doc(c) /\ Doc(e) \in Docs /\ (call[e].pc # "called" => call[e].fd # fd)
    <3>1. call[e] \in Puts
      BY <2>3, CallOf DEF StoreInv, Putting
    <3>2. Doc(e) # Doc(c) /\ Doc(e) \in Docs
      BY <1>6, <2>0, <2>3, <3>1 DEF Overlap, Doc, Puts
    <3> QED
      BY <2>2, <2>3, <3>2
  <2>4. OwnTmp'
    BY <1>0, <1>2, <1>3, <1>4, <2>0, <2>2, <2>3, <2>c DEF OwnTmp, Putting
  <2>5. WholeTargets'
    <3>1. ASSUME NEW d \in Docs, target[d] # 0 PROVE content'[target[d]] = content[target[d]]
      <4>1. target[d] \in Inodes
        BY <3>1, NotAbsent DEF StoreInv, Shape
      <4> QED
        BY <1>4, <1>9, <4>1
    <3> QED
      BY <1>0, <2>0, <2>c, <3>1 DEF WholeTargets
  <2>6. Owned'
    <3>1. ASSUME NEW x \in Putting, call'[x].pc # "called", NEW d \in Docs, call'[x].fd \in {target'[d], tmp'[d]}
          PROVE  d = Doc(x)
      <4>1. CASE x = c
        BY <1>0, <1>2, <1>3, <1>9, <3>1, <4>1
      <4>2. CASE x # c
        <5>1. call[x].pc # "called" /\ call[x].fd \in {target[d], tmp'[d]}
          BY <1>0, <1>2, <3>1, <4>2 DEF Putting
        <5>2. CASE call[x].fd \in {target[d], tmp[d]}
          BY <2>0, <5>1, <5>2 DEF Owned
        <5>3. CASE call[x].fd = tmp'[d] /\ d = Doc(c)
          BY <1>3, <2>2, <4>2, <5>1, <5>3
        <5> QED
          BY <1>3, <5>1, <5>2, <5>3
      <4> QED
        BY <4>1, <4>2
    <3>2. ASSUME NEW x \in Putting, NEW y \in Putting, call'[x].pc # "called", call'[y].pc # "called", call'[x].fd = call'[y].fd
          PROVE  Doc(x) = Doc(y)
      BY <1>2, <2>0, <2>2, <3>2 DEF Owned, Putting
    <3>3. ASSUME NEW d \in Docs PROVE /\ target'[d] # 0 => content'[target'[d]] \in Bytes(d)
                                      /\ tmp'[d] # 0 => content'[tmp'[d]] \in Bytes(d)
      <4>1. target'[d] # 0 => content'[target'[d]] \in Bytes(d)
        BY <1>0, <1>4, <1>9, <2>0, NotAbsent DEF Owned, StoreInv, Shape
      <4>2. tmp'[d] # 0 => content'[tmp'[d]] \in Bytes(d)
        <5>1. CASE d = Doc(c)
          BY <1>3, <1>4, <5>1 DEF Bytes
        <5>2. CASE d # Doc(c)
          BY <1>3, <1>4, <1>9, <2>0, <5>2, NotAbsent DEF Owned, StoreInv, Shape
        <5> QED
          BY <5>1, <5>2
      <4> QED
        BY <4>1, <4>2
    <3> QED
      BY <2>c, <3>1, <3>2, <3>3 DEF Owned
  <2> QED
    BY <2>1, <2>4, <2>5, <2>6 DEF Serial
<1> QED
  BY <1>5, <1>8, <1>10, <1>11 DEF StoreInv

\* Nobody uses more inodes and no call is still to come: the count holds on.
LEMMA CountStays ==
  ASSUME StoreInv, InUse' \subseteq InUse, Opening' \subseteq Opening, calls' = calls
  PROVE  CountInv'
<1>1. /\ IsFiniteSet(InUse) /\ IsFiniteSet(Opening) /\ calls \in Nat /\ calls <= calls
      /\ Cardinality(InUse) + Cardinality(Opening) <= calls
  BY InUseFinite DEF StoreInv, CountInv, Shape
<1>2. IsFiniteSet(Opening') /\ Cardinality(InUse') + Cardinality(Opening') <= calls
  BY <1>1, CountShrinks
<1> QED
  BY <1>2 DEF CountInv

\* A call half way has an inode.
LEMMA HalfWay ==
  ASSUME StoreInv, NEW c \in Clients, call[c].op = "put", call[c].pc # "called"
  PROVE  /\ call[c] \in Puts /\ c \in Putting /\ Doc(c) \in Docs /\ call[c].fd \in Inodes /\ call[c].fd # 0
         /\ call[c].value \in Values /\ call[c].value \in Fits(Doc(c)) /\ backend = "file" /\ call[c].fd \in InUse
<1>1. call[c] \in Puts /\ c \in Putting
  BY CallOf DEF StoreInv, Putting
<1>2. call[c].fd \in Inodes /\ call[c].fd # 0
  BY <1>1, NotAbsent DEF Puts
<1> QED
  BY <1>1, <1>2 DEF Puts, Doc, StoreInv, Shape, InUse

\* What is written to a descriptor stays with the document that is saved.
LEMMA WritesStayHome ==
  ASSUME StoreInv, Serial, backend = "file", NEW c \in Putting, call[c].pc # "called",
         \A i \in Inodes : i # call[c].fd => content'[i] = content[i],
         content'[call[c].fd] \in Bytes(Doc(c))
  PROVE  /\ \A e \in Putting \ clash : e # c /\ call[e].pc # "called" => content'[call[e].fd] = content[call[e].fd]
         /\ \A d \in Docs \ raced : target[d] # 0 => content'[target[d]] = content[target[d]]
         /\ \A d \in Docs : /\ target[d] # 0 => content'[target[d]] \in Bytes(d)
                            /\ tmp[d] # 0 => content'[tmp[d]] \in Bytes(d)
<1>0. Overlap /\ Owned /\ OwnTmp /\ WholeTargets /\ c \in Clients
  BY DEF Serial, Putting
<1>1. call[c].fd \in Inodes /\ call[c].fd # 0 /\ Doc(c) \in Docs
  BY <1>0, HalfWay DEF Putting
<1>2. ASSUME NEW e \in Putting \ clash, e # c, call[e].pc # "called" PROVE content'[call[e].fd] = content[call[e].fd]
  <2>1. call[e].fd \in Inodes
    BY <1>2, HalfWay DEF Putting
  <2>2. Doc(e) # Doc(c)
    BY <1>0, <1>2 DEF Overlap
  <2> QED
    BY <1>0, <1>2, <2>1, <2>2 DEF Owned
<1>3. \A d \in Docs : (target[d] # 0 => target[d] \in Inodes) /\ (tmp[d] # 0 => tmp[d] \in Inodes)
  BY NotAbsent DEF StoreInv, Shape
<1>4. ASSUME NEW d \in Docs \ raced, target[d] # 0 PROVE content'[target[d]] = content[target[d]]
  <2>1. CASE target[d] # call[c].fd
    BY <1>3, <1>4, <2>1
  <2>2. CASE target[d] = call[c].fd
    <3>1. d = Doc(c)
      BY <1>0, <2>2 DEF Owned
    <3>2. c \notin clash
      BY <1>0, <1>4, <3>1 DEF Overlap
    <3>3. call[c].fd = tmp[Doc(c)]
      BY <1>0, <3>2 DEF OwnTmp
    <3> QED
      BY <1>4, <2>2, <3>1, <3>3 DEF StoreInv, Distinct
  <2> QED
    BY <2>1, <2>2
<1>5. ASSUME NEW d \in Docs PROVE /\ target[d] # 0 => content'[target[d]] \in Bytes(d)
                                  /\ tmp[d] # 0 => content'[tmp[d]] \in Bytes(d)
  <2>1. call[c].fd \in {target[d], tmp[d]} => d = Doc(c)
    BY <1>0 DEF Owned
  <2> QED
    BY <1>0, <1>3, <2>1 DEF Owned
<1> QED
  BY <1>2, <1>4, <1>5

\* A save that ends overlaps no more; if it overlapped none, its document is found again.
LEMMA OverlapEnds ==
  ASSUME Overlap, NEW c \in Clients, Putting' = Putting \ {c}, clash' = clash \ {c}, backend' = backend,
         raced' = raced \/ (c \in Putting \ clash /\ raced' = raced \ {Doc(c)}),
         \A e \in Clients \ {c} : call'[e] = call[e]
  PROVE  Overlap'
<1>1. \A e \in Putting' : Doc(e)' = Doc(e) /\ e \in Putting /\ e # c
  BY DEF Putting, Doc
<1>2. clash' \subseteq Putting' /\ raced' \subseteq Docs /\ (backend' # "file" => raced' = {})
  BY DEF Overlap
<1>3. \A x, y \in Putting' : Doc(x)' = Doc(y)' /\ x # y => x \in clash'
  BY <1>1 DEF Overlap
<1>4. ASSUME backend' = "file", NEW x \in clash' PROVE Doc(x)' \in raced'
  <2>1. x \in clash /\ x # c /\ x \in Putting' /\ Doc(x)' = Doc(x) /\ Doc(x) \in raced
    BY <1>1, <1>2, <1>4 DEF Overlap
  <2>2. c \in Putting \ clash => Doc(x) # Doc(c)
    BY <1>1, <2>1 DEF Overlap
  <2> QED
    BY <2>1, <2>2
<1> QED
  BY <1>2, <1>3, <1>4 DEF Overlap

\* The bytes are written: whole, or mixed with those of another descriptor.
LEMMA WriteKeeps ==
  ASSUME StoreInv, NEW c \in Clients, write_tmp(c)
  PROVE  StoreInv' /\ (Serial => Serial')
<1>0. call[c].op = "put" /\ call[c].pc = "opened" /\ UNCHANGED <<backend, table, target, tmp, calls, raced>>
  BY DEF write_tmp, AtStep
<1> DEFINE fd == call[c].fd
<1>1. /\ call[c] \in Puts /\ c \in Putting /\ Doc(c) \in Docs /\ fd \in Inodes
      /\ call[c].value \in Values /\ backend = "file"
  BY <1>0, HalfWay
<1>2. PICK bytes \in {Whole(call[c].value)} \cup (IF content[fd] = Empty THEN {} ELSE {Torn}) :
        content' = [content EXCEPT ![fd] = bytes]
  BY DEF write_tmp
<1>3. /\ content'[fd] = bytes /\ (\A i \in Inodes : i # fd => content'[i] = content[i])
      /\ content' \in [Inodes -> {Empty, Torn} \cup {Whole(v) : v \in Values}]
  BY <1>1, <1>2 DEF StoreInv, Shape
<1>4. /\ call' \in [Clients -> Ended \cup Puts \cup Deletes]
      /\ \A e \in Clients : call'[e] \in Puts /\ call'[e].pc # "called" => backend' = "file"
      /\ call'[c] \in Puts /\ call'[c].op = "put" /\ call'[c].pc = "written" /\ call'[c].fd = fd
      /\ call'[c].doc = call[c].doc /\ call'[c].value = call[c].value
      /\ \A e \in Clients \ {c} : call'[e] = call[e]
  <2>1. Goto(c, "written", fd)
    BY DEF write_tmp
  <2> QED
    BY <1>0, <1>1, <2>1, GotoPut DEF StoreInv
<1>5. Shape' /\ Distinct' /\ TableFits'
  BY <1>0, <1>3, <1>4 DEF StoreInv, Shape, Distinct, TableFits
<1>6. Putting' = Putting
  BY <1>1, <1>4 DEF Putting
<1>7. InUse' \subseteq InUse
  BY <1>0, <1>1, <1>4, <1>6 DEF InUse, Putting
<1>8. Opening' \subseteq Opening
  BY <1>4, <1>6 DEF Opening, Putting
<1>9. CountInv'
  BY <1>0, <1>7, <1>8, CountStays
<1>10. ASSUME Serial PROVE Serial'
  <2>0. Overlap /\ Owned /\ OwnTmp /\ WholeTargets
    BY <1>1, <1>10 DEF Serial
  <2>c. UNCHANGED <<clash, raced, Putting>> /\ \A e \in Putting : Doc(e)' = Doc(e)
    BY <1>0, <1>4, <1>6 DEF write_tmp, Goto, Putting, Doc
  <2>1. Overlap'
    BY <1>0, <2>0, <2>c DEF Overlap
  <2>2. bytes \in Bytes(Doc(c))
    BY <1>0, HalfWay DEF Bytes
  <2>3. /\ \A e \in Putting \ clash : e # c /\ call[e].pc # "called" => content'[call[e].fd] = content[call[e].fd]
        /\ \A d \in Docs \ raced : target[d] # 0 => content'[target[d]] = content[target[d]]
        /\ \A d \in Docs : /\ target[d] # 0 => content'[target[d]] \in Bytes(d)
                           /\ tmp[d] # 0 => content'[tmp[d]] \in Bytes(d)
    BY <1>0, <1>1, <1>3, <1>10, <2>2, WritesStayHome
  <2>4. c \notin clash => bytes = Whole(call[c].value) /\ fd = tmp[Doc(c)]
    BY <1>0, <1>1, <1>2, <2>0 DEF OwnTmp
  <2>5. OwnTmp'
    <3> SUFFICES ASSUME NEW e \in Putting \ clash
                 PROVE  /\ call'[e].pc # "called" => call'[e].fd = tmp[Doc(e)]
                        /\ call'[e].pc = "opened" => content'[call'[e].fd] = Empty
                        /\ call'[e].pc = "written" => content'[call'[e].fd] = Whole(call'[e].value)
      BY <1>0, <2>c DEF OwnTmp
    <3>1. CASE e = c
      BY <1>3, <1>4, <2>4, <3>1
    <3>2. CASE e # c
      BY <1>4, <2>0, <2>3, <3>2 DEF OwnTmp, Putting
    <3> QED
      BY <3>1, <3>2
  <2>6. WholeTargets'
    BY <1>0, <2>0, <2>3, <2>c DEF WholeTargets
  <2>7. Owned'
    <3>1. \A e \in Putting : call'[e].fd = call[e].fd /\ (call'[e].pc # "called" <=> call[e].pc # "called")
      BY <1>0, <1>4 DEF Putting
    <3> QED
      BY <1>0, <2>0, <2>3, <2>c, <3>1 DEF Owned
  <2> QED
    BY <2>1, <2>5, <2>6, <2>7 DEF Serial
<1> QED
  BY <1>5, <1>9, <1>10 DEF StoreInv

\* The write fails: the temporary file is left behind.
LEMMA WriteFailsKeeps ==
  ASSUME StoreInv, NEW c \in Clients, write_fails(c)
  PROVE  StoreInv' /\ (Serial => Serial')
<1>0. call[c].op = "put" /\ call[c].pc = "opened" /\ UNCHANGED <<backend, table, target, tmp, calls, raced>>
  BY DEF write_fails, AtStep
<1> DEFINE fd == call[c].fd
<1>1. call[c] \in Puts /\ c \in Putting /\ Doc(c) \in Docs /\ fd \in Inodes /\ backend = "file"
  BY <1>0, HalfWay
<1>2. content' = [content EXCEPT ![fd] = Torn]
  BY DEF write_fails
<1>3. /\ (\A i \in Inodes : i # fd => content'[i] = content[i])
      /\ content' \in [Inodes -> {Empty, Torn} \cup {Whole(v) : v \in Values}]
  BY <1>1, <1>2 DEF StoreInv, Shape
<1>4. /\ call' \in [Clients -> Ended \cup Puts \cup Deletes]
      /\ \A e \in Clients : call'[e] \in Puts /\ call'[e].pc # "called" => backend' = "file"
      /\ call'[c] \in Ended
      /\ \A e \in Clients \ {c} : call'[e] = call[e]
  <2>1. Finish(c, "err") /\ "err" \in Outcomes
    BY DEF write_fails, Outcomes
  <2> QED
    BY <1>0, <2>1, FinishCalls DEF StoreInv
<1>5. Shape' /\ Distinct' /\ TableFits'
  BY <1>0, <1>3, <1>4 DEF StoreInv, Shape, Distinct, TableFits
<1>6. Putting' = Putting \ {c}
  BY <1>1, <1>4, CallKinds DEF Putting
<1>7. InUse' \subseteq InUse
  BY <1>0, <1>4, <1>6 DEF InUse, Putting
<1>8. Opening' \subseteq Opening
  BY <1>4, <1>6 DEF Opening, Putting
<1>9. CountInv'
  BY <1>0, <1>7, <1>8, CountStays
<1>10. ASSUME Serial PROVE Serial'
  <2>0. Overlap /\ Owned /\ OwnTmp /\ WholeTargets
    BY <1>1, <1>10 DEF Serial
  <2>c. clash' = clash \ {c} /\ \A e \in Putting' : e \in Putting /\ e # c /\ call'[e] = call[e] /\ Doc(e)' = Doc(e)
    BY <1>4, <1>6 DEF write_fails, Finish, Putting, Doc
  <2>1. Overlap'
    BY <1>0, <1>4, <1>6, <2>0, <2>c, OverlapEnds
  <2>2. content'[fd] \in Bytes(Doc(c))
    BY <1>1, <1>2 DEF Bytes, StoreInv, Shape
  <2>3. /\ \A e \in Putting \ clash : e # c /\ call[e].pc # "called" => content'[call[e].fd] = content[call[e].fd]
        /\ \A d \in Docs \ raced : target[d] # 0 => content'[target[d]] = content[target[d]]
        /\ \A d \in Docs : /\ target[d] # 0 => content'[target[d]] \in Bytes(d)
                           /\ tmp[d] # 0 => content'[tmp[d]] \in Bytes(d)
    BY <1>0, <1>1, <1>3, <1>10, <2>2, WritesStayHome
  <2>4. OwnTmp'
    BY <1>0, <2>0, <2>3, <2>c DEF OwnTmp
  <2>5. WholeTargets'
    BY <1>0, <2>0, <2>3 DEF WholeTargets
  <2>6. Owned'
    BY <1>0, <2>0, <2>3, <2>c DEF Owned
  <2> QED
    BY <2>1, <2>4, <2>5, <2>6 DEF Serial
<1> QED
  BY <1>5, <1>9, <1>10 DEF StoreInv

\* The outcomes of a call that ends leave a saver less.
LEMMA FinishKeeps ==
  ASSUME StoreInv, NEW c \in Clients, NEW o \in Outcomes, Finish(c, o), UNCHANGED <<backend, tmp, calls>>,
         \A d \in Docs : target'[d] \in {target[d], 0} \cup {tmp[d]}
  PROVE  /\ call' \in [Clients -> Ended \cup Puts \cup Deletes]
         /\ \A e \in Clients : call'[e] \in Puts /\ call'[e].pc # "called" => backend' = "file"
         /\ \A e \in Clients \ {c} : call'[e] = call[e]
         /\ Putting' = Putting \ {c} /\ CountInv' /\ clash' = clash \ {c}
<1>1. /\ call' \in [Clients -> Ended \cup Puts \cup Deletes]
      /\ \A e \in Clients : call'[e] \in Puts /\ call'[e].pc # "called" => backend' = "file"
      /\ call'[c] \in Ended
      /\ \A e \in Clients \ {c} : call'[e] = call[e]
  BY FinishCalls DEF StoreInv
<1>2. Putting' = Putting \ {c}
  BY <1>1, CallKinds DEF Putting
<1>3. InUse' \subseteq InUse
  BY <1>1, <1>2 DEF InUse, Putting
<1>4. Opening' \subseteq Opening
  BY <1>1, <1>2 DEF Opening, Putting
<1>5. CountInv'
  BY <1>3, <1>4, CountStays
<1>6. clash' = clash \ {c}
  BY DEF Finish
<1> QED
  BY <1>1, <1>2, <1>5, <1>6

\* The rename: the temporary file is now the document.
LEMMA RenameKeeps ==
  ASSUME StoreInv, NEW c \in Clients, rename(c)
  PROVE  StoreInv' /\ (Serial => Serial')
<1>0. call[c].op = "put" /\ call[c].pc = "written" /\ UNCHANGED <<backend, table, calls, content>>
  BY DEF rename, AtStep, fs
<1>1. /\ call[c] \in Puts /\ c \in Putting /\ Doc(c) \in Docs /\ backend = "file"
      /\ call[c].fd # 0 /\ call[c].value \in Fits(Doc(c))
  BY <1>0, HalfWay
<1>2. CASE tmp[Doc(c)] = 0
  <2>1. Finish(c, "err") /\ "err" \in Outcomes /\ UNCHANGED <<target, tmp>>
    BY <1>2 DEF rename, fs, Outcomes
  <2>2. /\ call' \in [Clients -> Ended \cup Puts \cup Deletes]
        /\ \A e \in Clients : call'[e] \in Puts /\ call'[e].pc # "called" => backend' = "file"
        /\ \A e \in Clients \ {c} : call'[e] = call[e]
        /\ Putting' = Putting \ {c} /\ CountInv' /\ clash' = clash \ {c}
    BY <1>0, <2>1, FinishKeeps
  <2>3. Shape' /\ Distinct' /\ TableFits'
    BY <1>0, <2>1, <2>2 DEF StoreInv, Shape, Distinct, TableFits
  <2>4. ASSUME Serial PROVE Serial'
    <3>0. Overlap /\ Owned /\ OwnTmp /\ WholeTargets
      BY <1>1, <2>4 DEF Serial
    <3>1. c \in clash
      BY <1>0, <1>1, <1>2, <3>0 DEF OwnTmp
    <3>2. raced' = raced /\ \A e \in Putting' : e \in Putting /\ e # c /\ call'[e] = call[e] /\ Doc(e)' = Doc(e)
      BY <2>2, <3>1 DEF rename, Putting, Doc
    <3>3. Overlap'
      BY <1>0, <2>2, <3>0, <3>2, OverlapEnds
    <3>4. OwnTmp' /\ WholeTargets' /\ Owned'
      BY <1>0, <2>1, <2>2, <3>0, <3>2 DEF OwnTmp, WholeTargets, Owned
    <3> QED
      BY <3>3, <3>4 DEF Serial
  <2> QED
    BY <2>2, <2>3, <2>4 DEF StoreInv
<1>3. CASE tmp[Doc(c)] # 0
  <2>1. /\ target' = [target EXCEPT ![Doc(c)] = tmp[Doc(c)]] /\ tmp' = [tmp EXCEPT ![Doc(c)] = 0]
        /\ Finish(c, "ok") /\ "ok" \in Outcomes
    BY <1>3 DEF rename, Outcomes
  <2>2. /\ target'[Doc(c)] = tmp[Doc(c)] /\ tmp'[Doc(c)] = 0
        /\ \A d \in Docs : d # Doc(c) => target'[d] = target[d] /\ tmp'[d] = tmp[d]
        /\ target' \in [Docs -> 0..MaxCalls] /\ tmp' \in [Docs -> 0..MaxCalls]
    BY <1>1, <2>1, NotAbsent DEF StoreInv, Shape
  <2>3. /\ call' \in [Clients -> Ended \cup Puts \cup Deletes]
        /\ \A e \in Clients : call'[e] \in Puts /\ call'[e].pc # "called" => backend' = "file"
        /\ call'[c] \in Ended
        /\ \A e \in Clients \ {c} : call'[e] = call[e]
    BY <1>0, <2>1, FinishCalls DEF StoreInv
  <2>4. Putting' = Putting \ {c}
    BY <2>3, CallKinds DEF Putting
  <2>5. InUse' \subseteq InUse
    BY <1>1, <2>2, <2>3, <2>4 DEF InUse, Putting
  <2>6. Opening' \subseteq Opening
    BY <2>3, <2>4 DEF Opening, Putting
  <2>7. CountInv'
    BY <1>0, <2>5, <2>6, CountStays
  <2>8. Shape' /\ TableFits'
    BY <1>0, <2>2, <2>3 DEF StoreInv, Shape, TableFits
  <2>9. Distinct'
    BY <1>1, <2>2 DEF StoreInv, Distinct
  <2>10. ASSUME Serial PROVE Serial'
    <3>0. Overlap /\ Owned /\ OwnTmp /\ WholeTargets
      BY <1>1, <2>10 DEF Serial
    <3>c. /\ clash' = clash \ {c} /\ raced' = (IF c \in clash THEN raced ELSE raced \ {Doc(c)})
          /\ \A e \in Putting' : e \in Putting /\ e # c /\ call'[e] = call[e] /\ Doc(e)' = Doc(e)
      BY <2>1, <2>3, <2>4 DEF rename, Finish, Putting, Doc
    <3>1. Overlap'
      BY <1>0, <1>1, <2>3, <2>4, <3>0, <3>c, OverlapEnds
    <3>2. ASSUME NEW e \in Putting \ clash, e # c PROVE Doc(e) # Doc(c) /\ Doc(e) \in Docs
      <4>1. call[e] \in Puts
        BY <3>2, CallOf DEF StoreInv, Putting
      <4> QED
        BY <1>1, <3>0, <3>2, <4>1 DEF Overlap, Doc, Puts
    <3>3. OwnTmp'
      BY <1>0, <2>2, <3>0, <3>2, <3>c DEF OwnTmp
    <3>4. WholeTargets'
      <4> SUFFICES ASSUME NEW d \in Docs \ raced', target'[d] # 0 PROVE \E v \in Fits(d) : content[target'[d]] = Whole(v)
        BY <1>0 DEF WholeTargets
      <4>1. CASE d = Doc(c)
        <5>1. c \notin clash
          BY <1>1, <3>0, <3>c, <4>1 DEF Overlap
        <5>2. content[tmp[Doc(c)]] = Whole(call[c].value)
          BY <1>0, <1>1, <3>0, <5>1 DEF OwnTmp
        <5> QED
          BY <1>1, <2>2, <4>1, <5>2
      <4>2. CASE d # Doc(c)
        BY <2>2, <3>0, <3>c, <4>2 DEF WholeTargets
      <4> QED
        BY <4>1, <4>2
    <3>5. Owned'
      <4>1. ASSUME NEW x \in Putting', call'[x].pc # "called", NEW d \in Docs, call'[x].fd \in {target'[d], tmp'[d]}
            PROVE  d = Doc(x)'
        <5>1. call[x].pc # "called" /\ call[x].fd \in {target'[d], tmp'[d]} /\ x \in Putting /\ Doc(x)' = Doc(x)
          BY <3>c, <4>1
        <5>2. call[x].fd # 0
          BY <5>1, HalfWay DEF Putting
        <5>3. call[x].fd \in {target[d], tmp[d]}
          BY <2>2, <5>1, <5>2
        <5> QED
          BY <3>0, <5>1, <5>3 DEF Owned
      <4>2. ASSUME NEW x \in Putting', NEW y \in Putting', call'[x].pc # "called", call'[y].pc # "called",
                   call'[x].fd = call'[y].fd
            PROVE  Doc(x)' = Doc(y)'
        BY <3>0, <3>c, <4>2 DEF Owned
      <4>3. ASSUME NEW d \in Docs PROVE /\ target'[d] # 0 => content'[target'[d]] \in Bytes(d)
                                        /\ tmp'[d] # 0 => content'[tmp'[d]] \in Bytes(d)
        BY <1>0, <2>2, <3>0 DEF Owned
      <4> QED
        BY <4>1, <4>2, <4>3 DEF Owned
    <3> QED
      BY <3>1, <3>3, <3>4, <3>5 DEF Serial
  <2> QED
    BY <2>7, <2>8, <2>9, <2>10 DEF StoreInv
<1> QED
  BY <1>2, <1>3

\* delete_tag: it looks for the file, then removes it.
LEMMA FileDeleteKeeps ==
  ASSUME StoreInv, NEW c \in Clients, file_delete_tag(c)
  PROVE  StoreInv' /\ (Serial => Serial')
<1>0. call[c].op = "delete" /\ backend = "file" /\ UNCHANGED <<backend, table, calls, tmp, content, raced>>
  BY DEF file_delete_tag, fs
<1>1. call[c] \in Deletes /\ Doc(c) \in Docs /\ c \notin Putting /\ DOMAIN call = Clients
  BY <1>0, CallOf DEF Deletes, Doc, StoreInv, Putting
<1>2. ASSUME NEW o \in Outcomes, Finish(c, o), \A d \in Docs : target'[d] \in {target[d], 0},
             target' \in [Docs -> 0..MaxCalls]
      PROVE  StoreInv' /\ (Serial => Serial')
  <2>1. /\ call' \in [Clients -> Ended \cup Puts \cup Deletes]
        /\ \A e \in Clients : call'[e] \in Puts /\ call'[e].pc # "called" => backend' = "file"
        /\ \A e \in Clients \ {c} : call'[e] = call[e]
        /\ Putting' = Putting \ {c} /\ CountInv' /\ clash' = clash \ {c}
    BY <1>0, <1>2, FinishKeeps
  <2>2. Shape' /\ TableFits' /\ Distinct'
    BY <1>0, <1>2, <2>1 DEF StoreInv, Shape, TableFits, Distinct
  <2>3. ASSUME Serial PROVE Serial'
    <3>1. Overlap /\ Owned /\ OwnTmp /\ WholeTargets
      BY <1>0, <2>3 DEF Serial
    <3>2. Putting' = Putting /\ clash' = clash /\ \A e \in Putting : call'[e] = call[e] /\ Doc(e)' = Doc(e)
      BY <1>1, <2>1, <3>1 DEF Putting, Doc, Overlap
    <3>3. Overlap' /\ OwnTmp' /\ WholeTargets'
      BY <1>0, <1>2, <3>1, <3>2 DEF Overlap, OwnTmp, WholeTargets
    <3>4. Owned'
      <4>1. \A e \in Putting : call[e].pc # "called" => call[e].fd # 0
        BY HalfWay DEF Putting
      <4> QED
        BY <1>0, <1>2, <3>1, <3>2, <4>1 DEF Owned
    <3> QED
      BY <3>3, <3>4 DEF Serial
  <2> QED
    BY <2>1, <2>2, <2>3 DEF StoreInv
<1>3. ASSUME Goto(c, "exists", 0), UNCHANGED target
      PROVE  StoreInv' /\ (Serial => Serial')
  <2>1. call' = [call EXCEPT ![c].pc = "exists", ![c].fd = 0]
    BY <1>3 DEF Goto
  <2>2. call'[c] = [call[c] EXCEPT !.pc = "exists", !.fd = 0] /\ \A e \in Clients \ {c} : call'[e] = call[e]
    BY <1>1, <2>1
  <2>3. call'[c] \in Deletes
    <3>1. call[c] \in [op : {"delete"}, doc : Docs, value : {Absent}, pc : {"called", "exists"}, fd : {0}]
          /\ call[c].doc.kind = "tag"
      BY <1>1 DEF Deletes
    <3>2. call'[c] \in [op : {"delete"}, doc : Docs, value : {Absent}, pc : {"called", "exists"}, fd : {0}]
      BY <2>2, <3>1
    <3>3. call'[c].doc = call[c].doc
      BY <2>2, <3>1
    <3> QED
      BY <3>1, <3>2, <3>3 DEF Deletes
  <2>4. call' \in [Clients -> Ended \cup Puts \cup Deletes]
    BY <2>1, <2>2, <2>3 DEF StoreInv, Shape
  <2>5. Putting' = Putting
    BY <1>1, <2>2, <2>3, CallKinds DEF Putting
  <2>6. InUse' \subseteq InUse /\ Opening' \subseteq Opening
    BY <1>0, <1>1, <1>3, <2>2, <2>5 DEF InUse, Opening, Putting
  <2>7. CountInv'
    BY <1>0, <2>6, CountStays
  <2>8. Shape' /\ TableFits' /\ Distinct'
    BY <1>0, <1>3, <2>2, <2>3, <2>4, CallKinds DEF StoreInv, Shape, TableFits, Distinct
  <2>9. ASSUME Serial PROVE Serial'
    <3>1. Overlap /\ Owned /\ OwnTmp /\ WholeTargets
      BY <1>0, <2>9 DEF Serial
    <3>2. clash' = clash /\ \A e \in Putting : call'[e] = call[e] /\ Doc(e)' = Doc(e)
      BY <1>1, <1>3, <2>2 DEF Putting, Doc, Goto
    <3> QED
      BY <1>0, <1>3, <2>5, <3>1, <3>2 DEF Serial, Overlap, Owned, OwnTmp, WholeTargets
  <2> QED
    BY <2>7, <2>8, <2>9 DEF StoreInv
<1>4. \/ Finish(c, "absent") /\ UNCHANGED target
      \/ Goto(c, "exists", 0) /\ UNCHANGED target
      \/ Finish(c, "err") /\ UNCHANGED target
      \/ Finish(c, "deleted") /\ target' = [target EXCEPT ![Doc(c)] = 0]
  BY DEF file_delete_tag, fs
<1>5. {"absent", "err", "deleted"} \subseteq Outcomes
  BY DEF Outcomes
<1>6. target \in [Docs -> 0..MaxCalls] /\ 0 \in 0..MaxCalls
  BY NotAbsent DEF StoreInv, Shape
<1>7. CASE Finish(c, "deleted") /\ target' = [target EXCEPT ![Doc(c)] = 0]
  BY <1>1, <1>2, <1>5, <1>6, <1>7
<1> QED
  BY <1>2, <1>3, <1>4, <1>5, <1>6, <1>7

\* A statement of the database: the row of the call's document changes, or nothing does.
LEMMA SqlStep ==
  ASSUME StoreInv, NEW c \in Clients,
         sql_put_version(c) \/ sql_put_head(c) \/ sql_set_tag(c) \/ sql_delete_tag(c)
  PROVE  /\ backend = "sql" /\ call[c] \in Puts \cup Deletes /\ Doc(c) \in Docs
         /\ UNCHANGED <<backend, fs, calls, raced>>
         /\ \/ table' = table /\ Finish(c, "err")
            \/ call[c].op = "put" /\ table' = [table EXCEPT ![Doc(c)] = call[c].value] /\ Finish(c, "ok")
               /\ (Doc(c).kind = "version" => table[Doc(c)] = Absent)
            \/ call[c].op = "put" /\ table[Doc(c)] # Absent /\ table' = table /\ Finish(c, "ok")
            \/ call[c].op = "delete" /\ table' = [table EXCEPT ![Doc(c)] = Absent]
               /\ Finish(c, IF table[Doc(c)] = Absent THEN "absent" ELSE "deleted")
<1>1. call[c].op \in {"put", "delete"}
  BY DEF sql_put_version, sql_put_head, sql_set_tag, sql_delete_tag
<1>2. call[c] \in Puts \cup Deletes /\ Doc(c) \in Docs
  BY <1>1, CallOf DEF StoreInv, Doc, Puts, Deletes
<1>3. CASE sql_put_version(c)
  <2>1. CASE table[Doc(c)] = Absent
    BY <1>2, <1>3, <2>1 DEF sql_put_version, Execute
  <2>2. CASE table[Doc(c)] # Absent
    BY <1>2, <1>3, <2>2 DEF sql_put_version, Execute
  <2> QED
    BY <2>1, <2>2
<1>4. CASE sql_put_head(c)
  BY <1>2, <1>4 DEF sql_put_head, Execute
<1>5. CASE sql_set_tag(c)
  BY <1>2, <1>5 DEF sql_set_tag, Execute
<1>6. CASE sql_delete_tag(c)
  BY <1>2, <1>6 DEF sql_delete_tag, Execute
<1> QED
  BY <1>3, <1>4, <1>5, <1>6

\* A statement of the database changes the table and the call that made it.
LEMMA SqlKeeps ==
  ASSUME StoreInv, NEW c \in Clients,
         sql_put_version(c) \/ sql_put_head(c) \/ sql_set_tag(c) \/ sql_delete_tag(c)
  PROVE  StoreInv' /\ (Serial => Serial')
<1>1. backend = "sql" /\ UNCHANGED <<backend, fs, calls, raced>> /\ Doc(c) \in Docs
  BY SqlStep
<1>2. \E o \in Outcomes : Finish(c, o)
  BY SqlStep DEF Outcomes
<1>3. /\ call' \in [Clients -> Ended \cup Puts \cup Deletes]
      /\ \A e \in Clients : call'[e] \in Puts /\ call'[e].pc # "called" => backend' = "file"
      /\ \A e \in Clients \ {c} : call'[e] = call[e]
      /\ Putting' = Putting \ {c} /\ CountInv' /\ clash' = clash \ {c}
  BY <1>1, <1>2, FinishKeeps DEF fs
<1>4. \A x \in Puts : x.value \in Values /\ x.value \in Fits(x.doc)
  BY DEF Puts
<1>5. table' \in [Docs -> Values \cup {Absent}] /\ TableFits'
  <2>1. table \in [Docs -> Values \cup {Absent}] /\ TableFits
    BY DEF StoreInv, Shape
  <2>2. CASE table' = table
    BY <2>1, <2>2 DEF TableFits
  <2>3. CASE call[c].op = "put" /\ table' = [table EXCEPT ![Doc(c)] = call[c].value]
    <3>1. call[c].value \in Values /\ call[c].value \in Fits(Doc(c))
      BY <1>4, <2>3, CallOf DEF StoreInv, Doc
    <3> QED
      BY <1>1, <2>1, <2>3, <3>1 DEF TableFits
  <2>4. CASE table' = [table EXCEPT ![Doc(c)] = Absent]
    BY <1>1, <2>1, <2>4 DEF TableFits
  <2> QED
    BY <2>2, <2>3, <2>4, SqlStep
<1>6. Shape' /\ Distinct'
  BY <1>1, <1>3, <1>5 DEF StoreInv, Shape, Distinct, fs
<1>7. ASSUME Serial PROVE Serial'
  <2>1. Overlap /\ Owned /\ raced' = raced /\ backend' = backend
    BY <1>1, <1>7 DEF Serial
  <2>2. Overlap'
    BY <1>3, <2>1, OverlapEnds
  <2>3. \A e \in Putting' : e \in Putting /\ call'[e] = call[e] /\ Doc(e)' = Doc(e)
    BY <1>3 DEF Putting, Doc
  <2>4. Owned'
    BY <1>1, <2>1, <2>3 DEF Owned, fs
  <2> QED
    BY <1>1, <2>2, <2>4 DEF Serial
<1> QED
  BY <1>3, <1>5, <1>6, <1>7 DEF StoreInv

\* A crash ends every call; the files stay as they are.
LEMMA CrashKeeps ==
  ASSUME StoreInv, Crash
  PROVE  StoreInv' /\ (Serial => Serial')
<1>1. call' = [c \in Clients |-> Idle] /\ clash' = {} /\ UNCHANGED <<backend, table, fs, calls, raced>>
  BY DEF Crash
<1>2. Idle \in Ended /\ Idle \notin Puts
  BY CallKinds DEF Ended, Idle
<1>3. Putting' = {}
  BY <1>1 DEF Putting, Idle
<1>4. InUse' \subseteq InUse /\ Opening' \subseteq Opening
  BY <1>1, <1>3 DEF InUse, Opening, fs
<1>5. CountInv'
  BY <1>1, <1>4, CountStays
<1>6. Shape' /\ Distinct' /\ TableFits'
  BY <1>1, <1>2 DEF StoreInv, Shape, Distinct, TableFits, fs
<1>7. Serial => Serial'
  BY <1>1, <1>3 DEF Serial, Overlap, Owned, OwnTmp, WholeTargets, fs
<1> QED
  BY <1>5, <1>6, <1>7 DEF StoreInv

\* A step that changes no document and no call.
LEMMA NothingKeeps ==
  ASSUME StoreInv, UNCHANGED <<backend, table, fs, call, calls, clash, raced>>
  PROVE  StoreInv' /\ (Serial => Serial')
<1>1. UNCHANGED <<backend, table, target, tmp, content, call, calls, clash, raced>>
  BY DEF fs
<1>2. Shape' /\ Distinct' /\ TableFits'
  BY <1>1 DEF StoreInv, Shape, Distinct, TableFits
<1>3. UNCHANGED <<Putting, InUse, Opening>>
  BY <1>1 DEF Putting, InUse, Opening
<1>4. CountInv'
  BY <1>1, <1>3 DEF CountInv, StoreInv
<1>5. Serial => Serial'
  BY <1>1, <1>3 DEF Serial, Overlap, Owned, OwnTmp, WholeTargets, Doc
<1> QED
  BY <1>2, <1>4, <1>5 DEF StoreInv

\* Every step of the flow and tag stores keeps the invariant, whichever saves overlap.
LEMMA StepKeeps ==
  ASSUME StoreInv, [Next]_vars
  PROVE  StoreInv' /\ (Serial => Serial')
<1>1. CASE Next
  BY <1>1, StepCases, BeginKeeps, OpenKeeps, WriteKeeps, WriteFailsKeeps, RenameKeeps, FileDeleteKeeps,
     SqlKeeps, CrashKeeps, NothingKeeps DEF StoreInv
<1>2. CASE UNCHANGED vars
  BY <1>2, NothingKeeps DEF vars
<1> QED
  BY <1>1, <1>2

\* The invariant of the stores.
LEMMA StoresKeepInv == Spec => [](StoreInv /\ Serial)
<1>1. StoreInv /\ Serial /\ [Next]_vars => (StoreInv /\ Serial)'
  BY StepKeeps
<1> QED
  BY <1>1, InitStoreInv, PTL DEF Spec

--------------------------------------------------------------------------
(* Every step is a step of the abstract store, or none.                    *)

\* Initially there is no document.
LEMMA RefineInit == Init => Promised!AInit
<1> SUFFICES ASSUME Init PROVE Promised!AInit
  OBVIOUS
<1>1. \A d \in Docs : Kept(d) = Absent
  BY DEF Init, Kept, get, file_get
<1>2. \A c \in Clients : Seen(c) = Idle
  BY DEF Init, Seen, Idle
<1>3. clash = {}
  BY DEF Init
<1> QED
  BY <1>1, <1>2, <1>3 DEF Promised!AInit, Promised!Idle, Idle

\* What was read before a step is read after it if the files' contents stay.
LEMMA SameFile ==
  ASSUME StoreInv, NEW d \in Docs, target'[d] = target[d], UNCHANGED <<backend, table>>,
         target[d] # 0 => content'[target[d]] = content[target[d]]
  PROVE  get(d)' = get(d)
  BY DEF get, file_get

\* The open, the write and the failed write change nothing that callers may count on.
LEMMA ReadsStay ==
  ASSUME StoreInv, Serial, NEW c \in Clients, open_tmp(c) \/ write_tmp(c) \/ write_fails(c)
  PROVE  \A d \in Docs : Kept(d)' = Kept(d)
<1>1. UNCHANGED <<backend, table, target, raced>>
  BY DEF open_tmp, write_tmp, write_fails
<1>2. \A d \in Docs \ raced : target[d] # 0 => content'[target[d]] = content[target[d]]
  <2>1. CASE open_tmp(c)
    <3>1. PICK fd \in Inodes : /\ Doc(c) \in Docs /\ content' = [content EXCEPT ![fd] = Empty]
                               /\ (fd = tmp[Doc(c)] \/ fd \notin InUse)
      BY <2>1, OpenTmp
    <3>2. fd # 0
      BY NotAbsent
    <3>3. \A d \in Docs : target[d] # fd
      BY <3>1, <3>2 DEF StoreInv, Distinct, InUse
    <3>4. DOMAIN content = Inodes /\ \A d \in Docs : target[d] # 0 => target[d] \in Inodes
      BY NotAbsent DEF StoreInv, Shape
    <3> QED
      BY <3>1, <3>3, <3>4
  <2>2. CASE write_tmp(c) \/ write_fails(c)
    <3>1. call[c].op = "put" /\ call[c].pc = "opened"
      BY <2>2 DEF write_tmp, write_fails, AtStep
    <3>2. /\ call[c].fd \in Inodes /\ call[c].fd # 0 /\ Doc(c) \in Docs /\ backend = "file" /\ c \in Putting
          /\ call[c].value \in Fits(Doc(c)) /\ DOMAIN content = Inodes
      BY <3>1, HalfWay DEF StoreInv, Shape
    <3>3. PICK b \in Bytes(Doc(c)) : content' = [content EXCEPT ![call[c].fd] = b]
      BY <2>2, <3>2 DEF write_tmp, write_fails, Bytes
    <3>4. content'[call[c].fd] \in Bytes(Doc(c)) /\ \A i \in Inodes : i # call[c].fd => content'[i] = content[i]
      BY <3>2, <3>3
    <3> QED
      BY <3>1, <3>2, <3>4, WritesStayHome
  <2> QED
    BY <2>1, <2>2
<1> QED
  BY <1>1, <1>2, SameFile DEF Kept

\* What a reader finds in a file store.
LEMMA FilesRead ==
  ASSUME StoreInv, Serial, backend = "file", NEW d \in Docs \ raced
  PROVE  IF target[d] = 0 THEN get(d) = Absent
         ELSE content[target[d]] = Whole(get(d)) /\ get(d) \in Fits(d) /\ get(d) # Absent
<1>1. CASE target[d] = 0
  BY <1>1 DEF get, file_get
<1>2. CASE target[d] # 0
  <2>1. PICK v \in Fits(d) : content[target[d]] = Whole(v)
    BY <1>2 DEF Serial, WholeTargets
  <2>2. get(d) = v
    BY <1>2, <2>1 DEF get, file_get, Whole
  <2> QED
    BY <1>2, <2>1, <2>2, NotAbsent
<1> QED
  BY <1>1, <1>2

\* The call of a client as the abstract store sees it.
LEMMA SeenCall ==
  ASSUME StoreInv, NEW c \in Clients
  PROVE  /\ [e \in Clients |-> Seen(e)][c].op = call[c].op
         /\ call[c].op \in {"put", "delete"} =>
              /\ [e \in Clients |-> Seen(e)][c].doc = Doc(c)
              /\ [e \in Clients |-> Seen(e)][c].value = call[c].value
              /\ Doc(c) \in Docs
<1>1. call[c].op \in {"put", "delete"} => call[c] \in Puts \cup Deletes
  BY CallOf DEF StoreInv
<1> QED
  BY <1>1 DEF Seen, Doc, Puts, Deletes

\* The savers of a document are its savers there.
LEMMA SeenSavers ==
  ASSUME StoreInv, NEW d
  PROVE  Promised!Savers(d) = Savers(d)
<1>1. \A e \in Clients : /\ [x \in Clients |-> Seen(x)][e].op = call[e].op
                         /\ (call[e].op = "put" => [x \in Clients |-> Seen(x)][e].doc = Doc(e))
  BY SeenCall
<1> QED
  BY <1>1 DEF Promised!Savers, Savers

\* A call that begins.
LEMMA RefineBegin ==
  ASSUME StoreInv, Serial, NEW c \in Clients, Begins(c)
  PROVE  Promised!ANext
<1> DEFINE r == [op |-> call'[c].op, doc |-> call'[c].doc, value |-> call'[c].value]
           seen == [e \in Clients |-> Seen(e)]
           kept == [d \in Docs |-> Kept(d)]
           B == [op : {"put"}, doc : Docs, value : Values] \cup [op : {"delete"}, doc : Docs, value : {Absent}]
<1>1. /\ call'[c] \in Puts \cup Deletes /\ call[c].op \in {"idle", "returned"}
      /\ (\A e \in Clients \ {c} : call'[e] = call[e]) /\ UNCHANGED <<backend, table, fs>>
      /\ IF call'[c].op = "put" /\ Savers(call'[c].doc) # {}
         THEN /\ clash' = clash \cup Savers(call'[c].doc) \cup {c}
              /\ raced' = IF backend = "file" THEN raced \cup {call'[c].doc} ELSE raced
         ELSE UNCHANGED <<clash, raced>>
  BY BeginCall
<1>2. r \in B /\ r.op = call'[c].op /\ r.doc = call'[c].doc /\ r.doc \in Docs
  BY <1>1 DEF Puts, Deletes
<1>3. Seen(c)' = r /\ \A e \in Clients : e # c => Seen(e)' = Seen(e)
  BY <1>1, CallKinds DEF Seen
<1>4. \A d \in Docs : get(d)' = get(d)
  BY <1>1 DEF fs, get, file_get
<1> HIDE DEF r
<1>5. seen' = [seen EXCEPT ![c] = seen'[c]] /\ seen'[c] = r
  BY <1>3
<1>6. seen[c].op \in {"idle", "returned"}
  BY <1>1, SeenCall
<1>7. kept' \in {kept, [kept EXCEPT ![r.doc] = Lost]}
  <2>1. CASE raced' = raced
    BY <1>4, <2>1 DEF Kept
  <2>2. CASE raced' = raced \cup {r.doc}
    <3>1. \A d \in Docs : Kept(d)' = IF d = r.doc THEN Lost ELSE Kept(d)
      BY <1>4, <2>2 DEF Kept
    <3> QED
      BY <1>2, <3>1
  <2> QED
    BY <1>1, <1>2, <2>1, <2>2
<1>8. IF r.op = "put" /\ Savers(r.doc) # {}
      THEN clash' = clash \cup Savers(r.doc) \cup {c} ELSE clash' = clash /\ kept' = kept
  <2>1. raced' = raced => kept' = kept
    BY <1>4 DEF Kept
  <2> QED
    BY <1>1, <1>2, <2>1
<1>9. Promised!Savers(r.doc) = Savers(r.doc)
  BY SeenSavers
<1> HIDE DEF seen, kept
<1>10. Promised!Begin(c)
  BY <1>2, <1>5, <1>6, <1>7, <1>8, <1>9 DEF Promised!Begin, seen, kept
<1> QED
  BY <1>10 DEF Promised!ANext

\* A call that ends, as its caller sees it.
LEMMA SeenEnds ==
  ASSUME StoreInv, NEW c \in Clients, NEW o \in Outcomes, Finish(c, o)
  PROVE  Promised!End(c, o)
<1>1. call' = [call EXCEPT ![c] = Outcome(o)] /\ DOMAIN call = Clients /\ clash' = clash \ {c}
  BY CallOf DEF Finish, StoreInv
<1>2. Seen(c)' = Outcome(o) /\ \A e \in Clients : e # c => Seen(e)' = Seen(e)
  BY <1>1 DEF Seen, Outcome
<1> QED
  BY <1>1, <1>2 DEF Promised!End, Promised!Outcome, Outcome

\* The call fails and nothing changes.
LEMMA RefineFail ==
  ASSUME StoreInv, NEW c \in Clients, call[c].op \in {"put", "delete"}, Finish(c, "err"),
         \A d \in Docs : Kept(d)' = Kept(d)
  PROVE  Promised!ANext
<1>1. Promised!End(c, "err")
  BY SeenEnds DEF Outcomes
<1>2. Promised!Fail(c)
  BY <1>1, SeenCall DEF Promised!Fail
<1> QED
  BY <1>2 DEF Promised!ANext

\* A save that overlaps no lost document stores its value.
LEMMA RefineCommit ==
  ASSUME StoreInv, NEW c \in Clients, call[c].op = "put", Finish(c, "ok"), c \in clash => Kept(Doc(c)) # Lost,
         NEW doc \in Docs, doc = Doc(c),
         Kept(doc)' = call[c].value, \A d \in Docs : d # doc => Kept(d)' = Kept(d)
  PROVE  Promised!ANext
<1> DEFINE seen == [e \in Clients |-> Seen(e)]
           kept == [d \in Docs |-> Kept(d)]
<1>1. Promised!End(c, "ok")
  BY SeenEnds DEF Outcomes
<1>2. kept' = [kept EXCEPT ![doc] = call[c].value]
  OBVIOUS
<1>3. seen[c].op = "put" /\ seen[c].doc = doc /\ seen[c].value = call[c].value
  BY SeenCall
<1>4. c \in clash => kept[doc] # Lost
  OBVIOUS
<1> HIDE DEF seen, kept
<1>5. Promised!Commit(c)
  BY <1>1, <1>2, <1>3, <1>4 DEF Promised!Commit, seen, kept
<1> QED
  BY <1>5 DEF Promised!ANext

\* The steps of a save: only the rename shows.  It stores the value, unless saves overlap.
LEMMA RefineSave ==
  ASSUME StoreInv, Serial, NEW c \in Clients, open_tmp(c) \/ write_tmp(c) \/ write_fails(c) \/ rename(c)
  PROVE  Promised!ANext \/ UNCHANGED Promised!avars
<1>0. call[c].op = "put" /\ DOMAIN call = Clients
  BY CallOf DEF open_tmp, write_tmp, write_fails, rename, AtStep, StoreInv
<1>1. ASSUME NEW pc, NEW fd, Goto(c, pc, fd) PROVE \A e \in Clients : Seen(e)' = Seen(e)
  <2>1. call' = [call EXCEPT ![c].pc = pc, ![c].fd = fd]
    BY <1>1 DEF Goto
  <2>2. call[c] \in Puts
    BY <1>0, CallOf DEF StoreInv
  <2>3. call'[c].op = "put" /\ call'[c].doc = call[c].doc /\ call'[c].value = call[c].value
    BY <1>0, <2>1, <2>2 DEF Puts
  <2> QED
    BY <1>0, <2>1, <2>3 DEF Seen
<1>2. CASE open_tmp(c) \/ write_tmp(c)
  <2>1. (\A e \in Clients : Seen(e)' = Seen(e)) /\ clash' = clash
    BY <1>1, <1>2 DEF open_tmp, write_tmp, Goto
  <2>2. \A d \in Docs : Kept(d)' = Kept(d)
    BY <1>2, ReadsStay
  <2> QED
    BY <2>1, <2>2 DEF Promised!avars
<1>3. CASE write_fails(c)
  <2>1. \A d \in Docs : Kept(d)' = Kept(d)
    BY <1>3, ReadsStay
  <2> QED
    BY <1>0, <1>3, <2>1, RefineFail DEF write_fails
<1>4. CASE rename(c)
  <2>1. call[c].pc = "written" /\ c \in Putting /\ backend = "file" /\ Doc(c) \in Docs /\ call[c].fd # 0
    BY <1>0, <1>4, HalfWay DEF rename, AtStep
  <2>d. PICK doc \in Docs : doc = Doc(c)
    BY <2>1
  <2>2. UNCHANGED <<content, backend, table>> /\ raced' = IF c \in clash THEN raced ELSE raced \ {doc}
    BY <1>4, <2>d DEF rename, fs
  <2>3. CASE c \in clash
    <3>1. doc \in raced /\ raced' = raced
      BY <2>1, <2>2, <2>3, <2>d DEF Serial, Overlap
    <3>2. \A d \in Docs : d # doc => target'[d] = target[d]
      BY <1>4, <2>d DEF rename, fs, StoreInv, Shape
    <3>3. \A d \in Docs : Kept(d)' = Kept(d)
      BY <2>2, <3>1, <3>2, SameFile DEF Kept
    <3>4. CASE Finish(c, "err")
      BY <1>0, <3>3, <3>4, RefineFail
    <3>5. CASE Finish(c, "ok")
      <4>1. Promised!End(c, "ok")
        BY <3>5, SeenEnds DEF Outcomes
      <4>2. Kept(doc) = Lost
        BY <3>1 DEF Kept
      <4>3. Promised!EndLost(c)
        BY <1>0, <2>3, <2>d, <3>3, <4>1, <4>2, SeenCall DEF Promised!EndLost
      <4> QED
        BY <4>3 DEF Promised!ANext
    <3> QED
      BY <1>4, <3>4, <3>5 DEF rename
  <2>4. CASE c \notin clash
    <3>1. tmp[Doc(c)] = call[c].fd /\ content[call[c].fd] = Whole(call[c].value)
      BY <2>1, <2>4 DEF Serial, OwnTmp
    <3>2. target' = [target EXCEPT ![Doc(c)] = tmp[Doc(c)]] /\ Finish(c, "ok")
      BY <1>4, <2>1, <3>1 DEF rename
    <3>3. target'[doc] = call[c].fd /\ \A d \in Docs : d # doc => target'[d] = target[d]
      BY <2>d, <3>1, <3>2 DEF StoreInv, Shape
    <3>4. get(doc)' = call[c].value
      BY <2>1, <2>2, <3>1, <3>3 DEF get, file_get, Whole
    <3>5. \A d \in Docs : d # doc => get(d)' = get(d)
      BY <2>2, <3>3, SameFile
    <3>6. doc \notin raced' /\ \A d \in Docs : d # doc => (d \in raced' <=> d \in raced)
      BY <2>2, <2>4
    <3>7. Kept(doc)' = call[c].value /\ \A d \in Docs : d # doc => Kept(d)' = Kept(d)
      BY <3>4, <3>5, <3>6 DEF Kept
    <3> QED
      BY <1>0, <2>4, <2>d, <3>2, <3>7, RefineCommit
  <2> QED
    BY <2>3, <2>4
<1> QED
  BY <1>2, <1>3, <1>4

\* delete_tag on files.
LEMMA RefineFileDelete ==
  ASSUME StoreInv, Serial, NEW c \in Clients, file_delete_tag(c)
  PROVE  Promised!ANext \/ UNCHANGED Promised!avars
<1>0. /\ call[c].op = "delete" /\ backend = "file" /\ DOMAIN call = Clients /\ call[c] \in Deletes
      /\ UNCHANGED <<backend, table, content, raced>>
  BY CallOf DEF file_delete_tag, fs, StoreInv
<1>1. PICK doc \in Docs : doc = Doc(c)
  BY <1>0, SeenCall
<1>t. UNCHANGED target => \A d \in Docs : Kept(d)' = Kept(d)
  BY <1>0, SameFile DEF Kept
<1>2. CASE Finish(c, "absent") /\ target[doc] = 0 /\ UNCHANGED target
  <2>1. Promised!End(c, "absent")
    BY <1>2, SeenEnds DEF Outcomes
  <2>2. Promised!DeleteNothing(c)
    BY <1>0, <1>2, <1>t, <2>1, SeenCall DEF Promised!DeleteNothing
  <2> QED
    BY <2>2 DEF Promised!ANext
<1>3. CASE Goto(c, "exists", 0) /\ UNCHANGED target
  <2>1. call' = [call EXCEPT ![c].pc = "exists", ![c].fd = 0] /\ clash' = clash
    BY <1>3 DEF Goto
  <2>2. call'[c].op = "delete" /\ call'[c].doc = call[c].doc /\ call'[c].value = call[c].value
    BY <1>0, <2>1 DEF Deletes
  <2>3. \A e \in Clients : Seen(e)' = Seen(e)
    BY <1>0, <2>1, <2>2 DEF Seen
  <2> QED
    BY <1>3, <1>t, <2>1, <2>3 DEF Promised!avars
<1>4. CASE Finish(c, "err") /\ UNCHANGED target
  BY <1>0, <1>4, <1>t, RefineFail
<1>5. CASE Finish(c, "deleted") /\ target[doc] # 0 /\ target' = [target EXCEPT ![doc] = 0]
  <2>1. target'[doc] = 0 /\ \A d \in Docs : d # doc => target'[d] = target[d]
    BY <1>5 DEF StoreInv, Shape
  <2>2. get(doc)' = Absent
    BY <1>0, <2>1 DEF get, file_get
  <2>3. \A d \in Docs : d # doc => Kept(d)' = Kept(d)
    BY <1>0, <2>1, SameFile DEF Kept
  <2>4. Promised!End(c, "deleted")
    BY <1>5, SeenEnds DEF Outcomes
  <2>5. CASE doc \in raced
    <3>1. Kept(doc) = Lost /\ Kept(doc)' = Lost
      BY <1>0, <2>5 DEF Kept
    <3>2. Promised!EndLost(c)
      BY <1>0, <1>1, <2>3, <2>4, <3>1, SeenCall DEF Promised!EndLost
    <3> QED
      BY <3>2 DEF Promised!ANext
  <2>6. CASE doc \notin raced
    <3>1. Kept(doc)' = Absent /\ Kept(doc) = get(doc) /\ get(doc) # Absent /\ get(doc) \in Values
      BY <1>0, <1>5, <2>2, <2>6, FilesRead, NotAbsent DEF Kept
    <3>2. Kept(doc) # Lost
      BY <3>1, NotValues
    <3>3. Promised!Delete(c)
      BY <1>0, <1>1, <2>3, <2>4, <3>1, <3>2, SeenCall DEF Promised!Delete
    <3> QED
      BY <3>3 DEF Promised!ANext
  <2> QED
    BY <2>5, <2>6
<1>6. \/ Finish(c, "absent") /\ target[doc] = 0 /\ UNCHANGED target
      \/ Goto(c, "exists", 0) /\ UNCHANGED target
      \/ Finish(c, "err") /\ UNCHANGED target
      \/ Finish(c, "deleted") /\ target[doc] # 0 /\ target' = [target EXCEPT ![doc] = 0]
  BY <1>1 DEF file_delete_tag, fs
<1> QED
  BY <1>2, <1>3, <1>4, <1>5, <1>6

\* A statement of the database.
LEMMA RefineSql ==
  ASSUME StoreInv, Serial, NEW c \in Clients,
         sql_put_version(c) \/ sql_put_head(c) \/ sql_set_tag(c) \/ sql_delete_tag(c)
  PROVE  Promised!ANext
<1>0. backend = "sql" /\ UNCHANGED <<backend, raced>> /\ Doc(c) \in Docs /\ call[c].op \in {"put", "delete"}
  BY SqlStep, CallKinds
<1>1. PICK doc \in Docs : doc = Doc(c)
  BY <1>0
<1>2. raced = {}
  BY <1>0 DEF Serial, Overlap
<1>3. \A d \in Docs : Kept(d) = table[d] /\ Kept(d)' = table'[d]
  BY <1>0, <1>2 DEF get, Kept
<1>4. DOMAIN table = Docs /\ \A d \in Docs : table[d] # Lost
  BY NotAbsent, NotValues DEF StoreInv, Shape
<1>5. CASE table' = table /\ Finish(c, "err")
  BY <1>0, <1>3, <1>5, RefineFail
<1>6. CASE call[c].op = "put" /\ table' = [table EXCEPT ![doc] = call[c].value] /\ Finish(c, "ok")
  <2>1. Kept(doc)' = call[c].value /\ \A d \in Docs : d # doc => Kept(d)' = Kept(d)
    BY <1>3, <1>4, <1>6
  <2>2. Kept(Doc(c)) # Lost
    BY <1>1, <1>3, <1>4
  <2> QED
    BY <1>1, <1>6, <2>1, <2>2, RefineCommit
<1>7. CASE call[c].op = "put" /\ table[doc] # Absent /\ table' = table /\ Finish(c, "ok")
  <2>1. Promised!End(c, "ok")
    BY <1>7, SeenEnds DEF Outcomes
  <2>2. Promised!Keep(c)
    BY <1>1, <1>3, <1>4, <1>7, <2>1, SeenCall DEF Promised!Keep
  <2> QED
    BY <2>2 DEF Promised!ANext
<1>8. CASE /\ call[c].op = "delete" /\ table' = [table EXCEPT ![doc] = Absent]
           /\ Finish(c, IF table[doc] = Absent THEN "absent" ELSE "deleted")
  <2> DEFINE o == IF table[doc] = Absent THEN "absent" ELSE "deleted"
  <2>1. Promised!End(c, o)
    <3>1. o \in Outcomes /\ Finish(c, o)
      BY <1>8 DEF Outcomes
    <3> QED
      BY <3>1, SeenEnds
  <2>2. Kept(doc)' = Absent /\ \A d \in Docs : d # doc => Kept(d)' = Kept(d)
    BY <1>3, <1>4, <1>8
  <2>3. Promised!Delete(c)
    BY <1>1, <1>3, <1>4, <1>8, <2>1, <2>2, SeenCall DEF Promised!Delete
  <2> QED
    BY <2>3 DEF Promised!ANext
<1> QED
  BY <1>1, <1>5, <1>6, <1>7, <1>8, SqlStep

\* FlowStore and TagStore: whatever the clients do, whichever of their saves overlap and
\* wherever the process crashes, the stores behave as one store whose documents change in a
\* single step, in which saves of one document that overlap on files may lose that document
\* and no other, until a save that overlaps none stores it again.
THEOREM StoresRefineDocuments == Spec => StoresAreAtomic
<1>1. StoreInv /\ Serial /\ [Next]_vars => [Promised!ANext]_(Promised!avars)
  <2> SUFFICES ASSUME StoreInv, Serial, [Next]_vars PROVE Promised!ANext \/ UNCHANGED Promised!avars
    OBVIOUS
  <2>1. ASSUME Crash PROVE Promised!Crash
    <3>1. \A d \in Docs : Kept(d)' = Kept(d)
      BY <2>1 DEF Crash, Kept, get, file_get, fs
    <3>2. (\A c \in Clients : Seen(c)' = Idle) /\ clash' = {}
      BY <2>1 DEF Crash, Seen, Idle
    <3> QED
      BY <3>1, <3>2 DEF Promised!Crash, Promised!Idle, Idle
  <2>2. ASSUME UNCHANGED <<backend, table, fs, call, calls, clash, raced>> PROVE UNCHANGED Promised!avars
    <3>1. \A d \in Docs : Kept(d)' = Kept(d)
      BY <2>2 DEF Kept, get, file_get, fs
    <3>2. \A c \in Clients : Seen(c)' = Seen(c)
      BY <2>2 DEF Seen
    <3> QED
      BY <2>2, <3>1, <3>2 DEF Promised!avars
  <2>3. CASE Next
    BY <2>1, <2>2, <2>3, StepCases, RefineBegin, RefineSave, RefineFileDelete, RefineSql DEF StoreInv, Promised!ANext
  <2>4. CASE UNCHANGED vars
    BY <2>2, <2>4 DEF vars
  <2> QED
    BY <2>3, <2>4
<1> QED
  BY <1>1, StoresKeepInv, RefineInit, PTL DEF Spec, StoresAreAtomic, Promised!ASpec

--------------------------------------------------------------------------
(* Versions.                                                               *)

\* What a read of d may find.
Finds(d) == Fits(d) \cup {NotParsed, Absent}
\* A read finds something exactly if there is a file or a row.
ReadsFit == \A d \in Docs : /\ get(d) \in Finds(d)
                            /\ get(d) # Absent <=> (IF backend = "file" THEN target[d] # 0 ELSE table[d] # Absent)
\* What get_head, get_version and get_tag find is what fits the document, or cannot be parsed.
LEMMA GetsFit == StoreInv /\ Serial => ReadsFit
<1> SUFFICES ASSUME StoreInv, Serial, NEW d \in Docs
             PROVE  /\ get(d) \in Finds(d)
                    /\ get(d) # Absent <=> (IF backend = "file" THEN target[d] # 0 ELSE table[d] # Absent)
  BY DEF ReadsFit
<1>1. CASE backend # "file"
  BY <1>1 DEF get, Finds, StoreInv, TableFits
<1>2. CASE backend = "file" /\ target[d] = 0
  BY <1>2 DEF get, file_get, Finds
<1>3. CASE backend = "file" /\ target[d] # 0
  <2>1. content[target[d]] \in Bytes(d)
    BY <1>3 DEF Serial, Owned
  <2>2. CASE content[target[d]] \in {Empty, Torn}
    BY <1>3, <2>2, NotAbsent DEF get, file_get, Empty, Torn, Finds
  <2>3. ASSUME NEW v \in Fits(d), content[target[d]] = Whole(v) PROVE get(d) = v
    BY <1>3, <2>3 DEF get, file_get, Whole
  <2> QED
    BY <1>3, <2>1, <2>2, <2>3, NotAbsent DEF Bytes, Finds
<1> QED
  BY <1>1, <1>2, <1>3
\* The same in the next state.
LEMMA GetsFitNext == StoreInv' /\ Serial' => ReadsFit'
  BY GetsFit, PTL

\* No step removes a file, or a row, of a head or a version; the row of a version does not change.
LEMMA DocumentStays ==
  ASSUME StoreInv, [Next]_vars, NEW doc \in Docs, doc.kind # "tag"
  PROVE  /\ backend' = backend
         /\ target[doc] # 0 => target'[doc] # 0
         /\ doc.kind = "version" /\ table[doc] # Absent => table'[doc] = table[doc]
<1>1. ASSUME UNCHANGED <<backend, table, fs>> PROVE UNCHANGED <<backend, table, target>>
  BY <1>1 DEF fs
<1>2. CASE UNCHANGED vars
  BY <1>2 DEF vars, fs
<1>3. ASSUME NEW c \in Clients, Begins(c) PROVE UNCHANGED <<backend, table, target>>
  BY <1>3, BeginCall DEF fs
<1>4. ASSUME NEW c \in Clients, open_tmp(c) \/ write_tmp(c) \/ write_fails(c) PROVE UNCHANGED <<backend, table, target>>
  BY <1>4 DEF open_tmp, write_tmp, write_fails
<1>5. ASSUME NEW c \in Clients, rename(c)
      PROVE  UNCHANGED <<backend, table>> /\ (target[doc] # 0 => target'[doc] # 0)
  <2>1. \/ UNCHANGED target
        \/ tmp[Doc(c)] # 0 /\ target' = [target EXCEPT ![Doc(c)] = tmp[Doc(c)]]
    BY <1>5 DEF rename, fs
  <2>2. UNCHANGED <<backend, table>>
    BY <1>5 DEF rename
  <2> QED
    BY <2>1, <2>2 DEF StoreInv, Shape
<1>6. ASSUME NEW c \in Clients, call[c].op = "delete" PROVE Doc(c) # doc
  BY <1>6, CallOf DEF StoreInv, Deletes, Doc
<1>7. ASSUME NEW c \in Clients, file_delete_tag(c)
      PROVE  UNCHANGED <<backend, table>> /\ target'[doc] = target[doc]
  <2>1. call[c].op = "delete" /\ UNCHANGED <<backend, table>>
        /\ (UNCHANGED target \/ target' = [target EXCEPT ![Doc(c)] = 0])
    BY <1>7 DEF file_delete_tag, fs
  <2> QED
    BY <1>6, <2>1 DEF StoreInv, Shape
<1>8. ASSUME NEW c \in Clients,
             sql_put_version(c) \/ sql_put_head(c) \/ sql_set_tag(c) \/ sql_delete_tag(c)
      PROVE  UNCHANGED <<backend, target>> /\ (doc.kind = "version" /\ table[doc] # Absent => table'[doc] = table[doc])
  <2>1. UNCHANGED <<backend, fs>> /\ Doc(c) \in Docs
        /\ \/ table' = table
           \/ table' = [table EXCEPT ![Doc(c)] = call[c].value] /\ (Doc(c).kind = "version" => table[Doc(c)] = Absent)
           \/ call[c].op = "delete" /\ table' = [table EXCEPT ![Doc(c)] = Absent]
    BY <1>8, SqlStep
  <2>2. DOMAIN table = Docs
    BY DEF StoreInv, Shape
  <2> QED
    BY <1>6, <2>1, <2>2 DEF fs
<1>9. ASSUME Crash PROVE UNCHANGED <<backend, table, target>>
  BY <1>9 DEF Crash, fs
<1> QED
  BY <1>1, <1>2, <1>3, <1>4, <1>5, <1>7, <1>8, <1>9, StepCases DEF StoreInv

\* get_versions_for_diff: two versions that can be compared can be compared ever after, and
\* in the database the comparison never changes, whichever saves overlap.
THEOREM ComparisonsStay == Spec => VersionsStay
<1>1. ASSUME StoreInv, Serial, StoreInv', Serial', [Next]_vars, NEW v \in VersionIds, get(VersionOf(v)) # Absent
      PROVE  /\ get(VersionOf(v))' # Absent /\ get(VersionOf(v))' \in Values \cup {NotParsed}
             /\ backend = "sql" => get(VersionOf(v))' = get(VersionOf(v))
  <2>1. PICK doc \in Docs : doc = VersionOf(v) /\ doc.kind = "version"
    <3>1. VersionOf(v) \in Docs /\ VersionOf(v).kind = "version"
      BY DEF Docs, VersionOf
    <3> QED
      BY <3>1
  <2>2. ReadsFit /\ ReadsFit' /\ backend' = backend
    BY <1>1, <2>1, GetsFit, GetsFitNext, DocumentStays
  <2>3. get(doc)' # Absent
    <3>1. CASE backend = "file"
      BY <1>1, <2>1, <2>2, <3>1, DocumentStays DEF ReadsFit
    <3>2. CASE backend # "file"
      BY <1>1, <2>1, <2>2, <3>2, DocumentStays DEF ReadsFit
    <3> QED
      BY <3>1, <3>2
  <2>4. get(doc)' \in Values \cup {NotParsed}
    BY <2>2, <2>3, NotAbsent DEF ReadsFit, Finds
  <2>5. backend = "sql" => get(doc)' = get(doc)
    BY <1>1, <2>1, <2>2, DocumentStays DEF get
  <2> QED
    BY <2>1, <2>3, <2>4, <2>5
<1>2. ASSUME StoreInv, Serial, StoreInv', Serial', [Next]_vars, NEW a \in VersionIds, NEW b \in VersionIds,
             get_versions_for_diff(a, b) # Absent
      PROVE  /\ get_versions_for_diff(a, b)' # Absent
             /\ backend = "sql" => get_versions_for_diff(a, b)' = get_versions_for_diff(a, b)
  <2>1. get(VersionOf(a)) # Absent /\ get(VersionOf(b)) # Absent
        /\ get_versions_for_diff(a, b) = <<get(VersionOf(a)), get(VersionOf(b))>>
    BY <1>2 DEF get_versions_for_diff
  <2>2. /\ get(VersionOf(a))' # Absent /\ get(VersionOf(a))' \in Values \cup {NotParsed}
        /\ backend = "sql" => get(VersionOf(a))' = get(VersionOf(a))
    BY <1>1, <1>2, <2>1
  <2>3. /\ get(VersionOf(b))' # Absent /\ get(VersionOf(b))' \in Values \cup {NotParsed}
        /\ backend = "sql" => get(VersionOf(b))' = get(VersionOf(b))
    BY <1>1, <1>2, <2>1
  <2>4. get_versions_for_diff(a, b)' = <<get(VersionOf(a))', get(VersionOf(b))'>>
    BY <2>2, <2>3 DEF get_versions_for_diff
  <2> QED
    BY <2>1, <2>2, <2>3, <2>4, NotAbsent
<1>3. StoreInv /\ Serial /\ StoreInv' /\ Serial' /\ [Next]_vars =>
        [\A a, b \in VersionIds : get_versions_for_diff(a, b) # Absent =>
         /\ get_versions_for_diff(a, b)' # Absent
         /\ backend = "sql" => get_versions_for_diff(a, b)' = get_versions_for_diff(a, b)]_vars
  BY <1>2
<1> QED
  BY <1>3, StoresKeepInv, PTL DEF Spec, VersionsStay

--------------------------------------------------------------------------
(* The reader.                                                             *)

\* What the reader has found and what there was while it read.
ReadShape ==
  /\ reading \in {"idle", "reading", "returned", "gone"}
  /\ DOMAIN since \subseteq Docs /\ DOMAIN found = DOMAIN since
  /\ \A d \in DOMAIN since : since[d] \subseteq Finds(d) /\ found[d] \in Finds(d)
  /\ \A d, e \in entry : d = e
  /\ reading # "reading" => entry = {}
\* In the middle of a call: what the document is now is a state it had, what has been read
\* too, and the file of a head or a version seen in the directory is still there.
MidRead ==
  /\ unread \cup entry \subseteq DOMAIN since /\ unread \cap entry = {}
  /\ \A d \in unread : found[d] = Absent
  /\ \A d \in DOMAIN since : get(d) \in since[d] /\ (d \notin unread \cup entry => found[d] \in since[d])
  /\ \A d \in entry : (\E x \in since[d] : x # Absent) /\ (d.kind # "tag" => target[d] # 0)
Gone == \E d \in DOMAIN since : d.kind = "tag" /\ Absent \in since[d] /\ since[d] # {Absent}
ReaderInv ==
  /\ ReadShape
  /\ reading = "reading" => MidRead
  /\ reading = "returned" => \A d \in DOMAIN since : found[d] \in since[d]
  /\ reading = "gone" => Gone

\* A reader that has ended its call has nothing.
LEMMA EndReadKeeps ==
  ASSUME EndRead
  PROVE  ReaderInv'
  BY DEF EndRead, ReaderInv, ReadShape

\* The clients' steps under a reader (Watch).
LEMMA WatchKeeps ==
  ASSUME StoreInv, Serial, StoreInv', Serial', ReaderInv, [Next]_vars, Watch
  PROVE  ReaderInv'
<1>1. CASE reading # "reading"
  BY <1>1, EndReadKeeps DEF Watch
<1>2. CASE reading = "reading"
  <2>1. since' = [d \in DOMAIN since |-> since[d] \cup {get(d)'}] /\ UNCHANGED <<reading, unread, entry, found>>
    BY <1>2 DEF Watch
  <2>2. ReadShape /\ MidRead
    BY <1>2 DEF ReaderInv
  <2>3. DOMAIN since' = DOMAIN since /\ \A d \in DOMAIN since : since'[d] = since[d] \cup {get(d)'}
    BY <2>1
  <2>4. \A d \in DOMAIN since : get(d)' \in Finds(d)
    BY <2>2, GetsFitNext DEF ReadsFit, ReadShape
  <2>5. ReadShape'
    BY <2>1, <2>2, <2>3, <2>4 DEF ReadShape
  <2>6. ASSUME NEW d \in entry PROVE (\E x \in since'[d] : x # Absent) /\ (d.kind # "tag" => target'[d] # 0)
    <3>1. d \in DOMAIN since /\ d \in Docs
      BY <2>2 DEF MidRead, ReadShape
    <3>2. d.kind # "tag" => target'[d] # 0
      BY <2>2, <3>1, DocumentStays DEF MidRead
    <3> QED
      BY <2>2, <2>3, <3>1, <3>2 DEF MidRead
  <2>7. MidRead'
    BY <2>1, <2>2, <2>3, <2>6 DEF MidRead
  <2> QED
    BY <1>2, <2>1, <2>5, <2>7 DEF ReaderInv
<1> QED
  BY <1>1, <1>2

\* The begin of a call.
LEMMA BeginReadKeeps ==
  ASSUME StoreInv, Serial, ReaderInv, NEW S \in Queries, begin_read(S), UNCHANGED <<backend, table, fs>>
  PROVE  ReaderInv'
<1>1. S \subseteq Docs
  BY DEF Queries, Kind
<1>2. /\ reading' = "reading" /\ unread' = S /\ entry' = {}
      /\ DOMAIN found' = S /\ DOMAIN since' = S /\ \A d \in S : found'[d] = Absent /\ since'[d] = {get(d)}
  BY DEF begin_read
<1>3. \A d \in S : get(d)' = get(d) /\ get(d) \in Finds(d) /\ Absent \in Finds(d)
  <2>1. \A d \in S : get(d)' = get(d)
    BY DEF get, file_get, fs
  <2> QED
    BY <1>1, <2>1, GetsFit DEF ReadsFit, Finds
<1>4. ReadShape'
  BY <1>1, <1>2, <1>3 DEF ReadShape
<1>5. MidRead'
  BY <1>2, <1>3 DEF MidRead
<1> QED
  BY <1>2, <1>4, <1>5 DEF ReaderInv

\* The reader looks for the next file.
LEMMA LookKeeps ==
  ASSUME StoreInv, Serial, ReaderInv, NEW d \in Docs, file_look(d), UNCHANGED <<backend, table, fs>>
  PROVE  ReaderInv'
<1>1. ReadShape /\ MidRead /\ backend = "file" /\ d \in unread /\ entry = {} /\ UNCHANGED <<found, since>>
  BY DEF ReaderInv, file_look
<1>2. \A e \in Docs : get(e)' = get(e) /\ target'[e] = target[e]
  BY DEF get, file_get, fs
<1>3. unread' = unread \ {d} /\ entry' = (IF target[d] = 0 THEN {} ELSE {d})
      /\ reading' = IF unread' \cup entry' = {} THEN "returned" ELSE "reading"
  BY DEF file_look, ReadOn
<1>4. ReadShape'
  BY <1>1, <1>3 DEF ReadShape
<1>5. d \in DOMAIN since /\ get(d) \in since[d] /\ found[d] \in Finds(d)
  BY <1>1 DEF MidRead, ReadShape
<1>6. target[d] = 0 => get(d) = Absent
  BY <1>1 DEF get, file_get
<1>7. target[d] # 0 => get(d) # Absent
  BY <1>1, GetsFit DEF ReadsFit
<1>8. unread' \cup entry' \subseteq DOMAIN since
  BY <1>1, <1>3, <1>5 DEF MidRead
<1>9. target[d] = 0 => found[d] \in since[d]
  BY <1>1, <1>5, <1>6 DEF ReaderInv, MidRead
<1>10. ASSUME NEW e \in DOMAIN since, e \notin unread' \cup entry' PROVE found[e] \in since[e]
  BY <1>1, <1>3, <1>9, <1>10 DEF MidRead
<1>11. ASSUME NEW e \in entry' PROVE (\E x \in since[e] : x # Absent) /\ target[e] # 0
  BY <1>3, <1>5, <1>7, <1>11
<1>12. MidRead'
  <2>1. \A e \in DOMAIN since : get(e)' \in since[e]
    BY <1>1, <1>2 DEF MidRead, ReadShape
  <2>2. \A e \in entry' : e \in Docs
    BY <1>3
  <2> QED
    BY <1>1, <1>2, <1>3, <1>8, <1>10, <1>11, <2>1, <2>2 DEF MidRead
<1>13. reading' = "returned" => \A e \in DOMAIN since : found[e] \in since[e]
  BY <1>3, <1>10
<1>14. reading' \in {"returned", "reading"}
  BY <1>3
<1> QED
  BY <1>1, <1>4, <1>12, <1>13, <1>14 DEF ReaderInv

\* The reader reads the file it has seen, or finds it gone.
LEMMA ReadKeeps ==
  ASSUME StoreInv, Serial, ReaderInv, NEW d \in Docs, file_read(d), UNCHANGED <<backend, table, fs>>
  PROVE  ReaderInv'
<1>1. backend = "file" /\ d \in entry /\ since' = since
  BY DEF file_read
<1>2. ReadShape /\ MidRead /\ entry = {d}
  BY <1>1 DEF ReaderInv, ReadShape
<1>3. \A e \in Docs : get(e)' = get(e) /\ target'[e] = target[e]
  BY DEF get, file_get, fs
<1>4. d \in DOMAIN since /\ get(d) \in since[d] /\ get(d) = file_get(d) /\ (d.kind # "tag" => target[d] # 0)
      /\ \E x \in since[d] : x # Absent
  BY <1>1, <1>2 DEF MidRead, ReadShape, get
<1>5. CASE target[d] = 0
  <2>1. reading' = "gone" /\ unread' = {} /\ entry' = {} /\ UNCHANGED found
    BY <1>5 DEF file_read
  <2>2. get(d) = Absent /\ d.kind = "tag"
    BY <1>1, <1>4, <1>5 DEF file_get
  <2>3. Gone'
    BY <1>1, <1>4, <2>2 DEF Gone
  <2>4. ReadShape'
    BY <1>1, <1>2, <2>1 DEF ReadShape
  <2> QED
    BY <2>1, <2>3, <2>4 DEF ReaderInv
<1>6. CASE target[d] # 0
  <2>1. unread' = unread /\ entry' = {} /\ reading' = (IF unread = {} THEN "returned" ELSE "reading")
        /\ found' = [found EXCEPT ![d] = file_get(d)]
    BY <1>6 DEF file_read, ReadOn
  <2>2. DOMAIN found' = DOMAIN since /\ found'[d] = get(d) /\ \A e \in DOMAIN since : e # d => found'[e] = found[e]
    BY <1>2, <1>4, <2>1 DEF ReadShape
  <2>3. ReadShape'
    BY <1>1, <1>2, <1>4, <2>1, <2>2 DEF ReadShape
  <2>4. \A e \in DOMAIN since : e \notin unread => found'[e] \in since[e]
    BY <1>2, <1>4, <2>2 DEF MidRead
  <2>5. MidRead'
    <3>1. \A e \in DOMAIN since : get(e)' \in since[e]
      BY <1>2, <1>3 DEF MidRead, ReadShape
    <3> QED
      BY <1>1, <1>2, <2>1, <2>4, <3>1 DEF MidRead
  <2>6. reading' \in {"returned", "reading"} /\ (reading' = "returned" => unread = {})
    BY <2>1
  <2> QED
    BY <1>1, <2>3, <2>4, <2>5, <2>6 DEF ReaderInv
<1> QED
  BY <1>5, <1>6

\* A query of the database.
LEMMA SelectKeeps ==
  ASSUME StoreInv, Serial, ReaderInv, sql_select, UNCHANGED <<backend, table, fs>>
  PROVE  ReaderInv'
<1>1. ReadShape /\ MidRead /\ backend = "sql" /\ since' = since
  BY DEF ReaderInv, sql_select
<1>2. /\ entry' = {} /\ reading' = "returned" /\ DOMAIN found' = DOMAIN since
      /\ \A d \in DOMAIN since : found'[d] = get(d)
  BY <1>1 DEF sql_select, ReadOn, get, ReadShape
<1>3. \A d \in DOMAIN since : get(d) \in since[d]
  BY <1>1 DEF MidRead
<1>4. ReadShape'
  BY <1>1, <1>2, <1>3 DEF ReadShape
<1> QED
  BY <1>1, <1>2, <1>3, <1>4 DEF ReaderInv

\* The invariant of the reader.
LEMMA ReaderKeepsInv == Spec => []ReaderInv
<1>1. Init => ReaderInv
  BY DEF Init, ReaderInv, ReadShape
<1>2. StoreInv /\ Serial /\ (StoreInv /\ Serial)' /\ ReaderInv /\ [Next]_vars => ReaderInv'
  <2> SUFFICES ASSUME StoreInv, Serial, StoreInv', Serial', ReaderInv, [Next]_vars PROVE ReaderInv'
    OBVIOUS
  <2>1. CASE Change /\ Watch
    BY <2>1, WatchKeeps
  <2>2. CASE Read
    <3>1. UNCHANGED <<backend, table, fs>>
      BY <2>2 DEF Read
    <3>2. \/ \E S \in Queries : begin_read(S)
          \/ \E d \in Docs : file_look(d) \/ file_read(d)
          \/ sql_select \/ EndRead
      BY <2>2 DEF Read, read_fails
    <3> QED
      BY <3>1, <3>2, BeginReadKeeps, LookKeeps, ReadKeeps, SelectKeeps, EndReadKeeps
  <2>3. CASE Crash
    BY <2>3, EndReadKeeps DEF Crash
  <2>4. CASE UNCHANGED vars
    <3>1. UNCHANGED <<backend, table, target, content, reading, unread, entry, found, since>>
      BY <2>4 DEF vars, fs, reader
    <3>2. \A d : get(d)' = get(d)
      BY <3>1 DEF get, file_get
    <3> QED
      BY <3>1, <3>2 DEF ReaderInv, ReadShape, MidRead, Gone
  <2> QED
    BY <2>1, <2>2, <2>3, <2>4 DEF Next
<1> QED
  BY <1>1, <1>2, StoresKeepInv, PTL DEF Spec

--------------------------------------------------------------------------
(* Listings.                                                               *)

\* A document of a kind by its name.
LEMMA KindOfDoc ==
  ASSUME NEW d \in Docs
  PROVE  /\ d.kind = "head" => d.flow \in Flows /\ d = HeadOf(d.flow)
         /\ d.kind = "version" => d.key \in VersionIds /\ d = VersionOf(d.key)
         /\ d.kind = "tag" => d.flow \in Flows /\ d.key \in Tags /\ d = TagOf(d.flow, d.key)
  BY DEF Docs, HeadOf, VersionOf, TagOf
\* The documents of the flow and tag stores and the fields that name them.
LEMMA DocsOfKind ==
  /\ \A f \in Flows : HeadOf(f) \in Docs /\ HeadOf(f).kind = "head" /\ HeadOf(f).flow = f
  /\ \A v \in VersionIds : VersionOf(v) \in Docs /\ VersionOf(v).kind = "version" /\ VersionOf(v).key = v
  /\ \A f \in Flows, t \in Tags : TagOf(f, t) \in Docs /\ TagOf(f, t).kind = "tag"
                                 /\ TagOf(f, t).flow = f /\ TagOf(f, t).key = t
<1>1. \A f \in Flows : HeadOf(f) \in Docs /\ HeadOf(f).kind = "head" /\ HeadOf(f).flow = f
  BY DEF Docs, HeadOf
<1>2. \A v \in VersionIds : VersionOf(v) \in Docs /\ VersionOf(v).kind = "version" /\ VersionOf(v).key = v
  BY DEF Docs, VersionOf
<1>3. \A f \in Flows, t \in Tags : TagOf(f, t) \in Docs /\ TagOf(f, t).kind = "tag"
                                  /\ TagOf(f, t).flow = f /\ TagOf(f, t).key = t
  BY DEF Docs, TagOf
<1> QED
  BY <1>1, <1>2, <1>3

\* list_flows.
LEMMA FlowsListed ==
  ASSUME ReadShape, DOMAIN found = Kind("head")
  PROVE  list_flows = {f \in Flows : found[HeadOf(f)] \in Values}
<1>1. \A d \in Kind("head") : d.flow \in Flows /\ d = HeadOf(d.flow)
  BY KindOfDoc DEF Kind
<1>2. \A f \in Flows : HeadOf(f) \in Kind("head") /\ HeadOf(f).flow = f
  BY DocsOfKind DEF Kind
<1> QED
  BY <1>1, <1>2 DEF list_flows, Listed

TagDocs == {d \in Docs : d.kind = "tag"}
TagOrder(ds) == {p \in ds \X ds : ByTag(p[1], p[2])}
TagList(ds) == [k \in 1..Cardinality(ds) |-> CHOOSE x \in ds : Cardinality({y \in ds : ByTag(y, x)}) = k - 1]
\* There are finitely many tags, and their names order them.
LEMMA TagsOrdered ==
  ASSUME NEW ds, ds \subseteq TagDocs
  PROVE  IsFiniteSet(ds) /\ Orders(TagOrder(ds), ds)
<1>1. IsFiniteSet(TagDocs)
  <2>1. IsFiniteSet(Flows \X Tags)
    BY FS_Product, FlowStoresAssumption
  <2> DEFINE P == Flows \X Tags
             h == [p \in P |-> TagOf(p[1], p[2])]
  <2>2. h \in [P -> TagDocs]
    BY DocsOfKind DEF TagDocs
  <2>3. \A d \in TagDocs : \E p \in P : h[p] = d
    <3> SUFFICES ASSUME NEW d \in TagDocs PROVE \E p \in P : h[p] = d
      OBVIOUS
    <3>1. d.flow \in Flows /\ d.key \in Tags /\ d = TagOf(d.flow, d.key)
      BY KindOfDoc DEF TagDocs
    <3>2. <<d.flow, d.key>> \in P /\ h[<<d.flow, d.key>>] = d
      BY <3>1
    <3> QED
      BY <3>2
  <2>4. h \in Surjection(P, TagDocs)
    BY <2>2, <2>3 DEF Surjection
  <2> HIDE DEF h, P
  <2>5. IsFiniteSet(P)
    BY <2>1 DEF P
  <2> QED
    BY <2>4, <2>5, FS_Surjection
<1>2. IsFiniteSet(ds)
  BY <1>1, FS_Subset
<1>3. ASSUME NEW d \in ds PROVE d.flow \in Nat /\ d.key \in Nat /\ d = TagOf(d.flow, d.key)
  BY KindOfDoc, FlowStoresAssumption DEF TagDocs
<1>4. \A x, y \in ds : <<x, y>> \in TagOrder(ds) <=> x.key < y.key \/ (x.key = y.key /\ x.flow < y.flow)
  BY DEF TagOrder, ByTag
<1>5. \A x \in ds : <<x, x>> \notin TagOrder(ds)
  BY <1>3, <1>4
<1>6. \A x, y, z \in ds : <<x, y>> \in TagOrder(ds) /\ <<y, z>> \in TagOrder(ds) => <<x, z>> \in TagOrder(ds)
  BY <1>3, <1>4
<1>7. ASSUME NEW x \in ds, NEW y \in ds, x # y PROVE <<x, y>> \in TagOrder(ds) \/ <<y, x>> \in TagOrder(ds)
  <2>1. x.key # y.key \/ x.flow # y.flow
    BY <1>3, <1>7
  <2> QED
    BY <1>3, <1>4, <2>1
<1> QED
  BY <1>2, <1>5, <1>6, <1>7 DEF Orders

\* A name occurs in the list of some tags as often as there are tags of the name.
LEMMA NamesCounted ==
  ASSUME NEW ds, ds \subseteq TagDocs, NEW t
  PROVE  Count(TagNames(ds), t) = Cardinality({d \in ds : d.key = t})
<1> DEFINE s == TagList(ds)
           n == Cardinality(ds)
<1>0. IsFiniteSet(ds) /\ n \in Nat /\ Orders(TagOrder(ds), ds)
  BY TagsOrdered, FS_CardinalityType
<1>1. Lists(s, TagOrder(ds), ds)
  <2>1. \A x \in ds : Below(TagOrder(ds), ds, x) = {y \in ds : ByTag(y, x)}
    BY DEF Below, TagOrder
  <2>2. \A k \in 1..n : \E x \in ds : Cardinality(Below(TagOrder(ds), ds, x)) = k - 1
    BY <1>0, RankOf
  <2>3. \A k \in 1..n : \E x \in ds : Cardinality({y \in ds : ByTag(y, x)}) = k - 1
    BY <2>1, <2>2
  <2>4. ASSUME NEW k \in 1..n PROVE s[k] \in ds /\ Cardinality({y \in ds : ByTag(y, s[k])}) = k - 1
    BY <2>3 DEF TagList
  <2>5. \A k \in 1..n : s[k] \in ds /\ Cardinality(Below(TagOrder(ds), ds, s[k])) = k - 1
    BY <2>1, <2>4
  <2>6. s \in [1..n -> ds]
    BY <2>5 DEF TagList
  <2> HIDE DEF s
  <2> QED
    BY <1>0, <2>5, <2>6, ListsByRank
<1>2. TagNames(ds) = [k \in 1..n |-> s[k].key]
  BY DEF TagNames, Sorted, TagList
<1> DEFINE K == {k \in 1..n : s[k].key = t}
           T == {d \in ds : d.key = t}
           h == [k \in K |-> s[k]]
<1>3. Count(TagNames(ds), t) = Cardinality(K)
  <2> HIDE DEF s, n
  <2>1. {k \in DOMAIN TagNames(ds) : TagNames(ds)[k] = t} = K
    BY <1>2
  <2> QED
    BY <2>1 DEF Count
<1>4. IsFiniteSet(K)
  <2>1. IsFiniteSet(1..n) /\ K \subseteq 1..n
    BY <1>0, FS_Interval
  <2> QED
    BY <2>1, FS_Subset
<1>5. h \in [K -> T] /\ (\A i, j \in K : h[i] = h[j] => i = j) /\ (\A d \in T : \E k \in K : h[k] = d)
  <2>1. s \in [1..n -> ds] /\ (\A x \in ds : \E k \in 1..n : s[k] = x)
    BY <1>1 DEF Lists
  <2> HIDE DEF s
  <2>3. \A i, j \in 1..n : s[i] = s[j] => i = j
    BY <1>0, <1>1, ListsDistinct
  <2> HIDE DEF n
  <2> QED
    BY <2>1, <2>3
<1> HIDE DEF K, T, h
<1>6. Cardinality(T) = Cardinality(K)
  BY <1>4, <1>5, SameSize
<1> QED
  BY <1>3, <1>6 DEF T

\* list_tags and tags_for_version, in terms of the tags that were read.
LEMMA TagsListed ==
  ASSUME ReadShape, DOMAIN found = Kind("tag"), NEW t \in Tags
  PROVE  /\ \A f \in Flows : Count(list_tags(f), t) = IF found[TagOf(f, t)] \in Values THEN 1 ELSE 0
         /\ \A v \in VersionIds : Count(tags_for_version(v), t)
                                   = Cardinality({f \in Flows : found[TagOf(f, t)] = [version |-> v]})
<1>1. Listed \subseteq TagDocs /\ \A d \in TagDocs : d \in Listed <=> found[d] \in Values
  BY DEF Listed, Kind, TagDocs
<1>2. ASSUME NEW f \in Flows PROVE Count(list_tags(f), t) = IF found[TagOf(f, t)] \in Values THEN 1 ELSE 0
  <2> DEFINE ds == {d \in Listed : d.flow = f}
             T == {d \in ds : d.key = t}
  <2>1. list_tags(f) = TagNames(ds)
    BY DEF list_tags
  <2>2. ds \subseteq TagDocs
    BY <1>1
  <2>3. Count(list_tags(f), t) = Cardinality(T)
    <3> HIDE DEF ds
    <3> QED
      BY <2>1, <2>2, NamesCounted
  <2>4. \A d \in T : d = TagOf(f, t)
    BY <1>1, KindOfDoc DEF TagDocs
  <2>5. TagOf(f, t) \in T <=> found[TagOf(f, t)] \in Values
    BY <1>1, DocsOfKind DEF TagDocs
  <2> HIDE DEF T
  <2>6. CASE found[TagOf(f, t)] \in Values
    <3>1. T = {TagOf(f, t)}
      BY <2>4, <2>5, <2>6
    <3> QED
      BY <2>3, <2>6, <3>1, FS_Singleton
  <2>7. CASE found[TagOf(f, t)] \notin Values
    <3>1. T = {}
      BY <2>4, <2>5, <2>7
    <3> QED
      BY <2>3, <2>7, <3>1, FS_EmptySet
  <2> QED
    BY <2>6, <2>7
<1>3. ASSUME NEW v \in VersionIds
      PROVE  Count(tags_for_version(v), t) = Cardinality({f \in Flows : found[TagOf(f, t)] = [version |-> v]})
  <2> DEFINE ds == {d \in Listed : found[d].version = v}
             T == {d \in ds : d.key = t}
             F == {f \in Flows : found[TagOf(f, t)] = [version |-> v]}
             h == [f \in F |-> TagOf(f, t)]
  <2>1. tags_for_version(v) = TagNames(ds)
    BY DEF tags_for_version
  <2>2. ds \subseteq TagDocs
    BY <1>1
  <2>3. Count(tags_for_version(v), t) = Cardinality(T)
    <3> HIDE DEF ds
    <3> QED
      BY <2>1, <2>2, NamesCounted
  <2>4. \A f \in F : TagOf(f, t) \in T
    <3> SUFFICES ASSUME NEW f \in Flows, found[TagOf(f, t)] = [version |-> v] PROVE TagOf(f, t) \in T
      OBVIOUS
    <3>1. found[TagOf(f, t)] \in Values
      BY DEF Values
    <3> QED
      BY <1>1, <3>1, DocsOfKind DEF TagDocs
  <2>5. ASSUME NEW d \in T PROVE d.flow \in F /\ d = TagOf(d.flow, t)
    <3>1. /\ d.flow \in Flows /\ d = TagOf(d.flow, t) /\ found[d] \in Values /\ found[d].version = v
          /\ d \in DOMAIN since /\ d.kind = "tag"
      BY <1>1, KindOfDoc DEF TagDocs, Kind, ReadShape
    <3>2. found[d] \in HeadValues
      BY <3>1, NotAbsent, NotValues DEF Fits, Finds, ReadShape
    <3>3. found[d] = [version |-> v]
      BY <3>1, <3>2 DEF HeadValues
    <3> QED
      BY <3>1, <3>3
  <2>6. IsFiniteSet(F)
    BY FlowStoresAssumption, FS_Subset
  <2>7. h \in [F -> T] /\ (\A x, y \in F : h[x] = h[y] => x = y) /\ (\A d \in T : \E x \in F : h[x] = d)
    <3>1. \A x, y \in F : TagOf(x, t) = TagOf(y, t) => x = y
      BY DocsOfKind
    <3> HIDE DEF F, T
    <3> QED
      BY <2>4, <2>5, <3>1
  <2> HIDE DEF F, T, h
  <2>8. Cardinality(T) = Cardinality(F)
    BY <2>6, <2>7, SameSize
  <2> QED
    BY <2>3, <2>8 DEF F
<1> QED
  BY <1>2, <1>3

NewerOrder(S) == {p \in S \X S : Newer(p[1], p[2])}
History(S) == [k \in 1..Cardinality(S) |-> CHOOSE x \in S : Cardinality({y \in S : Newer(y, x)}) = k - 1]
\* The versions of a flow that were read.
LEMMA VersionsRead ==
  ASSUME ReadShape, DOMAIN found = Kind("version"), NEW f \in Flows
  PROVE  /\ VersionsOf(f) = {v \in VersionIds : found[VersionOf(v)] \in Values /\ found[VersionOf(v)].flow = f}
         /\ \A v \in VersionsOf(f) : found[VersionOf(v)] \in VersionValues
<1>1. \A d \in Kind("version") : d.key \in VersionIds /\ d = VersionOf(d.key)
  BY KindOfDoc DEF Kind
<1>2. \A v \in VersionIds : VersionOf(v) \in Kind("version") /\ VersionOf(v).key = v /\ VersionOf(v).kind = "version"
  BY DocsOfKind DEF Kind
<1>3. VersionsOf(f) = {v \in VersionIds : found[VersionOf(v)] \in Values /\ found[VersionOf(v)].flow = f}
  BY <1>1, <1>2 DEF VersionsOf, Listed
<1>4. ASSUME NEW v \in VersionsOf(f) PROVE found[VersionOf(v)] \in VersionValues
  <2>1. v \in VersionIds /\ found[VersionOf(v)] \in Values /\ VersionOf(v) \in DOMAIN since
    BY <1>2, <1>3 DEF ReadShape
  <2> QED
    BY <1>2, <2>1, NotAbsent, NotValues DEF ReadShape, Finds, Fits
<1> QED
  BY <1>3, <1>4

\* A page of a flow's versions is a page of its history.
LEMMA PagesOfHistory ==
  ASSUME NEW f \in Flows, NEW limit, NEW offset
  PROVE  list_versions(f, limit, offset) = Page(History(VersionsOf(f)), limit, offset)
  BY DEF list_versions, file_list_versions, sql_list_versions, Sorted, History

\* The history is the flow's versions, newest first.
LEMMA HistoryLists ==
  ASSUME ReadShape, DOMAIN found = Kind("version"), NEW f \in Flows
  PROVE  LET S == VersionsOf(f) IN /\ IsFiniteSet(S) /\ Cardinality(S) <= Cardinality(VersionIds)
                                      /\ Lists(History(S), NewerOrder(S), S)
<1> DEFINE S == VersionsOf(f)
           n == Cardinality(S)
           s == History(S)
           created(v) == found[VersionOf(v)].created
<1>0. S \subseteq VersionIds /\ \A v \in S : found[VersionOf(v)] \in VersionValues
  BY VersionsRead
<1>1. IsFiniteSet(S) /\ n \in Nat /\ n <= Cardinality(VersionIds) /\ S \subseteq Nat
  BY <1>0, FlowStoresAssumption, FS_Subset, FS_CardinalityType
<1>2. ASSUME NEW v \in S PROVE v \in Nat /\ created(v) \in Nat
  <2>1. found[VersionOf(v)].created \in 0..MaxCalls
    BY <1>0 DEF VersionValues
  <2> QED
    BY <1>1, <2>1, FlowStoresAssumption
<1>3. \A x, y \in S : <<x, y>> \in NewerOrder(S) <=> created(x) > created(y) \/ (created(x) = created(y) /\ x > y)
  BY DEF NewerOrder, Newer
<1>4. Orders(NewerOrder(S), S)
  <2> HIDE DEF S, created
  <2>1. \A v \in S : v \in Nat /\ created(v) \in Nat
    BY <1>2
  <2> QED
    BY <1>3, <2>1 DEF Orders
<1>5. Lists(s, NewerOrder(S), S)
  <2> HIDE DEF S
  <2>1. \A x \in S : Below(NewerOrder(S), S, x) = {y \in S : Newer(y, x)}
    BY DEF Below, NewerOrder
  <2>2. \A k \in 1..n : \E x \in S : Cardinality(Below(NewerOrder(S), S, x)) = k - 1
    BY <1>1, <1>4, RankOf
  <2>3. \A k \in 1..n : \E x \in S : Cardinality({y \in S : Newer(y, x)}) = k - 1
    BY <2>1, <2>2
  <2>4. ASSUME NEW k \in 1..n PROVE s[k] \in S /\ Cardinality({y \in S : Newer(y, s[k])}) = k - 1
    BY <2>3 DEF History
  <2>5. \A k \in 1..n : s[k] \in S /\ Cardinality(Below(NewerOrder(S), S, s[k])) = k - 1
    BY <2>1, <2>4
  <2>6. s \in [1..n -> S]
    BY <2>5 DEF History
  <2> HIDE DEF s
  <2> QED
    BY <1>1, <1>4, <2>5, <2>6, ListsByRank
<1> QED
  BY <1>1, <1>5

\* list_versions.
LEMMA VersionsListed ==
  ASSUME ReadShape, DOMAIN found = Kind("version"), NEW f \in Flows
  PROVE  LET n == Cardinality(VersionIds)
             all == list_versions(f, n, 0)
         IN /\ FlattenSeq([k \in 1..n |-> list_versions(f, 1, k - 1)]) = all
            /\ ToSet(all) = VersionsOf(f)
            /\ \A k \in 1..(Len(all) - 1) : Newer(all[k], all[k + 1])
<1> DEFINE n == Cardinality(VersionIds)
           S == VersionsOf(f)
           h == History(S)
           all == list_versions(f, n, 0)
<1>1. IsFiniteSet(S) /\ Cardinality(S) <= n /\ Lists(h, NewerOrder(S), S) /\ n \in Nat /\ Cardinality(S) \in Nat
  BY HistoryLists, FlowStoresAssumption, FS_CardinalityType
<1>2. \A limit, offset : list_versions(f, limit, offset) = Page(h, limit, offset)
  BY PagesOfHistory
<1> HIDE DEF h, S, n
<1>3. h \in Seq(S) /\ Len(h) = Cardinality(S) /\ DOMAIN h = 1..Len(h)
  BY <1>1 DEF Lists
<1>4. all = h
  <2>1. 0 + n = n /\ 0 + 1 = 1 /\ (IF n < Len(h) THEN n ELSE Len(h)) = Len(h)
    BY <1>1, <1>3
  <2>2. Page(h, n, 0) = SubSeq(h, 1, Len(h))
    BY <2>1 DEF Page
  <2> QED
    BY <1>2, <1>3, <2>2, SubSeqFull
<1>5. FlattenSeq([k \in 1..n |-> list_versions(f, 1, k - 1)]) = h
  <2>1. \A k \in 1..n : list_versions(f, 1, k - 1) = PageOfOne(h, k)
    <3> SUFFICES ASSUME NEW k \in 1..n PROVE list_versions(f, 1, k - 1) = PageOfOne(h, k)
      OBVIOUS
    <3>1. k - 1 + 1 = k
      BY <1>1
    <3> QED
      BY <1>2, <3>1 DEF Page, PageOfOne
  <2>2. [k \in 1..n |-> list_versions(f, 1, k - 1)] = [k \in 1..n |-> PageOfOne(h, k)]
    BY <2>1
  <2> QED
    BY <1>1, <1>3, <2>2, PagesJoin
<1>6. ToSet(h) = S
  BY <1>1, <1>3 DEF Lists, ToSet
<1>7. ASSUME NEW k \in 1..(Len(h) - 1) PROVE Newer(h[k], h[k + 1])
  <2>1. k \in 1..Cardinality(S) /\ k + 1 \in 1..Cardinality(S) /\ k < k + 1
    BY <1>1, <1>3
  <2>2. <<h[k], h[k + 1]>> \in NewerOrder(S)
    BY <1>1, <2>1 DEF Lists
  <2> QED
    BY <2>2 DEF NewerOrder
<1> HIDE DEF all
<1>8. \A k \in 1..(Len(all) - 1) : Newer(all[k], all[k + 1])
  BY <1>4, <1>7
<1> QED
  BY <1>4, <1>5, <1>6, <1>8 DEF n, S, all

\* What a listing says of what there was while it was made.
LEMMA ListingsFollow == ReaderInv => ReadsFaithful
<1> SUFFICES ASSUME ReaderInv PROVE ReadsFaithful
  OBVIOUS
<1>0. ReadShape /\ (reading = "gone" => Gone) /\ DOMAIN found = DOMAIN since
  BY DEF ReaderInv, ReadShape
<1>1. reading = "returned" => \A d \in DOMAIN since : found[d] \in since[d]
  BY DEF ReaderInv
<1>2. ASSUME reading = "returned", DOMAIN since = Kind("head"), NEW f \in Flows
      PROVE  (Always(HeadOf(f)) => f \in list_flows) /\ (f \in list_flows => Ever(HeadOf(f)))
  <2>1. HeadOf(f) \in DOMAIN since
    BY <1>2, DocsOfKind DEF Kind
  <2>2. f \in list_flows <=> found[HeadOf(f)] \in Values
    BY <1>0, <1>2, FlowsListed
  <2> QED
    BY <1>1, <1>2, <2>1, <2>2 DEF Always, Ever
<1>3. ASSUME reading = "returned", DOMAIN since = Kind("tag"), NEW t \in Tags, NEW f \in Flows
      PROVE  /\ Count(list_tags(f), t) <= IF Ever(TagOf(f, t)) THEN 1 ELSE 0
             /\ Count(list_tags(f), t) >= IF Always(TagOf(f, t)) THEN 1 ELSE 0
  <2>1. TagOf(f, t) \in DOMAIN since
    BY <1>3, DocsOfKind DEF Kind
  <2>2. Count(list_tags(f), t) = IF found[TagOf(f, t)] \in Values THEN 1 ELSE 0
    BY <1>0, <1>3, TagsListed
  <2>3. (found[TagOf(f, t)] \in Values => Ever(TagOf(f, t))) /\ (Always(TagOf(f, t)) => found[TagOf(f, t)] \in Values)
    BY <1>1, <1>3, <2>1 DEF Always, Ever
  <2> QED
    BY <2>2, <2>3
<1>4. ASSUME reading = "returned", DOMAIN since = Kind("tag"), NEW t \in Tags, NEW v \in VersionIds
      PROVE  LET tagged == [version |-> v]
             IN /\ Count(tags_for_version(v), t) <= Cardinality({f \in Flows : tagged \in since[TagOf(f, t)]})
                /\ Count(tags_for_version(v), t) >= Cardinality({f \in Flows : since[TagOf(f, t)] = {tagged}})
  <2> DEFINE tagged == [version |-> v]
             F == {f \in Flows : found[TagOf(f, t)] = tagged}
             G == {f \in Flows : tagged \in since[TagOf(f, t)]}
             H == {f \in Flows : since[TagOf(f, t)] = {tagged}}
  <2> HIDE DEF tagged
  <2>1. \A f \in Flows : found[TagOf(f, t)] \in since[TagOf(f, t)]
    BY <1>1, <1>4, DocsOfKind DEF Kind
  <2>2. H \subseteq F /\ F \subseteq G /\ G \subseteq Flows
    BY <2>1
  <2>3. Count(tags_for_version(v), t) = Cardinality(F)
    BY <1>0, <1>4, TagsListed DEF tagged
  <2> HIDE DEF F, G, H
  <2>4. IsFiniteSet(G) /\ IsFiniteSet(F)
    BY <2>2, FlowStoresAssumption, FS_Subset
  <2>5. Cardinality(H) <= Cardinality(F) /\ Cardinality(F) <= Cardinality(G)
    BY <2>2, <2>4, FS_Subset
  <2>6. Cardinality(H) \in Nat /\ Cardinality(F) \in Nat
    BY <2>2, <2>4, FS_Subset, FS_CardinalityType
  <2> QED
    BY <2>3, <2>5, <2>6 DEF F, G, H, tagged
<1>5. ASSUME reading = "returned", DOMAIN since = Kind("version"), NEW f \in Flows
      PROVE  LET n == Cardinality(VersionIds)
                 all == list_versions(f, n, 0)
             IN /\ FlattenSeq([k \in 1..n |-> list_versions(f, 1, k - 1)]) = all
                /\ \A v \in VersionIds :
                     /\ v \in ToSet(all) => \E x \in since[VersionOf(v)] \cap Values : x.flow = f
                     /\ Always(VersionOf(v)) /\ (\A x \in since[VersionOf(v)] : x.flow = f) => v \in ToSet(all)
                /\ \A k \in 1..(Len(all) - 1) : Newer(all[k], all[k + 1])
  <2> DEFINE n == Cardinality(VersionIds)
             all == list_versions(f, n, 0)
  <2>1. /\ FlattenSeq([k \in 1..n |-> list_versions(f, 1, k - 1)]) = all
        /\ ToSet(all) = VersionsOf(f)
        /\ \A k \in 1..(Len(all) - 1) : Newer(all[k], all[k + 1])
    BY <1>0, <1>5, VersionsListed
  <2>2. VersionsOf(f) = {v \in VersionIds : found[VersionOf(v)] \in Values /\ found[VersionOf(v)].flow = f}
    BY <1>0, <1>5, VersionsRead
  <2>3. \A v \in VersionIds : found[VersionOf(v)] \in since[VersionOf(v)]
    BY <1>1, <1>5, DocsOfKind DEF Kind
  <2> HIDE DEF all, n
  <2>4. ASSUME NEW v \in VersionIds
        PROVE  /\ v \in ToSet(all) => \E x \in since[VersionOf(v)] \cap Values : x.flow = f
               /\ Always(VersionOf(v)) /\ (\A x \in since[VersionOf(v)] : x.flow = f) => v \in ToSet(all)
    BY <2>1, <2>2, <2>3 DEF Always
  <2> QED
    BY <2>1, <2>4 DEF all, n
<1> QED
  BY <1>0, <1>1, <1>2, <1>3, <1>4, <1>5 DEF ReadsFaithful, Gone

\* ReadsFaithful holds of the files and of the database, whoever saves and deletes under the
\* reader, whichever saves overlap and wherever the process crashes.
THEOREM ReadsAreFaithful == Spec => []ReadsFaithful
  BY ReaderKeepsInv, ListingsFollow, PTL

--------------------------------------------------------------------------
(* The run stores: events sorted by their number.                          *)

\* Events that their numbers tell apart.
Distinguished(S) == IsFiniteSet(S) /\ (\A e \in S : e.seq \in Int) /\ \A e, f \in S : e.seq = f.seq => e = f
SeqOrder(S) == {p \in S \X S : p[1].seq < p[2].seq}
\* s has every event of S once, in any order.
Enumerates(s, S) ==
  /\ s \in [1..Cardinality(S) -> S] /\ (\A e \in S : \E k \in 1..Cardinality(S) : s[k] = e)
  /\ \A j, k \in 1..Cardinality(S) : s[j] = s[k] => j = k

\* Numbers order events.
LEMMA SeqOrders ==
  ASSUME NEW S, Distinguished(S)
  PROVE  Orders(SeqOrder(S), S)
<1>1. \A x, y \in S : <<x, y>> \in SeqOrder(S) <=> x.seq < y.seq
  BY DEF SeqOrder
<1>2. (\A e \in S : e.seq \in Int) /\ \A e, f \in S : e.seq = f.seq => e = f
  BY DEF Distinguished
<1> QED
  BY <1>1, <1>2 DEF Orders

\* Numbered puts a set of events in the order of their numbers.
LEMMA NumberedLists ==
  ASSUME NEW S, Distinguished(S)
  PROVE  Lists(Numbered(S), SeqOrder(S), S)
<1> DEFINE s == Numbered(S)
           n == Cardinality(S)
<1>0. IsFiniteSet(S) /\ n \in Nat /\ Orders(SeqOrder(S), S)
  BY SeqOrders, FS_CardinalityType DEF Distinguished
<1>1. \A x \in S : Below(SeqOrder(S), S, x) = {f \in S : f.seq < x.seq}
  BY DEF Below, SeqOrder
<1>2. \A k \in 1..n : \E x \in S : Cardinality(Below(SeqOrder(S), S, x)) = k - 1
  BY <1>0, RankOf
<1>3. \A k \in 1..n : \E e \in S : Cardinality({f \in S : f.seq < e.seq}) = k - 1
  BY <1>1, <1>2
<1>4. ASSUME NEW k \in 1..n PROVE s[k] \in S /\ Cardinality({f \in S : f.seq < s[k].seq}) = k - 1
  BY <1>3 DEF Numbered
<1>5. \A k \in 1..n : s[k] \in S /\ Cardinality(Below(SeqOrder(S), S, s[k])) = k - 1
  BY <1>1, <1>4
<1>6. s \in [1..n -> S]
  BY <1>5 DEF Numbered
<1> HIDE DEF s
<1>7. Lists(s, SeqOrder(S), S)
  BY <1>0, <1>5, <1>6, ListsByRank
<1> QED
  BY <1>7 DEF s

\* A sorted sequence has every event once.
LEMMA ListsEnumerate ==
  ASSUME NEW S, Distinguished(S), NEW s, Lists(s, SeqOrder(S), S)
  PROVE  Enumerates(s, S)
<1>1. IsFiniteSet(S) /\ Orders(SeqOrder(S), S)
  BY SeqOrders DEF Distinguished
<1>2. \A j, k \in 1..Cardinality(S) : s[j] = s[k] => j = k
  BY <1>1, ListsDistinct
<1> QED
  BY <1>2 DEF Enumerates, Lists

\* Sorting the events of a set, in whatever order they are, gives the set in order.
LEMMA InOrderSorts ==
  ASSUME NEW S, Distinguished(S), NEW s, Enumerates(s, S)
  PROVE  InOrder(s) = Numbered(S)
<1> DEFINE n == Cardinality(S)
           R == SeqOrder(S)
           q == InOrder(s)
<1>0. IsFiniteSet(S) /\ n \in Nat /\ Orders(R, S) /\ (\A e \in S : e.seq \in Int)
      /\ \A e, f \in S : e.seq = f.seq => e = f
  BY SeqOrders, FS_CardinalityType DEF Distinguished
<1>1. /\ DOMAIN s = 1..n /\ (\A k \in 1..n : s[k] \in S) /\ (\A e \in S : \E k \in 1..n : s[k] = e)
      /\ \A j, k \in 1..n : s[j] = s[k] => j = k
  BY DEF Enumerates
<1>2. ASSUME NEW i \in 1..n PROVE Cardinality(Before(s, i)) = Cardinality(Below(R, S, s[i]))
  <2> DEFINE B == Before(s, i)
             T == Below(R, S, s[i])
             h == [j \in B |-> s[j]]
  <2>1. B = {j \in 1..n : s[j].seq < s[i].seq}
    <3>1. \A j \in 1..n : s[j].seq = s[i].seq => j = i
      BY <1>0, <1>1
    <3> HIDE DEF n
    <3>2. \A j \in 1..n : (BySeq(s[j], s[i]) \/ (s[j].seq = s[i].seq /\ j < i)) <=> s[j].seq < s[i].seq
      <4> SUFFICES ASSUME NEW j \in 1..n, s[j].seq = s[i].seq, j < i PROVE FALSE
        BY DEF BySeq
      <4> QED
        BY <1>0, <3>1
    <3> QED
      BY <1>1, <3>2 DEF Before
  <2>2. T = {e \in S : e.seq < s[i].seq}
    BY <1>1 DEF Below, SeqOrder
  <2>3. IsFiniteSet(B)
    <3>1. IsFiniteSet(1..n) /\ B \subseteq 1..n
      BY <1>0, <2>1, FS_Interval
    <3> QED
      BY <3>1, FS_Subset
  <2> HIDE DEF n, B, T
  <2>4. h \in [B -> T] /\ (\A x, y \in B : h[x] = h[y] => x = y) /\ (\A t \in T : \E x \in B : h[x] = t)
    BY <1>1, <2>1, <2>2
  <2> HIDE DEF h
  <2>5. Cardinality(T) = Cardinality(B)
    BY <2>3, <2>4, SameSize
  <2> QED
    BY <2>5 DEF B, T
<1>3. \A k \in 1..n : \E i \in 1..n : Cardinality(Before(s, i)) = k - 1
  <2>1. \A k \in 1..n : \E x \in S : Cardinality(Below(R, S, x)) = k - 1
    BY <1>0, RankOf
  <2> HIDE DEF n, R
  <2> QED
    BY <1>1, <1>2, <2>1
<1>4. ASSUME NEW k \in 1..n PROVE q[k] \in S /\ Cardinality(Below(R, S, q[k])) = k - 1
  <2>1. PICK i \in 1..n : q[k] = s[i] /\ Cardinality(Before(s, i)) = k - 1
    BY <1>1, <1>3 DEF InOrder
  <2> QED
    BY <1>1, <1>2, <2>1
<1>5. q \in [1..n -> S]
  BY <1>1, <1>4 DEF InOrder
<1> HIDE DEF q
<1>6. Lists(q, R, S)
  BY <1>0, <1>4, <1>5, ListsByRank
<1>7. Lists(Numbered(S), R, S)
  BY NumberedLists
<1>8. q = Numbered(S)
  BY <1>0, <1>6, <1>7, ListsOnce
<1> QED
  BY <1>8 DEF q

\* Two enumerations one after the other.
LEMMA EnumeratesBoth ==
  ASSUME NEW A, NEW B, IsFiniteSet(A), IsFiniteSet(B), A \cap B = {}, NEW s, NEW t, Enumerates(s, A), Enumerates(t, B)
  PROVE  Enumerates(s \o t, A \cup B)
<1> DEFINE a == Cardinality(A)
           b == Cardinality(B)
<1>1. a \in Nat /\ b \in Nat /\ Cardinality(A \cup B) = a + b
  <2>1. a \in Nat /\ b \in Nat
    BY FS_CardinalityType
  <2>2. Cardinality(A \cup B) = a + b - Cardinality(A \cap B)
    BY FS_Union
  <2>3. Cardinality(A \cap B) = 0
    BY FS_EmptySet
  <2> QED
    BY <2>1, <2>2, <2>3
<1>2. s \in Seq(A) /\ t \in Seq(B) /\ Len(s) = a /\ Len(t) = b
  BY <1>1 DEF Enumerates
<1>3. s \in Seq(A \cup B) /\ t \in Seq(A \cup B)
  BY <1>2
<1>4. /\ s \o t \in Seq(A \cup B) /\ Len(s \o t) = a + b
      /\ \A k \in 1..(a + b) : (s \o t)[k] = IF k <= a THEN s[k] ELSE t[k - a]
  BY <1>1, <1>2, <1>3
<1>5. s \o t \in [1..(a + b) -> A \cup B]
  <2> DEFINE c == s \o t
             n == a + b
             X == A \cup B
  <2>1. c \in Seq(X) /\ Len(c) = n
    BY <1>4
  <2> HIDE DEF c, n, X
  <2>2. c \in [1..n -> X]
    BY <2>1, LenProperties
  <2> QED
    BY <2>2 DEF c, n, X
<1>6. \A e \in A \cup B : \E k \in 1..(a + b) : (s \o t)[k] = e
  <2>1. ASSUME NEW e \in A PROVE \E k \in 1..(a + b) : (s \o t)[k] = e
    <3>1. PICK k \in 1..a : s[k] = e
      BY DEF Enumerates
    <3>2. k \in 1..(a + b) /\ k <= a
      BY <1>1
    <3> QED
      BY <1>4, <3>1, <3>2
  <2>2. ASSUME NEW e \in B PROVE \E k \in 1..(a + b) : (s \o t)[k] = e
    <3>1. PICK k \in 1..b : t[k] = e
      BY DEF Enumerates
    <3>2. a + k \in 1..(a + b) /\ ~(a + k <= a) /\ (a + k) - a = k
      BY <1>1
    <3> QED
      BY <1>4, <3>1, <3>2
  <2> QED
    BY <2>1, <2>2
<1>7. ASSUME NEW j \in 1..(a + b), NEW k \in 1..(a + b), (s \o t)[j] = (s \o t)[k] PROVE j = k
  <2>1. \A i \in 1..(a + b) : i <= a => i \in 1..a /\ (s \o t)[i] = s[i] /\ s[i] \in A
    BY <1>1, <1>2, <1>4
  <2>2. \A i \in 1..(a + b) : ~(i <= a) => i - a \in 1..b /\ (s \o t)[i] = t[i - a] /\ t[i - a] \in B
    BY <1>1, <1>2, <1>4
  <2>3. CASE j <= a /\ k <= a
    BY <1>7, <2>1, <2>3 DEF Enumerates
  <2>4. CASE ~(j <= a) /\ ~(k <= a)
    <3>1. j - a = k - a
      <4>1. j - a \in 1..b /\ k - a \in 1..b /\ t[j - a] = t[k - a]
        BY <1>7, <2>2, <2>4
      <4>2. \A x, y \in 1..b : t[x] = t[y] => x = y
        BY DEF Enumerates
      <4> HIDE DEF a, b
      <4> QED
        BY <4>1, <4>2
    <3> QED
      BY <1>1, <3>1
  <2> QED
    BY <1>7, <2>1, <2>2, <2>3, <2>4
<1> HIDE DEF a, b
<1>8. Enumerates(s \o t, A \cup B)
  BY <1>1, <1>5, <1>6, <1>7 DEF Enumerates
<1> QED
  BY <1>8

--------------------------------------------------------------------------
(* The run stores: what they hold.                                         *)

Written(r) == ToSet(log[r])
\* What the stores may be handed of a run: what it wrote, and its mark.
Handed(r) == Written(r) \cup {Mark(r)}
AllWritten == UNION {Handed(r) : r \in Runs}
OfRun(S, r) == {e \in S : e.run = r}
\* The events of a run are numbered from one, and there are not too many of them.
LogNumbered ==
  /\ log = [r \in Runs |-> log[r]]
  /\ \A r \in Runs : Len(log[r]) <= MaxEvents
  /\ \A r \in Runs : (\E U : log[r] \in Seq(U)) /\ \A k \in 1..Len(log[r]) : log[r][k].run = r /\ log[r][k].seq = k
\* A batch has events that were written and not acknowledged yet.
Received ==
  /\ acked \subseteq AllWritten /\ batch \subseteq AllWritten /\ batch \cap acked = {}
  /\ todo \in BOOLEAN /\ (~todo => batch = {})
MemHolds ==
  /\ mem_events = [r \in Runs |-> AckedOf(r)]
  /\ mem_runs = [r \in Runs |-> reconstruct_run(mem_events[r])]
FileHolds ==
  /\ file = [r \in Runs |-> file[r]]
  /\ \A r \in Runs : Enumerates(file[r], OfRun(acked, r))
\* The rows of the batch at hand may be there before it is acknowledged.
RowsHold == {Row(e) : e \in acked} \subseteq rows /\ rows \subseteq {Row(e) : e \in acked \cup batch}
RunInv == LogNumbered /\ Received /\ MemHolds /\ FileHolds /\ RowsHold

\* The marks' number is -1 in a signed column, and the numbers of other events stay what they are.
LEMMA SignedIs ==
  /\ u_MAX \in Nat /\ MaxEvents < u_MAX /\ Signed(u_MAX) = -1 /\ \A k \in 1..MaxEvents : Signed(k) = k
  BY WidthAssumption, RunStoresAssumption DEF WidthAssumption, RunStoresAssumption, u_MAX, Signed

\* An event of a log is at its number.
LEMMA InLog ==
  ASSUME LogNumbered, NEW q \in Runs, NEW e \in Written(q)
  PROVE  /\ e.run = q /\ e.seq \in 1..Len(log[q]) /\ e = log[q][e.seq] /\ Len(log[q]) \in Nat
         /\ e.seq \in 1..MaxEvents
<1>1. PICK U : log[q] \in Seq(U)
  BY DEF LogNumbered
<1>2. PICK k \in 1..Len(log[q]) : e = log[q][k]
  BY <1>1 DEF Written, ToSet
<1>3. Len(log[q]) \in Nat /\ Len(log[q]) <= MaxEvents /\ MaxEvents \in Nat
  BY <1>1, RunStoresAssumption DEF LogNumbered, RunStoresAssumption
<1> QED
  BY <1>2, <1>3 DEF LogNumbered

\* A run has finitely many events.
LEMMA WrittenFinite ==
  ASSUME LogNumbered, NEW r \in Runs
  PROVE  IsFiniteSet(Written(r)) /\ Cardinality(Written(r)) = Len(log[r]) /\ Len(log[r]) \in Nat
<1> DEFINE I == 1..Len(log[r])
           h == [k \in I |-> log[r][k]]
<1>1. PICK U : log[r] \in Seq(U)
  BY DEF LogNumbered
<1>2. IsFiniteSet(I) /\ Len(log[r]) \in Nat /\ Cardinality(I) = Len(log[r])
  BY <1>1, FS_Interval
<1>3. Written(r) = {log[r][k] : k \in I}
  BY <1>1 DEF Written, ToSet
<1>4. \A k \in I : log[r][k].seq = k
  BY DEF LogNumbered
<1>5. h \in [I -> Written(r)] /\ (\A x, y \in I : h[x] = h[y] => x = y) /\ (\A e \in Written(r) : \E k \in I : h[k] = e)
  BY <1>3, <1>4
<1> HIDE DEF I, h
<1>6. IsFiniteSet(Written(r)) /\ Cardinality(Written(r)) = Cardinality(I)
  BY <1>2, <1>5, SameSize
<1> QED
  BY <1>2, <1>6

\* The events handed over of a run are told apart by their numbers, signed or not; a signed
\* number is the number itself but for the mark's.
LEMMA WrittenDistinguished ==
  ASSUME LogNumbered, NEW S, S \subseteq AllWritten, NEW r \in Runs
  PROVE  /\ OfRun(S, r) \subseteq Handed(r) /\ Distinguished(OfRun(S, r))
         /\ \A e \in OfRun(S, r) : e.seq \in Nat /\ e.seq # 0 /\ Signed(e.seq) \in Int
         /\ \A e, f \in OfRun(S, r) : Signed(e.seq) = Signed(f.seq) => e = f
         /\ \A e \in OfRun(S, r) : e # Mark(r) => Signed(e.seq) = e.seq
<1>1. \A q \in Runs : \A e \in Written(q) : e.run = q /\ e.seq \in 1..MaxEvents /\ e = log[q][e.seq]
  BY InLog
<1>2. \A q : Mark(q).run = q /\ Mark(q).seq = u_MAX
  BY DEF Mark
<1>3. OfRun(S, r) \subseteq Handed(r)
  BY <1>1, <1>2 DEF OfRun, AllWritten, Handed
<1>4. IsFiniteSet(OfRun(S, r))
  <2>1. IsFiniteSet(Written(r))
    BY WrittenFinite
  <2>2. IsFiniteSet(Handed(r))
    BY <2>1, FS_AddElement DEF Handed
  <2> QED
    BY <1>3, <2>2, FS_Subset
<1>5. MaxEvents \in Nat
  BY RunStoresAssumption DEF RunStoresAssumption
<1>6. \A e \in Written(r) : e.seq \in Nat /\ e.seq # 0 /\ e.seq < u_MAX /\ Signed(e.seq) = e.seq
  BY <1>1, <1>5, SignedIs
<1>7. Mark(r).seq \in Nat /\ Mark(r).seq # 0 /\ Signed(Mark(r).seq) = -1
  BY <1>2, <1>5, SignedIs
<1>8. \A e \in Handed(r) : e.seq \in Nat /\ e.seq # 0 /\ Signed(e.seq) \in Int /\ (e # Mark(r) => Signed(e.seq) = e.seq)
  BY <1>6, <1>7 DEF Handed
<1>9. \A e, f \in Written(r) : e.seq = f.seq => e = f
  BY <1>1
<1>10. ASSUME NEW e \in Handed(r), NEW f \in Handed(r), e.seq = f.seq \/ Signed(e.seq) = Signed(f.seq) PROVE e = f
  <2>1. CASE e \in Written(r) /\ f \in Written(r)
    BY <1>6, <1>9, <1>10, <2>1
  <2>2. CASE e \in Written(r) /\ f = Mark(r)
    BY <1>2, <1>6, <1>7, <1>10, <2>2
  <2>3. CASE e = Mark(r) /\ f \in Written(r)
    BY <1>2, <1>6, <1>7, <1>10, <2>3
  <2> QED
    BY <2>1, <2>2, <2>3 DEF Handed
<1>11. Distinguished(OfRun(S, r))
  BY <1>3, <1>4, <1>8, <1>10 DEF Distinguished
<1> QED
  BY <1>3, <1>8, <1>10, <1>11

\* No events.
LEMMA NoEvents ==
  ASSUME NEW r
  PROVE  /\ OfRun({}, r) = {} /\ Distinguished({}) /\ Numbered({}) = << >> /\ Enumerates(<< >>, {})
         /\ InOrder(<< >>) = << >>
<1>1. Cardinality({}) = 0 /\ IsFiniteSet({})
  BY FS_EmptySet
<1>2. 1..0 = {}
  OBVIOUS
<1>3. Distinguished({}) /\ OfRun({}, r) = {}
  BY <1>1 DEF Distinguished, OfRun
<1>4. Enumerates(<< >>, {})
  BY <1>1, <1>2 DEF Enumerates
<1>5. Numbered({}) = << >>
  BY <1>1, <1>2 DEF Numbered
<1> QED
  BY <1>3, <1>4, <1>5, InOrderSorts

\* The run stores are empty initially.
LEMMA InitRunInv == RunsInit => RunInv
<1> SUFFICES ASSUME RunsInit PROVE RunInv
  OBVIOUS
<1>1. LogNumbered
  <2>1. \A r \in Runs : log[r] = << >> /\ << >> \in Seq({}) /\ Len(<< >>) = 0 /\ 0 <= MaxEvents
    BY RunStoresAssumption DEF RunsInit, RunStoresAssumption
  <2> QED
    BY <2>1 DEF LogNumbered, RunsInit
<1>2. Received /\ RowsHold
  BY DEF Received, RowsHold, RunsInit
<1>3. \A r \in Runs : AckedOf(r) = << >> /\ OfRun(acked, r) = {}
  BY NoEvents DEF RunsInit, AckedOf, OfRun
<1>4. MemHolds
  BY <1>3 DEF MemHolds, RunsInit, reconstruct_run
<1>5. FileHolds
  BY <1>3, NoEvents DEF FileHolds, RunsInit
<1> QED
  BY <1>1, <1>2, <1>4, <1>5 DEF RunInv

\* The steps.
Emits == \E r \in Runs : \E ev : Emit(r, ev)
Submits == \E r \in Runs : \E events \in SUBSET (ToSet(log[r]) \ acked) : Submit(r, events)
Marks == \E r \in Runs : mark_interrupted(r)
\* A step writes an event, hands over a batch or is one of the stores'.
LEMMA RunSteps ==
  ASSUME RunsNext, RunStoresAssumption
  PROVE  Emits \/ Submits \/ Marks \/ write_batch \/ sql_write_fails
<1>1. Busy \subseteq Runs
  BY DEF RunStoresAssumption
<1>2. ASSUME NEW r \in Busy, NEW n, NEW i, NodeStarted(r, n, i) PROVE Emits
  BY <1>1, <1>2 DEF NodeStarted, Emits
<1>3. ASSUME NEW r \in Busy, NEW x, NodeCompleted(r, x) PROVE Emits
  BY <1>1, <1>3 DEF NodeCompleted, Emits
<1>4. ASSUME NEW r \in Busy, NEW x, NEW w, NodeFailed(r, x, w) PROVE Emits
  BY <1>1, <1>4 DEF NodeFailed, Emits
<1>5. ASSUME NEW r \in Busy, NEW k, NEW n, Observed(r, k, n) PROVE Emits
  BY <1>1, <1>5 DEF Observed, Emits
<1>6. ASSUME NEW r \in Runs, NEW v, RunStarted(r, 1, v) PROVE Emits
  BY <1>6 DEF RunStarted, Emits
<1>7. ASSUME NEW r \in Runs, NEW s, RunCompleted(r, s) PROVE Emits
  BY <1>7 DEF RunCompleted, Emits
<1> QED
  BY <1>2, <1>3, <1>4, <1>5, <1>6, <1>7 DEF RunsNext, Submits, Marks

\* A run that writes an event numbers it and leaves the stores alone.
LEMMA EmitKeeps ==
  ASSUME RunInv, Emits
  PROVE  RunInv'
<1>1. PICK r \in Runs : \E ev : Emit(r, ev)
  BY DEF Emits
<1>a. PICK ev : Emit(r, ev)
  BY <1>1
<1> DEFINE e == Stamped(ev, r, Len(log[r]) + 1)
<1>2. e.run = r /\ e.seq = Len(log[r]) + 1
  BY DEF Stamped
<1>3. /\ log' = [log EXCEPT ![r] = Append(log[r], e)] /\ ~todo /\ acked = {}
      /\ UNCHANGED <<batch, todo, acked, mem_events, mem_runs, file, rows>>
  BY <1>a DEF Emit, stores
<1> HIDE DEF e
<1>b. Len(log[r]) < MaxEvents
  <2> DEFINE W == {ToSet(log[q]) : q \in Runs}
  <2>1. \A q \in Runs : ToSet(log[q]) = Written(q) /\ IsFiniteSet(Written(q))
    BY WrittenFinite DEF Written, RunInv
  <2>2. IsFiniteSet(W)
    <3> DEFINE g == [q \in Runs |-> ToSet(log[q])]
    <3>1. g \in Surjection(Runs, W)
      BY DEF Surjection
    <3>2. IsFiniteSet(Runs)
      BY RunStoresAssumption DEF RunStoresAssumption
    <3> HIDE DEF g, W
    <3> QED
      BY <3>1, <3>2, FS_Surjection
  <2>3. \A x \in W : IsFiniteSet(x)
    BY <2>1
  <2>a. Written(r) \in W
    BY <2>1
  <2>b. Cardinality(UNION W) < MaxEvents
    BY <1>a DEF Emit, Room
  <2> HIDE DEF W
  <2>4. IsFiniteSet(UNION W)
    BY <2>2, <2>3, FS_UNION
  <2>5. Written(r) \subseteq UNION W
    BY <2>a
  <2>6. Cardinality(Written(r)) <= Cardinality(UNION W) /\ Cardinality(UNION W) \in Nat
    BY <2>4, <2>5, FS_Subset, FS_CardinalityType
  <2>7. Cardinality(Written(r)) = Len(log[r]) /\ Len(log[r]) \in Nat
    BY WrittenFinite DEF RunInv
  <2>8. MaxEvents \in Nat
    BY RunStoresAssumption DEF RunStoresAssumption
  <2> QED
    BY <2>b, <2>6, <2>7, <2>8
<1>4. LogNumbered'
  <2>1. log' = [q \in Runs |-> log'[q]] /\ log'[r] = Append(log[r], e) /\ \A q \in Runs : q # r => log'[q] = log[q]
    BY <1>3 DEF RunInv, LogNumbered
  <2>2. PICK U : log[r] \in Seq(U)
    BY DEF RunInv, LogNumbered
  <2>3. log[r] \in Seq(U \cup {e}) /\ Append(log[r], e) \in Seq(U \cup {e}) /\ Len(Append(log[r], e)) = Len(log[r]) + 1
        /\ Len(log[r]) \in Nat
        /\ \A k \in 1..(Len(log[r]) + 1) : Append(log[r], e)[k] = IF k <= Len(log[r]) THEN log[r][k] ELSE e
    BY <2>2
  <2>4. \A k \in 1..Len(log'[r]) : log'[r][k].run = r /\ log'[r][k].seq = k
    BY <1>2, <2>1, <2>3 DEF RunInv, LogNumbered
  <2>5. ASSUME NEW q \in Runs
        PROVE  Len(log'[q]) <= MaxEvents /\ (\E V : log'[q] \in Seq(V)) /\ \A k \in 1..Len(log'[q]) : log'[q][k].run = q /\ log'[q][k].seq = k
    <3>1. CASE q = r
      <4>1. Len(log'[r]) <= MaxEvents
        BY <1>b, <2>1, <2>3, RunStoresAssumption DEF RunStoresAssumption
      <4> QED
        BY <2>1, <2>3, <2>4, <3>1, <4>1
    <3>2. CASE q # r
      BY <2>1, <3>2 DEF RunInv, LogNumbered
    <3> QED
      BY <3>1, <3>2
  <2> QED
    BY <2>1, <2>5 DEF LogNumbered
<1>5. Received' /\ RowsHold'
  <2>1. acked' = {} /\ batch' = {} /\ todo' = FALSE
    BY <1>3 DEF RunInv, Received
  <2>2. rows' = {}
    BY <1>3 DEF RunInv, Received, RowsHold
  <2> QED
    BY <2>1, <2>2 DEF Received, RowsHold
<1>6. MemHolds' /\ FileHolds'
  <2>1. MemHolds /\ FileHolds
    BY DEF RunInv
  <2>2. acked' = acked /\ mem_events' = mem_events /\ mem_runs' = mem_runs /\ file' = file
    BY <1>3
  <2>3. (\A q : AckedOf(q)' = AckedOf(q)) /\ \A q : OfRun(acked, q)' = OfRun(acked, q)
    BY <2>2 DEF AckedOf, OfRun
  <2> QED
    BY <2>1, <2>2, <2>3 DEF MemHolds, FileHolds
<1> QED
  BY <1>4, <1>5, <1>6 DEF RunInv

\* What the stores hold depends on what was acknowledged.
LEMMA HoldsStays ==
  ASSUME UNCHANGED <<log, acked, mem_events, mem_runs, file>>, RunInv
  PROVE  LogNumbered' /\ MemHolds' /\ FileHolds' /\ AllWritten' = AllWritten
<1>1. (\A q : AckedOf(q)' = AckedOf(q)) /\ \A q : OfRun(acked, q)' = OfRun(acked, q)
  BY DEF AckedOf, OfRun
<1> QED
  BY <1>1 DEF RunInv, LogNumbered, MemHolds, FileHolds, AllWritten, Handed, Written, Mark, u_MAX

\* A batch handed over has events that no store was told to keep before.
LEMMA SubmitKeeps ==
  ASSUME RunInv, Submits
  PROVE  RunInv'
<1>1. PICK r \in Runs : \E events \in SUBSET (ToSet(log[r]) \ acked) : Submit(r, events)
  BY DEF Submits
<1>a. PICK events \in SUBSET (ToSet(log[r]) \ acked) : Submit(r, events)
  BY <1>1
<1>2. /\ ~todo /\ batch' = events /\ todo' = TRUE
      /\ UNCHANGED <<log, acked, mem_events, mem_runs, file, rows>>
  BY <1>a DEF Submit, stores
<1>3. LogNumbered' /\ MemHolds' /\ FileHolds' /\ AllWritten' = AllWritten
  BY <1>2, HoldsStays
<1>4. Received'
  BY <1>2, <1>3 DEF RunInv, Received, AllWritten, Handed, Written
<1>5. RowsHold'
  BY <1>2 DEF RunInv, Received, RowsHold
<1> QED
  BY <1>3, <1>4, <1>5 DEF RunInv

\* mark_interrupted hands over the mark of a run that has none.
LEMMA MarkKeeps ==
  ASSUME RunInv, Marks
  PROVE  RunInv'
<1>1. PICK r \in Runs : mark_interrupted(r)
  BY DEF Marks
<1>2. /\ ~todo /\ batch' = {Mark(r)} /\ todo' = TRUE /\ Mark(r) \notin acked
      /\ UNCHANGED <<log, acked, mem_events, mem_runs, file, rows>>
  BY <1>1 DEF mark_interrupted, stores
<1>3. LogNumbered' /\ MemHolds' /\ FileHolds' /\ AllWritten' = AllWritten
  BY <1>2, HoldsStays
<1>4. Received'
  <2>1. Mark(r) \in AllWritten
    BY DEF AllWritten, Handed
  <2> QED
    BY <1>2, <1>3, <2>1 DEF RunInv, Received
<1>5. RowsHold'
  BY <1>2 DEF RunInv, Received, RowsHold
<1> QED
  BY <1>3, <1>4, <1>5 DEF RunInv

\* write_batch of the database that fails leaves rows of the batch only.
LEMMA SqlFailKeeps ==
  ASSUME RunInv, sql_write_fails
  PROVE  RunInv'
<1>1. PICK e \in batch : rows' = rows \cup InsertOrIgnore({f \in batch : f.seq < e.seq})
  BY DEF sql_write_fails
<1>2. UNCHANGED <<log, active, batch, todo, acked, mem_events, mem_runs, file>>
  BY DEF sql_write_fails
<1>3. LogNumbered' /\ MemHolds' /\ FileHolds' /\ AllWritten' = AllWritten
  BY <1>2, HoldsStays
<1>4. Received'
  BY <1>2, <1>3 DEF RunInv, Received
<1>5. RowsHold'
  BY <1>1, <1>2 DEF RunInv, RowsHold, InsertOrIgnore
<1> QED
  BY <1>3, <1>4, <1>5 DEF RunInv

\* What a store appends for a run: the events of the batch, for it has none of them.
LEMMA DedupedIsBatch ==
  ASSUME RunInv, NEW r \in Runs, NEW s, Enumerates(s, OfRun(acked, r))
  PROVE  /\ Deduped(s, r) = Numbered(OfRun(batch, r))
         /\ Enumerates(s \o Deduped(s, r), OfRun(acked \cup batch, r))
         /\ InOrder(s \o Deduped(s, r)) = Numbered(OfRun(acked \cup batch, r))
<1> DEFINE A == OfRun(acked, r)
           B == OfRun(batch, r)
           C == OfRun(acked \cup batch, r)
<1>1. Distinguished(A) /\ Distinguished(B) /\ Distinguished(C)
  BY WrittenDistinguished DEF RunInv, Received
<1>2. C = A \cup B /\ A \cap B = {}
  BY DEF OfRun, RunInv, Received
<1>3. ToSet(s) = A
  BY DEF Enumerates, ToSet
<1>4. {e \in batch : e.run = r /\ e.seq \notin seqs(s)} = B
  <2> SUFFICES ASSUME NEW e \in B PROVE e.seq \notin seqs(s)
    BY DEF OfRun
  <2>1. \A f \in A : f # e /\ f \in C /\ e \in C
    BY <1>2
  <2>2. \A f \in A : f.seq # e.seq
    BY <1>1, <2>1 DEF Distinguished
  <2> QED
    BY <1>3, <2>2 DEF seqs
<1>5. Deduped(s, r) = Numbered(B)
  BY <1>4 DEF Deduped
<1> HIDE DEF A, B, C
<1>6. Enumerates(Numbered(B), B)
  BY <1>1, NumberedLists, ListsEnumerate
<1>7. Enumerates(s \o Numbered(B), A \cup B)
  <2>1. IsFiniteSet(A) /\ IsFiniteSet(B) /\ Enumerates(s, A)
    BY <1>1 DEF Distinguished, A
  <2> QED
    BY <1>2, <1>6, <2>1, EnumeratesBoth
<1>8. InOrder(s \o Numbered(B)) = Numbered(C)
  BY <1>1, <1>2, <1>7, InOrderSorts
<1> QED
  BY <1>2, <1>5, <1>7, <1>8 DEF B, C

\* A batch has events of some runs.
LEMMA RunsOfBatch ==
  ASSUME NEW r
  PROVE  /\ r \in BatchRuns <=> OfRun(batch, r) # {}
         /\ r \notin BatchRuns => OfRun(acked \cup batch, r) = OfRun(acked, r)
  BY DEF BatchRuns, OfRun

\* A store that has events has a record of the run.
LEMMA RecordOfSome ==
  ASSUME NEW S, IsFiniteSet(S), S # {}
  PROVE  Numbered(S) # << >> /\ mem_reconstruct_run(Numbered(S)) = reconstruct_run(Numbered(S))
<1>1. Cardinality(S) \in Nat /\ Cardinality(S) # 0
  BY FS_CardinalityType, FS_EmptySet
<1>2. DOMAIN Numbered(S) = 1..Cardinality(S) /\ 1 \in 1..Cardinality(S)
  BY <1>1 DEF Numbered
<1>3. Numbered(S) # << >>
  <2>1. DOMAIN << >> = {}
    OBVIOUS
  <2> QED
    BY <1>2, <2>1
<1> QED
  BY <1>3 DEF mem_reconstruct_run, reconstruct_run

\* write_batch leaves in every store the events it had and those of the batch, each once,
\* whether or not an earlier try had inserted some of them.
LEMMA WriteBatchKeeps ==
  ASSUME RunInv, write_batch
  PROVE  RunInv'
<1> DEFINE A(r) == OfRun(acked, r)
           C(r) == OfRun(acked \cup batch, r)
<1>1. /\ mem_write_batch /\ file_write_batch /\ sql_write_batch
      /\ acked' = acked \cup batch /\ batch' = {} /\ todo' = FALSE /\ log' = log
  BY DEF write_batch
<1>2. \A r : OfRun(acked, r)' = C(r) /\ AckedOf(r)' = Numbered(C(r)) /\ AckedOf(r) = Numbered(A(r))
  BY <1>1 DEF AckedOf, OfRun
<1>3. LogNumbered' /\ Received'
  <2>1. LogNumbered'
    BY <1>1 DEF RunInv, LogNumbered
  <2>2. AllWritten' = AllWritten
    BY <1>1 DEF AllWritten, Handed, Written, Mark, u_MAX
  <2>3. Received'
    BY <1>1, <2>2 DEF RunInv, Received
  <2> QED
    BY <2>1, <2>3
<1>4. RowsHold'
  <2>1. \A e \in batch : (\E m \in rows : m.run = e.run /\ m.seq = Signed(e.seq)) => Row(e) \in rows
    <3> SUFFICES ASSUME NEW e \in batch, NEW m \in rows, m.run = e.run, m.seq = Signed(e.seq) PROVE Row(e) \in rows
      OBVIOUS
    <3>1. PICK f \in acked \cup batch : m = Row(f)
      BY DEF RunInv, RowsHold
    <3>2. f.run = e.run /\ Signed(f.seq) = Signed(e.seq)
      BY <3>1 DEF Row
    <3>3. PICK r \in Runs : e \in Handed(r)
      BY DEF RunInv, Received, AllWritten
    <3>4. e.run = r
      BY <3>3, InLog DEF RunInv, Handed, Mark
    <3>5. e \in C(r) /\ f \in C(r) /\ acked \cup batch \subseteq AllWritten /\ LogNumbered
      BY <3>2, <3>4 DEF RunInv, Received, OfRun
    <3>6. e = f
      BY <3>2, <3>5, WrittenDistinguished
    <3> QED
      BY <3>1, <3>6
  <2>2. rows' = rows \cup InsertOrIgnore(batch)
    BY <1>1 DEF sql_write_batch
  <2>3. \A e \in acked \cup batch : Row(e) \in rows'
    BY <2>1, <2>2 DEF RunInv, RowsHold, InsertOrIgnore
  <2>4. rows' \subseteq {Row(e) : e \in acked \cup batch}
    BY <2>2 DEF RunInv, RowsHold, InsertOrIgnore
  <2>5. acked' = acked \cup batch /\ batch' = {}
    BY <1>1
  <2> QED
    BY <2>3, <2>4, <2>5 DEF RowsHold, Row
<1>5. ASSUME NEW r \in Runs
      PROVE  /\ Enumerates(Numbered(A(r)), A(r)) /\ IsFiniteSet(C(r))
             /\ r \in BatchRuns => C(r) # {}
             /\ r \notin BatchRuns => C(r) = A(r)
  <2>1. Distinguished(A(r)) /\ Distinguished(C(r))
    BY WrittenDistinguished DEF RunInv, Received
  <2>2. Enumerates(Numbered(A(r)), A(r))
    BY <2>1, NumberedLists, ListsEnumerate
  <2>3. r \in BatchRuns => C(r) # {}
    BY RunsOfBatch DEF OfRun
  <2> QED
    BY <2>1, <2>2, <2>3, RunsOfBatch DEF Distinguished
<1>6. MemHolds'
  <2> DEFINE after(r) == InOrder(mem_events[r] \o Deduped(mem_events[r], r))
  <2>1. /\ mem_events' = [r \in Runs |-> IF r \in BatchRuns THEN after(r) ELSE mem_events[r]]
        /\ mem_runs' = [r \in Runs |-> IF r \in BatchRuns THEN mem_reconstruct_run(after(r)) ELSE mem_runs[r]]
    BY <1>1 DEF mem_write_batch
  <2>2. \A r \in Runs : mem_events[r] = Numbered(A(r)) /\ mem_runs[r] = reconstruct_run(mem_events[r])
    BY <1>2 DEF RunInv, MemHolds
  <2>3. ASSUME NEW r \in Runs PROVE after(r) = Numbered(C(r))
    BY <1>5, <2>2, DedupedIsBatch
  <2> HIDE DEF after
  <2>4. ASSUME NEW r \in Runs PROVE mem_events'[r] = Numbered(C(r)) /\ mem_runs'[r] = reconstruct_run(mem_events'[r])
    <3>1. CASE r \in BatchRuns
      <4>1. mem_events'[r] = Numbered(C(r)) /\ mem_runs'[r] = mem_reconstruct_run(Numbered(C(r)))
        BY <2>1, <2>3, <3>1
      <4> QED
        BY <1>5, <3>1, <4>1, RecordOfSome
    <3>2. CASE r \notin BatchRuns
      <4>1. mem_events'[r] = mem_events[r] /\ mem_runs'[r] = mem_runs[r] /\ C(r) = A(r)
        BY <1>5, <2>1, <3>2
      <4> QED
        BY <2>2, <4>1
    <3> QED
      BY <3>1, <3>2
  <2>5. mem_events' = [r \in Runs |-> mem_events'[r]] /\ mem_runs' = [r \in Runs |-> mem_runs'[r]]
    BY <2>1
  <2>6. mem_events' = [r \in Runs |-> AckedOf(r)'] /\ mem_runs' = [r \in Runs |-> reconstruct_run(mem_events'[r])]
    <3>1. \A r \in Runs : mem_events'[r] = AckedOf(r)' /\ mem_runs'[r] = reconstruct_run(mem_events'[r])
      BY <1>2, <2>4
    <3> QED
      BY <2>5, <3>1
  <2> QED
    BY <2>6 DEF MemHolds, reconstruct_run, NewRecord
<1>7. FileHolds'
  <2>1. file' = [r \in Runs |-> IF r \in BatchRuns THEN file_read_events(r) \o Deduped(file_read_events(r), r) ELSE file[r]]
    BY <1>1 DEF file_write_batch
  <2>2. ASSUME NEW r \in Runs PROVE Enumerates(file'[r], C(r))
    <3>1. Enumerates(file[r], A(r)) /\ Distinguished(A(r))
      BY WrittenDistinguished DEF RunInv, FileHolds, Received
    <3>2. file_read_events(r) = Numbered(A(r))
      BY <3>1, InOrderSorts DEF file_read_events
    <3>3. CASE r \in BatchRuns
      <4>1. file'[r] = Numbered(A(r)) \o Deduped(Numbered(A(r)), r)
        BY <2>1, <3>2, <3>3
      <4> QED
        BY <1>5, <4>1, DedupedIsBatch
    <3>4. CASE r \notin BatchRuns
      BY <1>5, <2>1, <3>1, <3>4
    <3> QED
      BY <3>3, <3>4
  <2>3. \A r \in Runs : Enumerates(file'[r], OfRun(acked, r)')
    BY <1>2, <2>2
  <2> QED
    BY <2>1, <2>3 DEF FileHolds, Enumerates
<1> QED
  BY <1>3, <1>4, <1>6, <1>7 DEF RunInv

\* What the three stores hold is always what was acknowledged, and the rows may run ahead
\* within the batch.
LEMMA RunStoresKeepInv == ASSUME RunStoresAssumption PROVE RunsSpec => []RunInv
<1>1. ASSUME RunInv, [RunsNext]_runVars PROVE RunInv'
  <2>1. CASE RunsNext
    BY <1>1, <2>1, RunSteps, EmitKeeps, SubmitKeeps, MarkKeeps, SqlFailKeeps, WriteBatchKeeps
  <2>2. CASE UNCHANGED runVars
    <3>1. UNCHANGED <<log, acked, mem_events, mem_runs, file, batch, todo, rows>>
      BY <2>2 DEF runVars, stores
    <3>2. LogNumbered' /\ MemHolds' /\ FileHolds' /\ AllWritten' = AllWritten
      BY <1>1, <3>1, HoldsStays
    <3>3. Received' /\ RowsHold'
      BY <1>1, <3>1, <3>2 DEF RunInv, Received, RowsHold
    <3> QED
      BY <3>2, <3>3 DEF RunInv
  <2> QED
    BY <1>1, <2>1, <2>2
<1> QED
  BY <1>1, InitRunInv, PTL DEF RunsSpec

--------------------------------------------------------------------------
(* The run stores: one answer.                                             *)

\* The rows of a run carry its events, each once, in the order of the signed numbers: the
\* order of the events, if the run was not marked.
LEMMA RowsInOrder ==
  ASSUME RunInv, Settled, NEW r \in Runs
  PROVE  /\ ToSet(sql_read_events(r)) = ToSet(AckedOf(r)) /\ Len(sql_read_events(r)) = Len(AckedOf(r))
         /\ ~Marked(r) => sql_read_events(r) = AckedOf(r)
<1> DEFINE A == OfRun(acked, r)
           T == {m \in rows : m.run = r}
           n == Cardinality(A)
           h == [e \in A |-> Row(e)]
           sorted == Numbered(T)
           read == [k \in DOMAIN sorted |-> sorted[k].payload]
<1>0. LogNumbered /\ acked \subseteq AllWritten
  BY DEF RunInv, Received
<1>1. Distinguished(A) /\ IsFiniteSet(A) /\ n \in Nat
  BY <1>0, WrittenDistinguished, FS_CardinalityType DEF Distinguished
<1>a. /\ \A e, f \in A : Signed(e.seq) = Signed(f.seq) => e = f
      /\ \A e \in A : Signed(e.seq) \in Int
      /\ ~Marked(r) => \A e \in A : Signed(e.seq) = e.seq
  BY <1>0, WrittenDistinguished DEF Marked, OfRun
<1>2. \A e : Row(e).run = e.run /\ Row(e).seq = Signed(e.seq) /\ Row(e).payload = e
  BY DEF Row
<1>3. rows = {Row(e) : e \in acked}
  BY DEF RunInv, RowsHold, Received, Settled
<1>4. /\ \A e \in A : Row(e) \in T
      /\ \A m \in T : m.payload \in A /\ m = Row(m.payload)
  BY <1>2, <1>3 DEF OfRun
<1> HIDE DEF A, T
<1>5. h \in [A -> T] /\ (\A x, y \in A : h[x] = h[y] => x = y) /\ (\A m \in T : \E x \in A : h[x] = m)
  BY <1>2, <1>4
<1>6. IsFiniteSet(T) /\ Cardinality(T) = n
  <2> HIDE DEF h, n
  <2> QED
    BY <1>1, <1>5, SameSize DEF n
<1>7. Distinguished(T)
  <2>1. \A m \in T : m.seq = Signed(m.payload.seq)
    BY <1>2, <1>4
  <2> QED
    BY <1>a, <1>4, <1>6, <2>1 DEF Distinguished
<1>8. Lists(sorted, SeqOrder(T), T)
  BY <1>7, NumberedLists
<1> HIDE DEF sorted
<1>9. sorted \in [1..n -> T] /\ (\A m \in T : \E k \in 1..n : sorted[k] = m)
      /\ (\A j, k \in 1..n : j < k <=> <<sorted[j], sorted[k]>> \in SeqOrder(T))
  BY <1>6, <1>8 DEF Lists
<1> HIDE DEF n
<1>10. /\ read \in [1..n -> A] /\ (\A k \in 1..n : read[k] = sorted[k].payload)
       /\ \A e \in A : \E k \in 1..n : read[k] = e
  <2>1. read \in [1..n -> A] /\ \A k \in 1..n : read[k] = sorted[k].payload
    BY <1>4, <1>9
  <2> HIDE DEF read
  <2>2. ASSUME NEW e \in A PROVE \E k \in 1..n : read[k] = e
    <3>1. PICK k \in 1..n : sorted[k] = Row(e)
      BY <1>4, <1>9
    <3> QED
      BY <1>2, <2>1, <3>1
  <2> QED
    BY <2>1, <2>2
<1> HIDE DEF read
<1>11. Lists(Numbered(A), SeqOrder(A), A) /\ Orders(SeqOrder(A), A)
  BY <1>1, NumberedLists, SeqOrders
<1>12. ToSet(read) = ToSet(Numbered(A)) /\ Len(read) = Len(Numbered(A))
  <2>1. Numbered(A) \in [1..n -> A] /\ \A e \in A : \E k \in 1..n : Numbered(A)[k] = e
    BY <1>11 DEF Lists, n
  <2>2. Len(read) = n /\ Len(Numbered(A)) = n
    BY <1>1, <1>10, <2>1 DEF n
  <2>3. ToSet(read) = A
    BY <1>10 DEF ToSet
  <2>4. ToSet(Numbered(A)) = A
    BY <2>1 DEF ToSet
  <2> QED
    BY <2>2, <2>3, <2>4
<1>13. ASSUME ~Marked(r) PROVE read = Numbered(A)
  <2>1. ASSUME NEW j \in 1..n, NEW k \in 1..n PROVE j < k <=> <<read[j], read[k]>> \in SeqOrder(A)
    <3>1. /\ sorted[j] \in T /\ sorted[k] \in T /\ read[j] \in A /\ read[k] \in A
          /\ read[j].seq = sorted[j].seq /\ read[k].seq = sorted[k].seq
      BY <1>a, <1>2, <1>4, <1>9, <1>10, <1>13
    <3>2. j < k <=> sorted[j].seq < sorted[k].seq
      BY <1>9, <3>1 DEF SeqOrder
    <3> QED
      BY <3>1, <3>2 DEF SeqOrder
  <2>2. Lists(read, SeqOrder(A), A)
    BY <1>10, <2>1 DEF Lists, n
  <2> QED
    BY <1>1, <1>11, <2>2, ListsOnce
<1> QED
  BY <1>12, <1>13 DEF read, sorted, T, A, sql_read_events, AckedOf, OfRun

\* The stores in memory and on files read the events acknowledged, and have one record of the
\* run; so does the database, of a run that was not marked.
LEMMA EventsAgree ==
  ASSUME RunInv, Settled, NEW r \in Runs
  PROVE  /\ mem_events[r] = AckedOf(r) /\ file_read_events(r) = AckedOf(r) /\ mem_get_run(r) = file_get_run(r)
         /\ ToSet(sql_read_events(r)) = ToSet(AckedOf(r)) /\ Len(sql_read_events(r)) = Len(AckedOf(r))
         /\ ~Marked(r) => sql_read_events(r) = AckedOf(r) /\ sql_get_run(r) = file_get_run(r)
<1>1. mem_events[r] = AckedOf(r) /\ mem_runs[r] = reconstruct_run(mem_events[r])
  BY DEF RunInv, MemHolds
<1>2. file_read_events(r) = AckedOf(r)
  <2>1. Enumerates(file[r], OfRun(acked, r)) /\ Distinguished(OfRun(acked, r))
    BY WrittenDistinguished DEF RunInv, FileHolds, Received
  <2> QED
    BY <2>1, InOrderSorts DEF file_read_events, AckedOf, OfRun
<1>3. ~Marked(r) => sql_read_events(r) = AckedOf(r)
  BY RowsInOrder
<1> QED
  BY <1>1, <1>2, <1>3, RowsInOrder DEF mem_get_run, file_get_run, sql_get_run

RunOrder(M) == {p \in M \X M : p[1] < p[2]}
\* Ascending has a place for every run.
LEMMA AscendingTotal ==
  ASSUME NEW M, IsFiniteSet(M), Orders(RunOrder(M), M)
  PROVE  Ascending(M) \in [1..Cardinality(M) -> M]
<1>1. \A x \in M : Below(RunOrder(M), M, x) = {q \in M : q < x}
  BY DEF Below, RunOrder
<1>2. \A k \in 1..Cardinality(M) : \E x \in M : Cardinality(Below(RunOrder(M), M, x)) = k - 1
  BY RankOf
<1>3. \A k \in 1..Cardinality(M) : \E x \in M : Cardinality({q \in M : q < x}) = k - 1
  BY <1>1, <1>2
<1>4. \A k \in 1..Cardinality(M) : Ascending(M)[k] \in M
  BY <1>3 DEF Ascending
<1> QED
  BY <1>4 DEF Ascending
\* Runs in the order of their ids.
LEMMA AscendingLists ==
  ASSUME RunStoresAssumption, NEW M, M \subseteq Runs
  PROVE  /\ IsFiniteSet(M) /\ Cardinality(M) \in Nat /\ Cardinality(M) <= Cardinality(Runs)
         /\ Ascending(M) \in Seq(M) /\ Len(Ascending(M)) = Cardinality(M)
<1> DEFINE n == Cardinality(M)
<1>1. IsFiniteSet(M) /\ n \in Nat /\ n <= Cardinality(Runs) /\ M \subseteq Nat
  BY FS_Subset, FS_CardinalityType DEF RunStoresAssumption
<1>2. Orders(RunOrder(M), M)
  BY <1>1 DEF Orders, RunOrder
<1>3. Ascending(M) \in [1..n -> M]
  BY <1>1, <1>2, AscendingTotal
<1> QED
  BY <1>1, <1>3

\* The pages of one of a list of runs, put together, are the list; every page has the total.
LEMMA RunPagesJoin ==
  ASSUME RunStoresAssumption, NEW M, M \subseteq Runs
  PROVE  /\ FlattenSeq([k \in 1..Cardinality(Runs) |-> RunPage(M, 1, k - 1).runs])
              = RunPage(M, Cardinality(Runs), 0).runs
         /\ \A k \in 1..Cardinality(Runs) : RunPage(M, 1, k - 1).total = Cardinality(M)
<1> DEFINE n == Cardinality(Runs)
           all == Ascending(M)
<1>1. n \in Nat /\ all \in Seq(M) /\ Len(all) = Cardinality(M) /\ Len(all) \in Nat /\ Len(all) <= n
  BY AscendingLists, FS_CardinalityType DEF RunStoresAssumption
<1>2. \A limit, offset : /\ RunPage(M, limit, offset).total = Len(all)
                         /\ RunPage(M, limit, offset).runs = SubSeq(all, offset + 1, IF offset + limit < Len(all) THEN offset + limit ELSE Len(all))
  BY DEF RunPage
<1> HIDE DEF all, n
<1>3. RunPage(M, n, 0).runs = all
  <2>1. 0 + n = n /\ 0 + 1 = 1 /\ (IF n < Len(all) THEN n ELSE Len(all)) = Len(all)
    BY <1>1
  <2> QED
    BY <1>1, <1>2, <2>1, SubSeqFull
<1>4. FlattenSeq([k \in 1..n |-> RunPage(M, 1, k - 1).runs]) = all
  <2>1. \A k \in 1..n : RunPage(M, 1, k - 1).runs = PageOfOne(all, k)
    <3> SUFFICES ASSUME NEW k \in 1..n PROVE RunPage(M, 1, k - 1).runs = PageOfOne(all, k)
      OBVIOUS
    <3>1. k - 1 + 1 = k
      BY <1>1
    <3> QED
      BY <1>2, <3>1 DEF PageOfOne
  <2>2. [k \in 1..n |-> RunPage(M, 1, k - 1).runs] = [k \in 1..n |-> PageOfOne(all, k)]
    BY <2>1
  <2> QED
    BY <1>1, <2>2, PagesJoin
<1> QED
  BY <1>1, <1>2, <1>3, <1>4 DEF n

\* list_runs and count_runs_by_version, from what the stores hold.
LEMMA ListsFollow ==
  ASSUME RunStoresAssumption
  PROVE  RunInv => ListsAndCountsAgree
<1> SUFFICES ASSUME RunInv, Settled, NEW v \in Versions
             PROVE  LET filter == [flow |-> 1, version |-> v]
                        n == Cardinality(Runs)
                        page(k) == file_list_runs(filter, 1, k - 1)
                        row(k) == sql_list_runs(filter, 1, k - 1)
                    IN /\ FlattenSeq([k \in 1..n |-> page(k).runs]) = file_list_runs(filter, n, 0).runs
                       /\ FlattenSeq([k \in 1..n |-> row(k).runs]) = sql_list_runs(filter, n, 0).runs
                       /\ \A k \in 1..n : page(k).total = count_runs_by_version(1)[v]
                       /\ (\A r \in Runs : ~Marked(r)) => \A k \in 1..n : row(k) = page(k)
  BY DEF ListsAndCountsAgree
<1> DEFINE filter == [flow |-> 1, version |-> v]
           M == file_matching(filter)
           Q == sql_matching(filter)
<1>1. \A limit, offset : /\ file_list_runs(filter, limit, offset) = RunPage(M, limit, offset)
                         /\ sql_list_runs(filter, limit, offset) = RunPage(Q, limit, offset)
  BY DEF file_list_runs, sql_list_runs
<1>a. (\A r \in Runs : ~Marked(r)) => Q = M
  BY EventsAgree DEF sql_matching, file_matching
<1>2. M = {r \in Runs : file_get_run(r) # None /\ file_get_run(r).flow = 1 /\ file_get_run(r).version = v}
  <2>1. \A x : x \in DOMAIN filter \cap {"flow", "status", "version", "parent"} <=> x = "flow" \/ x = "version"
    OBVIOUS
  <2>2. filter["flow"] = 1 /\ filter["version"] = v
    OBVIOUS
  <2>3. ASSUME NEW rec
        PROVE  Admits(filter, rec, {"flow", "status", "version", "parent"}) <=> rec.flow = 1 /\ rec.version = v
    <3> HIDE DEF filter
    <3> QED
      BY <2>1, <2>2 DEF Admits
  <2> HIDE DEF filter
  <2> QED
    BY <2>3 DEF file_matching
<1>3. count_runs_by_version(1)[v] = Cardinality(M)
  BY <1>2 DEF count_runs_by_version
<1>4. M \subseteq Runs /\ Q \subseteq Runs
  BY <1>2 DEF sql_matching
<1> HIDE DEF M, Q, filter
<1>5. /\ FlattenSeq([k \in 1..Cardinality(Runs) |-> RunPage(M, 1, k - 1).runs]) = RunPage(M, Cardinality(Runs), 0).runs
      /\ \A k \in 1..Cardinality(Runs) : RunPage(M, 1, k - 1).total = Cardinality(M)
      /\ FlattenSeq([k \in 1..Cardinality(Runs) |-> RunPage(Q, 1, k - 1).runs]) = RunPage(Q, Cardinality(Runs), 0).runs
  BY <1>4, RunPagesJoin
<1>6. (\A r \in Runs : ~Marked(r)) =>
        \A k \in 1..Cardinality(Runs) : sql_list_runs(filter, 1, k - 1) = file_list_runs(filter, 1, k - 1)
  BY <1>1, <1>a
<1>7. \A k \in 1..Cardinality(Runs) : file_list_runs(filter, 1, k - 1).total = count_runs_by_version(1)[v]
  BY <1>1, <1>3, <1>5
<1>8. FlattenSeq([k \in 1..Cardinality(Runs) |-> file_list_runs(filter, 1, k - 1).runs])
        = file_list_runs(filter, Cardinality(Runs), 0).runs
  BY <1>1, <1>5
<1>9. FlattenSeq([k \in 1..Cardinality(Runs) |-> sql_list_runs(filter, 1, k - 1).runs])
        = sql_list_runs(filter, Cardinality(Runs), 0).runs
  BY <1>1, <1>5
<1> QED
  BY <1>6, <1>7, <1>8, <1>9 DEF filter

\* The pages of the listings of runs add up, and the counts by version are the listings' totals.
THEOREM RunListingsAreRight == RunsSpec => []ListsAndCountsAgree
<1>1. RunsSpec => []RunInv
  BY RunStoresAssumption, RunStoresKeepInv
<1>2. RunInv => ListsAndCountsAgree
  BY RunStoresAssumption, ListsFollow
<1> QED
  BY <1>1, <1>2, PTL

--------------------------------------------------------------------------
(* The run stores: what a run writes about its nodes.                      *)

Starts(e, n, i) == e.kind = "NodeStarted" /\ e.node = n /\ e.index = i
\* A failure has no instance: it tells which instance ended of a node that has one only.
Ends(e, n, i) == \/ e.kind = "NodeCompleted" /\ e.node = n /\ e.index = i
                 \/ n \in Plain /\ e.kind = "NodeFailed" /\ e.node = n
\* The j-th event starts the instance and none after it and before the k-th ends it.
OpenFrom(s, j, k, n, i) == Starts(s[j], n, i) /\ \A p \in (j + 1)..(k - 1) : ~Ends(s[p], n, i)
WellFormed(e) ==
  /\ e.kind \in {"NodeStarted", "NodeCompleted"} => e.node \in Nodes /\ e.index \in Instances(e.node) /\ "index" \in DOMAIN e
  /\ e.kind = "NodeFailed" => e.node \in Nodes
\* An end has its start, with no other end between them.
EndFits(s, k, e) ==
  /\ WellFormed(e)
  /\ \A n \in Nodes : \A i \in Instances(n) : Ends(e, n, i) =>
       \E j \in 1..(k - 1) : OpenFrom(s, j, k, n, i) /\ (e.kind = "NodeFailed" => s[j].attempt = e.attempt)
  /\ e.kind = "NodeFailed" => \E j \in 1..(k - 1) : \E i \in Instances(e.node) : Starts(s[j], e.node, i)
TraceOK(s) == \A k \in 1..Len(s) : EndFits(s, k, s[k])
UnderWay == [node : Nodes, index : {0, 1, 2}, attempt : Nat, waiting : BOOLEAN]
\* The instances under way are those that were started and did not end.
ActiveOK(s, xs) ==
  /\ \A x \in xs : x \in UnderWay /\ x.index \in Instances(x.node)
  /\ \A x, y \in xs : x.node = y.node /\ x.index = y.index => x = y
  /\ \A x \in xs : ~x.waiting => \E j \in 1..Len(s) : OpenFrom(s, j, Len(s) + 1, x.node, x.index) /\ s[j].attempt = x.attempt

\* A longer log.
LEMMA Appended ==
  ASSUME NEW U, NEW s \in Seq(U), NEW e
  PROVE  LET t == Append(s, e) IN
         /\ Len(s) \in Nat /\ Len(t) = Len(s) + 1 /\ t[Len(s) + 1] = e
         /\ \A k \in 1..Len(s) : t[k] = s[k]
<1>1. s \in Seq(U \cup {e})
  OBVIOUS
<1> QED
  BY <1>1

\* An event that does not end an instance leaves it open.
LEMMA OpenStays ==
  ASSUME NEW U, NEW s \in Seq(U), NEW e, NEW n, NEW i, NEW k \in 1..(Len(s) + 1), NEW j \in 1..(k - 1)
  PROVE  /\ OpenFrom(s, j, k, n, i) <=> OpenFrom(Append(s, e), j, k, n, i)
         /\ OpenFrom(s, j, Len(s) + 1, n, i) /\ ~Ends(e, n, i) => OpenFrom(Append(s, e), j, Len(s) + 2, n, i)
<1> DEFINE t == Append(s, e)
<1>1. /\ Len(s) \in Nat /\ Len(t) = Len(s) + 1 /\ t[Len(s) + 1] = e
      /\ \A p \in 1..Len(s) : t[p] = s[p]
  BY Appended
<1> HIDE DEF t
<1>2. t[j] = s[j] /\ \A p \in (j + 1)..(k - 1) : t[p] = s[p]
  BY <1>1
<1>3. OpenFrom(s, j, k, n, i) <=> OpenFrom(t, j, k, n, i)
  BY <1>2 DEF OpenFrom
<1>4. ASSUME OpenFrom(s, j, Len(s) + 1, n, i), ~Ends(e, n, i) PROVE OpenFrom(t, j, Len(s) + 2, n, i)
  <2>1. ASSUME NEW p \in (j + 1)..(Len(s) + 2 - 1) PROVE ~Ends(t[p], n, i)
    <3>1. CASE p = Len(s) + 1
      BY <1>1, <1>4, <3>1
    <3>2. CASE p # Len(s) + 1
      <4>1. p \in (j + 1)..(Len(s) + 1 - 1) /\ p \in 1..Len(s)
        BY <1>1, <3>2
      <4> QED
        BY <1>1, <1>4, <4>1 DEF OpenFrom
    <3> QED
      BY <3>1, <3>2
  <2> QED
    BY <1>2, <1>4, <2>1 DEF OpenFrom
<1> QED
  BY <1>3, <1>4 DEF t

\* A log stays well formed if the next event fits.
LEMMA TraceGrows ==
  ASSUME NEW U, NEW s \in Seq(U), TraceOK(s), NEW e, EndFits(s, Len(s) + 1, e)
  PROVE  TraceOK(Append(s, e))
<1> DEFINE t == Append(s, e)
<1>1. /\ Len(s) \in Nat /\ Len(t) = Len(s) + 1 /\ t[Len(s) + 1] = e
      /\ \A p \in 1..Len(s) : t[p] = s[p]
  BY Appended
<1>2. \A n, i : \A k \in 1..(Len(s) + 1) : \A j \in 1..(k - 1) : OpenFrom(s, j, k, n, i) <=> OpenFrom(t, j, k, n, i)
  BY OpenStays
<1> HIDE DEF t
<1>3. ASSUME NEW k \in 1..(Len(s) + 1), EndFits(s, k, t[k]) PROVE EndFits(t, k, t[k])
  <2>1. \A j \in 1..(k - 1) : t[j] = s[j]
    BY <1>1
  <2>2. WellFormed(t[k])
    BY <1>3 DEF EndFits
  <2>3. ASSUME NEW n \in Nodes, NEW i \in Instances(n), Ends(t[k], n, i)
        PROVE  \E j \in 1..(k - 1) : OpenFrom(t, j, k, n, i) /\ (t[k].kind = "NodeFailed" => t[j].attempt = t[k].attempt)
    <3>1. PICK j \in 1..(k - 1) : OpenFrom(s, j, k, n, i) /\ (t[k].kind = "NodeFailed" => s[j].attempt = t[k].attempt)
      BY <1>3, <2>3 DEF EndFits
    <3> QED
      BY <1>2, <2>1, <3>1
  <2>4. ASSUME t[k].kind = "NodeFailed"
        PROVE  \E j \in 1..(k - 1) : \E i \in Instances(t[k].node) : Starts(t[j], t[k].node, i)
    BY <1>3, <2>1, <2>4 DEF EndFits
  <2> QED
    BY <2>2, <2>3, <2>4 DEF EndFits
<1>4. ASSUME NEW k \in 1..Len(t) PROVE EndFits(t, k, t[k])
  <2>1. EndFits(s, k, t[k])
    BY <1>1 DEF TraceOK
  <2> QED
    BY <1>1, <1>3, <2>1
<1>5. TraceOK(t)
  BY <1>4 DEF TraceOK
<1> QED
  BY <1>5 DEF t

\* The instances that the next event does not end are still under way.
LEMMA ActiveGrows ==
  ASSUME NEW U, NEW s \in Seq(U), NEW xs, ActiveOK(s, xs), NEW e, NEW ys \in SUBSET xs,
         \A x \in ys : ~x.waiting => ~Ends(e, x.node, x.index)
  PROVE  ActiveOK(Append(s, e), ys)
<1> DEFINE t == Append(s, e)
<1>1. /\ Len(s) \in Nat /\ Len(t) = Len(s) + 1 /\ t[Len(s) + 1] = e
      /\ \A p \in 1..Len(s) : t[p] = s[p]
  BY Appended
<1>2. ASSUME NEW x \in ys, ~x.waiting
      PROVE  \E j \in 1..Len(t) : OpenFrom(t, j, Len(t) + 1, x.node, x.index) /\ t[j].attempt = x.attempt
  <2>1. PICK j \in 1..Len(s) : OpenFrom(s, j, Len(s) + 1, x.node, x.index) /\ s[j].attempt = x.attempt
    BY <1>2 DEF ActiveOK
  <2>2. Len(s) + 1 \in 1..(Len(s) + 1) /\ j \in 1..(Len(s) + 1 - 1) /\ j \in 1..Len(t) /\ Len(t) + 1 = Len(s) + 2
    BY <1>1
  <2>3. OpenFrom(t, j, Len(s) + 2, x.node, x.index)
    BY <1>2, <2>1, <2>2, OpenStays
  <2> HIDE DEF t
  <2> QED
    BY <1>1, <2>1, <2>2, <2>3
<1> HIDE DEF t
<1>3. ActiveOK(t, ys)
  BY <1>2 DEF ActiveOK
<1> QED
  BY <1>3 DEF t

NodeInv ==
  /\ active = [r \in Runs |-> active[r]]
  /\ \A r \in Runs : TraceOK(log[r]) /\ ActiveOK(log[r], active[r])

\* A run writes an event.
LEMMA NodeEvent ==
  ASSUME NodeInv, RunInv, NEW r \in Runs, NEW ev, Emit(r, ev), NEW ys, active' = [active EXCEPT ![r] = ys],
         LET e == Stamped(ev, r, Len(log[r]) + 1) IN
           EndFits(log[r], Len(log[r]) + 1, e) /\ ActiveOK(Append(log[r], e), ys)
  PROVE  NodeInv'
<1> DEFINE e == Stamped(ev, r, Len(log[r]) + 1)
<1>1. log' = [log EXCEPT ![r] = Append(log[r], e)]
  BY DEF Emit
<1>2. EndFits(log[r], Len(log[r]) + 1, e) /\ ActiveOK(Append(log[r], e), ys)
  OBVIOUS
<1> HIDE DEF e
<1>3. PICK U : log[r] \in Seq(U)
  BY DEF RunInv, LogNumbered
<1>4. TraceOK(Append(log[r], e))
  BY <1>2, <1>3, TraceGrows DEF NodeInv
<1>5. /\ active' = [q \in Runs |-> active'[q]] /\ active'[r] = ys /\ log'[r] = Append(log[r], e)
      /\ \A q \in Runs : q # r => log'[q] = log[q] /\ active'[q] = active[q]
  BY <1>1 DEF NodeInv, RunInv, LogNumbered
<1>6. \A q \in Runs : TraceOK(log'[q]) /\ ActiveOK(log'[q], active'[q])
  BY <1>2, <1>4, <1>5 DEF NodeInv
<1>7. /\ active' = [q \in Runs |-> active'[q]]
      /\ \A q \in Runs : TraceOK(log[q])' /\ ActiveOK(log[q], active[q])'
  BY <1>5, <1>6 DEF TraceOK, ActiveOK, UnderWay, EndFits, OpenFrom, Starts, Ends, WellFormed, Nodes, Instances
<1> QED
  BY <1>7 DEF NodeInv

\* An event of another kind changes nothing about the nodes.
LEMMA OtherEvent ==
  ASSUME NodeInv, RunInv, NEW r \in Runs, NEW ev, Emit(r, ev), active' = active,
         ev.kind \notin {"NodeStarted", "NodeCompleted", "NodeFailed"}, "kind" \in DOMAIN ev
  PROVE  NodeInv'
<1> DEFINE e == Stamped(ev, r, Len(log[r]) + 1)
<1>1. e.kind \notin {"NodeStarted", "NodeCompleted", "NodeFailed"}
  BY DEF Stamped
<1> HIDE DEF e
<1>2. \A n, i : ~Ends(e, n, i)
  BY <1>1 DEF Ends
<1>3. EndFits(log[r], Len(log[r]) + 1, e)
  BY <1>1, <1>2 DEF EndFits, WellFormed
<1>4. PICK U : log[r] \in Seq(U)
  BY DEF RunInv, LogNumbered
<1>5. ActiveOK(Append(log[r], e), active[r])
  BY <1>2, <1>4, ActiveGrows DEF NodeInv
<1>6. active' = [active EXCEPT ![r] = active[r]]
  BY DEF NodeInv
<1> QED
  BY <1>3, <1>5, <1>6, NodeEvent DEF e

\* NodeStarted opens its instance: a new one, or one that waits for its retry.
LEMMA StartEvent ==
  ASSUME NodeInv, RunInv, NEW r \in Runs, NEW n \in Nodes, NEW i \in Instances(n), NodeStarted(r, n, i)
  PROVE  NodeInv'
<1> DEFINE before == {x \in active[r] : x.node = n /\ x.index = i}
           attempt == IF before = {} THEN 1 ELSE 1 + (CHOOSE x \in before : TRUE).attempt
           new == [node |-> n, index |-> i, attempt |-> attempt, waiting |-> FALSE]
           ev == [kind |-> "NodeStarted", node |-> n, index |-> i, attempt |-> attempt]
           ys == (active[r] \ before) \cup {new}
           e == Stamped(ev, r, Len(log[r]) + 1)
           s == log[r]
<1>1. active' = [active EXCEPT ![r] = ys] /\ Emit(r, ev)
  BY DEF NodeStarted
<1>2. e.kind = "NodeStarted" /\ e.node = n /\ e.index = i /\ e.attempt = attempt /\ "index" \in DOMAIN e
  BY DEF Stamped
<1>3. new.node = n /\ new.index = i /\ new.attempt = attempt /\ new.waiting = FALSE
  OBVIOUS
<1>a. new \in UnderWay
  <2>1. i \in {0, 1, 2}
    BY DEF Instances
  <2>2. \A x \in before : x.attempt \in Nat
    BY DEF NodeInv, ActiveOK, UnderWay
  <2>3. attempt \in Nat
    BY <2>2
  <2> HIDE DEF attempt
  <2> QED
    BY <2>1, <2>3 DEF UnderWay
<1> HIDE DEF e, attempt, new
<1>4. \A m, j : ~Ends(e, m, j)
  BY <1>2 DEF Ends
<1>5. EndFits(s, Len(s) + 1, e)
  BY <1>2, <1>4 DEF EndFits, WellFormed
<1>6. PICK U : s \in Seq(U)
  BY DEF RunInv, LogNumbered
<1>7. ActiveOK(Append(s, e), active[r] \ before)
  BY <1>4, <1>6, ActiveGrows DEF NodeInv
<1>8. ActiveOK(Append(s, e), ys)
  <2> DEFINE t == Append(s, e)
             xs == active[r] \ before
  <2>1. Len(s) \in Nat /\ Len(t) = Len(s) + 1 /\ t[Len(s) + 1] = e
    BY <1>6, Appended
  <2>2. \A x \in xs : ~(x.node = n /\ x.index = i)
    OBVIOUS
  <2> HIDE DEF t, xs
  <2>3. OpenFrom(t, Len(t), Len(t) + 1, n, i) /\ t[Len(t)].attempt = attempt /\ Len(t) \in 1..Len(t)
    BY <1>2, <2>1 DEF OpenFrom, Starts
  <2>4. ActiveOK(t, xs) /\ ys = xs \cup {new}
    BY <1>7 DEF t, xs
  <2> HIDE DEF ys
  <2>5. \A x \in ys : x \in UnderWay /\ x.index \in Instances(x.node)
    BY <1>3, <1>a, <2>4 DEF ActiveOK
  <2>6. \A x, y \in ys : x.node = y.node /\ x.index = y.index => x = y
    BY <1>3, <2>2, <2>4 DEF ActiveOK
  <2>7. \A x \in ys : ~x.waiting => \E j \in 1..Len(t) : OpenFrom(t, j, Len(t) + 1, x.node, x.index) /\ t[j].attempt = x.attempt
    BY <1>3, <2>3, <2>4 DEF ActiveOK
  <2> QED
    BY <2>5, <2>6, <2>7 DEF ActiveOK, t
<1> QED
  BY <1>1, <1>5, <1>8, NodeEvent DEF e

\* An instance that ends is not under way any more, and no other instance ends with it.
LEMMA EndsOne ==
  ASSUME NodeInv, RunStoresAssumption, NEW r \in Runs, NEW x \in active[r], NEW y \in active[r], y # x, NEW e,
         e.kind \in {"NodeCompleted", "NodeFailed"}, e.node = x.node, e.kind = "NodeCompleted" => e.index = x.index
  PROVE  ~Ends(e, y.node, y.index)
<1>1. /\ x.index \in Instances(x.node) /\ y.index \in Instances(y.node)
      /\ ~(x.node = y.node /\ x.index = y.index)
  BY DEF NodeInv, ActiveOK
<1> QED
  BY <1>1 DEF Ends, Instances

\* NodeCompleted ends an instance that was started.
LEMMA CompleteEvent ==
  ASSUME NodeInv, RunInv, RunStoresAssumption, NEW r \in Runs, NEW x \in active[r], NodeCompleted(r, x)
  PROVE  NodeInv'
<1> DEFINE ev == [kind |-> "NodeCompleted", node |-> x.node, index |-> x.index]
           ys == active[r] \ {x}
           e == Stamped(ev, r, Len(log[r]) + 1)
           s == log[r]
<1>1. active' = [active EXCEPT ![r] = ys] /\ Emit(r, ev) /\ ~x.waiting
  BY DEF NodeCompleted
<1>2. e.kind = "NodeCompleted" /\ e.node = x.node /\ e.index = x.index /\ "index" \in DOMAIN e
  BY DEF Stamped
<1> HIDE DEF e
<1>3. PICK U : s \in Seq(U)
  BY DEF RunInv, LogNumbered
<1>4. PICK j \in 1..Len(s) : OpenFrom(s, j, Len(s) + 1, x.node, x.index) /\ s[j].attempt = x.attempt
  BY <1>1 DEF NodeInv, ActiveOK
<1>5. x \in UnderWay /\ x.node \in Nodes /\ x.index \in Instances(x.node)
  BY DEF NodeInv, ActiveOK, UnderWay
<1>6. EndFits(s, Len(s) + 1, e)
  <2>1. Len(s) \in Nat /\ j \in 1..(Len(s) + 1 - 1)
    BY <1>3
  <2>2. \A n, i : Ends(e, n, i) => n = x.node /\ i = x.index
    BY <1>2 DEF Ends
  <2> QED
    BY <1>2, <1>4, <1>5, <2>1, <2>2 DEF EndFits, WellFormed
<1>7. \A y \in ys : ~Ends(e, y.node, y.index)
  BY <1>2, EndsOne
<1>8. ActiveOK(Append(s, e), ys)
  BY <1>3, <1>7, ActiveGrows DEF NodeInv
<1> QED
  BY <1>1, <1>6, <1>8, NodeEvent DEF e

\* NodeFailed ends an attempt that was started; with a retry to come the instance waits.
LEMMA FailEvent ==
  ASSUME NodeInv, RunInv, RunStoresAssumption, NEW r \in Runs, NEW x \in active[r], NEW w, NodeFailed(r, x, w)
  PROVE  NodeInv'
<1> DEFINE ev == [kind |-> "NodeFailed", node |-> x.node, attempt |-> x.attempt, will_retry |-> w]
           zs == active[r] \ {x}
           late == [x EXCEPT !.waiting = TRUE]
           ys == zs \cup IF w THEN {late} ELSE {}
           e == Stamped(ev, r, Len(log[r]) + 1)
           s == log[r]
<1>1. active' = [active EXCEPT ![r] = ys] /\ Emit(r, ev) /\ ~x.waiting
  BY DEF NodeFailed
<1>2. e.kind = "NodeFailed" /\ e.node = x.node /\ e.attempt = x.attempt
  BY DEF Stamped
<1> HIDE DEF e
<1>3. PICK U : s \in Seq(U)
  BY DEF RunInv, LogNumbered
<1>4. PICK j \in 1..Len(s) : OpenFrom(s, j, Len(s) + 1, x.node, x.index) /\ s[j].attempt = x.attempt
  BY <1>1 DEF NodeInv, ActiveOK
<1>5. x \in UnderWay /\ x.node \in Nodes /\ x.index \in Instances(x.node)
  BY DEF NodeInv, ActiveOK, UnderWay
<1>6. EndFits(s, Len(s) + 1, e)
  <2>1. Len(s) \in Nat /\ j \in 1..(Len(s) + 1 - 1)
    BY <1>3
  <2>2. \A n \in Nodes : \A i \in Instances(n) : Ends(e, n, i) => n = x.node /\ i = x.index
    BY <1>2, <1>5 DEF Ends, Instances
  <2>3. Starts(s[j], e.node, x.index)
    BY <1>2, <1>4 DEF OpenFrom
  <2> QED
    BY <1>2, <1>4, <1>5, <2>1, <2>2, <2>3 DEF EndFits, WellFormed
<1>7. \A y \in zs : ~Ends(e, y.node, y.index)
  BY <1>2, EndsOne
<1>8. ActiveOK(Append(s, e), zs)
  BY <1>3, <1>7, ActiveGrows DEF NodeInv
<1>9. ActiveOK(Append(s, e), ys)
  <2>1. CASE w
    <3>1. late \in UnderWay /\ late.waiting = TRUE /\ late.node = x.node /\ late.index = x.index
      BY <1>5 DEF UnderWay
    <3>2. \A y \in zs : ~(y.node = x.node /\ y.index = x.index)
      BY DEF NodeInv, ActiveOK
    <3>3. ys = zs \cup {late}
      BY <2>1
    <3> HIDE DEF late, ys, zs
    <3>4. /\ \A y \in zs : y \in UnderWay /\ y.index \in Instances(y.node)
          /\ \A y, z \in zs : y.node = z.node /\ y.index = z.index => y = z
          /\ \A y \in zs : ~y.waiting => \E k \in 1..Len(Append(s, e)) :
               /\ OpenFrom(Append(s, e), k, Len(Append(s, e)) + 1, y.node, y.index)
               /\ Append(s, e)[k].attempt = y.attempt
      BY <1>8 DEF ActiveOK
    <3>5. late.index \in Instances(late.node)
      BY <1>5, <3>1
    <3> QED
      BY <3>1, <3>2, <3>3, <3>4, <3>5 DEF ActiveOK
  <2>2. CASE ~w
    BY <1>8, <2>2
  <2> QED
    BY <2>1, <2>2
<1> QED
  BY <1>1, <1>6, <1>9, NodeEvent DEF e

\* Every step keeps the logs well formed.
LEMMA NodeInvKept ==
  ASSUME NodeInv, RunInv, RunStoresAssumption, [RunsNext]_runVars
  PROVE  NodeInv'
<1>0. Busy \subseteq Runs
  BY DEF RunStoresAssumption
<1>1. ASSUME UNCHANGED <<log, active>> PROVE NodeInv'
  BY <1>1 DEF NodeInv, TraceOK, ActiveOK, UnderWay, EndFits, OpenFrom, Starts, Ends, WellFormed, Nodes, Instances
<1>2. ASSUME NEW r \in Busy, NEW n \in Nodes, NEW i \in Instances(n), NodeStarted(r, n, i) PROVE NodeInv'
  BY <1>0, <1>2, StartEvent
<1>3. ASSUME NEW r \in Busy, NEW x \in active[r], NodeCompleted(r, x) PROVE NodeInv'
  BY <1>0, <1>3, CompleteEvent
<1>4. ASSUME NEW r \in Busy, NEW x \in active[r], NEW w \in BOOLEAN, NodeFailed(r, x, w) PROVE NodeInv'
  BY <1>0, <1>4, FailEvent
<1>5. ASSUME NEW r \in Busy, NEW kind \in {"EdgeEvaluated", "LlmInvocation", "Custom"}, NEW n, Observed(r, kind, n)
      PROVE  NodeInv'
  <2> DEFINE ev == [kind |-> kind, node |-> n]
  <2>1. Emit(r, ev) /\ active' = active /\ ev.kind = kind /\ "kind" \in DOMAIN ev /\ r \in Runs
    BY <1>0, <1>5 DEF Observed, Quiet
  <2> HIDE DEF ev
  <2> QED
    BY <2>1, OtherEvent
<1>6. ASSUME NEW r \in Runs, NEW v, RunStarted(r, 1, v) PROVE NodeInv'
  <2> DEFINE ev == [kind |-> "RunStarted", flow |-> 1, version |-> v, parent |-> IF r = 1 THEN None ELSE 1]
  <2>1. Emit(r, ev) /\ active' = active /\ ev.kind = "RunStarted" /\ "kind" \in DOMAIN ev
    BY <1>6 DEF RunStarted, Quiet
  <2> HIDE DEF ev
  <2> QED
    BY <2>1, OtherEvent
<1>7. ASSUME NEW r \in Runs, NEW st, RunCompleted(r, st) PROVE NodeInv'
  <2> DEFINE ev == [kind |-> "RunCompleted", status |-> st]
  <2>1. Emit(r, ev) /\ active' = active /\ ev.kind = "RunCompleted" /\ "kind" \in DOMAIN ev
    BY <1>7 DEF RunCompleted, Quiet
  <2> HIDE DEF ev
  <2> QED
    BY <2>1, OtherEvent
<1>8. ASSUME NEW r \in Runs, NEW events, Submit(r, events) \/ mark_interrupted(r) PROVE NodeInv'
  BY <1>1, <1>8 DEF Submit, mark_interrupted
<1>9. ASSUME write_batch \/ sql_write_fails PROVE NodeInv'
  BY <1>1, <1>9 DEF write_batch, sql_write_fails
<1>10. CASE UNCHANGED runVars
  BY <1>1, <1>10 DEF runVars
<1> QED
  BY <1>2, <1>3, <1>4, <1>5, <1>6, <1>7, <1>8, <1>9, <1>10 DEF RunsNext

\* What must come before an event that was acknowledged, or handed over, was so too; only a
\* mark waits for nothing.
Closed ==
  \A r \in Runs : \A e \in Written(r) :
    /\ \A f \in OfRun(acked, r) \ {Mark(r)} : Precedes(e, f) => e \in acked
    /\ \A f \in OfRun(batch, r) \ {Mark(r)} : Precedes(e, f) => e \in acked \cup batch

\* Batches never overtake: a task's events, the first and the last of the run and every
\* failure reach the stores in order (Submit).
LEMMA ClosedKept ==
  ASSUME Closed, RunInv, RunStoresAssumption, [RunsNext]_runVars
  PROVE  Closed'
<1>1. CASE UNCHANGED runVars
  BY <1>1 DEF runVars, Closed, Written, OfRun, Precedes, Task, Mark, u_MAX
<1>2. CASE Emits
  <2>1. PICK r \in Runs : \E ev : Emit(r, ev)
    BY <1>2 DEF Emits
  <2>2. acked' = {} /\ batch' = {}
    BY <2>1 DEF Emit, RunInv, Received
  <2> QED
    BY <2>2 DEF Closed, OfRun
<1>3. CASE Submits
  <2>1. PICK r \in Runs : \E events \in SUBSET (ToSet(log[r]) \ acked) : Submit(r, events)
    BY <1>3 DEF Submits
  <2>2. PICK events \in SUBSET (Written(r) \ acked) : Submit(r, events)
    BY <2>1 DEF Written
  <2>3. /\ batch' = events /\ log' = log /\ acked' = acked
        /\ \A f \in events : \A e \in Written(r) \ acked : Precedes(e, f) => e \in events
    BY <2>2 DEF Submit, Written
  <2>4. \A q \in Runs : Written(q)' = Written(q) /\ OfRun(acked, q)' = OfRun(acked, q) /\ OfRun(batch, q)' = OfRun(events, q)
    BY <2>3 DEF Written, OfRun
  <2>5. \A q \in Runs : q # r => OfRun(events, q) = {}
    <3>1. \A f \in Written(r) : f.run = r
      <4>1. PICK U : log[r] \in Seq(U)
        BY DEF RunInv, LogNumbered
      <4> QED
        BY <4>1 DEF RunInv, LogNumbered, Written, ToSet
    <3> QED
      BY <3>1 DEF OfRun
  <2>6. ASSUME NEW q \in Runs, NEW e \in Written(q)
        PROVE  /\ \A f \in OfRun(acked, q) \ {Mark(q)} : Precedes(e, f) => e \in acked
               /\ \A f \in OfRun(events, q) \ {Mark(q)} : Precedes(e, f) => e \in acked \cup events
    <3>1. \A f \in OfRun(acked, q) \ {Mark(q)} : Precedes(e, f) => e \in acked
      BY DEF Closed
    <3>2. CASE q = r
      BY <2>3, <3>1, <3>2 DEF OfRun
    <3>3. CASE q # r
      BY <2>5, <3>1, <3>3
    <3> QED
      BY <3>2, <3>3
  <2> QED
    BY <2>3, <2>4, <2>6 DEF Closed, Precedes, Task, Mark, u_MAX
<1>4. CASE write_batch
  <2>1. acked' = acked \cup batch /\ batch' = {} /\ log' = log
    BY <1>4 DEF write_batch
  <2>2. \A q \in Runs : Written(q)' = Written(q) /\ OfRun(acked, q)' = OfRun(acked, q) \cup OfRun(batch, q) /\ OfRun(batch, q)' = {}
    BY <2>1 DEF Written, OfRun
  <2>3. \A q \in Runs : \A e \in Written(q) : \A f \in (OfRun(acked, q) \cup OfRun(batch, q)) \ {Mark(q)} : Precedes(e, f) => e \in acked \cup batch
    BY DEF Closed
  <2> QED
    BY <2>1, <2>2, <2>3 DEF Closed, Precedes, Task, Mark, u_MAX
<1>5. CASE sql_write_fails
  BY <1>5 DEF sql_write_fails, Closed, Written, OfRun, Precedes, Task, Mark, u_MAX
<1>6. CASE Marks
  <2>1. PICK r \in Runs : mark_interrupted(r)
    BY <1>6 DEF Marks
  <2>2. batch' = {Mark(r)} /\ acked' = acked /\ log' = log
    BY <2>1 DEF mark_interrupted
  <2>3. \A q \in Runs : /\ Written(q)' = Written(q) /\ OfRun(acked, q)' = OfRun(acked, q)
                        /\ OfRun(batch, q)' \subseteq {Mark(q)}
    BY <2>2 DEF Written, OfRun, Mark
  <2> QED
    BY <2>2, <2>3 DEF Closed, Precedes, Task, Mark, u_MAX
<1> QED
  BY <1>1, <1>2, <1>3, <1>4, <1>5, <1>6, RunSteps

AllInv == RunInv /\ NodeInv /\ Closed
\* The invariants of the logs and of the stores hold together.
LEMMA AllInvHolds == ASSUME RunStoresAssumption PROVE RunsSpec => []AllInv
<1>1. RunsInit => NodeInv /\ Closed
  <2> SUFFICES ASSUME RunsInit PROVE NodeInv /\ Closed
    OBVIOUS
  <2>1. \A r \in Runs : log[r] = << >> /\ active[r] = {} /\ Len(<< >>) = 0 /\ 1..0 = {}
    BY DEF RunsInit
  <2>2. NodeInv
    BY <2>1 DEF NodeInv, TraceOK, ActiveOK, RunsInit
  <2>3. Closed
    BY DEF Closed, OfRun, RunsInit
  <2> QED
    BY <2>2, <2>3
<1>2. RunInv /\ NodeInv /\ Closed /\ [RunsNext]_runVars => NodeInv' /\ Closed'
  BY NodeInvKept, ClosedKept
<1> QED
  BY <1>1, <1>2, RunStoresKeepInv, PTL DEF RunsSpec, AllInv

--------------------------------------------------------------------------
(* The run stores: the attempts of a node.                                 *)

MemDetail(events, n) == FoldLeft(LAMBDA ds, e : mem_detail_step(n, ds, e), {}, events)
\* The greatest of some numbers up to m, if m is one of them.
LEMMA MaxIs ==
  ASSUME NEW m \in Nat, NEW s \in SUBSET (1..m), m \in s
  PROVE  Max(s) = m
<1>1. \A y \in s : m >= y /\ y \in Int
  OBVIOUS
<1>2. Max(s) \in s /\ \A y \in s : Max(s) >= y
  <2>1. \E x \in s : \A y \in s : x >= y
    BY <1>1
  <2> QED
    BY <2>1 DEF Max
<1>3. Max(s) >= m /\ m >= Max(s) /\ Max(s) \in Int
  BY <1>1, <1>2
<1> QED
  BY <1>3

\* What extract_node_detail folds is what its step makes of the events one after the other.
LEMMA DetailFold ==
  ASSUME NEW n, NEW U, NEW events \in Seq(U)
  PROVE  \E g : /\ g[0] = << >>
                /\ \A k \in 1..Len(events) : g[k] = detail_step(n, g[k - 1], events[k])
                /\ extract_node_detail(events, n) = g[Len(events)]
<1> DEFINE L == Len(events)
           Rec(h, m) == h = [s \in SUBSET (1..m) |-> IF s = {} THEN << >>
                               ELSE detail_step(n, h[s \ {Max(s)}], events[Max(s)])]
           bad == {m \in 0..L : ~\E h : Rec(h, m)}
<1>0. L \in Nat /\ DOMAIN events = 1..L
  OBVIOUS
<1>1. \A m \in 0..L : \E h : Rec(h, m)
  <2> SUFFICES ASSUME bad # {} PROVE FALSE
    OBVIOUS
  <2>1. PICK m \in bad : \A x \in bad : m <= x
    <3>1. bad \subseteq Nat
      BY <1>0
    <3> HIDE DEF bad
    <3> QED
      BY <3>1, LeastOf
  <2>2. m \in 0..L /\ ~\E h : Rec(h, m)
    OBVIOUS
  <2>3. CASE m = 0
    <3> DEFINE h0 == [s \in SUBSET (1..0) |-> << >>]
    <3>1. \A s \in SUBSET (1..0) : s = {}
      OBVIOUS
    <3>2. Rec(h0, 0)
      BY <3>1
    <3> QED
      BY <2>2, <2>3, <3>2
  <2>4. CASE m # 0
    <3>1. m - 1 \in 0..L /\ ~(m <= m - 1) /\ m \in Nat
      BY <1>0, <2>2, <2>4
    <3>2. m - 1 \notin bad
      <4> HIDE DEF bad
      <4> QED
        BY <2>1, <3>1
    <3>3. PICK h : Rec(h, m - 1)
      BY <3>1, <3>2
    <3> DEFINE h2 == [s \in SUBSET (1..m) |-> IF m \in s THEN detail_step(n, h[s \ {m}], events[m]) ELSE h[s]]
    <3>4. ASSUME NEW s \in SUBSET (1..m)
          PROVE  h2[s] = IF s = {} THEN << >> ELSE detail_step(n, h2[s \ {Max(s)}], events[Max(s)])
      <4>1. CASE m \in s
        <5>1. Max(s) = m
          BY <3>1, <4>1, MaxIs
        <5>2. s \ {m} \in SUBSET (1..m) /\ m \notin s \ {m}
          OBVIOUS
        <5>3. h2[s \ {m}] = h[s \ {m}] /\ h2[s] = detail_step(n, h[s \ {m}], events[m])
          BY <4>1, <5>2
        <5> HIDE DEF h2
        <5> QED
          BY <4>1, <5>1, <5>3
      <4>2. CASE m \notin s
        <5>1. s \in SUBSET (1..(m - 1)) /\ s \ {Max(s)} \in SUBSET (1..m) /\ m \notin s \ {Max(s)}
          <6>1. \A x \in s : x \in 1..m /\ x # m
            BY <4>2
          <6>2. \A x \in s : x \in 1..(m - 1)
            BY <3>1, <6>1
          <6> QED
            BY <4>2, <6>2
        <5>2. h[s] = IF s = {} THEN << >> ELSE detail_step(n, h[s \ {Max(s)}], events[Max(s)])
          BY <3>3, <5>1
        <5>3. h2[s] = h[s] /\ h2[s \ {Max(s)}] = h[s \ {Max(s)}]
          BY <4>2, <5>1
        <5> HIDE DEF h2
        <5> QED
          BY <5>2, <5>3
      <4> QED
        BY <4>1, <4>2
    <3>5. h2 = [s \in SUBSET (1..m) |-> h2[s]]
      OBVIOUS
    <3> HIDE DEF h2
    <3>6. Rec(h2, m)
      BY <3>4, <3>5
    <3> QED
      BY <2>2, <3>6
  <2> QED
    BY <2>3, <2>4
<1>2. extract_node_detail(events, n) = (CHOOSE h : Rec(h, L))[1..L]
  BY <1>0 DEF extract_node_detail, FoldLeft, MapThenFoldSet
<1>3. \E h : Rec(h, L)
  <2>1. L \in 0..L
    BY <1>0
  <2> HIDE DEF L, Rec
  <2> QED
    BY <1>1, <2>1
<1>4. PICK h : Rec(h, L) /\ extract_node_detail(events, n) = h[1..L]
  <2> HIDE DEF Rec
  <2> QED
    BY <1>2, <1>3
<1> DEFINE g == [k \in 0..L |-> h[1..k]]
<1>5. g[0] = << >>
  <2>1. 1..0 = {} /\ {} \in SUBSET (1..L) /\ 0 \in 0..L
    BY <1>0
  <2>2. h[{}] = << >>
    BY <1>4, <2>1
  <2> QED
    BY <2>1, <2>2
<1>6. ASSUME NEW k \in 1..L PROVE g[k] = detail_step(n, g[k - 1], events[k])
  <2>1. /\ 1..k \in SUBSET (1..L) /\ 1..k # {} /\ (1..k) \ {k} = 1..(k - 1) /\ k \in 0..L /\ k - 1 \in 0..L
    <3>1. k \in Nat /\ 1 <= k /\ k <= L
      BY <1>0
    <3>2. 1..k \subseteq 1..L
      BY <1>0, <3>1
    <3>3. (1..k) \ {k} = 1..(k - 1)
      BY <3>1
    <3>4. 1 \in 1..k /\ k \in 0..L /\ k - 1 \in 0..L
      BY <1>0, <3>1
    <3> QED
      BY <3>2, <3>3, <3>4
  <2>2. Max(1..k) = k
    <3> DEFINE s == 1..k
    <3>1. s \in SUBSET (1..k) /\ k \in s /\ k \in Nat
      BY <1>0
    <3> HIDE DEF s
    <3>2. Max(s) = k
      BY <3>1, MaxIs
    <3> QED
      BY <3>2 DEF s
  <2>3. h[1..k] = detail_step(n, h[(1..k) \ {Max(1..k)}], events[Max(1..k)])
    BY <1>4, <2>1
  <2> QED
    BY <2>1, <2>2, <2>3
<1>7. extract_node_detail(events, n) = g[L]
  BY <1>0, <1>4
<1> HIDE DEF g
<1> QED
  BY <1>5, <1>6, <1>7

\* What mem_get_node_detail folds is what its step makes of the events one after the other.
LEMMA MemDetailFold ==
  ASSUME NEW n, NEW U, NEW events \in Seq(U)
  PROVE  \E g : /\ g[0] = {}
                /\ \A k \in 1..Len(events) : g[k] = mem_detail_step(n, g[k - 1], events[k])
                /\ MemDetail(events, n) = g[Len(events)]
<1> DEFINE L == Len(events)
           Rec(h, m) == h = [s \in SUBSET (1..m) |-> IF s = {} THEN {}
                               ELSE mem_detail_step(n, h[s \ {Max(s)}], events[Max(s)])]
           bad == {m \in 0..L : ~\E h : Rec(h, m)}
<1>0. L \in Nat /\ DOMAIN events = 1..L
  OBVIOUS
<1>1. \A m \in 0..L : \E h : Rec(h, m)
  <2> SUFFICES ASSUME bad # {} PROVE FALSE
    OBVIOUS
  <2>1. PICK m \in bad : \A x \in bad : m <= x
    <3>1. bad \subseteq Nat
      BY <1>0
    <3> HIDE DEF bad
    <3> QED
      BY <3>1, LeastOf
  <2>2. m \in 0..L /\ ~\E h : Rec(h, m)
    OBVIOUS
  <2>3. CASE m = 0
    <3> DEFINE h0 == [s \in SUBSET (1..0) |-> {}]
    <3>1. \A s \in SUBSET (1..0) : s = {}
      OBVIOUS
    <3>2. Rec(h0, 0)
      BY <3>1
    <3> QED
      BY <2>2, <2>3, <3>2
  <2>4. CASE m # 0
    <3>1. m - 1 \in 0..L /\ ~(m <= m - 1) /\ m \in Nat
      BY <1>0, <2>2, <2>4
    <3>2. m - 1 \notin bad
      <4> HIDE DEF bad
      <4> QED
        BY <2>1, <3>1
    <3>3. PICK h : Rec(h, m - 1)
      BY <3>1, <3>2
    <3> DEFINE h2 == [s \in SUBSET (1..m) |-> IF m \in s THEN mem_detail_step(n, h[s \ {m}], events[m]) ELSE h[s]]
    <3>4. ASSUME NEW s \in SUBSET (1..m)
          PROVE  h2[s] = IF s = {} THEN {} ELSE mem_detail_step(n, h2[s \ {Max(s)}], events[Max(s)])
      <4>1. CASE m \in s
        <5>1. Max(s) = m
          BY <3>1, <4>1, MaxIs
        <5>2. s \ {m} \in SUBSET (1..m) /\ m \notin s \ {m}
          OBVIOUS
        <5>3. h2[s \ {m}] = h[s \ {m}] /\ h2[s] = mem_detail_step(n, h[s \ {m}], events[m])
          BY <4>1, <5>2
        <5> HIDE DEF h2
        <5> QED
          BY <4>1, <5>1, <5>3
      <4>2. CASE m \notin s
        <5>1. s \in SUBSET (1..(m - 1)) /\ s \ {Max(s)} \in SUBSET (1..m) /\ m \notin s \ {Max(s)}
          <6>1. \A x \in s : x \in 1..m /\ x # m
            BY <4>2
          <6>2. \A x \in s : x \in 1..(m - 1)
            BY <3>1, <6>1
          <6> QED
            BY <4>2, <6>2
        <5>2. h[s] = IF s = {} THEN {} ELSE mem_detail_step(n, h[s \ {Max(s)}], events[Max(s)])
          BY <3>3, <5>1
        <5>3. h2[s] = h[s] /\ h2[s \ {Max(s)}] = h[s \ {Max(s)}]
          BY <4>2, <5>1
        <5> HIDE DEF h2
        <5> QED
          BY <5>2, <5>3
      <4> QED
        BY <4>1, <4>2
    <3>5. h2 = [s \in SUBSET (1..m) |-> h2[s]]
      OBVIOUS
    <3> HIDE DEF h2
    <3>6. Rec(h2, m)
      BY <3>4, <3>5
    <3> QED
      BY <2>2, <3>6
  <2> QED
    BY <2>3, <2>4
<1>2. MemDetail(events, n) = (CHOOSE h : Rec(h, L))[1..L]
  BY <1>0 DEF MemDetail, FoldLeft, MapThenFoldSet
<1>3. \E h : Rec(h, L)
  <2>1. L \in 0..L
    BY <1>0
  <2> HIDE DEF L, Rec
  <2> QED
    BY <1>1, <2>1
<1>4. PICK h : Rec(h, L) /\ MemDetail(events, n) = h[1..L]
  <2> HIDE DEF Rec
  <2> QED
    BY <1>2, <1>3
<1> DEFINE g == [k \in 0..L |-> h[1..k]]
<1>5. g[0] = {}
  <2>1. 1..0 = {} /\ {} \in SUBSET (1..L) /\ 0 \in 0..L
    BY <1>0
  <2>2. h[{}] = {}
    BY <1>4, <2>1
  <2> QED
    BY <2>1, <2>2
<1>6. ASSUME NEW k \in 1..L PROVE g[k] = mem_detail_step(n, g[k - 1], events[k])
  <2>1. /\ 1..k \in SUBSET (1..L) /\ 1..k # {} /\ (1..k) \ {k} = 1..(k - 1) /\ k \in 0..L /\ k - 1 \in 0..L
    <3>1. k \in Nat /\ 1 <= k /\ k <= L
      BY <1>0
    <3>2. 1..k \subseteq 1..L
      BY <1>0, <3>1
    <3>3. (1..k) \ {k} = 1..(k - 1)
      BY <3>1
    <3>4. 1 \in 1..k /\ k \in 0..L /\ k - 1 \in 0..L
      BY <1>0, <3>1
    <3> QED
      BY <3>2, <3>3, <3>4
  <2>2. Max(1..k) = k
    <3> DEFINE s == 1..k
    <3>1. s \in SUBSET (1..k) /\ k \in s /\ k \in Nat
      BY <1>0
    <3> HIDE DEF s
    <3>2. Max(s) = k
      BY <3>1, MaxIs
    <3> QED
      BY <3>2 DEF s
  <2>3. h[1..k] = mem_detail_step(n, h[(1..k) \ {Max(1..k)}], events[Max(1..k)])
    BY <1>4, <2>1
  <2> QED
    BY <2>1, <2>2, <2>3
<1>7. MemDetail(events, n) = g[L]
  BY <1>0, <1>4
<1> HIDE DEF g
<1> QED
  BY <1>5, <1>6, <1>7

\* The events of a node that ran without retry, cycle or failure in a fan-out.
Started(E, p, n) == IsOf(E[p], "NodeStarted", n)
Completed(E, p, n) == IsOf(E[p], "NodeCompleted", n)
Failed(E, p, n) == IsOf(E[p], "NodeFailed", n)
Orderly(E, n) ==
  /\ \A p \in 1..Len(E) : E[p].seq \in Nat /\ E[p].seq # 0
  /\ \A p \in 1..Len(E) : Started(E, p, n) =>
       E[p].attempt = 1 /\ \A q \in 1..Len(E) : Started(E, q, n) /\ E[q].index = E[p].index => q = p
  /\ \A p \in 1..Len(E) : Completed(E, p, n) =>
       /\ \E q \in 1..(p - 1) : Started(E, q, n) /\ E[q].index = E[p].index
       /\ \A q \in 1..Len(E) : Completed(E, q, n) /\ E[q].index = E[p].index => q = p
  /\ \A p \in 1..Len(E) : Failed(E, p, n) =>
       /\ E[p].attempt = 1 /\ (\E q \in 1..(p - 1) : Started(E, q, n))
       /\ \A q \in 1..Len(E) : Started(E, q, n) => E[q].index = 0
       /\ \A q \in 1..Len(E) : Completed(E, q, n) \/ Failed(E, q, n) => q = p
\* The attempts found by the two folds after k events: ds in the files, ms in memory.
IsDetail(d) == d = [attempt |-> d.attempt, index |-> d.index, inputs |-> d.inputs, outputs |-> d.outputs, error |-> d.error]
SameDetails(E, n, k, ds, ms) ==
  /\ \E V : ds \in Seq(V)
  /\ ms = {ds[i] : i \in 1..Len(ds)}
  /\ \A i \in 1..Len(ds) : /\ IsDetail(ds[i]) /\ ds[i].attempt = 1
                           /\ \E p \in 1..k : Started(E, p, n) /\ E[p].index = ds[i].index
                           /\ ds[i].outputs # 0 => \E p \in 1..k : Completed(E, p, n) /\ E[p].index = ds[i].index
                           /\ ds[i].error # 0 => \E p \in 1..k : Failed(E, p, n)
                           /\ \A j \in 1..Len(ds) : ds[j].index = ds[i].index => j = i
  /\ \A p \in 1..k : Started(E, p, n) => \E i \in 1..Len(ds) : ds[i].index = E[p].index

\* A start adds one attempt to the list of extract_node_detail and to the map in memory.
LEMMA SameAfterStart ==
  ASSUME NEW E, NEW n, Orderly(E, n), Len(E) \in Nat, NEW k \in 1..Len(E), NEW ds, NEW ms,
         SameDetails(E, n, k - 1, ds, ms), Started(E, k, n)
  PROVE  SameDetails(E, n, k, detail_step(n, ds, E[k]), mem_detail_step(n, ms, E[k]))
<1> DEFINE e == E[k]
           d == Detail(e)
           ds2 == Append(ds, d)
           ms2 == ms \cup {d}
<1>1. detail_step(n, ds, e) = ds2
  BY DEF detail_step, Started, IsOf
<1>2. \A i \in 1..Len(ds) : ds[i].index # e.index
  <2> SUFFICES ASSUME NEW i \in 1..Len(ds), ds[i].index = e.index PROVE FALSE
    OBVIOUS
  <2>1. PICK p \in 1..(k - 1) : Started(E, p, n) /\ E[p].index = ds[i].index
    BY DEF SameDetails
  <2>2. p \in 1..Len(E) /\ p # k /\ E[p].index = e.index
    BY <2>1
  <2> QED
    BY <2>1, <2>2 DEF Orderly
<1>3. mem_detail_step(n, ms, e) = ms2
  <2>1. \A x \in ms : x.index # e.index
    BY <1>2 DEF SameDetails
  <2> QED
    BY <2>1 DEF mem_detail_step, Started, IsOf
<1>4. IsDetail(d) /\ d.attempt = 1 /\ d.index = e.index /\ d.outputs = 0 /\ d.error = 0
  BY DEF Detail, IsDetail, Orderly
<1>5. PICK V : ds \in Seq(V)
  BY DEF SameDetails
<1> HIDE DEF d
<1>6. /\ ds2 \in Seq(V \cup {d}) /\ Len(ds2) = Len(ds) + 1 /\ ds2[Len(ds) + 1] = d /\ Len(ds) \in Nat
      /\ \A i \in 1..Len(ds) : ds2[i] = ds[i]
  <2>1. ds \in Seq(V \cup {d})
    BY <1>5
  <2> QED
    BY <2>1
<1> HIDE DEF ds2
<1>7. ms2 = {ds2[i] : i \in 1..Len(ds2)}
  <2>1. \A i \in 1..Len(ds2) : i \in 1..Len(ds) \/ i = Len(ds) + 1
    BY <1>6
  <2>2. \A i \in 1..Len(ds) : i \in 1..Len(ds2)
    BY <1>6
  <2>3. Len(ds) + 1 \in 1..Len(ds2)
    BY <1>6
  <2>4. ms = {ds[i] : i \in 1..Len(ds)}
    BY DEF SameDetails
  <2> QED
    BY <1>6, <2>1, <2>2, <2>3, <2>4
<1>8. ASSUME NEW i \in 1..Len(ds2)
      PROVE  /\ IsDetail(ds2[i]) /\ ds2[i].attempt = 1
             /\ \E p \in 1..k : Started(E, p, n) /\ E[p].index = ds2[i].index
             /\ ds2[i].outputs # 0 => \E p \in 1..k : Completed(E, p, n) /\ E[p].index = ds2[i].index
             /\ ds2[i].error # 0 => \E p \in 1..k : Failed(E, p, n)
             /\ \A j \in 1..Len(ds2) : ds2[j].index = ds2[i].index => j = i
  <2>0. \A j \in 1..Len(ds2) : (j \in 1..Len(ds) /\ ds2[j] = ds[j]) \/ (j = Len(ds) + 1 /\ ds2[j] = d)
    BY <1>6
  <2>a. 1..(k - 1) \subseteq 1..k /\ k \in 1..k
    OBVIOUS
  <2>1. CASE i \in 1..Len(ds)
    <3>1. ds2[i] = ds[i]
      BY <1>6, <2>1
    <3>2. ASSUME NEW j \in 1..Len(ds2), ds2[j].index = ds2[i].index PROVE j = i
      <4>1. CASE j \in 1..Len(ds) /\ ds2[j] = ds[j]
        BY <2>1, <3>1, <3>2, <4>1 DEF SameDetails
      <4>2. CASE ds2[j] = d
        BY <1>2, <1>4, <2>1, <3>1, <3>2, <4>2 DEF SameDetails
      <4> QED
        BY <2>0, <4>1, <4>2
    <3> QED
      BY <2>1, <2>a, <3>1, <3>2 DEF SameDetails
  <2>2. CASE i = Len(ds) + 1
    <3>1. ds2[i] = d
      BY <1>6, <2>2
    <3>2. \A j \in 1..Len(ds2) : ds2[j].index = ds2[i].index => j = i
      BY <1>2, <1>4, <2>0, <2>2, <3>1
    <3> QED
      BY <1>4, <2>a, <3>1, <3>2
  <2> QED
    BY <2>0, <2>1, <2>2
<1>9. ASSUME NEW p \in 1..k, Started(E, p, n) PROVE \E i \in 1..Len(ds2) : ds2[i].index = E[p].index
  <2>1. CASE p = k
    <3>1. Len(ds) + 1 \in 1..Len(ds2)
      BY <1>6
    <3> QED
      BY <1>4, <1>6, <2>1, <3>1
  <2>2. CASE p # k
    <3>1. PICK i \in 1..Len(ds) : ds[i].index = E[p].index
      BY <1>9, <2>2 DEF SameDetails
    <3>2. i \in 1..Len(ds2)
      BY <1>6
    <3> QED
      BY <1>6, <3>1, <3>2
  <2> QED
    BY <2>1, <2>2
<1> HIDE DEF ms2
<1>10. \E W : ds2 \in Seq(W)
  BY <1>6
<1>11. SameDetails(E, n, k, ds2, ms2)
  BY <1>7, <1>8, <1>9, <1>10 DEF SameDetails
<1> QED
  BY <1>1, <1>3, <1>11

PutAt(ds, i, c) == [ds EXCEPT ![i] = c]
PutFor(ms, d, c) == {IF x = d THEN c ELSE x : x \in ms}
\* An entry takes an end.
LEMMA SameAfterEnd ==
  ASSUME NEW E, NEW n, NEW k \in Nat, k # 0, NEW ds, NEW ms, SameDetails(E, n, k - 1, ds, ms), ~Started(E, k, n),
         NEW i0 \in 1..Len(ds), NEW c, IsDetail(c), c.attempt = 1, c.index = ds[i0].index,
         c.outputs # 0 => \E p \in 1..k : Completed(E, p, n) /\ E[p].index = c.index,
         c.error # 0 => \E p \in 1..k : Failed(E, p, n)
  PROVE  SameDetails(E, n, k, PutAt(ds, i0, c), PutFor(ms, ds[i0], c))
<1> DEFINE ds2 == PutAt(ds, i0, c)
           ms2 == PutFor(ms, ds[i0], c)
<1>1. PICK V : ds \in Seq(V)
  BY DEF SameDetails
<1>2. /\ Len(ds) \in Nat /\ Len(ds2) = Len(ds) /\ ds2 \in Seq(V \cup {c}) /\ ds2[i0] = c
      /\ \A i \in 1..Len(ds) : i # i0 => ds2[i] = ds[i]
  <2>1. ds \in [1..Len(ds) -> V] /\ Len(ds) \in Nat
    BY <1>1, LenProperties
  <2>2. /\ ds2 \in [1..Len(ds) -> V \cup {c}] /\ ds2[i0] = c
        /\ \A i \in 1..Len(ds) : i # i0 => ds2[i] = ds[i]
    BY <2>1 DEF PutAt
  <2> HIDE DEF ds2
  <2> QED
    BY <2>1, <2>2
<1> HIDE DEF ds2
<1>3. ms2 = {ds2[i] : i \in 1..Len(ds2)}
  <2>1. ms = {ds[i] : i \in 1..Len(ds)} /\ \A i, j \in 1..Len(ds) : ds[j].index = ds[i].index => j = i
    BY DEF SameDetails
  <2>2. \A i \in 1..Len(ds) : ds2[i] = IF ds[i] = ds[i0] THEN c ELSE ds[i]
    BY <1>2, <2>1
  <2>3. ASSUME NEW y \in ms2 PROVE \E i \in 1..Len(ds2) : y = ds2[i]
    <3>1. PICK x \in ms : y = IF x = ds[i0] THEN c ELSE x
      BY DEF PutFor
    <3>2. PICK i \in 1..Len(ds) : x = ds[i]
      BY <2>1
    <3> QED
      BY <1>2, <2>2, <3>1, <3>2
  <2>4. ASSUME NEW i \in 1..Len(ds2) PROVE ds2[i] \in ms2
    <3>1. ds[i] \in ms
      BY <1>2, <2>1
    <3> QED
      BY <1>2, <2>2, <3>1 DEF PutFor
  <2> QED
    BY <2>3, <2>4
<1> HIDE DEF ms2
<1>4. ASSUME NEW i \in 1..Len(ds2)
      PROVE  /\ IsDetail(ds2[i]) /\ ds2[i].attempt = 1
             /\ \E p \in 1..k : Started(E, p, n) /\ E[p].index = ds2[i].index
             /\ ds2[i].outputs # 0 => \E p \in 1..k : Completed(E, p, n) /\ E[p].index = ds2[i].index
             /\ ds2[i].error # 0 => \E p \in 1..k : Failed(E, p, n)
             /\ \A j \in 1..Len(ds2) : ds2[j].index = ds2[i].index => j = i
  <2>0. 1..(k - 1) \subseteq 1..k /\ \A j \in 1..Len(ds) : ds2[j].index = ds[j].index
    BY <1>2
  <2>1. \A j \in 1..Len(ds2) : ds2[j].index = ds2[i].index => j = i
    BY <1>2, <2>0 DEF SameDetails
  <2>2. \E p \in 1..k : Started(E, p, n) /\ E[p].index = ds2[i].index
    BY <1>2, <2>0 DEF SameDetails
  <2>3. CASE i = i0
    BY <1>2, <2>1, <2>2, <2>3
  <2>4. CASE i # i0
    BY <1>2, <2>0, <2>1, <2>2, <2>4 DEF SameDetails
  <2> QED
    BY <2>3, <2>4
<1>5. ASSUME NEW p \in 1..k, Started(E, p, n) PROVE \E i \in 1..Len(ds2) : ds2[i].index = E[p].index
  <2>1. p \in 1..(k - 1)
    BY <1>5
  <2>2. PICK i \in 1..Len(ds) : ds[i].index = E[p].index
    BY <1>5, <2>1 DEF SameDetails
  <2> QED
    BY <1>2, <2>2
<1>6. \E W : ds2 \in Seq(W)
  BY <1>2
<1>7. SameDetails(E, n, k, ds2, ms2)
  BY <1>3, <1>4, <1>5, <1>6 DEF SameDetails
<1> QED
  BY <1>7 DEF ds2, ms2

\* A completion goes to the one attempt of its instance, in the list and in the map.
LEMMA SameAfterCompletion ==
  ASSUME NEW E, NEW n, Orderly(E, n), Len(E) \in Nat, NEW k \in 1..Len(E), NEW ds, NEW ms,
         SameDetails(E, n, k - 1, ds, ms), Completed(E, k, n)
  PROVE  SameDetails(E, n, k, detail_step(n, ds, E[k]), mem_detail_step(n, ms, E[k]))
<1> DEFINE e == E[k]
           ks == {i \in Unfinished(ds) : ds[i].index = e.index}
<1>0. ~Started(E, k, n) /\ ~Failed(E, k, n) /\ e.kind = "NodeCompleted" /\ e.node = n /\ k \in Nat /\ k # 0
      /\ 1..(k - 1) \subseteq 1..Len(E) /\ 1..(k - 1) \subseteq 1..k /\ k \notin 1..(k - 1)
  BY DEF Completed, Started, Failed, IsOf
<1>1. PICK q \in 1..(k - 1) : Started(E, q, n) /\ E[q].index = e.index
  BY DEF Orderly
<1>2. PICK i0 \in 1..Len(ds) : ds[i0].index = e.index
  BY <1>1 DEF SameDetails
<1>3. DOMAIN ds = 1..Len(ds)
  <2>1. PICK V : ds \in Seq(V)
    BY DEF SameDetails
  <2> QED
    BY <2>1
<1>4. ds[i0].outputs = 0 /\ ds[i0].error = 0 /\ IsDetail(ds[i0]) /\ ds[i0].attempt = 1
  <2>1. ASSUME ds[i0].outputs # 0 PROVE FALSE
    <3>1. PICK p \in 1..(k - 1) : Completed(E, p, n) /\ E[p].index = e.index
      BY <1>2, <2>1 DEF SameDetails
    <3>2. p \in 1..Len(E) /\ p # k
      BY <1>0
    <3> QED
      BY <3>1, <3>2 DEF Orderly
  <2>2. ASSUME ds[i0].error # 0 PROVE FALSE
    <3>1. PICK p \in 1..(k - 1) : Failed(E, p, n)
      BY <2>2 DEF SameDetails
    <3>2. p \in 1..Len(E) /\ p # k
      BY <1>0
    <3> QED
      BY <3>1, <3>2 DEF Orderly
  <2> QED
    BY <2>1, <2>2 DEF SameDetails
<1>5. ks = {i0}
  <2>1. i0 \in ks
    BY <1>2, <1>3, <1>4 DEF Unfinished
  <2>2. \A i \in ks : i = i0
    BY <1>2, <1>3 DEF Unfinished, SameDetails
  <2> QED
    BY <2>1, <2>2
<1>6. Latest({i0}) = i0
  BY DEF Latest
<1> DEFINE c == [ds[i0] EXCEPT !.outputs = e.seq]
           ds2 == PutAt(ds, i0, c)
           ms2 == PutFor(ms, ds[i0], c)
<1>7. IsDetail(c) /\ c.attempt = 1 /\ c.index = ds[i0].index /\ c.outputs = e.seq /\ c.error = 0
  <2> DEFINE d0 == ds[i0]
  <2>1. IsDetail(d0) /\ d0.attempt = 1 /\ d0.error = 0
    BY <1>4
  <2> HIDE DEF d0
  <2>2. LET x == [d0 EXCEPT !.outputs = e.seq] IN
          IsDetail(x) /\ x.attempt = d0.attempt /\ x.index = d0.index /\ x.outputs = e.seq /\ x.error = d0.error
    BY <2>1 DEF IsDetail
  <2> QED
    BY <2>1, <2>2 DEF d0
<1>8. detail_step(n, ds, e) = ds2
  <2>1. ks # {} /\ Latest(ks) = i0
    BY <1>5, <1>6
  <2>2. detail_step(n, ds, e) = IF ks = {} THEN ds ELSE [ds EXCEPT ![Latest(ks)].outputs = e.seq]
    BY <1>0 DEF detail_step, IsOf
  <2> HIDE DEF ks
  <2> QED
    BY <2>1, <2>2 DEF PutAt
<1>9. mem_detail_step(n, ms, e) = ms2
  <2>1. mem_detail_step(n, ms, e) = {IF d.index = e.index THEN [d EXCEPT !.outputs = e.seq] ELSE d : d \in ms}
    BY <1>0 DEF mem_detail_step, IsOf
  <2>2. \A x \in ms : x.index = e.index <=> x = ds[i0]
    BY <1>2 DEF SameDetails
  <2>3. \A x \in ms : (IF x.index = e.index THEN [x EXCEPT !.outputs = e.seq] ELSE x) = (IF x = ds[i0] THEN c ELSE x)
    BY <2>2
  <2> DEFINE A(x) == IF x.index = e.index THEN [x EXCEPT !.outputs = e.seq] ELSE x
             B(x) == IF x = ds[i0] THEN c ELSE x
  <2>4. mem_detail_step(n, ms, e) = {A(x) : x \in ms} /\ ms2 = {B(x) : x \in ms} /\ \A x \in ms : A(x) = B(x)
    BY <2>1, <2>3 DEF PutFor
  <2> HIDE DEF c, A, B, ms2
  <2> QED
    BY <2>4
<1> HIDE DEF c
<1>10. c.outputs # 0 => \E p \in 1..k : Completed(E, p, n) /\ E[p].index = c.index
  BY <1>0, <1>2, <1>7
<1>11. SameDetails(E, n, k, ds2, ms2)
  BY <1>0, <1>7, <1>10, SameAfterEnd
<1> QED
  BY <1>8, <1>9, <1>11

\* A failure goes to the one attempt of the node, in the list and in the map.
LEMMA SameAfterFailure ==
  ASSUME NEW E, NEW n, Orderly(E, n), Len(E) \in Nat, NEW k \in 1..Len(E), NEW ds, NEW ms,
         SameDetails(E, n, k - 1, ds, ms), Failed(E, k, n)
  PROVE  SameDetails(E, n, k, detail_step(n, ds, E[k]), mem_detail_step(n, ms, E[k]))
<1> DEFINE e == E[k]
           ks == Unfinished(ds)
<1>0. ~Started(E, k, n) /\ ~Completed(E, k, n) /\ e.kind = "NodeFailed" /\ e.node = n /\ k \in Nat /\ k # 0
      /\ 1..(k - 1) \subseteq 1..Len(E) /\ 1..(k - 1) \subseteq 1..k /\ k \notin 1..(k - 1)
  BY DEF Completed, Started, Failed, IsOf
<1>1. /\ e.attempt = 1 /\ (\E q \in 1..(k - 1) : Started(E, q, n))
      /\ \A q \in 1..Len(E) : Started(E, q, n) => E[q].index = 0
      /\ \A q \in 1..Len(E) : Completed(E, q, n) \/ Failed(E, q, n) => q = k
  BY DEF Orderly
<1>2. PICK q \in 1..(k - 1) : Started(E, q, n) /\ E[q].index = 0
  BY <1>0, <1>1
<1>3. PICK i0 \in 1..Len(ds) : ds[i0].index = 0
  BY <1>2 DEF SameDetails
<1>4. DOMAIN ds = 1..Len(ds)
  <2>1. PICK V : ds \in Seq(V)
    BY DEF SameDetails
  <2> QED
    BY <2>1
<1>5. \A i \in 1..Len(ds) : ds[i].index = 0 /\ ds[i].attempt = 1 /\ i = i0
  <2> SUFFICES ASSUME NEW i \in 1..Len(ds) PROVE ds[i].index = 0 /\ ds[i].attempt = 1 /\ i = i0
    OBVIOUS
  <2>1. ds[i].attempt = 1
    BY DEF SameDetails
  <2>2. PICK p \in 1..(k - 1) : Started(E, p, n) /\ E[p].index = ds[i].index
    BY DEF SameDetails
  <2>3. p \in 1..Len(E)
    BY <1>0
  <2>4. ds[i].index = 0
    BY <1>1, <2>2, <2>3
  <2>5. i = i0
    BY <1>3, <2>4 DEF SameDetails
  <2> QED
    BY <2>1, <2>4, <2>5
<1>6. ds[i0].outputs = 0 /\ ds[i0].error = 0 /\ IsDetail(ds[i0])
  <2>1. ASSUME ds[i0].outputs # 0 PROVE FALSE
    <3>1. PICK p \in 1..(k - 1) : Completed(E, p, n)
      BY <2>1 DEF SameDetails
    <3> QED
      BY <1>0, <1>1, <3>1
  <2>2. ASSUME ds[i0].error # 0 PROVE FALSE
    <3>1. PICK p \in 1..(k - 1) : Failed(E, p, n)
      BY <2>2 DEF SameDetails
    <3> QED
      BY <1>0, <1>1, <3>1
  <2> QED
    BY <2>1, <2>2 DEF SameDetails
<1>7. ks = {i0}
  BY <1>4, <1>5, <1>6 DEF Unfinished
<1>8. Latest({i0}) = i0
  BY DEF Latest
<1> DEFINE c == [ds[i0] EXCEPT !.error = e.seq]
           ds2 == PutAt(ds, i0, c)
           ms2 == PutFor(ms, ds[i0], c)
<1>9. IsDetail(c) /\ c.attempt = 1 /\ c.index = ds[i0].index /\ c.outputs = 0 /\ c.error = e.seq
  <2> DEFINE d0 == ds[i0]
  <2>1. IsDetail(d0) /\ d0.attempt = 1 /\ d0.outputs = 0
    BY <1>5, <1>6
  <2> HIDE DEF d0
  <2>2. LET x == [d0 EXCEPT !.error = e.seq] IN
          IsDetail(x) /\ x.attempt = d0.attempt /\ x.index = d0.index /\ x.outputs = d0.outputs /\ x.error = e.seq
    BY <2>1 DEF IsDetail
  <2> QED
    BY <2>1, <2>2 DEF d0
<1>10. detail_step(n, ds, e) = ds2
  <2>1. ks # {} /\ Latest(ks) = i0
    BY <1>7, <1>8
  <2>2. detail_step(n, ds, e) = IF ks = {} THEN ds ELSE [ds EXCEPT ![Latest(ks)].error = e.seq]
    BY <1>0 DEF detail_step, IsOf
  <2> HIDE DEF ks
  <2> QED
    BY <2>1, <2>2 DEF PutAt
<1>11. mem_detail_step(n, ms, e) = ms2
  <2>1. mem_detail_step(n, ms, e)
          = {IF d.attempt = e.attempt /\ d.index = 0 THEN [d EXCEPT !.error = e.seq] ELSE d : d \in ms}
    BY <1>0 DEF mem_detail_step, IsOf
  <2>2. \A x \in ms : x = ds[i0] /\ x.attempt = e.attempt /\ x.index = 0
    BY <1>1, <1>5 DEF SameDetails
  <2>3. \A x \in ms : (IF x.attempt = e.attempt /\ x.index = 0 THEN [x EXCEPT !.error = e.seq] ELSE x)
                       = (IF x = ds[i0] THEN c ELSE x)
    BY <2>2
  <2> DEFINE A(x) == IF x.attempt = e.attempt /\ x.index = 0 THEN [x EXCEPT !.error = e.seq] ELSE x
             B(x) == IF x = ds[i0] THEN c ELSE x
  <2>4. mem_detail_step(n, ms, e) = {A(x) : x \in ms} /\ ms2 = {B(x) : x \in ms} /\ \A x \in ms : A(x) = B(x)
    BY <2>1, <2>3 DEF PutFor
  <2> HIDE DEF c, A, B, ms2
  <2> QED
    BY <2>4
<1> HIDE DEF c
<1>12. k \in 1..k
  BY <1>0
<1>13. SameDetails(E, n, k, ds2, ms2)
  BY <1>0, <1>9, <1>12, SameAfterEnd
<1> QED
  BY <1>10, <1>11, <1>13

\* The two folds find the same attempts.
LEMMA DetailsSame ==
  ASSUME NEW n, NEW U, NEW E \in Seq(U), Orderly(E, n)
  PROVE  MemDetail(E, n) = ToSet(extract_node_detail(E, n))
<1>0. Len(E) \in Nat
  OBVIOUS
<1>1. PICK g : /\ g[0] = << >>
               /\ \A k \in 1..Len(E) : g[k] = detail_step(n, g[k - 1], E[k])
               /\ extract_node_detail(E, n) = g[Len(E)]
  BY DetailFold
<1>2. PICK m : /\ m[0] = {}
               /\ \A k \in 1..Len(E) : m[k] = mem_detail_step(n, m[k - 1], E[k])
               /\ MemDetail(E, n) = m[Len(E)]
  BY MemDetailFold
<1> DEFINE bad == {k \in 0..Len(E) : ~SameDetails(E, n, k, g[k], m[k])}
<1>3. bad = {}
  <2> SUFFICES ASSUME bad # {} PROVE FALSE
    OBVIOUS
  <2>1. PICK k \in bad : \A x \in bad : k <= x
    <3>1. bad \subseteq Nat
      BY <1>0
    <3> HIDE DEF bad
    <3> QED
      BY <3>1, LeastOf
  <2>2. k \in 0..Len(E) /\ ~SameDetails(E, n, k, g[k], m[k])
    OBVIOUS
  <2>3. CASE k = 0
    <3>1. << >> \in Seq({}) /\ Len(<< >>) = 0 /\ 1..0 = {}
      OBVIOUS
    <3>2. SameDetails(E, n, 0, << >>, {})
      BY <3>1 DEF SameDetails
    <3> QED
      BY <1>1, <1>2, <2>2, <2>3, <3>2
  <2>4. CASE k # 0
    <3>1. k \in 1..Len(E) /\ k - 1 \in 0..Len(E) /\ ~(k <= k - 1)
      BY <1>0, <2>2, <2>4
    <3>2. k - 1 \notin bad
      <4> HIDE DEF bad
      <4> QED
        BY <2>1, <3>1
    <3>3. SameDetails(E, n, k - 1, g[k - 1], m[k - 1])
      BY <3>1, <3>2
    <3>4. g[k] = detail_step(n, g[k - 1], E[k]) /\ m[k] = mem_detail_step(n, m[k - 1], E[k])
      BY <1>1, <1>2, <3>1
    <3> DEFINE ds == g[k - 1]
               ms == m[k - 1]
    <3> HIDE DEF ds, ms, bad
    <3>5. SameDetails(E, n, k - 1, ds, ms)
      BY <3>3 DEF ds, ms
    <3>6. SameDetails(E, n, k, detail_step(n, ds, E[k]), mem_detail_step(n, ms, E[k]))
      <4>1. CASE Started(E, k, n)
        BY <1>0, <3>1, <3>5, <4>1, SameAfterStart
      <4>2. CASE Completed(E, k, n)
        BY <1>0, <3>1, <3>5, <4>2, SameAfterCompletion
      <4>3. CASE Failed(E, k, n)
        BY <1>0, <3>1, <3>5, <4>3, SameAfterFailure
      <4>4. CASE ~Started(E, k, n) /\ ~Completed(E, k, n) /\ ~Failed(E, k, n)
        <5>1. detail_step(n, ds, E[k]) = ds /\ mem_detail_step(n, ms, E[k]) = ms
          BY <4>4 DEF detail_step, mem_detail_step, Started, Completed, Failed
        <5>2. 1..(k - 1) \subseteq 1..k /\ \A p \in 1..k : p \in 1..(k - 1) \/ p = k
          BY <3>1
        <5>3. SameDetails(E, n, k, ds, ms)
          BY <3>5, <4>4, <5>2 DEF SameDetails
        <5> QED
          BY <5>1, <5>3
      <4> QED
        BY <4>1, <4>2, <4>3, <4>4
    <3> QED
      BY <2>2, <3>4, <3>6 DEF ds, ms
  <2> QED
    BY <2>3, <2>4
<1>4. SameDetails(E, n, Len(E), g[Len(E)], m[Len(E)])
  BY <1>0, <1>3
<1> DEFINE ds == g[Len(E)]
<1>5. MemDetail(E, n) = {ds[i] : i \in 1..Len(ds)} /\ \E V : ds \in Seq(V)
  BY <1>2, <1>4 DEF SameDetails
<1> HIDE DEF ds
<1>6. ToSet(ds) = {ds[i] : i \in 1..Len(ds)}
  <2>1. PICK V : ds \in Seq(V)
    BY <1>5
  <2> QED
    BY <2>1 DEF ToSet
<1> QED
  BY <1>1, <1>5, <1>6 DEF ds

\* The events acknowledged of a run, in order: an event is at the place of its number among them.
LEMMA AckedInOrder ==
  ASSUME RunInv, NEW r \in Runs
  PROVE  LET E == AckedOf(r) IN
         /\ E \in Seq(OfRun(acked, r)) /\ (\A e \in OfRun(acked, r) : \E p \in 1..Len(E) : E[p] = e)
         /\ ToSet(E) = OfRun(acked, r)
         /\ \A p, q \in 1..Len(E) : p < q <=> E[p].seq < E[q].seq
<1> DEFINE A == OfRun(acked, r)
           E == AckedOf(r)
<1>1. Distinguished(A) /\ IsFiniteSet(A) /\ Cardinality(A) \in Nat
  BY WrittenDistinguished, FS_CardinalityType DEF RunInv, Received, Distinguished
<1>2. E = Numbered(A)
  BY DEF AckedOf, OfRun
<1>3. Lists(E, SeqOrder(A), A)
  BY <1>1, <1>2, NumberedLists
<1> HIDE DEF E, A
<1>4. E \in Seq(A) /\ Len(E) = Cardinality(A) /\ DOMAIN E = 1..Len(E)
  BY <1>1, <1>3 DEF Lists
<1>5. \A e \in A : \E p \in 1..Len(E) : E[p] = e
  BY <1>3, <1>4 DEF Lists
<1>6. \A p, q \in 1..Len(E) : p < q <=> E[p].seq < E[q].seq
  <2> SUFFICES ASSUME NEW p \in 1..Len(E), NEW q \in 1..Len(E) PROVE p < q <=> E[p].seq < E[q].seq
    OBVIOUS
  <2>1. E[p] \in A /\ E[q] \in A
    BY <1>4
  <2>2. p < q <=> <<E[p], E[q]>> \in SeqOrder(A)
    BY <1>3, <1>4 DEF Lists
  <2> QED
    BY <2>1, <2>2 DEF SeqOrder
<1>7. ToSet(E) = A
  BY <1>4, <1>5 DEF ToSet
<1> QED
  BY <1>4, <1>5, <1>6, <1>7 DEF A, E

\* An event acknowledged, if it is no mark, is in the log at its number.
LEMMA AckedInLog ==
  ASSUME AllInv, NEW r \in Runs, NEW a \in OfRun(acked, r), a # Mark(r)
  PROVE  /\ Len(log[r]) \in Nat /\ a.seq \in 1..Len(log[r]) /\ log[r][a.seq] = a /\ EndFits(log[r], a.seq, a)
         /\ \A j \in 1..(a.seq - 1) : /\ log[r][j] \in Written(r) /\ log[r][j].seq = j /\ log[r][j].run = r
                                      /\ WellFormed(log[r][j])
                                      /\ Precedes(log[r][j], a) => log[r][j] \in OfRun(acked, r)
<1>1. PICK U : log[r] \in Seq(U)
  BY DEF AllInv, RunInv, LogNumbered
<1>2. a \in Written(r)
  BY WrittenDistinguished DEF AllInv, RunInv, Received, Handed
<1>3. PICK k \in 1..Len(log[r]) : a = log[r][k]
  BY <1>1, <1>2 DEF Written, ToSet
<1>4. \A j \in 1..Len(log[r]) : log[r][j].seq = j /\ log[r][j].run = r /\ EndFits(log[r], j, log[r][j])
  BY DEF AllInv, RunInv, LogNumbered, NodeInv, TraceOK
<1>5. Len(log[r]) \in Nat /\ a.seq \in 1..Len(log[r]) /\ log[r][a.seq] = a /\ EndFits(log[r], a.seq, a)
  BY <1>1, <1>3, <1>4
<1>6. ASSUME NEW j \in 1..(a.seq - 1)
      PROVE  /\ log[r][j] \in Written(r) /\ log[r][j].seq = j /\ log[r][j].run = r /\ WellFormed(log[r][j])
             /\ Precedes(log[r][j], a) => log[r][j] \in OfRun(acked, r)
  <2>1. j \in 1..Len(log[r])
    BY <1>5
  <2>2. log[r][j] \in Written(r)
    BY <1>1, <2>1 DEF Written, ToSet
  <2>3. log[r][j].seq = j /\ log[r][j].run = r /\ WellFormed(log[r][j])
    BY <1>4, <2>1 DEF EndFits
  <2> QED
    BY <2>2, <2>3 DEF AllInv, Closed, OfRun
<1> QED
  BY <1>5, <1>6

\* An end that was acknowledged has its start acknowledged, and no other end between the two.
LEMMA MatchingStart ==
  ASSUME AllInv, NEW r \in Runs, NEW n \in Nodes, NEW i \in Instances(n), NEW a \in OfRun(acked, r), Ends(a, n, i)
  PROVE  \E b \in OfRun(acked, r) :
           /\ Starts(b, n, i) /\ b.seq < a.seq /\ (a.kind = "NodeFailed" => b.attempt = a.attempt)
           /\ \A x \in OfRun(acked, r) : b.seq < x.seq /\ x.seq < a.seq => ~Ends(x, n, i)
<1> DEFINE s == log[r]
<1>0. a # Mark(r)
  BY DEF Ends, Mark
<1>1. Len(s) \in Nat /\ a.seq \in 1..Len(s) /\ s[a.seq] = a /\ EndFits(s, a.seq, a)
  BY <1>0, AckedInLog
<1>2. PICK j \in 1..(a.seq - 1) : OpenFrom(s, j, a.seq, n, i) /\ (a.kind = "NodeFailed" => s[j].attempt = a.attempt)
  BY <1>1 DEF EndFits
<1>3. /\ s[j].seq = j /\ WellFormed(s[j]) /\ (Precedes(s[j], a) => s[j] \in OfRun(acked, r))
      /\ Starts(s[j], n, i) /\ \A p \in (j + 1)..(a.seq - 1) : ~Ends(s[p], n, i)
  BY <1>0, <1>2, AckedInLog DEF OpenFrom
<1>4. Precedes(s[j], a)
  <2>1. s[j].seq < a.seq
    BY <1>1, <1>3
  <2>2. CASE a.kind = "NodeFailed"
    BY <2>1, <2>2 DEF Precedes
  <2>3. CASE a.kind # "NodeFailed"
    <3>1. a.kind = "NodeCompleted" /\ a.node = n /\ a.index = i
      BY <2>3 DEF Ends
    <3>2. "index" \in DOMAIN a /\ "index" \in DOMAIN s[j] /\ s[j].node = n /\ s[j].index = i
      BY <1>1, <1>3, <3>1 DEF EndFits, WellFormed, Starts
    <3>3. Task(a) = Task(s[j])
      BY <3>1, <3>2 DEF Task
    <3> QED
      BY <2>1, <3>3 DEF Precedes
  <2> QED
    BY <2>2, <2>3
<1>5. ASSUME NEW x \in OfRun(acked, r), j < x.seq, x.seq < a.seq PROVE ~Ends(x, n, i)
  <2>1. CASE x = Mark(r)
    BY <2>1 DEF Ends, Mark
  <2>2. CASE x # Mark(r)
    <3>1. x.seq \in 1..Len(s) /\ s[x.seq] = x
      BY <2>2, AckedInLog
    <3>2. x.seq \in (j + 1)..(a.seq - 1)
      BY <1>1, <1>5, <3>1
    <3> QED
      BY <1>3, <3>1, <3>2
  <2> QED
    BY <2>1, <2>2
<1>6. s[j].seq < a.seq /\ s[j] \in OfRun(acked, r)
  BY <1>1, <1>3, <1>4
<1> QED
  BY <1>2, <1>3, <1>5, <1>6

\* A node that ran as Simple says has its events in order.
LEMMA SimpleIsOrderly ==
  ASSUME AllInv, RunStoresAssumption, NEW r \in Runs, NEW n \in Nodes, Simple(AckedOf(r), n)
  PROVE  Orderly(AckedOf(r), n)
<1> DEFINE A == OfRun(acked, r)
           E == AckedOf(r)
           St(e) == IsOf(e, "NodeStarted", n)
           Co(e) == IsOf(e, "NodeCompleted", n)
           Fa(e) == IsOf(e, "NodeFailed", n)
<1>1. /\ E \in Seq(A) /\ Len(E) \in Nat /\ (\A p \in 1..Len(E) : E[p] \in A)
      /\ (\A e \in A : \E p \in 1..Len(E) : E[p] = e) /\ ToSet(E) = A
      /\ \A p, q \in 1..Len(E) : p < q <=> E[p].seq < E[q].seq
  <2>1. /\ E \in Seq(A) /\ (\A e \in A : \E p \in 1..Len(E) : E[p] = e) /\ ToSet(E) = A
        /\ \A p, q \in 1..Len(E) : p < q <=> E[p].seq < E[q].seq
    BY AckedInOrder DEF AllInv
  <2> HIDE DEF E, A
  <2>2. Len(E) \in Nat /\ \A p \in 1..Len(E) : E[p] \in A
    BY <2>1
  <2> QED
    BY <2>1, <2>2
<1>2. \A a \in A : a.seq \in Nat /\ a.seq # 0 /\ WellFormed(a)
  <2>1. \A a \in A : a.seq \in Nat /\ a.seq # 0
    BY WrittenDistinguished DEF AllInv, RunInv, Received
  <2>2. \A a \in A : a # Mark(r) => WellFormed(a)
    BY AckedInLog DEF EndFits
  <2>3. WellFormed(Mark(r))
    BY DEF WellFormed, Mark
  <2> QED
    BY <2>1, <2>2, <2>3
<1>3. /\ \A e \in A : St(e) => e.attempt = 1 /\ \A f \in A : St(f) /\ f.index = e.index => f = e
      /\ (\E f \in A : Fa(f)) => \A e \in A : St(e) => e.index = 0
  <2> HIDE DEF A, E
  <2> QED
    BY <1>1 DEF Simple, A, E
<1> HIDE DEF A, E
<1>4. ASSUME NEW i \in Instances(n), NEW a \in A, Ends(a, n, i)
      PROVE  \E b \in A : /\ St(b) /\ b.index = i /\ b.seq < a.seq /\ (a.kind = "NodeFailed" => b.attempt = a.attempt)
                          /\ \A x \in A : b.seq < x.seq /\ x.seq < a.seq => ~Ends(x, n, i)
  <2>1. PICK b \in A : /\ Starts(b, n, i) /\ b.seq < a.seq /\ (a.kind = "NodeFailed" => b.attempt = a.attempt)
                       /\ \A x \in A : b.seq < x.seq /\ x.seq < a.seq => ~Ends(x, n, i)
    BY <1>4, MatchingStart DEF A
  <2> QED
    BY <2>1 DEF Starts, IsOf
<1>5. ASSUME NEW i \in Instances(n), NEW a \in A, NEW c \in A, Ends(a, n, i), Ends(c, n, i), a.seq < c.seq PROVE FALSE
  <2>1. PICK b \in A : St(b) /\ b.index = i /\ b.seq < a.seq
    BY <1>4, <1>5
  <2>2. PICK d \in A : St(d) /\ d.index = i /\ \A x \in A : d.seq < x.seq /\ x.seq < c.seq => ~Ends(x, n, i)
    BY <1>4, <1>5
  <2>3. b = d
    BY <1>3, <2>1, <2>2
  <2> QED
    BY <1>5, <2>1, <2>2, <2>3
<1>6. ASSUME NEW i \in Instances(n), NEW p \in 1..Len(E), NEW q \in 1..Len(E), Ends(E[p], n, i), Ends(E[q], n, i)
      PROVE  p = q
  <2>1. E[p] \in A /\ E[q] \in A
    BY <1>1
  <2>2. ~(E[p].seq < E[q].seq) /\ ~(E[q].seq < E[p].seq)
    BY <1>5, <1>6, <2>1
  <2>3. ~(p < q) /\ ~(q < p)
    BY <1>1, <2>2
  <2> QED
    BY <1>1, <2>3
<1>7. \A a \in A : Co(a) => a.index \in Instances(n) /\ Ends(a, n, a.index)
  BY <1>2 DEF WellFormed, Ends, IsOf
<1>8. ASSUME NEW p \in 1..Len(E), Started(E, p, n)
      PROVE  E[p].attempt = 1 /\ \A q \in 1..Len(E) : Started(E, q, n) /\ E[q].index = E[p].index => q = p
  <2>1. E[p] \in A /\ St(E[p])
    BY <1>1, <1>8 DEF Started
  <2>2. ASSUME NEW q \in 1..Len(E), Started(E, q, n), E[q].index = E[p].index PROVE q = p
    <3>1. E[q] \in A /\ St(E[q])
      BY <1>1, <2>2 DEF Started
    <3>2. E[q] = E[p] /\ E[p].seq \in Nat
      BY <1>2, <1>3, <2>1, <2>2, <3>1
    <3>3. ~(E[p].seq < E[q].seq) /\ ~(E[q].seq < E[p].seq)
      BY <3>2
    <3>4. ~(p < q) /\ ~(q < p)
      BY <1>1, <3>3
    <3> QED
      BY <1>1, <3>4
  <2> QED
    BY <1>3, <2>1, <2>2
<1>9. ASSUME NEW p \in 1..Len(E), NEW b \in A, b.seq < E[p].seq PROVE \E q \in 1..(p - 1) : E[q] = b
  <2>1. PICK q \in 1..Len(E) : E[q] = b
    BY <1>1
  <2>2. q < p
    BY <1>1, <1>9, <2>1
  <2>3. q \in 1..(p - 1)
    BY <1>1, <2>2
  <2> QED
    BY <2>1, <2>3
<1>10. ASSUME NEW p \in 1..Len(E), Completed(E, p, n)
       PROVE  /\ \E q \in 1..(p - 1) : Started(E, q, n) /\ E[q].index = E[p].index
              /\ \A q \in 1..Len(E) : Completed(E, q, n) /\ E[q].index = E[p].index => q = p
  <2>1. E[p] \in A /\ Co(E[p]) /\ E[p].index \in Instances(n) /\ Ends(E[p], n, E[p].index)
    BY <1>1, <1>7, <1>10 DEF Completed
  <2>2. PICK b \in A : St(b) /\ b.index = E[p].index /\ b.seq < E[p].seq
    BY <1>4, <2>1
  <2>3. PICK q \in 1..(p - 1) : E[q] = b
    BY <1>9, <2>2
  <2>4. ASSUME NEW x \in 1..Len(E), Completed(E, x, n), E[x].index = E[p].index PROVE x = p
    <3>1. Ends(E[x], n, E[p].index)
      BY <1>1, <1>7, <2>4 DEF Completed
    <3> QED
      BY <1>6, <2>1, <3>1
  <2>5. Started(E, q, n) /\ E[q].index = E[p].index
    BY <2>2, <2>3 DEF Started
  <2> QED
    BY <2>4, <2>5
<1>11. ASSUME NEW p \in 1..Len(E), Failed(E, p, n)
       PROVE  /\ E[p].attempt = 1 /\ (\E q \in 1..(p - 1) : Started(E, q, n))
              /\ \A q \in 1..Len(E) : Started(E, q, n) => E[q].index = 0
              /\ \A q \in 1..Len(E) : Completed(E, q, n) \/ Failed(E, q, n) => q = p
  <2> DEFINE a == E[p]
             s == log[r]
  <2>1. a \in A /\ Fa(a) /\ a.kind = "NodeFailed" /\ a.node = n
    BY <1>1, <1>11 DEF Failed, IsOf
  <2>2. \A e \in A : St(e) => e.index = 0
    BY <1>3, <2>1
  <2> HIDE DEF a
  <2>a. a # Mark(r)
    BY <2>1 DEF Mark
  <2>3. a.seq \in 1..Len(s) /\ EndFits(s, a.seq, a) /\ Len(s) \in Nat
    BY <2>1, <2>a, AckedInLog DEF A
  <2>4. PICK j \in 1..(a.seq - 1) : \E i \in Instances(n) : Starts(s[j], n, i)
    BY <2>1, <2>3 DEF EndFits
  <2>5. s[j].seq = j /\ (Precedes(s[j], a) => s[j] \in A)
    <3>1. a \in OfRun(acked, r)
      BY <2>1 DEF A
    <3>2. \A k \in 1..(a.seq - 1) : /\ s[k] \in Written(r) /\ s[k].seq = k /\ s[k].run = r /\ WellFormed(s[k])
                                    /\ Precedes(s[k], a) => s[k] \in OfRun(acked, r)
      <4>1. \A k \in 1..(a.seq - 1) : /\ log[r][k] \in Written(r) /\ log[r][k].seq = k /\ log[r][k].run = r
                                      /\ WellFormed(log[r][k])
                                      /\ Precedes(log[r][k], a) => log[r][k] \in OfRun(acked, r)
        BY <2>a, <3>1, AckedInLog, Zenon
      <4> QED
        BY <4>1, Zenon
    <3> HIDE DEF s
    <3>3. j \in 1..(a.seq - 1)
      OBVIOUS
    <3>4. s[j].seq = j /\ (Precedes(s[j], a) => s[j] \in OfRun(acked, r))
      BY ONLY <3>2, <3>3, Zenon
    <3> QED
      BY <3>4 DEF A
  <2>6. s[j] \in A
    <3>1. s[j].seq < a.seq
      BY <2>3, <2>5
    <3> QED
      BY <2>1, <2>5, <3>1 DEF Precedes
  <2>7. 0 \in Instances(n)
    BY <2>2, <2>4, <2>6 DEF Starts, IsOf
  <2>8. Instances(n) = {0} /\ n \in Plain
    BY <2>7 DEF Instances
  <2>9. Ends(a, n, 0)
    BY <2>1, <2>8 DEF Ends
  <2>10. PICK b \in A : St(b) /\ b.seq < a.seq /\ b.attempt = a.attempt
    BY <1>4, <2>1, <2>7, <2>9
  <2>11. PICK q \in 1..(p - 1) : E[q] = b
    BY <1>9, <2>10 DEF a
  <2>12. a.attempt = 1
    BY <1>3, <2>10
  <2>13. ASSUME NEW x \in 1..Len(E), Completed(E, x, n) \/ Failed(E, x, n) PROVE x = p
    <3>1. Ends(E[x], n, 0)
      <4>1. CASE Completed(E, x, n)
        <5>1. E[x] \in A /\ Co(E[x])
          BY <1>1, <4>1 DEF Completed
        <5>2. E[x].index \in Instances(n) /\ Ends(E[x], n, E[x].index)
          BY <1>7, <5>1
        <5>3. E[x].index = 0
          BY <2>8, <5>2
        <5> QED
          BY <5>2, <5>3
      <4>2. CASE Failed(E, x, n)
        BY <2>8, <4>2 DEF Failed, IsOf, Ends
      <4> QED
        BY <2>13, <4>1, <4>2
    <3> QED
      BY <1>6, <2>7, <2>9, <3>1 DEF a
  <2>14. \A x \in 1..Len(E) : Started(E, x, n) => E[x].index = 0
    BY <1>1, <2>2 DEF Started
  <2>15. Started(E, q, n)
    BY <2>10, <2>11 DEF Started
  <2> QED
    BY <2>12, <2>13, <2>14, <2>15 DEF a
<1>12. \A p \in 1..Len(E) : E[p].seq \in Nat /\ E[p].seq # 0
  BY <1>1, <1>2
<1>13. Orderly(E, n)
  BY <1>8, <1>10, <1>11, <1>12 DEF Orderly
<1> QED
  BY <1>13 DEF E

\* The stores answer alike, from what they hold and what the logs look like.
LEMMA BackendsFollow ==
  ASSUME RunStoresAssumption
  PROVE  AllInv => BackendsAgree
<1> SUFFICES ASSUME AllInv, Settled PROVE BackendsAgree
  BY DEF BackendsAgree
<1>0. Busy \subseteq Runs /\ RunInv
  BY DEF RunStoresAssumption, AllInv
<1>1. \A r \in Runs :
        /\ mem_events[r] = AckedOf(r) /\ file_read_events(r) = AckedOf(r) /\ mem_get_run(r) = file_get_run(r)
        /\ ToSet(sql_read_events(r)) = ToSet(AckedOf(r)) /\ Len(sql_read_events(r)) = Len(AckedOf(r))
        /\ ~Marked(r) => sql_read_events(r) = AckedOf(r) /\ sql_get_run(r) = file_get_run(r)
  BY <1>0, EventsAgree
<1>2. ASSUME NEW r \in Busy
      PROVE  /\ file_get_node_results(r) = mem_get_node_results(r)
             /\ file_get_edge_results(r) = mem_get_edge_results(r)
             /\ file_get_custom_events(r) = mem_get_custom_events(r)
             /\ file_get_llm_invocations(r) = mem_get_llm_invocations(r)
             /\ ~Marked(r) => /\ sql_get_node_results(r) = mem_get_node_results(r)
                              /\ sql_get_edge_results(r) = mem_get_edge_results(r)
                              /\ sql_get_custom_events(r) = mem_get_custom_events(r)
                              /\ sql_get_llm_invocations(r) = mem_get_llm_invocations(r)
  <2>1. /\ mem_events[r] = AckedOf(r) /\ file_read_events(r) = AckedOf(r)
        /\ ~Marked(r) => sql_read_events(r) = AckedOf(r)
    BY <1>0, <1>1
  <2>2. /\ file_get_node_results(r) = mem_get_node_results(r)
        /\ ~Marked(r) => sql_get_node_results(r) = mem_get_node_results(r)
    BY <2>1 DEF file_get_node_results, sql_get_node_results, mem_get_node_results, extract_node_results
  <2>3. /\ file_get_edge_results(r) = mem_get_edge_results(r)
        /\ ~Marked(r) => sql_get_edge_results(r) = mem_get_edge_results(r)
    BY <2>1 DEF file_get_edge_results, sql_get_edge_results, mem_get_edge_results, extract_edge_results
  <2>4. /\ file_get_custom_events(r) = mem_get_custom_events(r)
        /\ ~Marked(r) => sql_get_custom_events(r) = mem_get_custom_events(r)
    BY <2>1 DEF file_get_custom_events, sql_get_custom_events, mem_get_custom_events, extract_custom_events
  <2>5. /\ file_get_llm_invocations(r) = mem_get_llm_invocations(r)
        /\ ~Marked(r) => sql_get_llm_invocations(r) = mem_get_llm_invocations(r)
    BY <2>1 DEF file_get_llm_invocations, sql_get_llm_invocations, mem_get_llm_invocations, extract_llm_invocations
  <2> QED
    BY <2>2, <2>3, <2>4, <2>5
<1>3. ASSUME NEW r \in Busy, NEW n \in Nodes
      PROVE  /\ ~Marked(r) => sql_get_node_detail(r, n) = file_get_node_detail(r, n)
             /\ Simple(AckedOf(r), n) => mem_get_node_detail(r, n) = ToSet(file_get_node_detail(r, n))
  <2>1. /\ mem_events[r] = AckedOf(r) /\ file_read_events(r) = AckedOf(r)
        /\ ~Marked(r) => sql_read_events(r) = AckedOf(r)
    BY <1>0, <1>1
  <2>2. /\ file_get_node_detail(r, n) = extract_node_detail(AckedOf(r), n)
        /\ ~Marked(r) => sql_get_node_detail(r, n) = extract_node_detail(AckedOf(r), n)
    BY <2>1 DEF file_get_node_detail, sql_get_node_detail
  <2>3. mem_get_node_detail(r, n) = MemDetail(AckedOf(r), n)
    BY <2>1 DEF mem_get_node_detail, MemDetail
  <2>4. ASSUME Simple(AckedOf(r), n) PROVE MemDetail(AckedOf(r), n) = ToSet(extract_node_detail(AckedOf(r), n))
    <3>1. r \in Runs
      BY <1>0
    <3>2. Orderly(AckedOf(r), n)
      BY <2>4, <3>1, SimpleIsOrderly
    <3>3. AckedOf(r) \in Seq(OfRun(acked, r))
      BY <1>0, <3>1, AckedInOrder
    <3> QED
      BY <3>2, <3>3, DetailsSame
  <2> QED
    BY <2>2, <2>3, <2>4
<1>4. ASSUME NEW st \in Statuses \cup {"Running", "Interrupted"}
      PROVE  LET n == Cardinality(Runs)
                 filter == [status |-> st, flow |-> 1]
             IN /\ mem_list_runs(filter, n, 0) = file_list_runs(filter, n, 0)
                /\ (\A r \in Runs : ~Marked(r)) => sql_list_runs(filter, n, 0) = file_list_runs(filter, n, 0)
  <2> DEFINE filter == [status |-> st, flow |-> 1]
  <2>1. DOMAIN filter \cap {"flow", "status"} = DOMAIN filter \cap {"flow", "status", "version", "parent"}
    OBVIOUS
  <2> HIDE DEF filter
  <2>2. \A record : Admits(filter, record, {"flow", "status"}) <=> Admits(filter, record, {"flow", "status", "version", "parent"})
    BY <2>1 DEF Admits
  <2>3. mem_matching(filter) = file_matching(filter)
    BY <1>1, <2>2 DEF mem_matching, file_matching
  <2>4. (\A r \in Runs : ~Marked(r)) => sql_matching(filter) = file_matching(filter)
    BY <1>1 DEF file_matching, sql_matching
  <2> QED
    BY <2>3, <2>4 DEF mem_list_runs, file_list_runs, sql_list_runs, filter
<1> QED
  BY <1>1, <1>2, <1>3, <1>4 DEF BackendsAgree

\* The run stores agree, with any number of runs, nodes and events: whatever order the batches
\* came in and however often one was written again, memory and files answer alike (the queries
\* of BackendsAgree), marked runs included; the database has the same events and answers alike
\* about the runs that were not marked interrupted.
THEOREM RunStoresAgree == RunsSpec => []BackendsAgree
<1>1. RunsSpec => []AllInv
  BY RunStoresAssumption, AllInvHolds
<1>2. AllInv => BackendsAgree
  BY RunStoresAssumption, BackendsFollow
<1> QED
  BY <1>1, <1>2, PTL
==========================================================================
