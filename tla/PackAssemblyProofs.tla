-------------------------- MODULE PackAssemblyProofs --------------------------
(***************************************************************************)
(* Proofs about receiving a file list, for every size of the ring buffer   *)
(* and every number of packs: the range handler and the ring always agree  *)
(* on what has been received, and the two of them implement the ledger.    *)
(***************************************************************************)
EXTENDS PackAssembly, TLAPS

-----------------------------------------------------------------------------
(* Sequences.                                                              *)

LEMMA NothingAdded ==
  ASSUME NEW x
  PROVE  <<x>> \o <<>> = <<x>> /\ <<>> \o <<x>> = <<x>>
  OBVIOUS

LEMMA PairOfTwo ==
  ASSUME NEW x, NEW y
  PROVE  <<x>> \o <<y>> = <<x, y>>
<1> DEFINE s == <<x>> \o <<y>>
<1>1. s \in Seq({x, y}) /\ Len(s) = 2 /\ s[1] = x /\ s[2] = y
  OBVIOUS
<1> HIDE DEF s
<1>2. s = <<x, y>>
  BY <1>1
<1> QED
  BY <1>2 DEF s

\* What erasing element i of a vector and inserting others in its place gives.
LEMMA Splice ==
  ASSUME NEW S, NEW s \in Seq(S), NEW t \in Seq(S), NEW i \in 1 .. Len(s)
  PROVE  LET u == SubSeq(s, 1, i - 1) \o t \o SubSeq(s, i + 1, Len(s)) IN
           /\ u \in Seq(S) /\ Len(u) = Len(s) - 1 + Len(t)
           /\ \A j \in 1 .. i - 1 : u[j] = s[j]
           /\ \A j \in 1 .. Len(t) : u[i - 1 + j] = t[j]
           /\ \A j \in i + 1 .. Len(s) : u[j + Len(t) - 1] = s[j]
<1> DEFINE a == SubSeq(s, 1, i - 1)
           c == SubSeq(s, i + 1, Len(s))
           b == a \o t
<1>1. a \in Seq(S) /\ Len(a) = i - 1 /\ \A j \in 1 .. i - 1 : a[j] = s[j]
  OBVIOUS
<1>2. /\ c \in Seq(S) /\ Len(c) = Len(s) - i
      /\ \A j \in 1 .. Len(s) - i : c[j] = s[i + j]
  OBVIOUS
<1> HIDE DEF a, c
<1>3. /\ b \in Seq(S) /\ Len(b) = i - 1 + Len(t)
      /\ \A j \in 1 .. i - 1 : b[j] = s[j]
      /\ \A j \in 1 .. Len(t) : b[i - 1 + j] = t[j]
  BY <1>1
<1> HIDE DEF b
<1>4. /\ b \o c \in Seq(S) /\ Len(b \o c) = Len(b) + Len(c)
      /\ \A j \in 1 .. Len(b) : (b \o c)[j] = b[j]
      /\ \A j \in 1 .. Len(c) : (b \o c)[Len(b) + j] = c[j]
  <2>1. b \in Seq(S) /\ c \in Seq(S)
    BY <1>2, <1>3
  <2> QED
    BY <2>1
<1>5. b \o c \in Seq(S) /\ Len(b \o c) = Len(s) - 1 + Len(t)
  BY <1>2, <1>3, <1>4
<1>6. /\ \A j \in 1 .. i - 1 : (b \o c)[j] = s[j]
      /\ \A j \in 1 .. Len(t) : (b \o c)[i - 1 + j] = t[j]
  BY <1>3, <1>4
<1>7. \A j \in i + 1 .. Len(s) : (b \o c)[j + Len(t) - 1] = s[j]
  <2> TAKE j \in i + 1 .. Len(s)
  <2>1. j - i \in 1 .. Len(c)
    BY <1>2
  <2>2. (b \o c)[Len(b) + (j - i)] = c[j - i]
    BY <2>1, <1>4
  <2>3. Len(b) + (j - i) = j + Len(t) - 1 /\ i + (j - i) = j
    BY <1>3
  <2>4. c[j - i] = s[i + (j - i)]
    BY <2>1, <1>2
  <2> QED
    BY <2>2, <2>3, <2>4
<1> QED
  BY <1>5, <1>6, <1>7 DEF a, b, c

-----------------------------------------------------------------------------
(* The range handler.                                                      *)

\* The ranges of a handler: no two overlap, and all are below its next pack.
RangesWell(h) ==
  /\ \A i, j \in 1 .. Len(h.ranges) :
       i # j => PacksOf(h.ranges[i]) \cap PacksOf(h.ranges[j]) = {}
  /\ \A i \in 1 .. Len(h.ranges) :
       h.ranges[i].seq + h.ranges[i].length <= h.last

\* A range without one of its packs falls into at most two that are apart.
LEMMA SplitPacks ==
  ASSUME NEW r \in RangeType, NEW n \in PacksOf(r)
  PROVE  /\ Split(r, n) \in Seq(RangeType)
         /\ \A m \in Nat : (\E j \in 1 .. Len(Split(r, n)) :
                               m \in PacksOf(Split(r, n)[j]))
                            <=> m \in PacksOf(r) /\ m # n
         /\ \A j, k \in 1 .. Len(Split(r, n)) :
              j # k => PacksOf(Split(r, n)[j]) \cap PacksOf(Split(r, n)[k]) = {}
         /\ \A j \in 1 .. Len(Split(r, n)) :
              /\ r.seq <= Split(r, n)[j].seq
              /\ Split(r, n)[j].seq + Split(r, n)[j].length <= r.seq + r.length
<1> DEFINE left  == Range(r.seq, n - r.seq)
           right == Range(n + 1, r.seq + r.length - n - 1)
<1>1. /\ n \in Nat /\ r.seq \in Nat /\ r.length \in Nat \ {0}
      /\ r.seq <= n /\ n < r.seq + r.length
  BY DEF RangeType, PacksOf
<1>2. /\ left.length = n - r.seq /\ left.seq = r.seq
      /\ right.length = r.seq + r.length - n - 1 /\ right.seq = n + 1
  BY DEF Range
<1>3. Split(r, n) = NonEmpty(right) \o NonEmpty(left)
  BY DEF Split
<1>4. /\ left.length > 0 => left \in RangeType
      /\ right.length > 0 => right \in RangeType
  BY <1>1 DEF RangeType, Range
<1> HIDE DEF left, right
<1>5. /\ NonEmpty(left) = IF left.length > 0 THEN <<left>> ELSE <<>>
      /\ NonEmpty(right) = IF right.length > 0 THEN <<right>> ELSE <<>>
  BY DEF NonEmpty
<1>6. CASE left.length > 0 /\ right.length > 0
  <2>1. Split(r, n) = <<right, left>>
    BY <1>3, <1>5, <1>6, PairOfTwo
  <2>2. <<right, left>> \in Seq(RangeType)
    BY <1>4, <1>6
  <2>3. /\ PacksOf(right) = n + 1 .. r.seq + r.length - 1
        /\ PacksOf(left) = r.seq .. n - 1
    <3>1. /\ right.seq + right.length - 1 = r.seq + r.length - 1
          /\ left.seq + left.length - 1 = n - 1
      BY <1>1, <1>2
    <3> QED
      BY <1>2, <3>1 DEF PacksOf
  <2>4. PacksOf(right) \cap PacksOf(left) = {}
    BY <1>1, <2>3
  <2>5. \A m \in Nat : m \in PacksOf(right) \/ m \in PacksOf(left)
                      <=> m \in PacksOf(r) /\ m # n
    <3> TAKE m \in Nat
    <3>1. m \in PacksOf(r) <=> r.seq <= m /\ m < r.seq + r.length
      BY <1>1 DEF PacksOf
    <3>2. m \in PacksOf(right) <=> n + 1 <= m /\ m < r.seq + r.length
      BY <1>1, <2>3
    <3>3. m \in PacksOf(left) <=> r.seq <= m /\ m < n
      BY <1>1, <2>3
    <3> QED
      BY <1>1, <3>1, <3>2, <3>3
  <2> QED
    BY <1>1, <1>2, <2>1, <2>2, <2>4, <2>5
<1>7. CASE left.length > 0 /\ ~(right.length > 0)
  <2>1. Split(r, n) = <<left>>
    BY <1>3, <1>5, <1>7, NothingAdded
  <2>2. <<left>> \in Seq(RangeType)
    BY <1>4, <1>7
  <2>3. \A m \in Nat : m \in PacksOf(left) <=> m \in PacksOf(r) /\ m # n
    BY <1>1, <1>2, <1>7 DEF PacksOf
  <2> QED
    BY <1>1, <1>2, <2>1, <2>2, <2>3
<1>8. CASE ~(left.length > 0) /\ right.length > 0
  <2>1. Split(r, n) = <<right>>
    BY <1>3, <1>5, <1>8, NothingAdded
  <2>2. <<right>> \in Seq(RangeType)
    BY <1>4, <1>8
  <2>3. \A m \in Nat : m \in PacksOf(right) <=> m \in PacksOf(r) /\ m # n
    BY <1>1, <1>2, <1>8 DEF PacksOf
  <2> QED
    BY <1>1, <1>2, <2>1, <2>2, <2>3
<1>9. CASE ~(left.length > 0) /\ ~(right.length > 0)
  <2>1. n = r.seq /\ r.length = 1
    BY <1>1, <1>2, <1>9
  <2>2. Split(r, n) = <<>>
    BY <1>3, <1>5, <1>9
  <2> QED
    BY <1>1, <2>1, <2>2 DEF PacksOf
<1> QED
  BY <1>6, <1>7, <1>8, <1>9

\* Pack n leaves the ranges, whichever holds it, and nothing else does.
LEMMA RemovedPack ==
  ASSUME NEW h \in HandlerType, RangesWell(h), NEW n \in Nat,
         NEW g, g = [h EXCEPT !.ranges = RemoveFromRanges(h.ranges, n)]
  PROVE  /\ g \in HandlerType /\ RangesWell(g)
         /\ \A m \in Nat : m \in MissingPacks(g) <=> m \in MissingPacks(h) /\ m # n
<1> DEFINE rs == h.ranges
           hits == {i \in 1 .. Len(rs) : n \in PacksOf(rs[i])}
<1>1. /\ rs \in Seq(RangeType) /\ h.last \in Nat
      /\ g = [ranges |-> RemoveFromRanges(rs, n), last |-> h.last]
  BY DEF HandlerType
<1>2. /\ \A i \in 1 .. Len(rs) : rs[i] \in RangeType
      /\ Len(rs) \in Nat
  BY <1>1
<1>3. CASE hits = {}
  <2>1. g = h
    BY <1>1, <1>3 DEF RemoveFromRanges, HandlerType
  <2>2. n \notin MissingPacks(h)
    BY <1>3 DEF MissingPacks
  <2> QED
    BY <2>1, <2>2
<1>4. CASE hits # {}
  <2>1. PICK i \in hits : TRUE
    BY <1>4
  <2>2. i \in 1 .. Len(rs) /\ n \in PacksOf(rs[i]) /\ rs[i] \in RangeType
    BY <2>1, <1>2
  <2>3. \A k \in hits : k = i
    BY <2>2 DEF RangesWell
  <2>4. (CHOOSE j \in hits : \A k \in hits : j <= k) = i
    BY <2>1, <2>2, <2>3
  <2> DEFINE t == Split(rs[i], n)
             u == SubSeq(rs, 1, i - 1) \o t \o SubSeq(rs, i + 1, Len(rs))
  <2>5. RemoveFromRanges(rs, n) = u
    BY <1>4, <2>4 DEF RemoveFromRanges
  <2>6. /\ t \in Seq(RangeType)
        /\ \A m \in Nat : (\E j \in 1 .. Len(t) : m \in PacksOf(t[j]))
                           <=> m \in PacksOf(rs[i]) /\ m # n
        /\ \A j, k \in 1 .. Len(t) : j # k => PacksOf(t[j]) \cap PacksOf(t[k]) = {}
        /\ \A j \in 1 .. Len(t) :
             t[j].seq + t[j].length <= rs[i].seq + rs[i].length
    BY <2>2, SplitPacks
  <2> HIDE DEF t, hits
  <2>7. /\ u \in Seq(RangeType) /\ Len(u) = Len(rs) - 1 + Len(t)
        /\ \A j \in 1 .. i - 1 : u[j] = rs[j]
        /\ \A j \in 1 .. Len(t) : u[i - 1 + j] = t[j]
        /\ \A j \in i + 1 .. Len(rs) : u[j + Len(t) - 1] = rs[j]
    <3>1. t \in Seq(RangeType) /\ rs \in Seq(RangeType) /\ i \in 1 .. Len(rs)
      BY <1>1, <2>2, <2>6
    <3> HIDE DEF rs
    <3> QED
      BY ONLY <3>1, Splice
  <2> HIDE DEF u
  <2>8. g.ranges = u /\ g.last = h.last /\ g \in HandlerType
    BY <1>1, <2>5, <2>7 DEF HandlerType
  <2>9. /\ Len(t) \in Nat /\ Len(rs) \in Nat /\ i \in Nat
        /\ 1 <= i /\ i <= Len(rs) /\ Len(u) = Len(rs) - 1 + Len(t)
    BY <1>2, <2>2, <2>6, <2>7
  \* The range an element of u comes from, and that it lies in it.
  <2> DEFINE From(a) == IF a < i THEN a
                        ELSE IF a < i + Len(t) THEN i ELSE a - Len(t) + 1
  <2>10. \A a \in 1 .. Len(u) :
           /\ From(a) \in 1 .. Len(rs)
           /\ From(a) # i => u[a] = rs[From(a)]
           /\ From(a) = i => a - i + 1 \in 1 .. Len(t) /\ u[a] = t[a - i + 1]
    <3> TAKE a \in 1 .. Len(u)
    <3>a. a \in Nat /\ 1 <= a /\ a <= Len(rs) - 1 + Len(t)
      BY <2>9
    <3>1. CASE a < i
      <4>1. a \in 1 .. i - 1 /\ a \in 1 .. Len(rs)
        BY <2>9, <3>1
      <4> QED
        BY <4>1, <2>7, <2>9, <3>1
    <3>2. CASE i <= a /\ a < i + Len(t)
      <4>1. a - i + 1 \in 1 .. Len(t) /\ i - 1 + (a - i + 1) = a
        BY <2>9, <3>2
      <4>2. u[a] = t[a - i + 1]
        BY <4>1, <2>7
      <4>3. From(a) = i
        BY <2>9, <3>2
      <4> QED
        BY <4>1, <4>2, <4>3, <2>2
    <3>3. CASE i + Len(t) <= a
      <4>1. /\ a - Len(t) + 1 \in i + 1 .. Len(rs)
            /\ (a - Len(t) + 1) + Len(t) - 1 = a
        BY ONLY <3>a, <2>9, <3>3
      <4>2. u[a] = rs[a - Len(t) + 1]
        BY <4>1, <2>7
      <4>3. /\ From(a) = a - Len(t) + 1
            /\ From(a) \in 1 .. Len(rs) /\ From(a) # i
        BY ONLY <4>1, <3>a, <2>9, <3>3
      <4> QED
        BY <4>2, <4>3
    <3> HIDE DEF From
    <3> QED
      BY <3>1, <3>2, <3>3, <2>9
  <2>11. \A a \in 1 .. Len(u) : u[a] \in RangeType
    BY <2>7
  <2>12. \A a \in 1 .. Len(u) : \A m \in PacksOf(u[a]) :
           m \in Nat /\ m \in PacksOf(rs[From(a)])
    <3> TAKE a \in 1 .. Len(u)
    <3> TAKE m \in PacksOf(u[a])
    <3>1. m \in Nat
      BY <2>11 DEF PacksOf, RangeType
    <3> QED
      BY <3>1, <2>6, <2>10
  <2>13. \A a \in 1 .. Len(u) :
           u[a].seq + u[a].length <= rs[From(a)].seq + rs[From(a)].length
    <3> TAKE a \in 1 .. Len(u)
    <3> HIDE DEF From
    <3>1. CASE From(a) = i
      BY <3>1, <2>6, <2>10
    <3>2. CASE From(a) # i
      <4>1. u[a] = rs[From(a)] /\ rs[From(a)] \in RangeType
        BY <3>2, <2>10, <1>2
      <4> QED
        BY <4>1 DEF RangeType
    <3> QED
      BY <3>1, <3>2
  <2>14. \A a, b \in 1 .. Len(u) : a # b => PacksOf(u[a]) \cap PacksOf(u[b]) = {}
    <3> SUFFICES ASSUME NEW a \in 1 .. Len(u), NEW b \in 1 .. Len(u), a # b,
                        NEW m \in PacksOf(u[a]), m \in PacksOf(u[b])
                 PROVE  FALSE
      OBVIOUS
    <3>1. m \in PacksOf(rs[From(a)]) /\ m \in PacksOf(rs[From(b)])
      BY <2>12
    <3>2. From(a) = From(b)
      BY <3>1, <2>10 DEF RangesWell
    <3>3. CASE From(a) = i
      <4>1. /\ a - i + 1 \in 1 .. Len(t) /\ u[a] = t[a - i + 1]
            /\ b - i + 1 \in 1 .. Len(t) /\ u[b] = t[b - i + 1]
        BY <3>2, <3>3, <2>10
      <4>2. a - i + 1 # b - i + 1
        BY <2>2
      <4> QED
        BY <4>1, <4>2, <2>6
    <3>4. CASE From(a) # i
      BY <3>2, <3>4, <2>2, <2>9
    <3> QED
      BY <3>3, <3>4
  <2>15. RangesWell(g)
    <3>1. \A a \in 1 .. Len(u) : u[a].seq + u[a].length <= h.last
      <4> TAKE a \in 1 .. Len(u)
      <4> HIDE DEF From
      <4>1. rs[From(a)] \in RangeType /\ u[a] \in RangeType
        BY <2>10, <2>11, <1>2
      <4>2. rs[From(a)].seq + rs[From(a)].length <= h.last
        BY <2>10 DEF RangesWell
      <4> QED
        BY <4>1, <4>2, <2>13, <1>1 DEF RangeType
    <3> QED
      BY <3>1, <2>8, <2>14 DEF RangesWell
  <2>16. ASSUME NEW m \in Nat
         PROVE  m \in MissingPacks(g) <=> m \in MissingPacks(h) /\ m # n
    <3>1. ASSUME m \in MissingPacks(g)
          PROVE  m \in MissingPacks(h) /\ m # n
      <4>1. PICK a \in 1 .. Len(u) : m \in PacksOf(u[a])
        BY <3>1, <2>8 DEF MissingPacks
      <4> HIDE DEF From, rs
      <4>2. /\ m \in PacksOf(rs[From(a)]) /\ From(a) \in 1 .. Len(rs)
            /\ From(a) # i => u[a] = rs[From(a)]
        BY <4>1, <2>10, <2>12
      <4>3. ASSUME From(a) = i PROVE m # n
        <5>1. \E k \in 1 .. Len(t) : m \in PacksOf(t[k])
          BY <4>1, <4>3, <2>10
        <5> QED
          BY <5>1, <2>6
      <4>4. ASSUME From(a) # i PROVE m # n
        <5>1. n \notin PacksOf(rs[From(a)])
          BY <4>2, <4>4, <2>2 DEF RangesWell, rs
        <5> QED
          BY <4>2, <5>1
      <4>5. m # n
        BY <4>3, <4>4
      <4> QED
        BY <4>2, <4>5 DEF MissingPacks, rs
    <3>2. ASSUME m \in MissingPacks(h), m # n
          PROVE  m \in MissingPacks(g)
      <4>1. PICK j \in 1 .. Len(rs) : m \in PacksOf(rs[j])
        BY <3>2 DEF MissingPacks
      <4> SUFFICES \E a \in 1 .. Len(u) : m \in PacksOf(u[a])
        BY <2>8 DEF MissingPacks
      <4>2. CASE j < i
        <5>1. j \in 1 .. i - 1 /\ j \in 1 .. Len(u)
          BY <4>1, <4>2, <2>9
        <5> QED
          BY <4>1, <5>1, <2>7
      <4>3. CASE j = i
        <5>1. PICK k \in 1 .. Len(t) : m \in PacksOf(t[k])
          BY <3>2, <4>1, <4>3, <2>6
        <5>2. u[i - 1 + k] = t[k]
          BY <5>1, <2>7
        <5>3. i - 1 + k \in 1 .. Len(u)
          BY <2>9
        <5> QED
          BY <5>1, <5>2, <5>3
      <4>4. CASE j > i
        <5>1. j \in i + 1 .. Len(rs) /\ j + Len(t) - 1 \in 1 .. Len(u)
          BY <4>1, <4>4, <2>9
        <5>2. u[j + Len(t) - 1] = rs[j]
          BY <5>1, <2>7
        <5> QED
          BY <4>1, <5>1, <5>2
      <4> QED
        BY <4>2, <4>3, <4>4, <2>9
    <3> QED
      BY <3>1, <3>2
  <2> QED
    BY <2>8, <2>15, <2>16
<1> QED
  BY <1>3, <1>4

\* AddSeqIndex notes pack n as received, unless it is beyond the limit, and
\* changes nothing else of what is known.
LEMMA AddedPack ==
  ASSUME NEW h \in HandlerType, RangesWell(h), NEW n \in Nat, NEW limit \in Nat,
         NEW g, g = AddSeqIndex(h, n, limit)
  PROVE  /\ g \in HandlerType /\ RangesWell(g)
         /\ ReceivedPacks(g) = IF n <= limit THEN ReceivedPacks(h) \cup {n}
                               ELSE ReceivedPacks(h)
         /\ g.last = IF n <= limit /\ h.last <= n THEN n + 1 ELSE h.last
<1>1. /\ h.ranges \in Seq(RangeType) /\ h.last \in Nat
      /\ h = [ranges |-> h.ranges, last |-> h.last]
  BY DEF HandlerType
<1>2. \A i \in 1 .. Len(h.ranges) :
        h.ranges[i].seq \in Nat /\ h.ranges[i].length \in Nat \ {0}
  <2>1. \A i \in 1 .. Len(h.ranges) : h.ranges[i] \in RangeType
    BY <1>1
  <2> QED
    BY <2>1 DEF RangeType
<1>3. CASE n > limit
  BY <1>1, <1>3 DEF AddSeqIndex
<1>4. CASE n <= limit /\ n = h.last
  <2>1. g = [ranges |-> h.ranges, last |-> n + 1]
    BY <1>1, <1>4 DEF AddSeqIndex
  <2>2. g \in HandlerType
    BY <2>1, <1>1 DEF HandlerType
  <2>3. RangesWell(g)
    <3>1. g.ranges = h.ranges /\ g.last = n + 1
      BY <2>1
    <3>2. \A i \in 1 .. Len(h.ranges) :
            h.ranges[i].seq + h.ranges[i].length <= n + 1
      BY <1>1, <1>2, <1>4 DEF RangesWell
    <3> QED
      BY <3>1, <3>2 DEF RangesWell
  <2>4. n \notin MissingPacks(h)
    BY <1>2, <1>4 DEF MissingPacks, PacksOf, RangesWell
  <2>5. MissingPacks(g) = MissingPacks(h)
    BY <2>1 DEF MissingPacks
  <2>6. ReceivedPacks(g) = ReceivedPacks(h) \cup {n}
    BY <2>1, <2>4, <2>5, <1>1, <1>4 DEF ReceivedPacks
  <2> QED
    BY <2>1, <2>2, <2>3, <2>6, <1>4
<1>5. CASE n <= limit /\ n > h.last
  <2> DEFINE gap == Range(h.last, n - h.last)
  <2>1. g = [ranges |-> Append(h.ranges, gap), last |-> n + 1]
    BY <1>1, <1>5 DEF AddSeqIndex
  <2>2. gap \in RangeType /\ PacksOf(gap) = h.last .. n - 1
        /\ gap.seq + gap.length = n
    <3>1. gap.seq = h.last /\ gap.length = n - h.last
      BY DEF Range
    <3>2. gap.seq + gap.length = n /\ gap.seq + gap.length - 1 = n - 1
      BY <3>1, <1>1
    <3>3. gap \in RangeType
      BY <1>1, <1>5 DEF RangeType, Range
    <3> QED
      BY <3>1, <3>2, <3>3 DEF PacksOf
  <2> HIDE DEF gap
  <2> DEFINE rs == Append(h.ranges, gap)
  <2>3. /\ rs \in Seq(RangeType) /\ Len(rs) = Len(h.ranges) + 1
        /\ \A i \in 1 .. Len(h.ranges) : rs[i] = h.ranges[i]
        /\ rs[Len(h.ranges) + 1] = gap
    BY <2>2, <1>1
  <2>4. Len(h.ranges) \in Nat
    BY <1>1
  <2> HIDE DEF rs
  <2>5. g.ranges = rs /\ g.last = n + 1 /\ g \in HandlerType
    BY <2>1, <2>3 DEF HandlerType, rs
  <2>6. \A i \in 1 .. Len(rs) :
          i \in 1 .. Len(h.ranges) \/ i = Len(h.ranges) + 1
    BY <2>3, <2>4
  <2>7. \A i \in 1 .. Len(h.ranges) : \A m \in PacksOf(h.ranges[i]) :
          m \in Nat /\ m < h.last
    BY <1>1, <1>2 DEF PacksOf, RangesWell
  <2>8. \A i \in 1 .. Len(h.ranges) :
          PacksOf(h.ranges[i]) \cap PacksOf(gap) = {}
    BY <1>1, <2>2, <2>7
  <2>9. RangesWell(g)
    <3>1. \A i, j \in 1 .. Len(rs) :
            i # j => PacksOf(rs[i]) \cap PacksOf(rs[j]) = {}
      BY <2>3, <2>6, <2>8 DEF RangesWell
    <3>2. \A i \in 1 .. Len(rs) : rs[i].seq + rs[i].length <= n + 1
      <4> TAKE i \in 1 .. Len(rs)
      <4>1. CASE i \in 1 .. Len(h.ranges)
        BY <4>1, <2>3, <1>1, <1>2, <1>5 DEF RangesWell
      <4>2. CASE i = Len(h.ranges) + 1
        BY <4>2, <2>2, <2>3
      <4> QED
        BY <4>1, <4>2, <2>6
    <3> QED
      BY <3>1, <3>2, <2>5 DEF RangesWell
  <2>10. \A m \in Nat : m \in MissingPacks(g)
                         <=> m \in MissingPacks(h) \/ m \in h.last .. n - 1
    <3> TAKE m \in Nat
    <3>1. m \in MissingPacks(g) <=> \E i \in 1 .. Len(rs) : m \in PacksOf(rs[i])
      BY <2>5 DEF MissingPacks
    <3>2. m \in MissingPacks(h)
            <=> \E i \in 1 .. Len(h.ranges) : m \in PacksOf(h.ranges[i])
      BY DEF MissingPacks
    <3>3. Len(h.ranges) + 1 \in 1 .. Len(rs)
          /\ \A i \in 1 .. Len(h.ranges) : i \in 1 .. Len(rs)
      BY <2>3, <2>4
    <3> QED
      BY <3>1, <3>2, <3>3, <2>2, <2>3, <2>6
  <2>11. \A m \in MissingPacks(h) : m \in Nat /\ m < h.last
    BY <2>7 DEF MissingPacks
  <2>12. ReceivedPacks(g) = ReceivedPacks(h) \cup {n}
    BY <2>5, <2>10, <2>11, <1>1, <1>5 DEF ReceivedPacks
  <2> QED
    BY <2>5, <2>9, <2>12, <1>1, <1>5
<1>6. CASE n <= limit /\ n < h.last
  <2>1. g = [h EXCEPT !.ranges = RemoveFromRanges(h.ranges, n)]
    BY <1>1, <1>6 DEF AddSeqIndex
  <2>2. /\ g \in HandlerType /\ RangesWell(g)
        /\ \A m \in Nat : m \in MissingPacks(g) <=> m \in MissingPacks(h) /\ m # n
    BY <2>1, RemovedPack
  <2>3. g.last = h.last
    BY <2>1, <1>1
  <2>4. ReceivedPacks(g) = ReceivedPacks(h) \cup {n}
    BY <2>2, <2>3, <1>1, <1>6 DEF ReceivedPacks
  <2> QED
    BY <2>2, <2>3, <2>4, <1>1, <1>6
<1> QED
  BY <1>1, <1>3, <1>4, <1>5, <1>6

-----------------------------------------------------------------------------
(* The ring.                                                               *)

\* While a list is received the ring begins with its first pack and holds
\* exactly the packs that the handler counts, each in the place of its number.
RingAgrees(q, h) ==
  /\ q \in QueueType(Nat) /\ q.expect = 0 /\ q.head = 0
  /\ h.last <= QueueSize
  /\ \A s \in Slots : q.slots[s] = IF s \in ReceivedPacks(h) THEN s ELSE NoPack

\* The inductive invariant.
AssemblyInv ==
  /\ TypeOK /\ RangesApart
  /\ receiving => RingAgrees(queue, handler) /\ handler.last <= total

LEMMA SlotIsNumber ==
  ASSUME NEW q, q.expect = 0, q.head = 0, NEW n \in Nat
  PROVE  /\ InWindow(q, n) <=> n < QueueSize
         /\ n < QueueSize => SlotOf(q, n) = n
<1>1. InWindow(q, n) <=> n < QueueSize
  BY QueueAssumption DEF InWindow
<1>2. ASSUME n < QueueSize PROVE n % QueueSize = n
  BY <1>2, QueueAssumption
<1>3. SlotOf(q, n) = n % QueueSize
  <2>1. q.head + (n - q.expect) = n
    OBVIOUS
  <2> QED
    BY <2>1 DEF SlotOf
<1> QED
  BY <1>1, <1>2, <1>3

LEMMA NewListIsEmpty ==
  /\ InitBufferQueue(0) \in QueueType(Nat)
  /\ NoPackReceived \in HandlerType /\ RangesWell(NoPackReceived)
  /\ ReceivedPacks(NoPackReceived) = {}
  /\ RingAgrees(InitBufferQueue(0), NoPackReceived)
<1>1. 0 % QueueSize = 0 /\ 0 \in Slots
  BY QueueAssumption DEF Slots
<1>2. InitBufferQueue(0) = [slots |-> [s \in Slots |-> NoPack], expect |-> 0,
                            head |-> 0]
  BY <1>1 DEF InitBufferQueue
<1>3. InitBufferQueue(0) \in QueueType(Nat)
  BY <1>1, <1>2 DEF QueueType
<1>4. NoPackReceived \in HandlerType /\ RangesWell(NoPackReceived)
  BY DEF NoPackReceived, HandlerType, RangesWell
<1>5. ReceivedPacks(NoPackReceived) = {}
  BY DEF NoPackReceived, ReceivedPacks
<1>6. RingAgrees(InitBufferQueue(0), NoPackReceived)
  BY <1>2, <1>3, <1>5, QueueAssumption DEF RingAgrees, NoPackReceived
<1> QED
  BY <1>3, <1>4, <1>5, <1>6

\* InsertBlock and AddSeqIndex, one after the other: both take the pack, or
\* both refuse it.
LEMMA BothTakePack ==
  ASSUME NEW q, NEW h \in HandlerType, RangesWell(h), RingAgrees(q, h),
         NEW n \in Nat,
         NEW q1, q1 = InsertBlock(q, n, n),
         NEW h1, h1 = AddSeqIndex(h, n, ConfirmLimit(q1))
  PROVE  /\ h1 \in HandlerType /\ RangesWell(h1) /\ RingAgrees(q1, h1)
         /\ ReceivedPacks(h1) = IF n < QueueSize THEN ReceivedPacks(h) \cup {n}
                                ELSE ReceivedPacks(h)
         /\ h1.last <= h.last \/ h1.last = n + 1
<1>1. /\ q \in QueueType(Nat) /\ q.expect = 0 /\ q.head = 0
      /\ q.slots \in [Slots -> Nat \cup {NoPack}]
  BY DEF RingAgrees, QueueType
<1>2. q1 = IF n < QueueSize THEN [q EXCEPT !.slots[n] = n] ELSE q
  BY <1>1, SlotIsNumber DEF InsertBlock
<1>3. q1 \in QueueType(Nat) /\ q1.expect = 0 /\ q1.head = 0
  BY <1>1, <1>2 DEF QueueType
<1>4. \A s \in Slots : q1.slots[s] = IF n < QueueSize /\ s = n THEN n
                                     ELSE q.slots[s]
  BY <1>1, <1>2 DEF QueueType
<1>5. ConfirmLimit(q1) = QueueSize - 1 /\ ConfirmLimit(q1) \in Nat
  BY <1>3, QueueAssumption DEF ConfirmLimit
<1>6. n <= ConfirmLimit(q1) <=> n < QueueSize
  BY <1>5, QueueAssumption
<1>7. /\ h1 \in HandlerType /\ RangesWell(h1)
      /\ ReceivedPacks(h1) = IF n < QueueSize THEN ReceivedPacks(h) \cup {n}
                             ELSE ReceivedPacks(h)
      /\ h1.last = IF n < QueueSize /\ h.last <= n THEN n + 1 ELSE h.last
  <2> DEFINE limit == ConfirmLimit(q1)
  <2>1. limit \in Nat /\ h1 = AddSeqIndex(h, n, limit)
    BY <1>5
  <2>2. n <= limit <=> n < QueueSize
    BY <1>6
  <2> HIDE DEF limit
  <2>3. /\ h1 \in HandlerType /\ RangesWell(h1)
        /\ ReceivedPacks(h1) = IF n <= limit THEN ReceivedPacks(h) \cup {n}
                               ELSE ReceivedPacks(h)
        /\ h1.last = IF n <= limit /\ h.last <= n THEN n + 1 ELSE h.last
    BY <2>1, AddedPack
  <2> QED
    BY <2>2, <2>3
<1>8. h1.last <= QueueSize
  BY <1>7, QueueAssumption DEF RingAgrees
<1>9. h.last \in Nat
  BY DEF HandlerType
<1>10. \A s \in Slots :
         q1.slots[s] = IF s \in ReceivedPacks(h1) THEN s ELSE NoPack
  BY <1>4, <1>7 DEF RingAgrees
<1> QED
  BY <1>3, <1>7, <1>8, <1>9, <1>10 DEF RingAgrees

\* Nothing is missing below the next pack if and only if all have come.
LEMMA CompleteIsAll ==
  ASSUME NEW h \in HandlerType, RangesWell(h), NEW k \in Nat, h.last <= k
  PROVE  h.last = k /\ h.ranges = <<>> <=> ReceivedPacks(h) = 0 .. k - 1
<1>1. h.ranges \in Seq(RangeType) /\ h.last \in Nat
  BY DEF HandlerType
<1>2. ASSUME h.last = k, h.ranges = <<>> PROVE ReceivedPacks(h) = 0 .. k - 1
  BY <1>2 DEF ReceivedPacks, MissingPacks
<1>3. ASSUME ReceivedPacks(h) = 0 .. k - 1 PROVE h.last = k
  <2>1. k # 0 => k - 1 \in ReceivedPacks(h)
    BY <1>3
  <2> QED
    BY <2>1, <1>1 DEF ReceivedPacks
<1>4. ASSUME ReceivedPacks(h) = 0 .. k - 1, h.ranges # <<>> PROVE FALSE
  <2>1. 1 \in 1 .. Len(h.ranges) /\ h.ranges[1] \in RangeType
    BY <1>1, <1>4
  <2>2. /\ h.ranges[1].seq \in PacksOf(h.ranges[1])
        /\ h.ranges[1].seq \in Nat /\ h.ranges[1].seq < h.last
    BY <2>1, <1>1 DEF RangesWell, PacksOf, RangeType
  <2>3. h.ranges[1].seq \in MissingPacks(h)
    BY <2>1, <2>2 DEF MissingPacks
  <2> QED
    BY <2>2, <2>3, <1>1, <1>4 DEF ReceivedPacks
<1> QED
  BY <1>2, <1>3, <1>4

\* DequeueAllBuffer of a list that is complete gives its packs in order.
LEMMA DequeuedList ==
  ASSUME NEW q, NEW h, RingAgrees(q, h), NEW k \in Nat, k <= QueueSize,
         ReceivedPacks(h) = 0 .. k - 1
  PROVE  /\ DequeuedPacks(q) = [i \in 1 .. k |-> i - 1]
         /\ AfterDequeueAll(q) \in QueueType(Nat)
<1>1. /\ q \in QueueType(Nat) /\ q.expect = 0 /\ q.head = 0
      /\ \A s \in Slots : q.slots[s] = IF s < k THEN s ELSE NoPack
  BY QueueAssumption DEF RingAgrees, Slots
<1>2. \A i \in 0 .. QueueSize - 1 : SlotOf(q, q.expect + i) = i
  <2> TAKE i \in 0 .. QueueSize - 1
  <2>1. i \in Nat /\ q.expect + i = i /\ i < QueueSize
    BY <1>1, QueueAssumption
  <2> QED
    BY <1>1, <2>1, SlotIsNumber
<1>3. \A i \in 0 .. QueueSize - 1 :
        q.slots[SlotOf(q, q.expect + i)] # NoPack <=> i < k
  BY <1>1, <1>2, TotalAssumption, QueueAssumption DEF Slots
<1> DEFINE Ends(n) ==
      /\ \A i \in 0 .. n - 1 : q.slots[SlotOf(q, q.expect + i)] # NoPack
      /\ n = QueueSize \/ q.slots[SlotOf(q, q.expect + n)] = NoPack
<1>4. Ends(k) /\ k \in 0 .. QueueSize
  BY <1>3, QueueAssumption
<1>5. \A n \in 0 .. QueueSize : Ends(n) => n = k
  <2> SUFFICES ASSUME NEW n \in 0 .. QueueSize, Ends(n) PROVE n = k
    OBVIOUS
  <2>1. CASE n < k
    BY <2>1, <1>3, QueueAssumption
  <2>2. CASE k < n
    BY <2>2, <1>3, QueueAssumption
  <2> QED
    BY <2>1, <2>2, QueueAssumption
<1> HIDE DEF Ends
<1>6. (CHOOSE n \in 0 .. QueueSize : Ends(n)) = k
  BY <1>4, <1>5
<1>7. Consecutive(q) = k
  BY <1>6 DEF Consecutive, Ends
<1>8. DequeuedPacks(q) = [i \in 1 .. k |-> i - 1]
  <2>1. \A i \in 1 .. k : q.slots[SlotOf(q, q.expect + i - 1)] = i - 1
    <3> TAKE i \in 1 .. k
    <3>1. /\ i - 1 \in 0 .. QueueSize - 1 /\ i - 1 < k
          /\ q.expect + i - 1 = q.expect + (i - 1)
      BY <1>1, QueueAssumption
    <3> QED
      BY <3>1, <1>1, <1>2 DEF Slots
  <2> QED
    BY <2>1, <1>7 DEF DequeuedPacks
<1>9. AfterDequeueAll(q) \in QueueType(Nat)
  <2>1. k % QueueSize \in Slots
    BY QueueAssumption DEF Slots
  <2> QED
    BY <2>1, <1>1, <1>7 DEF AfterDequeueAll, QueueType
<1> QED
  BY <1>8, <1>9

-----------------------------------------------------------------------------
(* The invariant and the refinement.                                       *)

\* A pack that arrives, and what the invariant says of its arrival.
LEMMA PackArrives ==
  ASSUME AssemblyInv, NEW n \in 0 .. total - 1, FileListRawDataCB(n)
  PROVE  /\ AssemblyInv'
         /\ ReceivedPacks(handler)' =
              IF n < QueueSize THEN ReceivedPacks(handler) \cup {n}
              ELSE ReceivedPacks(handler)
         /\ IF n = total - 1 /\ ReceivedPacks(handler)' = 0 .. total - 1
            THEN receiving' = FALSE /\ handed' = [i \in 1 .. total |-> i - 1]
            ELSE UNCHANGED <<receiving, handed>>
<1> DEFINE q == InsertBlock(queue, n, n)
           h == AddSeqIndex(handler, n, ConfirmLimit(q))
<1>1. /\ receiving /\ total \in 1 .. MaxTotal /\ n \in Nat /\ n + 1 <= total
      /\ handler \in HandlerType /\ handler.last \in Nat
      /\ handed \in Seq(Nat \cup {NoPack})
  BY TotalAssumption DEF FileListRawDataCB, AssemblyInv, TypeOK, HandlerType
<1>2. RangesWell(handler) /\ RingAgrees(queue, handler) /\ handler.last <= total
  BY <1>1 DEF AssemblyInv, RangesApart, RangesWell
<1>3. /\ handler' = h /\ total' = total
      /\ IF Complete(h, n)
         THEN /\ handed' = DequeuedPacks(q) /\ queue' = AfterDequeueAll(q)
              /\ receiving' = FALSE
         ELSE queue' = q /\ handed' = handed /\ receiving' = receiving
  BY DEF FileListRawDataCB
<1>4. /\ h \in HandlerType /\ RangesWell(h) /\ RingAgrees(q, h)
      /\ ReceivedPacks(h) = IF n < QueueSize THEN ReceivedPacks(handler) \cup {n}
                            ELSE ReceivedPacks(handler)
      /\ h.last <= handler.last \/ h.last = n + 1
  BY <1>1, <1>2, BothTakePack
<1> HIDE DEF q, h
<1>5. h.last \in Nat /\ h.last <= total /\ h.last <= QueueSize
  BY <1>1, <1>2, <1>4 DEF HandlerType, RingAgrees
<1>6. Complete(h, n) <=> n = total - 1 /\ ReceivedPacks(h) = 0 .. total - 1
  <2>1. h.last = total /\ h.ranges = <<>> <=> ReceivedPacks(h) = 0 .. total - 1
    <3>1. total \in Nat
      BY <1>1
    <3> QED
      BY <3>1, <1>4, <1>5, CompleteIsAll
  <2> QED
    BY <1>1, <2>1 DEF Complete
<1>7. ReceivedPacks(handler)' = ReceivedPacks(h)
  BY <1>3 DEF ReceivedPacks, MissingPacks
<1>8. RangesApart' /\ handler' \in HandlerType /\ total' \in 0 .. MaxTotal
  <2>1. RangesApart'
    BY <1>3, <1>4 DEF RangesApart, RangesWell
  <2>2. total' \in 0 .. MaxTotal
    BY <1>1, <1>3, TotalAssumption
  <2> QED
    BY <1>3, <1>4, <2>1, <2>2
<1>9. CASE Complete(h, n)
  <2>1. total <= QueueSize
    BY <1>5, <1>9, <1>1 DEF Complete
  <2>2. /\ DequeuedPacks(q) = [i \in 1 .. total |-> i - 1]
        /\ AfterDequeueAll(q) \in QueueType(Nat)
    <3>1. total \in Nat /\ ReceivedPacks(h) = 0 .. total - 1
      BY <1>1, <1>6, <1>9
    <3> QED
      BY <3>1, <1>4, <2>1, DequeuedList
  <2>3. [i \in 1 .. total |-> i - 1] \in Seq(Nat \cup {NoPack})
    BY <1>1
  <2>4. TypeOK' /\ ~receiving'
    BY <1>3, <1>8, <1>9, <2>2, <2>3 DEF TypeOK
  <2> QED
    BY <1>3, <1>4, <1>6, <1>7, <1>8, <1>9, <2>2, <2>4 DEF AssemblyInv
<1>10. CASE ~Complete(h, n)
  <2>1. queue' = q /\ handed' = handed /\ receiving' = receiving
    BY <1>3, <1>10
  <2>2. q \in QueueType(Nat)
    BY <1>4 DEF RingAgrees
  <2>3. TypeOK'
    BY <1>1, <1>8, <2>1, <2>2 DEF TypeOK
  <2>4. RingAgrees(queue, handler)' /\ (handler.last <= total)'
    BY <1>3, <1>4, <1>5, <2>1 DEF RingAgrees, ReceivedPacks, MissingPacks
  <2> QED
    BY <1>4, <1>6, <1>7, <1>8, <1>10, <2>1, <2>3, <2>4 DEF AssemblyInv
<1> QED
  BY <1>9, <1>10

LEMMA AssemblyInvHolds == Spec => []AssemblyInv
<1>1. Init => AssemblyInv
  <2> SUFFICES ASSUME Init PROVE AssemblyInv
    OBVIOUS
  <2>1. /\ receiving = FALSE /\ total = 0 /\ queue = InitBufferQueue(0)
        /\ handler = NoPackReceived /\ handed = <<>>
    BY DEF Init
  <2>2. TypeOK
    <3>1. receiving \in BOOLEAN
      BY <2>1
    <3> QED
      BY <2>1, <3>1, NewListIsEmpty, TotalAssumption DEF TypeOK
  <2>3. RangesApart
    BY <2>1, NewListIsEmpty DEF RangesApart, RangesWell
  <2> QED
    BY <2>1, <2>2, <2>3 DEF AssemblyInv
<1>2. AssemblyInv /\ [Next]_vars => AssemblyInv'
  <2> SUFFICES ASSUME AssemblyInv, [Next]_vars PROVE AssemblyInv'
    OBVIOUS
  <2>1. CASE Restart
    <3>1. /\ receiving' = TRUE /\ total' \in 1 .. MaxTotal
          /\ queue' = InitBufferQueue(0) /\ handler' = NoPackReceived
          /\ handed' = <<>>
      BY <2>1 DEF Restart
    <3>2. TypeOK'
      BY <3>1, NewListIsEmpty, TotalAssumption DEF TypeOK
    <3>3. RangesApart'
      BY <3>1, NewListIsEmpty DEF RangesApart, RangesWell
    <3>4. (RingAgrees(queue, handler) /\ handler.last <= total)'
      BY <3>1, NewListIsEmpty, TotalAssumption
         DEF RingAgrees, ReceivedPacks, MissingPacks, NoPackReceived
    <3> QED
      BY <3>2, <3>3, <3>4 DEF AssemblyInv
  <2>2. CASE \E n \in 0 .. total - 1 : FileListRawDataCB(n)
    BY <2>2, PackArrives
  <2>3. CASE TimeOut
    BY <2>3 DEF TimeOut, AssemblyInv, TypeOK, RangesApart
  <2>4. CASE UNCHANGED vars
    BY <2>4 DEF vars, AssemblyInv, TypeOK, RangesApart, RingAgrees,
                ReceivedPacks, MissingPacks
  <2> QED
    BY <2>1, <2>2, <2>3, <2>4 DEF Next
<1> QED
  BY <1>1, <1>2, PTL DEF Spec

\* Whatever packs come, in whatever order and how often, no range that is
\* noted as missing is empty and the ring stays a ring of QueueSize slots
\* (CommonDataRangeHandler, DownloadBufferQueue).
THEOREM AssemblyTypes == Spec => []TypeOK
<1>1. AssemblyInv => TypeOK
  BY DEF AssemblyInv
<1> QED
  BY <1>1, AssemblyInvHolds, PTL

\* The ranges that CommonDataRangeHandler keeps never overlap and stay below
\* the next pack, so that no pack is asked for twice.
THEOREM RangesApartTheorem == Spec => []RangesApart
<1>1. AssemblyInv => RangesApart
  BY DEF AssemblyInv
<1> QED
  BY <1>1, AssemblyInvHolds, PTL

\* While a list is received, DownloadBufferQueue holds a pack in its place
\* exactly if CommonDataRangeHandler counts it as received, although each of
\* them has a limit of its own and they are told of the pack one after the
\* other.
THEOREM BufferHoldsReceivedTheorem == Spec => []BufferHoldsReceived
<1>1. AssemblyInv => BufferHoldsReceived
  <2> SUFFICES ASSUME AssemblyInv, receiving, NEW n \in 0 .. MaxTotal - 1
               PROVE  n \in ReceivedPacks(handler)
                        <=> /\ InWindow(queue, n)
                            /\ queue.slots[SlotOf(queue, n)] = n
    BY DEF BufferHoldsReceived
  <2>1. RingAgrees(queue, handler) /\ n \in Nat
    BY TotalAssumption DEF AssemblyInv
  <2>2. handler.last \in Nat
    BY DEF AssemblyInv, TypeOK, HandlerType
  <2>3. CASE n < QueueSize
    <3>1. InWindow(queue, n) /\ SlotOf(queue, n) = n /\ n \in Slots
      BY <2>1, <2>3, SlotIsNumber, QueueAssumption DEF RingAgrees, Slots
    <3> QED
      BY <2>1, <3>1, TotalAssumption DEF RingAgrees
  <2>4. CASE ~(n < QueueSize)
    <3>1. ~InWindow(queue, n)
      BY <2>1, <2>4, SlotIsNumber DEF RingAgrees
    <3> QED
      BY <3>1, <2>1, <2>2, <2>4, QueueAssumption DEF RingAgrees, ReceivedPacks
  <2> QED
    BY <2>3, <2>4
<1> QED
  BY <1>1, AssemblyInvHolds, PTL

\* fileListRawDataCB with its two data structures implements the ledger: each
\* pack is noted once and for good if there is room for it, and the list is
\* handed to parseFileList, whole and in order, in the very step in which its
\* last pack comes after all the others.
THEOREM ImplementsLedgerTheorem == Spec => ImplementsLedger
<1>1. Init => Ledger!LedgerInit
  BY NewListIsEmpty DEF Init, Ledger!LedgerInit
<1>2. AssemblyInv /\ [Next]_vars => [Ledger!LedgerNext]_Ledger!ledgerVars
  <2> SUFFICES ASSUME AssemblyInv, [Next]_vars
               PROVE  Ledger!LedgerNext \/ UNCHANGED Ledger!ledgerVars
    OBVIOUS
  <2>1. CASE Restart
    <3>1. ReceivedPacks(handler)' = {}
      BY <2>1, NewListIsEmpty DEF Restart, ReceivedPacks, MissingPacks
    <3>2. Ledger!Begin
      BY <2>1, <3>1 DEF Restart, Ledger!Begin
    <3> QED
      BY <3>2 DEF Ledger!LedgerNext
  <2>2. ASSUME NEW n \in 0 .. total - 1, FileListRawDataCB(n)
        PROVE  Ledger!LedgerNext
    <3>1. receiving /\ total' = total
      BY <2>2 DEF FileListRawDataCB
    <3>2. Ledger!Arrive(n)
      BY <2>2, <3>1, PackArrives DEF Ledger!Arrive
    <3> QED
      BY <3>2 DEF Ledger!LedgerNext
  <2>3. CASE TimeOut
    <3>1. ReceivedPacks(handler)' = ReceivedPacks(handler)
      BY <2>3 DEF TimeOut, ReceivedPacks, MissingPacks
    <3>2. Ledger!GiveUp
      BY <2>3, <3>1 DEF TimeOut, Ledger!GiveUp
    <3> QED
      BY <3>2 DEF Ledger!LedgerNext
  <2>4. CASE UNCHANGED vars
    BY <2>4 DEF vars, Ledger!ledgerVars, ReceivedPacks, MissingPacks
  <2> QED
    BY <2>1, <2>2, <2>3, <2>4 DEF Next
<1> QED
  BY <1>1, <1>2, AssemblyInvHolds, PTL
     DEF Spec, ImplementsLedger, Ledger!LedgerSpec
=============================================================================
