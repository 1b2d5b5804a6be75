-------------------------- MODULE FileDownloadProofs --------------------------
(***************************************************************************)
(* Theorems about downloading from a camera (FileDownload), for any number *)
(* of packs, requests and packs in flight, and any size of the ring.       *)
(***************************************************************************)
EXTENDS FileDownload, WellFoundedInduction, TLAPS

-----------------------------------------------------------------------------
(* Numbers and sequences.                                                  *)

\* A set of numbers that is not empty has a least one.  Loops that end at the
\* first element of a kind are described by it.
LEMMA LeastNumber ==
  ASSUME NEW S \in SUBSET Nat, S # {}
  PROVE  \E m \in S : \A k \in S : m <= k
<1> DEFINE R == {ss \in Nat \X Nat : ss[1] < ss[2]}
<1>1. OpToRel(<, Nat) = R
  BY DEF OpToRel
<1>2. IsWellFoundedOn(R, Nat)
  BY <1>1, NatLessThanWellFounded
<1>3. PICK m \in S : \A k \in S : <<k, m>> \notin R
  <2> HIDE DEF R
  <2> QED
    BY <1>2, WFMin
<1>4. \A k \in S : ~(k < m)
  BY <1>3
<1> QED
  BY <1>4

LEMMA PairInSeq ==
  ASSUME NEW S, NEW x \in S, NEW y \in S
  PROVE  /\ <<>> \in Seq(S) /\ <<x>> \in Seq(S)
         /\ <<x>> \o <<y>> \in Seq(S) /\ <<x>> \o <<>> \in Seq(S)
         /\ <<>> \o <<x>> \in Seq(S) /\ <<>> \o <<>> \in Seq(S)
<1>1. <<>> \in Seq(S) /\ <<x>> \in Seq(S) /\ <<y>> \in Seq(S)
  OBVIOUS
<1> QED
  BY <1>1

LEMMA TailOfSeq ==
  ASSUME NEW S, NEW s \in Seq(S), Len(s) > 0
  PROVE  /\ Head(s) \in S /\ Head(s) = s[1]
         /\ Tail(s) \in Seq(S) /\ Len(Tail(s)) = Len(s) - 1
         /\ \A i \in 1 .. Len(s) - 1 : Tail(s)[i] = s[i + 1]
  OBVIOUS

LEMMA SeqOfMore ==
  ASSUME NEW S, NEW T, S \subseteq T, NEW s \in Seq(S)
  PROVE  s \in Seq(T)
  OBVIOUS

-----------------------------------------------------------------------------
(* The range handler.                                                      *)

\* The ranges of missing packs lie within the file or list.
InFile == {r \in RangeType : r.seq + r.length <= Packs}

InFileHandler == [ranges : Seq(InFile), last : 0 .. Packs]

LEMMA HandlerTypes == InFileHandler \subseteq HandlerType
<1>1. InFile \subseteq RangeType
  BY DEF InFile
<1>2. Seq(InFile) \subseteq Seq(RangeType)
  BY <1>1, SeqOfMore
<1>3. 0 .. Packs \subseteq Nat
  BY DownloadAssumption
<1> QED
  BY <1>2, <1>3 DEF InFileHandler, HandlerType

\* What is left of a range lies within the file too.
LEMMA SplitInFile ==
  ASSUME NEW r \in InFile, NEW n \in PacksOf(r)
  PROVE  Split(r, n) \in Seq(InFile)
<1>1. /\ r.seq \in Nat /\ r.length \in Nat /\ Packs \in Nat
      /\ r.seq + r.length <= Packs
      /\ n \in Nat /\ r.seq <= n /\ n <= r.seq + r.length - 1
  BY DownloadAssumption DEF InFile, RangeType, PacksOf
<1> DEFINE right == Range(n + 1, r.seq + r.length - n - 1)
           left  == Range(r.seq, n - r.seq)
<1>2. /\ right = [seq |-> n + 1, length |-> r.seq + r.length - n - 1]
      /\ left = [seq |-> r.seq, length |-> n - r.seq]
  BY DEF Range
<1>3. right.length > 0 => right \in InFile
  BY <1>1, <1>2 DEF InFile, RangeType
<1>4. left.length > 0 => left \in InFile
  BY <1>1, <1>2 DEF InFile, RangeType
<1>5. Split(r, n) = NonEmpty(right) \o NonEmpty(left)
  BY DEF Split
<1> HIDE DEF right, left
<1>6. CASE right.length > 0 /\ left.length > 0
  BY <1>3, <1>4, <1>5, <1>6, PairInSeq DEF NonEmpty
<1>7. CASE right.length > 0 /\ ~(left.length > 0)
  BY <1>3, <1>5, <1>7, PairInSeq DEF NonEmpty
<1>8. CASE ~(right.length > 0) /\ left.length > 0
  BY <1>4, <1>5, <1>8, PairInSeq DEF NonEmpty
<1>9. CASE ~(right.length > 0) /\ ~(left.length > 0)
  BY <1>5, <1>9, PairInSeq DEF NonEmpty
<1> QED
  BY <1>6, <1>7, <1>8, <1>9

LEMMA RemovedInFile ==
  ASSUME NEW rs \in Seq(InFile), NEW n \in Nat
  PROVE  RemoveFromRanges(rs, n) \in Seq(InFile)
<1> DEFINE hits == {i \in 1 .. Len(rs) : n \in PacksOf(rs[i])}
           i == CHOOSE j \in hits : \A k \in hits : j <= k
<1>1. CASE hits = {}
  BY <1>1 DEF RemoveFromRanges
<1>2. CASE hits # {}
  <2>1. hits \in SUBSET Nat
    OBVIOUS
  <2>2. \E j \in hits : \A k \in hits : j <= k
    BY <2>1, <1>2, LeastNumber
  <2>3. i \in hits
    BY <2>2
  <2>4. i \in 1 .. Len(rs) /\ n \in PacksOf(rs[i])
    BY <2>3
  <2>5. RemoveFromRanges(rs, n) =
          SubSeq(rs, 1, i - 1) \o Split(rs[i], n) \o SubSeq(rs, i + 1, Len(rs))
    BY <1>2 DEF RemoveFromRanges
  <2> HIDE DEF i, hits
  <2>6. Split(rs[i], n) \in Seq(InFile)
    BY <2>4, SplitInFile
  <2>7. SubSeq(rs, 1, i - 1) \in Seq(InFile) /\ SubSeq(rs, i + 1, Len(rs)) \in Seq(InFile)
    BY <2>4
  <2> QED
    BY <2>5, <2>6, <2>7
<1> QED
  BY <1>1, <1>2

LEMMA AddedInFile ==
  ASSUME NEW h \in InFileHandler, NEW n \in 0 .. Packs - 1, NEW limit \in Nat
  PROVE  AddSeqIndex(h, n, limit) \in InFileHandler
<1>1. /\ h.ranges \in Seq(InFile) /\ h.last \in 0 .. Packs /\ Packs \in Nat
      /\ n \in Nat /\ n + 1 \in 0 .. Packs
  BY DownloadAssumption DEF InFileHandler
<1>2. [h EXCEPT !.last = n + 1] \in InFileHandler
  BY <1>1 DEF InFileHandler
<1>3. RemoveFromRanges(h.ranges, n) \in Seq(InFile)
  BY <1>1, RemovedInFile
<1>4. [h EXCEPT !.ranges = RemoveFromRanges(h.ranges, n)] \in InFileHandler
  BY <1>3 DEF InFileHandler
<1>5. ASSUME n > h.last
      PROVE  [ranges |-> Append(h.ranges, Range(h.last, n - h.last)),
              last |-> n + 1] \in InFileHandler
  <2>1. Range(h.last, n - h.last) \in InFile
    BY <1>1, <1>5 DEF Range, InFile, RangeType
  <2>2. Append(h.ranges, Range(h.last, n - h.last)) \in Seq(InFile)
    BY <1>1, <2>1
  <2> QED
    BY <1>1, <2>2 DEF InFileHandler
<1> QED
  BY <1>1, <1>2, <1>4, <1>5 DEF AddSeqIndex

\* A pack that is not older than all before it: it is taken if it is within the
\* limit, and leaves no gap exactly if there was none and it is the next one.
LEMMA AddedInOrder ==
  ASSUME NEW h \in InFileHandler, NEW n \in 0 .. Packs - 1, h.last <= n,
         NEW limit \in Nat, NEW g, g = AddSeqIndex(h, n, limit)
  PROVE  /\ n > limit => g = h
         /\ n <= limit => /\ g.last = n + 1
                          /\ g.ranges = <<>> <=> h.ranges = <<>> /\ n = h.last
<1>1. /\ h.ranges \in Seq(InFile) /\ h.last \in Nat /\ n \in Nat
      /\ h = [ranges |-> h.ranges, last |-> h.last]
  BY DownloadAssumption DEF InFileHandler
<1>2. CASE n > limit
  BY <1>1, <1>2 DEF AddSeqIndex
<1>3. CASE n <= limit /\ n = h.last
  BY <1>1, <1>3 DEF AddSeqIndex
<1>4. CASE n <= limit /\ n > h.last
  <2>1. g = [ranges |-> Append(h.ranges, Range(h.last, n - h.last)),
             last |-> n + 1]
    BY <1>1, <1>4 DEF AddSeqIndex
  <2> DEFINE e == Range(h.last, n - h.last)
  <2> HIDE DEF e
  <2>2. Append(h.ranges, e) # <<>>
    BY <1>1
  <2> QED
    BY <1>1, <1>4, <2>1, <2>2 DEF e
<1> QED
  BY <1>1, <1>2, <1>3, <1>4

-----------------------------------------------------------------------------
(* The ring.                                                               *)

LEMMA SlotTypes ==
  ASSUME NEW q \in QueueType(Pack), NEW i \in Nat
  PROVE  SlotOf(q, q.expect + i) \in Slots
<1>1. q.head \in Nat /\ q.expect \in Nat
  BY QueueAssumption DEF QueueType, Slots
<1>2. SlotOf(q, q.expect + i) = (q.head + i) % QueueSize
  <2>1. q.head + ((q.expect + i) - q.expect) = q.head + i
    BY <1>1
  <2> QED
    BY <2>1 DEF SlotOf
<1>3. q.head + i \in Nat
  BY <1>1
<1> QED
  BY <1>2, <1>3, QueueAssumption DEF Slots

LEMMA InsertTypes ==
  ASSUME NEW q \in QueueType(Pack), NEW n \in Nat, NEW p \in Pack
  PROVE  InsertBlock(q, n, p) \in QueueType(Pack)
<1>1. q.slots \in [Slots -> Pack \cup {NoPack}] /\ q.expect \in Nat
      /\ q.head \in Slots
  BY DEF QueueType
<1>2. [q.slots EXCEPT ![SlotOf(q, n)] = p] \in [Slots -> Pack \cup {NoPack}]
  BY <1>1
<1>3. [q EXCEPT !.slots[SlotOf(q, n)] = p] =
        [slots |-> [q.slots EXCEPT ![SlotOf(q, n)] = p],
         expect |-> q.expect, head |-> q.head]
  BY DEF QueueType
<1> QED
  BY <1>1, <1>2, <1>3 DEF InsertBlock, QueueType

\* DequeueAllBuffer ends at the first empty slot, after one round at the
\* latest, and hands out packs only.
LEMMA DequeueTypes ==
  ASSUME NEW q \in QueueType(Pack)
  PROVE  /\ DequeuedPacks(q) \in Seq(Pack)
         /\ AfterDequeueAll(q) \in QueueType(Pack)
<1> DEFINE At(i) == q.slots[SlotOf(q, q.expect + i)]
           Ends(n) == /\ \A i \in 0 .. n - 1 : At(i) # NoPack
                      /\ n = QueueSize \/ At(n) = NoPack
           S == {n \in 0 .. QueueSize : n = QueueSize \/ At(n) = NoPack}
<1>1. QueueSize \in Nat /\ QueueSize > 0
  BY QueueAssumption
<1>2. q.slots \in [Slots -> Pack \cup {NoPack}] /\ q.expect \in Nat
      /\ q.head \in Nat
  BY <1>1 DEF QueueType, Slots
<1>3. \E n \in 0 .. QueueSize : Ends(n)
  <2>1. S \in SUBSET Nat /\ QueueSize \in S
    BY <1>1
  <2>2. PICK n \in S : \A k \in S : n <= k
    BY <2>1, LeastNumber
  <2>3. ASSUME NEW i \in 0 .. n - 1 PROVE At(i) # NoPack
    <3>1. i \in 0 .. QueueSize /\ ~(n <= i)
      BY <2>2, <1>1
    <3> HIDE DEF At
    <3> QED
      BY <3>1, <2>2
  <2>4. Ends(n)
    BY <2>2, <2>3
  <2> QED
    BY <2>2, <2>4
<1> DEFINE n == Consecutive(q)
<1>4. n \in 0 .. QueueSize /\ Ends(n)
  <2>1. n = CHOOSE m \in 0 .. QueueSize : Ends(m)
    BY DEF Consecutive
  <2> HIDE DEF n, Ends
  <2> QED
    BY <2>1, <1>3
<1>5. \A i \in 1 .. n : q.slots[SlotOf(q, q.expect + i - 1)] \in Pack
  <2> SUFFICES ASSUME NEW i \in 1 .. n
               PROVE  q.slots[SlotOf(q, q.expect + i - 1)] \in Pack
    OBVIOUS
  <2>1. /\ i - 1 \in 0 .. n - 1 /\ i - 1 \in Nat
        /\ q.expect + i - 1 = q.expect + (i - 1)
    BY <1>4, <1>2
  <2>2. SlotOf(q, q.expect + (i - 1)) \in Slots
    BY <2>1, SlotTypes
  <2>3. At(i - 1) # NoPack
    <3> HIDE DEF At
    <3> QED
      BY <2>1, <1>4
  <2> QED
    BY <2>1, <2>2, <2>3, <1>2
<1>6. DequeuedPacks(q) \in Seq(Pack)
  <2>1. DequeuedPacks(q) = [i \in 1 .. n |-> q.slots[SlotOf(q, q.expect + i - 1)]]
    BY DEF DequeuedPacks
  <2> HIDE DEF n
  <2>2. n \in Nat
    BY <1>4, <1>1
  <2>3. DequeuedPacks(q) \in [1 .. n -> Pack]
    BY <2>1, <1>5
  <2> QED
    BY <2>2, <2>3
<1>7. AfterDequeueAll(q) \in QueueType(Pack)
  <2>1. n \in Nat
    BY <1>4, <1>1
  <2>2. AfterDequeueAll(q) =
          [slots  |-> [s \in Slots |->
                         IF \E i \in 0 .. n - 1 : s = SlotOf(q, q.expect + i)
                         THEN NoPack ELSE q.slots[s]],
           expect |-> q.expect + n,
           head   |-> (q.head + n) % QueueSize]
    BY DEF AfterDequeueAll
  <2> HIDE DEF n
  <2>3. (q.head + n) % QueueSize \in Slots
    <3>1. q.head + n \in Nat
      BY <2>1, <1>2
    <3> QED
      BY <3>1, <1>1 DEF Slots
  <2>4. q.expect + n \in Nat
    BY <2>1, <1>2
  <2> QED
    BY <2>2, <2>3, <2>4, <1>2 DEF QueueType
<1> QED
  BY <1>6, <1>7

-----------------------------------------------------------------------------
(* The type invariant.                                                     *)

TypesKept == TypeOK /\ range \in [Kinds -> InFileHandler]

LEMMA KindOrIdle ==
  /\ "list" \in Kinds /\ "data" \in Kinds
  /\ AppIdle \in [at : {"idle", "name", "send"}, kind : Kinds]
  /\ CamIdle \in [req : 0 .. MaxRequests, kind : Kinds, next : 0 .. Packs - 1]
  /\ RxIdle \in [at : {"idle", "verdict", "called"}, kind : Kinds, ok : BOOLEAN,
                 told : 0 .. MaxRequests, list : Seq(Pack)]
  /\ NoPackReceived \in InFileHandler
  /\ InitBufferQueue(0) \in QueueType(Pack)
<1>1. "list" \in Kinds /\ "data" \in Kinds /\ 0 \in 0 .. MaxRequests
      /\ 0 \in 0 .. Packs - 1 /\ 0 \in 0 .. Packs
  BY DownloadAssumption DEF Kinds
<1>2. CamIdle \in [req : 0 .. MaxRequests, kind : Kinds, next : 0 .. Packs - 1]
  BY <1>1 DEF CamIdle
<1>3. <<>> \in Seq(Pack) /\ <<>> \in Seq(InFile)
  OBVIOUS
<1>4. RxIdle \in [at : {"idle", "verdict", "called"}, kind : Kinds,
                  ok : BOOLEAN, told : 0 .. MaxRequests, list : Seq(Pack)]
  BY <1>1, <1>3 DEF RxIdle
<1>5. NoPackReceived \in InFileHandler
  BY <1>1, <1>3 DEF NoPackReceived, InFileHandler
<1>6. InitBufferQueue(0) \in QueueType(Pack)
  <2>1. 0 % QueueSize = 0 /\ 0 \in Slots
    BY QueueAssumption DEF Slots
  <2> QED
    BY <2>1 DEF InitBufferQueue, QueueType
<1> QED
  BY <1>1, <1>2, <1>4, <1>5, <1>6 DEF AppIdle

LEMMA DownloadInitTypes == Init => TypesKept
<1> SUFFICES ASSUME Init PROVE TypesKept
  OBVIOUS
<1>1. /\ downloadState \in [Kinds -> {"idle", "receiving"}]
      /\ reqCB \in [Kinds -> 0 .. MaxRequests]
      /\ late \in [Kinds -> BOOLEAN]
      /\ path \in 0 .. MaxRequests
      /\ openable \subseteq Requests
      /\ mapped \in [file : 0 .. MaxRequests, pos : Nat]
      /\ made \in 0 .. MaxRequests
  BY DownloadAssumption DEF Init
<1>2. range \in [Kinds -> InFileHandler]
  BY KindOrIdle DEF Init
<1>3. range \in [Kinds -> HandlerType]
  BY <1>2, HandlerTypes
<1>4. /\ queue \in QueueType(Pack)
      /\ disk \in [Requests -> [1 .. Packs -> Pack \cup {NoPack}]]
      /\ answers \in [Requests -> SUBSET {"ok", "error"}]
  BY KindOrIdle DEF Init
<1>5. monitors \in [Requests ->
        [at : {"none", "created", "poll", "abort", "called"}, kind : Kinds]]
  BY KindOrIdle DEF Init
<1>6. wire \in Seq(Pack)
  BY DEF Init
<1>7. /\ app \in [at : {"idle", "name", "send"}, kind : Kinds]
      /\ rx \in [at : {"idle", "verdict", "called"}, kind : Kinds, ok : BOOLEAN,
                 told : 0 .. MaxRequests, list : Seq(Pack)]
      /\ cam \in [req : 0 .. MaxRequests, kind : Kinds, next : 0 .. Packs - 1]
  BY KindOrIdle DEF Init
<1> QED
  BY <1>1, <1>2, <1>3, <1>4, <1>5, <1>6, <1>7 DEF TypesKept, TypeOK

\* The application thread.
LEMMA StartTypes ==
  ASSUME TypesKept, StartRequest
  PROVE  TypesKept'
<1>1. TypeOK /\ range \in [Kinds -> InFileHandler]
  BY DEF TypesKept
<1>2. made \in Nat /\ made < MaxRequests /\ MaxRequests \in Nat
  BY <1>1, DownloadAssumption
     DEF TypeOK, StartRequest, StartReqFileList, StartReqFileData
<1>3. made + 1 \in 0 .. MaxRequests /\ made + 1 \in Requests
  BY <1>2 DEF Requests
<1>4. CASE StartReqFileList
  <2>1. app' \in [at : {"idle", "name", "send"}, kind : Kinds]
    BY <1>4, KindOrIdle DEF StartReqFileList
  <2> QED
    BY <1>1, <1>3, <1>4, <2>1
       DEF TypesKept, TypeOK, StartReqFileList, handlers, storage, camera
<1>5. CASE StartReqFileData
  <2>1. app' \in [at : {"idle", "name", "send"}, kind : Kinds]
    BY <1>5, KindOrIdle DEF StartReqFileData
  <2>2. /\ downloadState' \in [Kinds -> {"idle", "receiving"}]
        /\ reqCB' \in [Kinds -> 0 .. MaxRequests]
    BY <1>1, <1>3, <1>5 DEF StartReqFileData, TypeOK
  <2>3. range' \in [Kinds -> InFileHandler]
    BY <1>1, <1>5, KindOrIdle DEF StartReqFileData
  <2>4. range' \in [Kinds -> HandlerType]
    BY <2>3, HandlerTypes
  <2>5. monitors' \in [Requests ->
          [at : {"none", "created", "poll", "abort", "called"}, kind : Kinds]]
    BY <1>1, <1>5, KindOrIdle DEF StartReqFileData, TypeOK
  <2>6. made' \in 0 .. MaxRequests /\ path' \in 0 .. MaxRequests
    BY <1>3, <1>5 DEF StartReqFileData
  <2>7. openable' \subseteq Requests
    BY <1>1, <1>3, <1>5 DEF StartReqFileData, TypeOK
  <2> QED
    BY <1>1, <1>5, <2>1, <2>2, <2>3, <2>4, <2>5, <2>6, <2>7
       DEF TypesKept, TypeOK, StartReqFileData, camera
<1> QED
  BY <1>4, <1>5 DEF StartRequest

LEMMA AppTypes ==
  ASSUME TypesKept, PrepareFileList \/ SendReqPack
  PROVE  TypesKept'
<1>1. TypeOK /\ range \in [Kinds -> InFileHandler] /\ made \in 0 .. MaxRequests
      /\ app \in [at : {"idle", "name", "send"}, kind : Kinds]
  BY DEF TypesKept, TypeOK
<1>2. CASE PrepareFileList
  <2>1. app' \in [at : {"idle", "name", "send"}, kind : Kinds]
    BY <1>1, <1>2 DEF PrepareFileList
  <2>2. /\ downloadState' \in [Kinds -> {"idle", "receiving"}]
        /\ reqCB' \in [Kinds -> 0 .. MaxRequests]
    BY <1>1, <1>2 DEF PrepareFileList, TypeOK
  <2>3. range' \in [Kinds -> InFileHandler]
    BY <1>1, <1>2, KindOrIdle DEF PrepareFileList
  <2>4. range' \in [Kinds -> HandlerType]
    BY <2>3, HandlerTypes
  <2>5. monitors' \in [Requests ->
          [at : {"none", "created", "poll", "abort", "called"}, kind : Kinds]]
    BY <1>1, <1>2, KindOrIdle DEF PrepareFileList, TypeOK
  <2>6. queue' \in QueueType(Pack)
    BY <1>2, KindOrIdle DEF PrepareFileList
  <2> QED
    BY <1>1, <1>2, <2>1, <2>2, <2>3, <2>4, <2>5, <2>6
       DEF TypesKept, TypeOK, PrepareFileList, camera
<1>3. CASE SendReqPack
  <2>1. 0 \in 0 .. Packs - 1
    BY DownloadAssumption
  <2>2. cam' \in [req : 0 .. MaxRequests, kind : Kinds, next : 0 .. Packs - 1]
    BY <1>1, <1>3, <2>1 DEF SendReqPack, TypeOK
  <2>3. app' \in [at : {"idle", "name", "send"}, kind : Kinds]
    BY <1>3, KindOrIdle DEF SendReqPack
  <2> QED
    BY <1>1, <1>3, <2>2, <2>3
       DEF TypesKept, TypeOK, SendReqPack, handlers, storage
<1> QED
  BY <1>2, <1>3

\* The monitor threads, and time.
LEMMA MonitorTypes ==
  ASSUME TypesKept, NEW r \in Requests, Monitor(r)
  PROVE  TypesKept'
<1>1. TypeOK /\ range \in [Kinds -> InFileHandler]
  BY DEF TypesKept
<1>2. monitors[r].kind \in Kinds
      /\ reqCB[monitors[r].kind] \in 0 .. MaxRequests
  BY <1>1 DEF TypeOK
<1>3. monitors' \in [Requests ->
        [at : {"none", "created", "poll", "abort", "called"}, kind : Kinds]]
  <2>1. PICK w \in {"none", "poll", "abort", "called"} :
          monitors' \in {monitors, [monitors EXCEPT ![r].at = w]}
    BY DEF Monitor, MonitorStart, MonitorTimeout, MonitorCallBack,
           MonitorFinish, SendMissedAckPack, MonitorExit, threads
  <2>2. monitors \in [Requests ->
          [at : {"none", "created", "poll", "abort", "called"}, kind : Kinds]]
    BY <1>1 DEF TypeOK
  <2>3. [monitors EXCEPT ![r].at = w] \in [Requests ->
          [at : {"none", "created", "poll", "abort", "called"}, kind : Kinds]]
    <3> DEFINE new == [monitors[r] EXCEPT !.at = w]
    <3>1. new \in [at : {"none", "created", "poll", "abort", "called"},
                   kind : Kinds]
      BY <2>2
    <3>2. [monitors EXCEPT ![r].at = w] = [monitors EXCEPT ![r] = new]
      BY Zenon
    <3> HIDE DEF new
    <3> QED
      BY <2>2, <3>1, <3>2
  <2> QED
    BY <2>1, <2>2, <2>3
<1>4. CASE MonitorStart(r)
  <2>1. late' \in [Kinds -> BOOLEAN]
    BY <1>1, <1>4 DEF TypeOK, MonitorStart
  <2> QED
    BY <1>1, <1>3, <1>4, <2>1
       DEF TypesKept, TypeOK, MonitorStart, storage, camera
<1>5. CASE MonitorTimeout(r)
  <2>1. cam' \in [req : 0 .. MaxRequests, kind : Kinds, next : 0 .. Packs - 1]
    BY <1>1, <1>5, KindOrIdle DEF TypeOK, MonitorTimeout, SendAbortPack
  <2> QED
    BY <1>1, <1>3, <1>5, <2>1
       DEF TypesKept, TypeOK, MonitorTimeout, handlers, storage
<1>6. CASE MonitorCallBack(r)
  <2>1. answers' \in [Requests -> SUBSET {"ok", "error"}]
    BY <1>1, <1>6 DEF TypeOK, MonitorCallBack, CallBack
  <2> QED
    BY <1>1, <1>3, <1>6, <2>1
       DEF TypesKept, TypeOK, MonitorCallBack, handlers, storage, camera
<1>7. CASE MonitorFinish(r)
  <2>1. downloadState' \in [Kinds -> {"idle", "receiving"}]
    BY <1>1, <1>7 DEF TypeOK, MonitorFinish
  <2> QED
    BY <1>1, <1>3, <1>7, <2>1
       DEF TypesKept, TypeOK, MonitorFinish, storage, camera
<1>8. CASE SendMissedAckPack(r)
  <2>1. range["data"].ranges \in Seq(InFile) /\ range["data"].ranges # <<>>
    BY <1>1, <1>8, KindOrIdle DEF SendMissedAckPack, InFileHandler
  <2>2. range["data"].ranges[1] \in InFile
    BY <2>1
  <2>3. range["data"].ranges[1].seq \in 0 .. Packs - 1
    BY <2>2, DownloadAssumption DEF InFile, RangeType
  <2>4. cam' \in [req : 0 .. MaxRequests, kind : Kinds, next : 0 .. Packs - 1]
    BY <1>1, <1>8, <2>3 DEF SendMissedAckPack, TypeOK
  <2> QED
    BY <1>1, <1>8, <2>4
       DEF TypesKept, TypeOK, SendMissedAckPack, handlers, storage, threads
<1>9. CASE MonitorExit(r)
  BY <1>1, <1>3, <1>9
     DEF TypesKept, TypeOK, MonitorExit, handlers, storage, camera
<1> QED
  BY <1>4, <1>5, <1>6, <1>7, <1>8, <1>9 DEF Monitor

LEMMA ElapseTypes ==
  ASSUME TypesKept, NEW k \in Kinds, Elapse(k)
  PROVE  TypesKept'
<1>1. TypeOK /\ range \in [Kinds -> InFileHandler]
  BY DEF TypesKept
<1>2. late' \in [Kinds -> BOOLEAN]
  BY <1>1 DEF TypeOK, Elapse
<1> QED
  BY <1>1, <1>2 DEF TypesKept, TypeOK, Elapse, storage, threads, camera

\* The camera and the link.
LEMMA CameraSendTypes ==
  ASSUME TypesKept, CameraSends \/ LosePack
  PROVE  TypesKept'
<1>1. TypeOK /\ range \in [Kinds -> InFileHandler] /\ wire \in Seq(Pack)
      /\ cam \in [req : 0 .. MaxRequests, kind : Kinds, next : 0 .. Packs - 1]
  BY DEF TypesKept, TypeOK
<1>2. CASE CameraSends
  <2>1. [req |-> cam.req, kind |-> cam.kind, seq |-> cam.next] \in Pack
    BY <1>1, <1>2, DownloadAssumption DEF CameraSends, Pack, Requests
  <2>2. wire' \in Seq(Pack)
    BY <1>1, <1>2, <2>1 DEF CameraSends
  <2>3. cam.next # Packs - 1 => cam.next + 1 \in 0 .. Packs - 1
    BY <1>1, DownloadAssumption
  <2>4. cam' \in [req : 0 .. MaxRequests, kind : Kinds, next : 0 .. Packs - 1]
    BY <1>1, <1>2, <2>3, KindOrIdle DEF CameraSends
  <2> QED
    BY <1>1, <1>2, <2>2, <2>4
       DEF TypesKept, TypeOK, CameraSends, handlers, storage, threads
<1>3. CASE LosePack
  <2>1. wire' \in Seq(Pack)
    BY <1>1, <1>3, TailOfSeq DEF LosePack
  <2> QED
    BY <1>1, <1>3, <2>1
       DEF TypesKept, TypeOK, LosePack, handlers, storage, threads
<1> QED
  BY <1>2, <1>3


\* The receive thread.
LEMMA ListPackTypes ==
  ASSUME TypesKept, FileListRawDataCB
  PROVE  TypesKept'
<1>1. /\ TypeOK /\ range \in [Kinds -> InFileHandler] /\ wire \in Seq(Pack)
      /\ queue \in QueueType(Pack) /\ Len(wire) > 0
      /\ cam \in [req : 0 .. MaxRequests, kind : Kinds, next : 0 .. Packs - 1]
  BY DEF TypesKept, TypeOK, FileListRawDataCB, NextPack
<1> DEFINE pack == Head(wire)
           q == InsertBlock(queue, pack.seq, pack)
           h == AddSeqIndex(range["list"], pack.seq, ConfirmLimit(q))
<1>2. /\ pack \in Pack /\ pack.seq \in 0 .. Packs - 1 /\ pack.seq \in Nat
      /\ wire' \in Seq(Pack)
  <2>1. pack \in Pack /\ Tail(wire) \in Seq(Pack)
    BY <1>1, TailOfSeq
  <2>2. wire' = Tail(wire)
    BY DEF FileListRawDataCB, NextPack
  <2>3. pack.seq \in 0 .. Packs - 1 /\ pack.seq \in Nat
    BY <2>1, DownloadAssumption DEF Pack
  <2> QED
    BY <2>1, <2>2, <2>3
<1>3. q \in QueueType(Pack)
  BY <1>1, <1>2, InsertTypes
<1>4. ConfirmLimit(q) \in Nat
  BY <1>3, QueueAssumption DEF ConfirmLimit, QueueType
<1>5. h \in InFileHandler
  BY <1>1, <1>2, <1>4, AddedInFile, KindOrIdle
<1>6. DequeuedPacks(q) \in Seq(Pack) /\ AfterDequeueAll(q) \in QueueType(Pack)
  BY <1>3, DequeueTypes
<1>7. /\ range' = [range EXCEPT !["list"] = h]
      /\ late' = [late EXCEPT !["list"] = FALSE]
      /\ \/ /\ queue' = AfterDequeueAll(q) /\ SendAbortPack
            /\ rx' = [RxIdle EXCEPT !.at = "verdict", !.list = DequeuedPacks(q)]
         \/ queue' = q /\ UNCHANGED <<cam, rx>>
      /\ UNCHANGED <<path, openable, mapped, disk, app, monitors, made, answers,
                     reqCB, downloadState>>
  BY Zenon DEF FileListRawDataCB, NextPack
<1> HIDE DEF h, q, pack
<1>8. range' \in [Kinds -> InFileHandler]
  BY <1>1, <1>5, <1>7
<1>9. range' \in [Kinds -> HandlerType]
  BY <1>8, HandlerTypes
<1>10. late' \in [Kinds -> BOOLEAN]
  BY <1>1, <1>7 DEF TypeOK
<1>11. queue' \in QueueType(Pack)
  BY <1>3, <1>6, <1>7
<1>12. rx' \in [at : {"idle", "verdict", "called"}, kind : Kinds, ok : BOOLEAN,
                told : 0 .. MaxRequests, list : Seq(Pack)]
  <2>1. rx \in [at : {"idle", "verdict", "called"}, kind : Kinds, ok : BOOLEAN,
                told : 0 .. MaxRequests, list : Seq(Pack)]
    BY <1>1 DEF TypeOK
  <2>2. [RxIdle EXCEPT !.at = "verdict", !.list = DequeuedPacks(q)]
          \in [at : {"idle", "verdict", "called"}, kind : Kinds, ok : BOOLEAN,
              told : 0 .. MaxRequests, list : Seq(Pack)]
    BY <1>6, KindOrIdle
  <2> QED
    BY <1>7, <2>1, <2>2
<1>13. cam' \in [req : 0 .. MaxRequests, kind : Kinds, next : 0 .. Packs - 1]
  BY <1>1, <1>7, KindOrIdle DEF SendAbortPack
<1> QED
  BY <1>1, <1>2, <1>7, <1>8, <1>9, <1>10, <1>11, <1>12, <1>13
     DEF TypesKept, TypeOK

\* What parseFileData writes.
LEMMA ParseTypes ==
  ASSUME TypesKept, NEW pack \in Pack, ParseFileData(pack)
  PROVE  /\ mapped' \in [file : 0 .. MaxRequests, pos : Nat]
         /\ disk' \in [Requests -> [1 .. Packs -> Pack \cup {NoPack}]]
<1>1. /\ mapped \in [file : 0 .. MaxRequests, pos : Nat]
      /\ disk \in [Requests -> [1 .. Packs -> Pack \cup {NoPack}]]
      /\ path \in 0 .. MaxRequests
  BY DEF TypesKept, TypeOK
<1> DEFINE m == MapFile(pack)
<1>2. m \in [file : 0 .. MaxRequests, pos : Nat]
  <2>1. /\ [file |-> path, pos |-> 0] \in [file : 0 .. MaxRequests, pos : Nat]
        /\ [mapped EXCEPT !.pos = 0] \in [file : 0 .. MaxRequests, pos : Nat]
    BY <1>1
  <2> QED
    BY <1>1, <2>1 DEF MapFile
<1>3. m = [file |-> m.file, pos |-> m.pos]
  BY <1>2
<1>4. CASE m.file = 0
  BY <1>1, <1>2, <1>4 DEF ParseFileData
<1>5. CASE m.file # 0
  <2>1. /\ mapped' = [m EXCEPT !.pos = @ + 1]
        /\ disk' = IF m.pos < Packs
                   THEN [disk EXCEPT ![m.file][m.pos + 1] = pack]
                   ELSE disk
    BY <1>5, Zenon DEF ParseFileData
  <2> HIDE DEF m
  <2>2. mapped' \in [file : 0 .. MaxRequests, pos : Nat]
    BY <1>2, <2>1
  <2> DEFINE row == [disk[m.file] EXCEPT ![m.pos + 1] = pack]
  <2>3. m.file \in Requests
    BY <1>2, <1>5, DownloadAssumption DEF Requests
  <2>4. row \in [1 .. Packs -> Pack \cup {NoPack}]
    BY <1>1, <2>3
  <2>5. [disk EXCEPT ![m.file][m.pos + 1] = pack] = [disk EXCEPT ![m.file] = row]
    OBVIOUS
  <2> HIDE DEF row
  <2>6. [disk EXCEPT ![m.file] = row]
          \in [Requests -> [1 .. Packs -> Pack \cup {NoPack}]]
    BY <1>1, <2>4
  <2> QED
    BY <1>1, <2>1, <2>2, <2>5, <2>6
<1> QED
  BY <1>4, <1>5

LEMMA DataPackTypes ==
  ASSUME TypesKept, FileDataRawDataCB
  PROVE  TypesKept'
<1>1. /\ TypeOK /\ range \in [Kinds -> InFileHandler] /\ wire \in Seq(Pack)
      /\ Len(wire) > 0
      /\ cam \in [req : 0 .. MaxRequests, kind : Kinds, next : 0 .. Packs - 1]
  BY DEF TypesKept, TypeOK, FileDataRawDataCB, NextPack
<1> DEFINE pack == Head(wire)
           h == AddSeqIndex(range["data"], pack.seq, pack.seq)
<1>2. /\ pack \in Pack /\ pack.seq \in 0 .. Packs - 1 /\ pack.seq \in Nat
      /\ wire' \in Seq(Pack)
  <2>1. pack \in Pack /\ Tail(wire) \in Seq(Pack)
    BY <1>1, TailOfSeq
  <2>2. wire' = Tail(wire)
    BY DEF FileDataRawDataCB, NextPack
  <2>3. pack.seq \in 0 .. Packs - 1 /\ pack.seq \in Nat
    BY <2>1, DownloadAssumption DEF Pack
  <2> QED
    BY <2>1, <2>2, <2>3
<1>3. h \in InFileHandler
  BY <1>1, <1>2, AddedInFile, KindOrIdle
<1>4. /\ range' = [range EXCEPT !["data"] = h]
      /\ late' = [late EXCEPT !["data"] = FALSE]
      /\ ParseFileData(pack)
      /\ \/ /\ SendAbortPack
            /\ rx' = [RxIdle EXCEPT !.at = "verdict", !.kind = "data",
                                    !.ok = ~PackLoss(h)]
         \/ UNCHANGED <<cam, rx>>
      /\ UNCHANGED <<queue, path, openable, app, monitors, made, answers, reqCB,
                     downloadState>>
  BY Zenon DEF FileDataRawDataCB, NextPack
<1> HIDE DEF h, pack
<1>5. range' \in [Kinds -> InFileHandler]
  BY <1>1, <1>3, <1>4
<1>6. range' \in [Kinds -> HandlerType]
  BY <1>5, HandlerTypes
<1>7. late' \in [Kinds -> BOOLEAN]
  BY <1>1, <1>4 DEF TypeOK
<1>8. PackLoss(h) \in BOOLEAN
  BY DEF PackLoss
<1>9. rx' \in [at : {"idle", "verdict", "called"}, kind : Kinds, ok : BOOLEAN,
               told : 0 .. MaxRequests, list : Seq(Pack)]
  <2>1. rx \in [at : {"idle", "verdict", "called"}, kind : Kinds, ok : BOOLEAN,
                told : 0 .. MaxRequests, list : Seq(Pack)]
    BY <1>1 DEF TypeOK
  <2> DEFINE ok == ~PackLoss(h)
  <2>2. ok \in BOOLEAN
    BY <1>8
  <2> HIDE DEF ok
  <2>3. [RxIdle EXCEPT !.at = "verdict", !.kind = "data", !.ok = ok]
          \in [at : {"idle", "verdict", "called"}, kind : Kinds, ok : BOOLEAN,
              told : 0 .. MaxRequests, list : Seq(Pack)]
    BY <2>2, KindOrIdle
  <2> QED
    BY <1>4, <2>1, <2>3 DEF ok
<1>10. cam' \in [req : 0 .. MaxRequests, kind : Kinds, next : 0 .. Packs - 1]
  BY <1>1, <1>4, KindOrIdle DEF SendAbortPack
<1>11. /\ mapped' \in [file : 0 .. MaxRequests, pos : Nat]
       /\ disk' \in [Requests -> [1 .. Packs -> Pack \cup {NoPack}]]
  BY <1>2, <1>4, ParseTypes
<1> QED
  BY <1>1, <1>2, <1>4, <1>5, <1>6, <1>7, <1>9, <1>10, <1>11
     DEF TypesKept, TypeOK

LEMMA ReceiveTypes ==
  ASSUME TypesKept, ReceiveThread
  PROVE  TypesKept'
<1>1. /\ TypeOK /\ range \in [Kinds -> InFileHandler] /\ wire \in Seq(Pack)
      /\ rx \in [at : {"idle", "verdict", "called"}, kind : Kinds, ok : BOOLEAN,
                 told : 0 .. MaxRequests, list : Seq(Pack)]
      /\ reqCB \in [Kinds -> 0 .. MaxRequests]
  BY DEF TypesKept, TypeOK
<1>2. CASE IgnorePack
  <2>1. wire' \in Seq(Pack)
    BY <1>1, <1>2, TailOfSeq DEF IgnorePack, NextPack
  <2> QED
    BY <1>1, <1>2, <2>1
       DEF TypesKept, TypeOK, IgnorePack, NextPack, storage
<1>3. CASE RxCallBack
  <2>1. rx' \in [at : {"idle", "verdict", "called"}, kind : Kinds, ok : BOOLEAN,
                 told : 0 .. MaxRequests, list : Seq(Pack)]
    BY <1>1, <1>3 DEF RxCallBack
  <2>2. answers' \in [Requests -> SUBSET {"ok", "error"}]
    BY <1>1, <1>3 DEF TypeOK, RxCallBack, CallBack
  <2> QED
    BY <1>1, <1>3, <2>1, <2>2
       DEF TypesKept, TypeOK, RxCallBack, handlers, storage, camera
<1>4. CASE RxFinish
  <2>1. /\ reqCB' \in [Kinds -> 0 .. MaxRequests]
        /\ downloadState' \in [Kinds -> {"idle", "receiving"}]
    BY <1>1, <1>4, DownloadAssumption DEF TypeOK, RxFinish
  <2>2. rx' \in [at : {"idle", "verdict", "called"}, kind : Kinds, ok : BOOLEAN,
                 told : 0 .. MaxRequests, list : Seq(Pack)]
    BY <1>4, KindOrIdle DEF RxFinish
  <2> QED
    BY <1>1, <1>4, <2>1, <2>2
       DEF TypesKept, TypeOK, RxFinish, storage, camera
<1> QED
  BY <1>2, <1>3, <1>4, ListPackTypes, DataPackTypes DEF ReceiveThread

LEMMA DownloadStepTypes == TypesKept /\ [Next]_vars => TypesKept'
<1> SUFFICES ASSUME TypesKept, [Next]_vars PROVE TypesKept'
  OBVIOUS
<1>1. CASE StartRequest
  BY <1>1, StartTypes
<1>2. CASE PrepareFileList \/ SendReqPack
  BY <1>2, AppTypes
<1>3. CASE \E r \in Requests : Monitor(r)
  BY <1>3, MonitorTypes
<1>4. CASE \E k \in Kinds : Elapse(k)
  BY <1>4, ElapseTypes
<1>5. CASE ReceiveThread
  BY <1>5, ReceiveTypes
<1>6. CASE CameraSends \/ LosePack
  BY <1>6, CameraSendTypes
<1>7. CASE UNCHANGED vars
  BY <1>7 DEF vars, handlers, storage, threads, camera, TypesKept, TypeOK
<1> QED
  BY <1>1, <1>2, <1>3, <1>4, <1>5, <1>6, <1>7 DEF Next, Running

\* Every variable has its type, for any application: in particular a list that
\* is handed on holds packs only, because DequeueAllBuffer stops at the first
\* empty slot, and the camera is only asked for packs that a file has.
THEOREM DownloadTypes == Spec => []TypeOK
<1>1. Init => TypesKept
  BY DownloadInitTypes
<1>2. TypesKept /\ [Next]_vars => TypesKept'
  BY DownloadStepTypes
<1>3. TypesKept => TypeOK
  BY DEF TypesKept
<1> QED
  BY <1>1, <1>2, <1>3, PTL DEF Spec

-----------------------------------------------------------------------------
(* The inductive invariant of an application like the download sample.     *)

\* Nothing is on its way, neither a pack nor a callback.
Quiet ==
  /\ BothIdle /\ rx.at = "idle" /\ cam = CamIdle /\ wire = <<>>
  /\ \A r \in Requests : monitors[r].at \notin {"abort", "called"}

\* The request that was started last has its handler, its callback and its
\* monitor set up.
Engaged == made > 0 /\ app.at # "name"

\* The kind of that request.
Current == monitors[made].kind

\* One transfer at a time: all threads, and all that is on its way, are busy
\* with the latest request, the monitors of earlier ones included.
OneTransfer ==
  /\ ~Engaged => Quiet
  /\ app.at = "send" => app.kind = Current /\ cam = CamIdle /\ wire = <<>>
  /\ app.at # "idle" => made > 0
  /\ app.at = "name" => app.kind = "list"
  /\ Engaged =>
       /\ \A k \in Kinds : downloadState[k] = "receiving" => k = Current
       /\ rx.at # "idle" => rx.kind = Current
       /\ \A r \in Requests :
            monitors[r].at \in {"abort", "called"} => monitors[r].kind = Current
       /\ cam.req # 0 => cam.req = made /\ cam.kind = Current
       /\ \A i \in 1 .. Len(wire) : wire[i].req = made /\ wire[i].kind = Current

\* The receive thread waits for packs of the latest request.
Receiving == Engaged /\ downloadState[Current] = "receiving" /\ rx.at = "idle"

\* While it does, every pack on its way is newer than all that came before: the
\* camera is only ever sent back after a gap, and by then a file is given up.
InOrder ==
  Receiving =>
    /\ app.at = "send" => range[Current].last = 0
    /\ \A i \in 1 .. Len(wire) : range[Current].last <= wire[i].seq
    /\ \A i, j \in 1 .. Len(wire) : i < j => wire[i].seq < wire[j].seq
    /\ cam.req # 0 => /\ range[Current].last <= cam.next
                      /\ \A i \in 1 .. Len(wire) : wire[i].seq < cam.next

\* Pack i of what the latest request asked for.
Asked(i) == [req |-> made, kind |-> Current, seq |-> i]

\* A file that is being received has no gap, and what was received is in it, if
\* it could be opened.
DataKept ==
  Receiving /\ Current = "data" =>
    /\ path = made /\ range["data"].ranges = <<>>
    /\ range["data"].last \in 0 .. Packs
    /\ made \in openable =>
         /\ range["data"].last > 0 =>
              mapped = [file |-> made, pos |-> range["data"].last]
         /\ \A i \in 1 .. Packs :
              i <= range["data"].last => disk[made][i] = Asked(i - 1)

\* The ring of a list that is being received holds nothing that did not come,
\* and all of it as long as there is no gap.
ListKept ==
  Receiving /\ Current = "list" =>
    /\ queue.expect = 0 /\ queue.head = 0
    /\ range["list"].last <= QueueSize
    /\ \A s \in Slots : range["list"].last <= s => queue.slots[s] = NoPack
    /\ range["list"].ranges = <<>> =>
         \A s \in Slots :
           s < range["list"].last => queue.slots[s] = Asked(s)

\* What the receive thread is about to tell, or has told.
VerdictKept ==
  /\ rx.at # "idle" /\ rx.kind = "data" /\ rx.ok /\ made \in openable =>
       disk[made] = Whole(made, "data")
  /\ rx.at # "idle" /\ rx.kind = "list" => rx.list = Whole(made, "list")
  /\ rx.at = "called" => rx.told \in {0, made}

\* No callback is lost: it is taken away only once it has been called.
AnswersKept ==
  /\ \A r \in 1 .. made - 1 : answers[r] # {}
  /\ Engaged =>
       /\ reqCB[Current] \in {0, made}
       /\ reqCB[Current] = 0 => answers[made] # {}
       /\ downloadState[Current] = "idle" => answers[made] # {}
       /\ rx.at = "called" => answers[made] # {}
       /\ \A r \in Requests : monitors[r].at = "called" => answers[made] # {}

TransferKept ==
  /\ OneTransfer /\ InOrder /\ DataKept /\ ListKept /\ VerdictKept
  /\ AnswersKept

DownloadInv == TypesKept /\ TransferKept

\* What the types say of the variables that the invariant looks at.
LEMMA TypesOf ==
  ASSUME TypesKept
  PROVE  /\ downloadState \in [Kinds -> {"idle", "receiving"}]
         /\ reqCB \in [Kinds -> 0 .. MaxRequests]
         /\ range \in [Kinds -> InFileHandler]
         /\ queue \in QueueType(Pack)
         /\ path \in 0 .. MaxRequests
         /\ mapped \in [file : 0 .. MaxRequests, pos : Nat]
         /\ disk \in [Requests -> [1 .. Packs -> Pack \cup {NoPack}]]
         /\ app \in [at : {"idle", "name", "send"}, kind : Kinds]
         /\ monitors \in [Requests ->
              [at : {"none", "created", "poll", "abort", "called"},
               kind : Kinds]]
         /\ rx \in [at : {"idle", "verdict", "called"}, kind : Kinds,
                    ok : BOOLEAN, told : 0 .. MaxRequests, list : Seq(Pack)]
         /\ made \in 0 .. MaxRequests
         /\ answers \in [Requests -> SUBSET {"ok", "error"}]
         /\ cam \in [req : 0 .. MaxRequests, kind : Kinds, next : 0 .. Packs - 1]
         /\ wire \in Seq(Pack)
  BY DEF TypesKept, TypeOK

LEMMA LatestRequest ==
  ASSUME TypesKept
  PROVE  Engaged => made \in Requests /\ made \in Nat /\ Current \in Kinds
<1>1. /\ made \in 0 .. MaxRequests
      /\ monitors \in [Requests ->
           [at : {"none", "created", "poll", "abort", "called"}, kind : Kinds]]
  BY TypesOf
<1> SUFFICES ASSUME Engaged
             PROVE  made \in Requests /\ made \in Nat /\ Current \in Kinds
  OBVIOUS
<1>2. made \in Requests /\ made \in Nat
  BY <1>1, DownloadAssumption DEF Engaged, Requests
<1> QED
  BY <1>1, <1>2 DEF Current

LEMMA InvariantStarts == Init => TransferKept
<1> SUFFICES ASSUME Init PROVE TransferKept
  OBVIOUS
<1>1. ~Engaged /\ Quiet /\ made = 0 /\ app.at = "idle" /\ rx.at = "idle"
  BY DEF Init, Engaged, Quiet, BothIdle, AppIdle, RxIdle
<1>2. OneTransfer
  BY <1>1 DEF OneTransfer
<1>3. InOrder /\ DataKept /\ ListKept
  BY <1>1 DEF InOrder, DataKept, ListKept, Receiving
<1>4. VerdictKept /\ AnswersKept
  BY <1>1 DEF VerdictKept, AnswersKept
<1> QED
  BY <1>2, <1>3, <1>4 DEF TransferKept

-----------------------------------------------------------------------------
(* The application thread keeps the invariant.                             *)

\* Before a request is started nothing is left of the ones before.
LEMMA NothingPending ==
  ASSUME DownloadInv, SampleStart
  PROVE  /\ Quiet /\ StartRequest /\ made \in Nat
         /\ \A r \in 1 .. made : answers[r] # {}
<1>1. made \in Nat
  BY TypesOf DEF DownloadInv
<1>2. Quiet /\ StartRequest
  BY DEF SampleStart, Settled, Quiet
<1>3. \A r \in 1 .. made : answers[r] # {}
  <2> TAKE r \in 1 .. made
  <2>1. r = made \/ r \in 1 .. made - 1
    BY <1>1
  <2>2. made > 0 /\ (made > 0 => answers[made] # {})
    BY <1>1 DEF SampleStart
  <2> QED
    BY <2>1, <2>2 DEF DownloadInv, TransferKept, AnswersKept
<1> QED
  BY <1>1, <1>2, <1>3

LEMMA StartListKeeps ==
  ASSUME DownloadInv, SampleStart, StartReqFileList
  PROVE  TransferKept'
<1>1. /\ Quiet /\ made \in Nat /\ \A r \in 1 .. made : answers[r] # {}
  BY NothingPending
<1>2. /\ made' = made + 1 /\ app' = [at |-> "name", kind |-> "list"]
      /\ UNCHANGED <<downloadState, rx, cam, wire, monitors, answers>>
  BY DEF StartReqFileList, handlers, camera
<1>3. ~Engaged' /\ Quiet' /\ rx'.at = "idle"
  BY <1>1, <1>2 DEF Engaged, Quiet, BothIdle
<1>4. OneTransfer'
  BY <1>1, <1>2, <1>3 DEF OneTransfer
<1>5. (InOrder /\ DataKept /\ ListKept)'
  BY <1>3 DEF InOrder, DataKept, ListKept, Receiving
<1>6. VerdictKept'
  BY <1>3 DEF VerdictKept
<1>7. AnswersKept'
  <2>1. made' - 1 = made
    BY <1>1, <1>2
  <2> QED
    BY <1>1, <1>2, <1>3, <2>1 DEF AnswersKept
<1> QED
  BY <1>4, <1>5, <1>6, <1>7 DEF TransferKept

LEMMA StartDataKeeps ==
  ASSUME DownloadInv, SampleStart, StartReqFileData
  PROVE  TransferKept'
<1>1. /\ Quiet /\ made \in Nat /\ \A r \in 1 .. made : answers[r] # {}
  BY NothingPending
<1>2. /\ made < MaxRequests
      /\ made' = made + 1 /\ path' = made + 1
      /\ app' = [at |-> "send", kind |-> "data"]
      /\ downloadState' = [downloadState EXCEPT !["data"] = "receiving"]
      /\ reqCB' = [reqCB EXCEPT !["data"] = made + 1]
      /\ range' = [range EXCEPT !["data"] = NoPackReceived]
      /\ monitors' = [monitors EXCEPT
                        ![made + 1] = [at |-> "created", kind |-> "data"]]
      /\ UNCHANGED <<queue, mapped, disk, rx, answers, cam, wire>>
  BY DEF StartReqFileData, camera
<1>3. made + 1 \in Requests
  BY <1>1, <1>2, DownloadAssumption DEF Requests
<1>4. /\ Engaged' /\ Current' = "data" /\ rx'.at = "idle"
      /\ wire' = <<>> /\ cam' = CamIdle
  BY <1>1, <1>2, <1>3, TypesOf DEF Engaged, Current, Quiet, DownloadInv
<1>5. /\ downloadState'["list"] = "idle" /\ downloadState'["data"] = "receiving"
      /\ reqCB'["data"] = made' /\ made' > 0
      /\ range'["data"] = [ranges |-> <<>>, last |-> 0]
  BY <1>1, <1>2, TypesOf
     DEF Quiet, BothIdle, DownloadInv, Kinds, NoPackReceived
<1>6. \A r \in Requests : monitors'[r].at \notin {"abort", "called"}
  BY <1>1, <1>2, TypesOf DEF Quiet, DownloadInv
<1>7. OneTransfer'
  BY <1>2, <1>4, <1>5, <1>6 DEF OneTransfer, Kinds, CamIdle
<1>8. InOrder'
  BY <1>4, <1>5 DEF InOrder, CamIdle
<1>9. DataKept'
  BY <1>2, <1>4, <1>5, DownloadAssumption DEF DataKept
<1>10. ListKept' /\ VerdictKept'
  BY <1>4 DEF ListKept, VerdictKept
<1>11. AnswersKept'
  <2>1. made' - 1 = made
    BY <1>1, <1>2
  <2> QED
    BY <1>1, <1>2, <1>4, <1>5, <1>6, <2>1 DEF AnswersKept
<1> QED
  BY <1>7, <1>8, <1>9, <1>10, <1>11 DEF TransferKept

LEMMA PrepareKeeps ==
  ASSUME DownloadInv, PrepareFileList
  PROVE  TransferKept'
<1>1. /\ app.at = "name" /\ app'.at = "send" /\ app'.kind = app.kind
      /\ downloadState' = [downloadState EXCEPT !["list"] = "receiving"]
      /\ queue' = InitBufferQueue(0)
      /\ reqCB' = [reqCB EXCEPT !["list"] = made]
      /\ range' = [range EXCEPT !["list"] = NoPackReceived]
      /\ monitors' = [monitors EXCEPT
                        ![made] = [at |-> "created", kind |-> "list"]]
      /\ UNCHANGED <<rx, made, answers, cam, wire>>
  BY TypesOf DEF PrepareFileList, camera, DownloadInv
<1>2. /\ Quiet /\ made > 0 /\ made \in Nat /\ made \in Requests
  BY <1>1, TypesOf, DownloadAssumption
     DEF DownloadInv, TransferKept, OneTransfer, Engaged, Requests
<1>3. /\ Engaged' /\ Current' = "list" /\ rx'.at = "idle"
      /\ wire' = <<>> /\ cam' = CamIdle
  BY <1>1, <1>2, TypesOf DEF Engaged, Current, Quiet, DownloadInv
<1>4. /\ downloadState'["data"] = "idle" /\ downloadState'["list"] = "receiving"
      /\ reqCB'["list"] = made'
      /\ range'["list"] = [ranges |-> <<>>, last |-> 0]
  BY <1>1, <1>2, TypesOf
     DEF Quiet, BothIdle, DownloadInv, Kinds, NoPackReceived
<1>5. \A r \in Requests : monitors'[r].at \notin {"abort", "called"}
  BY <1>1, <1>2, TypesOf DEF Quiet, DownloadInv
<1>6. app'.kind = "list"
  BY <1>1 DEF DownloadInv, TransferKept, OneTransfer
<1>7. OneTransfer'
  BY <1>1, <1>2, <1>3, <1>4, <1>5, <1>6 DEF OneTransfer, Kinds, CamIdle
<1>8. InOrder'
  BY <1>3, <1>4 DEF InOrder, CamIdle
<1>9. ListKept'
  <2>1. 0 % QueueSize = 0 /\ QueueSize \in Nat
    BY QueueAssumption
  <2>2. queue' = [slots |-> [s \in Slots |-> NoPack], expect |-> 0, head |-> 0]
    BY <1>1, <2>1 DEF InitBufferQueue
  <2>3. range'["list"].last = 0
    BY <1>4
  <2> QED
    BY <2>1, <2>2, <2>3, QueueAssumption DEF ListKept, Slots
<1>10. DataKept' /\ VerdictKept'
  BY <1>3 DEF DataKept, VerdictKept
<1>11. AnswersKept'
  <2>1. \A r \in 1 .. made - 1 : answers[r] # {}
    BY DEF DownloadInv, TransferKept, AnswersKept
  <2> QED
    BY <1>1, <1>2, <1>3, <1>4, <1>5, <2>1 DEF AnswersKept
<1> QED
  BY <1>7, <1>8, <1>9, <1>10, <1>11 DEF TransferKept

LEMMA SendKeeps ==
  ASSUME DownloadInv, SendReqPack
  PROVE  TransferKept'
<1>1. /\ app.at = "send" /\ app' = AppIdle
      /\ cam' \in {cam, [req |-> made, kind |-> app.kind, next |-> 0]}
      /\ UNCHANGED <<downloadState, reqCB, range, queue, path, openable, mapped,
                     disk, monitors, rx, made, answers, wire>>
  BY DEF SendReqPack, handlers, storage
<1>2. /\ Engaged /\ app.kind = Current /\ cam = CamIdle /\ wire = <<>>
  BY <1>1 DEF DownloadInv, TransferKept, OneTransfer, Engaged
<1>3. Engaged' /\ Current' = Current /\ (Receiving' <=> Receiving)
      /\ app'.at = "idle"
  BY <1>1, <1>2 DEF Engaged, Current, Receiving, AppIdle
<1>4. /\ cam'.req # 0 => cam'.req = made /\ cam'.kind = Current
                         /\ cam'.next = 0
  BY <1>1, <1>2 DEF CamIdle
<1>5. OneTransfer'
  BY <1>1, <1>2, <1>3, <1>4 DEF DownloadInv, TransferKept, OneTransfer
<1>6. InOrder'
  <2>1. Receiving => range[Current].last = 0
    BY <1>1 DEF DownloadInv, TransferKept, InOrder
  <2> QED
    BY <1>1, <1>2, <1>3, <1>4, <2>1 DEF InOrder
<1>7. (DataKept /\ ListKept)'
  BY <1>1, <1>3 DEF DownloadInv, TransferKept, DataKept, ListKept, Asked
<1>8. (VerdictKept /\ AnswersKept)'
  BY <1>1, <1>2, <1>3
     DEF DownloadInv, TransferKept, VerdictKept, AnswersKept, Whole
<1> QED
  BY <1>5, <1>6, <1>7, <1>8 DEF TransferKept

-----------------------------------------------------------------------------
(* The monitor threads and time keep it.                                   *)

\* A monitor that moves stays the monitor of its kind.
LEMMA MonitorMoves ==
  ASSUME DownloadInv, NEW r \in Requests, NEW where,
         monitors' = [monitors EXCEPT ![r].at = where],
         UNCHANGED <<made, app>>
  PROVE  /\ \A s \in Requests : /\ monitors'[s].kind = monitors[s].kind
                                /\ s # r => monitors'[s].at = monitors[s].at
         /\ monitors'[r].at = where
         /\ Engaged' <=> Engaged
         /\ Engaged => Current' = Current
<1>1. monitors \in [Requests ->
        [at : {"none", "created", "poll", "abort", "called"}, kind : Kinds]]
  BY TypesOf DEF DownloadInv
<1>2. \A s \in Requests : monitors'[s] =
        IF s = r THEN [at |-> where, kind |-> monitors[s].kind] ELSE monitors[s]
  BY <1>1
<1>3. Engaged' <=> Engaged
  BY DEF Engaged
<1>4. Engaged => Current' = Current
  BY <1>2, LatestRequest DEF Current, DownloadInv
<1>5. \A s \in Requests : /\ monitors'[s].kind = monitors[s].kind
                          /\ s # r => monitors'[s].at = monitors[s].at
  BY <1>2
<1>6. monitors'[r].at = where
  <2>1. monitors'[r] = [at |-> where, kind |-> monitors[r].kind]
    BY <1>2
  <2>2. [at |-> where, kind |-> monitors[r].kind].at = where
    OBVIOUS
  <2> QED
    BY <2>1, <2>2, Zenon
<1> QED
  BY <1>3, <1>4, <1>5, <1>6, Zenon

\* What a monitor may do without harm: start, exit or begin to give up.
LEMMA MonitorQuietKeeps ==
  ASSUME DownloadInv, NEW r \in Requests,
         MonitorStart(r) \/ MonitorTimeout(r) \/ MonitorExit(r)
  PROVE  TransferKept'
<1> DEFINE where == monitors'[r].at
<1>1. /\ monitors' = [monitors EXCEPT ![r].at = where]
      /\ where \in {"none", "poll", "abort"}
      /\ where = "abort" => downloadState[monitors[r].kind] = "receiving"
      /\ cam' \in {cam, CamIdle}
      /\ UNCHANGED <<downloadState, reqCB, range, queue, path, openable, mapped,
                     disk, app, rx, made, answers, wire>>
  <2>1. PICK w \in {"none", "poll", "abort"} :
          /\ monitors' = [monitors EXCEPT ![r].at = w]
          /\ w = "abort" => downloadState[monitors[r].kind] = "receiving"
    BY DEF MonitorStart, MonitorTimeout, MonitorExit
  <2>2. where = w
    BY <2>1, TypesOf DEF DownloadInv
  <2>3. cam' \in {cam, CamIdle}
    BY DEF MonitorStart, MonitorTimeout, MonitorExit, SendAbortPack, camera
  <2>4. UNCHANGED <<downloadState, reqCB, range, queue, path, openable, mapped,
                    disk, app, rx, made, answers, wire>>
    BY DEF MonitorStart, MonitorTimeout, MonitorExit, handlers, storage, camera
  <2> QED
    BY <2>1, <2>2, <2>3, <2>4
<1> HIDE DEF where
<1>2. /\ \A s \in Requests : /\ monitors'[s].kind = monitors[s].kind
                             /\ s # r => monitors'[s].at = monitors[s].at
      /\ monitors'[r].at = where
      /\ Engaged' <=> Engaged
      /\ Engaged => Current' = Current
  BY <1>1, MonitorMoves
<1>3. monitors[r].kind \in Kinds /\ (Engaged => Current \in Kinds)
  BY TypesOf, LatestRequest DEF DownloadInv
<1>4. Receiving' <=> Receiving
  BY <1>1, <1>2 DEF Receiving
<1>5. Quiet => Quiet'
  BY <1>1, <1>2, <1>3 DEF Quiet, BothIdle
<1>6. OneTransfer
  BY DEF DownloadInv, TransferKept
<1>7. OneTransfer'
  <2>1. ~Engaged' => Quiet'
    BY <1>2, <1>5, <1>6 DEF OneTransfer
  <2>2. app'.at = "send" => app'.kind = Current' /\ cam' = CamIdle /\ wire' = <<>>
    <3>1. app'.at = "send" => Engaged
      BY <1>1, <1>6 DEF OneTransfer, Engaged
    <3> QED
      BY <1>1, <1>2, <1>6, <3>1 DEF OneTransfer
  <2>3. /\ app'.at # "idle" => made' > 0
        /\ app'.at = "name" => app'.kind = "list"
    BY <1>1, <1>6 DEF OneTransfer
  <2>4. ASSUME Engaged
        PROVE  \A s \in Requests :
                 monitors'[s].at \in {"abort", "called"}
                   => monitors'[s].kind = Current'
    <3> SUFFICES ASSUME NEW s \in Requests,
                        monitors'[s].at \in {"abort", "called"}
                 PROVE  monitors'[s].kind = Current'
      OBVIOUS
    <3>1. CASE s = r
      <4>1. where = "abort"
        BY <1>1, <1>2, <3>1
      <4> QED
        BY <1>1, <1>2, <1>3, <1>6, <2>4, <3>1, <4>1 DEF OneTransfer
    <3>2. CASE s # r
      BY <1>2, <1>6, <2>4, <3>2 DEF OneTransfer
    <3> QED
      BY <3>1, <3>2
  <2>5. Engaged => (cam'.req # 0 => cam'.req = made' /\ cam'.kind = Current')
    BY <1>1, <1>2, <1>6 DEF OneTransfer, CamIdle
  <2>6. Engaged =>
          /\ \A k \in Kinds : downloadState'[k] = "receiving" => k = Current'
          /\ rx'.at # "idle" => rx'.kind = Current'
          /\ \A i \in 1 .. Len(wire') :
               wire'[i].req = made' /\ wire'[i].kind = Current'
    BY <1>1, <1>2, <1>6 DEF OneTransfer
  <2> QED
    BY <1>2, <2>1, <2>2, <2>3, <2>4, <2>5, <2>6 DEF OneTransfer
<1>8. InOrder'
  <2>1. cam'.req # 0 => cam' = cam
    BY <1>1 DEF CamIdle
  <2>2. Receiving' => Engaged /\ Receiving
    BY <1>4 DEF Receiving
  <2> QED
    BY <1>1, <1>2, <2>1, <2>2 DEF DownloadInv, TransferKept, InOrder
<1>9. (DataKept /\ ListKept)'
  <2>1. Receiving' => Engaged /\ Receiving
    BY <1>4 DEF Receiving
  <2> QED
    BY <1>1, <1>2, <2>1
       DEF DownloadInv, TransferKept, DataKept, ListKept, Asked
<1>10. (VerdictKept /\ AnswersKept)'
  BY <1>1, <1>2
     DEF DownloadInv, TransferKept, VerdictKept, AnswersKept, Whole
<1> QED
  BY <1>7, <1>8, <1>9, <1>10 DEF TransferKept

\* A monitor that gives up calls the callback of the latest request, if it has
\* not been called before.
LEMMA MonitorCallBackKeeps ==
  ASSUME DownloadInv, NEW r \in Requests, MonitorCallBack(r)
  PROVE  TransferKept'
<1>1. /\ monitors[r].at = "abort"
      /\ monitors' = [monitors EXCEPT ![r].at = "called"]
      /\ CallBack(reqCB[monitors[r].kind], "error")
      /\ UNCHANGED <<downloadState, reqCB, range, queue, path, openable, mapped,
                     disk, app, rx, made, cam, wire>>
  BY DEF MonitorCallBack, handlers, storage, camera
<1>2. /\ \A s \in Requests : /\ monitors'[s].kind = monitors[s].kind
                             /\ s # r => monitors'[s].at = monitors[s].at
      /\ monitors'[r].at = "called"
      /\ Engaged' <=> Engaged
      /\ Engaged => Current' = Current
  BY <1>1, MonitorMoves
<1>3. OneTransfer /\ AnswersKept
  BY DEF DownloadInv, TransferKept
<1>4. Engaged /\ monitors[r].kind = Current
  BY <1>1, <1>3 DEF OneTransfer, Quiet
<1>5. Receiving' <=> Receiving
  BY <1>1, <1>2, <1>4 DEF Receiving
<1>6. OneTransfer'
  <2>1. \A s \in Requests :
          monitors'[s].at \in {"abort", "called"} => monitors'[s].kind = Current'
    BY <1>1, <1>2, <1>3, <1>4 DEF OneTransfer
  <2> QED
    BY <1>1, <1>2, <1>3, <1>4, <2>1 DEF OneTransfer
<1>7. (InOrder /\ DataKept /\ ListKept /\ VerdictKept)'
  BY <1>1, <1>2, <1>4, <1>5
     DEF DownloadInv, TransferKept, InOrder, DataKept, ListKept, Asked,
         VerdictKept, Whole
<1>8. AnswersKept'
  <2>1. /\ made \in Requests /\ made \in Nat
        /\ answers \in [Requests -> SUBSET {"ok", "error"}]
    BY <1>4, LatestRequest, TypesOf DEF DownloadInv
  <2>2. \A s \in Requests : answers[s] \subseteq answers'[s]
    BY <1>1, <2>1 DEF CallBack
  <2>3. answers'[made] # {}
    <3>1. CASE reqCB[Current] = 0
      BY <1>3, <1>4, <2>1, <2>2, <3>1 DEF AnswersKept
    <3>2. CASE reqCB[Current] # 0
      <4>1. reqCB[monitors[r].kind] = made /\ made # 0
        BY <1>3, <1>4, <3>2 DEF AnswersKept
      <4>2. answers' = [answers EXCEPT ![made] = @ \cup {"error"}]
        BY <1>1, <4>1 DEF CallBack
      <4> QED
        BY <2>1, <4>2
    <3> QED
      BY <3>1, <3>2
  <2>4. \A s \in 1 .. made - 1 : answers'[s] # {}
    <3> TAKE s \in 1 .. made - 1
    <3>1. s \in Requests
      BY <2>1, DownloadAssumption DEF Requests
    <3> QED
      BY <3>1, <1>3, <2>2 DEF AnswersKept
  <2> QED
    BY <1>1, <1>2, <1>3, <1>4, <2>3, <2>4 DEF AnswersKept
<1> QED
  BY <1>6, <1>7, <1>8 DEF TransferKept

LEMMA MonitorFinishKeeps ==
  ASSUME DownloadInv, NEW r \in Requests, MonitorFinish(r)
  PROVE  TransferKept'
<1>1. /\ monitors[r].at = "called"
      /\ monitors' = [monitors EXCEPT ![r].at = "poll"]
      /\ downloadState' = [downloadState EXCEPT ![monitors[r].kind] = "idle"]
      /\ UNCHANGED <<reqCB, range, queue, path, openable, mapped, disk, app, rx,
                     made, answers, cam, wire>>
  BY DEF MonitorFinish, storage, camera
<1>2. /\ \A s \in Requests : /\ monitors'[s].kind = monitors[s].kind
                             /\ s # r => monitors'[s].at = monitors[s].at
      /\ monitors'[r].at = "poll"
      /\ Engaged' <=> Engaged
      /\ Engaged => Current' = Current
  BY <1>1, MonitorMoves
<1>3. OneTransfer /\ AnswersKept
  BY DEF DownloadInv, TransferKept
<1>4. /\ Engaged /\ monitors[r].kind = Current /\ Current \in Kinds
  BY <1>1, <1>3, LatestRequest DEF OneTransfer, Quiet, DownloadInv
<1>5. /\ downloadState'[Current] = "idle" /\ ~Receiving'
      /\ \A k \in Kinds :
           downloadState'[k] = "receiving" => downloadState[k] = "receiving"
  BY <1>1, <1>2, <1>4, TypesOf DEF Receiving, DownloadInv
<1>6. OneTransfer'
  <2>1. \A s \in Requests :
          monitors'[s].at \in {"abort", "called"} => monitors'[s].kind = Current'
    BY <1>1, <1>2, <1>3, <1>4 DEF OneTransfer
  <2> QED
    BY <1>1, <1>2, <1>3, <1>4, <1>5, <2>1 DEF OneTransfer
<1>7. (InOrder /\ DataKept /\ ListKept)'
  BY <1>5 DEF InOrder, DataKept, ListKept
<1>8. VerdictKept'
  BY <1>1, <1>2, <1>4 DEF DownloadInv, TransferKept, VerdictKept, Whole
<1>9. AnswersKept'
  <2>1. answers[made] # {}
    BY <1>1, <1>3, <1>4 DEF AnswersKept
  <2> QED
    BY <1>1, <1>2, <1>3, <1>4, <2>1 DEF AnswersKept
<1> QED
  BY <1>6, <1>7, <1>8, <1>9 DEF TransferKept

\* The camera is sent back to a gap only once the receive thread has given the
\* file up.
LEMMA SendMissedKeeps ==
  ASSUME DownloadInv, NEW r \in Requests, SendMissedAckPack(r)
  PROVE  TransferKept'
<1>1. /\ downloadState["data"] = "receiving" /\ range["data"].ranges # <<>>
      /\ cam.req # 0
      /\ cam' \in {cam, [cam EXCEPT !.next = range["data"].ranges[1].seq]}
      /\ UNCHANGED <<downloadState, reqCB, range, queue, path, openable, mapped,
                     disk, app, monitors, rx, made, answers, wire>>
  BY DEF SendMissedAckPack, handlers, storage, threads
<1>2. OneTransfer /\ DataKept
  BY DEF DownloadInv, TransferKept
<1>3. Engaged /\ Current = "data"
  BY <1>1, <1>2, KindOrIdle DEF OneTransfer, Quiet, BothIdle
<1>4. rx.at # "idle" /\ ~Receiving
  BY <1>1, <1>2, <1>3 DEF DataKept, Receiving
<1>5. Engaged' /\ Current' = Current /\ ~Receiving'
  BY <1>1, <1>3, <1>4 DEF Engaged, Current, Receiving
<1>6. cam'.req = cam.req /\ cam'.kind = cam.kind
  BY <1>1, TypesOf DEF DownloadInv
<1>7. app.at # "send"
  BY <1>1, <1>2 DEF OneTransfer, CamIdle
<1>8. OneTransfer'
  BY <1>1, <1>2, <1>3, <1>5, <1>6, <1>7 DEF OneTransfer
<1>9. (InOrder /\ DataKept /\ ListKept)'
  BY <1>5 DEF InOrder, DataKept, ListKept
<1>10. (VerdictKept /\ AnswersKept)'
  BY <1>1, <1>3, <1>5
     DEF DownloadInv, TransferKept, VerdictKept, AnswersKept, Whole
<1> QED
  BY <1>8, <1>9, <1>10 DEF TransferKept

LEMMA NothingMovesKeeps ==
  ASSUME DownloadInv,
         UNCHANGED <<downloadState, reqCB, range, queue, path, openable, mapped,
                     disk, app, monitors, rx, made, answers, cam, wire>>
  PROVE  TransferKept'
<1>1. /\ Engaged' <=> Engaged
      /\ Current' = Current /\ (Receiving' <=> Receiving) /\ (Quiet' <=> Quiet)
  BY DEF Engaged, Current, Receiving, Quiet, BothIdle
<1>2. OneTransfer' /\ InOrder'
  BY <1>1 DEF DownloadInv, TransferKept, OneTransfer, InOrder
<1>3. DataKept' /\ ListKept'
  BY <1>1 DEF DownloadInv, TransferKept, DataKept, ListKept, Asked
<1>4. VerdictKept' /\ AnswersKept'
  BY <1>1 DEF DownloadInv, TransferKept, VerdictKept, AnswersKept, Whole
<1> QED
  BY <1>2, <1>3, <1>4 DEF TransferKept

-----------------------------------------------------------------------------
(* The camera and the link keep it.                                        *)

LEMMA CameraSendsKeeps ==
  ASSUME DownloadInv, CameraSends
  PROVE  TransferKept'
<1> DEFINE p == [req |-> cam.req, kind |-> cam.kind, seq |-> cam.next]
<1>1. /\ cam.req # 0 /\ wire' = Append(wire, p)
      /\ cam' = IF cam.next = Packs - 1 THEN CamIdle
                ELSE [cam EXCEPT !.next = @ + 1]
      /\ UNCHANGED <<downloadState, reqCB, range, queue, path, openable, mapped,
                     disk, app, monitors, rx, made, answers>>
  BY DEF CameraSends, handlers, storage, threads
<1>2. OneTransfer /\ InOrder
  BY DEF DownloadInv, TransferKept
<1>3. /\ Engaged /\ cam.req = made /\ cam.kind = Current /\ app.at # "send"
  BY <1>1, <1>2 DEF OneTransfer, Quiet, CamIdle
<1>4. /\ Engaged' /\ Current' = Current /\ (Receiving' <=> Receiving)
  BY <1>1, <1>3 DEF Engaged, Current, Receiving
<1>5. /\ wire \in Seq(Pack) /\ cam.next \in Nat
      /\ cam \in [req : 0 .. MaxRequests, kind : Kinds, next : 0 .. Packs - 1]
      /\ p \in Pack
  <2>1. /\ wire \in Seq(Pack)
        /\ cam \in [req : 0 .. MaxRequests, kind : Kinds, next : 0 .. Packs - 1]
    BY TypesOf DEF DownloadInv
  <2>2. cam.next \in Nat /\ p \in Pack
    BY <1>1, <2>1, DownloadAssumption DEF Pack, Requests
  <2> QED
    BY <2>1, <2>2
<1>6. /\ p.req = made /\ p.kind = Current /\ p.seq = cam.next
  BY <1>3
<1> HIDE DEF p
<1>7. /\ Len(wire') = Len(wire) + 1 /\ Len(wire) \in Nat
      /\ \A i \in 1 .. Len(wire) : wire'[i] = wire[i]
      /\ wire'[Len(wire) + 1] = p
  BY <1>1, <1>5
<1>8. \A i \in 1 .. Len(wire') : i \in 1 .. Len(wire) \/ i = Len(wire) + 1
  BY <1>7
<1>9. cam'.req # 0 => /\ cam'.req = made /\ cam'.kind = Current
                      /\ cam'.next = cam.next + 1
  BY <1>1, <1>3, <1>5 DEF CamIdle
<1>10. OneTransfer'
  <2>1. \A i \in 1 .. Len(wire') :
          wire'[i].req = made' /\ wire'[i].kind = Current'
    <3> TAKE i \in 1 .. Len(wire')
    <3>1. CASE i \in 1 .. Len(wire)
      BY <1>1, <1>2, <1>3, <1>4, <1>7, <3>1 DEF OneTransfer
    <3>2. CASE i = Len(wire) + 1
      BY <1>1, <1>4, <1>6, <1>7, <3>2
    <3> QED
      BY <1>8, <3>1, <3>2
  <2> QED
    BY <1>1, <1>2, <1>3, <1>4, <1>9, <2>1 DEF OneTransfer
<1>11. InOrder'
  <2> SUFFICES ASSUME Receiving PROVE InOrder'
    BY <1>4 DEF InOrder
  <2> DEFINE last == range[Current].last
  <2>1. range'[Current'].last = last /\ last <= cam.next /\ last \in Nat
    <3>1. Current \in Kinds
      BY <1>3, LatestRequest DEF DownloadInv
    <3>2. range[Current] \in InFileHandler
      BY <3>1, TypesOf DEF DownloadInv
    <3>3. last \in Nat
      BY <3>2, DownloadAssumption DEF InFileHandler
    <3> QED
      BY <1>1, <1>2, <1>4, <3>3 DEF InOrder
  <2>2. /\ \A i \in 1 .. Len(wire) : last <= wire[i].seq
        /\ \A i, j \in 1 .. Len(wire) : i < j => wire[i].seq < wire[j].seq
        /\ \A i \in 1 .. Len(wire) : wire[i].seq < cam.next
    BY <1>1, <1>2 DEF InOrder
  <2> HIDE DEF last
  <2>3. \A i \in 1 .. Len(wire) : wire[i].seq \in Nat
    <3>1. \A a \in Pack : a.seq \in Nat
      BY DownloadAssumption DEF Pack
    <3>2. \A i \in 1 .. Len(wire) : wire[i] \in Pack
      BY <1>5
    <3> QED
      BY <3>1, <3>2
  <2>4. \A i \in 1 .. Len(wire') : last <= wire'[i].seq
    <3> TAKE i \in 1 .. Len(wire')
    <3>1. CASE i \in 1 .. Len(wire)
      BY <1>7, <2>2, <3>1
    <3>2. CASE i = Len(wire) + 1
      BY <1>6, <1>7, <2>1, <3>2
    <3> QED
      BY <1>8, <3>1, <3>2
  <2>5. \A i, j \in 1 .. Len(wire') : i < j => wire'[i].seq < wire'[j].seq
    <3> SUFFICES ASSUME NEW i \in 1 .. Len(wire'), NEW j \in 1 .. Len(wire'),
                        i < j
                 PROVE  wire'[i].seq < wire'[j].seq
      OBVIOUS
    <3>1. i \in 1 .. Len(wire)
      BY <1>7
    <3>2. CASE j \in 1 .. Len(wire)
      BY <1>7, <2>2, <3>1, <3>2
    <3>3. CASE j = Len(wire) + 1
      BY <1>6, <1>7, <2>2, <3>1, <3>3
    <3> QED
      BY <1>8, <3>2, <3>3
  <2>6. \A i \in 1 .. Len(wire') : wire'[i].seq < cam.next + 1
    <3> TAKE i \in 1 .. Len(wire')
    <3>1. CASE i \in 1 .. Len(wire)
      <4>1. wire'[i].seq < cam.next /\ wire'[i].seq \in Nat
        BY <1>7, <2>2, <2>3, <3>1
      <4> QED
        BY <4>1, <1>5
    <3>2. CASE i = Len(wire) + 1
      BY <1>5, <1>6, <1>7, <3>2
    <3> QED
      BY <1>8, <3>1, <3>2
  <2>7. last <= cam.next + 1
    BY <2>1, <1>5
  <2> QED
    BY <1>1, <1>3, <1>9, <2>1, <2>4, <2>5, <2>6, <2>7 DEF InOrder
<1>12. (DataKept /\ ListKept)'
  BY <1>1, <1>4 DEF DownloadInv, TransferKept, DataKept, ListKept, Asked
<1>13. (VerdictKept /\ AnswersKept)'
  BY <1>1, <1>3, <1>4
     DEF DownloadInv, TransferKept, VerdictKept, AnswersKept, Whole
<1> QED
  BY <1>10, <1>11, <1>12, <1>13 DEF TransferKept

\* A pack leaves the link, lost, ignored or about to be used: those behind it
\* are still in order.
LEMMA TailInOrder ==
  ASSUME DownloadInv, Len(wire) > 0
  PROVE  /\ Engaged /\ app.at # "send" /\ Current \in Kinds
         /\ Head(wire) \in Pack /\ Head(wire).seq \in Nat
         /\ Head(wire).seq \in 0 .. Packs - 1
         /\ Head(wire).req = made /\ Head(wire).kind = Current
         /\ Head(wire) = Asked(Head(wire).seq)
         /\ Tail(wire) \in Seq(Pack)
         /\ \A i \in 1 .. Len(Tail(wire)) :
              /\ Tail(wire)[i] \in Pack /\ Tail(wire)[i].seq \in Nat
              /\ Tail(wire)[i].req = made /\ Tail(wire)[i].kind = Current
         /\ Receiving =>
              /\ range[Current].last <= Head(wire).seq
              /\ \A i \in 1 .. Len(Tail(wire)) :
                   /\ range[Current].last <= Tail(wire)[i].seq
                   /\ Head(wire).seq + 1 <= Tail(wire)[i].seq
              /\ \A i, j \in 1 .. Len(Tail(wire)) :
                   i < j => Tail(wire)[i].seq < Tail(wire)[j].seq
              /\ cam.req # 0 =>
                   /\ Head(wire).seq + 1 <= cam.next
                   /\ \A i \in 1 .. Len(Tail(wire)) :
                        Tail(wire)[i].seq < cam.next
<1>1. /\ wire \in Seq(Pack)
      /\ cam \in [req : 0 .. MaxRequests, kind : Kinds, next : 0 .. Packs - 1]
  BY TypesOf DEF DownloadInv
<1>2. OneTransfer /\ InOrder
  BY DEF DownloadInv, TransferKept
<1>3. Len(wire) \in Nat /\ 1 \in 1 .. Len(wire) /\ wire # <<>>
  BY <1>1
<1>4. Engaged /\ app.at # "send" /\ Current \in Kinds
  BY <1>2, <1>3, LatestRequest DEF OneTransfer, Quiet, DownloadInv
<1> DEFINE t == Tail(wire)
<1>5. /\ Head(wire) \in Pack /\ Head(wire) = wire[1]
      /\ t \in Seq(Pack) /\ Len(t) = Len(wire) - 1
      /\ \A i \in 1 .. Len(wire) - 1 : t[i] = wire[i + 1]
  BY <1>1, TailOfSeq
<1> HIDE DEF t
<1>6. \A i \in 1 .. Len(t) : i + 1 \in 1 .. Len(wire) /\ t[i] = wire[i + 1]
                             /\ 1 < i + 1
  BY <1>3, <1>5
<1>7. \A i \in 1 .. Len(wire) :
        /\ wire[i] \in Pack /\ wire[i].seq \in Nat
        /\ wire[i].req = made /\ wire[i].kind = Current
  <2>1. \A i \in 1 .. Len(wire) : wire[i] \in Pack
    BY <1>1
  <2>2. \A i \in 1 .. Len(wire) : wire[i].seq \in Nat
    <3>1. \A p \in Pack : p.seq \in Nat
      BY DownloadAssumption DEF Pack
    <3> QED
      BY <2>1, <3>1
  <2> QED
    BY <1>2, <1>4, <2>1, <2>2 DEF OneTransfer
<1>8. /\ Head(wire).seq \in Nat /\ Head(wire).seq \in 0 .. Packs - 1
      /\ Head(wire).req = made /\ Head(wire).kind = Current
  BY <1>3, <1>5, <1>7 DEF Pack
<1>9. Head(wire) = Asked(Head(wire).seq)
  BY <1>5, <1>8 DEF Pack, Asked
<1>10. ASSUME Receiving
       PROVE  /\ range[Current].last <= Head(wire).seq
              /\ \A i \in 1 .. Len(t) :
                   /\ range[Current].last <= t[i].seq
                   /\ Head(wire).seq + 1 <= t[i].seq
              /\ \A i, j \in 1 .. Len(t) : i < j => t[i].seq < t[j].seq
              /\ cam.req # 0 =>
                   /\ Head(wire).seq + 1 <= cam.next
                   /\ \A i \in 1 .. Len(t) : t[i].seq < cam.next
  <2>1. /\ \A i \in 1 .. Len(wire) : range[Current].last <= wire[i].seq
        /\ \A i, j \in 1 .. Len(wire) : i < j => wire[i].seq < wire[j].seq
        /\ cam.req # 0 => \A i \in 1 .. Len(wire) : wire[i].seq < cam.next
    BY <1>2, <1>10 DEF InOrder
  <2>2. \A i \in 1 .. Len(t) : wire[1].seq < t[i].seq /\ t[i].seq \in Nat
    BY <1>3, <1>6, <1>7, <2>1
  <2>3. \A i \in 1 .. Len(t) : range[Current].last <= t[i].seq
    BY <1>6, <2>1
  <2>4. \A i \in 1 .. Len(t) : Head(wire).seq + 1 <= t[i].seq
    BY <1>5, <1>8, <2>2
  <2>5. \A i, j \in 1 .. Len(t) : i < j => t[i].seq < t[j].seq
    <3> SUFFICES ASSUME NEW i \in 1 .. Len(t), NEW j \in 1 .. Len(t), i < j
                 PROVE  t[i].seq < t[j].seq
      OBVIOUS
    <3>1. /\ i + 1 \in 1 .. Len(wire) /\ j + 1 \in 1 .. Len(wire)
          /\ i + 1 < j + 1 /\ t[i] = wire[i + 1] /\ t[j] = wire[j + 1]
      BY <1>6
    <3> QED
      BY <2>1, <3>1
  <2>6. cam.req # 0 => /\ Head(wire).seq + 1 <= cam.next
                       /\ \A i \in 1 .. Len(t) : t[i].seq < cam.next
    <3>1. cam.next \in Nat
      BY <1>1
    <3>2. cam.req # 0 => Head(wire).seq < cam.next
      BY <1>3, <1>5, <2>1
    <3> QED
      BY <1>6, <1>8, <2>1, <3>1, <3>2
  <2> QED
    BY <1>3, <1>5, <2>1, <2>3, <2>4, <2>5, <2>6
<1>11. \A i \in 1 .. Len(t) : /\ t[i] \in Pack /\ t[i].seq \in Nat
                              /\ t[i].req = made /\ t[i].kind = Current
  BY <1>6, <1>7
<1> QED
  BY <1>4, <1>5, <1>8, <1>9, <1>10, <1>11 DEF t

\* LosePack, and IgnorePack of the receive thread.
LEMMA PackGoneKeeps ==
  ASSUME DownloadInv, Len(wire) > 0, wire' = Tail(wire),
         UNCHANGED <<downloadState, reqCB, range, queue, path, openable, mapped,
                     disk, app, monitors, rx, made, answers, cam>>
  PROVE  TransferKept'
<1>1. /\ Engaged /\ app.at # "send"
      /\ \A i \in 1 .. Len(wire') :
           wire'[i].req = made /\ wire'[i].kind = Current
  BY TailInOrder
<1>2. /\ Engaged' /\ Current' = Current /\ (Receiving' <=> Receiving)
  BY <1>1 DEF Engaged, Current, Receiving
<1>3. OneTransfer /\ InOrder
  BY DEF DownloadInv, TransferKept
<1>4. OneTransfer'
  BY <1>1, <1>2, <1>3 DEF OneTransfer
<1>5. InOrder'
  <2>1. Receiving =>
          /\ \A i \in 1 .. Len(wire') : range[Current].last <= wire'[i].seq
          /\ \A i, j \in 1 .. Len(wire') :
               i < j => wire'[i].seq < wire'[j].seq
          /\ cam.req # 0 => \A i \in 1 .. Len(wire') : wire'[i].seq < cam.next
    BY TailInOrder
  <2> QED
    BY <1>1, <1>2, <1>3, <2>1 DEF InOrder
<1>6. (DataKept /\ ListKept)'
  BY <1>2 DEF DownloadInv, TransferKept, DataKept, ListKept, Asked
<1>7. (VerdictKept /\ AnswersKept)'
  BY <1>1, <1>2
     DEF DownloadInv, TransferKept, VerdictKept, AnswersKept, Whole
<1> QED
  BY <1>4, <1>5, <1>6, <1>7 DEF TransferKept

-----------------------------------------------------------------------------
(* The receive thread keeps it.                                            *)

\* The ring of a list that is received whole is handed on whole.
LEMMA WholeListDequeued ==
  ASSUME NEW q \in QueueType(Pack), q.expect = 0, q.head = 0,
         Packs <= QueueSize, NEW F, F \in [0 .. Packs - 1 -> Pack],
         \A s \in Slots : q.slots[s] = IF s < Packs THEN F[s] ELSE NoPack
  PROVE  DequeuedPacks(q) = [i \in 1 .. Packs |-> F[i - 1]]
<1>1. QueueSize \in Nat /\ QueueSize > 0 /\ Packs \in Nat /\ Packs > 0
  BY QueueAssumption, DownloadAssumption
<1>2. \A i \in 0 .. QueueSize - 1 : i \in Slots /\ SlotOf(q, q.expect + i) = i
  <2> TAKE i \in 0 .. QueueSize - 1
  <2>1. q.head + ((q.expect + i) - q.expect) = i /\ i % QueueSize = i
    BY <1>1
  <2> QED
    BY <2>1 DEF SlotOf, Slots
<1>3. \A i \in 0 .. QueueSize - 1 :
        q.slots[SlotOf(q, q.expect + i)] # NoPack <=> i < Packs
  <2> TAKE i \in 0 .. QueueSize - 1
  <2>1. q.slots[SlotOf(q, q.expect + i)] = IF i < Packs THEN F[i] ELSE NoPack
    BY <1>2
  <2>2. i < Packs => F[i] \in Pack
    BY <1>1
  <2> QED
    BY <2>1, <2>2, NoPackAssumption
<1> DEFINE Ends(n) ==
      /\ \A i \in 0 .. n - 1 : q.slots[SlotOf(q, q.expect + i)] # NoPack
      /\ n = QueueSize \/ q.slots[SlotOf(q, q.expect + n)] = NoPack
<1>4. Packs \in 0 .. QueueSize /\ Ends(Packs)
  BY <1>1, <1>3
<1>5. \A n \in 0 .. QueueSize : Ends(n) => n = Packs
  <2> SUFFICES ASSUME NEW n \in 0 .. QueueSize, Ends(n) PROVE n = Packs
    OBVIOUS
  <2>1. CASE n < Packs
    BY <1>1, <1>3, <2>1
  <2>2. CASE Packs < n
    BY <1>1, <1>3, <2>2
  <2> QED
    BY <1>1, <2>1, <2>2
<1>6. Consecutive(q) = Packs
  <2>1. Consecutive(q) = CHOOSE n \in 0 .. QueueSize : Ends(n)
    BY DEF Consecutive
  <2> HIDE DEF Ends
  <2> QED
    BY <1>4, <1>5, <2>1
<1>7. \A i \in 1 .. Packs : q.slots[SlotOf(q, q.expect + i - 1)] = F[i - 1]
  <2> TAKE i \in 1 .. Packs
  <2>1. /\ i - 1 \in 0 .. QueueSize - 1 /\ i - 1 < Packs
        /\ q.expect + i - 1 = q.expect + (i - 1)
    BY <1>1
  <2> QED
    BY <1>2, <2>1
<1> QED
  BY <1>6, <1>7 DEF DequeuedPacks

\* A pack of a list goes into its place in the ring, or both structures refuse
\* it; a list without a gap is handed on when its last pack has come.
LEMMA ListPackKeeps ==
  ASSUME DownloadInv, FileListRawDataCB
  PROVE  TransferKept'
<1> DEFINE pack == Head(wire)
           n == pack.seq
           q == InsertBlock(queue, n, pack)
           h == AddSeqIndex(range["list"], n, ConfirmLimit(q))
<1>1. /\ rx.at = "idle" /\ Len(wire) > 0 /\ wire' = Tail(wire)
      /\ pack.kind = "list" /\ downloadState["list"] = "receiving"
      /\ range' = [range EXCEPT !["list"] = h]
      /\ \/ /\ ListFinished(pack, h) /\ cam' \in {cam, CamIdle}
            /\ rx' = [RxIdle EXCEPT !.at = "verdict", !.list = DequeuedPacks(q)]
         \/ queue' = q /\ cam' = cam /\ rx' = rx
      /\ UNCHANGED <<path, openable, mapped, disk, app, monitors, made, answers,
                     reqCB, downloadState>>
  BY Zenon DEF FileListRawDataCB, NextPack, SendAbortPack
<1>2. /\ Engaged /\ app.at # "send" /\ Current \in Kinds
      /\ pack \in Pack /\ n \in Nat /\ n \in 0 .. Packs - 1
      /\ Current = "list" /\ pack = Asked(n)
  BY <1>1, TailInOrder
<1>3. Receiving
  BY <1>1, <1>2 DEF Receiving
<1>4. /\ range["list"].last <= n
      /\ wire' \in Seq(Pack)
      /\ \A i \in 1 .. Len(wire') :
           /\ wire'[i].seq \in Nat
           /\ wire'[i].req = made /\ wire'[i].kind = Current
           /\ range["list"].last <= wire'[i].seq
           /\ n + 1 <= wire'[i].seq
      /\ \A i, j \in 1 .. Len(wire') : i < j => wire'[i].seq < wire'[j].seq
      /\ cam.req # 0 => /\ n + 1 <= cam.next
                        /\ \A i \in 1 .. Len(wire') : wire'[i].seq < cam.next
  BY <1>1, <1>2, <1>3, TailInOrder
<1>5. OneTransfer /\ ListKept /\ VerdictKept /\ AnswersKept /\ TypesKept
  BY DEF DownloadInv, TransferKept
<1>6. /\ queue.expect = 0 /\ queue.head = 0
      /\ range["list"].last <= QueueSize
      /\ \A s \in Slots : range["list"].last <= s => queue.slots[s] = NoPack
      /\ range["list"].ranges = <<>> =>
           \A s \in Slots : s < range["list"].last => queue.slots[s] = Asked(s)
  BY <1>2, <1>3, <1>5 DEF ListKept
<1>7. /\ range["list"] \in InFileHandler /\ queue \in QueueType(Pack)
      /\ range \in [Kinds -> InFileHandler]
      /\ cam \in [req : 0 .. MaxRequests, kind : Kinds, next : 0 .. Packs - 1]
  BY <1>5, TypesOf, KindOrIdle
<1>8. QueueSize \in Nat /\ QueueSize > 0 /\ range["list"].last \in Nat
  BY <1>7, QueueAssumption, DownloadAssumption DEF InFileHandler
<1>9. q = IF n < QueueSize THEN [queue EXCEPT !.slots[n] = pack] ELSE queue
  <2>1. InWindow(queue, n) <=> n < QueueSize
    BY <1>2, <1>6, <1>8 DEF InWindow
  <2>2. n < QueueSize => SlotOf(queue, n) = n
    <3>1. queue.head + (n - queue.expect) = n
      BY <1>2, <1>6
    <3>2. n < QueueSize => n % QueueSize = n
      BY <1>2, <1>8
    <3> QED
      BY <3>1, <3>2 DEF SlotOf
  <2> QED
    BY <2>1, <2>2 DEF InsertBlock
<1>10. /\ q \in QueueType(Pack) /\ q.expect = 0 /\ q.head = 0
       /\ \A s \in Slots : q.slots[s] = IF s = n THEN pack ELSE queue.slots[s]
  <2>1. CASE n < QueueSize
    <3>1. n \in Slots /\ queue.slots \in [Slots -> Pack \cup {NoPack}]
      <4> HIDE DEF n, pack
      <4>1. n \in Slots
        BY <1>2, <1>8, <2>1 DEF Slots
      <4>2. queue.slots \in [Slots -> Pack \cup {NoPack}]
        BY <1>7 DEF QueueType
      <4> QED
        BY <4>1, <4>2
    <3> DEFINE f == [queue.slots EXCEPT ![n] = pack]
    <3>2. q = [slots |-> f, expect |-> queue.expect, head |-> queue.head]
      BY <1>7, <1>9, <2>1 DEF QueueType
    <3>3. /\ f \in [Slots -> Pack \cup {NoPack}]
          /\ \A s \in Slots : f[s] = IF s = n THEN pack ELSE queue.slots[s]
      BY <1>2, <3>1
    <3> HIDE DEF f, q
    <3> QED
      BY <1>6, <1>7, <3>2, <3>3 DEF QueueType
  <2>2. CASE ~(n < QueueSize)
    BY <1>2, <1>6, <1>7, <1>8, <1>9, <2>2 DEF Slots
  <2> QED
    BY <2>1, <2>2
<1>11. ConfirmLimit(q) = QueueSize - 1 /\ ConfirmLimit(q) \in Nat
  BY <1>8, <1>10 DEF ConfirmLimit
<1>12. /\ n >= QueueSize => h = range["list"]
       /\ n < QueueSize =>
            /\ h.last = n + 1
            /\ h.ranges = <<>> <=>
                 range["list"].ranges = <<>> /\ n = range["list"].last
  <2> DEFINE limit == ConfirmLimit(q)
  <2>1. limit \in Nat /\ h = AddSeqIndex(range["list"], n, limit)
        /\ (n > limit <=> n >= QueueSize) /\ (n <= limit <=> n < QueueSize)
    BY <1>2, <1>8, <1>11
  <2> HIDE DEF limit, h
  <2>2. /\ n > limit => h = range["list"]
        /\ n <= limit => /\ h.last = n + 1
                         /\ h.ranges = <<>> <=>
                              range["list"].ranges = <<>>
                              /\ n = range["list"].last
    BY <1>2, <1>4, <1>7, <2>1, AddedInOrder
  <2> QED
    BY <2>1, <2>2
<1>13. range'["list"] = h
  BY <1>1, <1>7, KindOrIdle
<1> HIDE DEF h, q, n, pack
<1>14. /\ h.last <= QueueSize /\ h.last \in Nat
       /\ \A s \in Slots : h.last <= s => q.slots[s] = NoPack
       /\ h.ranges = <<>> =>
            \A s \in Slots : s < h.last => q.slots[s] = Asked(s)
  <2>1. CASE n >= QueueSize
    <3>1. \A s \in Slots : s # n /\ s \in Nat
      BY <1>2, <1>8, <2>1 DEF Slots
    <3> QED
      BY <1>6, <1>8, <1>10, <1>12, <2>1, <3>1
  <2>2. CASE n < QueueSize
    <3>1. h.last = n + 1 /\ h.last <= QueueSize /\ h.last \in Nat
      BY <1>2, <1>8, <1>12, <2>2
    <3>2. \A s \in Slots : s \in Nat
      BY <1>8 DEF Slots
    <3>3. \A s \in Slots : h.last <= s => q.slots[s] = NoPack
      <4> SUFFICES ASSUME NEW s \in Slots, h.last <= s
                   PROVE  q.slots[s] = NoPack
        OBVIOUS
      <4>1. s # n /\ range["list"].last <= s
        BY <1>2, <1>4, <1>8, <3>1, <3>2
      <4> QED
        BY <1>6, <1>10, <4>1
    <3>4. ASSUME h.ranges = <<>>, NEW s \in Slots, s < h.last
          PROVE  q.slots[s] = Asked(s)
      <4>1. range["list"].ranges = <<>> /\ n = range["list"].last
        BY <1>12, <2>2, <3>4
      <4>2. CASE s = n
        BY <1>2, <1>10, <4>2
      <4>3. CASE s # n
        <5>1. s < range["list"].last
          BY <1>2, <3>1, <3>2, <3>4, <4>1, <4>3
        <5> QED
          BY <1>6, <1>10, <4>1, <4>3, <5>1
      <4> QED
        BY <4>2, <4>3
    <3> QED
      BY <3>1, <3>3, <3>4
  <2> QED
    BY <1>2, <1>8, <2>1, <2>2
<1>15. /\ Engaged' /\ Current' = Current /\ made' = made /\ app' = app
  BY <1>1, <1>2 DEF Engaged, Current
<1>16. CASE queue' = q /\ cam' = cam /\ rx' = rx
  <2>1. Receiving'
    BY <1>1, <1>3, <1>15, <1>16 DEF Receiving
  <2>2. OneTransfer'
    BY <1>1, <1>2, <1>4, <1>5, <1>15, <1>16 DEF OneTransfer
  <2>3. InOrder'
    <3>1. \A i \in 1 .. Len(wire') : h.last <= wire'[i].seq
      <4> TAKE i \in 1 .. Len(wire')
      <4>1. h.last = range["list"].last \/ h.last = n + 1
        BY <1>2, <1>8, <1>12
      <4> QED
        BY <1>4, <4>1
    <3>2. cam.req # 0 => h.last <= cam.next
      <4>1. h.last = range["list"].last \/ h.last = n + 1
        BY <1>2, <1>8, <1>12
      <4>2. cam.next \in Nat
        BY <1>7
      <4> QED
        BY <1>2, <1>4, <1>8, <4>1, <4>2
    <3> QED
      BY <1>2, <1>4, <1>13, <1>15, <1>16, <3>1, <3>2 DEF InOrder
  <2>4. DataKept'
    BY <1>2, <1>15 DEF DataKept
  <2>5. ListKept'
    BY <1>10, <1>13, <1>14, <1>15, <1>16 DEF ListKept, Asked
  <2>6. (VerdictKept /\ AnswersKept)'
    BY <1>1, <1>2, <1>5, <1>15, <1>16 DEF VerdictKept, AnswersKept, Whole
  <2> QED
    BY <2>2, <2>3, <2>4, <2>5, <2>6 DEF TransferKept
<1>17. CASE /\ ListFinished(pack, h) /\ cam' \in {cam, CamIdle}
            /\ rx' = [RxIdle EXCEPT !.at = "verdict", !.list = DequeuedPacks(q)]
  <2>1. /\ rx'.at = "verdict" /\ rx'.kind = "list"
        /\ rx'.list = DequeuedPacks(q)
    BY <1>17 DEF RxIdle
  <2>2. ~Receiving'
    BY <2>1 DEF Receiving
  <2>3. OneTransfer'
    <3>1. cam'.req # 0 => cam'.req = made /\ cam'.kind = Current
      BY <1>2, <1>5, <1>17 DEF OneTransfer, CamIdle
    <3> QED
      BY <1>1, <1>2, <1>4, <1>5, <1>15, <2>1, <3>1 DEF OneTransfer
  <2>4. (InOrder /\ DataKept /\ ListKept)'
    BY <2>2 DEF InOrder, DataKept, ListKept
  <2>5. n = Packs - 1 /\ h.last = Packs /\ h.ranges = <<>>
    <3>1. n = Packs - 1 /\ h.last = n + 1 /\ h.ranges = <<>>
      BY <1>17 DEF ListFinished, ReachedEnd, n
    <3> QED
      BY <3>1, DownloadAssumption
  <2>6. DequeuedPacks(q) = Whole(made, "list")
    <3> DEFINE F == [s \in 0 .. Packs - 1 |-> Asked(s)]
    <3>1. F \in [0 .. Packs - 1 -> Pack]
      <4>1. made \in Requests
        BY <1>2, <1>5, LatestRequest
      <4>2. \A s \in 0 .. Packs - 1 : Asked(s) \in Pack
        BY <1>2, <4>1 DEF Asked, Pack
      <4> QED
        BY <4>2
    <3>2. \A s \in Slots : q.slots[s] = IF s < Packs THEN F[s] ELSE NoPack
      <4> TAKE s \in Slots
      <4>1. s \in Nat /\ Packs \in Nat
        BY <1>8, DownloadAssumption DEF Slots
      <4>2. CASE s < Packs
        <5>1. s \in 0 .. Packs - 1 /\ q.slots[s] = Asked(s)
          BY <1>14, <2>5, <4>1, <4>2
        <5> QED
          BY <4>2, <5>1
      <4>3. CASE ~(s < Packs)
        BY <1>14, <2>5, <4>1, <4>3
      <4> QED
        BY <4>2, <4>3
    <3>3. Packs <= QueueSize
      BY <1>14, <2>5
    <3> HIDE DEF F
    <3>4. DequeuedPacks(q) = [i \in 1 .. Packs |-> F[i - 1]]
      BY <1>10, <3>1, <3>2, <3>3, WholeListDequeued
    <3>5. \A i \in 1 .. Packs :
            F[i - 1] = [req |-> made, kind |-> "list", seq |-> i - 1]
      BY <1>2, DownloadAssumption DEF F, Asked
    <3> QED
      BY <3>4, <3>5 DEF Whole
  <2>7. VerdictKept'
    BY <1>15, <2>1, <2>6 DEF VerdictKept, Whole
  <2>8. AnswersKept'
    BY <1>1, <1>2, <1>5, <1>15, <2>1 DEF AnswersKept
  <2> QED
    BY <2>3, <2>4, <2>7, <2>8 DEF TransferKept
<1> QED
  BY <1>1, <1>16, <1>17

\* A pack that leaves no gap is written behind those before it, in the file of
\* the latest request; one that leaves a gap ends the download.
LEMMA DataPackKeeps ==
  ASSUME DownloadInv, FileDataRawDataCB
  PROVE  TransferKept'
<1> DEFINE pack == Head(wire)
           n == pack.seq
           h == AddSeqIndex(range["data"], n, n)
<1>1. /\ rx.at = "idle" /\ Len(wire) > 0 /\ wire' = Tail(wire)
      /\ pack.kind = "data" /\ downloadState["data"] = "receiving"
      /\ range' = [range EXCEPT !["data"] = h]
      /\ ParseFileData(pack)
      /\ \/ /\ PackLoss(h) \/ ReachedEnd(pack, h)
            /\ cam' \in {cam, CamIdle}
            /\ rx' = [RxIdle EXCEPT !.at = "verdict", !.kind = "data",
                                    !.ok = ~PackLoss(h)]
         \/ ~PackLoss(h) /\ cam' = cam /\ rx' = rx
      /\ UNCHANGED <<queue, path, openable, app, monitors, made, answers, reqCB,
                     downloadState>>
  BY Zenon DEF FileDataRawDataCB, NextPack, SendAbortPack
<1>2. /\ Engaged /\ app.at # "send" /\ Current \in Kinds
      /\ pack \in Pack /\ n \in Nat /\ n \in 0 .. Packs - 1
      /\ Current = "data" /\ pack = Asked(n)
  BY <1>1, TailInOrder
<1>3. Receiving
  BY <1>1, <1>2 DEF Receiving
<1>4. /\ range["data"].last <= n
      /\ wire' \in Seq(Pack)
      /\ \A i \in 1 .. Len(wire') :
           /\ wire'[i].req = made /\ wire'[i].kind = Current
           /\ n + 1 <= wire'[i].seq
      /\ \A i, j \in 1 .. Len(wire') : i < j => wire'[i].seq < wire'[j].seq
      /\ cam.req # 0 => /\ n + 1 <= cam.next
                        /\ \A i \in 1 .. Len(wire') : wire'[i].seq < cam.next
  BY <1>1, <1>2, <1>3, TailInOrder
<1>5. OneTransfer /\ DataKept /\ AnswersKept /\ TypesKept
  BY DEF DownloadInv, TransferKept
<1>6. /\ path = made /\ range["data"].ranges = <<>>
      /\ range["data"].last \in 0 .. Packs
      /\ made \in openable =>
           /\ range["data"].last > 0 =>
                mapped = [file |-> made, pos |-> range["data"].last]
           /\ \A i \in 1 .. Packs :
                i <= range["data"].last => disk[made][i] = Asked(i - 1)
  BY <1>2, <1>3, <1>5 DEF DataKept
<1>7. /\ range["data"] \in InFileHandler /\ range \in [Kinds -> InFileHandler]
      /\ disk \in [Requests -> [1 .. Packs -> Pack \cup {NoPack}]]
      /\ made \in Requests /\ made \in Nat /\ Packs \in Nat /\ Packs > 0
  <2>1. /\ range \in [Kinds -> InFileHandler]
        /\ disk \in [Requests -> [1 .. Packs -> Pack \cup {NoPack}]]
    BY <1>5, TypesOf
  <2>2. range["data"] \in InFileHandler
    BY <2>1, KindOrIdle
  <2>3. made \in Requests /\ made \in Nat /\ Packs \in Nat /\ Packs > 0
    BY <1>2, <1>5, LatestRequest, DownloadAssumption
  <2> QED
    BY <2>1, <2>2, <2>3
<1>8. /\ h.last = n + 1
      /\ h.ranges = <<>> <=> n = range["data"].last
  <2>1. h = AddSeqIndex(range["data"], n, n) /\ n <= n
    BY <1>2
  <2> HIDE DEF h, n
  <2> QED
    BY <1>2, <1>4, <1>6, <1>7, <2>1, AddedInOrder
<1>9. range'["data"] = h
  BY <1>1, <1>7, KindOrIdle
<1>10. PackLoss(h) <=> h.ranges # <<>>
  BY DEF PackLoss
<1>11. /\ Engaged' /\ Current' = Current /\ made' = made /\ app' = app
  BY <1>1, <1>2 DEF Engaged, Current
<1>12. ASSUME ~PackLoss(h), made \in openable
       PROVE  /\ n = range["data"].last
              /\ mapped' = [file |-> made, pos |-> n + 1]
              /\ \A i \in 1 .. Packs : i <= n + 1 => disk'[made][i] = Asked(i - 1)
              /\ disk'[made] \in [1 .. Packs -> Pack \cup {NoPack}]
  <2>1. n = range["data"].last
    BY <1>8, <1>10, <1>12
  <2>2. MapFile(pack) = [file |-> made, pos |-> n]
    BY <1>2, <1>6, <1>12, <2>1 DEF MapFile
  <2>3. /\ mapped' = [file |-> made, pos |-> n + 1]
        /\ disk' = [disk EXCEPT ![made][n + 1] = pack]
    <3> DEFINE m == MapFile(pack)
    <3>1. m.file = made /\ m.pos = n /\ m.file # 0 /\ m.pos < Packs
      BY <1>2, <1>7, <2>2, DownloadAssumption DEF Requests
    <3>2. /\ mapped' = [m EXCEPT !.pos = @ + 1]
          /\ disk' = [disk EXCEPT ![m.file][m.pos + 1] = pack]
      BY <1>1, <3>1 DEF ParseFileData
    <3> HIDE DEF m, n, pack
    <3>3. [m EXCEPT !.pos = @ + 1] = [file |-> made, pos |-> n + 1]
      BY <2>2 DEF m
    <3> QED
      BY <3>1, <3>2, <3>3, Zenon
  <2> DEFINE row == [disk[made] EXCEPT ![n + 1] = pack]
  <2>4. disk' = [disk EXCEPT ![made] = row]
    BY <2>3
  <2>5. disk'[made] = row
    <3> HIDE DEF row
    <3> QED
      BY <1>7, <2>4
  <2>6. /\ row \in [1 .. Packs -> Pack \cup {NoPack}]
        /\ \A i \in 1 .. Packs : row[i] = IF i = n + 1 THEN pack ELSE disk[made][i]
    <3>1. disk[made] \in [1 .. Packs -> Pack \cup {NoPack}]
      BY <1>7
    <3>2. pack \in Pack
      BY <1>2
    <3> HIDE DEF pack, n
    <3> QED
      BY <3>1, <3>2
  <2> HIDE DEF row
  <2>7. ASSUME NEW i \in 1 .. Packs, i <= n + 1
        PROVE  disk'[made][i] = Asked(i - 1)
    <3>0. i \in Nat
      BY <1>7
    <3>1. CASE i = n + 1
      <4>1. i - 1 = n
        BY <1>2, <3>1
      <4> QED
        BY <1>2, <2>5, <2>6, <3>1, <4>1
    <3>2. CASE i # n + 1
      <4> HIDE DEF n, pack
      <4>1. i <= n
        BY <1>2, <2>7, <3>0, <3>2
      <4> QED
        BY <1>6, <1>12, <2>1, <2>5, <2>6, <3>2, <4>1
    <3> QED
      BY <3>1, <3>2
  <2> QED
    BY <2>1, <2>3, <2>5, <2>6, <2>7
<1> HIDE DEF h, n, pack
<1>13. CASE ~PackLoss(h) /\ cam' = cam /\ rx' = rx
  <2>1. OneTransfer'
    BY <1>1, <1>2, <1>4, <1>5, <1>11, <1>13 DEF OneTransfer
  <2>2. InOrder'
    BY <1>2, <1>4, <1>8, <1>9, <1>11, <1>13 DEF InOrder
  <2>3. DataKept'
    <3>1. n + 1 \in 0 .. Packs /\ h.ranges = <<>>
      BY <1>2, <1>7, <1>10, <1>13
    <3> QED
      BY <1>1, <1>6, <1>8, <1>9, <1>11, <1>12, <1>13, <3>1 DEF DataKept, Asked
  <2>4. ListKept'
    BY <1>2, <1>11 DEF ListKept
  <2>5. VerdictKept'
    BY <1>1, <1>13 DEF VerdictKept
  <2>6. AnswersKept'
    BY <1>1, <1>2, <1>5, <1>11, <1>13 DEF AnswersKept
  <2> QED
    BY <2>1, <2>2, <2>3, <2>4, <2>5, <2>6 DEF TransferKept
<1>14. CASE /\ PackLoss(h) \/ ReachedEnd(pack, h)
            /\ cam' \in {cam, CamIdle}
            /\ rx' = [RxIdle EXCEPT !.at = "verdict", !.kind = "data",
                                    !.ok = ~PackLoss(h)]
  <2>1. /\ rx'.at = "verdict" /\ rx'.kind = "data"
        /\ rx'.ok = ~PackLoss(h)
    <3> DEFINE ok == ~PackLoss(h)
    <3>1. rx' = [RxIdle EXCEPT !.at = "verdict", !.kind = "data", !.ok = ok]
      BY <1>14
    <3> HIDE DEF ok
    <3>2. rx'.at = "verdict" /\ rx'.kind = "data" /\ rx'.ok = ok
      BY <3>1 DEF RxIdle
    <3> QED
      BY <3>2 DEF ok
  <2>2. ~Receiving'
    BY <2>1 DEF Receiving
  <2>3. OneTransfer'
    <3>1. cam'.req # 0 => cam'.req = made /\ cam'.kind = Current
      BY <1>2, <1>5, <1>14 DEF OneTransfer, CamIdle
    <3> QED
      BY <1>1, <1>2, <1>4, <1>5, <1>11, <2>1, <3>1 DEF OneTransfer
  <2>4. (InOrder /\ DataKept /\ ListKept)'
    BY <2>2 DEF InOrder, DataKept, ListKept
  <2>5. ASSUME ~PackLoss(h), made \in openable
        PROVE  disk'[made] = Whole(made, "data")
    <3>1. n + 1 = Packs
      <4>1. n = Packs - 1
        BY <1>14, <2>5 DEF ReachedEnd, n
      <4> QED
        BY <1>2, <1>7, <4>1
    <3>2. \A i \in 1 .. Packs : disk'[made][i] = Asked(i - 1)
      BY <1>7, <1>12, <2>5, <3>1
    <3>3. disk'[made] \in [1 .. Packs -> Pack \cup {NoPack}]
      BY <1>12, <2>5
    <3> QED
      BY <1>2, <3>2, <3>3 DEF Whole, Asked
  <2>6. VerdictKept'
    BY <1>1, <1>11, <2>1, <2>5 DEF VerdictKept, Whole
  <2>7. AnswersKept'
    BY <1>1, <1>2, <1>5, <1>11, <2>1 DEF AnswersKept
  <2> QED
    BY <2>3, <2>4, <2>6, <2>7 DEF TransferKept
<1> QED
  BY <1>1, <1>13, <1>14

LEMMA RxCallBackKeeps ==
  ASSUME DownloadInv, RxCallBack
  PROVE  TransferKept'
<1> DEFINE result == IF rx.ok THEN "ok" ELSE "error"
<1>1. /\ rx.at = "verdict"
      /\ CallBack(reqCB[rx.kind], result)
      /\ rx' = [rx EXCEPT !.at = "called", !.told = reqCB[rx.kind]]
      /\ UNCHANGED <<downloadState, reqCB, range, queue, path, openable, mapped,
                     disk, app, monitors, made, cam, wire>>
  BY DEF RxCallBack, handlers, storage, camera
<1> HIDE DEF result
<1>2. OneTransfer /\ VerdictKept /\ AnswersKept
  BY DEF DownloadInv, TransferKept
<1>3. Engaged /\ rx.kind = Current
  BY <1>1, <1>2 DEF OneTransfer, Quiet
<1>4. /\ rx'.at = "called" /\ rx'.kind = rx.kind /\ rx'.ok = rx.ok
      /\ rx'.list = rx.list /\ rx'.told = reqCB[Current]
  BY <1>1, <1>3, TypesOf DEF DownloadInv
<1>5. /\ Engaged' /\ Current' = Current /\ ~Receiving'
  BY <1>1, <1>3, <1>4 DEF Engaged, Current, Receiving
<1>6. OneTransfer'
  BY <1>1, <1>2, <1>3, <1>4, <1>5 DEF OneTransfer
<1>7. (InOrder /\ DataKept /\ ListKept)'
  BY <1>5 DEF InOrder, DataKept, ListKept
<1>8. VerdictKept'
  BY <1>1, <1>2, <1>3, <1>4 DEF VerdictKept, AnswersKept, Whole
<1>9. AnswersKept'
  <2>1. /\ made \in Requests /\ made \in Nat
        /\ answers \in [Requests -> SUBSET {"ok", "error"}]
    BY <1>3, LatestRequest, TypesOf DEF DownloadInv
  <2>2. \A s \in Requests : answers[s] \subseteq answers'[s]
    BY <1>1, <2>1 DEF CallBack
  <2>3. answers'[made] # {}
    <3>1. CASE reqCB[Current] = 0
      BY <1>2, <1>3, <2>1, <2>2, <3>1 DEF AnswersKept
    <3>2. CASE reqCB[Current] # 0
      <4>1. reqCB[rx.kind] = made /\ made # 0
        BY <1>2, <1>3, <3>2 DEF AnswersKept
      <4>2. answers' = [answers EXCEPT ![made] = @ \cup {result}]
        BY <1>1, <4>1 DEF CallBack
      <4> QED
        BY <2>1, <4>2
    <3> QED
      BY <3>1, <3>2
  <2>4. \A s \in 1 .. made - 1 : answers'[s] # {}
    <3> TAKE s \in 1 .. made - 1
    <3>1. s \in Requests
      BY <2>1, DownloadAssumption DEF Requests
    <3> QED
      BY <3>1, <1>2, <2>2 DEF AnswersKept
  <2> QED
    BY <1>1, <1>2, <1>3, <1>5, <2>3, <2>4 DEF AnswersKept
<1> QED
  BY <1>6, <1>7, <1>8, <1>9 DEF TransferKept

LEMMA RxFinishKeeps ==
  ASSUME DownloadInv, RxFinish
  PROVE  TransferKept'
<1>1. /\ rx.at = "called" /\ rx' = RxIdle
      /\ reqCB' = IF rx.told = 0 THEN reqCB ELSE [reqCB EXCEPT ![rx.kind] = 0]
      /\ downloadState' = [downloadState EXCEPT ![rx.kind] = "idle"]
      /\ UNCHANGED <<range, queue, path, openable, mapped, disk, app, monitors,
                     made, answers, cam, wire>>
  BY DEF RxFinish, storage, camera
<1>2. OneTransfer /\ AnswersKept
  BY DEF DownloadInv, TransferKept
<1>3. Engaged /\ rx.kind = Current /\ Current \in Kinds
  BY <1>1, <1>2, LatestRequest DEF OneTransfer, Quiet, DownloadInv
<1>4. /\ rx'.at = "idle" /\ downloadState'[Current] = "idle"
      /\ reqCB'[Current] \in {0, reqCB[Current]}
      /\ \A k \in Kinds :
           downloadState'[k] = "receiving" => downloadState[k] = "receiving"
  BY <1>1, <1>3, TypesOf DEF RxIdle, DownloadInv
<1>5. /\ Engaged' /\ Current' = Current /\ ~Receiving'
  BY <1>1, <1>3, <1>4 DEF Engaged, Current, Receiving
<1>6. OneTransfer'
  BY <1>1, <1>2, <1>3, <1>4, <1>5 DEF OneTransfer
<1>7. (InOrder /\ DataKept /\ ListKept /\ VerdictKept)'
  BY <1>4, <1>5 DEF InOrder, DataKept, ListKept, VerdictKept
<1>8. AnswersKept'
  <2>1. answers[made] # {}
    BY <1>1, <1>2, <1>3 DEF AnswersKept
  <2> QED
    BY <1>1, <1>2, <1>3, <1>4, <1>5, <2>1 DEF AnswersKept
<1> QED
  BY <1>6, <1>7, <1>8 DEF TransferKept

-----------------------------------------------------------------------------
(* The theorems.                                                           *)

LEMMA RunningKeeps ==
  ASSUME DownloadInv, Running
  PROVE  TransferKept'
<1>1. CASE PrepareFileList \/ SendReqPack
  BY <1>1, PrepareKeeps, SendKeeps
<1>2. CASE \E r \in Requests : Monitor(r)
  BY <1>2, MonitorQuietKeeps, MonitorCallBackKeeps, MonitorFinishKeeps,
     SendMissedKeeps DEF Monitor
<1>3. CASE \E k \in Kinds : Elapse(k)
  BY <1>3, NothingMovesKeeps DEF Elapse, storage, threads, camera
<1>4. CASE IgnorePack
  BY <1>4, PackGoneKeeps DEF IgnorePack, NextPack, storage
<1>5. CASE LosePack
  BY <1>5, PackGoneKeeps DEF LosePack, handlers, storage, threads
<1>6. CASE FileListRawDataCB \/ FileDataRawDataCB \/ RxCallBack \/ RxFinish
  BY <1>6, ListPackKeeps, DataPackKeeps, RxCallBackKeeps, RxFinishKeeps
<1>7. CASE CameraSends
  BY <1>7, CameraSendsKeeps
<1> QED
  BY <1>1, <1>2, <1>3, <1>4, <1>5, <1>6, <1>7 DEF Running, ReceiveThread

LEMMA DownloadInvHolds == SampleSpec => []DownloadInv
<1>1. Init => DownloadInv
  BY DownloadInitTypes, InvariantStarts DEF DownloadInv
<1>2. DownloadInv /\ [SampleNext]_vars => DownloadInv'
  <2> SUFFICES ASSUME DownloadInv, [SampleNext]_vars PROVE DownloadInv'
    OBVIOUS
  <2>1. [Next]_vars
    BY DEF SampleNext, SampleStart, Next
  <2>2. TypesKept'
    BY <2>1, DownloadStepTypes DEF DownloadInv
  <2>3. TransferKept'
    <3>1. CASE SampleStart
      BY <3>1, NothingPending, StartListKeeps, StartDataKeeps DEF StartRequest
    <3>2. CASE Running
      BY <3>2, RunningKeeps
    <3>3. CASE UNCHANGED vars
      BY <3>3, NothingMovesKeeps DEF vars, handlers, storage, threads, camera
    <3> QED
      BY <3>1, <3>2, <3>3 DEF SampleNext
  <2> QED
    BY <2>2, <2>3 DEF DownloadInv
<1> QED
  BY <1>1, <1>2, PTL DEF SampleSpec

\* fileDataRawDataCB tells an application like the sample of a success only if
\* the local file of that very request, unless it could not be opened, holds all
\* packs in their order, whichever files of earlier requests were opened, for
\* files of every length and whatever the link loses: although the pack is
\* written before the gap is looked for, and where the one before has ended.
THEOREM FileCompleteTheorem == SampleSpec => []FileComplete
<1>1. DownloadInv => FileComplete
  <2>1. DownloadInv => openable \subseteq Requests
    BY DEF DownloadInv, TypesKept, TypeOK
  <2>2. 0 \notin Requests
    BY DEF Requests
  <2> QED
    BY <2>1, <2>2 DEF DownloadInv, TransferKept, VerdictKept, FileComplete
<1> QED
  BY <1>1, DownloadInvHolds, PTL

\* fileListRawDataCB tells it of a success only with all packs of that very
\* list in their order, for lists of every length and every size of the ring.
THEOREM ListCompleteTheorem == SampleSpec => []ListComplete
<1>1. DownloadInv => ListComplete
  BY DEF DownloadInv, TransferKept, VerdictKept, ListComplete
<1> QED
  BY <1>1, DownloadInvHolds, PTL

\* No request of that application is forgotten: when the handlers are idle
\* again and no thread is in a callback, each callback has been called, by the
\* receive thread, by the monitor of its request or by one of an earlier
\* request, in whatever order those clear the callback and the state.
THEOREM AnsweredTheorem == SampleSpec => []Answered
<1>1. DownloadInv => Answered
  <2> SUFFICES ASSUME DownloadInv, Settled, NEW r \in 1 .. made
               PROVE  answers[r] # {}
    BY DEF Answered
  <2>1. made \in Nat
    BY TypesOf DEF DownloadInv
  <2>2. AnswersKept /\ Engaged
    BY <2>1 DEF DownloadInv, TransferKept, Settled, Engaged
  <2>3. downloadState[Current] = "idle"
    BY <2>2, LatestRequest DEF DownloadInv, Settled, BothIdle
  <2>4. answers[made] # {}
    BY <2>2, <2>3 DEF AnswersKept
  <2>5. r = made \/ r \in 1 .. made - 1
    BY <2>1
  <2> QED
    BY <2>2, <2>4, <2>5 DEF AnswersKept
<1> QED
  BY <1>1, DownloadInvHolds, PTL

=============================================================================
