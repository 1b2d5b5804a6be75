---------------------------- MODULE ModulesProofs ----------------------------
(***************************************************************************)
(* Proofs about two of the modules a program uses with asynchronous calls: *)
(* the ring of callbacks of commands, for every size of the ring and every *)
(* number of requests, and the MOP pipelines.                              *)
(***************************************************************************)
EXTENDS CallbackRing, MopPipelines, FiniteSetTheorems, TLAPS

-----------------------------------------------------------------------------
(* The ring of callbacks.                                                  *)

\* The index that request q was given, counted back from the newest one.
IndexOf(q) ==
  LET back == requestsMade - q
  IN  IF back <= ucbHandlerIndex THEN ucbHandlerIndex - back
      ELSE ucbHandlerIndex - back + MaxSize

\* The record has what request q has put there.
Holds(record, q) ==
  /\ record.index = IndexOf(q)
  /\ ucbHandler[record] = [callback |-> q, userData |-> q]

\* Requests that are still to be answered have not been overtaken by the ring,
\* and each has a record of its own.
RequestsKept ==
  /\ \A p \in pending : /\ p.request <= requestsMade
                        /\ requestsMade - p.request < MaxSize
                        /\ Holds(p.record, p.request)
  /\ \A p, r \in pending : p.request = r.request => p = r

\* The one whose answer is being decoded is in none of the other places.
DecodingKept ==
  decoding # Idle =>
    /\ decoding.request <= requestsMade
    /\ requestsMade - decoding.request < MaxSize
    /\ Holds(decoding.record, decoding.request)
    /\ decoding.callback = decoding.request
    /\ \A p \in pending : p.request # decoding.request

\* The one that is being made is in none of them yet.
AllocatedKept ==
  allocated # NoRecord =>
    /\ requestsMade > 0
    /\ allocated.index = ucbHandlerIndex
    /\ ucbHandler[allocated].callback = requestsMade
    /\ \A p \in pending : p.request # requestsMade
    /\ decoding.request # requestsMade
    /\ \A c \in called : c.request # requestsMade

CalledKept ==
  \A c \in called :
    /\ c.callback = c.request /\ c.userData = c.request
    /\ c.request <= requestsMade
    /\ \A p \in pending : p.request # c.request
    /\ decoding.request # c.request

\* The inductive invariant.
CallbackInv ==
  CallbackTypeOK /\ RequestsKept /\ DecodingKept /\ AllocatedKept /\ CalledKept

LEMMA CallbackStart == CallbackInit => CallbackInv
<1> SUFFICES ASSUME CallbackInit PROVE CallbackInv
  OBVIOUS
<1>1. CallbackTypeOK
  BY CallbackAssumption DEF CallbackInit, CallbackTypeOK
<1> QED
  BY <1>1 DEF CallbackInit, CallbackInv, RequestsKept, DecodingKept,
              AllocatedKept, CalledKept

\* The index moves on by one, and the requests it has left behind stay where
\* they were.  The record it comes to is none of theirs.
LEMMA IndexMovesOn ==
  ASSUME CallbackTypeOK, NEW m \in Modules, AllocUCBHandler(m)
  PROVE  /\ requestsMade' = requestsMade + 1
         /\ ucbHandlerIndex' \in 0 .. MaxSize - 1
         /\ \A q \in 1 .. requestsMade :
              (requestsMade + 1) - q < MaxSize =>
                IndexOf(q)' = IndexOf(q) /\ IndexOf(q) # ucbHandlerIndex'
<1>1. /\ requestsMade \in Nat /\ MaxSize \in Nat \ {0}
      /\ ucbHandlerIndex \in 0 .. MaxSize - 1
      /\ requestsMade' = requestsMade + 1
      /\ ucbHandlerIndex' = IF ucbHandlerIndex + 1 >= MaxSize THEN 0
                            ELSE ucbHandlerIndex + 1
  BY CallbackAssumption DEF CallbackTypeOK, AllocUCBHandler, NextIndex
<1>2. ASSUME NEW q \in 1 .. requestsMade, (requestsMade + 1) - q < MaxSize
      PROVE  IndexOf(q)' = IndexOf(q) /\ IndexOf(q) # ucbHandlerIndex'
  BY <1>1, <1>2 DEF IndexOf
<1> QED
  BY <1>1, <1>2

LEMMA AllocKeepsCallbackInv ==
  ASSUME CallbackInv, NEW m \in Modules, AllocUCBHandler(m)
  PROVE  CallbackInv'
<1> DEFINE new == [module |-> m, index |-> ucbHandlerIndex']
<1>1. /\ CallbackTypeOK /\ requestsMade \in 0 .. MaxRequests
      /\ MaxSize \in Nat \ {0} /\ MaxRequests \in Nat
  BY CallbackAssumption DEF CallbackInv, CallbackTypeOK
<1>2. /\ requestsMade' = requestsMade + 1 /\ requestsMade < MaxRequests
      /\ allocated = NoRecord /\ allocated' = new
      /\ ucbHandler' = [ucbHandler EXCEPT ![new].callback = requestsMade']
      /\ pending' = pending /\ decoding' = decoding /\ called' = called
  BY DEF AllocUCBHandler
<1>w. \A q \in Unanswered : (requestsMade + 1) - q < MaxSize
  <2>1. WithinRing(requestsMade + 1)
    BY DEF AllocUCBHandler
  <2> QED
    BY <2>1 DEF WithinRing
<1>3. /\ ucbHandlerIndex' \in 0 .. MaxSize - 1
      /\ \A q \in 1 .. requestsMade :
           (requestsMade + 1) - q < MaxSize =>
             IndexOf(q)' = IndexOf(q) /\ IndexOf(q) # ucbHandlerIndex'
  BY <1>1, IndexMovesOn
<1>4. new \in Records
  BY <1>3 DEF Records
<1>5. CallbackTypeOK'
  <2>1. requestsMade' \in 0 .. MaxRequests
    BY <1>1, <1>2
  <2>2. ucbHandler' \in [Records -> [callback : 0 .. MaxRequests,
                                     userData : 0 .. MaxRequests]]
    BY <1>1, <1>2, <2>1 DEF CallbackTypeOK
  <2> QED
    BY <1>1, <1>2, <1>3, <1>4, <2>1, <2>2 DEF CallbackTypeOK
<1>6. ASSUME NEW q \in 1 .. requestsMade, (requestsMade + 1) - q < MaxSize,
             NEW record \in Records, Holds(record, q)
      PROVE  Holds(record, q)'
  <2>1. record # new
    BY <1>3, <1>6 DEF Holds
  <2>2. ucbHandler'[record] = ucbHandler[record]
    BY <1>1, <1>2, <1>6, <2>1 DEF CallbackTypeOK
  <2> QED
    BY <1>3, <1>6, <2>2 DEF Holds
<1>7. RequestsKept'
  <2>1. \A p \in pending :
          /\ p.request \in 1 .. requestsMade /\ (requestsMade + 1) - p.request < MaxSize
          /\ p.record \in Records /\ Holds(p.record, p.request)
    <3> TAKE p \in pending
    <3>1. p.request \in 1 .. requestsMade /\ p.record \in Records
      BY <1>1 DEF CallbackInv, CallbackTypeOK, RequestsKept
    <3>2. p.request \in Unanswered
      BY DEF Unanswered
    <3>3. (requestsMade + 1) - p.request < MaxSize
      BY <3>2, <1>w
    <3> QED
      BY <3>1, <3>3 DEF CallbackInv, RequestsKept
  <2>2. \A p \in pending : Holds(p.record, p.request)'
    BY <2>1, <1>6
  <2>3. \A p \in pending : p.request <= requestsMade + 1
    BY <2>1, <1>1
  <2>4. \A p, r \in pending : p.request = r.request => p = r
    BY DEF CallbackInv, RequestsKept
  <2>5. \A p \in pending : (requestsMade + 1) - p.request < MaxSize
    BY <2>1
  <2>6. \A p \in pending' : Holds(p.record, p.request)'
    BY <1>2, <2>2
  <2>7. pending' = pending /\ requestsMade' = requestsMade + 1
    BY <1>2
  <2> QED
    BY <2>3, <2>4, <2>5, <2>6, <2>7 DEF RequestsKept
<1>8. DecodingKept'
  <2> SUFFICES ASSUME decoding # Idle
               PROVE  DecodingKept'
    BY <1>2 DEF DecodingKept
  <2>1. /\ decoding.request \in 1 .. requestsMade /\ decoding.record \in Records
        /\ Holds(decoding.record, decoding.request)
        /\ decoding.callback = decoding.request
        /\ \A p \in pending : p.request # decoding.request
    BY <1>1 DEF CallbackInv, CallbackTypeOK, DecodingKept
  <2>2. (requestsMade + 1) - decoding.request < MaxSize
    <3>1. decoding.request \in Unanswered
      BY <2>1, <1>1 DEF Unanswered
    <3> QED
      BY <3>1, <1>w
  <2>3. Holds(decoding.record, decoding.request)'
    <3>1. PICK q \in 1 .. requestsMade, record \in Records :
            q = decoding.request /\ record = decoding.record
      BY <2>1
    <3>2. Holds(record, q)'
      BY <3>1, <2>1, <2>2, <1>6
    <3>3. q = decoding'.request /\ record = decoding'.record
      BY <3>1, <1>2
    <3> QED
      BY <3>2, <3>3 DEF Holds
  <2> QED
    BY <1>2, <1>1, <2>1, <2>2, <2>3 DEF DecodingKept
<1>9. AllocatedKept'
  <2>1. /\ \A p \in pending : p.request # requestsMade + 1
        /\ decoding.request # requestsMade + 1
        /\ \A c \in called : c.request # requestsMade + 1
    BY <1>1 DEF CallbackInv, RequestsKept, DecodingKept, CalledKept, Idle,
                CallbackTypeOK
  <2>2. ucbHandler'[new].callback = requestsMade + 1
    BY <1>1, <1>2, <1>4 DEF CallbackTypeOK
  <2>3. requestsMade + 1 > 0
    BY <1>1
  <2> QED
    BY <1>2, <2>1, <2>2, <2>3 DEF AllocatedKept
<1>10. CalledKept'
  BY <1>1, <1>2 DEF CallbackInv, CalledKept, CallbackTypeOK
<1> QED
  BY <1>5, <1>7, <1>8, <1>9, <1>10 DEF CallbackInv

\* The user data goes into the record of the newest request, which is none of
\* those that are still to be answered.
LEMMA SendKeepsCallbackInv ==
  ASSUME CallbackInv, SendAsync
  PROVE  CallbackInv'
<1> DEFINE new == [request |-> requestsMade, record |-> allocated]
<1>1. /\ CallbackTypeOK /\ requestsMade \in 1 .. MaxRequests
      /\ allocated \in Records /\ allocated.index = ucbHandlerIndex
      /\ ucbHandlerIndex \in 0 .. MaxSize - 1 /\ MaxSize \in Nat \ {0}
      /\ ucbHandler[allocated].callback = requestsMade
      /\ decoding.request # requestsMade
  BY CallbackAssumption
     DEF SendAsync, CallbackInv, CallbackTypeOK, AllocatedKept
<1>2. /\ ucbHandler' = [ucbHandler EXCEPT ![allocated].userData = requestsMade]
      /\ pending' = pending \cup {new} /\ allocated' = NoRecord
      /\ ucbHandlerIndex' = ucbHandlerIndex /\ requestsMade' = requestsMade
      /\ decoding' = decoding /\ called' = called
  BY DEF SendAsync
<1>3. /\ \A p \in pending : p.request # requestsMade
      /\ \A c \in called : c.request # requestsMade
  BY DEF SendAsync, CallbackInv, AllocatedKept
<1>4. CallbackTypeOK'
  BY <1>1, <1>2 DEF CallbackTypeOK
<1>5. ASSUME NEW record \in Records, NEW q \in 1 .. requestsMade,
             q # requestsMade, requestsMade - q < MaxSize, Holds(record, q)
      PROVE  Holds(record, q)'
  <2>1. IndexOf(q) # ucbHandlerIndex
    BY <1>1, <1>5 DEF IndexOf
  <2>2. record # allocated
    BY <1>1, <1>5, <2>1 DEF Holds
  <2>3. ucbHandler'[record] = ucbHandler[record]
    BY <1>1, <1>2, <1>5, <2>2 DEF CallbackTypeOK
  <2> QED
    BY <1>2, <1>5, <2>3 DEF Holds, IndexOf
<1>6. ASSUME NEW record \in Records, NEW q \in 1 .. requestsMade,
             record = allocated, q = requestsMade
      PROVE  Holds(record, q)'
  <2>1. ucbHandler'[allocated] =
          [callback |-> requestsMade, userData |-> requestsMade]
    BY <1>1, <1>2 DEF CallbackTypeOK
  <2>2. allocated.index = IndexOf(requestsMade)
    BY <1>1 DEF IndexOf
  <2>3. ucbHandler'[record] = [callback |-> q, userData |-> q]
    BY <1>6, <2>1
  <2> QED
    BY <1>2, <1>6, <2>2, <2>3 DEF Holds, IndexOf
<1>7. RequestsKept'
  <2>1. \A p \in pending :
          /\ p.request \in 1 .. requestsMade /\ p.record \in Records
          /\ p.request # requestsMade /\ requestsMade - p.request < MaxSize
          /\ Holds(p.record, p.request)
    BY <1>1, <1>3 DEF CallbackInv, CallbackTypeOK, RequestsKept
  <2>2. \A p \in pending : Holds(p.record, p.request)'
    BY <2>1, <1>5
  <2>3. \A p \in pending' : /\ p.request <= requestsMade
                            /\ requestsMade - p.request < MaxSize
                            /\ Holds(p.record, p.request)'
    BY <1>1, <1>2, <1>6, <2>1, <2>2
  <2>4. \A p, r \in pending' : p.request = r.request => p = r
    BY <1>2, <1>3 DEF CallbackInv, RequestsKept
  <2> QED
    BY <1>2, <2>3, <2>4 DEF RequestsKept
<1>8. DecodingKept'
  <2> SUFFICES ASSUME decoding # Idle
               PROVE  DecodingKept'
    BY <1>2 DEF DecodingKept
  <2>1. /\ decoding.request \in 1 .. requestsMade /\ decoding.record \in Records
        /\ requestsMade - decoding.request < MaxSize
        /\ Holds(decoding.record, decoding.request)
        /\ decoding.callback = decoding.request
        /\ \A p \in pending : p.request # decoding.request
    BY <1>1 DEF CallbackInv, CallbackTypeOK, DecodingKept
  <2>2. Holds(decoding.record, decoding.request)'
    <3>1. PICK q \in 1 .. requestsMade, record \in Records :
            q = decoding.request /\ record = decoding.record
      BY <2>1
    <3>2. Holds(record, q)'
      BY <3>1, <2>1, <1>1, <1>5
    <3>3. q = decoding'.request /\ record = decoding'.record
      BY <3>1, <1>2
    <3> QED
      BY <3>2, <3>3 DEF Holds
  <2> QED
    BY <1>1, <1>2, <2>1, <2>2 DEF DecodingKept
<1>9. AllocatedKept'
  BY <1>2 DEF AllocatedKept
<1>10. CalledKept'
  BY <1>2, <1>3 DEF CallbackInv, CalledKept
<1> QED
  BY <1>4, <1>7, <1>8, <1>9, <1>10 DEF CallbackInv

\* An answer is decoded with the callback its record holds.
LEMMA AckKeepsCallbackInv ==
  ASSUME CallbackInv, NEW p \in pending, AckDecoder(p)
  PROVE  CallbackInv'
<1>1. /\ CallbackTypeOK /\ p.request \in 1 .. MaxRequests /\ p.record \in Records
      /\ p.request <= requestsMade /\ requestsMade - p.request < MaxSize
      /\ Holds(p.record, p.request)
  BY DEF CallbackInv, CallbackTypeOK, RequestsKept
<1>2. /\ pending' = pending \ {p}
      /\ decoding' = [request |-> p.request, record |-> p.record,
                      callback |-> ucbHandler[p.record].callback]
      /\ ucbHandlerIndex' = ucbHandlerIndex /\ ucbHandler' = ucbHandler
      /\ allocated' = allocated /\ requestsMade' = requestsMade
      /\ called' = called
  BY DEF AckDecoder
<1>3. decoding'.callback = p.request /\ p.request # 0
  BY <1>1, <1>2 DEF Holds
<1>4. CallbackTypeOK'
  BY <1>1, <1>2, <1>3 DEF CallbackTypeOK
<1>5. \A r \in pending' : r.request # p.request
  BY <1>2 DEF CallbackInv, RequestsKept
<1>6. RequestsKept'
  BY <1>2 DEF CallbackInv, RequestsKept, Holds, IndexOf
<1>7. DecodingKept'
  BY <1>1, <1>2, <1>3, <1>5 DEF DecodingKept, Holds, IndexOf
<1>8. AllocatedKept'
  BY <1>2 DEF CallbackInv, AllocatedKept
<1>9. CalledKept'
  BY <1>2 DEF CallbackInv, CalledKept
<1> QED
  BY <1>4, <1>6, <1>7, <1>8, <1>9 DEF CallbackInv

\* The callback is called with the user data that its record still holds.
LEMMA UserCallBackKeepsCallbackInv ==
  ASSUME CallbackInv, UserCallBack
  PROVE  CallbackInv'
<1>1. /\ CallbackTypeOK /\ decoding # Idle
      /\ decoding.request \in 1 .. MaxRequests /\ decoding.record \in Records
      /\ decoding.request <= requestsMade /\ decoding.callback = decoding.request
      /\ ucbHandler[decoding.record].userData = decoding.request
      /\ \A p \in pending : p.request # decoding.request
  BY DEF UserCallBack, CallbackInv, CallbackTypeOK, DecodingKept, Holds
<1> DEFINE new == [request |-> decoding.request, callback |-> decoding.callback,
                   userData |-> ucbHandler[decoding.record].userData]
<1>2. /\ called' = called \cup {new} /\ decoding' = Idle
      /\ ucbHandlerIndex' = ucbHandlerIndex /\ ucbHandler' = ucbHandler
      /\ allocated' = allocated /\ requestsMade' = requestsMade
      /\ pending' = pending
  BY DEF UserCallBack
<1>3. /\ new.request = decoding.request /\ new.callback = decoding.request
      /\ new.userData = decoding.request
      /\ new \in [request : 1 .. MaxRequests, callback : 0 .. MaxRequests,
                  userData : 0 .. MaxRequests]
  BY <1>1
<1> HIDE DEF new
<1>4. CallbackTypeOK'
  BY <1>1, <1>2, <1>3 DEF CallbackTypeOK
<1>5. RequestsKept'
  BY <1>2 DEF CallbackInv, RequestsKept, Holds, IndexOf
<1>6. DecodingKept'
  BY <1>2 DEF DecodingKept
<1>7. AllocatedKept'
  BY <1>1, <1>2, <1>3 DEF CallbackInv, AllocatedKept, Idle
<1>8. CalledKept'
  <2>1. \A c \in called : c.request \in 1 .. MaxRequests
    BY <1>1 DEF CallbackTypeOK
  <2> QED
    BY <1>1, <1>2, <1>3, <2>1 DEF CallbackInv, CalledKept, Idle
<1> QED
  BY <1>4, <1>5, <1>6, <1>7, <1>8 DEF CallbackInv

LEMMA CallbackInvHolds == CallbackSpec => []CallbackInv
<1>1. CallbackInv /\ [CallbackNext]_callbackVars => CallbackInv'
  <2> SUFFICES ASSUME CallbackInv, [CallbackNext]_callbackVars
               PROVE  CallbackInv'
    OBVIOUS
  <2>1. CASE \E m \in Modules : AllocUCBHandler(m)
    BY <2>1, AllocKeepsCallbackInv
  <2>2. CASE SendAsync
    BY <2>2, SendKeepsCallbackInv
  <2>3. CASE \E p \in pending : AckDecoder(p)
    BY <2>3, AckKeepsCallbackInv
  <2>4. ASSUME NEW p \in pending, TimeOut(p) PROVE CallbackInv'
    <3>1. /\ pending' = pending \ {p}
          /\ UNCHANGED <<ucbHandlerIndex, ucbHandler, allocated, requestsMade,
                         decoding, called>>
      BY <2>4 DEF TimeOut
    <3> QED
      BY <3>1 DEF CallbackInv, CallbackTypeOK, RequestsKept, DecodingKept,
                  AllocatedKept, CalledKept, Holds, IndexOf
  <2>5. CASE UserCallBack
    BY <2>5, UserCallBackKeepsCallbackInv
  <2>6. CASE UNCHANGED callbackVars
    BY <2>6 DEF callbackVars, CallbackInv, CallbackTypeOK, RequestsKept,
                DecodingKept, AllocatedKept, CalledKept, Holds, IndexOf
  <2> QED
    BY <2>1, <2>2, <2>3, <2>4, <2>5, <2>6 DEF CallbackNext
<1> QED
  BY <1>1, CallbackStart, PTL DEF CallbackSpec

\* The answer to an asynchronous command, whenever it comes and in whatever
\* order, leads to the callback and the user data that were given with that
\* very command, and does so once, though allocUCBHandler takes the records of
\* the ring in turn, never asks whether one is in use, and shares its index
\* among all objects: for every size of the ring, provided that no more
\* commands than it has records are made while one of them is under way.
THEOREM OwnCallbackTheorem == CallbackSpec => []OwnCallback
<1>1. CallbackInv => OwnCallback
  BY DEF CallbackInv, CalledKept, OwnCallback, Unanswered
<1> QED
  BY <1>1, CallbackInvHolds, PTL

-----------------------------------------------------------------------------
(* MOP pipelines: the inductive invariant.                                 *)

\* Objects are numbered from 1 on.
Numbered(f) == IsFiniteSet(DOMAIN f) /\ DOMAIN f = 1 .. Cardinality(DOMAIN f)

MopTypes ==
  /\ Numbered(handleOf) /\ Numbered(channels)
  /\ Cardinality(DOMAIN channels) <= MaxChannels
  /\ pipelineMap \in [PipelineIds -> DOMAIN handleOf \cup {0}]
  /\ \A p \in DOMAIN handleOf : handleOf[p] \in DOMAIN channels \cup {0}
  /\ deleted \subseteq DOMAIN handleOf
  /\ \A c \in DOMAIN channels :
       channels[c] \in {"created", "open", "closed", "destroyed"}
  /\ clientCall = NoCall \/ clientCall \in
       [id : ClientIds, pipeline : DOMAIN handleOf,
        tries : 0 .. ConnectRetryTimes - 1, bound : {0}]
  /\ serverCall = NoCall \/ serverCall \in
       [id : ServerIds, pipeline : DOMAIN handleOf,
        tries : 0 .. AcceptRetryTimes - 1, bound : DOMAIN channels]
  /\ held \in [PipelineIds -> DOMAIN handleOf \cup {0}]
  /\ undisposed \in Nat

\* No channel is two pipelines', no pipeline is in two places of the table,
\* and none that is there has been deleted.
UniquePlaces ==
  /\ \A p, q \in DOMAIN handleOf :
       handleOf[p] = handleOf[q] /\ handleOf[p] # 0 => p = q
  /\ \A i, j \in PipelineIds :
       pipelineMap[i] = pipelineMap[j] /\ pipelineMap[i] # 0 => i = j
  /\ \A i \in PipelineIds : pipelineMap[i] \notin deleted

HeldKept ==
  \A id \in PipelineIds : held[id] # 0 =>
    /\ pipelineMap[id] = held[id]
    /\ handleOf[held[id]] # 0 /\ channels[handleOf[held[id]]] = "open"

\* The pipeline of a connect in progress is in the table, with a channel that
\* is nobody else's.
ClientKept ==
  clientCall # NoCall =>
    /\ pipelineMap[clientCall.id] = clientCall.pipeline
    /\ held[clientCall.id] = 0
    /\ handleOf[clientCall.pipeline] # 0
    /\ channels[handleOf[clientCall.pipeline]] = "created"

\* The pipeline of an accept in progress is not in the table, and has no
\* channel yet.
ServerKept ==
  serverCall # NoCall =>
    /\ pipelineMap[serverCall.id] = 0 /\ held[serverCall.id] = 0
    /\ handleOf[serverCall.pipeline] = 0
    /\ serverCall.pipeline \notin deleted
    /\ \A id \in PipelineIds : pipelineMap[id] # serverCall.pipeline

\* There is one task or none, and one as soon as it is needed.
TaskRuns ==
  /\ mopObjectCnt \in {0, 1} /\ mopTask = mopObjectCnt
  /\ clientCall # NoCall => mopObjectCnt = 1
  /\ serverCall # NoCall => mopObjectCnt = 1
  /\ \A id \in PipelineIds : held[id] # 0 => mopObjectCnt = 1

AliveIn(f) == {c \in DOMAIN f : f[c] # "destroyed"}
HeldIn(f)  == {id \in PipelineIds : f[id] # 0}

Accounted ==
  /\ IsFiniteSet(HeldIn(held))
  /\ Cardinality(AliveIn(channels)) = Cardinality(HeldIn(held))
       + (IF clientCall = NoCall THEN 0 ELSE 1) + undisposed

MopInv ==
  /\ MopTypes /\ UniquePlaces /\ HeldKept /\ ClientKept /\ ServerKept
  /\ TaskRuns /\ Accounted

-----------------------------------------------------------------------------
(* MOP pipelines: lemmas.                                                  *)

\* f with the value x for c, as WithChannel and WithHandle build it.
With(f, c, x) == [h \in DOMAIN f \cup {c} |-> IF h = c THEN x ELSE f[h]]

LEMMA NumberIsNew ==
  ASSUME NEW f, Numbered(f)
  PROVE  /\ Cardinality(DOMAIN f) \in Nat
         /\ 0 \notin DOMAIN f
         /\ Cardinality(DOMAIN f) + 1 \notin DOMAIN f
<1>1. Cardinality(DOMAIN f) \in Nat
  BY FS_CardinalityType DEF Numbered
<1> DEFINE n == Cardinality(DOMAIN f)
<1>2. n \in Nat /\ DOMAIN f = 1 .. n
  BY <1>1 DEF Numbered
<1> HIDE DEF n
<1>3. 0 \notin 1 .. n /\ n + 1 \notin 1 .. n
  BY <1>2
<1>4. 0 \notin DOMAIN f /\ n + 1 \notin DOMAIN f
  BY <1>2, <1>3
<1> QED
  BY <1>1, <1>4 DEF n

\* Another object gets the next number.
LEMMA NumberedGrows ==
  ASSUME NEW f, Numbered(f), NEW x
  PROVE  LET g == With(f, Cardinality(DOMAIN f) + 1, x)
         IN /\ Numbered(g)
            /\ DOMAIN g = DOMAIN f \cup {Cardinality(DOMAIN f) + 1}
            /\ Cardinality(DOMAIN g) = Cardinality(DOMAIN f) + 1
            /\ g[Cardinality(DOMAIN f) + 1] = x
            /\ \A h \in DOMAIN f : g[h] = f[h]
<1> DEFINE n == Cardinality(DOMAIN f)
           g == With(f, n + 1, x)
<1>1. n \in Nat /\ n + 1 \notin DOMAIN f
  BY NumberIsNew
<1>2. IsFiniteSet(DOMAIN f) /\ DOMAIN f = 1 .. n
  BY DEF Numbered
<1>3. /\ DOMAIN g = DOMAIN f \cup {n + 1}
      /\ g[n + 1] = x /\ \A h \in DOMAIN f : g[h] = f[h]
  BY <1>1 DEF With
<1>4. /\ IsFiniteSet(DOMAIN f \cup {n + 1})
      /\ Cardinality(DOMAIN f \cup {n + 1}) = n + 1
  BY <1>1, <1>2, FS_AddElement
<1> HIDE DEF n, g
<1>5. (1 .. n) \cup {n + 1} = 1 .. n + 1
  BY <1>1
<1>6. IsFiniteSet(DOMAIN g) /\ Cardinality(DOMAIN g) = n + 1
  BY <1>3, <1>4
<1>7. DOMAIN g = 1 .. n + 1
  BY <1>2, <1>3, <1>5
<1>8. Numbered(g)
  BY <1>6, <1>7 DEF Numbered
<1> QED
  BY <1>3, <1>6, <1>8 DEF n, g

\* A value is changed and no object is added.
LEMMA WithOld ==
  ASSUME NEW f, NEW c \in DOMAIN f, NEW x
  PROVE  LET g == With(f, c, x)
         IN /\ DOMAIN g = DOMAIN f /\ g[c] = x
            /\ \A h \in DOMAIN f : h # c => g[h] = f[h]
            /\ Numbered(f) => Numbered(g)
<1>1. DOMAIN With(f, c, x) = DOMAIN f
  BY DEF With
<1> QED
  BY <1>1 DEF With, Numbered

LEMMA AliveIsFinite ==
  ASSUME NEW f, Numbered(f)
  PROVE  IsFiniteSet(AliveIn(f)) /\ Cardinality(AliveIn(f)) \in Nat
<1>1. AliveIn(f) \subseteq DOMAIN f /\ IsFiniteSet(DOMAIN f)
  BY DEF AliveIn, Numbered
<1>2. IsFiniteSet(AliveIn(f))
  BY <1>1, FS_Subset
<1> QED
  BY <1>2, FS_CardinalityType

\* A channel is created.
LEMMA AliveGrows ==
  ASSUME NEW f, Numbered(f), NEW x, x # "destroyed"
  PROVE  Cardinality(AliveIn(With(f, Cardinality(DOMAIN f) + 1, x)))
           = Cardinality(AliveIn(f)) + 1
<1> DEFINE n == Cardinality(DOMAIN f)
           g == With(f, n + 1, x)
<1>1. /\ DOMAIN g = DOMAIN f \cup {n + 1}
      /\ g[n + 1] = x /\ \A h \in DOMAIN f : g[h] = f[h]
  BY NumberedGrows
<1>2. n + 1 \notin DOMAIN f
  BY NumberIsNew
<1> HIDE DEF n, g
<1>3. AliveIn(g) = AliveIn(f) \cup {n + 1} /\ n + 1 \notin AliveIn(f)
  BY <1>1, <1>2 DEF AliveIn
<1>4. Cardinality(AliveIn(f) \cup {n + 1}) = Cardinality(AliveIn(f)) + 1
  BY <1>3, AliveIsFinite, FS_AddElement
<1> QED
  BY <1>3, <1>4 DEF n, g

\* A channel goes from one state to another, and is not destroyed.
LEMMA AliveStays ==
  ASSUME NEW f, NEW c \in DOMAIN f, f[c] # "destroyed",
         NEW x, x # "destroyed"
  PROVE  AliveIn(With(f, c, x)) = AliveIn(f)
BY DEF With, AliveIn

\* A channel is destroyed.
LEMMA AliveShrinks ==
  ASSUME NEW f, Numbered(f), NEW c \in DOMAIN f, f[c] # "destroyed"
  PROVE  Cardinality(AliveIn(With(f, c, "destroyed")))
           = Cardinality(AliveIn(f)) - 1
<1>1. AliveIn(With(f, c, "destroyed")) = AliveIn(f) \ {c} /\ c \in AliveIn(f)
  BY DEF With, AliveIn
<1> QED
  BY <1>1, AliveIsFinite, FS_RemoveElement

\* A pipeline is given to the application, or given back.
LEMMA HeldGrows ==
  ASSUME NEW S, NEW f \in [PipelineIds -> S], NEW id \in PipelineIds,
         NEW p, p # 0, f[id] = 0, IsFiniteSet(HeldIn(f))
  PROVE  /\ IsFiniteSet(HeldIn([f EXCEPT ![id] = p]))
         /\ Cardinality(HeldIn([f EXCEPT ![id] = p]))
              = Cardinality(HeldIn(f)) + 1
<1>1. /\ HeldIn([f EXCEPT ![id] = p]) = HeldIn(f) \cup {id}
      /\ id \notin HeldIn(f)
  BY DEF HeldIn
<1> QED
  BY <1>1, FS_AddElement

LEMMA HeldShrinks ==
  ASSUME NEW S, NEW f \in [PipelineIds -> S], NEW id \in PipelineIds,
         f[id] # 0, IsFiniteSet(HeldIn(f))
  PROVE  /\ IsFiniteSet(HeldIn([f EXCEPT ![id] = 0]))
         /\ Cardinality(HeldIn([f EXCEPT ![id] = 0]))
              = Cardinality(HeldIn(f)) - 1
<1>1. /\ HeldIn([f EXCEPT ![id] = 0]) = HeldIn(f) \ {id}
      /\ id \in HeldIn(f)
  BY DEF HeldIn
<1> QED
  BY <1>1, FS_RemoveElement

LEMMA MopStart == MopInit => MopInv
<1> SUFFICES ASSUME MopInit PROVE MopInv
  OBVIOUS
<1> USE DEF MopInit
<1>1. /\ DOMAIN handleOf = {} /\ DOMAIN channels = {} /\ deleted = {}
      /\ undisposed = 0 /\ clientCall = NoCall /\ serverCall = NoCall
      /\ mopObjectCnt = 0 /\ mopTask = 0
      /\ \A id \in PipelineIds : pipelineMap[id] = 0 /\ held[id] = 0
      /\ pipelineMap \in [PipelineIds -> {0}] /\ held \in [PipelineIds -> {0}]
  OBVIOUS
<1> USE ONLY <1>1
<1>2. IsFiniteSet({}) /\ Cardinality({}) = 0 /\ 1 .. 0 = {}
  BY FS_EmptySet
<1>3. Numbered(handleOf) /\ Numbered(channels)
  BY <1>2 DEF Numbered
<1>4. MopTypes
  BY <1>2, <1>3, MopAssumption DEF MopTypes
<1>5. HeldIn(held) = {} /\ AliveIn(channels) = {}
  BY DEF HeldIn, AliveIn
<1>6. Accounted
  BY <1>2, <1>5 DEF Accounted
<1> QED
  BY <1>4, <1>6 DEF MopInv, UniquePlaces, HeldKept, ClientKept, ServerKept,
                    TaskRuns

\* Whatever checkEntry finds, one task runs after it.
LEMMA CheckEntryRunsOne ==
  ASSUME TaskRuns, CheckEntry
  PROVE  mopObjectCnt' = 1 /\ mopTask' = 1
BY DEF TaskRuns, CheckEntry

LEMMA NewManagersKeepsMopInv ==
  ASSUME MopInv, NewManagers PROVE MopInv'
<1>1. /\ \A id \in PipelineIds : held[id] = 0
      /\ clientCall = NoCall /\ serverCall = NoCall
      /\ pipelineMap' = [id \in PipelineIds |-> 0]
      /\ UNCHANGED <<handleOf, deleted, channels, clientCall, serverCall, held,
                     undisposed>>
  BY DEF NewManagers, AllQuiet
<1>2. mopObjectCnt' = 0 /\ mopTask' = 0
  BY DEF NewManagers, CountAfterDestructor, MopInv, TaskRuns
<1>3. MopTypes'
  BY <1>1 DEF MopInv, MopTypes, Numbered
<1>4. UniquePlaces'
  <2>1. \A i \in PipelineIds : pipelineMap'[i] = 0
    BY <1>1
  <2>2. 0 \notin deleted
    BY NumberIsNew DEF MopInv, MopTypes
  <2> QED
    BY <1>1, <2>1, <2>2 DEF MopInv, UniquePlaces
<1>5. HeldKept' /\ ClientKept' /\ ServerKept'
  BY <1>1 DEF HeldKept, ClientKept, ServerKept
<1>6. TaskRuns'
  BY <1>1, <1>2 DEF TaskRuns
<1>7. Accounted'
  BY <1>1 DEF MopInv, Accounted, AliveIn, HeldIn
<1> QED
  BY <1>3, <1>4, <1>5, <1>6, <1>7 DEF MopInv

\* connect, when the channel has been created: the pipeline, old or new, gets
\* a channel that no pipeline has.
LEMMA ConnectOpensCall ==
  ASSUME MopInv, NEW id \in ClientIds,
         clientCall = NoCall, held[id] = 0, NewChannel \in Handles, CheckEntry,
         NEW p, p = IF pipelineMap[id] = 0 THEN NewPipeline
                    ELSE pipelineMap[id],
         pipelineMap' = [pipelineMap EXCEPT ![id] = p],
         channels' = WithChannel(NewChannel, "created"),
         handleOf' = WithHandle(p, NewChannel),
         clientCall' = [id |-> id, pipeline |-> p, tries |-> 0, bound |-> 0],
         UNCHANGED <<deleted, serverCall, held, undisposed>>
  PROVE  MopInv'
<1> DEFINE c == NewChannel
<1>1. MopTypes /\ UniquePlaces /\ HeldKept /\ ClientKept /\ ServerKept
      /\ TaskRuns /\ Accounted
  BY DEF MopInv
<1>2. id \in PipelineIds
  BY DEF PipelineIds
<1>3. /\ Numbered(channels') /\ DOMAIN channels' = DOMAIN channels \cup {c}
      /\ Cardinality(DOMAIN channels') = c
      /\ channels'[c] = "created"
      /\ \A h \in DOMAIN channels : channels'[h] = channels[h]
      /\ Cardinality(AliveIn(channels')) = Cardinality(AliveIn(channels)) + 1
  <2>1. channels' = With(channels, Cardinality(DOMAIN channels) + 1, "created")
    BY DEF WithChannel, With, NewChannel
  <2>2. Numbered(channels)
    BY <1>1 DEF MopTypes
  <2> QED
    BY <2>1, <2>2, NumberedGrows, AliveGrows DEF NewChannel
<1>4. c \notin DOMAIN channels /\ c # 0 /\ 0 \notin DOMAIN handleOf
      /\ c <= MaxChannels
  BY <1>1, NumberIsNew, MopAssumption DEF MopTypes, NewChannel, Handles
<1>5. /\ Numbered(handleOf') /\ DOMAIN handleOf' = DOMAIN handleOf \cup {p}
      /\ handleOf'[p] = c
      /\ \A h \in DOMAIN handleOf : h # p => handleOf'[h] = handleOf[h]
      /\ p # 0
  <2>1. handleOf' = With(handleOf, p, c)
    BY DEF WithHandle, With
  <2>2. Numbered(handleOf)
    BY <1>1 DEF MopTypes
  <2>3. CASE pipelineMap[id] = 0
    <3>1. p = Cardinality(DOMAIN handleOf) + 1
      BY <2>3 DEF NewPipeline
    <3>2. p \notin DOMAIN handleOf /\ p # 0
      BY <2>2, <3>1, NumberIsNew
    <3>3. /\ Numbered(handleOf') /\ DOMAIN handleOf' = DOMAIN handleOf \cup {p}
          /\ handleOf'[p] = c
          /\ \A h \in DOMAIN handleOf : handleOf'[h] = handleOf[h]
      BY <2>1, <2>2, <3>1, NumberedGrows
    <3> QED
      BY <3>2, <3>3
  <2>4. CASE pipelineMap[id] # 0
    <3>1. p \in DOMAIN handleOf
      BY <1>1, <1>2, <2>4 DEF MopTypes
    <3>2. /\ Numbered(handleOf') /\ DOMAIN handleOf' = DOMAIN handleOf
          /\ handleOf'[p] = c
          /\ \A h \in DOMAIN handleOf : h # p => handleOf'[h] = handleOf[h]
      BY <2>1, <2>2, <3>1, WithOld
    <3> QED
      BY <2>4, <3>1, <3>2
  <2> QED
    BY <2>3, <2>4
<1>6. /\ pipelineMap[id] = 0 => p \notin DOMAIN handleOf
      /\ pipelineMap[id] # 0 => p = pipelineMap[id] /\ p \in DOMAIN handleOf
      /\ \A i \in PipelineIds : i # id => pipelineMap[i] # p
      /\ p \notin deleted
  <2>1. pipelineMap[id] = 0 => p \notin DOMAIN handleOf
    BY <1>1, NumberIsNew DEF MopTypes, NewPipeline
  <2> QED
    BY <1>1, <1>2, <1>4, <1>5, <2>1 DEF MopTypes, UniquePlaces
<1>7. /\ pipelineMap'[id] = p
      /\ \A i \in PipelineIds : i # id => pipelineMap'[i] = pipelineMap[i]
      /\ pipelineMap' \in [PipelineIds -> DOMAIN handleOf' \cup {0}]
  BY <1>1, <1>2, <1>5 DEF MopTypes
<1>8. /\ clientCall'.id = id /\ clientCall'.pipeline = p
      /\ clientCall' = [id |-> id, pipeline |-> p, tries |-> 0, bound |-> 0]
      /\ clientCall' # NoCall
  BY <1>5 DEF NoCall
<1>9. /\ mopObjectCnt' = 1 /\ mopTask' = 1
  BY <1>1, CheckEntryRunsOne
<1>10. UNCHANGED <<deleted, serverCall, held, undisposed>>
  OBVIOUS
<1> HIDE DEF c
<1>11. MopTypes'
  <2>1. clientCall' \in [id : ClientIds, pipeline : DOMAIN handleOf',
                         tries : 0 .. ConnectRetryTimes - 1, bound : {0}]
    <3>1. p \in DOMAIN handleOf' /\ 0 \in 0 .. ConnectRetryTimes - 1
      BY <1>5, MopAssumption
    <3> QED
      BY <1>8, <3>1
  <2>2. held' \in [PipelineIds -> DOMAIN handleOf' \cup {0}]
    BY <1>1, <1>5, <1>10 DEF MopTypes
  <2>3. serverCall' = NoCall \/ serverCall' \in
          [id : ServerIds, pipeline : DOMAIN handleOf',
           tries : 0 .. AcceptRetryTimes - 1, bound : DOMAIN channels']
    BY <1>1, <1>3, <1>5, <1>10 DEF MopTypes
  <2>4. \A q \in DOMAIN handleOf' : handleOf'[q] \in DOMAIN channels' \cup {0}
    BY <1>1, <1>3, <1>5 DEF MopTypes
  <2>5. \A h \in DOMAIN channels' :
          channels'[h] \in {"created", "open", "closed", "destroyed"}
    BY <1>1, <1>3 DEF MopTypes
  <2> QED
    BY <1>1, <1>3, <1>4, <1>5, <1>7, <1>10, <2>1, <2>2, <2>3, <2>4, <2>5
       DEF MopTypes
<1>12. UniquePlaces'
  <2>1. \A q \in DOMAIN handleOf : handleOf[q] # c
    BY <1>1, <1>4 DEF MopTypes
  <2>2. \A q, r \in DOMAIN handleOf' :
          handleOf'[q] = handleOf'[r] /\ handleOf'[q] # 0 => q = r
    BY <1>1, <1>5, <2>1 DEF UniquePlaces
  <2>3. \A i, j \in PipelineIds :
          pipelineMap'[i] = pipelineMap'[j] /\ pipelineMap'[i] # 0 => i = j
    BY <1>1, <1>6, <1>7 DEF UniquePlaces
  <2>4. \A i \in PipelineIds : pipelineMap'[i] \notin deleted'
    BY <1>1, <1>6, <1>7, <1>10 DEF UniquePlaces
  <2> QED
    BY <2>2, <2>3, <2>4 DEF UniquePlaces
<1>13. HeldKept'
  <2> SUFFICES ASSUME NEW i \in PipelineIds, held[i] # 0
               PROVE  /\ pipelineMap'[i] = held[i] /\ handleOf'[held[i]] # 0
                      /\ channels'[handleOf'[held[i]]] = "open"
    BY <1>10 DEF HeldKept
  <2>1. /\ i # id /\ pipelineMap[i] = held[i] /\ held[i] \in DOMAIN handleOf
        /\ handleOf[held[i]] # 0 /\ channels[handleOf[held[i]]] = "open"
    BY <1>1 DEF MopTypes, HeldKept
  <2>2. held[i] # p /\ handleOf'[held[i]] = handleOf[held[i]]
    BY <1>5, <1>6, <2>1
  <2>3. handleOf[held[i]] \in DOMAIN channels
    BY <1>1, <2>1 DEF MopTypes
  <2> QED
    BY <1>3, <1>7, <2>1, <2>2, <2>3
<1>14. ClientKept'
  BY <1>3, <1>4, <1>5, <1>7, <1>8, <1>10 DEF ClientKept
<1>15. ServerKept'
  <2> SUFFICES ASSUME serverCall # NoCall
               PROVE  ServerKept'
    BY <1>10 DEF ServerKept
  <2>1. /\ serverCall.id \in ServerIds /\ serverCall.pipeline \in DOMAIN handleOf
        /\ serverCall.id # id /\ serverCall.id \in PipelineIds
    BY <1>1, MopAssumption DEF MopTypes, PipelineIds
  <2>2. serverCall.pipeline # p
    BY <1>1, <1>2, <1>6, <2>1 DEF ServerKept
  <2> QED
    BY <1>1, <1>5, <1>7, <1>10, <2>1, <2>2 DEF ServerKept
<1>16. TaskRuns'
  BY <1>9 DEF TaskRuns
<1>17. Accounted'
  <2>1. Cardinality(HeldIn(held)) \in Nat /\ undisposed \in Nat
        /\ Cardinality(AliveIn(channels)) \in Nat
    BY <1>1, FS_CardinalityType, AliveIsFinite DEF Accounted, MopTypes
  <2> QED
    BY <1>1, <1>3, <1>8, <1>10, <2>1 DEF Accounted, HeldIn
<1> QED
  BY <1>11, <1>12, <1>13, <1>14, <1>15, <1>16, <1>17 DEF MopInv

\* connect, when no channel could be created: the pipeline is in the table,
\* and nothing else has changed.
LEMMA ConnectFailsEarly ==
  ASSUME MopInv, NEW id \in ClientIds,
         clientCall = NoCall, held[id] = 0, CheckEntry,
         NEW p, p = IF pipelineMap[id] = 0 THEN NewPipeline
                    ELSE pipelineMap[id],
         pipelineMap' = [pipelineMap EXCEPT ![id] = p],
         handleOf' = IF p \in DOMAIN handleOf THEN handleOf
                     ELSE WithHandle(p, 0),
         UNCHANGED <<channels, clientCall, deleted, serverCall, held,
                     undisposed>>
  PROVE  MopInv'
<1>1. MopTypes /\ UniquePlaces /\ HeldKept /\ ClientKept /\ ServerKept
      /\ TaskRuns /\ Accounted
  BY DEF MopInv
<1>2. id \in PipelineIds
  BY DEF PipelineIds
<1>3. 0 \notin DOMAIN handleOf
  BY <1>1, NumberIsNew DEF MopTypes
<1>4. /\ Numbered(handleOf') /\ DOMAIN handleOf' = DOMAIN handleOf \cup {p}
      /\ p \notin DOMAIN handleOf => handleOf'[p] = 0
      /\ \A h \in DOMAIN handleOf : handleOf'[h] = handleOf[h]
      /\ p # 0
      /\ pipelineMap[id] = 0 => p \notin DOMAIN handleOf
      /\ pipelineMap[id] # 0 => p = pipelineMap[id] /\ p \in DOMAIN handleOf
  <2>1. Numbered(handleOf)
    BY <1>1 DEF MopTypes
  <2>2. CASE pipelineMap[id] = 0
    <3>1. p = Cardinality(DOMAIN handleOf) + 1
      BY <2>2 DEF NewPipeline
    <3>2. p \notin DOMAIN handleOf /\ p # 0
      BY <2>1, <3>1, NumberIsNew
    <3>3. handleOf' = With(handleOf, Cardinality(DOMAIN handleOf) + 1, 0)
      BY <3>1, <3>2 DEF WithHandle, With
    <3> DEFINE n    == Cardinality(DOMAIN handleOf)
               G(x) == With(handleOf, n + 1, x)
               g    == G(0)
    <3>4. \A x : /\ Numbered(G(x))
                 /\ DOMAIN G(x) = DOMAIN handleOf \cup {n + 1}
                 /\ G(x)[n + 1] = x
                 /\ \A h \in DOMAIN handleOf : G(x)[h] = handleOf[h]
      BY <2>1, NumberedGrows
    <3> HIDE DEF G
    <3>5. handleOf' = g
      BY <3>3 DEF G
    <3>6. /\ Numbered(handleOf') /\ DOMAIN handleOf' = DOMAIN handleOf \cup {p}
          /\ handleOf'[p] = 0
          /\ \A h \in DOMAIN handleOf : handleOf'[h] = handleOf[h]
      BY <3>1, <3>4, <3>5
    <3> QED
      BY <2>2, <3>2, <3>6
  <2>3. CASE pipelineMap[id] # 0
    <3>1. p = pipelineMap[id] /\ p \in DOMAIN handleOf /\ handleOf' = handleOf
      BY <1>1, <1>2, <2>3 DEF MopTypes
    <3> QED
      BY <1>3, <2>1, <2>3, <3>1 DEF Numbered
  <2> QED
    BY <2>2, <2>3
<1>5. /\ \A i \in PipelineIds : i # id => pipelineMap[i] # p
      /\ p \notin deleted
  BY <1>1, <1>2, <1>4 DEF MopTypes, UniquePlaces
<1>6. /\ pipelineMap'[id] = p
      /\ \A i \in PipelineIds : i # id => pipelineMap'[i] = pipelineMap[i]
      /\ pipelineMap' \in [PipelineIds -> DOMAIN handleOf' \cup {0}]
  BY <1>1, <1>2, <1>4 DEF MopTypes
<1>7. /\ mopObjectCnt' = 1 /\ mopTask' = 1
  BY <1>1, CheckEntryRunsOne
<1>8. UNCHANGED <<channels, clientCall, deleted, serverCall, held, undisposed>>
  OBVIOUS
<1>9. MopTypes'
  <2>1. held' \in [PipelineIds -> DOMAIN handleOf' \cup {0}]
    BY <1>1, <1>4, <1>8 DEF MopTypes
  <2>2. serverCall' = NoCall \/ serverCall' \in
          [id : ServerIds, pipeline : DOMAIN handleOf',
           tries : 0 .. AcceptRetryTimes - 1, bound : DOMAIN channels']
    BY <1>1, <1>4, <1>8 DEF MopTypes
  <2>3. \A q \in DOMAIN handleOf' : handleOf'[q] \in DOMAIN channels' \cup {0}
    BY <1>1, <1>4, <1>8 DEF MopTypes
  <2>4. Numbered(channels')
    BY <1>1, <1>8 DEF MopTypes, Numbered
  <2> QED
    BY <1>1, <1>4, <1>6, <1>8, <2>1, <2>2, <2>3, <2>4 DEF MopTypes
<1>10. UniquePlaces'
  <2>1. \A q, r \in DOMAIN handleOf' :
          handleOf'[q] = handleOf'[r] /\ handleOf'[q] # 0 => q = r
    BY <1>1, <1>4 DEF UniquePlaces
  <2>2. \A i, j \in PipelineIds :
          pipelineMap'[i] = pipelineMap'[j] /\ pipelineMap'[i] # 0 => i = j
    BY <1>1, <1>5, <1>6 DEF UniquePlaces
  <2>3. \A i \in PipelineIds : pipelineMap'[i] \notin deleted'
    BY <1>1, <1>5, <1>6, <1>8 DEF UniquePlaces
  <2> QED
    BY <2>1, <2>2, <2>3 DEF UniquePlaces
<1>11. HeldKept'
  <2> SUFFICES ASSUME NEW i \in PipelineIds, held[i] # 0
               PROVE  /\ pipelineMap'[i] = held[i] /\ handleOf'[held[i]] # 0
                      /\ channels'[handleOf'[held[i]]] = "open"
    BY <1>8 DEF HeldKept
  <2>1. /\ i # id /\ pipelineMap[i] = held[i] /\ held[i] \in DOMAIN handleOf
        /\ handleOf[held[i]] # 0 /\ channels[handleOf[held[i]]] = "open"
    BY <1>1 DEF MopTypes, HeldKept
  <2> QED
    BY <1>4, <1>6, <1>8, <2>1
<1>12. ClientKept'
  BY <1>8 DEF ClientKept
<1>13. ServerKept'
  <2> SUFFICES ASSUME serverCall # NoCall
               PROVE  ServerKept'
    BY <1>8 DEF ServerKept
  <2>1. /\ serverCall.id \in ServerIds /\ serverCall.pipeline \in DOMAIN handleOf
        /\ serverCall.id # id /\ serverCall.id \in PipelineIds
    BY <1>1, MopAssumption DEF MopTypes, PipelineIds
  <2>2. serverCall.pipeline # p
    BY <1>1, <1>2, <1>4, <2>1 DEF ServerKept
  <2> QED
    BY <1>1, <1>4, <1>6, <1>8, <2>1, <2>2 DEF ServerKept
<1>14. TaskRuns'
  BY <1>7 DEF TaskRuns
<1>15. Accounted'
  BY <1>1, <1>8 DEF Accounted, HeldIn, AliveIn
<1> QED
  BY <1>9, <1>10, <1>11, <1>12, <1>13, <1>14, <1>15 DEF MopInv

LEMMA ConnectKeepsMopInv ==
  ASSUME MopInv, NEW id \in ClientIds, Connect(id) PROVE MopInv'
<1> DEFINE p == IF pipelineMap[id] = 0 THEN NewPipeline ELSE pipelineMap[id]
<1>1. /\ clientCall = NoCall /\ held[id] = 0 /\ NewChannel \in Handles
      /\ CheckEntry /\ pipelineMap' = [pipelineMap EXCEPT ![id] = p]
      /\ UNCHANGED <<deleted, serverCall, held, undisposed>>
  BY DEF Connect
<1>2. \/ /\ channels' = WithChannel(NewChannel, "created")
         /\ handleOf' = WithHandle(p, NewChannel)
         /\ clientCall' = [id |-> id, pipeline |-> p, tries |-> 0, bound |-> 0]
      \/ /\ handleOf' = IF p \in DOMAIN handleOf THEN handleOf
                        ELSE WithHandle(p, 0)
         /\ UNCHANGED <<channels, clientCall>>
  BY Zenon DEF Connect, NoCall
<1> HIDE DEF p
<1>3. p = IF pipelineMap[id] = 0 THEN NewPipeline ELSE pipelineMap[id]
  BY DEF p
<1>4. ASSUME channels' = WithChannel(NewChannel, "created"),
             handleOf' = WithHandle(p, NewChannel),
             clientCall' = [id |-> id, pipeline |-> p, tries |-> 0, bound |-> 0]
      PROVE  MopInv'
  BY <1>1, <1>3, <1>4, ConnectOpensCall
<1>5. ASSUME handleOf' = IF p \in DOMAIN handleOf THEN handleOf
                         ELSE WithHandle(p, 0),
             UNCHANGED <<channels, clientCall>>
      PROVE  MopInv'
  BY <1>1, <1>3, <1>5, ConnectFailsEarly
<1> QED
  BY <1>2, <1>4, <1>5

\* The pipeline and the channel of a connect in progress are no other's.
LEMMA ClientCallAlone ==
  ASSUME MopInv, clientCall # NoCall
  PROVE  /\ clientCall.id \in ClientIds /\ clientCall.id \in PipelineIds
         /\ clientCall.pipeline \in DOMAIN handleOf
         /\ clientCall.pipeline # 0
         /\ clientCall.tries \in 0 .. ConnectRetryTimes - 1
         /\ clientCall.bound = 0
         /\ pipelineMap[clientCall.id] = clientCall.pipeline
         /\ held[clientCall.id] = 0
         /\ handleOf[clientCall.pipeline] \in DOMAIN channels
         /\ channels[handleOf[clientCall.pipeline]] = "created"
         /\ \A i \in PipelineIds : held[i] # 0 =>
              /\ held[i] \in DOMAIN handleOf
              /\ handleOf[held[i]] \in DOMAIN channels
              /\ handleOf[held[i]] # handleOf[clientCall.pipeline]
<1>1. MopTypes /\ UniquePlaces /\ HeldKept /\ ClientKept
  BY DEF MopInv
<1>2. /\ clientCall.id \in ClientIds /\ clientCall.id \in PipelineIds
      /\ clientCall.pipeline \in DOMAIN handleOf
      /\ clientCall.tries \in 0 .. ConnectRetryTimes - 1
      /\ clientCall.bound = 0
  BY <1>1 DEF MopTypes, PipelineIds
<1>3. /\ pipelineMap[clientCall.id] = clientCall.pipeline
      /\ held[clientCall.id] = 0 /\ handleOf[clientCall.pipeline] # 0
      /\ channels[handleOf[clientCall.pipeline]] = "created"
  BY <1>1 DEF ClientKept
<1>4. /\ handleOf[clientCall.pipeline] \in DOMAIN channels
      /\ clientCall.pipeline # 0
  BY <1>1, <1>2, <1>3, NumberIsNew DEF MopTypes
<1>5. ASSUME NEW i \in PipelineIds, held[i] # 0
      PROVE  /\ held[i] \in DOMAIN handleOf
             /\ handleOf[held[i]] \in DOMAIN channels
             /\ handleOf[held[i]] # handleOf[clientCall.pipeline]
  <2>1. held[i] \in DOMAIN handleOf
    BY <1>1, <1>5 DEF MopTypes
  <2>2. /\ handleOf[held[i]] # 0 /\ channels[handleOf[held[i]]] = "open"
    BY <1>1, <1>5 DEF HeldKept
  <2> QED
    BY <1>1, <1>3, <2>1, <2>2 DEF MopTypes
<1> QED
  BY <1>2, <1>3, <1>4, <1>5

\* A call that changes the state of one channel that no pipeline held by the
\* application has, and neither the table nor the pipelines, disturbs neither
\* the types nor the pipelines held before.
LEMMA ChannelOfCall ==
  ASSUME MopInv, NEW c \in DOMAIN channels, NEW s,
         s \in {"created", "open", "closed", "destroyed"},
         channels' = WithChannel(c, s),
         UNCHANGED <<pipelineMap, handleOf, deleted>>
  PROVE  /\ Numbered(handleOf') /\ Numbered(channels')
         /\ DOMAIN channels' = DOMAIN channels /\ channels'[c] = s
         /\ \A h \in DOMAIN channels : h # c => channels'[h] = channels[h]
         /\ \A h \in DOMAIN channels' :
              channels'[h] \in {"created", "open", "closed", "destroyed"}
         /\ UniquePlaces'
<1>1. MopTypes /\ UniquePlaces
  BY DEF MopInv
<1>2. channels' = With(channels, c, s)
  BY DEF WithChannel, With
<1>3. /\ DOMAIN channels' = DOMAIN channels /\ channels'[c] = s
      /\ \A h \in DOMAIN channels : h # c => channels'[h] = channels[h]
      /\ Numbered(channels')
  BY <1>1, <1>2, WithOld DEF MopTypes
<1>4. Numbered(handleOf') /\ UniquePlaces'
  BY <1>1 DEF MopTypes, UniquePlaces, Numbered
<1>5. \A h \in DOMAIN channels' :
        channels'[h] \in {"created", "open", "closed", "destroyed"}
  BY <1>1, <1>3 DEF MopTypes
<1> QED
  BY <1>3, <1>4, <1>5

LEMMA ConnectSucceeds ==
  ASSUME MopInv, clientCall # NoCall,
         channels' = WithChannel(handleOf[clientCall.pipeline], "open"),
         held' = [held EXCEPT ![clientCall.id] = clientCall.pipeline],
         clientCall' = NoCall,
         UNCHANGED <<pipelineMap, handleOf, deleted, mopObjectCnt, mopTask,
                     serverCall, undisposed>>
  PROVE  MopInv'
<1> DEFINE p  == clientCall.pipeline
           id == clientCall.id
           c  == handleOf[p]
<1>1. MopTypes /\ UniquePlaces /\ HeldKept /\ ClientKept /\ ServerKept
      /\ TaskRuns /\ Accounted
  BY DEF MopInv
<1>2. /\ id \in ClientIds /\ id \in PipelineIds
      /\ p \in DOMAIN handleOf /\ p # 0 /\ pipelineMap[id] = p /\ held[id] = 0
      /\ c \in DOMAIN channels /\ channels[c] = "created"
      /\ \A i \in PipelineIds : held[i] # 0 =>
           /\ handleOf[held[i]] \in DOMAIN channels
           /\ handleOf[held[i]] # c
  BY ClientCallAlone
<1>3. /\ Numbered(handleOf') /\ Numbered(channels')
      /\ DOMAIN channels' = DOMAIN channels /\ channels'[c] = "open"
      /\ \A h \in DOMAIN channels : h # c => channels'[h] = channels[h]
      /\ \A h \in DOMAIN channels' :
           channels'[h] \in {"created", "open", "closed", "destroyed"}
      /\ UniquePlaces'
  BY <1>2, ChannelOfCall
<1>4. /\ AliveIn(channels') = AliveIn(channels)
  BY <1>2, AliveStays DEF WithChannel, With
<1>5. /\ IsFiniteSet(HeldIn(held'))
      /\ Cardinality(HeldIn(held')) = Cardinality(HeldIn(held)) + 1
  BY <1>1, <1>2, HeldGrows DEF MopTypes, Accounted
<1>6. /\ held'[id] = p /\ \A i \in PipelineIds : i # id => held'[i] = held[i]
      /\ held' \in [PipelineIds -> DOMAIN handleOf' \cup {0}]
  BY <1>1, <1>2 DEF MopTypes
<1>7. c # 0
  BY <1>1, <1>2, NumberIsNew DEF MopTypes
<1>8. /\ clientCall' = NoCall
      /\ UNCHANGED <<pipelineMap, handleOf, deleted, mopObjectCnt, mopTask,
                     serverCall, undisposed>>
  OBVIOUS
<1> HIDE DEF p, id, c
<1>9. MopTypes'
  BY <1>1, <1>3, <1>6, <1>8 DEF MopTypes
<1>10. HeldKept'
  <2>1. handleOf'[p] = c
    BY <1>8 DEF c
  <2>2. ASSUME NEW i \in PipelineIds, i # id, held[i] # 0
        PROVE  /\ pipelineMap'[i] = held'[i] /\ handleOf'[held'[i]] # 0
               /\ channels'[handleOf'[held'[i]]] = "open"
    <3>1. /\ pipelineMap[i] = held[i] /\ handleOf[held[i]] # 0
          /\ handleOf[held[i]] \in DOMAIN channels /\ handleOf[held[i]] # c
          /\ channels[handleOf[held[i]]] = "open" /\ held'[i] = held[i]
      BY <1>1, <1>2, <1>6, <2>2 DEF HeldKept
    <3> QED
      BY <1>3, <1>8, <3>1
  <2> QED
    BY <1>2, <1>3, <1>6, <1>7, <1>8, <2>1, <2>2 DEF HeldKept
<1>11. ClientKept'
  BY <1>8 DEF ClientKept
<1>12. ServerKept'
  <2>1. serverCall # NoCall => serverCall.id # id /\ serverCall.id \in PipelineIds
    BY <1>1, <1>2, MopAssumption DEF MopTypes, PipelineIds
  <2> QED
    BY <1>1, <1>6, <1>8, <2>1 DEF ServerKept
<1>13. TaskRuns'
  BY <1>1, <1>8 DEF TaskRuns
<1>14. Accounted'
  <2>1. Cardinality(HeldIn(held)) \in Nat /\ undisposed \in Nat
    BY <1>1, FS_CardinalityType DEF Accounted, MopTypes
  <2>2. Cardinality(AliveIn(channels)) = Cardinality(HeldIn(held)) + 1
          + undisposed
    BY <1>1 DEF Accounted
  <2>3. Cardinality(AliveIn(channels')) = Cardinality(HeldIn(held')) + 0
          + undisposed'
    BY <1>4, <1>5, <1>8, <2>1, <2>2
  <2> QED
    BY <1>5, <1>8, <2>3 DEF Accounted
<1> QED
  BY <1>3, <1>9, <1>10, <1>11, <1>12, <1>13, <1>14 DEF MopInv

LEMMA ConnectTryFails ==
  ASSUME MopInv, clientCall # NoCall,
         channels' = WithChannel(handleOf[clientCall.pipeline],
                                 AfterLastTry(clientCall.tries + 1)),
         clientCall' = IF clientCall.tries + 1 = ConnectRetryTimes THEN NoCall
                       ELSE [clientCall EXCEPT !.tries = clientCall.tries + 1],
         UNCHANGED <<pipelineMap, handleOf, deleted, mopObjectCnt, mopTask,
                     serverCall, held, undisposed>>
  PROVE  MopInv'
<1> DEFINE p  == clientCall.pipeline
           id == clientCall.id
           c  == handleOf[p]
           t  == clientCall.tries + 1
<1>1. MopTypes /\ UniquePlaces /\ HeldKept /\ ClientKept /\ ServerKept
      /\ TaskRuns /\ Accounted
  BY DEF MopInv
<1>2. /\ id \in ClientIds /\ id \in PipelineIds
      /\ p \in DOMAIN handleOf /\ p # 0 /\ pipelineMap[id] = p /\ held[id] = 0
      /\ clientCall.tries \in 0 .. ConnectRetryTimes - 1
      /\ clientCall.bound = 0
      /\ c \in DOMAIN channels /\ channels[c] = "created"
      /\ \A i \in PipelineIds : held[i] # 0 =>
           /\ handleOf[held[i]] \in DOMAIN channels
           /\ handleOf[held[i]] # c
  BY ClientCallAlone
<1>3. /\ t # ConnectRetryTimes => t \in 0 .. ConnectRetryTimes - 1
  BY <1>2, MopAssumption
<1>4. /\ Numbered(handleOf') /\ Numbered(channels')
      /\ DOMAIN channels' = DOMAIN channels /\ channels'[c] = AfterLastTry(t)
      /\ \A h \in DOMAIN channels : h # c => channels'[h] = channels[h]
      /\ \A h \in DOMAIN channels' :
           channels'[h] \in {"created", "open", "closed", "destroyed"}
      /\ UniquePlaces'
  <2>1. AfterLastTry(t) \in {"created", "open", "closed", "destroyed"}
    BY DEF AfterLastTry
  <2>2. channels' = WithChannel(c, AfterLastTry(t))
    OBVIOUS
  <2> QED
    BY ONLY <1>2, <2>1, <2>2, MopInv, ChannelOfCall,
            UNCHANGED <<pipelineMap, handleOf, deleted>>
<1>5. clientCall' = IF t = ConnectRetryTimes THEN NoCall
                    ELSE [id |-> id, pipeline |-> p, tries |-> t, bound |-> 0]
  <2>1. clientCall \in [id : ClientIds, pipeline : DOMAIN handleOf,
                        tries : 0 .. ConnectRetryTimes - 1, bound : {0}]
    BY <1>1 DEF MopTypes
  <2> QED
    BY <1>2, <2>1
<1>6. channels' = With(channels, c, AfterLastTry(t))
  BY DEF WithChannel, With
<1>7. c # 0
  BY <1>1, <1>2, NumberIsNew DEF MopTypes
<1>8. UNCHANGED <<pipelineMap, handleOf, deleted, mopObjectCnt, mopTask,
                  serverCall, held, undisposed>>
  OBVIOUS
<1>9. clientCall # NoCall
  OBVIOUS
<1> HIDE DEF p, id, c, t
<1>10. MopTypes'
  <2>1. clientCall' = NoCall \/ clientCall' \in
          [id : ClientIds, pipeline : DOMAIN handleOf',
           tries : 0 .. ConnectRetryTimes - 1, bound : {0}]
    BY <1>2, <1>3, <1>5, <1>8
  <2> QED
    BY <1>1, <1>4, <1>8, <2>1 DEF MopTypes
<1>11. HeldKept'
  <2> SUFFICES ASSUME NEW i \in PipelineIds, held[i] # 0
               PROVE  /\ pipelineMap'[i] = held'[i] /\ handleOf'[held'[i]] # 0
                      /\ channels'[handleOf'[held'[i]]] = "open"
    BY <1>8 DEF HeldKept
  <2>1. /\ pipelineMap[i] = held[i] /\ handleOf[held[i]] # 0
        /\ handleOf[held[i]] \in DOMAIN channels /\ handleOf[held[i]] # c
        /\ channels[handleOf[held[i]]] = "open"
    BY <1>1, <1>2 DEF HeldKept
  <2> QED
    BY <1>4, <1>8, <2>1
<1>12. ClientKept'
  <2> SUFFICES ASSUME t # ConnectRetryTimes PROVE ClientKept'
    BY <1>5 DEF ClientKept
  <2>1. channels'[c] = "created"
    BY <1>4 DEF AfterLastTry
  <2>2. clientCall'.id = id /\ clientCall'.pipeline = p
    BY <1>5
  <2>3. handleOf'[p] = c
    BY <1>8 DEF c
  <2> QED
    BY <1>2, <1>7, <1>8, <2>1, <2>2, <2>3 DEF ClientKept
<1>13. ServerKept'
  BY <1>1, <1>8 DEF ServerKept
<1>14. TaskRuns'
  BY <1>1, <1>8, <1>9 DEF TaskRuns
<1>15. Accounted'
  <2>1. /\ Cardinality(HeldIn(held)) \in Nat /\ undisposed \in Nat
        /\ HeldIn(held') = HeldIn(held) /\ IsFiniteSet(HeldIn(held))
    BY <1>1, <1>8, FS_CardinalityType DEF Accounted, MopTypes, HeldIn
  <2>2. Cardinality(AliveIn(channels)) = Cardinality(HeldIn(held)) + 1
          + undisposed
    BY <1>1, <1>9 DEF Accounted
  <2>3. CASE t = ConnectRetryTimes
    <3>1. channels' = With(channels, c, "destroyed") /\ clientCall' = NoCall
      BY <1>5, <1>6, <2>3 DEF AfterLastTry
    <3>2. Cardinality(AliveIn(channels')) = Cardinality(AliveIn(channels)) - 1
      BY <1>1, <1>2, <3>1, AliveShrinks DEF MopTypes
    <3>3. Cardinality(AliveIn(channels')) = Cardinality(HeldIn(held')) + 0
            + undisposed'
      BY <1>8, <2>1, <2>2, <3>2
    <3> QED
      BY <2>1, <3>1, <3>3 DEF Accounted
  <2>4. CASE t # ConnectRetryTimes
    <3>1. channels' = With(channels, c, "created") /\ clientCall' # NoCall
      BY <1>2, <1>5, <1>6, <2>4 DEF AfterLastTry, NoCall
    <3>2. AliveIn(channels') = AliveIn(channels)
      BY <1>2, <3>1, AliveStays
    <3> QED
      BY <1>8, <2>1, <2>2, <3>1, <3>2 DEF Accounted
  <2> QED
    BY <2>3, <2>4
<1> QED
  BY <1>4, <1>10, <1>11, <1>12, <1>13, <1>14, <1>15 DEF MopInv

LEMMA ConnectChannelKeepsMopInv ==
  ASSUME MopInv, ConnectChannel PROVE MopInv'
<1>1. /\ clientCall # NoCall
      /\ UNCHANGED <<pipelineMap, handleOf, deleted, mopObjectCnt, mopTask,
                     serverCall, undisposed>>
  BY DEF ConnectChannel
<1>2. \/ /\ channels' = WithChannel(handleOf[clientCall.pipeline], "open")
         /\ held' = [held EXCEPT ![clientCall.id] = clientCall.pipeline]
         /\ clientCall' = NoCall
      \/ /\ channels' = WithChannel(handleOf[clientCall.pipeline],
                                    AfterLastTry(clientCall.tries + 1))
         /\ clientCall' = IF clientCall.tries + 1 = ConnectRetryTimes
                          THEN NoCall
                          ELSE [clientCall EXCEPT !.tries = clientCall.tries + 1]
         /\ UNCHANGED held
  BY Zenon DEF ConnectChannel
<1> QED
  BY <1>1, <1>2, ConnectSucceeds, ConnectTryFails

\* What the table leads to for an id that the application holds is no other's.
LEMMA HeldAlone ==
  ASSUME MopInv, NEW id \in PipelineIds, held[id] # 0
  PROVE  /\ pipelineMap[id] = held[id] /\ pipelineMap[id] # 0
         /\ held[id] \in DOMAIN handleOf
         /\ handleOf[held[id]] \in DOMAIN channels
         /\ handleOf[held[id]] # 0
         /\ channels[handleOf[held[id]]] = "open"
         /\ held[id] \notin deleted
         /\ \A i \in PipelineIds : i # id /\ held[i] # 0 =>
              /\ held[i] # held[id]
              /\ handleOf[held[i]] # handleOf[held[id]]
         /\ mopObjectCnt = 1
         /\ serverCall # NoCall => serverCall.pipeline # held[id]
<1>1. MopTypes /\ UniquePlaces /\ HeldKept /\ ServerKept /\ TaskRuns
  BY DEF MopInv
<1>2. \A i \in PipelineIds : held[i] # 0 =>
        /\ pipelineMap[i] = held[i] /\ held[i] \in DOMAIN handleOf
        /\ handleOf[held[i]] # 0 /\ handleOf[held[i]] \in DOMAIN channels
        /\ channels[handleOf[held[i]]] = "open"
  BY <1>1 DEF MopTypes, HeldKept
<1>3. \A i \in PipelineIds : i # id /\ held[i] # 0 =>
        /\ held[i] # held[id]
        /\ handleOf[held[i]] # handleOf[held[id]]
  BY <1>1, <1>2 DEF UniquePlaces
<1>4. held[id] \notin deleted
  BY <1>1, <1>2 DEF UniquePlaces
<1>5. serverCall # NoCall => serverCall.pipeline # held[id]
  BY <1>1, <1>2 DEF ServerKept
<1> QED
  BY <1>1, <1>2, <1>3, <1>4, <1>5 DEF TaskRuns

LEMMA DisconnectKeepsMopInv ==
  ASSUME MopInv, NEW id \in ClientIds, Disconnect(id) PROVE MopInv'
<1> DEFINE p == held[id]
           c == handleOf[p]
<1>1. MopTypes /\ UniquePlaces /\ HeldKept /\ ClientKept /\ ServerKept
      /\ TaskRuns /\ Accounted
  BY DEF MopInv
<1>2. /\ clientCall = NoCall /\ p # 0 /\ CheckEntry
      /\ UNCHANGED <<pipelineMap, handleOf, deleted, clientCall, serverCall>>
  BY DEF Disconnect
<1>3. id \in PipelineIds
  BY DEF PipelineIds
<1>4. /\ pipelineMap[id] = p /\ p \in DOMAIN handleOf
      /\ c \in DOMAIN channels /\ channels[c] = "open"
      /\ \A i \in PipelineIds : i # id /\ held[i] # 0 => handleOf[held[i]] # c
  BY <1>2, <1>3, HeldAlone
<1>5. /\ channels' = WithChannel(c, "closed")
      /\ held' = [held EXCEPT ![id] = 0]
      /\ undisposed' = undisposed + 1
  BY <1>2, <1>4 DEF Disconnect
<1>6. /\ Numbered(handleOf') /\ Numbered(channels')
      /\ DOMAIN channels' = DOMAIN channels /\ channels'[c] = "closed"
      /\ \A h \in DOMAIN channels : h # c => channels'[h] = channels[h]
      /\ \A h \in DOMAIN channels' :
           channels'[h] \in {"created", "open", "closed", "destroyed"}
      /\ UniquePlaces'
  <2>1. UNCHANGED <<pipelineMap, handleOf, deleted>>
    BY <1>2
  <2> QED
    BY <1>4, <1>5, <2>1, ChannelOfCall
<1>7. AliveIn(channels') = AliveIn(channels)
  <2>1. channels' = With(channels, c, "closed")
    BY <1>5 DEF WithChannel, With
  <2> QED
    BY <1>4, <2>1, AliveStays
<1>8. /\ IsFiniteSet(HeldIn(held'))
      /\ Cardinality(HeldIn(held')) = Cardinality(HeldIn(held)) - 1
  BY <1>1, <1>2, <1>3, <1>5, HeldShrinks DEF MopTypes, Accounted
<1>9. /\ held'[id] = 0 /\ \A i \in PipelineIds : i # id => held'[i] = held[i]
      /\ held' \in [PipelineIds -> DOMAIN handleOf' \cup {0}]
  BY <1>1, <1>2, <1>3, <1>5 DEF MopTypes
<1>10. mopObjectCnt' = 1 /\ mopTask' = 1
  BY <1>1, <1>2, CheckEntryRunsOne
<1> HIDE DEF p, c
<1>11. MopTypes'
  BY <1>1, <1>2, <1>5, <1>6, <1>9 DEF MopTypes
<1>12. HeldKept'
  <2> SUFFICES ASSUME NEW i \in PipelineIds, held'[i] # 0
               PROVE  /\ pipelineMap'[i] = held'[i] /\ handleOf'[held'[i]] # 0
                      /\ channels'[handleOf'[held'[i]]] = "open"
    BY DEF HeldKept
  <2>1. i # id /\ held'[i] = held[i]
    BY <1>9
  <2>2. /\ pipelineMap[i] = held[i] /\ handleOf[held[i]] # 0
        /\ handleOf[held[i]] \in DOMAIN channels /\ handleOf[held[i]] # c
        /\ channels[handleOf[held[i]]] = "open"
    BY <1>1, <1>4, <2>1 DEF HeldKept, MopTypes
  <2> QED
    BY <1>2, <1>6, <2>1, <2>2
<1>13. ClientKept'
  BY <1>2 DEF ClientKept
<1>14. ServerKept'
  BY <1>1, <1>2, <1>9 DEF ServerKept, MopTypes, PipelineIds
<1>15. TaskRuns'
  BY <1>10 DEF TaskRuns
<1>16. Accounted'
  <2>1. Cardinality(HeldIn(held)) \in Nat /\ undisposed \in Nat
    BY <1>1, FS_CardinalityType DEF Accounted, MopTypes
  <2>2. Cardinality(AliveIn(channels)) = Cardinality(HeldIn(held)) + 0
          + undisposed
    BY <1>1, <1>2 DEF Accounted
  <2>3. Cardinality(AliveIn(channels')) = Cardinality(HeldIn(held')) + 0
          + undisposed'
    BY <1>5, <1>7, <1>8, <2>1, <2>2
  <2> QED
    BY <1>2, <1>8, <2>3 DEF Accounted
<1> QED
  BY <1>6, <1>11, <1>12, <1>13, <1>14, <1>15, <1>16 DEF MopInv

LEMMA CloseKeepsMopInv ==
  ASSUME MopInv, NEW id \in ServerIds, Close(id) PROVE MopInv'
<1> DEFINE p == held[id]
           c == handleOf[p]
<1>1. MopTypes /\ UniquePlaces /\ HeldKept /\ ClientKept /\ ServerKept
      /\ TaskRuns /\ Accounted
  BY DEF MopInv
<1>2. /\ serverCall = NoCall /\ p # 0
      /\ UNCHANGED <<handleOf, clientCall, serverCall, undisposed>>
  BY DEF Close
<1>3. id \in PipelineIds
  BY DEF PipelineIds
<1>4. /\ pipelineMap[id] = p /\ p \in DOMAIN handleOf
      /\ c \in DOMAIN channels /\ channels[c] = "open"
      /\ \A i \in PipelineIds : i # id /\ held[i] # 0 => handleOf[held[i]] # c
  BY <1>2, <1>3, HeldAlone
<1>5. /\ CheckEntry
      /\ channels' = WithChannel(c, "destroyed")
      /\ deleted' = deleted \cup {p}
      /\ pipelineMap' = [pipelineMap EXCEPT ![id] = 0]
      /\ held' = [held EXCEPT ![id] = 0]
  BY <1>2, <1>4 DEF Close
<1>6. /\ DOMAIN channels' = DOMAIN channels /\ Numbered(channels')
      /\ \A h \in DOMAIN channels : h # c => channels'[h] = channels[h]
      /\ channels'[c] = "destroyed"
      /\ Cardinality(AliveIn(channels')) = Cardinality(AliveIn(channels)) - 1
  <2>1. channels' = With(channels, c, "destroyed")
    BY <1>5 DEF WithChannel, With
  <2>2. Numbered(channels) /\ channels[c] # "destroyed"
    BY <1>1, <1>4 DEF MopTypes
  <2> QED
    BY <1>4, <2>1, <2>2, WithOld, AliveShrinks
<1>7. /\ IsFiniteSet(HeldIn(held'))
      /\ Cardinality(HeldIn(held')) = Cardinality(HeldIn(held)) - 1
  BY <1>1, <1>2, <1>3, <1>5, HeldShrinks DEF MopTypes, Accounted
<1>8. /\ held'[id] = 0 /\ \A i \in PipelineIds : i # id => held'[i] = held[i]
      /\ held' \in [PipelineIds -> DOMAIN handleOf' \cup {0}]
      /\ pipelineMap'[id] = 0
      /\ \A i \in PipelineIds : i # id => pipelineMap'[i] = pipelineMap[i]
      /\ pipelineMap' \in [PipelineIds -> DOMAIN handleOf' \cup {0}]
  BY <1>1, <1>2, <1>3, <1>5 DEF MopTypes
<1>9. mopObjectCnt' = 1 /\ mopTask' = 1
  BY <1>1, <1>5, CheckEntryRunsOne
<1> HIDE DEF p, c
<1>10. MopTypes'
  <2>1. \A h \in DOMAIN channels' :
          channels'[h] \in {"created", "open", "closed", "destroyed"}
    BY <1>1, <1>6 DEF MopTypes
  <2>2. Numbered(handleOf')
    BY <1>1, <1>2 DEF MopTypes, Numbered
  <2> QED
    BY <1>1, <1>2, <1>4, <1>5, <1>6, <1>8, <2>1, <2>2 DEF MopTypes
<1>11. UniquePlaces'
  <2>1. 0 \notin DOMAIN handleOf
    BY <1>1, NumberIsNew DEF MopTypes
  <2>2. \A i, j \in PipelineIds :
          pipelineMap'[i] = pipelineMap'[j] /\ pipelineMap'[i] # 0 => i = j
    BY <1>1, <1>8 DEF UniquePlaces
  <2>3. 0 \notin deleted /\ p # 0
    BY <1>1, <1>2, <2>1 DEF MopTypes
  <2>4. \A i \in PipelineIds : i # id => pipelineMap[i] # p
    BY <1>1, <1>2, <1>3, <1>4 DEF UniquePlaces
  <2>5. \A i \in PipelineIds : pipelineMap'[i] \notin deleted'
    BY <1>1, <1>5, <1>8, <2>3, <2>4 DEF UniquePlaces
  <2> QED
    BY <1>1, <1>2, <2>2, <2>5 DEF UniquePlaces
<1>12. HeldKept'
  <2> SUFFICES ASSUME NEW i \in PipelineIds, held'[i] # 0
               PROVE  /\ pipelineMap'[i] = held'[i] /\ handleOf'[held'[i]] # 0
                      /\ channels'[handleOf'[held'[i]]] = "open"
    BY DEF HeldKept
  <2>1. i # id /\ held'[i] = held[i]
    BY <1>8
  <2>2. /\ pipelineMap[i] = held[i] /\ handleOf[held[i]] # 0
        /\ handleOf[held[i]] \in DOMAIN channels /\ handleOf[held[i]] # c
        /\ channels[handleOf[held[i]]] = "open"
    BY <1>1, <1>4, <2>1 DEF HeldKept, MopTypes
  <2> QED
    BY <1>2, <1>6, <1>8, <2>1, <2>2
<1>13. ClientKept'
  <2> SUFFICES ASSUME clientCall # NoCall PROVE ClientKept'
    BY <1>2 DEF ClientKept
  <2>1. /\ clientCall.id # id /\ clientCall.id \in PipelineIds
        /\ handleOf[clientCall.pipeline] \in DOMAIN channels
        /\ handleOf[clientCall.pipeline] # c
    BY <1>2, <1>3, ClientCallAlone, MopAssumption DEF p, c
  <2> QED
    BY <1>1, <1>2, <1>6, <1>8, <2>1 DEF ClientKept
<1>14. ServerKept'
  BY <1>2 DEF ServerKept
<1>15. TaskRuns'
  BY <1>9 DEF TaskRuns
<1>16. Accounted'
  <2>1. /\ Cardinality(HeldIn(held)) \in Nat /\ undisposed \in Nat
        /\ Cardinality(AliveIn(channels)) \in Nat
    BY <1>1, FS_CardinalityType, AliveIsFinite DEF Accounted, MopTypes
  <2> QED
    BY <1>1, <1>2, <1>6, <1>7, <2>1 DEF Accounted
<1> QED
  BY <1>10, <1>11, <1>12, <1>13, <1>14, <1>15, <1>16 DEF MopInv

\* A channel is created: the others stay as they are.
LEMMA ChannelCreated ==
  ASSUME MopInv, NEW s, s \in {"created", "open"}, NewChannel \in Handles,
         channels' = WithChannel(NewChannel, s)
  PROVE  /\ Numbered(channels')
         /\ DOMAIN channels' = DOMAIN channels \cup {NewChannel}
         /\ Cardinality(DOMAIN channels') <= MaxChannels
         /\ channels'[NewChannel] = s
         /\ NewChannel \notin DOMAIN channels /\ NewChannel # 0
         /\ \A h \in DOMAIN channels : channels'[h] = channels[h]
         /\ \A h \in DOMAIN channels' :
              channels'[h] \in {"created", "open", "closed", "destroyed"}
         /\ Cardinality(AliveIn(channels')) = Cardinality(AliveIn(channels)) + 1
<1> DEFINE n    == Cardinality(DOMAIN channels)
           G(x) == With(channels, n + 1, x)
<1>1. Numbered(channels) /\ MopTypes
  BY DEF MopInv, MopTypes
<1>2. /\ Numbered(G(s))
      /\ DOMAIN G(s) = DOMAIN channels \cup {n + 1}
      /\ Cardinality(DOMAIN G(s)) = n + 1
      /\ G(s)[n + 1] = s
      /\ \A h \in DOMAIN channels : G(s)[h] = channels[h]
  BY <1>1, NumberedGrows
<1>3. /\ channels' = G(s)
  BY DEF WithChannel, With, NewChannel
<1>4. Cardinality(AliveIn(G(s))) = Cardinality(AliveIn(channels)) + 1
  BY <1>1, AliveGrows
<1>5. n \in Nat /\ n + 1 \notin DOMAIN channels /\ n + 1 <= MaxChannels
      /\ NewChannel = n + 1
  BY <1>1, NumberIsNew DEF NewChannel, Handles
<1> HIDE DEF G, n
<1>6. \A h \in DOMAIN channels' :
        channels'[h] \in {"created", "open", "closed", "destroyed"}
  BY <1>1, <1>2, <1>3 DEF MopTypes
<1> QED
  BY <1>2, <1>3, <1>4, <1>5, <1>6

\* accept, when the channel for binding was created and could not be bound.
LEMMA AcceptNotBound ==
  ASSUME MopInv, serverCall = NoCall, NewChannel \in Handles, CheckEntry,
         channels' = WithChannel(NewChannel, "created"),
         undisposed' = undisposed + 1,
         UNCHANGED <<pipelineMap, deleted, clientCall, held, handleOf,
                     serverCall>>
  PROVE  MopInv'
<1> DEFINE c == NewChannel
<1>1. MopTypes /\ UniquePlaces /\ HeldKept /\ ClientKept /\ ServerKept
      /\ TaskRuns /\ Accounted
  BY DEF MopInv
<1>2. /\ Numbered(channels') /\ DOMAIN channels' = DOMAIN channels \cup {c}
      /\ Cardinality(DOMAIN channels') <= MaxChannels
      /\ \A h \in DOMAIN channels : channels'[h] = channels[h]
      /\ \A h \in DOMAIN channels' :
           channels'[h] \in {"created", "open", "closed", "destroyed"}
      /\ Cardinality(AliveIn(channels')) = Cardinality(AliveIn(channels)) + 1
  BY ChannelCreated
<1>3. /\ undisposed' = undisposed + 1
      /\ UNCHANGED <<pipelineMap, deleted, clientCall, held, handleOf,
                     serverCall>>
      /\ serverCall = NoCall
  OBVIOUS
<1>4. mopObjectCnt' = 1 /\ mopTask' = 1
  BY <1>1, CheckEntryRunsOne
<1> HIDE DEF c
<1>5. MopTypes'
  <2>1. Numbered(handleOf')
    BY <1>1, <1>3 DEF MopTypes, Numbered
  <2>2. \A q \in DOMAIN handleOf' : handleOf'[q] \in DOMAIN channels' \cup {0}
    BY <1>1, <1>2, <1>3 DEF MopTypes
  <2> QED
    BY <1>1, <1>2, <1>3, <2>1, <2>2 DEF MopTypes
<1>6. UniquePlaces'
  BY <1>1, <1>3 DEF UniquePlaces
<1>7. HeldKept'
  <2> SUFFICES ASSUME NEW i \in PipelineIds, held[i] # 0
               PROVE  /\ pipelineMap[i] = held[i] /\ handleOf[held[i]] # 0
                      /\ channels'[handleOf[held[i]]] = "open"
    BY <1>3 DEF HeldKept
  <2> QED
    BY <1>2, HeldAlone
<1>8. ClientKept'
  <2> SUFFICES ASSUME clientCall # NoCall PROVE ClientKept'
    BY <1>3 DEF ClientKept
  <2>1. handleOf[clientCall.pipeline] \in DOMAIN channels
    BY ClientCallAlone
  <2> QED
    BY <1>1, <1>2, <1>3, <2>1 DEF ClientKept
<1>9. ServerKept'
  BY <1>3 DEF ServerKept
<1>10. TaskRuns'
  BY <1>4 DEF TaskRuns
<1>11. Accounted'
  <2>1. /\ Cardinality(HeldIn(held)) \in Nat /\ undisposed \in Nat
        /\ Cardinality(AliveIn(channels)) \in Nat /\ HeldIn(held') = HeldIn(held)
    BY <1>1, <1>3, FS_CardinalityType, AliveIsFinite
       DEF Accounted, MopTypes, HeldIn
  <2> QED
    BY <1>1, <1>2, <1>3, <2>1 DEF Accounted
<1> QED
  BY <1>5, <1>6, <1>7, <1>8, <1>9, <1>10, <1>11 DEF MopInv

\* accept, when the channel for binding is bound: the new pipeline is known to
\* the call alone.
LEMMA AcceptOpensCall ==
  ASSUME MopInv, NEW id \in ServerIds, serverCall = NoCall, held[id] = 0,
         NewChannel \in Handles, CheckEntry, pipelineMap[id] = 0,
         channels' = WithChannel(NewChannel, "created"),
         undisposed' = undisposed + 1,
         handleOf' = WithHandle(NewPipeline, 0),
         serverCall' = [id |-> id, pipeline |-> NewPipeline,
                        tries |-> 0, bound |-> NewChannel],
         UNCHANGED <<pipelineMap, deleted, clientCall, held>>
  PROVE  MopInv'
<1> DEFINE c    == NewChannel
           p    == NewPipeline
           G(x) == With(handleOf, Cardinality(DOMAIN handleOf) + 1, x)
<1>1. MopTypes /\ UniquePlaces /\ HeldKept /\ ClientKept /\ ServerKept
      /\ TaskRuns /\ Accounted
  BY DEF MopInv
<1>2. /\ Numbered(channels') /\ DOMAIN channels' = DOMAIN channels \cup {c}
      /\ Cardinality(DOMAIN channels') <= MaxChannels
      /\ \A h \in DOMAIN channels : channels'[h] = channels[h]
      /\ \A h \in DOMAIN channels' :
           channels'[h] \in {"created", "open", "closed", "destroyed"}
      /\ Cardinality(AliveIn(channels')) = Cardinality(AliveIn(channels)) + 1
  BY ChannelCreated
<1>3. /\ undisposed' = undisposed + 1 /\ pipelineMap[id] = 0 /\ held[id] = 0
      /\ UNCHANGED <<pipelineMap, deleted, clientCall, held>>
      /\ serverCall' = [id |-> id, pipeline |-> p, tries |-> 0, bound |-> c]
      /\ id \in PipelineIds
  BY DEF PipelineIds
<1>4. mopObjectCnt' = 1 /\ mopTask' = 1
  BY <1>1, CheckEntryRunsOne
<1>5. /\ Numbered(handleOf') /\ DOMAIN handleOf' = DOMAIN handleOf \cup {p}
      /\ handleOf'[p] = 0 /\ p \notin DOMAIN handleOf /\ p # 0
      /\ \A h \in DOMAIN handleOf : handleOf'[h] = handleOf[h]
  <2>1. Numbered(handleOf)
    BY <1>1 DEF MopTypes
  <2>2. p \notin DOMAIN handleOf /\ p # 0
    BY <2>1, NumberIsNew DEF NewPipeline
  <2>3. handleOf' = G(0)
    BY DEF WithHandle, With, NewPipeline
  <2>4. \A x : /\ Numbered(G(x))
               /\ DOMAIN G(x)
                    = DOMAIN handleOf \cup {Cardinality(DOMAIN handleOf) + 1}
               /\ G(x)[Cardinality(DOMAIN handleOf) + 1] = x
               /\ \A h \in DOMAIN handleOf : G(x)[h] = handleOf[h]
    BY ONLY <2>1, NumberedGrows
  <2> HIDE DEF G
  <2> QED
    BY <2>2, <2>3, <2>4 DEF NewPipeline
<1> HIDE DEF c, p, G
<1>6. MopTypes'
  <2>1. \A q \in DOMAIN handleOf' : handleOf'[q] \in DOMAIN channels' \cup {0}
    BY <1>1, <1>2, <1>5 DEF MopTypes
  <2>2. serverCall' \in
          [id : ServerIds, pipeline : DOMAIN handleOf',
           tries : 0 .. AcceptRetryTimes - 1, bound : DOMAIN channels']
    <3>1. p \in DOMAIN handleOf' /\ c \in DOMAIN channels'
          /\ 0 \in 0 .. AcceptRetryTimes - 1
      BY <1>2, <1>5, MopAssumption
    <3> QED
      BY <1>3, <3>1
  <2>3. clientCall' = NoCall \/ clientCall' \in
          [id : ClientIds, pipeline : DOMAIN handleOf',
           tries : 0 .. ConnectRetryTimes - 1, bound : {0}]
    BY <1>1, <1>3, <1>5 DEF MopTypes
  <2>4. /\ held' \in [PipelineIds -> DOMAIN handleOf' \cup {0}]
        /\ pipelineMap' \in [PipelineIds -> DOMAIN handleOf' \cup {0}]
    BY <1>1, <1>3, <1>5 DEF MopTypes
  <2> QED
    BY <1>1, <1>2, <1>3, <1>5, <2>1, <2>2, <2>3, <2>4 DEF MopTypes
<1>7. UniquePlaces'
  BY <1>1, <1>3, <1>5 DEF UniquePlaces
<1>8. HeldKept'
  <2> SUFFICES ASSUME NEW i \in PipelineIds, held[i] # 0
               PROVE  /\ pipelineMap[i] = held[i] /\ handleOf'[held[i]] # 0
                      /\ channels'[handleOf'[held[i]]] = "open"
    BY <1>3 DEF HeldKept
  <2> QED
    BY <1>2, <1>5, HeldAlone
<1>9. ClientKept'
  <2> SUFFICES ASSUME clientCall # NoCall PROVE ClientKept'
    BY <1>3 DEF ClientKept
  <2>1. /\ handleOf[clientCall.pipeline] \in DOMAIN channels
        /\ clientCall.pipeline \in DOMAIN handleOf
    BY ClientCallAlone
  <2> QED
    BY <1>1, <1>2, <1>3, <1>5, <2>1 DEF ClientKept
<1>10. ServerKept'
  <2>1. /\ serverCall'.id = id /\ serverCall'.pipeline = p
    BY <1>3
  <2>2. p \notin deleted /\ \A i \in PipelineIds : pipelineMap[i] # p
    BY <1>1, <1>5 DEF MopTypes
  <2> QED
    BY <1>3, <1>5, <2>1, <2>2 DEF ServerKept
<1>11. TaskRuns'
  BY <1>4 DEF TaskRuns
<1>12. Accounted'
  <2>1. /\ Cardinality(HeldIn(held)) \in Nat /\ undisposed \in Nat
        /\ Cardinality(AliveIn(channels)) \in Nat /\ HeldIn(held') = HeldIn(held)
    BY <1>1, <1>3, FS_CardinalityType, AliveIsFinite
       DEF Accounted, MopTypes, HeldIn
  <2> QED
    BY <1>1, <1>2, <1>3, <2>1 DEF Accounted
<1> QED
  BY <1>6, <1>7, <1>8, <1>9, <1>10, <1>11, <1>12 DEF MopInv

LEMMA AcceptKeepsMopInv ==
  ASSUME MopInv, NEW id \in ServerIds, Accept(id) PROVE MopInv'
<1>1. /\ serverCall = NoCall /\ NewChannel \in Handles /\ CheckEntry
      /\ UNCHANGED <<pipelineMap, deleted, clientCall, held>>
  BY DEF Accept
<1>2. id \in PipelineIds
  BY DEF PipelineIds
<1>3. ASSUME pipelineMap[id] = 0,
             channels' = WithChannel(NewChannel, "created"),
             undisposed' = undisposed + 1,
             handleOf' = WithHandle(NewPipeline, 0),
             serverCall' = [id |-> id, pipeline |-> NewPipeline,
                            tries |-> 0, bound |-> NewChannel]
      PROVE  MopInv'
  <2>1. held[id] = 0
    BY <1>2, <1>3, HeldAlone
  <2> QED
    BY <1>1, <1>3, <2>1, AcceptOpensCall
<1>4. ASSUME channels' = WithChannel(NewChannel, "created"),
             undisposed' = undisposed + 1,
             UNCHANGED <<handleOf, serverCall>>
      PROVE  MopInv'
  BY <1>1, <1>4, AcceptNotBound
<1>5. ASSUME UNCHANGED <<channels, undisposed, handleOf, serverCall>>
      PROVE  MopInv'
  <2>1. mopObjectCnt' = 1 /\ mopTask' = 1
    BY <1>1, CheckEntryRunsOne DEF MopInv
  <2>2. UNCHANGED <<pipelineMap, deleted, clientCall, held, channels,
                    undisposed, handleOf, serverCall>>
    BY <1>1, <1>5
  <2>3. (MopTypes /\ UniquePlaces /\ HeldKept /\ ClientKept /\ ServerKept)'
    BY <2>2 DEF MopInv, MopTypes, Numbered, UniquePlaces, HeldKept, ClientKept,
                ServerKept
  <2>4. TaskRuns'
    BY <2>1 DEF TaskRuns
  <2>5. Accounted'
    BY <2>2 DEF MopInv, Accounted, HeldIn, AliveIn
  <2> QED
    BY <2>3, <2>4, <2>5 DEF MopInv
<1>6. \/ /\ pipelineMap[id] = 0
         /\ channels' = WithChannel(NewChannel, "created")
         /\ undisposed' = undisposed + 1
         /\ \/ /\ handleOf' = WithHandle(NewPipeline, 0)
               /\ serverCall' = [id |-> id, pipeline |-> NewPipeline,
                                 tries |-> 0, bound |-> NewChannel]
            \/ UNCHANGED <<handleOf, serverCall>>
      \/ UNCHANGED <<channels, undisposed, handleOf, serverCall>>
  BY DEF Accept
<1> QED
  BY <1>3, <1>4, <1>5, <1>6

\* The pipeline of an accept in progress is the call's alone.
LEMMA ServerCallAlone ==
  ASSUME MopInv, serverCall # NoCall
  PROVE  /\ serverCall.id \in ServerIds /\ serverCall.id \in PipelineIds
         /\ serverCall.pipeline \in DOMAIN handleOf /\ serverCall.pipeline # 0
         /\ serverCall.bound \in DOMAIN channels
         /\ serverCall.tries \in 0 .. AcceptRetryTimes - 1
         /\ pipelineMap[serverCall.id] = 0 /\ held[serverCall.id] = 0
         /\ serverCall.pipeline \notin deleted
         /\ \A i \in PipelineIds :
              pipelineMap[i] # serverCall.pipeline /\ held[i] # serverCall.pipeline
         /\ clientCall # NoCall =>
              /\ clientCall.pipeline # serverCall.pipeline
              /\ clientCall.id # serverCall.id
<1>1. MopTypes /\ HeldKept /\ ClientKept /\ ServerKept
  BY DEF MopInv
<1>2. /\ serverCall.id \in ServerIds /\ serverCall.id \in PipelineIds
      /\ serverCall.pipeline \in DOMAIN handleOf /\ serverCall.pipeline # 0
      /\ serverCall.bound \in DOMAIN channels
      /\ serverCall.tries \in 0 .. AcceptRetryTimes - 1
  BY <1>1, NumberIsNew DEF MopTypes, PipelineIds
<1>3. /\ pipelineMap[serverCall.id] = 0 /\ held[serverCall.id] = 0
      /\ serverCall.pipeline \notin deleted
      /\ \A i \in PipelineIds : pipelineMap[i] # serverCall.pipeline
  BY <1>1 DEF ServerKept
<1>4. \A i \in PipelineIds : held[i] # serverCall.pipeline
  BY <1>1, <1>2, <1>3 DEF HeldKept
<1>5. clientCall # NoCall =>
        /\ clientCall.pipeline # serverCall.pipeline
        /\ clientCall.id # serverCall.id
  BY <1>2, <1>3, ClientCallAlone, MopAssumption
<1> QED
  BY <1>2, <1>3, <1>4, <1>5

LEMMA AcceptSucceeds ==
  ASSUME MopInv, serverCall # NoCall, NewChannel \in Handles,
         channels' = WithChannel(NewChannel, "open"),
         handleOf' = WithHandle(serverCall.pipeline, NewChannel),
         pipelineMap' = [pipelineMap EXCEPT
                           ![serverCall.id] = serverCall.pipeline],
         held' = [held EXCEPT ![serverCall.id] = serverCall.pipeline],
         serverCall' = NoCall,
         UNCHANGED <<deleted, mopObjectCnt, mopTask, clientCall, undisposed>>
  PROVE  MopInv'
<1> DEFINE c  == NewChannel
           p  == serverCall.pipeline
           id == serverCall.id
<1>1. MopTypes /\ UniquePlaces /\ HeldKept /\ ClientKept /\ ServerKept
      /\ TaskRuns /\ Accounted
  BY DEF MopInv
<1>2. /\ id \in PipelineIds /\ p \in DOMAIN handleOf /\ p # 0
      /\ pipelineMap[id] = 0 /\ held[id] = 0 /\ p \notin deleted
      /\ \A i \in PipelineIds : pipelineMap[i] # p /\ held[i] # p
      /\ clientCall # NoCall => clientCall.pipeline # p /\ clientCall.id # id
  BY ServerCallAlone
<1>3. /\ Numbered(channels') /\ DOMAIN channels' = DOMAIN channels \cup {c}
      /\ Cardinality(DOMAIN channels') <= MaxChannels
      /\ channels'[c] = "open" /\ c \notin DOMAIN channels /\ c # 0
      /\ \A h \in DOMAIN channels : channels'[h] = channels[h]
      /\ \A h \in DOMAIN channels' :
           channels'[h] \in {"created", "open", "closed", "destroyed"}
      /\ Cardinality(AliveIn(channels')) = Cardinality(AliveIn(channels)) + 1
  BY ChannelCreated
<1>4. /\ Numbered(handleOf') /\ DOMAIN handleOf' = DOMAIN handleOf
      /\ handleOf'[p] = c
      /\ \A h \in DOMAIN handleOf : h # p => handleOf'[h] = handleOf[h]
  <2>1. handleOf' = With(handleOf, p, c) /\ Numbered(handleOf)
    BY <1>1 DEF WithHandle, With, MopTypes
  <2> QED
    BY <1>2, <2>1, WithOld
<1>5. /\ held'[id] = p /\ \A i \in PipelineIds : i # id => held'[i] = held[i]
      /\ held' \in [PipelineIds -> DOMAIN handleOf' \cup {0}]
      /\ pipelineMap'[id] = p
      /\ \A i \in PipelineIds : i # id => pipelineMap'[i] = pipelineMap[i]
      /\ pipelineMap' \in [PipelineIds -> DOMAIN handleOf' \cup {0}]
  BY <1>1, <1>2, <1>4 DEF MopTypes
<1>6. /\ IsFiniteSet(HeldIn(held'))
      /\ Cardinality(HeldIn(held')) = Cardinality(HeldIn(held)) + 1
  BY <1>1, <1>2, HeldGrows DEF MopTypes, Accounted
<1>7. /\ serverCall' = NoCall /\ serverCall # NoCall
      /\ UNCHANGED <<deleted, mopObjectCnt, mopTask, clientCall, undisposed>>
  OBVIOUS
<1> HIDE DEF c, p, id
<1>8. MopTypes'
  <2>1. \A q \in DOMAIN handleOf' : handleOf'[q] \in DOMAIN channels' \cup {0}
    BY <1>1, <1>2, <1>3, <1>4 DEF MopTypes
  <2>2. clientCall' = NoCall \/ clientCall' \in
          [id : ClientIds, pipeline : DOMAIN handleOf',
           tries : 0 .. ConnectRetryTimes - 1, bound : {0}]
    BY <1>1, <1>4, <1>7 DEF MopTypes
  <2> QED
    BY <1>1, <1>3, <1>4, <1>5, <1>7, <2>1, <2>2 DEF MopTypes
<1>9. UniquePlaces'
  <2>1. \A q \in DOMAIN handleOf : handleOf[q] # c
    BY <1>1, <1>3 DEF MopTypes
  <2>2. \A q, r \in DOMAIN handleOf' :
          handleOf'[q] = handleOf'[r] /\ handleOf'[q] # 0 => q = r
    BY <1>1, <1>2, <1>4, <2>1 DEF UniquePlaces
  <2>3. \A i, j \in PipelineIds :
          pipelineMap'[i] = pipelineMap'[j] /\ pipelineMap'[i] # 0 => i = j
    BY <1>1, <1>2, <1>5 DEF UniquePlaces
  <2>4. \A i \in PipelineIds : pipelineMap'[i] \notin deleted'
    BY <1>1, <1>2, <1>5, <1>7 DEF UniquePlaces
  <2> QED
    BY <2>2, <2>3, <2>4 DEF UniquePlaces
<1>10. HeldKept'
  <2> SUFFICES ASSUME NEW i \in PipelineIds, held'[i] # 0
               PROVE  /\ pipelineMap'[i] = held'[i] /\ handleOf'[held'[i]] # 0
                      /\ channels'[handleOf'[held'[i]]] = "open"
    BY DEF HeldKept
  <2>1. CASE i = id
    BY <1>3, <1>4, <1>5, <2>1
  <2>2. CASE i # id
    <3>1. held'[i] = held[i] /\ held[i] # p
      BY <1>2, <1>5, <2>2
    <3>2. /\ pipelineMap[i] = held[i] /\ held[i] \in DOMAIN handleOf
          /\ handleOf[held[i]] # 0 /\ handleOf[held[i]] \in DOMAIN channels
          /\ channels[handleOf[held[i]]] = "open"
      BY <3>1, HeldAlone
    <3> QED
      BY <1>3, <1>4, <1>5, <2>2, <3>1, <3>2
  <2> QED
    BY <2>1, <2>2
<1>11. ClientKept'
  <2> SUFFICES ASSUME clientCall # NoCall PROVE ClientKept'
    BY <1>7 DEF ClientKept
  <2>1. /\ handleOf[clientCall.pipeline] \in DOMAIN channels
        /\ clientCall.pipeline \in DOMAIN handleOf
        /\ clientCall.id \in PipelineIds
    BY ClientCallAlone
  <2> QED
    BY <1>1, <1>2, <1>3, <1>4, <1>5, <1>7, <2>1 DEF ClientKept
<1>12. ServerKept'
  BY <1>7 DEF ServerKept
<1>13. TaskRuns'
  BY <1>1, <1>7 DEF TaskRuns
<1>14. Accounted'
  <2>1. /\ Cardinality(HeldIn(held)) \in Nat /\ undisposed \in Nat
        /\ Cardinality(AliveIn(channels)) \in Nat
    BY <1>1, FS_CardinalityType, AliveIsFinite DEF Accounted, MopTypes
  <2> QED
    BY <1>1, <1>3, <1>6, <1>7, <2>1 DEF Accounted
<1> QED
  BY <1>8, <1>9, <1>10, <1>11, <1>12, <1>13, <1>14 DEF MopInv

LEMMA AcceptTryFails ==
  ASSUME MopInv, serverCall # NoCall,
         serverCall' = IF serverCall.tries + 1 = AcceptRetryTimes THEN NoCall
                       ELSE [serverCall EXCEPT !.tries = serverCall.tries + 1],
         UNCHANGED <<pipelineMap, handleOf, deleted, channels, mopObjectCnt,
                     mopTask, clientCall, held, undisposed>>
  PROVE  MopInv'
<1> DEFINE t == serverCall.tries + 1
<1>1. MopTypes /\ UniquePlaces /\ HeldKept /\ ClientKept /\ ServerKept
      /\ TaskRuns /\ Accounted
  BY DEF MopInv
<1>2. /\ serverCall.id \in ServerIds /\ serverCall.pipeline \in DOMAIN handleOf
      /\ serverCall.bound \in DOMAIN channels
      /\ serverCall.tries \in 0 .. AcceptRetryTimes - 1
  BY ServerCallAlone
<1>3. t # AcceptRetryTimes => t \in 0 .. AcceptRetryTimes - 1
  BY <1>2, MopAssumption
<1>4. serverCall' = IF t = AcceptRetryTimes THEN NoCall
        ELSE [id |-> serverCall.id, pipeline |-> serverCall.pipeline,
              tries |-> t, bound |-> serverCall.bound]
  <2>1. serverCall \in [id : ServerIds, pipeline : DOMAIN handleOf,
                        tries : 0 .. AcceptRetryTimes - 1,
                        bound : DOMAIN channels]
    BY <1>1 DEF MopTypes
  <2> QED
    BY <2>1
<1>5. UNCHANGED <<pipelineMap, handleOf, deleted, channels, mopObjectCnt,
                  mopTask, clientCall, held, undisposed>>
  OBVIOUS
<1>6. serverCall # NoCall
  OBVIOUS
<1> HIDE DEF t
<1>7. MopTypes'
  <2>1. serverCall' = NoCall \/ serverCall' \in
          [id : ServerIds, pipeline : DOMAIN handleOf',
           tries : 0 .. AcceptRetryTimes - 1, bound : DOMAIN channels']
    BY <1>2, <1>3, <1>4, <1>5
  <2>2. Numbered(handleOf') /\ Numbered(channels')
    BY <1>1, <1>5 DEF MopTypes, Numbered
  <2> QED
    BY <1>1, <1>5, <2>1, <2>2 DEF MopTypes
<1>8. UniquePlaces' /\ HeldKept' /\ ClientKept'
  BY <1>1, <1>5 DEF UniquePlaces, HeldKept, ClientKept
<1>9. ServerKept'
  <2> SUFFICES ASSUME t # AcceptRetryTimes PROVE ServerKept'
    BY <1>4 DEF ServerKept
  <2>1. /\ serverCall'.id = serverCall.id
        /\ serverCall'.pipeline = serverCall.pipeline
    BY <1>4
  <2> QED
    BY <1>1, <1>5, <1>6, <2>1 DEF ServerKept
<1>10. TaskRuns'
  BY <1>1, <1>5, <1>6 DEF TaskRuns
<1>11. Accounted'
  BY <1>1, <1>5 DEF Accounted, HeldIn, AliveIn
<1> QED
  BY <1>7, <1>8, <1>9, <1>10, <1>11 DEF MopInv

LEMMA AcceptChannelKeepsMopInv ==
  ASSUME MopInv, AcceptChannel PROVE MopInv'
<1>1. /\ serverCall # NoCall
      /\ UNCHANGED <<deleted, mopObjectCnt, mopTask, clientCall, undisposed>>
  BY DEF AcceptChannel
<1>2. \/ /\ NewChannel \in Handles
         /\ channels' = WithChannel(NewChannel, "open")
         /\ handleOf' = WithHandle(serverCall.pipeline, NewChannel)
         /\ pipelineMap' = [pipelineMap EXCEPT
                              ![serverCall.id] = serverCall.pipeline]
         /\ held' = [held EXCEPT ![serverCall.id] = serverCall.pipeline]
         /\ serverCall' = NoCall
      \/ /\ serverCall' = IF serverCall.tries + 1 = AcceptRetryTimes
                          THEN NoCall
                          ELSE [serverCall EXCEPT !.tries = serverCall.tries + 1]
         /\ UNCHANGED <<channels, handleOf, pipelineMap, held>>
  BY Zenon DEF AcceptChannel
<1> QED
  BY <1>1, <1>2, AcceptSucceeds, AcceptTryFails

LEMMA MopInvHolds == MopSpec => []MopInv
<1>1. MopInv /\ [MopNext]_mopVars => MopInv'
  <2> SUFFICES ASSUME MopInv, [MopNext]_mopVars PROVE MopInv'
    OBVIOUS
  <2>1. CASE NewManagers
    BY <2>1, NewManagersKeepsMopInv
  <2>2. ASSUME NEW id \in ClientIds, Connect(id) PROVE MopInv'
    BY <2>2, ConnectKeepsMopInv
  <2>3. ASSUME NEW id \in ClientIds, Disconnect(id) PROVE MopInv'
    BY <2>3, DisconnectKeepsMopInv
  <2>4. CASE ConnectChannel
    BY <2>4, ConnectChannelKeepsMopInv
  <2>5. ASSUME NEW id \in ServerIds, Accept(id) PROVE MopInv'
    BY <2>5, AcceptKeepsMopInv
  <2>6. ASSUME NEW id \in ServerIds, Close(id) PROVE MopInv'
    BY <2>6, CloseKeepsMopInv
  <2>7. CASE AcceptChannel
    BY <2>7, AcceptChannelKeepsMopInv
  <2>8. CASE UNCHANGED mopVars
    BY <2>8 DEF mopVars, MopInv, MopTypes, Numbered, UniquePlaces, HeldKept,
                ClientKept, ServerKept, TaskRuns, Accounted, AliveIn, HeldIn
  <2> QED
    BY <2>1, <2>2, <2>3, <2>4, <2>5, <2>6, <2>7, <2>8 DEF MopNext
<1> QED
  BY <1>1, MopStart, PTL DEF MopSpec

\* A pipeline that was connected or accepted stays the one in the table, not
\* deleted, with an open channel no other pipeline has, and with one
\* background task, until it is given back, for all ids, however often calls
\* failed before and whatever the other thread is doing.
THEOREM PipelineUsableTheorem == MopSpec => []PipelineUsable
<1>1. MopInv => PipelineUsable
  <2> SUFFICES ASSUME MopInv, NEW id \in PipelineIds, held[id] # 0
               PROVE  /\ pipelineMap[id] = held[id] /\ held[id] \notin deleted
                      /\ handleOf[held[id]] # 0
                      /\ channels[handleOf[held[id]]] = "open"
                      /\ \A other \in PipelineIds \ {id} :
                           held[other] # 0 =>
                             handleOf[held[other]] # handleOf[held[id]]
                      /\ mopTask = 1
    BY DEF PipelineUsable
  <2>1. mopTask = mopObjectCnt
    BY DEF MopInv, TaskRuns
  <2> QED
    BY <2>1, HeldAlone
<1> QED
  BY <1>1, MopInvHolds, PTL

\* The channels that were created and never destroyed are those in use and one
\* for each disconnect and each binding, for any number of retries and of
\* channels.
THEOREM ChannelsAccountedTheorem == MopSpec => []ChannelsAccounted
<1>1. MopInv => ChannelsAccounted
  BY DEF MopInv, Accounted, AliveIn, HeldIn, ChannelsAccounted
<1> QED
  BY <1>1, MopInvHolds, PTL
\* Every variable of the pipelines has its type.  Channels that leaked are
\* no more than all channels, by the account above.
LEMMA MopTypesHold == MopSpec => []MopTypeOK
<1>1. MopInv => MopTypeOK
  <2> SUFFICES ASSUME MopInv PROVE MopTypeOK
    OBVIOUS
  <2>1. undisposed \in 0 .. MaxChannels
    <3>1. /\ IsFiniteSet(DOMAIN channels)
          /\ Cardinality(DOMAIN channels) <= MaxChannels
          /\ undisposed \in Nat
      BY DEF MopInv, MopTypes, Numbered
    <3>2. /\ IsFiniteSet(HeldIn(held))
          /\ Cardinality(AliveIn(channels)) = Cardinality(HeldIn(held))
               + (IF clientCall = NoCall THEN 0 ELSE 1) + undisposed
      BY DEF MopInv, Accounted
    <3>3. AliveIn(channels) \subseteq DOMAIN channels
      BY DEF AliveIn
    <3>4. /\ Cardinality(DOMAIN channels) \in Nat
          /\ Cardinality(HeldIn(held)) \in Nat
          /\ Cardinality(AliveIn(channels)) \in Nat
          /\ Cardinality(AliveIn(channels)) <= Cardinality(DOMAIN channels)
      BY <3>1, <3>2, <3>3, FS_Subset, FS_CardinalityType
    <3>5. MaxChannels \in Nat
      BY MopAssumption DEF MopAssumption
    <3> QED BY <3>1, <3>2, <3>4, <3>5
  <2>2. mopObjectCnt \in {0, 1} /\ mopTask \in Nat
    BY DEF MopInv, TaskRuns
  <2> QED BY <2>1, <2>2 DEF MopInv, MopTypes, Numbered, MopTypeOK
<1> QED
  BY <1>1, MopInvHolds, PTL
=============================================================================
