------------------------- MODULE SubscriptionProofs -------------------------
(***************************************************************************)
(* Proofs about Subscription, for every number of packages, topics,        *)
(* buffers, calls and frames in flight.                                    *)
(***************************************************************************)
EXTENDS Subscription, SequenceTheorems, TLAPS

-----------------------------------------------------------------------------
(* Facts about the records.                                                *)

LEMMA ClearedIsLayout == Cleared \in Layout
  BY DEF Cleared, Layout

LEMMA PackageZero == 0 \in Packages
  BY SubscriptionAssumption DEF Packages

LEMMA NoCallType ==
  ASSUME NEW at \in {"detect", "idle", "init", "fill", "sweep", "alloc",
                     "wait", "acked", "clean"}
  PROVE  NoCallAt(at) \in AppState
  BY SubscriptionAssumption, ClearedIsLayout, PackageZero
     DEF NoCallAt, AppState

LEMMA ReturnType == Return \in AppState
  <1>1. CASE loop.passes > 0
    BY <1>1, NoCallType DEF Return
  <1>2. CASE ~(loop.passes > 0)
    BY <1>2, NoCallType DEF Return
  <1> QED
    BY <1>1, <1>2

LEMMA LinkIdleType == LinkIdle \in LinkState
  BY ClearedIsLayout, PackageZero DEF LinkIdle, LinkState

LEMMA NoLoopType == NoLoop \in LoopState
  BY SubscriptionAssumption DEF NoLoop, LoopState

LEMMA BufferSizeType ==
  ASSUME TypeOK, NEW p \in Packages
  PROVE  BufferSize(p) \in Nat
  BY SubscriptionAssumption DEF BufferSize, TypeOK

LEMMA TransmitType ==
  ASSUME TypeOK, NEW op \in {"add", "remove", "reset"}, NEW p \in Packages,
         NEW wants \in Layout, NEW sync \in BOOLEAN,
         Transmit(op, p, wants, sync)
  PROVE  /\ app' \in AppState /\ call' \in Nat /\ up' \in Seq(Request)
         /\ pending' \subseteq PendingCall
         /\ UNCHANGED <<link, down, fc>>
  <1> DEFINE req == [op |-> op, pkg |-> p, call |-> call + 1, wants |-> wants]
  <1>1. req \in Request /\ call + 1 \in Nat
    BY DEF Request, TypeOK
  <1>2. up' \in Seq(Request) /\ call' \in Nat
    BY <1>1 DEF Transmit, TypeOK
  <1>3. app' \in AppState
    <2>1. CASE sync
      <3>1. app' = [at |-> "wait", op |-> op, pkg |-> p, sync |-> TRUE,
                    tries |-> 1, wants |-> wants]
        BY <2>1 DEF Transmit
      <3>2. 1 \in 0 .. Sends
        BY SubscriptionAssumption
      <3> QED
        BY <3>1, <3>2 DEF AppState
    <2>2. CASE ~sync
      BY <2>2, ReturnType DEF Transmit
    <2> QED
      BY <2>1, <2>2
  <1>4. pending' \subseteq PendingCall
    BY <1>1 DEF Transmit, TypeOK, PendingCall
  <1> QED
    BY <1>2, <1>3, <1>4 DEF Transmit

\* The part of the type invariant that the handlers below disturb.
LocalTypes ==
  /\ occupied \in [Packages -> BOOLEAN]
  /\ leftOver \in [Packages -> BOOLEAN]
  /\ layout \in [Packages -> Layout \cup {Uninit}]
  /\ config \in [Packages -> BOOLEAN]
  /\ buffer \in [Packages -> Buffers \cup {None}]
  /\ live \subseteq Buffers
  /\ room \in [Buffers -> Nat]
  /\ topicDB \in [Topics -> Buffers \cup {None, Wild}]
  /\ wildWrite \in BOOLEAN
  /\ visited \in [Actors -> SUBSET (Topics \cup {Wild})]

LEMMA EndLoopType ==
  ASSUME TypeOK, NEW thread \in Actors, EndLoop(thread)
  PROVE  /\ topicDB' = topicDB /\ wildWrite' = wildWrite
         /\ visited' \in [Actors -> SUBSET (Topics \cup {Wild})]
  BY DEF EndLoop, TypeOK, table

LEMMA AddHandlerType ==
  ASSUME TypeOK, NEW thread \in Actors, NEW p \in Packages,
         SetOccupied(thread, p)
  PROVE  LocalTypes'
  BY EndLoopType DEF SetOccupied, TypeOK, LocalTypes, memory

LEMMA RemoveHandlerType ==
  ASSUME TypeOK, NEW thread \in Actors, NEW p \in Packages,
         CleanUpPackage(thread, p)
  PROVE  LocalTypes'
  BY EndLoopType, ClearedIsLayout DEF CleanUpPackage, TypeOK, LocalTypes

\* One pass of either handler's loop over the topics.
LEMMA HandlerLoopType ==
  ASSUME TypeOK, NEW thread \in Actors, NEW p \in Packages,
         HandlerLoop(thread, p)
  PROVE  TypeOK'
  <1>1. DataPointer(p) \in Buffers \cup {None, Wild}
    BY DEF DataPointer, TypeOK
  <1>2. PICK pointer \in Buffers \cup {None, Wild} :
          ForNextTopic(thread, p, pointer)
    BY <1>1 DEF HandlerLoop, ClaimTopic, ReleaseTopic
  <1>3. PICK t \in Listed(p) \ visited[thread] :
          /\ topicDB' = [x \in Topics |-> IF x = t THEN pointer ELSE topicDB[x]]
          /\ wildWrite' = (wildWrite \/ t = Wild)
          /\ visited' = [visited EXCEPT ![thread] = @ \cup {t}]
    BY <1>2 DEF ForNextTopic
  <1>4. t \in Topics \cup {Wild}
    BY <1>3 DEF Listed, TypeOK, Layout
  <1>5. topicDB' \in [Topics -> Buffers \cup {None, Wild}]
    BY <1>3 DEF TypeOK
  <1>6. wildWrite' \in BOOLEAN
    BY <1>3
  <1>7. visited' \in [Actors -> SUBSET (Topics \cup {Wild})]
    <2>1. visited[thread] \cup {t} \in SUBSET (Topics \cup {Wild})
      BY <1>4 DEF TypeOK
    <2> QED
      BY <1>3, <2>1 DEF TypeOK
  <1>8. UNCHANGED <<package, memory, threads, call, pending, wire>>
    BY <1>2 DEF ForNextTopic
  <1> QED
    BY <1>5, <1>6, <1>7, <1>8
       DEF TypeOK, package, memory, threads, wire

LEMMA ClearBufferType ==
  ASSUME TypeOK, NEW p \in Packages, ClearDataBuffer(p)
  PROVE  LocalTypes'
  BY DEF ClearDataBuffer, TypeOK, LocalTypes, memory, topics, table

LEMMA HeadOfDown ==
  ASSUME TypeOK, Receive
  PROVE  /\ Head(down) \in Frame /\ Head(down) = down[1]
         /\ down' \in Seq(Frame) /\ down' = Tail(down)
         /\ up' = up /\ fc' = fc
  BY DEF TypeOK, Receive

-----------------------------------------------------------------------------
(* Every variable keeps its type, whatever the application does.           *)

LEMMA InitTypeOK == Init => TypeOK
  <1> SUFFICES ASSUME Init PROVE TypeOK
    OBVIOUS
  <1>1. app \in AppState /\ loop \in LoopState /\ link \in LinkState
    BY NoCallType, NoLoopType, LinkIdleType DEF Init
  <1>2. /\ wildWrite \in BOOLEAN /\ pending \subseteq PendingCall
        /\ visited \in [Actors -> SUBSET (Topics \cup {Wild})]
    BY DEF Init
  <1> QED
    BY <1>1, <1>2 DEF Init, TypeOK

LEMMA StartupType ==
  ASSUME TypeOK, NEW all \in BOOLEAN, BeginSweep(all)
  PROVE  TypeOK'
  <1>1. loop' \in LoopState
    BY SubscriptionAssumption DEF BeginSweep, LoopState
  <1>2. app' \in AppState
    BY NoCallType DEF BeginSweep
  <1> QED
    BY <1>1, <1>2
       DEF BeginSweep, TypeOK, package, memory, topics, table, wire

LEMMA CallTypes ==
  ASSUME TypeOK, AnyCall
  PROVE  TypeOK'
  <1>1. ASSUME NEW p \in Packages, NEW lay \in Selections,
               InitPackage(p, lay)
        PROVE  TypeOK'
    <2>1. lay \in Layout /\ lay.stamp \in BOOLEAN /\ 0 \in 0 .. Sends
      BY SubscriptionAssumption DEF Layout
    <2>2. app' \in AppState
      BY <1>1, <2>1 DEF InitPackage, AppState
    <2> QED
      BY <1>1, <2>1, <2>2
         DEF InitPackage, TypeOK, memory, topics, table, wire
  <1>2. ASSUME NEW p \in Packages, NEW sync \in BOOLEAN, StartPackage(p, sync)
        PROVE  TypeOK'
    <2>1. PICK info \in Serialized(p) :
            app' = [at |-> "alloc", op |-> "add", pkg |-> p, sync |-> sync,
                    tries |-> 0, wants |-> info]
      BY <1>2 DEF StartPackage
    <2>2. info \in Layout
      <3>1. CASE layout[p] = Uninit
        BY <3>1 DEF Serialized
      <3>2. CASE layout[p] # Uninit
        <4>1. layout[p] \in Layout /\ config[p] \in BOOLEAN
          BY <3>2 DEF TypeOK
        <4> QED
          BY <3>2, <4>1 DEF Serialized, Layout
      <3> QED
        BY <3>1, <3>2
    <2>3. 0 \in 0 .. Sends
      BY SubscriptionAssumption
    <2>4. app' \in AppState
      BY <2>1, <2>2, <2>3 DEF AppState
    <2> QED
      BY <1>2, <2>4 DEF StartPackage, TypeOK, package, topics, table, wire
  <1>3. ASSUME NEW p \in Packages, NEW sync \in BOOLEAN,
               RemovePackage(p, sync)
        PROVE  TypeOK'
    <2>1. Transmit("remove", p, Cleared, sync)
      BY <1>3 DEF RemovePackage
    <2> QED
      BY <1>3, <2>1, TransmitType, ClearedIsLayout
         DEF RemovePackage, TypeOK, package, memory, topics, table
  <1>4. ASSUME NEW sync \in BOOLEAN, Reset(sync)
        PROVE  TypeOK'
    <2>1. Transmit("reset", 0, Cleared, sync)
      BY <1>4 DEF Reset
    <2> QED
      BY <1>4, <2>1, TransmitType, ClearedIsLayout, PackageZero
         DEF Reset, TypeOK, package, memory, topics, table
  <1> QED
    BY <1>1, <1>2, <1>3, <1>4, StartupType DEF AnyCall, OtherCall

LEMMA AppStepTypes ==
  ASSUME TypeOK, AppStep
  PROVE  TypeOK'
  <1>p. /\ app.pkg \in Packages
        /\ app.wants \in Layout /\ app.sync \in BOOLEAN
    BY DEF TypeOK, AppState
  <1>l. loop.next \in 0 .. NumPackages /\ loop.passes \in 0 .. Passes
    BY DEF TypeOK, LoopState
  <1>1. CASE AllocateDataBuffer
    <2>1. PICK b \in Buffers \ live :
            /\ buffer' = [buffer EXCEPT ![app.pkg] = b]
            /\ live' = live \cup {b}
            /\ room' = [room EXCEPT ![b] = BufferSize(app.pkg)]
      BY <1>1 DEF AllocateDataBuffer
    <2>2. room' \in [Buffers -> Nat]
      BY <2>1, <1>p, BufferSizeType DEF TypeOK
    <2>3. Transmit("add", app.pkg, app.wants, app.sync)
      BY <1>1 DEF AllocateDataBuffer
    <2> QED
      BY <1>1, <1>p, <2>1, <2>2, <2>3, TransmitType
         DEF AllocateDataBuffer, TypeOK, topics, table
  <1>2. CASE SweepRemove
    <2>1. loop.next \in Packages
      BY <1>2, <1>l, SubscriptionAssumption DEF SweepRemove, Packages
    <2>n. loop.next + 1 \in 0 .. NumPackages
      BY <1>2, <1>l, SubscriptionAssumption DEF SweepRemove
    <2>l. loop' \in LoopState
      BY <1>2, <2>n DEF SweepRemove, TypeOK, LoopState
    <2>2. Transmit("remove", loop.next, Cleared, TRUE)
      BY <1>2 DEF SweepRemove
    <2> QED
      BY <1>2, <2>1, <2>l, <2>2, TransmitType, ClearedIsLayout
         DEF SweepRemove, TypeOK, package, memory, topics, table
  <1>3. CASE SweepSkip
    <2>n. /\ loop.next < NumPackages => loop.next + 1 \in 0 .. NumPackages
          /\ loop.passes > 1 => loop.passes - 1 \in 0 .. Passes
          /\ 0 \in 0 .. NumPackages
      BY <1>l, SubscriptionAssumption
    <2>1. loop' \in LoopState
      <3>1. CASE /\ loop.next < NumPackages
                 /\ loop' = [loop EXCEPT !.next = @ + 1]
        BY <3>1, <2>n DEF TypeOK, LoopState
      <3>2. CASE /\ loop.passes > 1
                 /\ loop' = [loop EXCEPT !.passes = @ - 1, !.next = 0]
        BY <3>2, <2>n DEF TypeOK, LoopState
      <3> QED
        BY <1>3, <3>1, <3>2, NoLoopType DEF SweepSkip
    <2>2. app' \in AppState
      BY <1>3, NoCallType DEF SweepSkip, TypeOK
    <2> QED
      BY <1>3, <2>1, <2>2
         DEF SweepSkip, TypeOK, package, memory, topics, table, wire
  <1>4. CASE Resend
    <2> DEFINE req == [op |-> app.op, pkg |-> app.pkg, call |-> call,
                       wants |-> app.wants]
    <2>1. req \in Request
      BY <1>p DEF Request, TypeOK, AppState
    <2>2. up' \in Seq(Request)
      BY <1>4, <2>1 DEF Resend, TypeOK
    <2>3. app.tries + 1 \in 0 .. Sends
      BY <1>4, SubscriptionAssumption DEF Resend, MayResend, TypeOK, AppState
    <2>4. app' \in AppState
      BY <1>4, <2>3 DEF Resend, TypeOK, AppState
    <2> QED
      BY <1>4, <2>2, <2>4 DEF Resend, TypeOK, package, memory, topics, table
  <1>5. CASE SyncTimeout
    BY <1>5, ReturnType
       DEF SyncTimeout, TypeOK, package, memory, topics, table, wire
  <1>6. CASE StartConfirmed
    <2>1. LocalTypes'
      BY <1>6, <1>p, AddHandlerType DEF StartConfirmed, Actors
    <2> QED
      BY <1>6, <2>1, ReturnType DEF StartConfirmed, TypeOK, LocalTypes, wire
  <1>7. CASE RemoveConfirmed
    <2>1. LocalTypes'
      BY <1>7, <1>p, RemoveHandlerType DEF RemoveConfirmed, Actors
    <2>2. app' \in AppState
      BY <1>7 DEF RemoveConfirmed, TypeOK, AppState
    <2> QED
      BY <1>7, <2>1, <2>2 DEF RemoveConfirmed, TypeOK, LocalTypes, wire
  <1>8. CASE RemoveDone
    <2>1. LocalTypes'
      BY <1>8, <1>p, ClearBufferType DEF RemoveDone
    <2> QED
      BY <1>8, <2>1, ReturnType DEF RemoveDone, TypeOK, LocalTypes, wire
  <1>9. CASE SetTopicList
    <2>1. app' \in AppState
      BY <1>9, NoCallType DEF SetTopicList, TypeOK, AppState
    <2> QED
      BY <1>9, <2>1
         DEF SetTopicList, TypeOK, package, memory, topics, table, wire
  <1>10. CASE FillPackage
    <2>1. Prepared \in Layout
      BY <1>p DEF Prepared, Layout, TypeOK
    <2>2. layout' \in [Packages -> Layout \cup {Uninit}]
      BY <1>10, <1>p, <2>1 DEF FillPackage, TypeOK
    <2>3. visited' \in [Actors -> SUBSET (Topics \cup {Wild})]
      BY <1>10 DEF FillPackage, TypeOK, Actors
    <2>4. app' \in AppState
      BY <1>10, NoCallType DEF FillPackage
    <2> QED
      BY <1>10, <1>p, <2>2, <2>3, <2>4
         DEF FillPackage, TypeOK, memory, table, wire
  <1>11. CASE HandlerLoop("app", app.pkg)
    BY <1>11, <1>p, HandlerLoopType DEF Actors
  <1> QED
    BY <1>1, <1>2, <1>3, <1>4, <1>5, <1>6, <1>7, <1>8, <1>9, <1>10, <1>11
       DEF AppStep

LEMMA LinkStepTypes ==
  ASSUME TypeOK, LinkStep
  PROVE  TypeOK'
  <1>1. CASE DecodeCallback
    <2>1. Receive
      BY <1>1 DEF DecodeCallback
    <2> DEFINE p == Head(down).pkg
    <2>2. p \in Packages /\ Head(down).data \in Layout
      BY <2>1, HeadOfDown DEF Frame
    <2>3. CASE buffer[p] # None
      <3>1. link' = [at |-> "copy", pkg |-> p, buf |-> buffer[p],
                     size |-> BufferSize(p), data |-> Head(down).data]
            /\ UNCHANGED leftOver
        BY <1>1, <2>3 DEF DecodeCallback
      <3>2. link' \in LinkState
        BY <2>2, <3>1, BufferSizeType DEF LinkState, TypeOK
      <3> QED
        BY <1>1, <2>1, <3>1, <3>2, HeadOfDown
           DEF DecodeCallback, TypeOK, memory, topics, table
    <2>4. CASE buffer[p] = None
      BY <1>1, <2>1, <2>2, <2>4, HeadOfDown
         DEF DecodeCallback, TypeOK, memory, topics, table
    <2> QED
      BY <2>3, <2>4
  <1>2. CASE CopyDone
    BY <1>2, LinkIdleType
       DEF CopyDone, TypeOK, package, memory, topics, table, wire
  <1>3. CASE SyncAck
    <2>1. app' \in AppState
      BY <1>3, ReturnType DEF SyncAck, TypeOK, AppState
    <2>2. Receive
      BY <1>3 DEF SyncAck
    <2> QED
      BY <1>3, <2>1, <2>2, HeadOfDown
         DEF SyncAck, TypeOK, package, memory, topics, table
  <1>4. CASE StaleAck
    <2>1. Receive
      BY <1>4 DEF StaleAck
    <2> QED
      BY <1>4, <2>1, HeadOfDown
         DEF StaleAck, TypeOK, package, memory, topics, table, threads
  <1>5. CASE CallbackDone
    <2>1. LocalTypes'
      BY <1>5, ClearBufferType DEF CallbackDone, TypeOK, LinkState
    <2> QED
      BY <1>5, <2>1, LinkIdleType DEF CallbackDone, TypeOK, LocalTypes, wire
  <1>6. ASSUME NEW r \in pending, AsyncAck(r)
        PROVE  TypeOK'
    <2>1. /\ r.pkg \in Packages /\ r.op \in {"add", "remove", "reset"}
          /\ Receive
      BY <1>6 DEF TypeOK, PendingCall, AsyncAck
    <2>2. link' \in LinkState
      BY <1>6, <2>1, LinkIdleType DEF AsyncAck, LinkState
    <2> QED
      BY <1>6, <2>1, <2>2, HeadOfDown
         DEF AsyncAck, TypeOK, package, memory, topics, table
  <1>7. ASSUME NEW r \in pending, AsyncTimeout(r)
        PROVE  TypeOK'
    BY <1>7 DEF AsyncTimeout, TypeOK, package, memory, topics, table, threads, wire
  <1>p. link.pkg \in Packages
    BY DEF TypeOK, LinkState
  <1>8. CASE AddCallback
    <2>1. LocalTypes'
      BY <1>8, <1>p, AddHandlerType DEF AddCallback, Actors
    <2> QED
      BY <1>8, <2>1, LinkIdleType DEF AddCallback, TypeOK, LocalTypes, wire
  <1>9. CASE RemoveCallback
    <2>1. LocalTypes'
      BY <1>9, <1>p, RemoveHandlerType DEF RemoveCallback, Actors
    <2>2. link' \in LinkState
      BY <1>9 DEF RemoveCallback, TypeOK, LinkState
    <2> QED
      BY <1>9, <2>1, <2>2 DEF RemoveCallback, TypeOK, LocalTypes, wire
  <1>10. CASE HandlerLoop("link", link.pkg)
    BY <1>10, <1>p, HandlerLoopType DEF Actors
  <1> QED
    BY <1>1, <1>2, <1>3, <1>4, <1>5, <1>6, <1>7, <1>8, <1>9, <1>10
       DEF LinkStep

LEMMA EnvironmentTypes ==
  ASSUME TypeOK, Environment
  PROVE  TypeOK'
  <1>1. CASE HandleRequest
    <2>1. Head(up) \in Request /\ up' \in Seq(Request)
      BY <1>1 DEF HandleRequest, TypeOK
    <2>2. \A ok \in BOOLEAN : Ack(Head(up), ok) \in Frame
      BY <2>1, ClearedIsLayout DEF Ack, Request, Frame
    <2>3. down' \in Seq(Frame)
      <3>1. PICK ok \in BOOLEAN : down' = Append(down, Ack(Head(up), ok))
        BY <1>1 DEF HandleRequest
      <3> QED
        BY <3>1, <2>2 DEF TypeOK
    <2>4. fc' \in [Packages -> Layout \cup {None}]
      BY <1>1, <2>1 DEF HandleRequest, TypeOK, Request
    <2> QED
      BY <1>1, <2>1, <2>3, <2>4
         DEF HandleRequest, TypeOK, package, memory, topics, table, threads
  <1>2. ASSUME NEW p \in Packages, SendTelemetry(p)
        PROVE  TypeOK'
    <2>1. Data(p, fc[p]) \in Frame
      BY <1>2 DEF Data, SendTelemetry, TypeOK, Frame
    <2> QED
      BY <1>2, <2>1
         DEF SendTelemetry, TypeOK, package, memory, topics, table, threads
  <1>3. CASE LoseRequest
    BY <1>3 DEF LoseRequest, TypeOK, package, memory, topics, table, threads
  <1>4. CASE LoseFrame
    BY <1>4 DEF LoseFrame, TypeOK, package, memory, topics, table, threads
  <1>5. CASE UncleanQuit
    <2>1. app' \in AppState /\ loop' \in LoopState /\ link' \in LinkState
      BY <1>5, NoCallType, NoLoopType, LinkIdleType DEF UncleanQuit
    <2>2. /\ wildWrite' \in BOOLEAN /\ pending' \subseteq PendingCall
          /\ visited' \in [Actors -> SUBSET (Topics \cup {Wild})]
      BY <1>5 DEF UncleanQuit
    <2> QED
      BY <1>5, <2>1, <2>2 DEF UncleanQuit, TypeOK
  <1> QED
    BY <1>1, <1>2, <1>3, <1>4, <1>5 DEF Environment

LEMMA NextType ==
  ASSUME TypeOK, [Next]_vars
  PROVE  TypeOK'
  <1>1. CASE Startup
    BY <1>1, StartupType DEF Startup
  <1>2. CASE UNCHANGED vars
    BY <1>2 DEF vars, TypeOK, package, memory, topics, table, threads, wire
  <1> QED
    BY <1>1, <1>2, CallTypes, AppStepTypes, LinkStepTypes, EnvironmentTypes
       DEF Next

\* Type correctness of Subscription under any application.
THEOREM TypeCorrect == Spec => []TypeOK
  <1>1. TypeOK /\ [Next]_vars => TypeOK'
    BY NextType
  <1> QED
    BY InitTypeOK, <1>1, PTL DEF Spec

-----------------------------------------------------------------------------
(* Under an application that waits for its asynchronous calls.             *)

\* While the application is in initPackageFromTopicList, between its check and
\* the last write, nothing can make the package occupied.
FillsFree ==
  app.at \in {"init", "fill"} =>
    ~occupied[app.pkg] /\ ~UnderWay(app.pkg)

LEMMA PatientIsAny == [PatientNext]_vars => [Next]_vars
  BY DEF PatientNext, Next, PatientCall, AnyCall

LEMMA PatientTypes == PatientSpec => []TypeOK
  <1>1. TypeOK /\ [PatientNext]_vars => TypeOK'
    BY NextType, PatientIsAny
  <1> QED
    BY InitTypeOK, <1>1, PTL DEF PatientSpec

\* Where the application thread goes when it starts or ends something.
LEMMA ReturnAt == Return.at \in {"sweep", "idle"}
  BY DEF Return, NoCallAt

LEMMA FillsFreeCalls ==
  ASSUME TypeOK, FillsFree, PatientCall \/ Startup
  PROVE  FillsFree'
  <1>1. ASSUME NEW p \in Packages, NEW lay \in Selections,
               ~UnderWay(p), InitPackage(p, lay)
        PROVE  FillsFree'
    BY <1>1 DEF InitPackage, IsOccupied, FillsFree, UnderWay
  <1>2. ASSUME OtherCall
        PROVE  app'.at \notin {"init", "fill"}
    <2>1. ASSUME NEW op, NEW p, NEW wants, NEW sync,
                 Transmit(op, p, wants, sync)
          PROVE  app'.at \in {"wait", "sweep", "idle"}
      BY <2>1, ReturnAt DEF Transmit
    <2>2. ASSUME NEW p, NEW sync, StartPackage(p, sync)
          PROVE  app'.at = "alloc"
      BY <2>2 DEF StartPackage
    <2> QED
      BY <1>2, <2>1, <2>2
         DEF OtherCall, RemovePackage, Reset, BeginSweep, NoCallAt
  <1>3. CASE Startup
    BY <1>3 DEF Startup, BeginSweep, NoCallAt, FillsFree
  <1> QED
    BY <1>1, <1>2, <1>3 DEF PatientCall, FillsFree

LEMMA FillsFreeAppStep ==
  ASSUME TypeOK, FillsFree, AppStep
  PROVE  FillsFree'
  <1>1. CASE SetTopicList
    BY <1>1 DEF SetTopicList, NoCallAt, FillsFree, UnderWay, TypeOK, AppState,
                package
  <1>2. CASE HandlerLoop("app", app.pkg)
    BY <1>2 DEF HandlerLoop, ClaimTopic, ReleaseTopic, InHandler,
                ForNextTopic, threads, FillsFree
  <1>3. CASE \/ FillPackage \/ AllocateDataBuffer \/ SweepRemove \/ SweepSkip
             \/ Resend \/ SyncTimeout \/ StartConfirmed \/ RemoveConfirmed
             \/ RemoveDone
    <2>1. app'.at \notin {"init", "fill"}
      BY <1>3, ReturnAt
         DEF FillPackage, AllocateDataBuffer, SweepRemove, SweepSkip, Resend,
             SyncTimeout, StartConfirmed, RemoveConfirmed, RemoveDone,
             Transmit, NoCallAt, TypeOK, AppState
    <2> QED
      BY <2>1 DEF FillsFree
  <1> QED
    BY <1>1, <1>2, <1>3 DEF AppStep

LEMMA FillsFreeLinkStep ==
  ASSUME TypeOK, FillsFree, LinkStep
  PROVE  FillsFree'
  <1>1. CASE SyncAck
    <2>1. app'.at \in {"acked", "sweep", "idle"}
      BY <1>1, ReturnAt DEF SyncAck, TypeOK, AppState
    <2> QED
      BY <2>1 DEF FillsFree
  <1>2. CASE \/ DecodeCallback \/ CopyDone \/ StaleAck
             \/ HandlerLoop("link", link.pkg)
             \/ \E r \in pending : AsyncTimeout(r)
    <2>1. UNCHANGED <<app, occupied>> /\ pending' \subseteq pending
      BY <1>2 DEF DecodeCallback, CopyDone, StaleAck, AsyncTimeout, package,
                  threads, HandlerLoop, ClaimTopic, ReleaseTopic, ForNextTopic
    <2>2. link' = link \/ link'.at \in {"idle", "copy"}
      BY <1>2 DEF DecodeCallback, CopyDone, StaleAck, AsyncTimeout, LinkIdle,
                  threads, HandlerLoop, ClaimTopic, ReleaseTopic, ForNextTopic
    <2> QED
      BY <2>1, <2>2 DEF FillsFree, UnderWay
  <1>3. CASE AddCallback \/ RemoveCallback \/ CallbackDone
    <2>1. link.at \in {"add", "remove", "clean"}
      BY <1>3 DEF AddCallback, RemoveCallback, CallbackDone, SetOccupied,
                  CleanUpPackage, InHandler
    <2>2. UNCHANGED <<app, pending>>
      BY <1>3 DEF AddCallback, RemoveCallback, CallbackDone
    <2>4. app.pkg # link.pkg => occupied'[app.pkg] = occupied[app.pkg]
      BY <1>3
         DEF AddCallback, RemoveCallback, CallbackDone, SetOccupied,
             CleanUpPackage, ClearDataBuffer, TypeOK, AppState
    <2>5. link'.pkg = link.pkg \/ link'.at = "idle"
      BY <1>3 DEF AddCallback, RemoveCallback, CallbackDone, LinkIdle,
                  TypeOK, LinkState
    <2>6. app.at \in {"init", "fill"} => app.pkg # link.pkg
      BY <2>1 DEF FillsFree, UnderWay
    <2> QED
      BY <2>2, <2>4, <2>5, <2>6 DEF FillsFree, UnderWay
  <1>4. ASSUME NEW r \in pending, AsyncAck(r)
        PROVE  FillsFree'
    <2>1. UNCHANGED <<app, occupied>> /\ pending' \subseteq pending
      BY <1>4 DEF AsyncAck, package
    <2>2. \/ link'.at = "idle"
          \/ r.op # "reset" /\ link'.pkg = r.pkg
      BY <1>4 DEF AsyncAck, LinkIdle
    <2> QED
      BY <2>1, <2>2 DEF FillsFree, UnderWay
  <1> QED
    BY <1>1, <1>2, <1>3, <1>4 DEF LinkStep

LEMMA FillsFreeKept ==
  ASSUME TypeOK, FillsFree, [PatientNext]_vars
  PROVE  FillsFree'
  <1>1. CASE UncleanQuit
    BY <1>1 DEF UncleanQuit, NoCallAt, FillsFree
  <1>2. CASE Environment /\ ~UncleanQuit
    BY <1>2 DEF Environment, HandleRequest, LoseRequest, LoseFrame,
                SendTelemetry, package, threads, FillsFree, UnderWay
  <1>3. CASE UNCHANGED vars
    BY <1>3 DEF vars, package, threads, FillsFree, UnderWay
  <1> QED
    BY <1>1, <1>2, <1>3, FillsFreeCalls, FillsFreeAppStep, FillsFreeLinkStep
       DEF PatientNext

\* The step of LayoutFrozenWhileOccupied.
KeepsLayouts ==
  \A p \in Packages :
    occupied[p] /\ occupied'[p] => layout'[p] \in {layout[p], Cleared}

\* Who writes the layouts.
LEMMA LayoutWriters ==
  ASSUME TypeOK, [PatientNext]_vars, layout' # layout
  PROVE  \/ FillPackage
         \/ \E thread \in Actors, p \in Packages : CleanUpPackage(thread, p)
         \/ UncleanQuit
  <1>1. CASE Startup \/ PatientCall \/ UNCHANGED vars
    BY <1>1 DEF Startup, PatientCall, OtherCall, InitPackage, StartPackage,
                RemovePackage, Reset, BeginSweep, package, vars
  <1>2. CASE AppStep
    <2>1. app.pkg \in Packages /\ "app" \in Actors
      BY DEF TypeOK, AppState, Actors
    <2> QED
      BY <1>2, <2>1
         DEF AppStep, AllocateDataBuffer, SetTopicList, SweepRemove, SweepSkip,
             Resend, SyncTimeout, HandlerLoop, ClaimTopic, ReleaseTopic,
             ForNextTopic, StartConfirmed, RemoveConfirmed, RemoveDone,
             SetOccupied, ClearDataBuffer, package
  <1>3. CASE LinkStep
    <2>1. link.pkg \in Packages /\ "link" \in Actors
      BY DEF TypeOK, LinkState, Actors
    <2> QED
      BY <1>3, <2>1
         DEF LinkStep, DecodeCallback, CopyDone, SyncAck, StaleAck, AsyncAck,
             AsyncTimeout, HandlerLoop, ClaimTopic, ReleaseTopic,
             ForNextTopic, AddCallback, RemoveCallback, CallbackDone,
             SetOccupied, ClearDataBuffer, package
  <1>4. CASE Environment
    BY <1>4 DEF Environment, HandleRequest, LoseRequest, LoseFrame,
                SendTelemetry, package
  <1> QED
    BY <1>1, <1>2, <1>3, <1>4 DEF PatientNext

\* Under an application that waits for its asynchronous calls before it
\* prepares the same package again, the topics and offsets of an occupied
\* package stay as they are until the success handler of its removal clears
\* them, although they are written in later steps than isOccupied is read.
THEOREM LayoutFrozenTheorem == PatientSpec => LayoutFrozenWhileOccupied
  <1>1. Init => FillsFree
    BY DEF Init, NoCallAt, FillsFree
  <1>2. ASSUME TypeOK, FillsFree, [PatientNext]_vars
        PROVE  KeepsLayouts
    <2>1. CASE FillPackage
      BY <1>2, <2>1 DEF FillPackage, FillsFree, KeepsLayouts, TypeOK
    <2>2. ASSUME NEW thread \in Actors, NEW p \in Packages,
                 CleanUpPackage(thread, p)
          PROVE  KeepsLayouts
      BY <1>2, <2>2 DEF CleanUpPackage, KeepsLayouts, TypeOK
    <2>3. CASE UncleanQuit
      BY <2>3 DEF UncleanQuit, KeepsLayouts
    <2>4. CASE layout' = layout
      BY <2>4 DEF KeepsLayouts
    <2> QED
      BY <1>2, <2>1, <2>2, <2>3, <2>4, LayoutWriters
  <1> QED
    BY <1>1, <1>2, FillsFreeKept, PatientTypes, PTL
       DEF PatientSpec, LayoutFrozenWhileOccupied, KeepsLayouts

=============================================================================
