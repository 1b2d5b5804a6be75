---------------------- MODULE SubscriptionSampleProofs ----------------------
(***************************************************************************)
(* The safety properties of an application written like the samples, for   *)
(* every number of packages, topics, buffers, calls and frames in flight.  *)
(***************************************************************************)
EXTENDS SubscriptionProofs

-----------------------------------------------------------------------------
(***************************************************************************)
(* The inductive invariant of SampleSpec.  The argument is one about       *)
(* first-in-first-out links: when the acknowledgement of a request is in   *)
(* flight or has arrived, no older request is left on the way up, and what *)
(* follows the acknowledgement on the way down was sent after the flight   *)
(* controller had acted on the request.                                    *)
(***************************************************************************)

\* The sample application makes blocking calls only.
OnlyBlocking ==
  /\ pending = {} /\ link.at \in {"idle", "copy"}
  /\ app.sync = TRUE

\* The package holding a freed buffer, in the middle of clearDataBuffer.
Clearing(p) == app.at = "clean" /\ app.pkg = p

\* A package with a buffer has a layout, and outside clearDataBuffer the
\* buffer is allocated with the size of that layout; no two share one.
BuffersFit ==
  /\ \A p \in Packages :
       buffer[p] # None =>
         /\ layout[p] # Uninit
         /\ ~Clearing(p) => /\ buffer[p] \in live
                            /\ room[buffer[p]] = DataSize[layout[p]]
  /\ \A p, q \in Packages : buffer[p] = buffer[q] /\ buffer[p] # None => p = q

\* Where the blocking calls stand.
CallShape ==
  /\ app.at = "acked" => app.op \in {"add", "remove"}
  /\ app.at = "clean" => app.op = "remove"
  /\ app.at \in {"init", "fill"} =>
       ~occupied[app.pkg] /\ buffer[app.pkg] = None
  /\ app.at \in {"alloc", "wait", "acked"} /\ app.op = "add" =>
       /\ ~occupied[app.pkg]
       /\ layout[app.pkg] # Uninit /\ app.wants = layout[app.pkg]
  /\ app.at \in {"wait", "acked"} /\ app.op = "add" => buffer[app.pkg] # None
  /\ app.at = "alloc" => app.op = "add" /\ buffer[app.pkg] = None
  /\ \A p \in Packages : occupied[p] => buffer[p] # None
  /\ inited # None =>
       /\ app.at = "idle" /\ buffer[inited] = None
       /\ layout[inited] # Uninit /\ config[inited] = layout[inited].stamp

\* The copy in progress is into the buffer of its package.
CopyInPlace ==
  link.at = "copy" =>
    /\ link.buf # None /\ link.buf = buffer[link.pkg]
    /\ link.size = DataSize[layout[link.pkg]]
    /\ ~Clearing(link.pkg)

\* Sequence numbers: requests in the order of their calls, and no
\* acknowledgement of a call later than a request still on its way.
InOrder ==
  /\ \A i \in 1 .. Len(up) : up[i].call <= call
  /\ \A i, j \in 1 .. Len(up) : i <= j => up[i].call <= up[j].call
  /\ \A i \in 1 .. Len(down) : down[i].kind = "ack" => down[i].call <= call
  /\ \A i \in 1 .. Len(down), j \in 1 .. Len(up) :
       down[i].kind = "ack" => down[i].call <= up[j].call

\* The copies of the request the application is blocked in.
OwnRequests ==
  app.at \in {"wait", "acked", "clean"} =>
    \A i \in 1 .. Len(up) :
      up[i].call = call => /\ up[i].op = app.op /\ up[i].pkg = app.pkg
                           /\ up[i].wants = app.wants

\* A confirmed call has no older request behind it.
NoOlderRequests ==
  app.at \in {"acked", "clean"} => \A i \in 1 .. Len(up) : up[i].call = call

\* The i-th frame on its way down is telemetry of package p.
IsData(i, p) == down[i].kind = "data" /\ down[i].pkg = p

\* The i-th frame confirms the request the application is blocked in.
Confirms(i) == down[i].kind = "ack" /\ down[i].call = call /\ down[i].ok

\* Nothing of package p is being sent, or in flight beyond place n.
Stopped(p, n) ==
  /\ fc[p] = None
  /\ \A i \in 1 .. Len(down) : i > n => ~IsData(i, p)

\* Nor is any of it being copied.
Quiet(p) == Stopped(p, 0) /\ ~(link.at = "copy" /\ link.pkg = p)

RemovedIsQuiet ==
  /\ app.at = "wait" /\ app.op = "remove" =>
       \A i \in 1 .. Len(down) : Confirms(i) => Stopped(app.pkg, i)
  /\ app.at \in {"acked", "clean"} /\ app.op = "remove" => Quiet(app.pkg)

\* Everything there is of package p beyond place n is in layout lay.
Agrees(p, lay, n) ==
  /\ fc[p] \in {None, lay}
  /\ \A i \in 1 .. Len(down) : i > n /\ IsData(i, p) => down[i].data = lay
  /\ \A i \in 1 .. Len(up) :
       up[i].op = "add" /\ up[i].pkg = p => up[i].wants = lay

\* The package that was added is sent, and in that layout only.
Sending(n) == fc[app.pkg] = app.wants /\ Agrees(app.pkg, app.wants, n)

StartedAgrees ==
  /\ app.at = "wait" /\ app.op = "add" =>
       \A i \in 1 .. Len(down) : Confirms(i) => Sending(i)
  /\ app.at = "acked" /\ app.op = "add" =>
       /\ Sending(0)
       /\ link.at = "copy" /\ link.pkg = app.pkg => link.data = app.wants
  /\ \A p \in Packages : occupied[p] =>
       IF Clearing(p) THEN Quiet(p) ELSE Agrees(p, layout[p], 0)
  /\ link.at = "copy" /\ occupied[link.pkg] => link.data = layout[link.pkg]

\* The pointers of the topic table, and how far the loop over the topics of a
\* confirmed removal has come.
PointersOwned ==
  /\ \A t \in Topics :
       topicDB[t] # None =>
         \E p \in Packages :
           /\ topicDB[t] = buffer[p] /\ t \in layout[p].topics
           /\ occupied[p] \/ InHandler("app", "add", p)
           /\ ~Clearing(p)
  /\ app.at = "acked" /\ app.op = "remove" =>
       \A t \in Topics \cap visited["app"] : topicDB[t] = None
  /\ app.at # "acked" => visited["app"] = {}

SampleInv ==
  /\ TypeOK
  /\ OnlyBlocking /\ BuffersFit /\ CallShape /\ CopyInPlace
  /\ InOrder /\ OwnRequests /\ NoOlderRequests
  /\ RemovedIsQuiet /\ StartedAgrees /\ PointersOwned

-----------------------------------------------------------------------------
(* Sequences as the links use them.                                        *)

LEMMA AppendFacts ==
  ASSUME NEW S, NEW s \in Seq(S), NEW e \in S
  PROVE  /\ Append(s, e) \in Seq(S) /\ Len(Append(s, e)) = Len(s) + 1
         /\ \A i \in 1 .. Len(s) : Append(s, e)[i] = s[i]
         /\ Append(s, e)[Len(s) + 1] = e
         /\ \A i \in 1 .. Len(Append(s, e)) : i \in 1 .. Len(s) \/ i = Len(s) + 1
  OBVIOUS

LEMMA TailFacts ==
  ASSUME NEW S, NEW s \in Seq(S), Len(s) > 0
  PROVE  /\ Tail(s) \in Seq(S) /\ Len(Tail(s)) = Len(s) - 1
         /\ \A i \in 1 .. Len(Tail(s)) : i + 1 \in 1 .. Len(s) /\ Tail(s)[i] = s[i + 1]
         /\ Head(s) = s[1] /\ 1 \in 1 .. Len(s)
         /\ Len(s) \in Nat
  OBVIOUS

-----------------------------------------------------------------------------
(* What the records of a reachable state hold.                             *)

LEMMA AppFacts ==
  ASSUME TypeOK
  PROVE  /\ app.pkg \in Packages /\ app.op \in {"add", "remove", "reset"}
         /\ app.wants \in Layout /\ loop.next \in 0 .. NumPackages
         /\ app.at \in {"detect", "idle", "init", "fill", "sweep", "alloc",
                        "wait", "acked", "clean"}
         /\ call \in Nat
  BY DEF TypeOK, AppState, LoopState

LEMMA UpFacts ==
  ASSUME TypeOK, NEW i \in 1 .. Len(up)
  PROVE  /\ up[i].call \in Nat /\ up[i].pkg \in Packages
         /\ up[i].op \in {"add", "remove", "reset"} /\ up[i].wants \in Layout
  <1>1. up[i] \in Request
    BY DEF TypeOK
  <1> QED
    BY <1>1 DEF Request

LEMMA DownFacts ==
  ASSUME TypeOK, NEW i \in 1 .. Len(down)
  PROVE  /\ down[i].call \in Nat /\ down[i].pkg \in Packages
         /\ down[i].op \in {"add", "remove", "reset"}
         /\ down[i].data \in Layout
         /\ down[i].kind \in {"data", "ack"}
  <1>1. down[i] \in Frame
    BY DEF TypeOK
  <1> QED
    BY <1>1 DEF Frame

LEMMA ReturnFacts ==
  Return.at \in {"sweep", "idle"} /\ Return.sync = TRUE
  BY DEF Return, NoCallAt

\* A layout is the record of its two fields.
LEMMA LayoutRecord ==
  ASSUME NEW lay \in Layout
  PROVE  lay = [topics |-> lay.topics, stamp |-> lay.stamp]
  BY DEF Layout

-----------------------------------------------------------------------------
(* The memory: what the actions do to the buffers.                         *)

MemoryInv == OnlyBlocking /\ BuffersFit /\ CallShape /\ CopyInPlace

LEMMA MemoryInit ==
  ASSUME Init
  PROVE  MemoryInv
  BY DEF Init, MemoryInv, OnlyBlocking, BuffersFit, CallShape, CopyInPlace,
         NoCallAt, LinkIdle, Clearing

LEMMA MemoryInitPackage ==
  ASSUME TypeOK, MemoryInv, NEW p \in Packages, NEW lay \in Selections,
         buffer[p] = None, InitPackage(p, lay)
  PROVE  MemoryInv'
  <1>1. /\ UNCHANGED <<occupied, layout, buffer, live, room, link, pending>>
        /\ app'.at = "init" /\ app'.pkg = p /\ app'.sync = TRUE
        /\ inited' = None /\ ~occupied[p] /\ app.at = "idle"
    BY DEF InitPackage, IsOccupied, memory, wire
  <1>2. BuffersFit'
    BY <1>1 DEF MemoryInv, BuffersFit, Clearing
  <1>3. CallShape'
    BY <1>1 DEF MemoryInv, CallShape
  <1>4. CopyInPlace'
    BY <1>1 DEF MemoryInv, CopyInPlace, Clearing
  <1> QED
    BY <1>1, <1>2, <1>3, <1>4 DEF MemoryInv, OnlyBlocking

\* Where SetTopicList leaves the application.
LEMMA SetTopicListFacts ==
  ASSUME TypeOK, SetTopicList
  PROVE  /\ app.at = "init" /\ app'.at \in {"idle", "fill"}
         /\ app'.at = "fill" => app'.pkg = app.pkg /\ app'.sync = app.sync
         /\ app'.at = "idle" => app'.sync = TRUE
         /\ UNCHANGED <<package, memory, topics, link, inited, call, pending,
                        wire>>
  BY DEF SetTopicList, NoCallAt, TypeOK, AppState

LEMMA MemorySetTopicList ==
  ASSUME TypeOK, MemoryInv, SetTopicList
  PROVE  MemoryInv'
  <1>1. inited' = None
    BY SetTopicListFacts DEF MemoryInv, CallShape
  <1> QED
    BY <1>1, SetTopicListFacts
       DEF MemoryInv, OnlyBlocking, BuffersFit, CallShape, CopyInPlace,
           Clearing, package, memory

LEMMA FillFacts ==
  ASSUME TypeOK, MemoryInv, FillPackage
  PROVE  /\ app.at = "fill" /\ app'.at = "idle" /\ app'.sync = TRUE
         /\ app.pkg \in Packages /\ inited' = app.pkg
         /\ ~occupied[app.pkg] /\ buffer[app.pkg] = None
         /\ layout'[app.pkg] \in Layout
         /\ layout'[app.pkg].stamp = config[app.pkg]
         /\ \A q \in Packages : q # app.pkg => layout'[q] = layout[q]
         /\ UNCHANGED <<occupied, leftOver, config, buffer, live, room,
                        topicDB, visited, link, call, pending, wire>>
  <1>1. app.pkg \in Packages /\ app.wants \in Layout
    BY AppFacts
  <1>2. Prepared \in Layout /\ Prepared.stamp = config[app.pkg]
    BY <1>1 DEF Prepared, Layout, TypeOK
  <1>3. layout' = [layout EXCEPT ![app.pkg] = Prepared]
    BY DEF FillPackage
  <1>4. UNCHANGED visited
    BY DEF FillPackage, InHandler, MemoryInv, OnlyBlocking
  <1>5. ~occupied[app.pkg] /\ buffer[app.pkg] = None
    BY DEF FillPackage, MemoryInv, CallShape
  <1>6. /\ layout'[app.pkg] = Prepared
        /\ \A q \in Packages : q # app.pkg => layout'[q] = layout[q]
    BY <1>1, <1>3 DEF TypeOK
  <1> QED
    BY <1>1, <1>2, <1>4, <1>5, <1>6
       DEF FillPackage, NoCallAt, memory, table, wire

LEMMA MemoryFillPackage ==
  ASSUME TypeOK, MemoryInv, FillPackage
  PROVE  MemoryInv'
  <1>1. BuffersFit'
    <2>1. ASSUME NEW q \in Packages, buffer'[q] # None
          PROVE  /\ layout'[q] # Uninit
                 /\ buffer'[q] \in live'
                 /\ room'[buffer'[q]] = DataSize[layout'[q]]
      <3>1. q # app.pkg /\ buffer'[q] = buffer[q] /\ layout'[q] = layout[q]
        BY <2>1, FillFacts
      <3>2. ~Clearing(q) /\ UNCHANGED <<live, room>>
        BY FillFacts DEF Clearing
      <3> QED
        BY <2>1, <3>1, <3>2 DEF MemoryInv, BuffersFit
    <2>2. UNCHANGED buffer
      BY FillFacts
    <2> QED
      BY <2>1, <2>2 DEF MemoryInv, BuffersFit
  <1>2. CallShape'
    <2>1. layout'[app.pkg] # Uninit
      BY FillFacts, SubscriptionAssumption
    <2> QED
      BY <2>1, FillFacts DEF MemoryInv, CallShape
  <1>3. CopyInPlace'
    BY FillFacts DEF MemoryInv, CopyInPlace, Clearing, TypeOK, LinkState
  <1> QED
    BY <1>1, <1>2, <1>3, FillFacts DEF MemoryInv, OnlyBlocking

\* One pass of a handler's loop over the topics.
LEMMA LoopKeeps ==
  ASSUME NEW thread \in Actors, NEW p, HandlerLoop(thread, p)
  PROVE  UNCHANGED <<package, memory, threads, call, pending, wire>>
  BY DEF HandlerLoop, ClaimTopic, ReleaseTopic, ForNextTopic

LEMMA MemoryStartPackage ==
  ASSUME TypeOK, MemoryInv, NEW p \in Packages, inited = p,
         StartPackage(p, TRUE)
  PROVE  MemoryInv'
  <1>1. buffer[p] = None /\ layout[p] # Uninit /\ config[p] = layout[p].stamp
    BY SubscriptionAssumption DEF MemoryInv, CallShape
  <1>2. live' = live
    BY <1>1, SubscriptionAssumption DEF StartPackage, TypeOK
  <1>3. layout[p] \in Layout
    BY <1>1 DEF TypeOK
  <1>4. /\ app'.at = "alloc" /\ app'.op = "add" /\ app'.pkg = p
        /\ app'.sync = TRUE /\ app'.wants = layout[p]
    BY <1>1, <1>3, LayoutRecord DEF StartPackage, Serialized
  <1>5. /\ UNCHANGED <<occupied, layout, config, buffer, room, link, pending>>
        /\ inited' = None /\ ~occupied[p] /\ app.at = "idle"
    BY DEF StartPackage, IsOccupied, package, wire
  <1>6. BuffersFit'
    BY <1>2, <1>4, <1>5 DEF MemoryInv, BuffersFit, Clearing
  <1>7. CallShape'
    BY <1>1, <1>4, <1>5 DEF MemoryInv, CallShape
  <1>8. CopyInPlace'
    BY <1>2, <1>4, <1>5 DEF MemoryInv, CopyInPlace, Clearing
  <1> QED
    BY <1>4, <1>5, <1>6, <1>7, <1>8 DEF MemoryInv, OnlyBlocking

LEMMA MemoryAllocate ==
  ASSUME TypeOK, MemoryInv, AllocateDataBuffer
  PROVE  MemoryInv'
  <1>1. PICK b \in Buffers \ live :
          /\ buffer' = [buffer EXCEPT ![app.pkg] = b]
          /\ live' = live \cup {b}
          /\ room' = [room EXCEPT ![b] = BufferSize(app.pkg)]
    BY DEF AllocateDataBuffer
  <1>2. /\ app.at = "alloc" /\ app.op = "add" /\ buffer[app.pkg] = None
        /\ ~occupied[app.pkg] /\ layout[app.pkg] # Uninit
        /\ app.wants = layout[app.pkg] /\ app.sync = TRUE /\ inited = None
    BY DEF MemoryInv, CallShape, OnlyBlocking, AllocateDataBuffer
  <1>3. /\ app' = [at |-> "wait", op |-> "add", pkg |-> app.pkg,
                   sync |-> TRUE, tries |-> 1, wants |-> app.wants]
        /\ UNCHANGED <<occupied, layout, config, link, pending, inited>>
    BY <1>2 DEF AllocateDataBuffer, Transmit
  <1>4. room'[b] = DataSize[layout[app.pkg]] /\ b # None
    BY <1>1, <1>2, SubscriptionAssumption DEF BufferSize, TypeOK
  <1>5. app.pkg \in Packages
    BY AppFacts
  <1>6. \A q \in Packages : q # app.pkg => buffer'[q] = buffer[q]
    BY <1>1 DEF TypeOK
  <1>7. \A q \in Packages : buffer[q] # None => buffer[q] \in live /\ buffer[q] # b
    BY <1>1, <1>2 DEF MemoryInv, BuffersFit, Clearing
  <1>8. buffer'[app.pkg] = b
    BY <1>1, <1>5 DEF TypeOK
  <1>9. BuffersFit'
    <2>1. ASSUME NEW q \in Packages, buffer'[q] # None
          PROVE  /\ layout'[q] # Uninit
                 /\ buffer'[q] \in live'
                 /\ room'[buffer'[q]] = DataSize[layout'[q]]
      <3>1. CASE q = app.pkg
        BY <1>1, <1>2, <1>3, <1>4, <1>8, <3>1
      <3>2. CASE q # app.pkg
        <4>1. buffer[q] # None /\ buffer'[q] = buffer[q]
          BY <1>6, <2>1, <3>2
        <4>2. /\ layout[q] # Uninit /\ buffer[q] \in live
              /\ room[buffer[q]] = DataSize[layout[q]]
          BY <1>2, <4>1 DEF MemoryInv, BuffersFit, Clearing
        <4>3. room'[buffer[q]] = room[buffer[q]]
          BY <1>1, <1>7, <4>1, <4>2 DEF TypeOK
        <4> QED
          BY <1>1, <1>3, <4>1, <4>2, <4>3
      <3> QED
        BY <3>1, <3>2
    <2>2. ASSUME NEW p \in Packages, NEW q \in Packages,
                 buffer'[p] = buffer'[q], buffer'[p] # None
          PROVE  p = q
      BY <1>6, <1>7, <1>8, <2>2 DEF MemoryInv, BuffersFit
    <2> QED
      BY <2>1, <2>2 DEF BuffersFit
  <1>10. CallShape'
    BY <1>2, <1>3, <1>4, <1>5, <1>6, <1>8 DEF MemoryInv, CallShape
  <1>11. CopyInPlace'
    BY <1>2, <1>3, <1>6, <1>8 DEF MemoryInv, CopyInPlace, Clearing, TypeOK, LinkState
  <1> QED
    BY <1>3, <1>9, <1>10, <1>11 DEF MemoryInv, OnlyBlocking

\* Steps of a call that leave the packages alone.
LEMMA MemoryCall ==
  ASSUME MemoryInv,
         UNCHANGED <<occupied, layout, config, buffer, live, room, link,
                     pending>>,
         app.at # "clean", app'.sync = TRUE,
         \/ app'.at \in {"detect", "idle", "sweep"}
         \/ app'.at = "wait" /\ app'.op # "add",
         inited' = None
  PROVE  MemoryInv'
  BY DEF MemoryInv, OnlyBlocking, BuffersFit, CallShape, CopyInPlace, Clearing

\* A blocking removal or reset.
LEMMA MemoryTransmit ==
  ASSUME MemoryInv, NEW op \in {"remove", "reset"}, NEW p \in Packages,
         Transmit(op, p, Cleared, TRUE), app.at # "clean",
         UNCHANGED <<package, memory>>, inited' = None
  PROVE  MemoryInv'
  <1>1. app'.at = "wait" /\ app'.op # "add" /\ app'.sync = TRUE
    BY DEF Transmit
  <1> QED
    BY <1>1, MemoryCall DEF Transmit, package, memory

LEMMA MemorySweep ==
  ASSUME TypeOK, MemoryInv,
         \/ SweepRemove \/ SweepSkip \/ \E all \in BOOLEAN : BeginSweep(all)
  PROVE  MemoryInv'
  <1>1. inited' = None /\ app.at # "clean"
    BY DEF SweepRemove, SweepSkip, BeginSweep, MemoryInv, CallShape, threads
  <1>2. CASE SweepRemove
    <2>1. loop.next \in Packages
      BY <1>2, AppFacts, SubscriptionAssumption DEF SweepRemove, Packages
    <2> QED
      BY <1>1, <1>2, <2>1, MemoryTransmit DEF SweepRemove
  <1>3. CASE SweepSkip
    <2>1. app' = app \/ app' = NoCallAt("idle")
      BY <1>3 DEF SweepSkip
    <2>2. app'.at \in {"sweep", "idle"} /\ app'.sync = TRUE
      BY <1>3, <2>1 DEF SweepSkip, NoCallAt, MemoryInv, OnlyBlocking
    <2>3. UNCHANGED <<package, memory, link, pending>>
      BY <1>3 DEF SweepSkip
    <2> QED
      BY <1>1, <2>2, <2>3, MemoryCall DEF package, memory
  <1>4. ASSUME NEW all \in BOOLEAN, BeginSweep(all)
        PROVE  MemoryInv'
    BY <1>1, <1>4, MemoryCall DEF BeginSweep, NoCallAt, package, memory
  <1> QED
    BY <1>2, <1>3, <1>4

LEMMA MemoryWait ==
  ASSUME MemoryInv, Resend \/ SyncTimeout
  PROVE  MemoryInv'
  <1>1. CASE Resend
    <2>1. app.at = "wait"
      BY <1>1 DEF Resend
    <2>2. /\ app'.at = app.at /\ app'.op = app.op /\ app'.pkg = app.pkg
          /\ app'.wants = app.wants /\ app'.sync = app.sync
      BY <1>1 DEF Resend
    <2>3. UNCHANGED <<package, memory, link, pending, inited>>
      BY <1>1 DEF Resend
    <2> QED
      BY <2>1, <2>2, <2>3
         DEF MemoryInv, OnlyBlocking, BuffersFit, CallShape, CopyInPlace,
             Clearing, package, memory
  <1>2. CASE SyncTimeout
    <2>1. inited' = None /\ app.at # "clean"
      BY <1>2 DEF SyncTimeout, MemoryInv, CallShape
    <2> QED
      BY <1>2, <2>1, MemoryCall, ReturnFacts DEF SyncTimeout, package, memory
  <1> QED
    BY <1>1, <1>2

\* The end of either handler, in the application thread.
LEMMA StartConfirmedFacts ==
  ASSUME TypeOK, StartConfirmed
  PROVE  /\ app.at = "acked" /\ app.op = "add" /\ app.pkg \in Packages
         /\ LoopOver("app", app.pkg)
         /\ occupied' = [occupied EXCEPT ![app.pkg] = TRUE]
         /\ visited' = [visited EXCEPT !["app"] = {}]
         /\ UNCHANGED <<layout, config, buffer, live, room, topicDB, link,
                        inited, call, pending, wire>>
         /\ app' = Return
  BY AppFacts DEF StartConfirmed, SetOccupied, InHandler, EndLoop, memory, table

LEMMA RemoveConfirmedFacts ==
  ASSUME TypeOK, RemoveConfirmed
  PROVE  /\ app.at = "acked" /\ app.op = "remove" /\ app.pkg \in Packages
         /\ LoopOver("app", app.pkg)
         /\ layout' = [layout EXCEPT ![app.pkg] = Cleared]
         /\ live' = live \ {buffer[app.pkg]}
         /\ visited' = [visited EXCEPT !["app"] = {}]
         /\ UNCHANGED <<occupied, buffer, room, topicDB, link, inited, call,
                        pending, wire>>
         /\ app' = [app EXCEPT !.at = "clean"]
  BY AppFacts DEF RemoveConfirmed, CleanUpPackage, InHandler, EndLoop, table

LEMMA MemoryStartConfirmed ==
  ASSUME TypeOK, MemoryInv, StartConfirmed
  PROVE  MemoryInv'
  <1>1. /\ app.at = "acked" /\ app.op = "add" /\ app.pkg \in Packages
        /\ buffer[app.pkg] # None /\ inited' = None
    BY StartConfirmedFacts DEF MemoryInv, CallShape
  <1>2. /\ occupied' = [occupied EXCEPT ![app.pkg] = TRUE]
        /\ UNCHANGED <<layout, config, buffer, live, room, link, pending>>
        /\ app' = Return
    BY StartConfirmedFacts
  <1>3. \A p \in Packages : occupied'[p] => buffer[p] # None
    BY <1>1, <1>2 DEF TypeOK, MemoryInv, CallShape
  <1> QED
    BY <1>1, <1>2, <1>3, ReturnFacts
       DEF MemoryInv, OnlyBlocking, BuffersFit, CallShape, CopyInPlace, Clearing

LEMMA MemoryRemoveConfirmed ==
  ASSUME TypeOK, MemoryInv, RemoveConfirmed,
         ~(link.at = "copy" /\ link.pkg = app.pkg)
  PROVE  MemoryInv'
  <1> DEFINE p == app.pkg
  <1>1. /\ app.at = "acked" /\ app.op = "remove" /\ p \in Packages
        /\ inited' = None
    BY RemoveConfirmedFacts DEF MemoryInv, CallShape
  <1>2. /\ layout' = [layout EXCEPT ![p] = Cleared]
        /\ live' = live \ {buffer[p]}
        /\ UNCHANGED <<occupied, buffer, room, link, pending>>
        /\ app' = [app EXCEPT !.at = "clean"]
    BY RemoveConfirmedFacts
  <1>3. /\ app'.at = "clean" /\ app'.op = app.op /\ app'.pkg = p
        /\ app'.sync = app.sync
    BY <1>2 DEF TypeOK, AppState
  <1>4. /\ layout'[p] = Cleared /\ Cleared # Uninit
        /\ \A q \in Packages : q # p => layout'[q] = layout[q]
    BY <1>1, <1>2, ClearedIsLayout, SubscriptionAssumption DEF TypeOK
  <1>5. BuffersFit'
    BY <1>1, <1>2, <1>3, <1>4 DEF MemoryInv, BuffersFit, Clearing
  <1>6. CallShape'
    BY <1>1, <1>2, <1>3, <1>4 DEF MemoryInv, CallShape
  <1>7. CopyInPlace'
    BY <1>1, <1>2, <1>3, <1>4
       DEF MemoryInv, CopyInPlace, Clearing, TypeOK, LinkState
  <1> QED
    BY <1>2, <1>3, <1>5, <1>6, <1>7 DEF MemoryInv, OnlyBlocking

LEMMA MemoryRemoveDone ==
  ASSUME TypeOK, MemoryInv, RemoveDone
  PROVE  MemoryInv'
  <1> DEFINE p == app.pkg
  <1>1. app.at = "clean" /\ p \in Packages /\ inited' = None
    BY AppFacts DEF RemoveDone, MemoryInv, CallShape
  <1>2. /\ buffer' = [buffer EXCEPT ![p] = None]
        /\ occupied' = [occupied EXCEPT ![p] = FALSE]
        /\ UNCHANGED <<layout, config, live, room, link, pending>>
        /\ app' = Return
    BY DEF RemoveDone, ClearDataBuffer, memory
  <1>3. /\ buffer'[p] = None /\ ~occupied'[p]
        /\ \A q \in Packages : q # p => /\ buffer'[q] = buffer[q]
                                        /\ occupied'[q] = occupied[q]
    BY <1>1, <1>2 DEF TypeOK
  <1>4. BuffersFit'
    BY <1>1, <1>2, <1>3, ReturnFacts DEF MemoryInv, BuffersFit, Clearing
  <1>5. CallShape'
    BY <1>1, <1>2, <1>3, ReturnFacts DEF MemoryInv, CallShape
  <1>6. CopyInPlace'
    BY <1>1, <1>2, <1>3, ReturnFacts
       DEF MemoryInv, CopyInPlace, Clearing, TypeOK, LinkState
  <1> QED
    BY <1>2, <1>4, <1>5, <1>6, ReturnFacts DEF MemoryInv, OnlyBlocking

\* Telemetry is copied to the buffer of its package, which is not being cleared.
LEMMA MemoryDecode ==
  ASSUME TypeOK, MemoryInv, DecodeCallback, ~Clearing(Head(down).pkg)
  PROVE  MemoryInv'
  <1> DEFINE p == Head(down).pkg
  <1>1. Receive
    BY DEF DecodeCallback
  <1>2. p \in Packages
    BY <1>1, HeadOfDown DEF Frame
  <1>3. UNCHANGED <<occupied, layout, config, buffer, live, room, app, inited,
                    pending>>
    BY DEF DecodeCallback, memory
  <1>4. CASE buffer[p] # None
    <2>1. /\ link'.at = "copy" /\ link'.pkg = p /\ link'.buf = buffer[p]
          /\ link'.size = BufferSize(p)
      BY <1>4 DEF DecodeCallback
    <2>2. BufferSize(p) = DataSize[layout[p]]
      BY <1>2, <1>4 DEF BufferSize, MemoryInv, BuffersFit
    <2> QED
      BY <1>3, <1>4, <2>1, <2>2
         DEF MemoryInv, OnlyBlocking, BuffersFit, CallShape, CopyInPlace,
             Clearing
  <1>5. CASE buffer[p] = None
    <2>1. link' = link
      BY <1>5 DEF DecodeCallback
    <2> QED
      BY <1>3, <2>1
         DEF MemoryInv, OnlyBlocking, BuffersFit, CallShape, CopyInPlace,
             Clearing
  <1> QED
    BY <1>4, <1>5

LEMMA MemorySyncAck ==
  ASSUME TypeOK, MemoryInv, SyncAck
  PROVE  MemoryInv'
  <1>1. /\ app.at = "wait" /\ inited' = None
        /\ UNCHANGED <<package, memory, link, pending>>
    BY DEF SyncAck, Answers, MemoryInv, CallShape
  <1>2. CASE app' = Return
    BY <1>1, <1>2, MemoryCall, ReturnFacts DEF package, memory
  <1>3. CASE app' # Return
    <2>1. app' = [app EXCEPT !.at = "acked"] /\ app.op # "reset"
      BY <1>3 DEF SyncAck
    <2>2. /\ app'.at = "acked" /\ app'.op = app.op /\ app'.pkg = app.pkg
          /\ app'.wants = app.wants /\ app'.sync = app.sync
      BY <2>1 DEF TypeOK, AppState
    <2> QED
      BY <1>1, <2>1, <2>2, AppFacts
         DEF MemoryInv, OnlyBlocking, BuffersFit, CallShape, CopyInPlace,
             Clearing, package, memory
  <1> QED
    BY <1>2, <1>3

LEMMA MemoryOther ==
  ASSUME MemoryInv,
         \/ CopyDone \/ StaleAck \/ HandleRequest \/ LoseRequest \/ LoseFrame
         \/ \E p \in Packages : SendTelemetry(p)
         \/ HandlerLoop("app", app.pkg)
         \/ UNCHANGED vars
  PROVE  MemoryInv'
  <1>1. /\ UNCHANGED <<package, memory, app, inited, pending>>
        /\ link' = link \/ link'.at = "idle"
    <2>1. CASE CopyDone
      BY <2>1 DEF CopyDone, LinkIdle
    <2>2. CASE \/ StaleAck \/ HandleRequest \/ LoseRequest \/ LoseFrame
               \/ \E p \in Packages : SendTelemetry(p)
      BY <2>2 DEF StaleAck, HandleRequest, LoseRequest, LoseFrame,
                  SendTelemetry, threads
    <2>3. CASE UNCHANGED vars
      BY <2>3 DEF vars, threads
    <2>4. CASE HandlerLoop("app", app.pkg)
      BY <2>4, LoopKeeps DEF Actors, threads
    <2> QED
      BY <2>1, <2>2, <2>3, <2>4
  <1> QED
    BY <1>1 DEF MemoryInv, OnlyBlocking, BuffersFit, CallShape, CopyInPlace,
                Clearing, package, memory

LEMMA MemoryQuit ==
  ASSUME UncleanQuit
  PROVE  MemoryInv'
  BY DEF UncleanQuit, MemoryInv, OnlyBlocking, BuffersFit, CallShape,
         CopyInPlace, NoCallAt, LinkIdle, Clearing

-----------------------------------------------------------------------------
(* The links: what the actions do to the frames in flight.                 *)

LinkInv == InOrder /\ OwnRequests /\ NoOlderRequests /\ RemovedIsQuiet

\* No blocking call is in a step that the wire matters to.
LEMMA LinkAtEase ==
  ASSUME LinkInv, UNCHANGED <<up, down, call>>,
         app'.at \notin {"wait", "acked", "clean"}
  PROVE  LinkInv'
  BY DEF LinkInv, InOrder, OwnRequests, NoOlderRequests, RemovedIsQuiet

\* The application's call goes on, or nothing concerns the links.
LEMMA LinkSameCall ==
  ASSUME LinkInv, UNCHANGED <<wire, call, link>>,
         \/ app' = app
         \/ /\ app'.op = app.op /\ app'.pkg = app.pkg /\ app'.wants = app.wants
            /\ app.at = "acked" /\ app'.at = "clean"
  PROVE  LinkInv'
  BY DEF LinkInv, InOrder, OwnRequests, NoOlderRequests, RemovedIsQuiet,
         Quiet, Stopped, Confirms, IsData, wire

LEMMA LinkTransmit ==
  ASSUME TypeOK, LinkInv, NEW op \in {"add", "remove", "reset"},
         NEW p \in Packages, NEW wants \in Layout,
         Transmit(op, p, wants, TRUE)
  PROVE  LinkInv'
  <1> DEFINE req == [op |-> op, pkg |-> p, call |-> call + 1, wants |-> wants]
  <1>1. /\ up' = Append(up, req) /\ call' = call + 1
        /\ app' = [at |-> "wait", op |-> op, pkg |-> p, sync |-> TRUE,
                   tries |-> 1, wants |-> wants]
        /\ UNCHANGED <<link, down, fc>>
    BY DEF Transmit
  <1>2. req \in Request /\ call \in Nat
    BY DEF Request, TypeOK
  <1> HIDE DEF req
  <1>3. /\ Len(up') = Len(up) + 1
        /\ \A i \in 1 .. Len(up) : up'[i] = up[i]
        /\ up'[Len(up) + 1] = req
        /\ \A i \in 1 .. Len(up') : i \in 1 .. Len(up) \/ i = Len(up) + 1
    BY <1>1, <1>2, AppendFacts DEF TypeOK
  <1>4. Len(up) \in Nat /\ Len(down) \in Nat
    BY DEF TypeOK
  <1>5. req.call = call + 1 /\ req.op = op /\ req.pkg = p /\ req.wants = wants
    BY DEF req
  <1>6. InOrder'
    <2>1. \A i \in 1 .. Len(up) : up[i].call <= call /\ up[i].call \in Nat
      BY UpFacts DEF LinkInv, InOrder
    <2>2. \A i \in 1 .. Len(down) :
            down[i].kind = "ack" => down[i].call <= call /\ down[i].call \in Nat
      BY DownFacts DEF LinkInv, InOrder
    <2>3. \A i \in 1 .. Len(up') : up'[i].call <= call'
      BY <1>1, <1>2, <1>3, <1>5, <2>1
    <2>4. \A i, j \in 1 .. Len(up') : i <= j => up'[i].call <= up'[j].call
      BY <1>2, <1>3, <1>4, <1>5, <2>1 DEF LinkInv, InOrder
    <2>5. \A i \in 1 .. Len(down') :
            down'[i].kind = "ack" => down'[i].call <= call'
      BY <1>1, <1>2, <2>2
    <2>6. \A i \in 1 .. Len(down'), j \in 1 .. Len(up') :
            down'[i].kind = "ack" => down'[i].call <= up'[j].call
      BY <1>1, <1>2, <1>3, <1>5, <2>2 DEF LinkInv, InOrder
    <2> QED
      BY <2>3, <2>4, <2>5, <2>6 DEF InOrder
  <1>7. OwnRequests'
    <2>1. \A i \in 1 .. Len(up) : up[i].call # call + 1
      BY <1>2, UpFacts DEF LinkInv, InOrder
    <2> QED
      BY <1>1, <1>3, <1>5, <2>1 DEF OwnRequests
  <1>8. NoOlderRequests' /\ RemovedIsQuiet'
    <2>1. \A i \in 1 .. Len(down) : ~Confirms(i)'
      BY <1>1, <1>2, DownFacts DEF LinkInv, InOrder, Confirms
    <2> QED
      BY <1>1, <2>1 DEF NoOlderRequests, RemovedIsQuiet
  <1> QED
    BY <1>6, <1>7, <1>8 DEF LinkInv

LEMMA LinkResend ==
  ASSUME TypeOK, LinkInv, Resend
  PROVE  LinkInv'
  <1> DEFINE req == [op |-> app.op, pkg |-> app.pkg, call |-> call,
                     wants |-> app.wants]
  <1>1. /\ up' = Append(up, req) /\ call' = call
        /\ app.at = "wait" /\ app'.at = "wait"
        /\ app'.op = app.op /\ app'.pkg = app.pkg /\ app'.wants = app.wants
        /\ UNCHANGED <<link, down, fc>>
    BY DEF Resend, TypeOK, AppState
  <1>2. req \in Request /\ call \in Nat
    BY AppFacts DEF Request, TypeOK
  <1>3. /\ req.call = call /\ req.op = app.op /\ req.pkg = app.pkg
        /\ req.wants = app.wants
    OBVIOUS
  <1> HIDE DEF req
  <1>4. /\ Len(up') = Len(up) + 1
        /\ \A i \in 1 .. Len(up) : up'[i] = up[i]
        /\ up'[Len(up) + 1] = req
        /\ \A i \in 1 .. Len(up') : i \in 1 .. Len(up) \/ i = Len(up) + 1
    BY <1>1, <1>2, AppendFacts DEF TypeOK
  <1>5. Len(up) \in Nat /\ Len(down) \in Nat
    BY DEF TypeOK
  <1>6. InOrder'
    <2>1. \A i \in 1 .. Len(up') : up'[i].call <= call'
      BY <1>1, <1>2, <1>3, <1>4 DEF LinkInv, InOrder
    <2>2. \A i, j \in 1 .. Len(up') : i <= j => up'[i].call <= up'[j].call
      BY <1>2, <1>3, <1>4, <1>5 DEF LinkInv, InOrder
    <2>3. \A i \in 1 .. Len(down'), j \in 1 .. Len(up') :
            down'[i].kind = "ack" => down'[i].call <= up'[j].call
      BY <1>1, <1>3, <1>4 DEF LinkInv, InOrder
    <2> QED
      BY <1>1, <2>1, <2>2, <2>3 DEF LinkInv, InOrder
  <1>7. OwnRequests'
    BY <1>1, <1>3, <1>4 DEF LinkInv, OwnRequests
  <1>8. NoOlderRequests' /\ RemovedIsQuiet'
    BY <1>1 DEF LinkInv, NoOlderRequests, RemovedIsQuiet, Confirms, Stopped,
                IsData
  <1> QED
    BY <1>6, <1>7, <1>8 DEF LinkInv

\* What becomes of the frames when the receive thread takes the first.
LEMMA Shifted ==
  ASSUME TypeOK, Receive
  PROVE  /\ Len(down) \in Nat /\ 1 \in 1 .. Len(down)
         /\ down' = Tail(down) /\ down[1] = Head(down)
         /\ \A i \in 1 .. Len(down') :
              i + 1 \in 1 .. Len(down) /\ down'[i] = down[i + 1]
         /\ UNCHANGED <<up, fc>> /\ link.at = "idle"
  BY TailFacts DEF TypeOK, Receive

LEMMA ShiftedStopped ==
  ASSUME TypeOK, Receive, NEW p, NEW n \in Nat,
         Stopped(p, n + 1)
  PROVE  Stopped(p, n)'
  BY Shifted DEF Stopped, IsData

LEMMA ShiftedInOrder ==
  ASSUME TypeOK, Receive, InOrder, call' = call
  PROVE  InOrder'
  BY Shifted DEF InOrder

\* The telemetry that is taken off the link is not of a package that stopped.
LEMMA LinkReceive ==
  ASSUME TypeOK, LinkInv, Receive, UNCHANGED <<app, call>>,
         \/ link' = link
         \/ Head(down).kind = "data" /\ link'.pkg = Head(down).pkg
  PROVE  LinkInv'
  <1>1. InOrder'
    BY ShiftedInOrder DEF LinkInv
  <1>2. OwnRequests' /\ NoOlderRequests'
    BY Shifted DEF LinkInv, OwnRequests, NoOlderRequests
  <1>3. RemovedIsQuiet'
    <2>1. ASSUME app.at = "wait", app.op = "remove",
                 NEW i \in 1 .. Len(down'), Confirms(i)'
          PROVE  Stopped(app.pkg, i)'
      <3>1. i + 1 \in 1 .. Len(down) /\ Confirms(i + 1)
        BY <2>1, Shifted DEF Confirms
      <3>2. Stopped(app.pkg, i + 1)
        BY <2>1, <3>1 DEF LinkInv, RemovedIsQuiet
      <3> QED
        BY <3>2, ShiftedStopped
    <2>2. ASSUME app.at \in {"acked", "clean"}, app.op = "remove"
          PROVE  Quiet(app.pkg)'
      <3>1. Quiet(app.pkg)
        BY <2>2 DEF LinkInv, RemovedIsQuiet
      <3>2. Stopped(app.pkg, 0)'
        BY <3>1, Shifted DEF Quiet, Stopped, IsData
      <3>3. ~(Head(down).kind = "data" /\ Head(down).pkg = app.pkg)
        BY <3>1, Shifted DEF Quiet, Stopped, IsData
      <3> QED
        BY <3>1, <3>2, <3>3, Shifted DEF Quiet
    <2> QED
      BY <2>1, <2>2 DEF RemovedIsQuiet
  <1> QED
    BY <1>1, <1>2, <1>3 DEF LinkInv

LEMMA LinkSyncAck ==
  ASSUME TypeOK, LinkInv, SyncAck
  PROVE  LinkInv'
  <1>1. /\ Receive /\ Answers(Head(down)) /\ UNCHANGED <<link, call>>
    BY DEF SyncAck
  <1>2. InOrder'
    BY <1>1, ShiftedInOrder DEF LinkInv
  <1>3. CASE app' = Return
    BY <1>2, <1>3, ReturnFacts
       DEF LinkInv, OwnRequests, NoOlderRequests, RemovedIsQuiet
  <1>4. CASE app' # Return
    <2>1. app' = [app EXCEPT !.at = "acked"] /\ Head(down).ok
      BY <1>4 DEF SyncAck
    <2>2. /\ app'.at = "acked" /\ app'.op = app.op /\ app'.pkg = app.pkg
          /\ app'.wants = app.wants /\ app.at = "wait"
      BY <1>1, <2>1 DEF TypeOK, AppState, Answers
    <2>3. down[1].kind = "ack" /\ down[1].call = call /\ Confirms(1)
      BY <1>1, <2>1, Shifted DEF Answers, Confirms
    <2>4. OwnRequests'
      BY <1>1, <2>2, Shifted DEF LinkInv, OwnRequests
    <2>5. NoOlderRequests'
      <3>1. \A i \in 1 .. Len(up) : up[i].call \in Nat /\ up[i].call <= call
                                    /\ call <= up[i].call
        BY <1>1, <2>3, UpFacts, Shifted DEF LinkInv, InOrder
      <3> QED
        BY <1>1, <3>1, AppFacts, Shifted DEF NoOlderRequests
    <2>6. RemovedIsQuiet'
      <3>1. app.op = "remove" => Stopped(app.pkg, 1)
        BY <1>1, <2>2, <2>3, Shifted DEF LinkInv, RemovedIsQuiet
      <3>2. app.op = "remove" => Stopped(app.pkg, 0)'
        BY <1>1, <2>2, <3>1, Shifted DEF Stopped, IsData
      <3> QED
        BY <1>1, <2>2, <3>2, Shifted DEF RemovedIsQuiet, Quiet, Stopped, IsData
    <2> QED
      BY <1>2, <2>4, <2>5, <2>6 DEF LinkInv
  <1> QED
    BY <1>3, <1>4

LEMMA LinkOther ==
  ASSUME LinkInv,
         CopyDone \/ HandlerLoop("app", app.pkg) \/ UNCHANGED vars
  PROVE  LinkInv'
  <1>1. CASE CopyDone
    BY <1>1 DEF CopyDone, LinkIdle, wire, LinkInv, InOrder, OwnRequests,
                NoOlderRequests, RemovedIsQuiet, Quiet, Stopped, Confirms,
                IsData
  <1>2. CASE UNCHANGED vars
    BY <1>2, LinkSameCall DEF vars, threads
  <1>3. CASE HandlerLoop("app", app.pkg)
    BY <1>3, LoopKeeps, LinkSameCall DEF Actors, threads
  <1> QED
    BY <1>1, <1>2, <1>3

LEMMA LinkQuit ==
  ASSUME UncleanQuit
  PROVE  LinkInv'
  <1>1. up' = <<>> /\ down' = <<>> /\ app'.at = "detect"
    BY DEF UncleanQuit, NoCallAt
  <1>2. Len(<<>>) = 0 /\ 1 .. 0 = {}
    OBVIOUS
  <1> QED
    BY <1>1, <1>2 DEF LinkInv, InOrder, OwnRequests, NoOlderRequests,
                      RemovedIsQuiet

\* What becomes of the frames when one is sent down or taken from the way up.
LEMMA SentDown ==
  ASSUME TypeOK, NEW f \in Frame, down' = Append(down, f)
  PROVE  /\ Len(down) \in Nat /\ Len(down') = Len(down) + 1
         /\ \A i \in 1 .. Len(down) : down'[i] = down[i]
         /\ down'[Len(down) + 1] = f
         /\ \A i \in 1 .. Len(down') :
              i \in 1 .. Len(down) \/ i = Len(down) + 1
  BY AppendFacts DEF TypeOK

LEMMA TakenUp ==
  ASSUME TypeOK, Len(up) > 0, up' = Tail(up)
  PROVE  /\ 1 \in 1 .. Len(up) /\ Head(up) = up[1] /\ Len(up) \in Nat
         /\ \A i \in 1 .. Len(up') :
              i + 1 \in 1 .. Len(up) /\ up'[i] = up[i + 1]
  BY TailFacts DEF TypeOK

LEMMA LinkLoseRequest ==
  ASSUME TypeOK, LinkInv, LoseRequest
  PROVE  LinkInv'
  <1>1. /\ Len(up) > 0 /\ up' = Tail(up)
        /\ UNCHANGED <<app, link, call, down, fc>>
    BY DEF LoseRequest, threads
  <1>u. /\ Len(up) \in Nat
        /\ \A i \in 1 .. Len(up') : i + 1 \in 1 .. Len(up) /\ up'[i] = up[i + 1]
    BY <1>1, TakenUp
  <1>2. InOrder' /\ OwnRequests' /\ NoOlderRequests'
    <2>1. InOrder'
      BY <1>1, <1>u DEF LinkInv, InOrder
    <2>2. OwnRequests' /\ NoOlderRequests'
      BY <1>1, <1>u DEF LinkInv, OwnRequests, NoOlderRequests
    <2> QED
      BY <2>1, <2>2
  <1>3. RemovedIsQuiet'
    BY <1>1 DEF LinkInv, RemovedIsQuiet, Quiet, Stopped, Confirms, IsData
  <1> QED
    BY <1>2, <1>3 DEF LinkInv

\* A lost frame is a received one without the thread.
LEMMA LinkLoseFrame ==
  ASSUME TypeOK, LinkInv, LoseFrame
  PROVE  LinkInv'
  <1>1. /\ Len(down) > 0 /\ down' = Tail(down)
        /\ UNCHANGED <<app, link, call, up, fc>>
    BY DEF LoseFrame, threads
  <1>2. \A i \in 1 .. Len(down') :
          i + 1 \in 1 .. Len(down) /\ down'[i] = down[i + 1]
    BY <1>1, TailFacts DEF TypeOK
  <1>3. InOrder' /\ OwnRequests' /\ NoOlderRequests'
    BY <1>1, <1>2 DEF LinkInv, InOrder, OwnRequests, NoOlderRequests
  <1>4. RemovedIsQuiet'
    <2>2. ASSUME app.at = "wait", app.op = "remove",
                 NEW i \in 1 .. Len(down'), Confirms(i)'
          PROVE  Stopped(app.pkg, i)'
      <3>1. i + 1 \in 1 .. Len(down) /\ Confirms(i + 1) /\ i \in Nat
        BY <1>1, <1>2, <2>2 DEF Confirms
      <3>2. Stopped(app.pkg, i + 1)
        BY <2>2, <3>1 DEF LinkInv, RemovedIsQuiet
      <3> QED
        BY <1>1, <1>2, <3>1, <3>2 DEF Stopped, IsData
    <2>3. ASSUME app.at \in {"acked", "clean"}, app.op = "remove"
          PROVE  Quiet(app.pkg)'
      <3>1. Stopped(app.pkg, 0) /\ ~(link.at = "copy" /\ link.pkg = app.pkg)
        BY <2>3 DEF LinkInv, RemovedIsQuiet, Quiet
      <3>2. Stopped(app.pkg, 0)'
        BY <1>1, <1>2, <3>1 DEF Stopped, IsData
      <3> QED
        BY <1>1, <3>1, <3>2 DEF Quiet
    <2> QED
      BY <1>1, <2>2, <2>3 DEF RemovedIsQuiet
  <1> QED
    BY <1>3, <1>4 DEF LinkInv

LEMMA DataFrame ==
  ASSUME TypeOK, NEW p \in Packages, fc[p] # None
  PROVE  Data(p, fc[p]) \in Frame
  BY DEF Data, Frame, TypeOK

LEMMA LinkSendTelemetry ==
  ASSUME TypeOK, LinkInv, NEW p \in Packages, SendTelemetry(p)
  PROVE  LinkInv'
  <1> DEFINE f == Data(p, fc[p])
  <1>1. /\ fc[p] # None /\ down' = Append(down, f)
        /\ UNCHANGED <<app, link, call, up, fc>>
    BY DEF SendTelemetry, threads
  <1>2. f \in Frame /\ f.kind = "data" /\ f.pkg = p
    BY <1>1, DataFrame DEF Data
  <1> HIDE DEF f
  <1>3. InOrder' /\ OwnRequests' /\ NoOlderRequests'
    BY <1>1, <1>2, SentDown DEF LinkInv, InOrder, OwnRequests, NoOlderRequests
  <1>4. RemovedIsQuiet'
    <2>1. \A i \in 1 .. Len(down') : Confirms(i)' =>
            i \in 1 .. Len(down) /\ Confirms(i)
      BY <1>1, <1>2, SentDown DEF Confirms
    <2>2. \A q \in Packages, n \in Nat : Stopped(q, n) => Stopped(q, n)'
      BY <1>1, <1>2, SentDown DEF Stopped, IsData
    <2>3. app.pkg \in Packages
      BY AppFacts
    <2> QED
      BY <1>1, <2>1, <2>2, <2>3 DEF LinkInv, RemovedIsQuiet, Quiet
  <1> QED
    BY <1>3, <1>4 DEF LinkInv

\* The flight controller acts on the oldest request and acknowledges it.
LEMMA Handled ==
  ASSUME TypeOK, HandleRequest
  PROVE  \E ok \in BOOLEAN :
           LET req == Head(up)
           IN  /\ Len(up) > 0 /\ up' = Tail(up) /\ req = up[1]
               /\ req.pkg \in Packages /\ req.call \in Nat
               /\ Ack(req, ok) \in Frame /\ down' = Append(down, Ack(req, ok))
               /\ ~ok => fc' = fc
               /\ ok => \/ /\ req.op = "add" /\ fc[req.pkg] = None
                           /\ fc' = [fc EXCEPT ![req.pkg] = req.wants]
                        \/ /\ req.op = "remove" /\ fc[req.pkg] # None
                           /\ fc' = [fc EXCEPT ![req.pkg] = None]
                        \/ /\ req.op = "reset"
                           /\ fc' = [p \in Packages |-> None]
               /\ UNCHANGED <<package, memory, topics, threads, call, pending>>
  <1> DEFINE req == Head(up)
  <1>1. Len(up) > 0 /\ up' = Tail(up)
    BY DEF HandleRequest
  <1>2. req = up[1] /\ 1 \in 1 .. Len(up)
    BY <1>1, TailFacts DEF TypeOK
  <1>3. req \in Request
    BY <1>2 DEF TypeOK
  <1>4. req.pkg \in Packages /\ req.call \in Nat
    BY <1>3 DEF Request
  <1>5. \A ok \in BOOLEAN : Ack(req, ok) \in Frame
    BY <1>3, ClearedIsLayout DEF Ack, Frame, Request
  <1>6. UNCHANGED <<package, memory, topics, threads, call, pending>>
    BY DEF HandleRequest
  <1>7. CASE down' = Append(down, Ack(req, TRUE)) /\
             \/ /\ req.op = "add" /\ fc[req.pkg] = None
                /\ fc' = [fc EXCEPT ![req.pkg] = req.wants]
             \/ /\ req.op = "remove" /\ fc[req.pkg] # None
                /\ fc' = [fc EXCEPT ![req.pkg] = None]
             \/ /\ req.op = "reset"
                /\ fc' = [p \in Packages |-> None]
    BY <1>1, <1>2, <1>4, <1>5, <1>6, <1>7
  <1>8. CASE down' = Append(down, Ack(req, FALSE)) /\ fc' = fc
    BY <1>1, <1>2, <1>4, <1>5, <1>6, <1>8
  <1> QED
    BY <1>7, <1>8 DEF HandleRequest

LEMMA LinkHandleRequest ==
  ASSUME TypeOK, LinkInv, HandleRequest
  PROVE  LinkInv'
  <1> DEFINE req == up[1]
  <1>1. PICK ok \in BOOLEAN :
           /\ Len(up) > 0 /\ up' = Tail(up)
           /\ req.pkg \in Packages /\ req.call \in Nat
           /\ Ack(req, ok) \in Frame /\ down' = Append(down, Ack(req, ok))
           /\ ~ok => fc' = fc
           /\ ok => \/ /\ req.op = "add" /\ fc[req.pkg] = None
                       /\ fc' = [fc EXCEPT ![req.pkg] = req.wants]
                    \/ /\ req.op = "remove" /\ fc[req.pkg] # None
                       /\ fc' = [fc EXCEPT ![req.pkg] = None]
                    \/ /\ req.op = "reset"
                       /\ fc' = [p \in Packages |-> None]
           /\ UNCHANGED <<package, memory, topics, threads, call, pending>>
    BY Handled
  <1> DEFINE f == Ack(req, ok)
  <1>2. f.kind = "ack" /\ f.call = req.call /\ f.ok = ok
    BY DEF Ack
  <1>3. f \in Frame /\ down' = Append(down, f)
    BY <1>1
  <1> HIDE DEF f
  <1>4. /\ Len(down) \in Nat /\ Len(down') = Len(down) + 1
        /\ \A i \in 1 .. Len(down) : down'[i] = down[i]
        /\ down'[Len(down) + 1] = f
        /\ \A i \in 1 .. Len(down') :
             i \in 1 .. Len(down) \/ i = Len(down) + 1
    BY <1>3, SentDown
  <1>5. /\ 1 \in 1 .. Len(up) /\ Len(up) \in Nat
        /\ \A i \in 1 .. Len(up') :
             i + 1 \in 1 .. Len(up) /\ up'[i] = up[i + 1]
    BY <1>1, TakenUp
  <1>6. UNCHANGED <<app, link, call>>
    BY <1>1 DEF threads
  <1>7. InOrder'
    <2>1. \A i \in 1 .. Len(down') :
            down'[i].kind = "ack" => down'[i].call <= call'
      BY <1>2, <1>4, <1>5, <1>6 DEF LinkInv, InOrder
    <2>2. \A i \in 1 .. Len(down'), j \in 1 .. Len(up') :
            down'[i].kind = "ack" => down'[i].call <= up'[j].call
      <3>1. \A j \in 1 .. Len(up') : req.call <= up'[j].call
        BY <1>5 DEF LinkInv, InOrder
      <3> QED
        BY <1>2, <1>4, <1>5, <3>1 DEF LinkInv, InOrder
    <2>3. InOrder
      BY DEF LinkInv
    <2>4. \A i \in 1 .. Len(up') : up'[i].call <= call'
      BY <1>5, <1>6, <2>3 DEF InOrder
    <2>5. ASSUME NEW i \in 1 .. Len(up'), NEW j \in 1 .. Len(up'), i <= j
          PROVE  up'[i].call <= up'[j].call
      <3>1. /\ i + 1 \in 1 .. Len(up) /\ j + 1 \in 1 .. Len(up)
            /\ up'[i] = up[i + 1] /\ up'[j] = up[j + 1]
        BY <1>5
      <3>2. i + 1 <= j + 1
        BY <2>5
      <3> QED BY <2>3, <3>1, <3>2 DEF InOrder
    <2> QED BY <2>1, <2>2, <2>4, <2>5 DEF InOrder
  <1>8. OwnRequests' /\ NoOlderRequests'
    BY <1>5, <1>6 DEF LinkInv, OwnRequests, NoOlderRequests
  <1>9. RemovedIsQuiet'
    <2>1. ASSUME NEW q \in Packages, NEW n \in Nat, Stopped(q, n),
                 ~(ok /\ req.op = "add" /\ req.pkg = q)
          PROVE  Stopped(q, n)'
      <3>1. fc[q] = None
        BY <2>1 DEF Stopped
      <3>2. fc'[q] = None
        BY <1>1, <2>1, <3>1 DEF TypeOK
      <3>3. \A i \in 1 .. Len(down') : i > n => ~IsData(i, q)'
        BY <1>2, <1>4, <2>1 DEF Stopped, IsData
      <3> QED
        BY <3>2, <3>3 DEF Stopped
    <2>2. app.pkg \in Packages /\ call \in Nat
      BY AppFacts
    <2>3. ASSUME app.at = "wait", app.op = "remove",
                 NEW i \in 1 .. Len(down'), Confirms(i)'
          PROVE  Stopped(app.pkg, i)'
      <3>1. CASE i \in 1 .. Len(down)
        <4>1. Confirms(i)
          BY <1>4, <1>6, <2>3, <3>1 DEF Confirms
        <4>2. Stopped(app.pkg, i)
          BY <2>3, <3>1, <4>1 DEF LinkInv, RemovedIsQuiet
        <4>3. req.call = call
          BY <1>1, <1>5, <2>2, <3>1, <4>1 DEF LinkInv, InOrder, Confirms
        <4>4. req.op = "remove"
          BY <1>5, <2>3, <4>3 DEF LinkInv, OwnRequests
        <4> QED
          BY <1>6, <2>1, <2>2, <4>2, <4>4
      <3>2. CASE i = Len(down) + 1
        <4>1. req.call = call /\ ok
          BY <1>2, <1>4, <1>6, <2>3, <3>2 DEF Confirms
        <4>2. req.op = "remove" /\ req.pkg = app.pkg
          BY <1>5, <2>3, <4>1 DEF LinkInv, OwnRequests
        <4>3. fc'[app.pkg] = None
          BY <1>1, <4>1, <4>2 DEF TypeOK
        <4> QED
          BY <1>4, <1>6, <3>2, <4>3 DEF Stopped
      <3> QED
        BY <1>4, <3>1, <3>2
    <2>4. ASSUME app.at \in {"acked", "clean"}, app.op = "remove"
          PROVE  Quiet(app.pkg)'
      <3>1. req.op = "remove"
        BY <1>5, <2>4 DEF LinkInv, NoOlderRequests, OwnRequests
      <3>2. Stopped(app.pkg, 0)
        BY <2>4 DEF LinkInv, RemovedIsQuiet, Quiet
      <3>3. Stopped(app.pkg, 0)'
        BY <1>6, <2>1, <2>2, <3>1, <3>2
      <3> QED
        BY <1>6, <2>4, <3>3 DEF LinkInv, RemovedIsQuiet, Quiet
    <2> QED
      BY <1>6, <2>3, <2>4 DEF RemovedIsQuiet
  <1> QED
    BY <1>7, <1>8, <1>9 DEF LinkInv

-----------------------------------------------------------------------------
(* The layouts: what is sent of a package agrees with what is known here.  *)

\* What the argument about the layouts takes from the other invariants.
Before == TypeOK /\ MemoryInv /\ LinkInv /\ StartedAgrees

LEMMA AgreesAtEase ==
  ASSUME StartedAgrees, UNCHANGED <<wire, link, occupied>>,
         \A p \in Packages : occupied[p] => layout'[p] = layout[p],
         TypeOK, app.at # "clean", app'.at \notin {"wait", "acked", "clean"}
  PROVE  StartedAgrees'
  <1>1. \A p \in Packages : occupied'[p] =>
          ~Clearing(p)' /\ Agrees(p, layout[p], 0)' /\ layout'[p] = layout[p]
    BY DEF StartedAgrees, Clearing, Agrees, IsData, wire
  <1>2. link'.at = "copy" /\ occupied'[link'.pkg] =>
          link'.data = layout'[link'.pkg]
    BY DEF StartedAgrees, TypeOK, LinkState
  <1> QED
    BY <1>1, <1>2 DEF StartedAgrees, Agrees

LEMMA AgreesInit ==
  ASSUME Init
  PROVE  StartedAgrees
  BY DEF Init, StartedAgrees, NoCallAt, LinkIdle

LEMMA AgreesCall ==
  ASSUME Before,
         \/ \E p \in Packages, lay \in Selections : InitPackage(p, lay)
         \/ SetTopicList \/ FillPackage
         \/ \E p \in Packages : StartPackage(p, TRUE)
         \/ SweepSkip \/ SyncTimeout
         \/ \E all \in BOOLEAN : BeginSweep(all)
  PROVE  StartedAgrees'
  <1>1. ASSUME NEW p \in Packages, NEW lay \in Selections,
               InitPackage(p, lay)
        PROVE  StartedAgrees'
    <2>1. /\ UNCHANGED <<wire, link, occupied, layout>>
          /\ app.at = "idle" /\ app'.at = "init"
      BY <1>1 DEF InitPackage
    <2> QED
      BY <2>1, AgreesAtEase DEF Before
  <1>6. CASE SetTopicList
    <2>1. /\ UNCHANGED <<wire, link, occupied, layout>>
          /\ app.at = "init" /\ app'.at \in {"idle", "fill"}
      BY <1>6, SetTopicListFacts DEF Before, package
    <2> QED
      BY <2>1, AgreesAtEase DEF Before
  <1>7. CASE FillPackage
    <2>1. /\ UNCHANGED <<wire, link, occupied>>
          /\ app.at = "fill" /\ app'.at = "idle"
          /\ \A q \in Packages : occupied[q] => layout'[q] = layout[q]
      BY <1>7, FillFacts DEF Before
    <2> QED
      BY <2>1, AgreesAtEase DEF Before
  <1>2. ASSUME NEW p \in Packages, StartPackage(p, TRUE)
        PROVE  StartedAgrees'
    <2>1. /\ UNCHANGED <<wire, link, occupied, layout>>
          /\ app.at = "idle" /\ app'.at = "alloc"
      BY <1>2 DEF StartPackage, package
    <2> QED
      BY <2>1, AgreesAtEase DEF Before
  <1>3. CASE SweepSkip
    <2>1. app' = app \/ app' = NoCallAt("idle")
      BY <1>3 DEF SweepSkip
    <2>2. app.at = "sweep" /\ app'.at \in {"sweep", "idle"}
      BY <1>3, <2>1 DEF SweepSkip, NoCallAt
    <2>3. UNCHANGED <<wire, link, occupied, layout>>
      BY <1>3 DEF SweepSkip, package
    <2> QED
      BY <2>2, <2>3, AgreesAtEase DEF Before
  <1>4. CASE SyncTimeout
    BY <1>4, AgreesAtEase, ReturnFacts DEF SyncTimeout, package, Before
  <1>5. ASSUME NEW all \in BOOLEAN, BeginSweep(all)
        PROVE  StartedAgrees'
    BY <1>5, AgreesAtEase DEF BeginSweep, NoCallAt, package, Before
  <1> QED
    BY <1>1, <1>2, <1>3, <1>4, <1>5, <1>6, <1>7

\* A new request concerns no package that is occupied.
LEMMA AgreesTransmit ==
  ASSUME Before, NEW op \in {"add", "remove", "reset"},
         NEW p \in Packages, NEW wants \in Layout,
         Transmit(op, p, wants, TRUE),
         op = "add" => ~occupied[p], app.at # "clean",
         UNCHANGED <<occupied, layout>>
  PROVE  StartedAgrees'
  <1> DEFINE req == [op |-> op, pkg |-> p, call |-> call + 1, wants |-> wants]
  <1>1. /\ up' = Append(up, req) /\ call' = call + 1 /\ app'.at = "wait"
        /\ UNCHANGED <<link, down, fc>>
    BY DEF Transmit
  <1>2. req \in Request /\ call \in Nat
    BY DEF Request, Before, TypeOK
  <1>3. req.op = op /\ req.pkg = p
    OBVIOUS
  <1> HIDE DEF req
  <1>4. /\ \A i \in 1 .. Len(up) : up'[i] = up[i]
        /\ up'[Len(up) + 1] = req
        /\ \A i \in 1 .. Len(up') : i \in 1 .. Len(up) \/ i = Len(up) + 1
    BY <1>1, <1>2, AppendFacts DEF Before, TypeOK
  <1>5. \A i \in 1 .. Len(down) : ~Confirms(i)'
    BY <1>1, <1>2, DownFacts DEF Before, LinkInv, InOrder, Confirms
  <1>6. \A q \in Packages : occupied[q] =>
          /\ fc'[q] \in {None, layout'[q]}
          /\ \A i \in 1 .. Len(down') : i > 0 /\ IsData(i, q)' =>
               down'[i].data = layout'[q]
    BY <1>1 DEF Before, StartedAgrees, Agrees, Clearing, IsData
  <1>7. ASSUME NEW q \in Packages, occupied[q], NEW i \in 1 .. Len(up'),
               up'[i].op = "add", up'[i].pkg = q
        PROVE  up'[i].wants = layout'[q]
    <2>1. i \in 1 .. Len(up)
      BY <1>3, <1>4, <1>7
    <2> QED
      BY <1>4, <1>7, <2>1 DEF Before, StartedAgrees, Agrees, Clearing
  <1>8. \A q \in Packages : occupied'[q] =>
          IF Clearing(q)' THEN Quiet(q)' ELSE Agrees(q, layout[q], 0)'
    BY <1>1, <1>6, <1>7 DEF Agrees, Clearing
  <1>9. link'.at = "copy" /\ occupied'[link'.pkg] =>
          link'.data = layout'[link'.pkg]
    BY <1>1 DEF Before, StartedAgrees
  <1> QED
    BY <1>1, <1>5, <1>8, <1>9 DEF StartedAgrees

LEMMA AgreesRequests ==
  ASSUME Before,
         \/ AllocateDataBuffer \/ SweepRemove
         \/ \E p \in Packages : RemovePackage(p, TRUE)
         \/ Reset(TRUE)
  PROVE  StartedAgrees'
  <1>1. CASE AllocateDataBuffer
    <2>1. /\ app.pkg \in Packages /\ app.wants \in Layout
          /\ app.at = "alloc" /\ ~occupied[app.pkg] /\ app.sync = TRUE
      BY <1>1, AppFacts
         DEF AllocateDataBuffer, Before, MemoryInv, CallShape, OnlyBlocking
    <2>2. /\ Transmit("add", app.pkg, app.wants, TRUE)
          /\ UNCHANGED <<occupied, layout>>
      BY <1>1, <2>1 DEF AllocateDataBuffer
    <2> QED
      BY <2>1, <2>2, AgreesTransmit
  <1>2. CASE SweepRemove
    <2>1. loop.next \in Packages
      BY <1>2, AppFacts, SubscriptionAssumption
         DEF SweepRemove, Packages, Before
    <2>2. /\ Transmit("remove", loop.next, Cleared, TRUE) /\ app.at = "sweep"
          /\ UNCHANGED <<occupied, layout>>
      BY <1>2 DEF SweepRemove, package
    <2> QED
      BY <2>1, <2>2, AgreesTransmit, ClearedIsLayout
  <1>3. ASSUME NEW p \in Packages, RemovePackage(p, TRUE)
        PROVE  StartedAgrees'
    BY <1>3, AgreesTransmit, ClearedIsLayout DEF RemovePackage, package
  <1>4. CASE Reset(TRUE)
    BY <1>4, AgreesTransmit, ClearedIsLayout, PackageZero DEF Reset, package
  <1> QED
    BY <1>1, <1>2, <1>3, <1>4

LEMMA AgreesResend ==
  ASSUME Before, Resend
  PROVE  StartedAgrees'
  <1> DEFINE req == [op |-> app.op, pkg |-> app.pkg, call |-> call,
                     wants |-> app.wants]
  <1>1. /\ up' = Append(up, req) /\ call' = call
        /\ app.at = "wait" /\ app'.at = "wait"
        /\ app'.op = app.op /\ app'.pkg = app.pkg /\ app'.wants = app.wants
        /\ UNCHANGED <<link, down, fc, occupied, layout>>
    BY DEF Resend, Before, TypeOK, AppState, package
  <1>2. req \in Request
    BY AppFacts DEF Request, Before, TypeOK
  <1>3. req.op = app.op /\ req.pkg = app.pkg /\ req.wants = app.wants
    OBVIOUS
  <1> HIDE DEF req
  <1>4. /\ \A i \in 1 .. Len(up) : up'[i] = up[i]
        /\ up'[Len(up) + 1] = req
        /\ \A i \in 1 .. Len(up') : i \in 1 .. Len(up) \/ i = Len(up) + 1
    BY <1>1, <1>2, AppendFacts DEF Before, TypeOK
  <1>5. app.op = "add" =>
          \A i \in 1 .. Len(down') : Confirms(i)' => Sending(i)'
    <2>1. ASSUME app.op = "add", NEW i \in 1 .. Len(down'), Confirms(i)'
          PROVE  Sending(i)'
      <3>1. Sending(i)
        BY <1>1, <2>1 DEF Before, StartedAgrees, Confirms
      <3> QED
        BY <1>1, <1>3, <1>4, <3>1 DEF Sending, Agrees, IsData
    <2> QED
      BY <2>1
  <1>6. \A q \in Packages : occupied'[q] => ~Clearing(q)' /\ Agrees(q, layout[q], 0)'
    <2>1. app.op = "add" => ~occupied[app.pkg]
      BY <1>1 DEF Before, MemoryInv, CallShape
    <2> QED
      BY <1>1, <1>3, <1>4, <2>1
         DEF Before, StartedAgrees, Agrees, Clearing, IsData
  <1> QED
    BY <1>1, <1>5, <1>6 DEF Before, StartedAgrees

LEMMA AgreesStartConfirmed ==
  ASSUME Before, StartConfirmed
  PROVE  StartedAgrees'
  <1>1. /\ app.at = "acked" /\ app.op = "add" /\ app.pkg \in Packages
        /\ app.wants = layout[app.pkg]
    BY StartConfirmedFacts DEF Before, MemoryInv, CallShape
  <1>2. /\ occupied' = [occupied EXCEPT ![app.pkg] = TRUE]
        /\ UNCHANGED <<layout, link, up, down, fc>>
        /\ app' = Return
    BY StartConfirmedFacts DEF Before, wire
  <1>3. \A q \in Packages : occupied'[q] => Agrees(q, layout[q], 0)
    BY <1>1, <1>2
       DEF Before, TypeOK, StartedAgrees, Sending, Clearing
  <1>4. link.at = "copy" /\ occupied'[link.pkg] => link.data = layout[link.pkg]
    BY <1>1, <1>2 DEF Before, TypeOK, LinkState, StartedAgrees
  <1>5. \A q \in Packages : occupied'[q] =>
          ~Clearing(q)' /\ Agrees(q, layout[q], 0)'
    BY <1>2, <1>3, ReturnFacts DEF Agrees, Clearing, IsData
  <1> QED
    BY <1>2, <1>4, <1>5, ReturnFacts DEF StartedAgrees

LEMMA AgreesRemove ==
  ASSUME Before, RemoveConfirmed \/ RemoveDone
  PROVE  StartedAgrees'
  <1> DEFINE p == app.pkg
  <1>1. p \in Packages
    BY AppFacts DEF Before
  <1>2. CASE RemoveConfirmed
    <2>1. app.at = "acked" /\ app.op = "remove" /\ Quiet(p)
      BY <1>2, RemoveConfirmedFacts DEF Before, LinkInv, RemovedIsQuiet
    <2>2. /\ layout' = [layout EXCEPT ![p] = Cleared]
          /\ UNCHANGED <<occupied, link, up, down, fc>>
          /\ app' = [app EXCEPT !.at = "clean"]
      BY <1>2, RemoveConfirmedFacts DEF Before, wire
    <2>3. app'.at = "clean" /\ app'.pkg = p
      BY <2>2 DEF Before, TypeOK, AppState
    <2>4. \A q \in Packages : q # p => layout'[q] = layout[q]
      BY <2>2 DEF Before, TypeOK
    <2>5. Quiet(p)'
      BY <2>1, <2>2, <2>3 DEF Quiet, Stopped, IsData
    <2>6. ASSUME NEW q \in Packages, occupied'[q]
          PROVE  IF Clearing(q)' THEN Quiet(q)' ELSE Agrees(q, layout[q], 0)'
      <3>1. CASE q = p
        BY <2>3, <2>5, <3>1 DEF Clearing, Quiet, Stopped, IsData
      <3>2. CASE q # p
        BY <2>1, <2>2, <2>3, <2>4, <2>6, <3>2
           DEF Before, StartedAgrees, Clearing, Agrees, IsData
      <3> QED
        BY <3>1, <3>2
    <2>7. link'.at = "copy" /\ occupied'[link'.pkg] =>
            link'.data = layout'[link'.pkg]
      BY <2>1, <2>2, <2>4
         DEF Before, TypeOK, LinkState, StartedAgrees, Quiet
    <2> QED
      BY <2>3, <2>6, <2>7 DEF StartedAgrees
  <1>3. CASE RemoveDone
    <2>1. /\ occupied' = [occupied EXCEPT ![p] = FALSE]
          /\ UNCHANGED <<layout, link, up, down, fc>>
          /\ app' = Return /\ app.at = "clean"
      BY <1>3 DEF RemoveDone, ClearDataBuffer, wire
    <2>2. ~occupied'[p] /\ \A q \in Packages : q # p => occupied'[q] = occupied[q]
      BY <1>1, <2>1 DEF Before, TypeOK
    <2>3. \A q \in Packages : occupied'[q] =>
            ~Clearing(q)' /\ Agrees(q, layout[q], 0)'
      BY <2>1, <2>2, ReturnFacts
         DEF Before, StartedAgrees, Clearing, Agrees, IsData
    <2>4. link'.at = "copy" /\ occupied'[link'.pkg] =>
            link'.data = layout'[link'.pkg]
      BY <2>1, <2>2 DEF Before, TypeOK, LinkState, StartedAgrees
    <2> QED
      BY <2>1, <2>3, <2>4, ReturnFacts DEF StartedAgrees
  <1> QED
    BY <1>2, <1>3

\* What becomes of the frames when the first one has left the way down.
LEMMA TakenDown ==
  ASSUME TypeOK, Len(down) > 0, down' = Tail(down)
  PROVE  /\ 1 \in 1 .. Len(down) /\ Head(down) = down[1] /\ Len(down) \in Nat
         /\ \A i \in 1 .. Len(down') :
              i + 1 \in 1 .. Len(down) /\ down'[i] = down[i + 1]
  BY TailFacts DEF TypeOK

\* The rest of the frames agree as they did, and so does a copy of the first.
LEMMA TakenAgrees ==
  ASSUME Before, Len(down) > 0, down' = Tail(down),
         UNCHANGED <<call, up, fc, occupied, layout>>,
         app'.pkg = app.pkg, app'.wants = app.wants,
         \/ link' = link
         \/ IsData(1, link'.pkg) /\ link'.data = down[1].data
  PROVE  /\ \A n \in Nat : Sending(n + 1) => Sending(n)'
         /\ \A n \in Nat : Sending(n) => Sending(n)'
         /\ \A p \in Packages : Quiet(p) => Quiet(p)'
         /\ \A p \in Packages : occupied[p] /\ ~Clearing(p) =>
              Agrees(p, layout[p], 0)'
         /\ link'.at = "copy" /\ occupied[link'.pkg] =>
              link'.data = layout[link'.pkg]
  <1>1. /\ 1 \in 1 .. Len(down) /\ Len(down) \in Nat
        /\ \A i \in 1 .. Len(down') :
             i + 1 \in 1 .. Len(down) /\ down'[i] = down[i + 1]
    BY TakenDown DEF Before
  <1>2. ASSUME NEW n \in Nat, Sending(n + 1)
        PROVE  Sending(n)'
    BY <1>1, <1>2 DEF Sending, Agrees, IsData
  <1>3. ASSUME NEW n \in Nat, Sending(n)
        PROVE  Sending(n)'
    BY <1>1, <1>3 DEF Sending, Agrees, IsData
  <1>4. ASSUME NEW p \in Packages, Quiet(p)
        PROVE  Quiet(p)'
    BY <1>1, <1>4 DEF Quiet, Stopped, IsData
  <1>5. ASSUME NEW p \in Packages, occupied[p], ~Clearing(p)
        PROVE  Agrees(p, layout[p], 0)'
    <2>1. Agrees(p, layout[p], 0)
      BY <1>5 DEF Before, StartedAgrees
    <2> QED
      BY <1>1, <2>1 DEF Agrees, IsData
  <1>6. ASSUME link'.at = "copy", occupied[link'.pkg]
        PROVE  link'.data = layout[link'.pkg]
    <2>1. CASE link' = link
      BY <1>6, <2>1 DEF Before, StartedAgrees
    <2>2. CASE IsData(1, link'.pkg) /\ link'.data = down[1].data
      <3>1. link'.pkg \in Packages
        BY <1>1, <2>2, DownFacts DEF IsData, Before
      <3>2. ~Clearing(link'.pkg)
        BY <1>1, <1>6, <2>2, <3>1
           DEF Before, StartedAgrees, Quiet, Stopped
      <3> QED
        BY <1>1, <1>6, <2>2, <3>1, <3>2 DEF Before, StartedAgrees, Agrees
    <2> QED
      BY <2>1, <2>2
  <1> QED
    BY <1>2, <1>3, <1>4, <1>5, <1>6

LEMMA AgreesTaken ==
  ASSUME Before, DecodeCallback \/ StaleAck \/ LoseFrame
  PROVE  StartedAgrees'
  <1>1. /\ Len(down) > 0 /\ down' = Tail(down)
        /\ UNCHANGED <<app, call, up, fc, occupied, layout>>
    BY DEF DecodeCallback, StaleAck, LoseFrame, Receive, threads, package
  <1>2. \/ link' = link
        \/ IsData(1, link'.pkg) /\ link'.data = down[1].data
    <2>1. CASE DecodeCallback
      <3>1. Head(down) = down[1]
        BY <1>1, TakenDown DEF Before
      <3> QED
        BY <2>1, <3>1 DEF DecodeCallback, IsData
    <2>2. CASE StaleAck \/ LoseFrame
      BY <2>2 DEF StaleAck, LoseFrame, threads
    <2> QED
      BY <2>1, <2>2
  <1>3. /\ \A n \in Nat : Sending(n + 1) => Sending(n)'
        /\ \A n \in Nat : Sending(n) => Sending(n)'
        /\ \A p \in Packages : Quiet(p) => Quiet(p)'
        /\ \A p \in Packages : occupied[p] /\ ~Clearing(p) =>
             Agrees(p, layout[p], 0)'
        /\ link'.at = "copy" /\ occupied[link'.pkg] =>
             link'.data = layout[link'.pkg]
    BY <1>1, <1>2, TakenAgrees
  <1>4. /\ 1 \in 1 .. Len(down) /\ Len(down) \in Nat
        /\ \A i \in 1 .. Len(down') :
             i + 1 \in 1 .. Len(down) /\ down'[i] = down[i + 1]
    BY <1>1, TakenDown DEF Before
  <1>5. ASSUME app.at = "wait", app.op = "add",
               NEW i \in 1 .. Len(down'), Confirms(i)'
        PROVE  Sending(i)'
    <2>1. i + 1 \in 1 .. Len(down) /\ Confirms(i + 1)
      BY <1>1, <1>4, <1>5 DEF Confirms
    <2>2. Sending(i + 1)
      BY <1>5, <2>1 DEF Before, StartedAgrees
    <2> QED
      BY <1>3, <2>2
  <1>6. ASSUME app.at = "acked", app.op = "add"
        PROVE  /\ Sending(0)'
               /\ link'.at = "copy" /\ link'.pkg = app.pkg =>
                    link'.data = app.wants
    <2>1. /\ Sending(0)
          /\ link.at = "copy" /\ link.pkg = app.pkg => link.data = app.wants
      BY <1>6 DEF Before, StartedAgrees
    <2>2. IsData(1, app.pkg) => down[1].data = app.wants
      BY <1>4, <2>1 DEF Sending, Agrees
    <2> QED
      BY <1>2, <1>3, <2>1, <2>2
  <1>7. ASSUME NEW p \in Packages, occupied[p]
        PROVE  IF Clearing(p)' THEN Quiet(p)' ELSE Agrees(p, layout[p], 0)'
    <2>1. Clearing(p)' = Clearing(p)
      BY <1>1 DEF Clearing
    <2>2. Clearing(p) => Quiet(p)
      BY <1>7 DEF Before, StartedAgrees
    <2> QED
      BY <1>3, <1>7, <2>1, <2>2
  <1> QED
    BY <1>1, <1>3, <1>5, <1>6, <1>7 DEF StartedAgrees

LEMMA AgreesSyncAck ==
  ASSUME Before, SyncAck
  PROVE  StartedAgrees'
  <1>1. /\ Len(down) > 0 /\ down' = Tail(down) /\ Answers(Head(down))
        /\ UNCHANGED <<call, up, fc, occupied, layout, link>>
        /\ app.at = "wait" /\ link.at = "idle"
    BY DEF SyncAck, Answers, Receive, package
  <1>2. /\ 1 \in 1 .. Len(down) /\ Head(down) = down[1] /\ Len(down) \in Nat
        /\ \A i \in 1 .. Len(down') :
             i + 1 \in 1 .. Len(down) /\ down'[i] = down[i + 1]
    BY <1>1, TakenDown DEF Before
  <1>3. ASSUME NEW p \in Packages, occupied'[p], app'.at # "clean"
        PROVE  ~Clearing(p)' /\ Agrees(p, layout[p], 0)'
    <2>1. Agrees(p, layout[p], 0)
      BY <1>1, <1>3 DEF Before, StartedAgrees, Clearing
    <2> QED
      BY <1>1, <1>2, <1>3, <2>1 DEF Agrees, IsData, Clearing
  <1>4. CASE app' = Return
    BY <1>1, <1>3, <1>4, ReturnFacts DEF StartedAgrees
  <1>5. CASE app' # Return
    <2>1. app' = [app EXCEPT !.at = "acked"] /\ Head(down).ok
      BY <1>5 DEF SyncAck
    <2>2. /\ app'.at = "acked" /\ app'.op = app.op /\ app'.pkg = app.pkg
          /\ app'.wants = app.wants
      BY <2>1 DEF Before, TypeOK, AppState
    <2>3. app.op = "add" => Sending(1)
      BY <1>1, <1>2, <2>1
         DEF Before, StartedAgrees, Confirms, Answers
    <2>4. app.op = "add" => Sending(0)'
      BY <1>1, <1>2, <2>2, <2>3 DEF Sending, Agrees, IsData
    <2> QED
      BY <1>1, <1>3, <2>2, <2>4 DEF StartedAgrees
  <1> QED
    BY <1>4, <1>5

LEMMA AgreesOther ==
  ASSUME Before,
         \/ CopyDone \/ LoseRequest \/ HandlerLoop("app", app.pkg)
         \/ UNCHANGED vars
  PROVE  StartedAgrees'
  <1>1. /\ UNCHANGED <<app, call, down, fc, occupied, layout>>
        /\ link' = link \/ link'.at = "idle"
        /\ up' = up \/ (Len(up) > 0 /\ up' = Tail(up))
    <2>1. CASE CopyDone
      BY <2>1 DEF CopyDone, LinkIdle, wire, package
    <2>2. CASE LoseRequest
      BY <2>2 DEF LoseRequest, threads, package
    <2>3. CASE UNCHANGED vars
      BY <2>3 DEF vars, threads, wire, package
    <2>4. CASE HandlerLoop("app", app.pkg)
      BY <2>4, LoopKeeps DEF Actors, threads, wire, package
    <2> QED
      BY <2>1, <2>2, <2>3, <2>4
  <1>2. \A j \in 1 .. Len(up') : \E k \in 1 .. Len(up) : up'[j] = up[k]
    BY <1>1, TakenUp DEF Before
  <1>3. \A p \in Packages, n \in Nat :
          Agrees(p, layout[p], n) => Agrees(p, layout[p], n)'
    BY <1>1, <1>2 DEF Agrees, IsData
  <1>4. \A n \in Nat : Sending(n) => Sending(n)'
    BY <1>1, <1>2 DEF Sending, Agrees, IsData
  <1>5. \A p \in Packages : Quiet(p) => Quiet(p)'
    BY <1>1 DEF Quiet, Stopped, IsData
  <1>6. \A i \in 1 .. Len(down) : i \in Nat /\ Confirms(i)' = Confirms(i)
    BY <1>1 DEF Confirms, Before, TypeOK
  <1>7. \A p \in Packages : occupied'[p] =>
          IF Clearing(p)' THEN Quiet(p)' ELSE Agrees(p, layout[p], 0)'
    BY <1>1, <1>3, <1>5 DEF Before, StartedAgrees, Clearing
  <1> QED
    BY <1>1, <1>4, <1>6, <1>7 DEF Before, StartedAgrees

LEMMA AgreesQuit ==
  ASSUME UncleanQuit
  PROVE  StartedAgrees'
  BY DEF UncleanQuit, StartedAgrees, NoCallAt, LinkIdle

\* The flight controller sends a package in the layout that was agreed on.
LEMMA AgreesSendTelemetry ==
  ASSUME Before, NEW s \in Packages, SendTelemetry(s)
  PROVE  StartedAgrees'
  <1> DEFINE f == Data(s, fc[s])
  <1>1. /\ fc[s] # None /\ down' = Append(down, f)
        /\ UNCHANGED <<app, link, call, up, fc, occupied, layout>>
    BY DEF SendTelemetry, threads, package
  <1>2. f \in Frame /\ f.kind = "data" /\ f.pkg = s /\ f.data = fc[s]
    BY <1>1, DataFrame DEF Data, Before
  <1> HIDE DEF f
  <1>3. /\ Len(down) \in Nat
        /\ \A i \in 1 .. Len(down) : down'[i] = down[i]
        /\ down'[Len(down) + 1] = f
        /\ \A i \in 1 .. Len(down') :
             i \in 1 .. Len(down) \/ i = Len(down) + 1
    BY <1>1, <1>2, SentDown DEF Before
  <1>4. \A n \in Nat : Sending(n) => Sending(n)'
    BY <1>1, <1>2, <1>3 DEF Sending, Agrees, IsData
  <1>5. \A p \in Packages : Agrees(p, layout[p], 0) => Agrees(p, layout[p], 0)'
    BY <1>1, <1>2, <1>3 DEF Agrees, IsData
  <1>6. \A p \in Packages : Quiet(p) => Quiet(p)'
    BY <1>1, <1>2, <1>3 DEF Quiet, Stopped, IsData
  <1>7. \A i \in 1 .. Len(down') : i \in Nat /\
          (Confirms(i)' => i \in 1 .. Len(down) /\ Confirms(i))
    BY <1>1, <1>2, <1>3 DEF Confirms
  <1>8. \A p \in Packages : occupied'[p] =>
          IF Clearing(p)' THEN Quiet(p)' ELSE Agrees(p, layout[p], 0)'
    BY <1>1, <1>5, <1>6 DEF Before, StartedAgrees, Clearing
  <1> QED
    BY <1>1, <1>4, <1>7, <1>8 DEF Before, StartedAgrees

LEMMA AgreesHandleRequest ==
  ASSUME Before, HandleRequest
  PROVE  StartedAgrees'
  <1> DEFINE req == up[1]
  <1>1. PICK ok \in BOOLEAN :
           /\ Len(up) > 0 /\ up' = Tail(up)
           /\ req.pkg \in Packages /\ req.call \in Nat
           /\ Ack(req, ok) \in Frame /\ down' = Append(down, Ack(req, ok))
           /\ ~ok => fc' = fc
           /\ ok => \/ /\ req.op = "add" /\ fc[req.pkg] = None
                       /\ fc' = [fc EXCEPT ![req.pkg] = req.wants]
                    \/ /\ req.op = "remove" /\ fc[req.pkg] # None
                       /\ fc' = [fc EXCEPT ![req.pkg] = None]
                    \/ /\ req.op = "reset"
                       /\ fc' = [p \in Packages |-> None]
           /\ UNCHANGED <<package, memory, topics, threads, call, pending>>
    BY Handled DEF Before
  <1> DEFINE f == Ack(req, ok)
  <1>2. f.kind = "ack" /\ f.call = req.call /\ f.ok = ok
    BY DEF Ack
  <1>3. f \in Frame /\ down' = Append(down, f)
    BY <1>1
  <1> HIDE DEF f
  <1>4. /\ Len(down) \in Nat /\ Len(down') = Len(down) + 1
        /\ \A i \in 1 .. Len(down) : down'[i] = down[i]
        /\ down'[Len(down) + 1] = f
        /\ \A i \in 1 .. Len(down') :
             i \in 1 .. Len(down) \/ i = Len(down) + 1
    BY <1>3, SentDown DEF Before
  <1>5. /\ 1 \in 1 .. Len(up) /\ Len(up) \in Nat
        /\ \A i \in 1 .. Len(up') :
             i + 1 \in 1 .. Len(up) /\ up'[i] = up[i + 1]
    BY <1>1, TakenUp DEF Before
  <1>6. UNCHANGED <<app, link, call, occupied, layout>>
    BY <1>1 DEF threads, package
  <1>7. /\ app.pkg \in Packages /\ call \in Nat /\ app.wants # None
    BY AppFacts, SubscriptionAssumption DEF Before
  <1>8. ASSUME NEW p \in Packages, NEW lay, NEW n \in Nat, Agrees(p, lay, n)
        PROVE  /\ fc'[p] \in {None, lay}
               /\ \A i \in 1 .. Len(down') :
                    i > n /\ IsData(i, p)' => down'[i].data = lay
               /\ \A i \in 1 .. Len(up') :
                    up'[i].op = "add" /\ up'[i].pkg = p => up'[i].wants = lay
    <2>1. fc'[p] \in {None, lay}
      BY <1>1, <1>5, <1>8 DEF Agrees, Before, TypeOK
    <2>2. \A i \in 1 .. Len(down') :
            i > n /\ IsData(i, p)' => down'[i].data = lay
      BY <1>2, <1>4, <1>8 DEF Agrees, IsData
    <2> QED
      BY <1>5, <1>8, <2>1, <2>2 DEF Agrees
  \* Its own request, sent again, is refused once the package is sent.
  <1>9. ASSUME NEW n \in Nat, app.op = "add", req.op = "add",
               req.pkg = app.pkg, Sending(n)
        PROVE  Sending(n)'
    <2>1. fc' = fc
      BY <1>1, <1>7, <1>9 DEF Sending
    <2> QED
      <3>1. Agrees(app.pkg, app.wants, n) /\ fc[app.pkg] = app.wants
        BY <1>9 DEF Sending
      <3>2. Agrees(app.pkg, app.wants, n)'
        <4>1. PICK own \in Packages : own = app.pkg
          BY <1>7
        <4>2. PICK lay : lay = app.wants
          OBVIOUS
        <4>3. Agrees(own, lay, n)
          BY <3>1, <4>1, <4>2
        <4>4. /\ fc'[own] \in {None, lay}
              /\ \A i \in 1 .. Len(down') :
                   i > n /\ IsData(i, own)' => down'[i].data = lay
              /\ \A i \in 1 .. Len(up') :
                   up'[i].op = "add" /\ up'[i].pkg = own => up'[i].wants = lay
          BY <1>8, <4>3
        <4> QED
          BY <1>6, <4>1, <4>2, <4>4 DEF Agrees, IsData
      <3> QED
        BY <1>6, <2>1, <3>1, <3>2 DEF Sending
  <1>10. ASSUME app.at = "wait", app.op = "add",
                NEW i \in 1 .. Len(down'), Confirms(i)'
         PROVE  Sending(i)'
    <2>1. CASE i \in 1 .. Len(down)
      <3>1. Confirms(i)
        BY <1>4, <1>6, <1>10, <2>1 DEF Confirms
      <3>2. req.call = call
        BY <1>1, <1>5, <1>7, <2>1, <3>1
           DEF Before, LinkInv, InOrder, Confirms
      <3>3. req.op = "add" /\ req.pkg = app.pkg
        BY <1>5, <1>10, <3>2 DEF Before, LinkInv, OwnRequests
      <3>4. Sending(i)
        BY <1>10, <2>1, <3>1 DEF Before, StartedAgrees
      <3> QED
        BY <1>9, <1>10, <2>1, <3>3, <3>4
    <2>2. CASE i = Len(down) + 1
      <3>1. req.call = call /\ ok
        BY <1>2, <1>4, <1>6, <1>10, <2>2 DEF Confirms
      <3>2. /\ req.op = "add" /\ req.pkg = app.pkg /\ req.wants = app.wants
        BY <1>5, <1>10, <3>1 DEF Before, LinkInv, OwnRequests
      <3>3. fc'[app.pkg] = app.wants
        BY <1>1, <1>7, <3>1, <3>2 DEF Before, TypeOK
      <3>4. ASSUME NEW j \in 1 .. Len(up)
            PROVE  up[j].call = call
        <4>1. up[j].call <= call /\ req.call <= up[j].call /\ up[j].call \in Nat
          BY <1>5, UpFacts DEF Before, LinkInv, InOrder
        <4> QED
          BY <1>7, <3>1, <4>1
      <3>5. \A j \in 1 .. Len(up') : up'[j].wants = app.wants
        BY <1>5, <1>10, <3>4 DEF Before, LinkInv, OwnRequests
      <3> QED
        BY <1>4, <1>6, <2>2, <3>3, <3>5 DEF Sending, Agrees
    <2> QED
      BY <1>4, <2>1, <2>2
  <1>11. ASSUME app.at = "acked", app.op = "add"
         PROVE  Sending(0)'
    <2>1. req.op = "add" /\ req.pkg = app.pkg
      BY <1>5, <1>11 DEF Before, LinkInv, OwnRequests, NoOlderRequests
    <2> QED
      BY <1>9, <1>11, <2>1 DEF Before, StartedAgrees
  <1>12. ASSUME NEW p \in Packages, occupied[p]
         PROVE  IF Clearing(p)' THEN Quiet(p)' ELSE Agrees(p, layout[p], 0)'
    <2>1. CASE Clearing(p)
      <3>1. app.op = "remove"
        BY <2>1 DEF Clearing, Before, MemoryInv, CallShape
      <3>2. RemovedIsQuiet'
        BY LinkHandleRequest DEF Before, LinkInv
      <3> QED
        BY <1>6, <2>1, <3>1, <3>2 DEF RemovedIsQuiet, Clearing
    <2>2. CASE ~Clearing(p)
      <3>1. Agrees(p, layout[p], 0)
        BY <1>12, <2>2 DEF Before, StartedAgrees
      <3>2. /\ fc'[p] \in {None, layout[p]}
            /\ \A i \in 1 .. Len(down') :
                 i > 0 /\ IsData(i, p)' => down'[i].data = layout[p]
            /\ \A i \in 1 .. Len(up') :
                 up'[i].op = "add" /\ up'[i].pkg = p => up'[i].wants = layout[p]
        BY <1>8, <3>1
      <3> QED
        BY <1>6, <2>2, <3>2 DEF Agrees, Clearing, IsData
    <2> QED
      BY <2>1, <2>2
  <1> QED
    BY <1>6, <1>10, <1>11, <1>12 DEF Before, StartedAgrees

-----------------------------------------------------------------------------
(* The topic table.                                                        *)

LEMMA PointersInit ==
  ASSUME Init \/ UncleanQuit
  PROVE  /\ Init => PointersOwned
         /\ UncleanQuit => PointersOwned'
  BY DEF Init, UncleanQuit, PointersOwned, NoCallAt, Actors

\* A step outside the handlers that leaves the occupied packages as they are.
LEMMA PointersKept ==
  ASSUME PointersOwned, UNCHANGED <<topicDB, visited>>,
         \/ app' = app
         \/ app.at # "acked" /\ app'.at # "clean",
         \A p \in Packages :
           occupied[p] \/ InHandler("app", "add", p) =>
             /\ occupied'[p] = occupied[p] /\ layout'[p] = layout[p]
             /\ buffer'[p] = buffer[p]
  PROVE  PointersOwned'
  <1>1. CASE app' = app
    BY <1>1 DEF PointersOwned, InHandler, Clearing
  <1>2. CASE app.at # "acked" /\ app'.at # "clean"
    BY <1>2 DEF PointersOwned, InHandler, Clearing
  <1> QED
    BY <1>1, <1>2

LEMMA PointersFill ==
  ASSUME TypeOK, MemoryInv, PointersOwned,
         \/ \E p \in Packages, lay \in Selections : InitPackage(p, lay)
         \/ SetTopicList \/ FillPackage
  PROVE  PointersOwned'
  <1>1. ASSUME NEW p \in Packages, NEW lay \in Selections,
               InitPackage(p, lay)
        PROVE  PointersOwned'
    <2>1. /\ UNCHANGED <<topicDB, visited, occupied, layout, buffer>>
          /\ app.at = "idle" /\ app'.at = "init"
      BY <1>1 DEF InitPackage, topics, table
    <2> QED
      BY <2>1, PointersKept
  <1>2. CASE SetTopicList
    <2>1. /\ UNCHANGED <<topicDB, visited, occupied, layout, buffer>>
          /\ app.at = "init" /\ app'.at \in {"idle", "fill"}
      BY <1>2, SetTopicListFacts DEF topics, table, package
    <2> QED
      BY <2>1, PointersKept
  <1>3. CASE FillPackage
    <2>1. /\ UNCHANGED <<topicDB, visited, occupied, buffer>>
          /\ app.at = "fill" /\ app'.at = "idle"
          /\ \A q \in Packages : occupied[q] => layout'[q] = layout[q]
      BY <1>3, FillFacts
    <2> QED
      BY <2>1, PointersKept DEF InHandler
  <1> QED
    BY <1>1, <1>2, <1>3

LEMMA PointersCall ==
  ASSUME TypeOK, MemoryInv, PointersOwned,
         \/ \E p \in Packages :
              StartPackage(p, TRUE) \/ RemovePackage(p, TRUE)
         \/ Reset(TRUE) \/ \E all \in BOOLEAN : BeginSweep(all)
         \/ AllocateDataBuffer \/ SweepRemove \/ SweepSkip
         \/ Resend \/ SyncTimeout
  PROVE  PointersOwned'
  <1>2. CASE AllocateDataBuffer
    <2>1. /\ UNCHANGED <<topicDB, visited, occupied, layout>>
          /\ ~occupied[app.pkg] /\ app.sync = TRUE /\ app.at = "alloc"
      BY <1>2
         DEF AllocateDataBuffer, topics, table, MemoryInv, CallShape,
             OnlyBlocking
    <2>2. /\ \A q \in Packages : q # app.pkg => buffer'[q] = buffer[q]
          /\ app'.at = "wait"
      BY <1>2, <2>1 DEF AllocateDataBuffer, Transmit, TypeOK
    <2> QED
      BY <2>1, <2>2, PointersKept DEF InHandler
  <1>3. CASE \/ \E p \in Packages :
                  StartPackage(p, TRUE) \/ RemovePackage(p, TRUE)
             \/ Reset(TRUE) \/ \E all \in BOOLEAN : BeginSweep(all)
             \/ SweepRemove \/ SweepSkip \/ Resend \/ SyncTimeout
    <2>1. UNCHANGED <<topicDB, visited, occupied, layout, buffer>>
      BY <1>3 DEF StartPackage, RemovePackage, Reset, BeginSweep, SweepRemove,
                  SweepSkip, Resend, SyncTimeout, package, topics, table
    <2>2. app.at # "acked" /\ app'.at # "clean"
      <3>1. CASE \E p \in Packages :
                   StartPackage(p, TRUE) \/ RemovePackage(p, TRUE)
        BY <3>1 DEF StartPackage, RemovePackage, Transmit
      <3>2. CASE Reset(TRUE) \/ SweepRemove
        BY <3>2 DEF Reset, SweepRemove, Transmit
      <3>3. CASE (\E all \in BOOLEAN : BeginSweep(all)) \/ SweepSkip
        BY <3>3 DEF BeginSweep, SweepSkip, NoCallAt
      <3>4. CASE Resend
        BY <3>4 DEF Resend, TypeOK, AppState
      <3>5. CASE SyncTimeout
        BY <3>5, ReturnFacts DEF SyncTimeout
      <3> QED
        BY <1>3, <3>1, <3>2, <3>3, <3>4, <3>5
    <2> QED
      BY <2>1, <2>2, PointersKept
  <1> QED
    BY <1>2, <1>3

\* A pass of the loop of packageAddSuccessHandler.
LEMMA PointersClaim ==
  ASSUME TypeOK, MemoryInv, PointersOwned, ClaimTopic("app", app.pkg)
  PROVE  PointersOwned'
  <1> DEFINE p == app.pkg
  <1>1. /\ p \in Packages /\ buffer[p] # None /\ layout[p] # Uninit
        /\ app.at = "acked" /\ app.op = "add"
    BY AppFacts DEF ClaimTopic, InHandler, MemoryInv, CallShape
  <1>2. /\ UNCHANGED <<app, occupied, layout, buffer>>
        /\ ForNextTopic("app", p, buffer[p])
    BY <1>1 DEF ClaimTopic, ForNextTopic, DataPointer, package, threads
  <1>3. PICK t \in layout[p].topics :
          topicDB' = [x \in Topics |-> IF x = t THEN buffer[p] ELSE topicDB[x]]
    BY <1>1, <1>2 DEF ForNextTopic, Listed
  <1>4. ASSUME NEW x \in Topics, topicDB'[x] # None
        PROVE  \E q \in Packages :
                 /\ topicDB'[x] = buffer[q] /\ x \in layout[q].topics
                 /\ occupied[q] \/ InHandler("app", "add", q)
                 /\ ~Clearing(q)
    <2>1. CASE x = t
      BY <1>1, <1>3, <2>1 DEF InHandler, Clearing
    <2>2. CASE x # t
      BY <1>3, <1>4, <2>2 DEF PointersOwned
    <2> QED
      BY <2>1, <2>2
  <1> QED
    BY <1>1, <1>2, <1>4 DEF PointersOwned, InHandler, Clearing

\* A pass of the loop of packageRemoveSuccessHandler.
LEMMA PointersRelease ==
  ASSUME TypeOK, PointersOwned, ReleaseTopic("app", app.pkg)
  PROVE  PointersOwned'
  <1>1. /\ UNCHANGED <<app, occupied, layout, buffer>> /\ app.at = "acked"
    BY DEF ReleaseTopic, InHandler, ForNextTopic, package, threads
  <1>2. PICK t :
          /\ topicDB' = [x \in Topics |-> IF x = t THEN None ELSE topicDB[x]]
          /\ visited' = [visited EXCEPT !["app"] = @ \cup {t}]
    BY DEF ReleaseTopic, ForNextTopic
  <1>3. visited'["app"] = visited["app"] \cup {t}
    BY <1>2 DEF TypeOK, Actors
  <1>4. \A x \in Topics : topicDB'[x] = None \/ topicDB'[x] = topicDB[x]
    BY <1>2
  <1>5. \A x \in Topics : x = t => topicDB'[x] = None
    BY <1>2
  <1> QED
    BY <1>1, <1>3, <1>4, <1>5 DEF PointersOwned, InHandler, Clearing

LEMMA PointersStartConfirmed ==
  ASSUME TypeOK, MemoryInv, PointersOwned, StartConfirmed
  PROVE  PointersOwned'
  <1> DEFINE p == app.pkg
  <1>1. /\ p \in Packages /\ visited'["app"] = {}
        /\ occupied' = [occupied EXCEPT ![p] = TRUE]
        /\ UNCHANGED <<layout, buffer, topicDB>> /\ app' = Return
    BY StartConfirmedFacts DEF TypeOK, Actors
  <1>2. \A q \in Packages :
          /\ ~Clearing(q)'
          /\ occupied[q] \/ InHandler("app", "add", q) => occupied'[q]
    BY <1>1, ReturnFacts DEF Clearing, InHandler, TypeOK
  <1> QED
    BY <1>1, <1>2, ReturnFacts DEF PointersOwned

\* The loop of a removal is over, so no pointer to the buffer is left.
LEMMA PointersRemove ==
  ASSUME TypeOK, MemoryInv, PointersOwned, RemoveConfirmed \/ RemoveDone
  PROVE  PointersOwned'
  <1> DEFINE p == app.pkg
  <1>1. p \in Packages
    BY AppFacts
  <1>2. CASE RemoveConfirmed
    <2>1. /\ app.at = "acked" /\ app.op = "remove" /\ LoopOver("app", p)
          /\ layout' = [layout EXCEPT ![p] = Cleared]
          /\ UNCHANGED <<occupied, buffer, topicDB>>
          /\ app' = [app EXCEPT !.at = "clean"] /\ visited'["app"] = {}
      BY <1>2, RemoveConfirmedFacts DEF TypeOK, Actors
    <2>2. \A q \in Packages : q # p => layout'[q] = layout[q] /\ ~Clearing(q)'
      BY <2>1 DEF TypeOK, AppState, Clearing
    <2>3. ASSUME NEW t \in Topics, topicDB[t] # None
          PROVE  \E q \in Packages :
                   /\ q # p /\ occupied[q]
                   /\ topicDB[t] = buffer[q] /\ t \in layout[q].topics
      <3>1. PICK q \in Packages :
              /\ topicDB[t] = buffer[q] /\ t \in layout[q].topics
              /\ occupied[q] \/ InHandler("app", "add", q)
        BY <2>3 DEF PointersOwned
      <3>2. occupied[q]
        BY <2>1, <3>1 DEF InHandler
      <3>3. q # p
        <4>1. layout[q] # Uninit
          BY <2>3, <3>1 DEF MemoryInv, BuffersFit
        <4>2. t \notin visited["app"]
          BY <2>1, <2>3 DEF PointersOwned
        <4> QED
          BY <2>1, <3>1, <4>1, <4>2 DEF LoopOver
      <3> QED
        BY <3>1, <3>2, <3>3
    <2>4. app'.at = "clean"
      BY <2>1 DEF TypeOK, AppState
    <2> QED
      BY <2>1, <2>2, <2>3, <2>4 DEF PointersOwned
  <1>3. CASE RemoveDone
    <2>1. /\ buffer' = [buffer EXCEPT ![p] = None]
          /\ occupied' = [occupied EXCEPT ![p] = FALSE]
          /\ UNCHANGED <<layout, topicDB, visited>> /\ app' = Return
          /\ app.at = "clean"
      BY <1>3 DEF RemoveDone, ClearDataBuffer, topics, table
    <2>2. \A q \in Packages : q # p => /\ buffer'[q] = buffer[q]
                                       /\ occupied'[q] = occupied[q]
      BY <2>1 DEF TypeOK
    <2> QED
      BY <2>1, <2>2, ReturnFacts DEF PointersOwned, Clearing, InHandler
  <1> QED
    BY <1>2, <1>3

LEMMA PointersOther ==
  ASSUME TypeOK, PointersOwned,
         \/ DecodeCallback \/ CopyDone \/ SyncAck \/ StaleAck
         \/ HandleRequest \/ LoseRequest \/ LoseFrame
         \/ \E p \in Packages : SendTelemetry(p)
         \/ UNCHANGED vars
  PROVE  PointersOwned'
  <1>1. UNCHANGED <<topicDB, visited, occupied, layout, buffer>>
    <2>1. CASE DecodeCallback \/ CopyDone \/ SyncAck \/ StaleAck
      BY <2>1 DEF DecodeCallback, CopyDone, SyncAck, StaleAck, package, topics,
                  table
    <2>2. CASE \/ HandleRequest \/ LoseRequest \/ LoseFrame
               \/ \E p \in Packages : SendTelemetry(p)
      BY <2>2 DEF HandleRequest, LoseRequest, LoseFrame, SendTelemetry,
                  package, topics, table
    <2>3. CASE UNCHANGED vars
      BY <2>3 DEF vars, package, topics, table
    <2> QED
      BY <2>1, <2>2, <2>3
  <1>2. app' = app \/ (app.at # "acked" /\ app'.at # "clean")
    <2>1. CASE SyncAck
      <3>1. CASE app' = Return
        BY <2>1, <3>1, ReturnFacts DEF SyncAck, Answers
      <3>2. CASE app' # Return
        BY <2>1, <3>2 DEF SyncAck, Answers, TypeOK, AppState
      <3> QED
        BY <3>1, <3>2
    <2>2. CASE ~SyncAck
      BY <2>2 DEF DecodeCallback, CopyDone, StaleAck, HandleRequest,
                  LoseRequest, LoseFrame, SendTelemetry, threads, vars
    <2> QED
      BY <2>1, <2>2
  <1> QED
    BY <1>1, <1>2, PointersKept

-----------------------------------------------------------------------------
(* The steps together.                                                     *)

\* The actions an application of this kind and its surroundings can take:
\* with no asynchronous request its callbacks do not run.
LEMMA SampleSteps ==
  ASSUME OnlyBlocking, SampleNext
  PROVE  \/ \E p \in Packages, lay \in Selections :
              buffer[p] = None /\ InitPackage(p, lay)
         \/ SetTopicList \/ FillPackage
         \/ \E p \in Packages : inited = p /\ StartPackage(p, TRUE)
         \/ \E p \in Packages : RemovePackage(p, TRUE)
         \/ Reset(TRUE)
         \/ \E all \in BOOLEAN : BeginSweep(all)
         \/ AllocateDataBuffer \/ SweepRemove \/ SweepSkip
         \/ Resend \/ SyncTimeout
         \/ HandlerLoop("app", app.pkg)
         \/ StartConfirmed \/ RemoveConfirmed \/ RemoveDone
         \/ DecodeCallback \/ CopyDone \/ SyncAck \/ StaleAck
         \/ HandleRequest \/ LoseRequest \/ LoseFrame \/ UncleanQuit
         \/ \E p \in Packages : SendTelemetry(p)
  <1>1. /\ ~HandlerLoop("link", link.pkg)
        /\ ~AddCallback /\ ~RemoveCallback /\ ~CallbackDone
    BY DEF OnlyBlocking, HandlerLoop, ClaimTopic, ReleaseTopic, AddCallback,
           RemoveCallback, SetOccupied, CleanUpPackage, InHandler,
           CallbackDone
  <1> QED
    BY <1>1 DEF OnlyBlocking, SampleNext, Startup, SampleCall, AppStep,
                LinkStep, Environment

LEMMA MemoryNext ==
  ASSUME TypeOK, MemoryInv, LinkInv, StartedAgrees, [SampleNext]_vars
  PROVE  MemoryInv'
  <1>1. OnlyBlocking
    BY DEF MemoryInv
  <1>2. ASSUME NEW p \in Packages, inited = p /\ StartPackage(p, TRUE)
        PROVE  MemoryInv'
    BY <1>2, MemoryStartPackage
  <1>3. ASSUME NEW p \in Packages, NEW lay \in Selections,
               buffer[p] = None /\ InitPackage(p, lay)
        PROVE  MemoryInv'
    BY <1>3, MemoryInitPackage
  <1>4. ASSUME NEW p \in Packages, RemovePackage(p, TRUE)
        PROVE  MemoryInv'
    BY <1>4, MemoryTransmit DEF RemovePackage
  <1>5. CASE Reset(TRUE)
    BY <1>5, MemoryTransmit, PackageZero DEF Reset
  <1>6. CASE \/ \E all \in BOOLEAN : BeginSweep(all)
             \/ SweepRemove \/ SweepSkip
    BY <1>6, MemorySweep
  <1>7. CASE AllocateDataBuffer \/ Resend \/ SyncTimeout \/ StartConfirmed
    BY <1>7, MemoryAllocate, MemoryWait, MemoryStartConfirmed
  <1>8. CASE RemoveConfirmed
    <2>1. ~(link.at = "copy" /\ link.pkg = app.pkg)
      BY <1>8, RemoveConfirmedFacts DEF LinkInv, RemovedIsQuiet, Quiet
    <2> QED
      BY <1>8, <2>1, MemoryRemoveConfirmed
  <1>9. CASE DecodeCallback
    <2>1. 1 \in 1 .. Len(down) /\ Head(down) = down[1] /\ Head(down).kind = "data"
      BY <1>9, Shifted DEF DecodeCallback
    <2>2. ~Clearing(Head(down).pkg)
      BY <2>1
         DEF Clearing, MemoryInv, CallShape, LinkInv, RemovedIsQuiet, Quiet,
             Stopped, IsData
    <2> QED
      BY <1>9, <2>2, MemoryDecode
  <1>10. CASE RemoveDone \/ SyncAck \/ UncleanQuit
    BY <1>10, MemoryRemoveDone, MemorySyncAck, MemoryQuit
  <1>11. CASE \/ CopyDone \/ StaleAck \/ HandleRequest \/ LoseRequest
              \/ LoseFrame \/ \E p \in Packages : SendTelemetry(p)
              \/ HandlerLoop("app", app.pkg) \/ UNCHANGED vars
    BY <1>11, MemoryOther
  <1>12. CASE SetTopicList \/ FillPackage
    BY <1>12, MemorySetTopicList, MemoryFillPackage
  <1> QED
    BY <1>1, <1>2, <1>3, <1>4, <1>5, <1>6, <1>7, <1>8, <1>9, <1>10, <1>11,
       <1>12, SampleSteps

LEMMA LinkNext ==
  ASSUME TypeOK, MemoryInv, LinkInv, [SampleNext]_vars
  PROVE  LinkInv'
  <1>1. OnlyBlocking
    BY DEF MemoryInv
  <1>2. ASSUME NEW p \in Packages, StartPackage(p, TRUE)
        PROVE  LinkInv'
    BY <1>2, LinkAtEase DEF StartPackage, wire
  <1>3. ASSUME NEW p \in Packages, NEW lay \in Selections,
               InitPackage(p, lay)
        PROVE  LinkInv'
    BY <1>3, LinkAtEase DEF InitPackage, wire
  <1>15. CASE SetTopicList \/ FillPackage
    BY <1>15, LinkAtEase, SetTopicListFacts, FillFacts DEF wire
  <1>4. ASSUME NEW p \in Packages, RemovePackage(p, TRUE)
        PROVE  LinkInv'
    BY <1>4, LinkTransmit, ClearedIsLayout DEF RemovePackage
  <1>5. CASE Reset(TRUE)
    BY <1>5, LinkTransmit, PackageZero, ClearedIsLayout DEF Reset
  <1>6. ASSUME NEW all \in BOOLEAN, BeginSweep(all)
        PROVE  LinkInv'
    BY <1>6, LinkAtEase DEF BeginSweep, NoCallAt, wire
  <1>7. CASE AllocateDataBuffer
    <2>1. Transmit("add", app.pkg, app.wants, TRUE)
      BY <1>7 DEF AllocateDataBuffer, MemoryInv, OnlyBlocking
    <2> QED
      BY <2>1, AppFacts, LinkTransmit
  <1>8. CASE SweepRemove
    <2>1. loop.next \in Packages
      BY <1>8, AppFacts, SubscriptionAssumption DEF SweepRemove, Packages
    <2> QED
      BY <1>8, <2>1, LinkTransmit, ClearedIsLayout DEF SweepRemove
  <1>9. CASE SweepSkip
    <2>1. app' = app \/ app' = NoCallAt("idle")
      BY <1>9 DEF SweepSkip
    <2>2. app'.at \in {"sweep", "idle"} /\ UNCHANGED <<up, down, call>>
      BY <1>9, <2>1 DEF SweepSkip, NoCallAt, wire
    <2> QED
      BY <2>2, LinkAtEase
  <1>10. CASE SyncTimeout \/ StartConfirmed \/ RemoveDone
    <2>1. app' = Return /\ UNCHANGED <<up, down, call>>
      BY <1>10, StartConfirmedFacts DEF SyncTimeout, RemoveDone, wire
    <2> QED
      BY <2>1, LinkAtEase, ReturnFacts
  <1>11. CASE RemoveConfirmed
    <2>1. /\ app.at = "acked" /\ app' = [app EXCEPT !.at = "clean"]
          /\ UNCHANGED <<wire, call, link>>
      BY <1>11, RemoveConfirmedFacts
    <2>2. /\ app'.op = app.op /\ app'.pkg = app.pkg /\ app'.wants = app.wants
          /\ app'.at = "clean"
      BY <2>1 DEF TypeOK, AppState
    <2> QED
      BY <2>1, <2>2, LinkSameCall
  <1>12. CASE DecodeCallback \/ StaleAck
    <2>1. /\ Receive /\ UNCHANGED <<app, call>>
          /\ \/ link' = link
             \/ Head(down).kind = "data" /\ link'.pkg = Head(down).pkg
      BY <1>12 DEF DecodeCallback, StaleAck, threads
    <2> QED
      BY <2>1, LinkReceive
  <1>13. CASE \/ Resend \/ SyncAck \/ UncleanQuit \/ CopyDone
              \/ HandlerLoop("app", app.pkg) \/ UNCHANGED vars
    BY <1>13, LinkResend, LinkSyncAck, LinkQuit, LinkOther
  <1>14. CASE \/ HandleRequest \/ LoseRequest \/ LoseFrame
              \/ \E p \in Packages : SendTelemetry(p)
    BY <1>14, LinkHandleRequest, LinkLoseRequest, LinkLoseFrame,
       LinkSendTelemetry
  <1> QED
    BY <1>1, <1>2, <1>3, <1>4, <1>5, <1>6, <1>7, <1>8, <1>9, <1>10, <1>11,
       <1>12, <1>13, <1>14, <1>15, SampleSteps

LEMMA AgreesNext ==
  ASSUME TypeOK, MemoryInv, LinkInv, StartedAgrees, [SampleNext]_vars
  PROVE  StartedAgrees'
  <1>1. Before /\ OnlyBlocking
    BY DEF Before, MemoryInv
  <1>2. CASE \/ \E p \in Packages, lay \in Selections : InitPackage(p, lay)
             \/ SetTopicList \/ FillPackage
             \/ \E p \in Packages : StartPackage(p, TRUE)
             \/ SweepSkip \/ SyncTimeout
             \/ \E all \in BOOLEAN : BeginSweep(all)
    BY <1>1, <1>2, AgreesCall
  <1>3. CASE \/ AllocateDataBuffer \/ SweepRemove
             \/ \E p \in Packages : RemovePackage(p, TRUE)
             \/ Reset(TRUE)
    BY <1>1, <1>3, AgreesRequests
  <1>4. CASE Resend \/ StartConfirmed \/ RemoveConfirmed \/ RemoveDone
    BY <1>1, <1>4, AgreesResend, AgreesStartConfirmed, AgreesRemove
  <1>5. CASE DecodeCallback \/ StaleAck \/ LoseFrame \/ SyncAck
    BY <1>1, <1>5, AgreesTaken, AgreesSyncAck
  <1>6. CASE \/ CopyDone \/ LoseRequest \/ HandleRequest \/ UncleanQuit
             \/ \E p \in Packages : SendTelemetry(p)
             \/ HandlerLoop("app", app.pkg) \/ UNCHANGED vars
    BY <1>1, <1>6, AgreesOther, AgreesHandleRequest, AgreesQuit,
       AgreesSendTelemetry
  <1> QED
    BY <1>1, <1>2, <1>3, <1>4, <1>5, <1>6, SampleSteps

LEMMA PointersNext ==
  ASSUME TypeOK, MemoryInv, PointersOwned, [SampleNext]_vars
  PROVE  PointersOwned'
  <1>1. OnlyBlocking
    BY DEF MemoryInv
  <1>5. CASE \/ \E p \in Packages, lay \in Selections : InitPackage(p, lay)
             \/ SetTopicList \/ FillPackage
    BY <1>5, PointersFill
  <1>6. CASE HandlerLoop("app", app.pkg)
    BY <1>6, PointersClaim, PointersRelease DEF HandlerLoop
  <1>2. CASE \/ \E p \in Packages :
                  StartPackage(p, TRUE) \/ RemovePackage(p, TRUE)
             \/ Reset(TRUE) \/ \E all \in BOOLEAN : BeginSweep(all)
             \/ AllocateDataBuffer \/ SweepRemove \/ SweepSkip
             \/ Resend \/ SyncTimeout
    BY <1>2, PointersCall
  <1>3. CASE StartConfirmed \/ RemoveConfirmed \/ RemoveDone \/ UncleanQuit
    BY <1>3, PointersStartConfirmed, PointersRemove, PointersInit
  <1>4. CASE \/ DecodeCallback \/ CopyDone \/ SyncAck \/ StaleAck
             \/ HandleRequest \/ LoseRequest \/ LoseFrame
             \/ \E p \in Packages : SendTelemetry(p)
             \/ UNCHANGED vars
    BY <1>4, PointersOther
  <1> QED
    BY <1>1, <1>2, <1>3, <1>4, <1>5, <1>6, SampleSteps

LEMMA SampleIsNext ==
  ASSUME [SampleNext]_vars
  PROVE  [Next]_vars
  BY DEF SampleNext, Next, SampleCall, AnyCall, OtherCall

LEMMA SampleInit ==
  ASSUME Init
  PROVE  SampleInv
  <1>1. LinkInv
    <2>1. up = <<>> /\ down = <<>> /\ app.at = "detect"
      BY DEF Init, NoCallAt
    <2>2. Len(<<>>) = 0 /\ 1 .. 0 = {}
      OBVIOUS
    <2> QED
      BY <2>1, <2>2 DEF LinkInv, InOrder, OwnRequests, NoOlderRequests,
                        RemovedIsQuiet
  <1> QED
    BY <1>1, InitTypeOK, MemoryInit, AgreesInit, PointersInit
       DEF SampleInv, MemoryInv, LinkInv

\* The invariant the four properties rest on: where the blocking calls, the
\* buffers, the copy in progress, the frames in flight and the topic table
\* stand, for every number of packages, topics, buffers, calls and frames.
THEOREM SampleInvariant == SampleSpec => []SampleInv
  <1>1. SampleInv /\ [SampleNext]_vars => SampleInv'
    BY SampleIsNext, NextType, MemoryNext, LinkNext, AgreesNext, PointersNext
       DEF SampleInv, MemoryInv, LinkInv
  <1> QED
    BY SampleInit, <1>1, PTL DEF SampleSpec

\* The copy of extractOnePackage goes into allocated memory and ends within
\* it, while the application thread removes and starts packages.
THEOREM NoIllegalCopyTheorem == SampleSpec => []NoIllegalCopy
  <1>1. SampleInv => NoIllegalCopy
    <2>1. ASSUME SampleInv, link.at = "copy"
          PROVE  link.buf \in live /\ link.size <= room[link.buf]
      <3>1. link.pkg \in Packages
        BY <2>1 DEF SampleInv, TypeOK, LinkState
      <3>2. /\ link.buf # None /\ link.buf = buffer[link.pkg]
            /\ link.size = DataSize[layout[link.pkg]] /\ ~Clearing(link.pkg)
        BY <2>1 DEF SampleInv, CopyInPlace
      <3>3. link.buf \in live /\ room[link.buf] = link.size
        BY <2>1, <3>1, <3>2 DEF SampleInv, BuffersFit
      <3> QED
        BY <2>1, <3>3 DEF SampleInv, TypeOK
    <2> QED
      BY <2>1 DEF NoIllegalCopy
  <1> QED
    BY SampleInvariant, <1>1, PTL

\* A pointer that getValue follows leads into the allocated buffer of a
\* package that has the topic and is occupied or about to be, at every pass of
\* the loops that write and clear the pointers.
THEOREM TopicsPointIntoBuffersTheorem == SampleSpec => []TopicsPointIntoBuffers
  <1>1. SampleInv => TopicsPointIntoBuffers
    BY DEF SampleInv, PointersOwned, BuffersFit, TopicsPointIntoBuffers
  <1> QED
    BY SampleInvariant, <1>1, PTL

\* What is copied to an occupied package was sent in the layout by which
\* getValue reads it, whatever was lost, repeated or left from earlier runs.
THEOREM DataMatchesLayoutTheorem == SampleSpec => []DataMatchesLayout
  <1>1. SampleInv => DataMatchesLayout
    BY DEF SampleInv, StartedAgrees, DataMatchesLayout
  <1> QED
    BY SampleInvariant, <1>1, PTL

\* A startPackage that is told it succeeded left the flight controller sending
\* the package in the layout that was set up.
THEOREM StartedIsSendingTheorem == SampleSpec => []StartedIsSending
  <1>1. SampleInv => StartedIsSending
    BY DEF SampleInv, StartedAgrees, Sending, CallShape, StartedIsSending
  <1> QED
    BY SampleInvariant, <1>1, PTL

=============================================================================
