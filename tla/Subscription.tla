---------------------------- MODULE Subscription ----------------------------
(***************************************************************************)
(* Telemetry subscription: class DataSubscription and its packages         *)
(* (osdk-core/api/src/dji_subscription.cpp).                               *)
(*                                                                         *)
(* Two threads of the program share the packages and the topic table: the  *)
(* application thread, which calls the API, and the receive thread of the  *)
(* linker, which decodes telemetry and runs the callbacks of asynchronous  *)
(* requests.  The flight controller is at the far end of a serial link     *)
(* that loses frames but does not reorder them.                            *)
(***************************************************************************)
EXTENDS Naturals, Sequences

CONSTANTS
  NumPackages,  (* MAX_NUMBER_OF_PACKAGE                                    *)
  Topics,       (* the topics of Telemetry::TopicDataBase                   *)
  Buffers,      (* the addresses new uint8_t[] can return                   *)
  DataSize,     (* bytes of a package with a given layout                   *)
  SizeLimit,    (* ADD_PACKAGE_DATA_LENGTH                                  *)
  Selections,   (* the layouts the application asks for                     *)
  Sends,        (* transmissions of a blocking request (retry_time)         *)
  Passes,       (* passes of removeLeftOverPackages                         *)
  None,         (* NULL                                                     *)
  Wild,         (* an address outside every object of the program           *)
  Uninit,       (* a PackageInfo that no code has written yet               *)
  MaxCalls,     (* bound: requests the application makes                    *)
  MaxInFlight   (* bound: frames in flight in each direction                *)

Packages == 0 .. NumPackages - 1

\* What initPackageFromTopicList selects; the offsets follow from it.
Layout == [topics : SUBSET Topics, stamp : BOOLEAN]

\* The layout cleanUpPackage leaves: no topic, config 0, packageDataSize 0.
Cleared == [topics |-> {}, stamp |-> FALSE]

ASSUME SubscriptionAssumption ==
  /\ NumPackages \in Nat \ {0}
  /\ MaxCalls \in Nat /\ MaxInFlight \in Nat /\ SizeLimit \in Nat
  /\ Sends \in Nat \ {0} /\ Passes \in Nat \ {0}
  /\ Selections \subseteq Layout
  /\ DataSize \in [Layout -> Nat]
  /\ DataSize[Cleared] = 0
  /\ None \notin Buffers /\ Wild \notin Buffers /\ None # Wild
  /\ None \notin Packages
  /\ Wild \notin Topics
  /\ Uninit \notin Layout /\ None \notin Layout

VARIABLES
  occupied,     (* SubscriptionPackage::occupied                            *)
  leftOver,     (* SubscriptionPackage::leftOverDataFlag                    *)
  layout,       (* topicList, offsetList and packageDataSize                *)
  config,       (* info.config: whether a time stamp is requested           *)
  buffer,       (* incomingDataBuffer                                       *)
  live,         (* the allocated buffers of the heap                        *)
  room,         (* the number of bytes each was allocated with              *)
  topicDB,      (* latest of every entry of TopicDataBase                   *)
  wildWrite,    (* whether the program has written outside TopicDataBase    *)
  visited,      (* topics the handler a thread is in has dealt with         *)
  app,          (* what the application thread is doing                     *)
  loop,         (* removeLeftOverPackages and removeAllExistingPackages     *)
  link,         (* what the receive thread is doing                         *)
  inited,       (* the package the application's last call prepared         *)
  call,         (* sequence number of the latest request                    *)
  pending,      (* asynchronous requests the linker still waits for         *)
  up,           (* frames on their way to the flight controller             *)
  down,         (* frames on their way from it                              *)
  fc            (* the layout in which the flight controller sends          *)

memory  == <<live, room>>
package == <<occupied, leftOver, layout, config, buffer>>
table   == <<topicDB, wildWrite>>
topics  == <<table, visited>>
threads == <<app, loop, link, inited>>
wire    == <<up, down, fc>>
vars    == <<package, memory, topics, threads, call, pending, wire>>

-----------------------------------------------------------------------------
(* Records of the two threads and of the frames.                           *)

\* The threads that run the success handlers.
Actors == {"app", "link"}

\* "detect": the 1.2 seconds of Vehicle::initSubscriber; "init" and "fill": in
\* initPackageFromTopicList, before the checks of setTopicList and after them;
\* "sweep": between two removals of a loop over the packages; "alloc": in
\* allocateDataBuffer, after delete[]; "wait": in sendSync; "acked": sendSync
\* returned success, in the success handler; "clean": in clearDataBuffer,
\* after delete[].
AppState ==
  [at : {"detect", "idle", "init", "fill", "sweep", "alloc", "wait", "acked",
         "clean"},
   op : {"add", "remove", "reset"}, pkg : Packages, sync : BOOLEAN,
   tries : 0 .. Sends, wants : Layout]

NoCallAt(at) == [at |-> at, op |-> "reset", pkg |-> 0, sync |-> TRUE,
                 tries |-> 0, wants |-> Cleared]

\* A loop over the packages: the passes left and the next package.
LoopState ==
  [passes : 0 .. Passes, next : 0 .. NumPackages, all : BOOLEAN]

NoLoop == [passes |-> 0, next |-> 0, all |-> FALSE]

\* "copy": in the memcpy of extractOnePackage; "add", "remove", "clean": in a
\* callback, in the success handler it calls.
LinkState ==
  [at : {"idle", "copy", "add", "remove", "clean"}, pkg : Packages,
   buf : Buffers \cup {None}, size : Nat, data : Layout]

LinkIdle == [at |-> "idle", pkg |-> 0, buf |-> None, size |-> 0,
             data |-> Cleared]

Request == [op : {"add", "remove", "reset"}, pkg : Packages, call : Nat,
            wants : Layout]

Frame == [kind : {"data", "ack"}, op : {"add", "remove", "reset"},
          pkg : Packages, call : Nat, ok : BOOLEAN, data : Layout]

Data(p, lay) == [kind |-> "data", op |-> "reset", pkg |-> p, call |-> 0,
                 ok |-> TRUE, data |-> lay]
Ack(req, ok) == [kind |-> "ack", op |-> req.op, pkg |-> req.pkg,
                 call |-> req.call, ok |-> ok, data |-> Cleared]

PendingCall == [op : {"add", "remove", "reset"}, pkg : Packages, call : Nat]

\* A blocking call returns to the loop it was made from, or to the caller.
Return == NoCallAt(IF loop.passes > 0 THEN "sweep" ELSE "idle")

-----------------------------------------------------------------------------
(* The packages and the topic table.                                       *)

\* getBufferSize: packageDataSize is 0 until setTopicList succeeds.
BufferSize(p) == IF layout[p] = Uninit THEN 0 ELSE DataSize[layout[p]]

\* The first numberOfTopics entries of topicList.  The constructor leaves both
\* uninitialised, so before the first initPackageFromTopicList they are
\* anything, an index outside TopicDataBase included.
Listed(p) ==
  IF layout[p] = Uninit THEN Topics \cup {Wild} ELSE layout[p].topics

\* Variants with a plausible mistake stand before the definition they vary;
\* the mutation runs put them in its place.

\* The other flag of the package.
HasLeftOverData(p) == leftOver[p]

IsOccupied(p) == occupied[p]

\* incomingDataBuffer + offset: NULL plus an offset, and an offset no code has
\* written, lead nowhere.
DataPointer(p) ==
  IF buffer[p] = None \/ layout[p] = Uninit THEN Wild ELSE buffer[p]

\* The success handler a thread is in.
InHandler(thread, op, p) ==
  IF thread = "app" THEN app.at = "acked" /\ app.op = op /\ app.pkg = p
                    ELSE link.at = op /\ link.pkg = p

\* One pass of a handler's loop over the topics.  Every pass reads the list,
\* the number of topics and the buffer anew.
ForNextTopic(thread, p, pointer) ==
  /\ \E t \in Listed(p) \ visited[thread] :
       /\ topicDB' = [x \in Topics |-> IF x = t THEN pointer ELSE topicDB[x]]
       /\ wildWrite' = (wildWrite \/ t = Wild)
       /\ visited' = [visited EXCEPT ![thread] = @ \cup {t}]
  /\ UNCHANGED <<package, memory, threads, call, pending, wire>>

\* packageAddSuccessHandler
ClaimTopic(thread, p) ==
  InHandler(thread, "add", p) /\ ForNextTopic(thread, p, DataPointer(p))

\* packageRemoveSuccessHandler
ReleaseTopic(thread, p) ==
  InHandler(thread, "remove", p) /\ ForNextTopic(thread, p, None)

\* Of a list no code has written the number of entries is anything.
LoopOver(thread, p) ==
  layout[p] # Uninit => layout[p].topics \subseteq visited[thread]

EndLoop(thread) ==
  /\ visited' = [visited EXCEPT ![thread] = {}]
  /\ UNCHANGED table

\* setOccupied, the end of packageAddSuccessHandler.
SetOccupied(thread, p) ==
  /\ InHandler(thread, "add", p) /\ LoopOver(thread, p)
  /\ occupied' = [occupied EXCEPT ![p] = TRUE]
  /\ EndLoop(thread)
  /\ UNCHANGED <<leftOver, layout, config, buffer, memory>>

\* cleanUpPackage without waiting for the topics to be cleared.
CleanUpBeforeTopics(thread, p) ==
  /\ InHandler(thread, "remove", p)
  /\ layout' = [layout EXCEPT ![p] = Cleared]
  /\ config' = [config EXCEPT ![p] = FALSE]
  /\ live' = live \ {buffer[p]}
  /\ EndLoop(thread)
  /\ UNCHANGED <<occupied, leftOver, buffer, room>>

\* cleanUpPackage up to and including the delete[] in clearDataBuffer: the
\* package still holds the address of the freed buffer.
CleanUpPackage(thread, p) ==
  /\ InHandler(thread, "remove", p) /\ LoopOver(thread, p)
  /\ layout' = [layout EXCEPT ![p] = Cleared]
  /\ config' = [config EXCEPT ![p] = FALSE]
  /\ live' = live \ {buffer[p]}
  /\ EndLoop(thread)
  /\ UNCHANGED <<occupied, leftOver, buffer, room>>

\* The rest of clearDataBuffer, setOccupied and the reset of the leftover flag
\* that follows the handler.
ClearDataBuffer(p) ==
  /\ buffer' = [buffer EXCEPT ![p] = None]
  /\ occupied' = [occupied EXCEPT ![p] = FALSE]
  /\ leftOver' = [leftOver EXCEPT ![p] = FALSE]
  /\ UNCHANGED <<layout, config, memory, topics>>

-----------------------------------------------------------------------------
(* The application thread.                                                 *)

\* sendSync blocks in the linker; sendAsync registers a callback and returns.
Transmit(op, p, wants, sync) ==
  LET req == [op |-> op, pkg |-> p, call |-> call + 1, wants |-> wants]
  IN  /\ Len(up) < MaxInFlight
      /\ call' = call + 1
      /\ up' = Append(up, req)
      /\ IF sync
         THEN /\ app' = [at |-> "wait", op |-> op, pkg |-> p, sync |-> TRUE,
                         tries |-> 1, wants |-> wants]
              /\ UNCHANGED pending
         ELSE /\ app' = Return
              /\ pending' = pending \cup
                   {[op |-> op, pkg |-> p, call |-> call + 1]}
      /\ UNCHANGED <<link, down, fc>>

\* initPackageFromTopicList up to setConfig.  An occupied package is refused
\* without any change.
InitPackage(p, lay) ==
  /\ app.at = "idle"
  /\ ~IsOccupied(p)
  /\ config' = [config EXCEPT ![p] = lay.stamp]
  /\ app' = [at |-> "init", op |-> "add", pkg |-> p, sync |-> TRUE,
             tries |-> 0, wants |-> lay]
  /\ inited' = None
  /\ UNCHANGED <<occupied, leftOver, layout, buffer, memory, topics, loop, link,
                 call, pending, wire>>

\* The layout setTopicList computes: it reads the configuration back.
Prepared == [topics |-> app.wants.topics, stamp |-> config[app.pkg]]

\* The checks of setTopicList.  It may fail whatever the package: freq can be
\* more than maxFreq of a topic.
SetTopicList ==
  /\ app.at = "init"
  /\ \/ /\ ~IsOccupied(app.pkg) /\ DataSize[Prepared] <= SizeLimit
        /\ app' = [app EXCEPT !.at = "fill"]
     \/ app' = NoCallAt("idle")
  /\ UNCHANGED <<package, memory, topics, loop, link, inited, call, pending,
                 wire>>

\* The rest of it.  A handler that is in its loop over the list meanwhile goes
\* on at the same index, among topics that have moved.
FillPackage ==
  /\ app.at = "fill"
  /\ layout' = [layout EXCEPT ![app.pkg] = Prepared]
  /\ inited' = app.pkg
  /\ app' = NoCallAt("idle")
  /\ IF \E op \in {"add", "remove"} : InHandler("link", op, app.pkg)
     THEN \E done \in SUBSET Topics :
            visited' = [visited EXCEPT !["link"] = done]
     ELSE UNCHANGED visited
  /\ UNCHANGED <<occupied, leftOver, config, buffer, memory, table, loop, link,
                 call, pending, wire>>

\* The request leaves out the configuration of the package.
SerializedWithoutConfig(p) ==
  IF layout[p] = Uninit THEN Layout
  ELSE {[topics |-> layout[p].topics, stamp |-> FALSE]}

\* serializePackageInfo; a package that was never prepared has anything in it.
Serialized(p) ==
  IF layout[p] = Uninit THEN Layout
  ELSE {[topics |-> layout[p].topics, stamp |-> config[p]]}

\* startPackage up to the delete[] in allocateDataBuffer.  An occupied
\* package is refused without any change.
StartPackage(p, sync) ==
  /\ app.at = "idle" /\ call < MaxCalls
  /\ ~IsOccupied(p)
  /\ \E info \in Serialized(p) :
       app' = [at |-> "alloc", op |-> "add", pkg |-> p, sync |-> sync,
               tries |-> 0, wants |-> info]
  /\ live' = live \ {buffer[p]}
  /\ inited' = None
  /\ UNCHANGED <<package, room, topics, loop, link, call, pending, wire>>

\* The rest of allocateDataBuffer, and the request.
AllocateDataBuffer ==
  /\ app.at = "alloc"
  /\ \E b \in Buffers \ live :
       /\ buffer' = [buffer EXCEPT ![app.pkg] = b]
       /\ live' = live \cup {b}
       /\ room' = [room EXCEPT ![b] = BufferSize(app.pkg)]
  /\ Transmit("add", app.pkg, app.wants, app.sync)
  /\ UNCHANGED <<occupied, leftOver, layout, config, topics, loop, inited>>

RemovePackage(p, sync) ==
  /\ app.at = "idle" /\ call < MaxCalls
  /\ Transmit("remove", p, Cleared, sync)
  /\ inited' = None
  /\ UNCHANGED <<package, memory, topics, loop>>

Reset(sync) ==
  /\ app.at = "idle" /\ call < MaxCalls
  /\ Transmit("reset", 0, Cleared, sync)
  /\ inited' = None
  /\ UNCHANGED <<package, memory, topics, loop>>

\* removeLeftOverPackages, called by initSubscriber and by the application,
\* and removeAllExistingPackages: loops of blocking removals.
BeginSweep(all) ==
  /\ \/ app.at = "detect" /\ ~all
     \/ app.at = "idle" /\ call < MaxCalls
  /\ app' = NoCallAt("sweep")
  /\ loop' = [passes |-> IF all THEN 1 ELSE Passes, next |-> 0, all |-> all]
  /\ inited' = None
  /\ UNCHANGED <<package, memory, topics, link, call, pending, wire>>

Selected(p) == leftOver[p] \/ (loop.all /\ IsOccupied(p))

SweepRemove ==
  /\ app.at = "sweep" /\ loop.next < NumPackages
  /\ Selected(loop.next)
  /\ Transmit("remove", loop.next, Cleared, TRUE)
  /\ loop' = [loop EXCEPT !.next = @ + 1]
  /\ UNCHANGED <<package, memory, topics, inited>>

SweepSkip ==
  /\ app.at = "sweep"
  /\ \/ /\ loop.next < NumPackages /\ ~Selected(loop.next)
        /\ loop' = [loop EXCEPT !.next = @ + 1]
        /\ UNCHANGED app
     \/ /\ loop.next = NumPackages /\ loop.passes > 1
        /\ loop' = [loop EXCEPT !.passes = @ - 1, !.next = 0]
        /\ UNCHANGED app
     \/ /\ loop.next = NumPackages /\ loop.passes = 1
        /\ loop' = NoLoop
        /\ app' = NoCallAt("idle")
  /\ UNCHANGED <<package, memory, topics, link, inited, call, pending, wire>>

\* Sent again for as long as there is no answer.
ResendForever == app.op # "reset"

\* A blocking request is sent again when its share of the timeout is over;
\* only the blocking reset is sent once.
MayResend == app.tries < Sends /\ app.op # "reset"

Resend ==
  /\ app.at = "wait" /\ MayResend /\ Len(up) < MaxInFlight
  /\ up' = Append(up, [op |-> app.op, pkg |-> app.pkg, call |-> call,
                       wants |-> app.wants])
  /\ app' = [app EXCEPT !.tries = @ + 1]
  /\ UNCHANGED <<package, memory, topics, loop, link, inited, call, pending,
                 down, fc>>

\* The timeout is looked at after the last retry only: the reset has none.
TimeoutAfterRetries ==
  /\ app.at = "wait" /\ app.tries = Sends
  /\ app' = Return
  /\ UNCHANGED <<package, memory, topics, loop, link, inited, call, pending,
                 wire>>

SyncTimeout ==
  /\ app.at = "wait" /\ ~MayResend
  /\ app' = Return
  /\ UNCHANGED <<package, memory, topics, loop, link, inited, call, pending,
                 wire>>

\* sendSync has returned success and the handler's loop is over.
StartConfirmed ==
  /\ SetOccupied("app", app.pkg)
  /\ app' = Return
  /\ UNCHANGED <<loop, link, inited, call, pending, wire>>

RemoveConfirmed ==
  /\ CleanUpPackage("app", app.pkg)
  /\ app' = [app EXCEPT !.at = "clean"]
  /\ UNCHANGED <<loop, link, inited, call, pending, wire>>

RemoveDone ==
  /\ app.at = "clean"
  /\ ClearDataBuffer(app.pkg)
  /\ app' = Return
  /\ UNCHANGED <<loop, link, inited, call, pending, wire>>

-----------------------------------------------------------------------------
(* The receive thread of the linker: it takes the frames in order and runs *)
(* the callback of one before it looks at the next.                        *)

Receive == /\ link.at = "idle" /\ Len(down) > 0
           /\ down' = Tail(down)
           /\ UNCHANGED <<up, fc>>

\* decodeCallback and extractOnePackage: with a buffer, memcpy of
\* packageDataSize bytes; without, the package is marked as left over.
DecodeCallback ==
  /\ Receive
  /\ Head(down).kind = "data"
  /\ LET p == Head(down).pkg
     IN  IF buffer[p] # None
         THEN /\ link' = [at |-> "copy", pkg |-> p, buf |-> buffer[p],
                          size |-> BufferSize(p), data |-> Head(down).data]
              /\ UNCHANGED leftOver
         ELSE /\ leftOver' = [leftOver EXCEPT ![p] = TRUE]
              /\ UNCHANGED link
  /\ UNCHANGED <<occupied, layout, config, buffer, memory, topics, app, loop,
                 inited, call, pending>>

CopyDone ==
  /\ link.at = "copy"
  /\ link' = LinkIdle
  /\ UNCHANGED <<package, memory, topics, app, loop, inited, call, pending,
                 wire>>

\* Acknowledgements matched by command, not by sequence number.
AnswersByCommand(frame) ==
  app.at = "wait" /\ frame.kind = "ack" /\ frame.op = app.op

\* The acknowledgement of the request the application is blocked in.
Answers(frame) == app.at = "wait" /\ frame.kind = "ack" /\ frame.call = call

\* Any acknowledgement taken for a success.
SyncAckAnyResult ==
  /\ Receive
  /\ Answers(Head(down))
  /\ app' = IF app.op # "reset" THEN [app EXCEPT !.at = "acked"] ELSE Return
  /\ UNCHANGED <<package, memory, topics, loop, link, inited, call, pending>>

SyncAck ==
  /\ Receive
  /\ Answers(Head(down))
  /\ app' = IF Head(down).ok /\ app.op # "reset"
            THEN [app EXCEPT !.at = "acked"]
            ELSE Return
  /\ UNCHANGED <<package, memory, topics, loop, link, inited, call, pending>>

\* addPackageCallback, removePackageCallback and resetCallback; the legacy
\* linker calls them for an acknowledgement and not for a timeout.
AsyncAck(r) ==
  /\ Receive
  /\ Head(down).kind = "ack" /\ Head(down).call = r.call
  /\ pending' = pending \ {r}
  /\ link' = IF Head(down).ok /\ r.op # "reset"
             THEN [LinkIdle EXCEPT !.at = r.op, !.pkg = r.pkg]
             ELSE LinkIdle
  /\ UNCHANGED <<package, memory, topics, app, loop, inited, call>>

AddCallback ==
  /\ SetOccupied("link", link.pkg)
  /\ link' = LinkIdle
  /\ UNCHANGED <<app, loop, inited, call, pending, wire>>

RemoveCallback ==
  /\ CleanUpPackage("link", link.pkg)
  /\ link' = [link EXCEPT !.at = "clean"]
  /\ UNCHANGED <<app, loop, inited, call, pending, wire>>

CallbackDone ==
  /\ link.at = "clean"
  /\ ClearDataBuffer(link.pkg)
  /\ link' = LinkIdle
  /\ UNCHANGED <<app, loop, inited, call, pending, wire>>

\* An acknowledgement nobody waits for any more.
StaleAck ==
  /\ Receive
  /\ Head(down).kind = "ack" /\ ~Answers(Head(down))
  /\ \A r \in pending : r.call # Head(down).call
  /\ UNCHANGED <<package, memory, topics, threads, call, pending>>

AsyncTimeout(r) ==
  /\ pending' = pending \ {r}
  /\ UNCHANGED <<package, memory, topics, threads, call, wire>>

-----------------------------------------------------------------------------
(* The flight controller and the link (external).                          *)

\* It refuses a package that exists, one without topics, and the removal of
\* one that does not exist; it may refuse any request.
HandleRequest ==
  /\ Len(up) > 0 /\ Len(down) < MaxInFlight
  /\ up' = Tail(up)
  /\ LET req == Head(up)
     IN  \/ /\ \/ /\ req.op = "add"
                  /\ fc[req.pkg] = None /\ req.wants.topics # {}
                  /\ fc' = [fc EXCEPT ![req.pkg] = req.wants]
               \/ /\ req.op = "remove"
                  /\ fc[req.pkg] # None
                  /\ fc' = [fc EXCEPT ![req.pkg] = None]
               \/ /\ req.op = "reset"
                  /\ fc' = [p \in Packages |-> None]
            /\ down' = Append(down, Ack(req, TRUE))
         \/ /\ down' = Append(down, Ack(req, FALSE))
            /\ UNCHANGED fc
  /\ UNCHANGED <<package, memory, topics, threads, call, pending>>

SendTelemetry(p) ==
  /\ fc[p] # None /\ Len(down) < MaxInFlight
  /\ down' = Append(down, Data(p, fc[p]))
  /\ UNCHANGED <<package, memory, topics, threads, call, pending, up, fc>>

LoseRequest ==
  /\ Len(up) > 0 /\ up' = Tail(up)
  /\ UNCHANGED <<package, memory, topics, threads, call, pending, down, fc>>

LoseFrame ==
  /\ Len(down) > 0 /\ down' = Tail(down)
  /\ UNCHANGED <<package, memory, topics, threads, call, pending, up, fc>>

-----------------------------------------------------------------------------
(* Start, unclean quit and restart of the program.                         *)

Init ==
  /\ occupied  = [p \in Packages |-> FALSE]
  /\ leftOver  = [p \in Packages |-> FALSE]
  /\ layout    = [p \in Packages |-> Uninit]
  /\ config    = [p \in Packages |-> FALSE]
  /\ buffer    = [p \in Packages |-> None]
  /\ live      = {}
  /\ room      = [b \in Buffers |-> 0]
  /\ topicDB   = [t \in Topics |-> None]
  /\ wildWrite = FALSE
  /\ visited   = [thread \in Actors |-> {}]
  /\ app       = NoCallAt("detect")
  /\ loop      = NoLoop
  /\ link      = LinkIdle
  /\ inited    = None
  /\ pending   = {}
  /\ up        = <<>>
  /\ down      = <<>>
  /\ call      = 0
  /\ fc        = [p \in Packages |-> None]

\* The flight controller keeps sending; what was in flight is gone by the
\* time the program runs again.
UncleanQuit ==
  /\ call < MaxCalls
  /\ occupied'  = [p \in Packages |-> FALSE]
  /\ leftOver'  = [p \in Packages |-> FALSE]
  /\ layout'    = [p \in Packages |-> Uninit]
  /\ config'    = [p \in Packages |-> FALSE]
  /\ buffer'    = [p \in Packages |-> None]
  /\ live'      = {}
  /\ room'      = [b \in Buffers |-> 0]
  /\ topicDB'   = [t \in Topics |-> None]
  /\ wildWrite' = FALSE
  /\ visited'   = [thread \in Actors |-> {}]
  /\ app'       = NoCallAt("detect")
  /\ loop'      = NoLoop
  /\ link'      = LinkIdle
  /\ inited'    = None
  /\ pending'   = {}
  /\ up'        = <<>>
  /\ down'      = <<>>
  /\ call' = call + 1
  /\ UNCHANGED fc

-----------------------------------------------------------------------------
(* Three kinds of application.                                             *)

\* One pass of the loop of the handler the thread is in.
HandlerLoop(thread, p) == ClaimTopic(thread, p) \/ ReleaseTopic(thread, p)

LinkStep ==
  \/ DecodeCallback \/ CopyDone \/ SyncAck \/ StaleAck
  \/ \E r \in pending : AsyncAck(r) \/ AsyncTimeout(r)
  \/ HandlerLoop("link", link.pkg)
  \/ AddCallback \/ RemoveCallback \/ CallbackDone

Environment ==
  \/ HandleRequest \/ LoseRequest \/ LoseFrame \/ UncleanQuit
  \/ \E p \in Packages : SendTelemetry(p)

\* The steps of a call that has begun.
AppStep ==
  \/ SetTopicList \/ FillPackage
  \/ AllocateDataBuffer
  \/ SweepRemove \/ SweepSkip
  \/ Resend \/ SyncTimeout
  \/ HandlerLoop("app", app.pkg)
  \/ StartConfirmed \/ RemoveConfirmed \/ RemoveDone

\* initSubscriber ends with a removal of the packages left over.
Startup == app.at = "detect" /\ BeginSweep(FALSE)

OtherCall ==
  \/ \E p \in Packages, sync \in BOOLEAN :
       StartPackage(p, sync) \/ RemovePackage(p, sync)
  \/ \E sync \in BOOLEAN : Reset(sync)
  \/ \E all \in BOOLEAN : BeginSweep(all)

\* An application that makes any call at any time.
AnyCall ==
  \/ \E p \in Packages, lay \in Selections : InitPackage(p, lay)
  \/ OtherCall

Next == Startup \/ AnyCall \/ AppStep \/ LinkStep \/ Environment

Spec == Init /\ [][Next]_vars

\* An asynchronous start or removal of the package may still be answered, or
\* its callback is running.
UnderWay(p) ==
  \/ \E r \in pending : r.op # "reset" /\ r.pkg = p
  \/ link.at \in {"add", "remove", "clean"} /\ link.pkg = p

\* One that makes any call at any time, but waits for the answer to an
\* asynchronous call, or for its timeout, before it prepares the package again.
\* The code does not enforce that: see the README on what happens without.
PatientCall ==
  \/ \E p \in Packages, lay \in Selections :
       ~UnderWay(p) /\ InitPackage(p, lay)
  \/ OtherCall

PatientNext == Startup \/ PatientCall \/ AppStep \/ LinkStep \/ Environment

PatientSpec == Init /\ [][PatientNext]_vars

\* An application written like the samples: blocking calls only,
\* startPackage right after an initPackageFromTopicList that succeeded, and
\* after a start the package is prepared again only once a removal succeeded.
SampleCall ==
  \/ \E p \in Packages, lay \in Selections :
       buffer[p] = None /\ InitPackage(p, lay)
  \/ \E p \in Packages :
       \/ inited = p /\ StartPackage(p, TRUE)
       \/ RemovePackage(p, TRUE)
  \/ Reset(TRUE)
  \/ \E all \in BOOLEAN : BeginSweep(all)

SampleNext == Startup \/ SampleCall \/ AppStep \/ LinkStep \/ Environment

SampleSpec == Init /\ [][SampleNext]_vars

-----------------------------------------------------------------------------
(* Properties.                                                             *)

\* Every variable has its type.
TypeOK ==
  /\ occupied \in [Packages -> BOOLEAN]
  /\ leftOver \in [Packages -> BOOLEAN]
  /\ layout \in [Packages -> Layout \cup {Uninit}]
  /\ config \in [Packages -> BOOLEAN]
  /\ buffer \in [Packages -> Buffers \cup {None}]
  /\ live \subseteq Buffers
  /\ room \in [Buffers -> Nat]
  /\ topicDB \in [Topics -> Buffers \cup {None, Wild}]
  /\ wildWrite \in BOOLEAN
  /\ visited \in [Actors -> SUBSET (Topics \cup {Wild})]
  /\ app \in AppState
  /\ loop \in LoopState
  /\ link \in LinkState
  /\ inited \in Packages \cup {None}
  /\ call \in Nat
  /\ pending \subseteq PendingCall
  /\ up \in Seq(Request)
  /\ down \in Seq(Frame)
  /\ fc \in [Packages -> Layout \cup {None}]

\* extractOnePackage never copies telemetry into memory that has been freed,
\* or past the end of the buffer: the copy is as long as packageDataSize says,
\* which setTopicList changes without touching the buffer.
NoIllegalCopy ==
  link.at = "copy" => link.buf \in live /\ link.size <= room[link.buf]

\* The part of it that the comment in startPackage is about: startPackage
\* never gives back memory that telemetry is being copied to.
NoCopyToFreedMemory == link.at = "copy" => link.buf \in live

\* getValue follows the pointer in the topic table: whenever there is one it
\* leads into the allocated buffer of a package that has the topic and that is
\* occupied, or is about to be: its start is confirmed and the handler still in
\* its loop.
TopicsPointIntoBuffers ==
  \A t \in Topics :
    topicDB[t] # None =>
      \E p \in Packages :
        /\ topicDB[t] = buffer[p] /\ buffer[p] \in live
        /\ layout[p] # Uninit /\ t \in layout[p].topics
        /\ occupied[p] \/ InHandler("app", "add", p)

\* Telemetry that reaches the buffer of an occupied package was sent in the
\* layout by which getValue reads it, not in that of an earlier subscription.
DataMatchesLayout ==
  link.at = "copy" /\ occupied[link.pkg] => link.data = layout[link.pkg]

\* When the blocking startPackage is told that it succeeded, the flight
\* controller is sending the package in the layout set up here.
StartedIsSending ==
  app.at = "acked" /\ app.op = "add" => fc[app.pkg] = layout[app.pkg]

\* The topic list and the offsets of an occupied package stay as they are
\* until packageRemoveSuccessHandler clears them, though they are written long
\* after isOccupied has been read.
LayoutFrozenWhileOccupied ==
  [][\A p \in Packages :
       occupied[p] /\ occupied'[p] => layout'[p] \in {layout[p], Cleared}]_vars

\* removePackage changes entries of the topic table and nothing around it.
NoWildWrite == ~wildWrite

\* Every blocking call returns, the loops over the packages and the one of
\* initSubscriber included, whatever is lost on the link.
CallsReturn == app.at # "idle" ~> app.at = "idle"

\* The threads run, frames leave a full link, and the linker's timeout ends.
Fairness ==
  /\ WF_vars(Startup) /\ WF_vars(AppStep) /\ WF_vars(LinkStep)
  /\ WF_vars(HandleRequest \/ LoseRequest)

FairSpec == PatientSpec /\ Fairness

=============================================================================
