# A verification project for the DJI Onboard SDK

The Onboard SDK (OSDK, `src/osdk-core`) is a C++ library that runs on a
computer mounted on a drone. It talks to the flight controller over a UART and
to cameras and radios over USB. This directory holds TLA+ modules that model
parts of it, the configurations with which TLC checks them, and theorems about
them that TLAPS proves. Paths below are relative to `src/osdk-core` unless they
begin with `src/`.

    tlc -workers 2 -config MCSubscription_sample.cfg MCSubscription.tla
    tlapm SubscriptionSampleProofs.tla

## 1. Inventory

Most of the roughly 26 500 lines of implementation build one command each, send
it, and hand its acknowledgement to the caller. What can really go wrong is in
the few places that keep state which several threads share. The threads are the
same everywhere:

* the **application threads**, which call the API; a blocking call waits in the
  linker for the acknowledgement and is sent again a number of times;
* the **receive thread** of the linker, which takes frames off a channel in the
  order in which they arrive and runs the callback registered for each: push
  data (telemetry, packs of a file) and acknowledgements of asynchronous calls;
* **workers** of single components: the monitors of file transfers, the read
  thread and the callback thread of a camera stream, the keep-alive of the
  linker.

The linker itself (matching of acknowledgements to requests, retransmission,
the frame parser) is a prebuilt library, so its behaviour is taken from how the
code here uses it and marked `external` in the map.

| Component | State | Operations | Hard behaviour | What makes it correct |
|---|---|---|---|---|
| Telemetry subscription, `api/src/dji_subscription.cpp` | five packages (occupied, left-over flag, layout, configuration, buffer), the static topic table with a pointer for each topic | initPackageFromTopicList, startPackage, removePackage, reset (blocking and asynchronous), removeLeftOverPackages, removeAllExistingPackages, decodeCallback, getValue | telemetry is copied on the receive thread while the application allocates, frees and changes layouts; acknowledgements late, lost or for another transmission; packages left by a program that quit | copies stay inside live buffers, the topic table points only into buffers of occupied packages, data is read in the layout it was sent in, started means sending, calls return |
| Vehicle, `api/src/dji_vehicle.cpp` | one pointer for each component, the order of start-up | init, deinit, initSubscriber, activate | quit without deinit, restart while the flight controller still sends | left-over packages are removed before the application starts its own |
| Legacy linker, `api/src/dji_legacy_linker.cpp` | table of push handlers, the answer of the latest blocking call | send, sendSync, sendAsync, registerCMDCallback | sendSync returns a pointer to members that all callers share | each caller gets the answer to its own call |
| File list assembly, `modules/src/filemgr/impl/commondatarangehandler.cpp`, `downloadbufferqueue.cpp` | ranges of missing packs, ring of packs | addSeqIndex, InsertBlock, GetConfirmSeq, DeQueueAll | packs lost, late, duplicated, beyond the ring | ranges and ring describe the same set of packs; only a whole list is handed on |
| File download, `modules/src/filemgr/impl/dji_file_mgr_impl.cpp`, `mmap_file_buffer.cpp` | a handler for lists and one for data: state, callback, time of the last pack, ranges; the mapped local file | startReqFileList, startReqFileData, the callbacks for packs, a monitor thread for each request | three kinds of threads and one atomic variable; timeouts that race the last pack; aborts that are not acknowledged | success is told for whole files only, in the right place; each request is answered; each transfer ends |
| MOP pipelines, `modules/src/mop` | a global table of pipelines and their handles, a count for the background task | connect, accept, disconnect, close, send, recv | several managers share the table; connections that fail half way | a pipeline can be used until it is given back; no failing path keeps a channel |
| Camera stream, `advanced-sensing/camera_stream/src` | sockets, run flags, decoder and its mutex, latest image | startCameraStream, stopCameraStream, read thread, callback thread, getCurrentImage | flags set after the thread that reads them is created; an initialisation that returns with its mutex held | a started stream is read, a stopped one leaves no thread and no lock |
| Liveview (H264), `advanced-sensing/api/src/dji_liveview_impl.cpp` | static map of stream handlers | start, stop, packet callback, heartbeat task | the map is changed and read by two threads; a start fails at any step | packets reach the handler of their stream with its user data; a heartbeat runs exactly as long as a stream |
| Stereo perception, `advanced-sensing/api/src/dji_perception_impl.cpp`, `protocol/` | receive buffer and parser index, image callbacks | subscribe, unsubscribe, byteHandler | transfers that fill the buffer skip the parser; lost transfers; no checksum | each image is handed on whole, once and in order, and the parser recovers from a loss |
| Open protocol sessions, `advanced-sensing/ori-osdk-core` | sessions, memory pool | sendInterface, allocSession | retransmission of sessions | the Linux build does not instantiate it |
| Flight actions and joystick, `modules/src/flight` | mode flags, joystick frame, ring of callback records | takeOff, land, goHome, authority, ... (blocking and asynchronous) | a record of the ring is reused while its call is pending | a callback gets the user data of its own call |
| Missions, `api/src/dji_mission_manager.cpp`, `dji_waypoint*.cpp`, `dji_hotpoint.cpp` | the missions and their arrays of waypoints, the static index of an upload in frames | init, upload, download, start, stop | an upload given up half-way, info overwritten by the receive thread, lost answers | what was uploaded is whole and what was asked for; writes stay inside the array |
| Cameras, gimbals | table of modules | several hundred get and set calls | none of their own | the parameters are checked by the device |
| PSDK payloads, `modules/src/payload/dji_psdk_module.cpp` | widget values, ring of callback records | configure, push of widgets | a record of the ring is reused while its call is pending | a callback gets the user data of its own call |
| Broadcast, HMS, battery, MFIO, time synchronisation | the last value pushed | subscribe, get | reading while it is written | a reader gets one whole value |
| Firewall, platform, logging, error tables | — | — | none | — |

How they interact: `Vehicle` creates every component and calls
`initSubscriber`; each component registers handlers with the legacy linker for
its push data and sends requests through it; the linker calls back on the
receive thread. The camera stream, the file download and the MOP pipelines each
have a USB channel of their own.

`PROJECT.json` lists the same components with their state, and under
`hazards` the places in this code that are hard to test.

## 2. Plan

Done in this order, the most important behaviour first:

1. `Subscription`: it is the part that every application uses, and the one whose
   memory is touched by two threads.
2. `RangeHandler`, `DownloadBufferQueue`, composed in `PackAssembly`, which
   refines the abstract `PackLedger`.
3. `FileDownload`, which composes the two structures with the three kinds of
   threads.

4. `CameraStream`: three threads, two joins and a mutex.
5. `MopPipelines`, `LiveView`, `CallbackRing`, `SensingStream`,
   `WaypointV2Mission`, `WaypointMission`: the components that keep state by
   themselves, checked together in `MCPrograms`.

Next:

* For the subscription, the two steps of `getValue`.
* For the file download, the range handler as an object with an address, so
  that its deletion in `startReqFileData` can meet its use on another thread.
* Two application threads in `sendSync`, with the shared members of the answer:
  each caller would need its own. The code promises nothing here, so this is
  worth stating only once it does.
* Broadcast telemetry and the push data of battery and HMS, which copy under a
  lock.

The theorems, in the order of the plan:

All are done; section 5 gives the arguments.

1. `Spec => []TypeOK` for the subscription; `LayoutFrozenWhileOccupied` for an
   application that lets its asynchronous calls end (`PatientSpec`).
2. `SampleSpec => []SampleInv`, and from it `NoIllegalCopy`,
   `TopicsPointIntoBuffers`, `DataMatchesLayout` and `StartedIsSending`.
3. `RangesApart`, `BufferHoldsReceived` and the refinement of `PackLedger` for
   the assembly of file lists.
4. `NothingLeft` and `SocketHasOneUser` for the camera stream.
5. For the file download, that success is told for whole files and lists only
   and that every request is answered.
6. `OwnCallback` for any size of the ring, `IndexInside`, `ChannelsAccounted`,
   `OneHeartBeat`, and the other invariants of those components.
7. Images in order and `Resynchronises`, for any lengths; each component's
   theorems for the programs that use it.

Worth proving next: what a violation run shows to fail, under the weakest
condition on the application that makes it hold.

## 3. The modules

### Subscription

The two threads are `app` and `link`. A blocking call is a sequence of steps:
the linker waits between the request and the answer, and the receive thread
runs meanwhile. `startPackage` and `cleanUpPackage` are cut in two at each
`delete[]`, because between it and the next assignment the package
still holds the address of a freed buffer, and because `allocateDataBuffer`
and `clearDataBuffer` take no lock. `initPackageFromTopicList` is three steps:
`InitPackage` (the check of `isOccupied` and `setConfig`), `SetTopicList` (its
second check, and those of sizes and frequencies) and `FillPackage` (the
writes). The two success handlers are loops, `ClaimTopic` and `ReleaseTopic`,
one topic a step, on whichever thread runs them; each pass reads the list, the
number of topics and the buffer anew, `visited` has the topics a handler has
dealt with, and if the list is filled in meanwhile the handler goes on among
topics that have moved. A step writes `latest` of one entry; `pkgID` and
`freq`, which no code reads back, are left out. The writes of `FillPackage` are
one step: a list that is half written is not modelled. The `memcpy` of `extractOnePackage` is a
begin and an end step, so that what happens meanwhile is visible; the lock
`m_msgLock` it takes is left out because no code that changes the buffers takes
it. Addresses are `Buffers`, `live` is the set of those allocated and `room`
the number of bytes each was allocated with. A new buffer may get the address of
one just freed.

A layout (`topicList`, the offsets, `packageDataSize`) is the set of topics,
without their order, and whether a time stamp is sent; the number of bytes is the constant `DataSize`.
`Uninit` stands for the members that the constructor leaves uninitialised: the
number of topics and the topics read from them are any (`Listed`), `Wild`
being an index outside the table. What `startPackage` sends of a package that
was never prepared is any layout (`Serialized`); how far past `uidList` it reads
is not modelled. `loop` holds the loops of
`removeLeftOverPackages` (`Passes` passes) and `removeAllExistingPackages`;
`detect` is the 1.2 seconds that `initSubscriber` waits for telemetry.

The flight controller, the link and the linker are external. A request is
matched with its acknowledgement by the sequence number (`call`), and a blocking
call is sent at most `Sends` times, under the same number. The legacy linker
calls an asynchronous callback for an acknowledgement and not for a timeout.
Both directions of the link keep the order and lose frames. The flight
controller refuses to add a package that exists and to remove one that does
not, may refuse anything, and goes on sending after the program has quit.

Three applications. `AnyCall` makes any call at any time. `PatientCall` does
so too, but lets an asynchronous start or removal of a package end, by its
callback or by its timeout, before it prepares the package again. The
code does not enforce that, and `LayoutFrozenWhileOccupied` fails without it:
`isOccupied` is read at `dji_subscription.cpp:170` and `630`, the acknowledgement
of a start made before sets `occupied` on the receive thread, and the layout is
then written at 659-669. No document promises an application that it may prepare
a package while its start is under way, so this is a condition and not a
finding. `SampleCall` is written like the samples (`src/sample/platform/linux/telemetry`): blocking
calls, `startPackage` directly after an `initPackageFromTopicList` that
succeeded, and after a start the package is prepared again only when a removal
has succeeded.

### RangeHandler, DownloadBufferQueue, PackLedger, PackAssembly

`RangeHandler` and `DownloadBufferQueue` have no variables: they are the two
classes as operators on a record, so that `PackAssembly` and `FileDownload` can
use them. `RangeHandler` has the ordered list of ranges of missing packs and the
next expected number, and `AddSeqIndex` with its cases: a pack beyond the last,
one in a gap (which is split, trimmed or closed), one already there.
`DownloadBufferQueue` is the ring with its first number, what `InsertBlock`
drops and what `DeQueueAll` hands out. Sequence numbers are not wrapped: they
are 32 bits wide and a list would need 2^32 packs.

`PackLedger` is what they promise together: the set of packs received, all of
them within the room of the ring, and a list handed over exactly when the last
pack arrives and the set is then whole. `PackAssembly` drives the two as
`fileListRawDataCB` does and implements it.

### FileDownload

Everything is held twice, for lists and for data (`Kinds`), as in the code. A
step ends where a thread calls something that takes time, the camera or the
callback of the application: the receive thread is between its decision and the
callback (`verdict`), or in the callback (`called`); a monitor sends the
abort (`abort`), or is in the callback (`called`). Between these, a step of a
thread is taken whole, which leaves out interleavings inside the short pieces of
code that hold no call; the races named under hazards all straddle a call.
`late` says that `updateTimeMs` is older than the timeout, and `Elapse` lets
time pass. `disk` is what the local files hold, pack by pack, and `mapped` the
file that is mapped and `curFilePos` in it. `openable` are the requests whose
local file `open()` can open, any set of them: `MmapFileBuffer::init` fails for
the others after it has set `curFilePos` to 0, `parseFileData` ignores that, and
the packs go to the mapping of an earlier request, from its beginning, or
nowhere if there is none. The code tells success (890) of such a file as well.
So `FileComplete` and `SavedAtLocalPath` speak of the files that can be opened,
and the first says that they are whole whichever others could not be. A `mmap`
that fails after the open (`MAP_FAILED` is not `NULL`, and the next pack would
be written through it) and writes beyond the end of a mapping are not modelled.
`answers` is a set of results: that a callback is called a second time with the
same result, which the race of timeout and last pack allows, is not told apart
from one call. The parsing of a list into records and the byte layout of a
pack are left out.

The camera sends the packs of one transfer in order; the link loses any; the
abort and the request for a missed pack have no acknowledgement and may not be
heard. `SampleStart` is the application of the download sample, which begins a
request a while after the callback of the one before, when the camera has been
put in playback mode again and the link is quiet. `StartRequest` by itself is an
application that begins one whenever it is accepted.

### CameraStream

The application thread is `app`, a program counter over the calls that
`startCameraStream` and `stopCameraStream` make in turn; the read thread and the
callback thread are created by a step of it and joined by another. A step ends
at each place where another thread can make a difference: between
`pthread_create` and the assignment of the flag that the new thread looks at,
between the test of a callback and the call, at the mutex of the decoder, at a
join. `Receive` takes the loop's test, `UDT::recv` and the test of the callback
together. A data race on a callback that has just been cleared is a choice
between the old value and `crashed`, after which no thread takes a step.
A start fails in three ways: the camera is not found (`idle` again), or the
decoder or a thread cannot be created (`failed`; the code then asks to restart
the program). A connection may be lost at any time, and any attempt to connect
may fail. The read thread that gives up ends in one step.
`SampleNext` starts and stops in turn, as the samples do; `Next` in any order.

### MCPrograms and the six components it holds

The six modules below share no state with each other. `MCPrograms` extends all
of them and lets a variable chosen at the start say which one a program uses, so
that one run checks them and the states add up instead of multiplying. Each has
an `Init`, a `Next` and a `Spec` of its own.

**WaypointMission** (missions of the first version). `wpMission` has the
`indexNumber` of `info` and the array `index` with the size it was allocated
with. `InitWaypt` is `initWayptMission` with the constructor and `setInfo`: a
new mission, and therefore a new array, for each init. `SetIndex` writes before
the position is compared with `indexNumber`, and the answer to a settings query
replaces `info` on the receive thread, whatever the answer's error code is.
What the model asks of the application is listed in the module's head and
matters: a second `init` of the same `WaypointMission` object with more
waypoints keeps the old array (`setInfo` has the code that would free it commented
out; the mutant `InitOfMissionReused` is that case), an `init` without
settings sends a structure nobody has set, `uploadIndexData` with a position
beyond the announced number writes outside, `getIndex` with its default
callback makes `index` point to a local variable. It uploads after an init that
was confirmed; `src/sample/platform/linux/missions/mission_sample.cpp:136-150`
uploads after a failed one as well, and then the number that the receive thread
puts into `info` may differ from the one the array was allocated for.

**WaypointV2Mission**. The static `startIndex` of `missionEncode` and
`ActionsEncode` is a function of the kind of upload. How many elements fit into
a frame depends on their options, so it is any number up to `PerFrame`.
`Encode` is the end of both encoders, which come to the same: where the next
frame begins and whether this was the last. `NextRange` and `RequestEnd` are
the arithmetic of `downloadMission`. Coordinates, options and the byte layout
are left out, and so is the exchange of latitude and longitude for x and y;
the model says which elements are carried and not what they say.
`UploadIsWhole` excepts the upload right after one that ended with an error:
that one begins behind the frame that failed. An application that uploads again
after an error has to upload twice.

**SensingStream** (images of the stereo cameras). `ReadPoll` is one read of a
transfer with the branch that appends a full buffer unseen, `ByteHandler` one
byte through `storeData` and `checkStream`. A byte is named by its frame and
its place, so what the parser sees of a header is exactly whether the first
two bytes are those of a header, and images are told apart. The camera sends a header
in a transfer of its own, payloads at least as long as a header and no multiple
of the buffer, no start of frame inside a payload, and images of one length.
There is no checksum, and the append of a full buffer is not bounded: a lost
transfer of a payload longer than the buffer would let a torn image through
or run past the end; streams with losses have payloads of one transfer.

**CallbackRing** (asynchronous commands of `FlightActions` and `PSDKModule`).
`AllocUCBHandler` and `SendAsync` cut `allocUCBHandler` between its two writes,
`AckDecoder` and `UserCallBack` the decoder between its two reads. `WithinRing`
is what the application must see to: 32 commands made during the time one takes
reuse its record, and the code does not check that.

**LiveView** (H264 streams of the M300). `startH264Stream` is a sequence of
steps, `NextStep` their order, each of which may fail and leave what came
before. Any frame under way is taken at any time, also during a start or long
after a stop (`inFlight` holds frames with the number of the start they are sent
for, at most one of each position and start, in any order). `CopyCallback` and
`RecordStreamHandler` copy the callback of a position and then its user data,
and the application may be writing them meanwhile. A late frame of an
earlier start that meets the half-written entry of a later one is then given
to a callback with the other's user data: that is what the code does, no
document speaks of it, and `OwnUserData` makes no claim about that frame. It
claims that no frame is given to a callback of a start before its own, and that
the frames of the start whose callback is in the table, the first of them
included, meet its callback with its user data, whatever was lost. The
application has one stream at a time: `h264TaskHandle` holds one task, and with two streams, as
`startFPVCameraStream` and `startMainCameraStream` together would make, the
second start overwrites the handle of the first. It calls `stopH264Stream` for
a start that has succeeded and no other, for `stopHeartBeatTask` destroys
whatever the handle holds.

**MopPipelines**. The table, the count of `checkEntry`, pipeline objects and
channels with their state. `Connect` and `Accept` are the calls up to the loop
of tries, `ConnectChannel` and `AcceptChannel` one pass of it. Two threads with
pipelines of their own share the table. `CheckEntry` is one step, though the
test and the increment are two in the code: two first calls at the same time
would start two tasks. `undisposed` counts the channels that no path ever
destroys, one for each `disconnect` and each binding of a server.
Closing a channel does not fail; managers come and go while no pipeline is in
use, for a constructor clears the table of all.

## 4. The runs

| Run | Question | Bounds | Result |
|---|---|---|---|
| `subscription_sample` | Does an application like the samples ever make the SDK copy outside a buffer (`NoIllegalCopy`), or read through a stale pointer (`TopicsPointIntoBuffers`) or with the wrong offsets (`DataMatchesLayout`), and does a successful start mean that the package is sent (`StartedIsSending`)? | 2 packages, 2 topics that both may use, 2 buffers, 3 calls, 2 frames in flight each way, 2 transmissions, 2 passes | holds |
| `subscription_any` | What holds for calls of any kind in any order: the type invariant, the layout of an occupied package is frozen although it is written steps after the check (`LayoutFrozenWhileOccupied`), every call returns (`CallsReturn`). The application is `PatientSpec` | 1 package, 1 topic, 3 buffers, 2 calls | holds |
| `subscription_double_start` | Does the check in `startPackage` prevent what its comment says? | the same | no, see 6 |
| `subscription_leftover` | Is the removal of left-over packages safe? | the same | no, see 6 |
| `pack_assembly` | Do ranges and ring together keep the ledger? | ring of 6, lists of up to 8 packs, any order and repetition | holds |
| `file_sample` | Is success told for whole files and lists only (`FileComplete`, `ListComplete`), is every request answered (`Answered`), and does every transfer end (`TransferEnds`)? | 2 requests of 3 packs, 2 packs in flight, ring of 3 | holds |
| `file_path` | Does every pack go to the file its request named? | the same | no, see 6 |
| `file_any` | Is a request answered if it is begun while the one before is still ending? | 2 requests of 2 packs, 1 in flight | no, see 6 |
| `camera_sample` | Does a stop leave nothing of the stream (`NothingLeft`), has the unlocked socket one user at a time (`SocketHasOneUser`), and does each call return (`CallsReturn`)? | 3 starts, 2 reconnections before the read thread gives up | holds |
| `camera_again` | May the stream be started again? | 2 starts | no, see 6 |
| `camera_stop` | Are the callbacks whole when they are called? | 3 starts | no, see 6 |
| `programs`: WaypointMission | Does an upload write inside the array (`IndexInside`), and has the drone what was confirmed (`DroneHasUploaded`)? | 3 missions of up to 3 waypoints, 5 uploads | holds |
| `programs`: WaypointV2Mission | Is an upload that succeeded whole (`UploadIsWhole`) and a download whole and in order (`DownloadIsWhole`), in no more requests than needed (`RequestsSuffice`)? | 4 calls, up to 4 waypoints and 4 actions, up to 2 in a frame, 2 in a request, indexes modulo 8 | holds |
| `programs`: SensingStream | Is every image that came in handed on, whole, once and in order (`ImagesInOrder`), and does the parser recover from lost transfers (`Resynchronises`)? | header 3, buffer 6, payloads of 3 to 14 bytes, 6 images, 2 losses | holds |
| `programs`: CallbackRing | Does an answer lead to its own callback and user data (`OwnCallback`)? | 2 objects, rings of 3, 6 requests | holds |
| `programs`: LiveView | Does one heartbeat run while a stream does, whatever failed (`OneHeartBeat`), and has each callback its own user data (`OwnUserData`)? | 2 positions, 3 starts | holds |
| `programs`: MopPipelines | Can a pipeline be used until it is given back (`PipelineUsable`), and are all channels accounted for (`ChannelsAccounted`)? | 2 client pipelines, 1 server pipeline, 4 channels, 2 tries each | holds |

Why these bounds are enough. In the subscription a second package is what shares
a topic, a second topic what one package has and the other has not, a third
call what comes after a start and its late acknowledgement or the restart
(an unclean quit counts as a call), and two frames each way allow a
retransmission to overtake its first answer and telemetry to be in front of an
acknowledgement. Two buffers are the two packages' buffers and one that is
freed and given out again. A gap in a list is opened, split in the middle,
trimmed at either end and closed with six slots, and two packs lie beyond the
ring. Three packs are a first, a last and one between; two requests are one
that leaves something behind and one that meets it.
In `programs`: a mission after a longer and a shorter one are three; four
waypoints with frames of one or two make uploads of two, three and four frames
and a last frame that is full or not, and four calls allow an upload that fails,
one that begins behind it and two more. Four waypoints in requests of two are
the exact fit, three have a last request of one. Payloads of 3, 4 and 5 end
within the first transfer, 7 and 8 after one full buffer, 13 and 14 after two; six
images let the parser find its way again after two losses. Six requests go
round a ring of three twice. Three starts are one that fails, one that succeeds
and one after a stop. Four channels are a pipeline that fails, one that is
connected again, a binding and an accepted one.

`CHECK_DEADLOCK FALSE` stands where the program may really stop: its calls
are bounded, and an application that makes no call ends.

Each property of each passing run has a mutant in `PROJECT.json`: a variant of a
definition with a plausible mistake (named in the module before the definition
it varies) under which TLC finds the property violated.

### Fairness

`CallsReturn`: the application thread runs, so does the receive thread, the
linker's retransmission timer ends, and frames leave a full link, delivered or
lost. Nothing is assumed about answers: frames may all be lost.
`TransferEnds`: the application, the monitors and the receive thread run and
time passes. The camera need not send anything and the link may lose everything.
`CallsReturn` of the camera stream: each of the three threads runs, and the
application's callback returns. The mutex need not be fair, nor need data
arrive. A crash by a callback that was cleared ends the program and with it the
obligation.

## 5. What is proved

The runs check small instances; the theorems below hold for every value of the
constants that satisfies the assumption of the component's module: any number of
packages, topics, calls, packs, requests, frames, pipelines or bytes. The bounds
that keep the runs finite (`MaxRequests`, `MaxFrames`, ...) are constants too,
so a theorem does not depend on where they are set. The assumptions are
`SubscriptionAssumption`, `QueueAssumption` and `TotalAssumption`,
`DownloadAssumption` and `NoPackAssumption`, `StreamAssumption`,
`WaypointAssumption`, `MissionAssumption`, `SensingAssumption`,
`CallbackAssumption`, `LiveViewAssumption` and `MopAssumption`, each stated
beside its constants and evaluated by the runs.

Every invariant and every action property that a passing run checks is proved.
Most are not inductive as they stand; each section names the strengthening and
says why it is needed.

### Telemetry subscription

`SubscriptionProofs`, the first for an application that makes any call (`Spec`),
the second for one that lets its asynchronous calls end (`PatientSpec`):

| theorem | property |
| --- | --- |
| `TypeCorrect` | `[]TypeOK`; inductive as it stands |
| `LayoutFrozenTheorem` | the action property `LayoutFrozenWhileOccupied` |

`TypeCorrect` has a lemma for each group of actions (`CallTypes`,
`AppStepTypes`, `LinkStepTypes`, `EnvironmentTypes`) and one for each operator
that several actions share. `LayoutWriters` names the steps that write a layout: the
removal's clean-up and `FillPackage`. The latter writes without a look at
`occupied`, so the theorem needs the invariant `FillsFree`: from the first check
of `initPackageFromTopicList` to its last write the package is not occupied, no
asynchronous start or removal of it can be answered any more, and no handler of
it runs on the receive thread.

`SubscriptionSampleProofs`, for an application written like the samples
(`SampleSpec`):

| theorem | property |
| --- | --- |
| `SampleInvariant` | `[]SampleInv`, the inductive invariant |
| `NoIllegalCopyTheorem` | `[]NoIllegalCopy` |
| `TopicsPointIntoBuffersTheorem` | `[]TopicsPointIntoBuffers` |
| `DataMatchesLayoutTheorem` | `[]DataMatchesLayout` |
| `StartedIsSendingTheorem` | `[]StartedIsSending` |

None of the four properties is inductive: each looks at the program, and
whether it holds depends on what is on the wire. `SampleInv` adds that, in four
groups which are proved one after the other, each with one lemma per action or
group of like actions:

- `MemoryInv` (who owns which buffer, and how far a blocking call has come): a
  package with a buffer has the layout the buffer was allocated for, except
  while its removal is being carried out; two packages never share a buffer; a
  copy in progress goes to the buffer of its package.
- `LinkInv` (the links are first in, first out): requests are on their way in
  the order of their sequence numbers, no acknowledgement overtakes an older
  request, and so a call that has been confirmed has nothing older behind it.
  Hence the packages of a confirmed removal are quiet (`RemovedIsQuiet`): the
  flight controller does not send them, and none of their telemetry is in flight
  or being copied.
- `StartedAgrees` (what is sent of an occupied package agrees with its layout):
  a confirmed start means that the flight controller sends the layout asked for,
  that a request sent again is refused, and that no other request for the
  package is left which could change it.
- `PointersOwned`: every pointer of the topic table belongs to a package that is
  occupied, or in the loop of its confirmed start, and not yet cleaned up; and
  the topics that the loop of a removal has been through have no pointer.

`MemoryInv` needs `LinkInv` in two places, and they are the two the code relies
on without saying so: nothing is copied into a buffer that the confirmed removal
deletes, and no copy starts between the `delete[]` and the `NULL` of
`clearDataBuffer`, because by then the flight controller has stopped sending.

### Camera streams

`CameraStreamProofs`, about the start, the stop and the threads of one stream:

| theorem | property |
| --- | --- |
| `CameraTypes` | `Spec => []TypeOK`, for starts and stops in any order |
| `NothingLeftTheorem` | `SampleSpec => []NothingLeft` |
| `SocketTheorem` | `SampleSpec => SocketHasOneUser`, an action property |

The invariant is `StreamInv`. What it adds is what a stop relies on at each of
its steps: a thread that is to be joined either runs or has ended and can still
be joined (`Joinable`), nothing exists of a stream before its start has got as
far (`BeforeThreads`), the thread for callbacks is not there before it is
created and has ended when it is joined (`NoCallbackThread`), and after its join
no read thread is left (`AfterStop`). The socket property
follows from it action by action.

### File lists

`PackAssemblyProofs`:

| theorem | property |
| --- | --- |
| `AssemblyTypes` | `Spec => []TypeOK` |
| `RangesApartTheorem` | `Spec => []RangesApart` |
| `BufferHoldsReceivedTheorem` | `Spec => []BufferHoldsReceived` |
| `ImplementsLedgerTheorem` | `Spec => ImplementsLedger`: the refinement of `PackLedger` |

The proof has three parts. What the range handler does to one pack is stated
about any handler whose ranges are apart (`SplitPacks`, `RemovedPack`,
`AddedPack`): whichever of the cases of `AddSeqIndex` applies, the packs it
counts as received grow by that pack and by no other. `AssemblyInv` adds
`RingAgrees`: while a list is received the ring has not been dequeued, so its
head stays at the first slot and slot *n* is that of pack *n*. With these, the
handler that says complete has all packs (`CompleteIsAll`), the ring then yields
the list (`DequeuedList`), and so each step of the detailed specification is one
of the ledger or changes nothing that the ledger sees.

### File download

`FileDownloadProofs`:

| theorem | property |
| --- | --- |
| `DownloadTypes` | `Spec => []TypeOK` |
| `FileCompleteTheorem` | `SampleSpec => []FileComplete` |
| `ListCompleteTheorem` | `SampleSpec => []ListComplete` |
| `AnsweredTheorem` | `SampleSpec => []Answered` |

The type of a list that is handed on is a property of two loops. They are
described by their first element of a kind, and `LeastNumber` gives that there
is one. `DownloadInv` is the types with, for every range, that it lies within
the file (`InFileHandler`), and six parts: all threads, the monitors of earlier requests included, and all
that is on its way are busy with the latest request (`OneTransfer`); while that
is received the packs in flight are in order and none is older than what came,
because the camera is only sent back after a gap (`InOrder`); the file, if it
could be opened, whatever an earlier one left mapped, and the
ring as long as there is no gap, has what the handler counts as received
(`DataKept`, `ListKept`); a success that the receive thread is about to tell is
one of a whole file or list (`VerdictKept`); and a callback is taken away only
once it has been called (`AnswersKept`). The receive thread and the monitors
clear state and callback without a lock; the first part is where it matters that
this application makes its next request after the last one was answered.

### Missions

`MissionProofs`:

| theorem | property |
| --- | --- |
| `IndexInsideTheorem` | `WaypointSpec => []IndexInside` |
| `DroneHasUploadedTheorem` | `WaypointSpec => []DroneHasUploaded` |
| `UploadIsWholeTheorem` | `MissionSpec => []UploadIsWhole` |
| `DownloadIsWholeTheorem` | `MissionSpec => []DownloadIsWhole` |
| `RequestsSufficeTheorem` | `MissionSpec => []RequestsSuffice` |

`WaypointInv` adds that the drone, the info and the array agree on the number of
waypoints that was announced (`AnnouncedKept`), although the receive thread
overwrites the info, and that what is being sent is what was given
(`DataKept`). `MissionInv` adds that the static index of an encoder is zero
between two uploads that were not given up and has everything before it on board
during one (`IndexKept`), that each frame has brought it forward (`FramesKept`),
and what a download has of the mission so far (`RangesKept`, `DownloadKept`).
The index wraps around at `IndexMod`; no mission is that long (`NoWrap`).

### Ring of callbacks and MOP pipelines

`ModulesProofs`:

| theorem | property |
| --- | --- |
| `OwnCallbackTheorem` | `CallbackSpec => []OwnCallback` |
| `PipelineUsableTheorem` | `MopSpec => []PipelineUsable` |
| `ChannelsAccountedTheorem` | `MopSpec => []ChannelsAccounted` |

`CallbackInv` computes from its number the index that a request was given,
counted back from the newest one and around the ring (`IndexOf`). A request
that is to be answered is less than a ring behind, and its record still holds
it; the record that is taken next is none of theirs (`IndexMovesOn`). `MopInv`
adds that no pipeline is in two places of the table and no channel two
pipelines' (`UniquePlaces`), and what a connect or an accept in progress has of
its pipeline (`ClientKept`, `ServerKept`): the one is in the table before it has
a channel that works, the other has its channel first. The account of channels
uses the library's theorems on cardinalities.

### H264 streams, stereo images, and programs

`ProgramProofs`:

| theorem | property |
| --- | --- |
| `OneHeartBeatTheorem` | `LiveSpec => []OneHeartBeat` |
| `OwnUserDataTheorem` | `LiveSpec => []OwnUserData` |
| `ImagesInOrderTheorem` | `SensingSpec => []ImagesInOrder` |
| `ResynchronisesTheorem` | `SensingSpec => []Resynchronises` |
| `ProgramRunsComponents` | `ProgramSpec` implies the specification of each component |
| `ProgramTypes` | `ProgramSpec => []ProgramTypeOK` |

`LiveInv` adds that the task of the last start runs as long as there is a stream
(`HeartBeatKept`), and in `CallbacksKept` what the table holds at each step of a
start (`TableKept`: callback and user data are of one start, except between the
two writes) and that no frame, asked for, under way or in the receive thread's
hands, is of a later start than the callback of its position
(`LiveFramesKept`): the drone is asked only after the table was written, also by
the starts whose request was lost.

`ImageInv` is about what the parser has in its buffer when it looks at a byte.
Without a loss there are two cases (`TrackKept`): the buffer ends with what has
been parsed of the last frame and nothing before that begins a header
(`OnTrack`), or the frame is complete and at most its last byte is parsed once
more (`Resting`). After losses the buffer may hold a header of one frame and
bytes of another, and the argument follows first bytes of headers: where they
can stand (`FirstBytesKept`), that they stand in the order of their frames, one
perhaps twice (`FirstBytesOrdered`), and that they are of later frames than the
images already given (`FirstBytesAhead`). From these no image comes twice or out
of order. That a loss costs two images at most is an account (`CreditKept`):
the whole images and two for each loss are as many as the frames sent, less one
while the frame being parsed is missing; a buffer with a torn frame has one
frame too few in it, which the loss pays for.

`ProgramSteps` shows that a step of a program is a step of one component and a
stutter of the others. With it what was proved about the components holds in the
programs that the run `programs` checks.

Only model-checked: the liveness properties (`CallsReturn`,
`TransferEnds` of both modules). They need fairness and ENABLED, which the prover does
not handle. Its induction theorems that take an operator are out of reach as
well, so the modules use no recursion: loops of the code are described by
least elements, quantifiers and closed forms, about which the prover can reason.
Under the properties the findings violate there is nothing to prove.

## 6. Findings

* **A second asynchronous start frees memory that is being written.**
  `api/src/dji_subscription.cpp:257-260` says the check against a second
  `startPackage` prevents data being copied to illegal memory; the flag it looks
  at is only set when the acknowledgement is handled
  (`subscription_double_start`).
* **Removal of a left-over package reads uninitialised members.** The topic
  list of a package that this program never initialised decides which entries
  of the topic table are cleared (`subscription_leftover`).
* **A lost first pack sends the file elsewhere.** Only the pack with number 0
  maps the local file; without it the next packs are written to the file of the
  previous request before the gap is noticed (`file_path`).
* **A request begun while the one before is ending is lost.** The callback and
  the state are cleared after the callback without a look at whose they are
  (`file_any`).
* **A second start of a camera stream keeps the decoder locked.** `init` returns
  early with the mutex held; the read thread blocks, and so does the next
  stop. It takes a cable that is unplugged and plugged in again
  (`camera_again`).
* **A stop clears callbacks that are about to be called.** (`camera_stop`)

## 7. What is not modelled

The components with status `not_modelled` in `PROJECT.json`, each with its
reason; of the modelled ones, `getValue` (its view of the topic table is the
invariant `TopicsPointIntoBuffers`), the user's unpack callback, `verify`, the
H264 forms of the M210 streams (`startCameraH264`) and the sockets lost in a reconnection, the parsing of file names and list entries, writes past the end of a mapping, the
leak of mappings and descriptors in `MmapFileBuffer`, a second instance of
`FileMgrImpl`; of the components in `MCPrograms`, coordinates and byte layouts,
the commands that only send and return an acknowledgement, and the environments
their modules exclude (section 3).

Some properties hold in an environment that excludes the worst case of the
hazard they are about, because the code does not handle it and no document
says that it does; `PROJECT.json` says so at each hazard. They are: a package
prepared while an asynchronous start of it is under way, or prepared again and
larger while it still has the buffer of a start that was never acknowledged;
a file whose local name cannot be opened; a second call of the same callback of
a transfer; the upload of actions or waypoints right after one that failed;
more asynchronous commands under way than the ring has records; two H264
streams at a time, and a late frame of one start that meets the table of the
next half written; waypoints uploaded after an init that failed; managers of
MOP pipelines constructed while others are in use.

Most of the repository is outside all of this: the vendored UDT and STM32
libraries, the tables of error codes and topics, and several hundred methods
that build one command, send it and return the acknowledgement. They keep no
state, so there is nothing a state machine could say of them that the code
does not say in the same words.
