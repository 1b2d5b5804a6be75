---------------------------- MODULE FileDownload ----------------------------
(***************************************************************************)
(* Downloading from a camera: class FileMgrImpl (modules/src/filemgr/impl/ *)
(* dji_file_mgr_impl.cpp).                                                 *)
(*                                                                         *)
(* Three kinds of threads share the two handlers, one for the file list    *)
(* and one for file data: the application thread that starts a request,    *)
(* the receive thread of the linker, which takes packs off the USB link,   *)
(* and a monitor thread for each request, which gives up when no pack has  *)
(* come for some seconds.  The only protection is that downloadState is    *)
(* atomic.  A step of the model ends where a thread calls something that   *)
(* takes time: the camera, or the callback of the application.             *)
(***************************************************************************)
EXTENDS RangeHandler, DownloadBufferQueue

CONSTANTS
  Packs,        (* packs in a file or a list                                *)
  MaxRequests,  (* bound: requests the application makes                    *)
  MaxInFlight   (* bound: packs on their way from the camera                *)

ASSUME DownloadAssumption ==
  /\ Packs \in Nat \ {0} /\ MaxRequests \in Nat /\ MaxInFlight \in Nat

Requests == 1 .. MaxRequests
Kinds    == {"list", "data"}
Pack     == [req : Requests, kind : Kinds, seq : 0 .. Packs - 1]

ASSUME NoPackAssumption == NoPack \notin Pack

VARIABLES
  downloadState,  (* of each handler: idle or receiving                     *)
  reqCB,          (* the request whose callback is set, 0 for NULL          *)
  late,           (* updateTimeMs is older than the timeout                 *)
  range,          (* range_handler_ of each handler                         *)
  queue,          (* download_buffer_ of the list handler                   *)
  path,           (* downloadPath: the file of this request                 *)
  openable,       (* external: requests whose local file open() can open    *)
  mapped,         (* MmapFileBuffer: the mapped file and curFilePos         *)
  disk,           (* what is in the local files                             *)
  app,            (* the application thread                                 *)
  monitors,       (* the monitor thread of each request                     *)
  rx,             (* the receive thread                                     *)
  made,           (* requests made                                          *)
  answers,        (* results the callback of each request was called with   *)
  cam,            (* the transfer the camera is busy with                   *)
  wire            (* packs on their way                                     *)

handlers == <<downloadState, reqCB, late, range>>
storage  == <<queue, path, openable, mapped, disk>>
threads  == <<app, monitors, rx>>
camera   == <<cam, wire>>
vars     == <<handlers, storage, threads, made, answers, camera>>

AppIdle == [at |-> "idle", kind |-> "list"]
CamIdle == [req |-> 0, kind |-> "list", next |-> 0]
RxIdle  == [at |-> "idle", kind |-> "list", ok |-> TRUE, told |-> 0,
            list |-> <<>>]

\* A whole file, or list, of request r.
Whole(r, k) == [i \in 1 .. Packs |-> [req |-> r, kind |-> k, seq |-> i - 1]]

BothIdle == \A k \in Kinds : downloadState[k] = "idle"

\* SendAbortPack is not acknowledged: the camera stops or does not hear it.
SendAbortPack == cam' \in {cam, CamIdle}

\* The callback of request r, if there is one.
CallBack(r, result) ==
  answers' = IF r = 0 THEN answers
             ELSE [answers EXCEPT ![r] = @ \cup {result}]

-----------------------------------------------------------------------------
(* The application thread.                                                 *)

\* startReqFileList looks at both states, and then asks for the name rule.
StartReqFileList ==
  /\ app.at = "idle" /\ made < MaxRequests
  /\ BothIdle
  /\ made' = made + 1
  /\ app' = [at |-> "name", kind |-> "list"]
  /\ UNCHANGED <<handlers, storage, monitors, rx, answers, camera>>

\* From there to the request: the monitor's task is created before the request
\* is sent.
PrepareFileList ==
  /\ app.at = "name"
  /\ downloadState' = [downloadState EXCEPT !["list"] = "receiving"]
  /\ queue' = InitBufferQueue(0)
  /\ range' = [range EXCEPT !["list"] = NoPackReceived]
  /\ monitors' = [monitors EXCEPT ![made] = [at |-> "created", kind |-> "list"]]
  /\ reqCB' = [reqCB EXCEPT !["list"] = made]
  /\ app' = [app EXCEPT !.at = "send"]
  /\ UNCHANGED <<late, path, openable, mapped, disk, rx, made, answers,
                 camera>>

\* startReqFileData up to the request, with a path that can be opened or not.
StartReqFileData ==
  /\ app.at = "idle" /\ made < MaxRequests
  /\ BothIdle
  /\ made' = made + 1
  /\ downloadState' = [downloadState EXCEPT !["data"] = "receiving"]
  /\ path' = made + 1
  /\ openable' \in {openable, openable \cup {made + 1}}
  /\ reqCB' = [reqCB EXCEPT !["data"] = made + 1]
  /\ range' = [range EXCEPT !["data"] = NoPackReceived]
  /\ monitors' = [monitors EXCEPT
                    ![made + 1] = [at |-> "created", kind |-> "data"]]
  /\ app' = [at |-> "send", kind |-> "data"]
  /\ UNCHANGED <<late, queue, mapped, disk, rx, answers, camera>>

\* SendReqFileListPack and SendReqFileDataPack.  Whatever they return goes to
\* the caller; the state stays as it is.
SendReqPack ==
  /\ app.at = "send"
  /\ cam' \in {cam, [req |-> made, kind |-> app.kind, next |-> 0]}
  /\ app' = AppIdle
  /\ UNCHANGED <<handlers, storage, monitors, rx, made, answers, wire>>

-----------------------------------------------------------------------------
(* The monitor threads.                                                    *)

MonitorStart(r) ==
  /\ monitors[r].at = "created"
  /\ monitors' = [monitors EXCEPT ![r].at = "poll"]
  /\ late' = [late EXCEPT ![monitors[r].kind] = FALSE]
  /\ UNCHANGED <<downloadState, reqCB, range, storage, app, rx, made, answers,
                 camera>>

MonitorTimeout(r) ==
  /\ monitors[r].at = "poll"
  /\ late[monitors[r].kind]
  /\ downloadState[monitors[r].kind] = "receiving"
  /\ SendAbortPack
  /\ monitors' = [monitors EXCEPT ![r].at = "abort"]
  /\ UNCHANGED <<handlers, storage, app, rx, made, answers, wire>>

\* The pointer to the callback is not cleared.
MonitorCallBack(r) ==
  /\ monitors[r].at = "abort"
  /\ CallBack(reqCB[monitors[r].kind], "error")
  /\ monitors' = [monitors EXCEPT ![r].at = "called"]
  /\ UNCHANGED <<handlers, storage, app, rx, made, camera>>

\* The state is left as it is.
FinishKeepsState(r) ==
  /\ monitors[r].at = "called"
  /\ monitors' = [monitors EXCEPT ![r].at = "poll"]
  /\ UNCHANGED <<handlers, storage, app, rx, made, answers, camera>>

MonitorFinish(r) ==
  /\ monitors[r].at = "called"
  /\ downloadState' = [downloadState EXCEPT ![monitors[r].kind] = "idle"]
  /\ monitors' = [monitors EXCEPT ![r].at = "poll"]
  /\ UNCHANGED <<reqCB, late, range, storage, app, rx, made, answers, camera>>

\* SendMissedAckPack, for file data only: the first gap is reported, and the
\* camera goes back to it, if it hears of it and is still sending.  The report
\* without a gap, of what was received so far, changes nothing.
SendMissedAckPack(r) ==
  /\ monitors[r].at = "poll" /\ monitors[r].kind = "data"
  /\ downloadState["data"] = "receiving" /\ range["data"].ranges # <<>>
  /\ cam.req # 0
  /\ cam' \in {cam, [cam EXCEPT !.next = range["data"].ranges[1].seq]}
  /\ UNCHANGED <<handlers, storage, threads, made, answers, wire>>

MonitorExit(r) ==
  /\ monitors[r].at = "poll"
  /\ downloadState[monitors[r].kind] = "idle"
  /\ monitors' = [monitors EXCEPT ![r].at = "none"]
  /\ UNCHANGED <<handlers, storage, app, rx, made, answers, camera>>

\* Time passes without a pack.
Elapse(k) ==
  /\ downloadState[k] = "receiving" /\ ~late[k]
  /\ late' = [late EXCEPT ![k] = TRUE]
  /\ UNCHANGED <<downloadState, reqCB, range, storage, threads, made, answers,
                 camera>>

-----------------------------------------------------------------------------
(* The receive thread.                                                     *)

\* The next pack, when the thread is not in a callback.
NextPack == /\ rx.at = "idle" /\ Len(wire) > 0
            /\ wire' = Tail(wire)
            /\ UNCHANGED <<app, monitors, made, answers, reqCB, downloadState>>

\* A pack for a handler that is idle.
IgnorePack ==
  /\ NextPack
  /\ downloadState[Head(wire).kind] = "idle"
  /\ UNCHANGED <<late, range, storage, rx, cam>>

\* The pack carries the flag of the last one, and is the greatest received.
ReachedEnd(pack, h) == pack.seq = Packs - 1 /\ h.last = pack.seq + 1

\* The list may lack packs.
FinishedWithGaps(pack, h) == ReachedEnd(pack, h)

ListFinished(pack, h) == ReachedEnd(pack, h) /\ h.ranges = <<>>

\* fileListRawDataCB up to the callback.
FileListRawDataCB ==
  LET pack == Head(wire)
      q == InsertBlock(queue, pack.seq, pack)
      h == AddSeqIndex(range["list"], pack.seq, ConfirmLimit(q))
  IN  /\ NextPack
      /\ pack.kind = "list" /\ downloadState["list"] = "receiving"
      /\ range' = [range EXCEPT !["list"] = h]
      /\ late' = [late EXCEPT !["list"] = FALSE]
      /\ IF ListFinished(pack, h)
         THEN /\ queue' = AfterDequeueAll(q)
              /\ SendAbortPack
              /\ rx' = [RxIdle EXCEPT !.at = "verdict",
                                      !.list = DequeuedPacks(q)]
         ELSE queue' = q /\ UNCHANGED <<cam, rx>>
      /\ UNCHANGED <<path, openable, mapped, disk>>

\* MmapFileBuffer::init, which the first pack of a file causes.  If the file
\* cannot be opened, the mapping of the file before stays, from its beginning.
MapFile(pack) ==
  CASE pack.seq # 0                         -> mapped
    [] pack.seq = 0 /\ path \in openable    -> [file |-> path, pos |-> 0]
    [] pack.seq = 0 /\ path \notin openable -> [mapped EXCEPT !.pos = 0]

\* parseFileData, which does not ask whether the file was mapped: the pack goes
\* to the mapping there is, after what is there, or nowhere.  What lies beyond
\* the end of the mapping is not modelled.
ParseFileData(pack) ==
  LET m == MapFile(pack)
  IN  IF m.file = 0
      THEN mapped' = m /\ UNCHANGED disk
      ELSE /\ mapped' = [m EXCEPT !.pos = @ + 1]
           /\ disk' = IF m.pos < Packs
                      THEN [disk EXCEPT ![m.file][m.pos + 1] = pack]
                      ELSE disk

\* Only the end of the file is looked for.
LossUnnoticed(h) == FALSE

\* A gap below the pack: the download is given up, and nothing sent again.
PackLoss(h) == h.ranges # <<>>

\* fileDataRawDataCB up to the callback.
FileDataRawDataCB ==
  LET pack == Head(wire)
      h == AddSeqIndex(range["data"], pack.seq, pack.seq)
  IN  /\ NextPack
      /\ pack.kind = "data" /\ downloadState["data"] = "receiving"
      /\ range' = [range EXCEPT !["data"] = h]
      /\ late' = [late EXCEPT !["data"] = FALSE]
      /\ ParseFileData(pack)
      /\ IF PackLoss(h) \/ ReachedEnd(pack, h)
         THEN /\ SendAbortPack
              /\ rx' = [RxIdle EXCEPT !.at = "verdict", !.kind = "data",
                                      !.ok = ~PackLoss(h)]
         ELSE UNCHANGED <<cam, rx>>
      /\ UNCHANGED <<queue, path, openable>>

\* The callback is cleared before it is called.
ClearThenCall ==
  /\ rx.at = "verdict"
  /\ reqCB' = [reqCB EXCEPT ![rx.kind] = 0]
  /\ rx' = [rx EXCEPT !.at = "called", !.told = 0]
  /\ UNCHANGED <<downloadState, late, range, storage, app, monitors, made,
                 answers, camera>>

\* The callback of the application is called while the state is still receiving.
RxCallBack ==
  /\ rx.at = "verdict"
  /\ CallBack(reqCB[rx.kind], IF rx.ok THEN "ok" ELSE "error")
  /\ rx' = [rx EXCEPT !.at = "called", !.told = reqCB[rx.kind]]
  /\ UNCHANGED <<handlers, storage, app, monitors, made, camera>>

RxFinish ==
  /\ rx.at = "called"
  /\ reqCB' = IF rx.told = 0 THEN reqCB ELSE [reqCB EXCEPT ![rx.kind] = 0]
  /\ downloadState' = [downloadState EXCEPT ![rx.kind] = "idle"]
  /\ rx' = RxIdle
  /\ UNCHANGED <<late, range, storage, app, monitors, made, answers, camera>>

-----------------------------------------------------------------------------
(* The camera and the link (external): packs are sent in order, and packs  *)
(* are lost.                                                               *)

CameraSends ==
  /\ cam.req # 0 /\ Len(wire) < MaxInFlight
  /\ wire' = Append(wire, [req |-> cam.req, kind |-> cam.kind,
                           seq |-> cam.next])
  /\ cam' = IF cam.next = Packs - 1 THEN CamIdle
            ELSE [cam EXCEPT !.next = @ + 1]
  /\ UNCHANGED <<handlers, storage, threads, made, answers>>

LosePack ==
  /\ Len(wire) > 0 /\ wire' = Tail(wire)
  /\ UNCHANGED <<handlers, storage, threads, made, answers, cam>>

-----------------------------------------------------------------------------

Init ==
  /\ downloadState = [k \in Kinds |-> "idle"]
  /\ reqCB = [k \in Kinds |-> 0]
  /\ late \in [Kinds -> BOOLEAN]     \* updateTimeMs is not initialised
  /\ range = [k \in Kinds |-> NoPackReceived]
  /\ queue = InitBufferQueue(0)
  /\ path = 0
  /\ openable = {}
  /\ mapped = [file |-> 0, pos |-> 0]
  /\ disk = [r \in Requests |-> [i \in 1 .. Packs |-> NoPack]]
  /\ app = AppIdle
  /\ monitors = [r \in Requests |-> [at |-> "none", kind |-> "list"]]
  /\ rx = RxIdle
  /\ made = 0
  /\ answers = [r \in Requests |-> {}]
  /\ cam = CamIdle
  /\ wire = <<>>

Monitor(r) ==
  \/ MonitorStart(r) \/ MonitorTimeout(r) \/ MonitorCallBack(r)
  \/ MonitorFinish(r) \/ SendMissedAckPack(r) \/ MonitorExit(r)

ReceiveThread ==
  IgnorePack \/ FileListRawDataCB \/ FileDataRawDataCB \/ RxCallBack \/ RxFinish

Running ==
  \/ PrepareFileList \/ SendReqPack
  \/ \E r \in Requests : Monitor(r)
  \/ \E k \in Kinds : Elapse(k)
  \/ ReceiveThread \/ CameraSends \/ LosePack

StartRequest == StartReqFileList \/ StartReqFileData

Next == StartRequest \/ Running

Spec == Init /\ [][Next]_vars

\* No thread is in the middle of a request.
Settled ==
  /\ BothIdle /\ app.at = "idle" /\ rx.at = "idle"
  /\ \A r \in Requests : monitors[r].at \notin {"abort", "called"}

\* The download sample: the next request is made a while after the callback
\* of the one before, when the camera has been put in playback mode again.
SampleStart ==
  /\ Settled /\ cam = CamIdle /\ wire = <<>>
  /\ made > 0 => answers[made] # {}
  /\ StartRequest

SampleNext == SampleStart \/ Running

\* The threads run, and time passes.
Fairness ==
  /\ WF_vars(PrepareFileList \/ SendReqPack)
  /\ \A r \in Requests : WF_vars(Monitor(r))
  /\ \A k \in Kinds : WF_vars(Elapse(k))
  /\ WF_vars(ReceiveThread)

SampleSpec == Init /\ [][SampleNext]_vars /\ Fairness

-----------------------------------------------------------------------------
(* Properties.                                                             *)

\* Every variable has its type.
TypeOK ==
  /\ downloadState \in [Kinds -> {"idle", "receiving"}]
  /\ reqCB \in [Kinds -> 0 .. MaxRequests]
  /\ late \in [Kinds -> BOOLEAN]
  /\ range \in [Kinds -> HandlerType]
  /\ queue \in QueueType(Pack)
  /\ path \in 0 .. MaxRequests
  /\ openable \subseteq Requests
  /\ mapped \in [file : 0 .. MaxRequests, pos : Nat]
  /\ disk \in [Requests -> [1 .. Packs -> Pack \cup {NoPack}]]
  /\ app \in [at : {"idle", "name", "send"}, kind : Kinds]
  /\ monitors \in [Requests ->
       [at : {"none", "created", "poll", "abort", "called"}, kind : Kinds]]
  /\ rx \in [at : {"idle", "verdict", "called"}, kind : Kinds, ok : BOOLEAN,
             told : 0 .. MaxRequests, list : Seq(Pack)]
  /\ made \in 0 .. MaxRequests
  /\ answers \in [Requests -> SUBSET {"ok", "error"}]
  /\ cam \in [req : 0 .. MaxRequests, kind : Kinds, next : 0 .. Packs - 1]
  /\ wire \in Seq(Pack)

\* When the callback of a file is told that the download succeeded, and the
\* local file could be opened, it holds all packs of that file in their order,
\* whatever was lost, and whether or not the file of an earlier request could
\* be opened.  Of a file that cannot be opened nothing is claimed: the result of
\* the mapping is ignored, and success is told all the same.
FileComplete ==
  rx.at = "called" /\ rx.kind = "data" /\ rx.ok /\ rx.told \in openable =>
    disk[rx.told] = Whole(rx.told, "data")

\* When the callback of a file list is told that it succeeded, it is given all
\* packs of that list in their order.
ListComplete ==
  rx.at = "called" /\ rx.kind = "list" /\ rx.told # 0 =>
    rx.list = Whole(rx.told, "list")

\* A request that was started has had its callback called when both handlers
\* are idle again and no thread is in the middle of a request.
Answered == Settled => \A r \in 1 .. made : answers[r] # {}

\* Packs are saved in the file that their request named, if it can be opened.
SavedAtLocalPath ==
  \A r \in Requests, i \in 1 .. Packs :
    disk[r][i] # NoPack /\ disk[r][i].req \in openable => disk[r][i].req = r

\* Every transfer ends, whatever is lost: its handler can be used again.
TransferEnds ==
  \A k \in Kinds : downloadState[k] = "receiving" ~> downloadState[k] = "idle"

=============================================================================
