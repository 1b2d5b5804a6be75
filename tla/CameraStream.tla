---------------------------- MODULE CameraStream ----------------------------
(***************************************************************************)
(* The camera stream of the M210 V2: class DJICameraStream with its link   *)
(* and its decoder (advanced-sensing/camera_stream/src).                   *)
(*                                                                         *)
(* Three threads share one stream: the application, which starts and stops *)
(* it, the read thread, which takes data off the socket and decodes it     *)
(* under a mutex, and the callback thread, which hands new images to the   *)
(* application's callback.  Flags, callbacks and the socket are unlocked.  *)
(***************************************************************************)
EXTENDS Naturals

CONSTANTS
  Retries,     (* reconnections before the read thread gives up (10)        *)
  MaxStarts    (* bound: calls of startCameraStream                         *)

ASSUME StreamAssumption == Retries \in Nat /\ MaxStarts \in Nat

VARIABLES
  connected,      (* fHandle is a connected socket                          *)
  isRunning,      (* DJICameraStreamLink::isRunning                         *)
  threadStatus,   (* threadStatus is 0: there is a read thread to join      *)
  linkCB,         (* cb of the link is set                                  *)
  reader,         (* the read thread, and retryConnect                      *)
  decodemutex,    (* who holds the mutex of the decoder                     *)
  initSuccess,    (* the decoder has its contexts                           *)
  decoderCB,      (* cb of the decoder is set                               *)
  cbRunning,      (* cbThreadIsRunning                                      *)
  cbStatus,       (* cbThreadStatus is 0                                    *)
  cbThread,       (* the callback thread                                    *)
  newImage,       (* m_newImageFlag                                         *)
  app,            (* the application thread                                 *)
  wantsCB,        (* the start in progress has a callback                   *)
  started,        (* the last start returned true, and no stop came since   *)
  starts,         (* calls of startCameraStream so far                      *)
  crashed         (* a thread has called through a pointer that is gone     *)

linkVars    == <<connected, isRunning, threadStatus, linkCB, reader>>
decoderVars == <<decodemutex, initSuccess, newImage>>
cbVars      == <<decoderCB, cbRunning, cbStatus, cbThread>>
appVars     == <<app, wantsCB, started, starts>>
vars        == <<linkVars, decoderVars, cbVars, appVars, crashed>>

\* No call in progress.  "failed": a start returned false for a reason that
\* leaves no way but to restart the program.
AtRest == app \in {"idle", "failed"}

NoReader == [at |-> "none", tries |-> 0]

-----------------------------------------------------------------------------
(* startCameraStream.                                                      *)

\* rawDataStream->init(): a new socket, whatever fHandle was before.
Start(withCB) ==
  /\ starts < MaxStarts
  /\ starts' = starts + 1
  /\ wantsCB' = withCB
  /\ \/ connected' = TRUE /\ app' = "decoder" /\ UNCHANGED started
     \/ connected' = FALSE /\ app' = "idle" /\ started' = FALSE
  /\ UNCHANGED <<isRunning, threadStatus, linkCB, reader, decoderVars, cbVars,
                 crashed>>

\* The new contexts are set up and the mutex is kept.
InitKeepsLock ==
  /\ app = "decoder" /\ decodemutex = "free"
  /\ \/ initSuccess /\ app' = "link" /\ UNCHANGED <<initSuccess, started>>
     \/ /\ ~initSuccess /\ initSuccess' = TRUE
        /\ app' = "link" /\ UNCHANGED started
     \/ /\ ~initSuccess /\ app' = "failed" /\ started' = FALSE
        /\ UNCHANGED initSuccess
  /\ decodemutex' = "app"
  /\ UNCHANGED <<linkVars, newImage, cbVars, wantsCB, starts, crashed>>

\* decoder->init(): only its last return unlocks the mutex, the one for a
\* decoder that is initialised already and the ones for an error do not.
DecoderInit ==
  /\ app = "decoder" /\ decodemutex = "free"
  /\ \/ /\ initSuccess
        /\ decodemutex' = "app" /\ app' = "link"
        /\ UNCHANGED <<initSuccess, started>>
     \/ /\ ~initSuccess
        /\ initSuccess' = TRUE /\ app' = "link"
        /\ UNCHANGED <<decodemutex, started>>
     \/ /\ ~initSuccess
        /\ decodemutex' = "app" /\ app' = "failed" /\ started' = FALSE
        /\ UNCHANGED initSuccess
  /\ UNCHANGED <<linkVars, newImage, cbVars, wantsCB, starts, crashed>>

\* registerCallback and rawDataStream->start() up to pthread_create.
LinkStart ==
  /\ app = "link"
  /\ linkCB' = TRUE
  /\ \/ /\ ~isRunning
        /\ reader' = [at |-> "loop", tries |-> 0]
        /\ threadStatus' = TRUE
        /\ app' = "running" /\ UNCHANGED started
     \/ /\ ~isRunning /\ threadStatus' = FALSE      \* no thread was created
        /\ app' = "failed" /\ started' = FALSE /\ UNCHANGED reader
     \/ /\ isRunning /\ app' = "idle"               \* already reading data
        /\ UNCHANGED <<reader, threadStatus, started>>
  /\ UNCHANGED <<connected, isRunning, decoderVars, cbVars, wantsCB, starts,
                 crashed>>

\* The rest of it: the flag is set when the thread already runs.
LinkRunning ==
  /\ app = "running"
  /\ isRunning' = TRUE
  /\ app' = "callback"
  /\ UNCHANGED <<connected, threadStatus, linkCB, reader, decoderVars, cbVars,
                 wantsCB, started, starts, crashed>>

\* decoder->registerCallback(cb, cbParam) up to pthread_create.
RegisterCallback ==
  /\ app = "callback" /\ wantsCB
  /\ decoderCB' = TRUE
  /\ \/ /\ ~cbRunning /\ cbThread' = "loop" /\ cbStatus' = TRUE
        /\ app' = "cbrunning" /\ UNCHANGED started
     \/ /\ ~cbRunning /\ cbStatus' = FALSE          \* no thread was created
        /\ app' = "failed" /\ started' = FALSE /\ UNCHANGED cbThread
     \/ /\ cbRunning /\ app' = "idle" /\ started' = TRUE
        /\ UNCHANGED <<cbThread, cbStatus>>
  /\ UNCHANGED <<linkVars, decoderVars, cbRunning, wantsCB, starts, crashed>>

CallbackRunning ==
  /\ app = "cbrunning"
  /\ cbRunning' = TRUE
  /\ app' = "idle" /\ started' = TRUE
  /\ UNCHANGED <<linkVars, decoderVars, decoderCB, cbStatus, cbThread, wantsCB,
                 starts, crashed>>

\* A stream without a callback: registerCallback(NULL), which joins the
\* callback thread of an earlier start if there is one.
UnregisterCallback(at, next) ==
  /\ app = at
  /\ decoderCB' = FALSE
  /\ cbRunning' = (cbRunning /\ ~cbStatus)
  /\ app' = next
  /\ UNCHANGED <<linkVars, decoderVars, cbStatus, cbThread, wantsCB, started,
                 starts, crashed>>

\* The join is made for a thread that is still meant to run.
JoinWhileRunning(at) ==
  /\ app = at
  /\ cbRunning /\ cbStatus => cbThread = "none"
  /\ cbStatus' = FALSE
  /\ UNCHANGED <<linkVars, decoderVars, decoderCB, cbRunning, cbThread,
                 wantsCB, starts, crashed>>

\* The join, where cbStatus says that there is something to join.
JoinCallback(at) ==
  /\ app = at
  /\ cbStatus => cbThread = "none"
  /\ cbStatus' = FALSE
  /\ UNCHANGED <<linkVars, decoderVars, decoderCB, cbRunning, cbThread,
                 wantsCB, starts, crashed>>

StartWithoutCallback ==
  \/ ~wantsCB /\ UnregisterCallback("callback", "nocb")
  \/ JoinCallback("nocb") /\ app' = "idle" /\ started' = TRUE

-----------------------------------------------------------------------------
(* stopCameraStream and getCurrentImage.                                   *)

\* Of stopCameraStream: decoder->registerCallback(NULL, NULL).
StopCallback == UnregisterCallback("idle", "stopcb")

StopCallbackJoin ==
  JoinCallback("stopcb") /\ app' = "stoplink" /\ UNCHANGED started

\* rawDataStream->registerCallback(NULL, NULL) and the flag of stop().
StopLink ==
  /\ app = "stoplink"
  /\ linkCB' = FALSE
  /\ isRunning' = FALSE
  /\ app' = "join"
  /\ UNCHANGED <<connected, threadStatus, reader, decoderVars, cbVars, wantsCB,
                 started, starts, crashed>>

\* The socket is closed, and the read thread left to end by itself.
NoJoin ==
  /\ app = "join"
  /\ threadStatus' = FALSE
  /\ connected' = FALSE
  /\ app' = "cleanup"
  /\ UNCHANGED <<isRunning, linkCB, reader, decoderVars, cbVars, wantsCB,
                 started, starts, crashed>>

\* pthread_join and unInit().
JoinReader ==
  /\ app = "join"
  /\ threadStatus => reader.at = "none"
  /\ threadStatus' = FALSE
  /\ connected' = FALSE
  /\ app' = "cleanup"
  /\ UNCHANGED <<isRunning, linkCB, reader, decoderVars, cbVars, wantsCB,
                 started, starts, crashed>>

\* decoder->cleanup().
DecoderCleanup ==
  /\ app = "cleanup" /\ decodemutex = "free"
  /\ initSuccess' = FALSE
  /\ app' = "idle" /\ started' = FALSE
  /\ UNCHANGED <<linkVars, decodemutex, newImage, cbVars, wantsCB, starts,
                 crashed>>

\* Taken or waited for and not taken; either way nothing else changes.
GetCurrentImage ==
  /\ app = "idle" /\ newImage
  /\ newImage' = FALSE
  /\ UNCHANGED <<linkVars, decodemutex, initSuccess, cbVars, appVars, crashed>>

-----------------------------------------------------------------------------
(* The read thread.                                                        *)

ReaderAt(at) == reader' = [reader EXCEPT !.at = at]

\* Data was received, and the callback was not NULL when it was tested.
Receive ==
  /\ reader.at = "loop" /\ isRunning
  /\ connected /\ linkCB
  /\ ReaderAt("got")
  /\ UNCHANGED <<connected, isRunning, threadStatus, linkCB, decoderVars,
                 cbVars, appVars, crashed>>

\* The callback and its parameter are read again for the call.  If they have
\* been cleared since, what was loaded is the old value or NULL.
CallDecode ==
  /\ reader.at = "got"
  /\ \/ ReaderAt("lock") /\ UNCHANGED crashed
     \/ ~linkCB /\ crashed' = TRUE /\ UNCHANGED reader
  /\ UNCHANGED <<connected, isRunning, threadStatus, linkCB, decoderVars,
                 cbVars, appVars>>

\* decodeBuffer takes the mutex, decodes, and writes an image when one is
\* complete and there are contexts.
DecodeBegin ==
  /\ reader.at = "lock" /\ decodemutex = "free"
  /\ decodemutex' = "reader"
  /\ ReaderAt("decode")
  /\ UNCHANGED <<connected, isRunning, threadStatus, linkCB, initSuccess,
                 newImage, cbVars, appVars, crashed>>

DecodeEnd ==
  /\ reader.at = "decode"
  /\ newImage' \in IF initSuccess THEN {newImage, TRUE} ELSE {newImage}
  /\ decodemutex' = "free"
  /\ ReaderAt("loop")
  /\ UNCHANGED <<connected, isRunning, threadStatus, linkCB, initSuccess,
                 cbVars, appVars, crashed>>

\* Nothing could be read ten times: the link is set up again.
ConnectionLost ==
  /\ reader.at = "loop" /\ isRunning
  /\ reader' = [at |-> "reconnect", tries |-> 0]
  /\ UNCHANGED <<connected, isRunning, threadStatus, linkCB, decoderVars,
                 cbVars, appVars, crashed>>

Reconnect ==
  /\ reader.at = "reconnect"
  /\ \/ connected' = TRUE /\ ReaderAt("loop")
     \/ /\ connected' = FALSE
        /\ \/ ~isRunning /\ ReaderAt("loop")
           \/ /\ isRunning /\ reader.tries < Retries
              /\ reader' = [reader EXCEPT !.tries = @ + 1]
  /\ UNCHANGED <<isRunning, threadStatus, linkCB, decoderVars, cbVars, appVars,
                 crashed>>

\* It is given up only by the attempt after the last.
GiveUpLate ==
  /\ reader.at = "reconnect" /\ isRunning
  /\ \/ reader.tries <= Retries /\ reader' = [reader EXCEPT !.tries = @ + 1]
        /\ UNCHANGED isRunning
     \/ reader.tries > Retries /\ reader' = NoReader /\ isRunning' = FALSE
  /\ connected' = FALSE
  /\ UNCHANGED <<threadStatus, linkCB, decoderVars, cbVars, appVars, crashed>>

\* The last attempt fails: the thread ends by itself.
GiveUp ==
  /\ reader.at = "reconnect" /\ isRunning /\ reader.tries = Retries
  /\ connected' = FALSE
  /\ isRunning' = FALSE
  /\ reader' = NoReader
  /\ UNCHANGED <<threadStatus, linkCB, decoderVars, cbVars, appVars, crashed>>

\* isRunning is false: unInit() and the end.
ReaderEnd ==
  /\ reader.at = "loop" /\ ~isRunning
  /\ connected' = FALSE
  /\ reader' = NoReader
  /\ UNCHANGED <<isRunning, threadStatus, linkCB, decoderVars, cbVars, appVars,
                 crashed>>

-----------------------------------------------------------------------------
(* The callback thread.  Its wait for an image ends at once, because the   *)
(* second added to tv_nsec makes an invalid time of it.                    *)

TakeImage ==
  /\ cbThread = "loop" /\ cbRunning /\ newImage
  /\ newImage' = FALSE
  /\ cbThread' = IF decoderCB THEN "got" ELSE "loop"
  /\ UNCHANGED <<linkVars, decodemutex, initSuccess, decoderCB, cbRunning,
                 cbStatus, appVars, crashed>>

\* The image is copied for the call, and the callback read again.
CallUser ==
  /\ cbThread = "got"
  /\ \/ cbThread' = "called" /\ UNCHANGED crashed
     \/ ~decoderCB /\ crashed' = TRUE /\ UNCHANGED cbThread
  /\ UNCHANGED <<linkVars, decoderVars, decoderCB, cbRunning, cbStatus, appVars>>

UserReturns ==
  /\ cbThread = "called"
  /\ cbThread' = "loop"
  /\ UNCHANGED <<linkVars, decoderVars, decoderCB, cbRunning, cbStatus, appVars,
                 crashed>>

CallbackThreadEnd ==
  /\ cbThread = "loop" /\ ~cbRunning
  /\ cbThread' = "none"
  /\ UNCHANGED <<linkVars, decoderVars, decoderCB, cbRunning, cbStatus, appVars,
                 crashed>>

-----------------------------------------------------------------------------

Init ==
  /\ connected = FALSE /\ isRunning = FALSE /\ threadStatus = FALSE
  /\ linkCB = FALSE /\ reader = NoReader
  /\ decodemutex = "free" /\ initSuccess = FALSE /\ newImage = FALSE
  /\ decoderCB = FALSE /\ cbRunning = FALSE /\ cbStatus = FALSE
  /\ cbThread = "none"
  /\ app = "idle" /\ wantsCB = FALSE /\ started = FALSE /\ starts = 0
  /\ crashed = FALSE

\* The steps of a call that has begun.
AppStep ==
  \/ DecoderInit \/ LinkStart \/ LinkRunning
  \/ RegisterCallback \/ CallbackRunning \/ StartWithoutCallback
  \/ StopCallbackJoin \/ StopLink \/ JoinReader \/ DecoderCleanup

ReadThread ==
  \/ Receive \/ CallDecode \/ DecodeBegin \/ DecodeEnd
  \/ ConnectionLost \/ Reconnect \/ GiveUp \/ ReaderEnd

CallbackThread == TakeImage \/ CallUser \/ UserReturns \/ CallbackThreadEnd

Running == AppStep \/ ReadThread \/ CallbackThread \/ GetCurrentImage

AnyStart == app = "idle" /\ \E withCB \in BOOLEAN : Start(withCB)
AnyStop  == StopCallback

\* An application that starts and stops as it likes, until a start fails for
\* good.
Next == ~crashed /\ (AnyStart \/ AnyStop \/ Running)

Spec == Init /\ [][Next]_vars

\* The samples: a stream that was started is stopped before the next start.
SampleNext ==
  /\ ~crashed
  /\ \/ ~started /\ AnyStart
     \/ started /\ AnyStop
     \/ Running

\* The threads run, and the application's callback returns.
Fairness == /\ WF_vars(~crashed /\ AppStep)
            /\ WF_vars(~crashed /\ ReadThread)
            /\ WF_vars(~crashed /\ CallbackThread)

SampleSpec == Init /\ [][SampleNext]_vars /\ Fairness

-----------------------------------------------------------------------------
(* Properties.                                                             *)

\* Every variable has its type.
TypeOK ==
  /\ connected \in BOOLEAN /\ isRunning \in BOOLEAN
  /\ threadStatus \in BOOLEAN /\ linkCB \in BOOLEAN
  /\ reader \in [at : {"none", "loop", "got", "lock", "decode", "reconnect"},
                 tries : 0 .. Retries]
  /\ decodemutex \in {"free", "app", "reader"}
  /\ initSuccess \in BOOLEAN /\ newImage \in BOOLEAN
  /\ decoderCB \in BOOLEAN /\ cbRunning \in BOOLEAN /\ cbStatus \in BOOLEAN
  /\ cbThread \in {"none", "loop", "got", "called"}
  /\ app \in {"idle", "failed", "decoder", "link", "running", "callback",
              "cbrunning", "nocb", "stopcb", "stoplink", "join", "cleanup"}
  /\ wantsCB \in BOOLEAN /\ started \in BOOLEAN
  /\ starts \in 0 .. MaxStarts
  /\ crashed \in BOOLEAN

\* Between a stop, or a start that did not find the camera, and the next start
\* nothing is left of the stream: no thread, no lock, no socket, no decoder.
NothingLeft ==
  app = "idle" /\ ~started =>
    /\ reader.at = "none" /\ cbThread = "none"
    /\ decodemutex = "free" /\ ~initSuccess /\ ~connected

\* fHandle has no lock: the application replaces or closes the socket only
\* when there is no read thread.
SocketHasOneUser ==
  [][connected' # connected /\ reader' = reader => reader.at = "none"]_vars

\* Every call returns, stopCameraStream with its two joins and its lock
\* included, unless the program crashes meanwhile.
CallsReturn == ~AtRest ~> AtRest \/ crashed

\* A start that returns true, or false for a reason that leaves the stream
\* usable, has given the decoder's mutex back.
NoLockKept == app = "idle" => decodemutex # "app"

\* A callback and its parameter are not taken away between the test and the
\* call: no thread ever calls through a pointer that is gone.
NoCallThroughNull == ~crashed

=============================================================================
