-------------------------- MODULE CameraStreamProofs --------------------------
(***************************************************************************)
(* Proofs about the camera stream, for every number of reconnections and   *)
(* of starts: its type invariant for any application, and for one that     *)
(* stops what it has started, that a stop leaves nothing behind and that   *)
(* the socket is never used by two threads.                                *)
(***************************************************************************)
EXTENDS CameraStream, TLAPS

-----------------------------------------------------------------------------
(* Types.                                                                  *)

\* The steps of the application keep the types.
LEMMA AppKeepsTypes ==
  ASSUME TypeOK, AnyStart \/ AnyStop \/ AppStep \/ GetCurrentImage
  PROVE  TypeOK'
<1> USE StreamAssumption DEF linkVars, decoderVars, cbVars, appVars
<1>1. CASE AnyStart
  <2>1. /\ connected' \in BOOLEAN
       /\ wantsCB' \in BOOLEAN
       /\ started' \in BOOLEAN
    BY <1>1 DEF AnyStart, Start, TypeOK
  <2> QED
    BY <1>1, <2>1 DEF AnyStart, Start, TypeOK
<1>2. CASE AnyStop
  <2>1. decoderCB' \in BOOLEAN /\ cbRunning' \in BOOLEAN
    BY <1>2 DEF AnyStop, StopCallback, UnregisterCallback, TypeOK
  <2> QED
    BY <1>2, <2>1 DEF AnyStop, StopCallback, UnregisterCallback, TypeOK
<1>3. CASE DecoderInit
  <2>1. initSuccess' \in BOOLEAN /\ started' \in BOOLEAN
    BY <1>3 DEF DecoderInit, TypeOK
  <2> QED
    BY <1>3, <2>1 DEF DecoderInit, TypeOK
<1>4. CASE LinkStart
  <2>1. /\ linkCB' \in BOOLEAN
       /\ threadStatus' \in BOOLEAN
       /\ started' \in BOOLEAN
    BY <1>4 DEF LinkStart, TypeOK
  <2>2. reader' \in [at : {"none", "loop", "got", "lock", "decode", "reconnect"},
                  tries : 0 .. Retries]
    BY <1>4 DEF LinkStart, TypeOK
  <2> QED
    BY <1>4, <2>1, <2>2 DEF LinkStart, TypeOK
<1>5. CASE LinkRunning
  <2>1. isRunning' \in BOOLEAN
    BY <1>5 DEF LinkRunning, TypeOK
  <2> QED
    BY <1>5, <2>1 DEF LinkRunning, TypeOK
<1>6. CASE RegisterCallback
  <2>1. /\ decoderCB' \in BOOLEAN
       /\ cbStatus' \in BOOLEAN
       /\ started' \in BOOLEAN
    BY <1>6 DEF RegisterCallback, TypeOK
  <2> QED
    BY <1>6, <2>1 DEF RegisterCallback, TypeOK
<1>7. CASE CallbackRunning
  <2>1. cbRunning' \in BOOLEAN /\ started' \in BOOLEAN
    BY <1>7 DEF CallbackRunning, TypeOK
  <2> QED
    BY <1>7, <2>1 DEF CallbackRunning, TypeOK
<1>8. CASE StartWithoutCallback
  <2>1. /\ decoderCB' \in BOOLEAN
       /\ cbRunning' \in BOOLEAN
       /\ cbStatus' \in BOOLEAN
       /\ started' \in BOOLEAN
    BY <1>8 DEF StartWithoutCallback, UnregisterCallback, JoinCallback, TypeOK
  <2> QED
    BY <1>8, <2>1 DEF StartWithoutCallback, UnregisterCallback, JoinCallback, TypeOK
<1>9. CASE StopCallbackJoin
  <2>1. cbStatus' \in BOOLEAN
    BY <1>9 DEF StopCallbackJoin, JoinCallback, TypeOK
  <2> QED
    BY <1>9, <2>1 DEF StopCallbackJoin, JoinCallback, TypeOK
<1>10. CASE StopLink
  <2>1. linkCB' \in BOOLEAN /\ isRunning' \in BOOLEAN
    BY <1>10 DEF StopLink, TypeOK
  <2> QED
    BY <1>10, <2>1 DEF StopLink, TypeOK
<1>11. CASE JoinReader
  <2>1. threadStatus' \in BOOLEAN /\ connected' \in BOOLEAN
    BY <1>11 DEF JoinReader, TypeOK
  <2> QED
    BY <1>11, <2>1 DEF JoinReader, TypeOK
<1>12. CASE DecoderCleanup
  <2>1. initSuccess' \in BOOLEAN /\ started' \in BOOLEAN
    BY <1>12 DEF DecoderCleanup, TypeOK
  <2> QED
    BY <1>12, <2>1 DEF DecoderCleanup, TypeOK
<1>13. CASE GetCurrentImage
  <2>1. newImage' \in BOOLEAN
    BY <1>13 DEF GetCurrentImage, TypeOK
  <2> QED
    BY <1>13, <2>1 DEF GetCurrentImage, TypeOK
<1> QED
  BY <1>1, <1>2, <1>3, <1>4, <1>5, <1>6, <1>7, <1>8, <1>9, <1>10, <1>11,
     <1>12, <1>13 DEF AppStep

\* The read thread and the callback thread keep the types: attempts to
\* reconnect are counted up to Retries and no further.
LEMMA ThreadsKeepTypes ==
  ASSUME TypeOK, ReadThread \/ CallbackThread
  PROVE  TypeOK'
<1> USE StreamAssumption DEF linkVars, decoderVars, cbVars, appVars
<1>1. CASE Receive
  <2>1. reader' \in [at : {"none", "loop", "got", "lock", "decode", "reconnect"},
                  tries : 0 .. Retries]
    BY <1>1 DEF Receive, ReaderAt, TypeOK
  <2> QED
    BY <1>1, <2>1 DEF Receive, ReaderAt, TypeOK
<1>2. CASE CallDecode
  <2>1. crashed' \in BOOLEAN
    BY <1>2 DEF CallDecode, ReaderAt, TypeOK
  <2>2. reader' \in [at : {"none", "loop", "got", "lock", "decode", "reconnect"},
                  tries : 0 .. Retries]
    BY <1>2 DEF CallDecode, ReaderAt, TypeOK
  <2> QED
    BY <1>2, <2>1, <2>2 DEF CallDecode, ReaderAt, TypeOK
<1>3. CASE DecodeBegin
  <2>1. reader' \in [at : {"none", "loop", "got", "lock", "decode", "reconnect"},
                  tries : 0 .. Retries]
    BY <1>3 DEF DecodeBegin, ReaderAt, TypeOK
  <2> QED
    BY <1>3, <2>1 DEF DecodeBegin, ReaderAt, TypeOK
<1>4. CASE DecodeEnd
  <2>1. newImage' \in BOOLEAN
    BY <1>4 DEF DecodeEnd, ReaderAt, TypeOK
  <2>2. reader' \in [at : {"none", "loop", "got", "lock", "decode", "reconnect"},
                  tries : 0 .. Retries]
    BY <1>4 DEF DecodeEnd, ReaderAt, TypeOK
  <2> QED
    BY <1>4, <2>1, <2>2 DEF DecodeEnd, ReaderAt, TypeOK
<1>5. CASE ConnectionLost
  <2>1. reader' \in [at : {"none", "loop", "got", "lock", "decode", "reconnect"},
                  tries : 0 .. Retries]
    BY <1>5 DEF ConnectionLost, TypeOK
  <2> QED
    BY <1>5, <2>1 DEF ConnectionLost, TypeOK
<1>6. CASE Reconnect
  <2>1. connected' \in BOOLEAN
    BY <1>6 DEF Reconnect, ReaderAt, TypeOK
  <2>2. reader' \in [at : {"none", "loop", "got", "lock", "decode", "reconnect"},
                  tries : 0 .. Retries]
    BY <1>6 DEF Reconnect, ReaderAt, TypeOK
  <2> QED
    BY <1>6, <2>1, <2>2 DEF Reconnect, ReaderAt, TypeOK
<1>7. CASE GiveUp
  <2>1. connected' \in BOOLEAN /\ isRunning' \in BOOLEAN
    BY <1>7 DEF GiveUp, NoReader, TypeOK
  <2>2. reader' \in [at : {"none", "loop", "got", "lock", "decode", "reconnect"},
                  tries : 0 .. Retries]
    BY <1>7 DEF GiveUp, NoReader, TypeOK
  <2> QED
    BY <1>7, <2>1, <2>2 DEF GiveUp, NoReader, TypeOK
<1>8. CASE ReaderEnd
  <2>1. connected' \in BOOLEAN
    BY <1>8 DEF ReaderEnd, NoReader, TypeOK
  <2>2. reader' \in [at : {"none", "loop", "got", "lock", "decode", "reconnect"},
                  tries : 0 .. Retries]
    BY <1>8 DEF ReaderEnd, NoReader, TypeOK
  <2> QED
    BY <1>8, <2>1, <2>2 DEF ReaderEnd, NoReader, TypeOK
<1>9. CASE TakeImage
  <2>1. newImage' \in BOOLEAN
    BY <1>9 DEF TakeImage, TypeOK
  <2> QED
    BY <1>9, <2>1 DEF TakeImage, TypeOK
<1>10. CASE CallUser
  <2>1. crashed' \in BOOLEAN
    BY <1>10 DEF CallUser, TypeOK
  <2> QED
    BY <1>10, <2>1 DEF CallUser, TypeOK
<1>11. CASE UserReturns
  BY <1>11 DEF UserReturns, TypeOK
<1>12. CASE CallbackThreadEnd
  BY <1>12 DEF CallbackThreadEnd, TypeOK
<1> QED
  BY <1>1, <1>2, <1>3, <1>4, <1>5, <1>6, <1>7, <1>8, <1>9, <1>10, <1>11,
     <1>12 DEF ReadThread, CallbackThread

LEMMA InitTypes == Init => TypeOK
<1> SUFFICES ASSUME Init PROVE TypeOK
  OBVIOUS
<1>1. /\ {connected, isRunning, threadStatus, linkCB} \subseteq BOOLEAN
      /\ {initSuccess, newImage, decoderCB} \subseteq BOOLEAN
      /\ {cbRunning, cbStatus, wantsCB} \subseteq BOOLEAN
      /\ {started, crashed} \subseteq BOOLEAN
  BY DEF Init
<1> QED
  BY <1>1, StreamAssumption DEF Init, TypeOK, NoReader

\* Every variable has its type, whatever the application does: starts and
\* stops in any order.  (DJICameraStream, DJICameraStreamLink and
\* DJICameraStreamDecoder.)
THEOREM CameraTypes == Spec => []TypeOK
<1>1. Init => TypeOK
  BY InitTypes
<1>2. TypeOK /\ [Next]_vars => TypeOK'
  <2> SUFFICES ASSUME TypeOK, [Next]_vars PROVE TypeOK'
    OBVIOUS
  <2>1. CASE Next
    BY <2>1, AppKeepsTypes, ThreadsKeepTypes DEF Next, Running
  <2>2. CASE UNCHANGED vars
    BY <2>2 DEF vars, linkVars, decoderVars, cbVars, appVars, TypeOK
  <2> QED
    BY <2>1, <2>2
<1> QED
  BY <1>1, <1>2, PTL DEF Spec

-----------------------------------------------------------------------------
(* The application that stops what it has started.                         *)

\* Between calls, with no stream started.
Stopped == app = "idle" /\ ~started

\* No thread runs, and none that was just created would go on.
NothingRuns ==
  reader.at = "none" /\ cbThread = "none" /\ ~isRunning /\ ~cbRunning

\* There is something to join for each thread that runs, and the mutex is
\* kept by none but a start that has failed for good.
Joinable ==
  /\ reader.at # "none" => threadStatus
  /\ cbThread # "none" => cbStatus
  /\ cbRunning \/ app = "cbrunning" => cbStatus
  /\ decodemutex = "reader" <=> reader.at = "decode"
  /\ decodemutex = "app" => app = "failed"

\* What a start finds, until it creates the read thread.
BeforeThreads ==
  /\ Stopped \/ app \in {"decoder", "link"} => NothingRuns
  /\ Stopped \/ app = "decoder" => ~initSuccess
  /\ Stopped => ~connected

\* The callback thread is not there before it is created, and has ended when
\* a stop has joined it.
NoCallbackThread ==
  /\ app \in {"running", "callback", "nocb", "stopcb", "stoplink", "join",
             "cleanup"} => ~cbRunning
  /\ app \in {"running", "callback", "nocb", "stoplink", "join", "cleanup"} =>
       cbThread = "none"

\* What a stop has achieved before it cleans the decoder up.
AfterStop ==
  /\ app \in {"join", "cleanup"} => ~isRunning
  /\ app = "cleanup" => reader.at = "none" /\ ~connected

\* The inductive invariant.
StreamInv ==
  TypeOK /\ Joinable /\ BeforeThreads /\ NoCallbackThread /\ AfterStop

\* The steps of that application, and of the call in progress.
LEMMA AppKeepsStreamInv ==
  ASSUME StreamInv,
         \/ ~started /\ AnyStart
         \/ started /\ AnyStop
         \/ AppStep
         \/ GetCurrentImage
  PROVE  Joinable' /\ BeforeThreads' /\ NoCallbackThread' /\ AfterStop'
<1> USE DEF StreamInv, Joinable, BeforeThreads, NoCallbackThread, AfterStop,
            Stopped, NothingRuns, TypeOK, linkVars, decoderVars, cbVars, appVars
<1>1. CASE ~started /\ AnyStart
  BY <1>1 DEF AnyStart, Start
<1>2. CASE started /\ AnyStop
  BY <1>2 DEF AnyStop, StopCallback, UnregisterCallback
<1>3. CASE DecoderInit
  BY <1>3 DEF DecoderInit
<1>4. CASE LinkStart
  BY <1>4 DEF LinkStart
<1>5. CASE LinkRunning
  BY <1>5 DEF LinkRunning
<1>6. CASE RegisterCallback
  <2>1. ~cbRunning /\ cbThread = "none"
    BY <1>6 DEF RegisterCallback
  <2>2. Joinable'
    BY <1>6, <2>1 DEF RegisterCallback
  <2>3. BeforeThreads'
    BY <1>6, <2>1 DEF RegisterCallback
  <2>4. NoCallbackThread' /\ AfterStop'
    BY <1>6, <2>1 DEF RegisterCallback
  <2> QED
    BY <2>2, <2>3, <2>4
<1>7. CASE CallbackRunning
  BY <1>7 DEF CallbackRunning
<1>8. CASE StartWithoutCallback
  BY <1>8 DEF StartWithoutCallback, UnregisterCallback, JoinCallback
<1>9. CASE StopCallbackJoin
  BY <1>9 DEF StopCallbackJoin, JoinCallback
<1>10. CASE StopLink
  BY <1>10 DEF StopLink
<1>11. CASE JoinReader
  BY <1>11 DEF JoinReader
<1>12. CASE DecoderCleanup
  BY <1>12 DEF DecoderCleanup
<1>13. CASE GetCurrentImage
  BY <1>13 DEF GetCurrentImage
<1> QED
  BY <1>1, <1>2, <1>3, <1>4, <1>5, <1>6, <1>7, <1>8, <1>9, <1>10, <1>11,
     <1>12, <1>13 DEF AppStep

\* The steps of the two threads.
LEMMA ThreadsKeepStreamInv ==
  ASSUME StreamInv, ReadThread \/ CallbackThread
  PROVE  Joinable' /\ BeforeThreads' /\ NoCallbackThread' /\ AfterStop'
<1> USE DEF StreamInv, Joinable, BeforeThreads, NoCallbackThread, AfterStop,
            Stopped, NothingRuns, TypeOK, linkVars, decoderVars, cbVars, appVars
<1>1. CASE Receive
  BY <1>1 DEF Receive, ReaderAt
<1>2. CASE CallDecode
  BY <1>2 DEF CallDecode, ReaderAt
<1>3. CASE DecodeBegin
  BY <1>3 DEF DecodeBegin, ReaderAt
<1>4. CASE DecodeEnd
  BY <1>4 DEF DecodeEnd, ReaderAt
<1>5. CASE ConnectionLost
  BY <1>5 DEF ConnectionLost
<1>6. CASE Reconnect
  BY <1>6 DEF Reconnect, ReaderAt
<1>7. CASE GiveUp
  BY <1>7 DEF GiveUp, NoReader
<1>8. CASE ReaderEnd
  BY <1>8 DEF ReaderEnd, NoReader
<1>9. CASE TakeImage
  BY <1>9 DEF TakeImage
<1>10. CASE CallUser
  BY <1>10 DEF CallUser
<1>11. CASE UserReturns
  BY <1>11 DEF UserReturns
<1>12. CASE CallbackThreadEnd
  BY <1>12 DEF CallbackThreadEnd
<1> QED
  BY <1>1, <1>2, <1>3, <1>4, <1>5, <1>6, <1>7, <1>8, <1>9, <1>10, <1>11,
     <1>12 DEF ReadThread, CallbackThread

-----------------------------------------------------------------------------
(* Theorems about it.                                                      *)

LEMMA StreamInvHolds == SampleSpec => []StreamInv
<1>1. Init => StreamInv
  <2> SUFFICES ASSUME Init PROVE StreamInv
    OBVIOUS
  <2>1. Joinable /\ BeforeThreads /\ NoCallbackThread /\ AfterStop
    BY DEF Init, NoReader, Joinable, BeforeThreads, NoCallbackThread, AfterStop,
           Stopped, NothingRuns
  <2> QED
    BY <2>1, InitTypes DEF StreamInv
<1>2. StreamInv /\ [SampleNext]_vars => StreamInv'
  <2> SUFFICES ASSUME StreamInv, [SampleNext]_vars PROVE StreamInv'
    OBVIOUS
  <2>1. CASE SampleNext
    <3>1. TypeOK'
      BY <2>1, AppKeepsTypes, ThreadsKeepTypes DEF SampleNext, Running, StreamInv
    <3> QED
      BY <2>1, <3>1, AppKeepsStreamInv, ThreadsKeepStreamInv
         DEF SampleNext, Running, StreamInv
  <2>2. CASE UNCHANGED vars
    BY <2>2 DEF vars, linkVars, decoderVars, cbVars, appVars, TypeOK, StreamInv,
                Joinable, BeforeThreads, NoCallbackThread, AfterStop, Stopped,
                NothingRuns
  <2> QED
    BY <2>1, <2>2
<1> QED
  BY <1>1, <1>2, PTL DEF SampleSpec

\* An application that stops each stream before it starts the next finds
\* nothing left of it: stopCameraStream has joined both threads, closed the
\* socket and cleaned the decoder up, and its mutex is free, also when the read
\* thread has given up by itself or a start has not found the camera.
THEOREM NothingLeftTheorem == SampleSpec => []NothingLeft
<1>1. StreamInv => NothingLeft
  BY DEF StreamInv, Joinable, BeforeThreads, NothingLeft, Stopped, NothingRuns,
         TypeOK
<1> QED
  BY <1>1, StreamInvHolds, PTL

\* fHandle has no lock.  For that application no step replaces or closes the
\* socket behind the back of the read thread: the application does so only
\* before that thread is created and after it is joined.
THEOREM SocketTheorem == SampleSpec => SocketHasOneUser
<1> DEFINE OneUser ==
      connected' # connected /\ reader' = reader => reader.at = "none"
<1>1. StreamInv /\ [SampleNext]_vars => [OneUser]_vars
  <2> SUFFICES ASSUME StreamInv, SampleNext, connected' # connected,
                      reader' = reader
               PROVE  reader.at = "none"
    OBVIOUS
  <2>1. CASE ~started /\ AnyStart
    BY <2>1 DEF StreamInv, BeforeThreads, Stopped, NothingRuns, AnyStart
  <2>2. CASE JoinReader
    BY <2>2 DEF StreamInv, Joinable, JoinReader
  <2>3. CASE Reconnect
    BY <2>3 DEF StreamInv, TypeOK, Reconnect, ReaderAt
  <2>4. CASE GiveUp
    BY <2>4 DEF GiveUp, NoReader
  <2>5. CASE ReaderEnd
    BY <2>5 DEF ReaderEnd, NoReader
  <2>6. CASE started /\ AnyStop
    BY <2>6 DEF AnyStop, StopCallback, UnregisterCallback, linkVars
  <2>7. CASE GetCurrentImage \/ CallbackThread
    BY <2>7 DEF GetCurrentImage, CallbackThread, TakeImage, CallUser,
                UserReturns, CallbackThreadEnd, linkVars
  <2>8. CASE AppStep /\ ~JoinReader
    BY <2>8 DEF AppStep, DecoderInit, LinkStart, LinkRunning, RegisterCallback,
                CallbackRunning, StartWithoutCallback, UnregisterCallback,
                JoinCallback, StopCallbackJoin, StopLink, DecoderCleanup,
                linkVars
  <2>9. CASE ReadThread /\ ~Reconnect /\ ~GiveUp /\ ~ReaderEnd
    BY <2>9 DEF ReadThread, Receive, CallDecode, DecodeBegin, DecodeEnd,
                ConnectionLost
  <2> QED
    BY <2>1, <2>2, <2>3, <2>4, <2>5, <2>6, <2>7, <2>8, <2>9
       DEF SampleNext, Running, ReadThread
<1>2. []StreamInv /\ [][SampleNext]_vars => [][OneUser]_vars
  BY <1>1, PTL
<1> QED
  BY <1>2, StreamInvHolds, PTL DEF SampleSpec, SocketHasOneUser
=============================================================================
