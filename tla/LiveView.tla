------------------------------- MODULE LiveView -------------------------------
(***************************************************************************)
(* H264 streams of the M300: LiveViewImpl                                  *)
(* (advanced-sensing/api/src/dji_liveview_impl.cpp).                       *)
(*                                                                         *)
(* The application thread asks the drone for the stream of a position and  *)
(* keeps it alive with a heartbeat task; the receive thread looks the      *)
(* callback of a frame up in a table that nothing locks.  The application  *)
(* has one stream at a time and stops the streams whose start has          *)
(* succeeded.  The drone is external: a request or its answer may be lost, *)
(* and a stream of an earlier process may still run when this one begins.  *)
(***************************************************************************)
EXTENDS Integers

CONSTANTS
  Positions,     (* camera positions                                        *)
  FPV,           (* the one for which no camera list is asked               *)
  MaxStarts      (* bound: calls of startH264Stream                         *)

ASSUME LiveViewAssumption == FPV \in Positions /\ MaxStarts \in Nat

VARIABLES
  streaming,        (* the start for which the drone sends the frames of a  *)
                    (* position, 0 for one of an earlier process, or Off    *)
  inFlight,         (* frames under way                                     *)
  handlerMap,       (* h264CbHandlerMap: which start a callback is from     *)
  defUserData,      (* positions whose default callback was called          *)
  liveCall,         (* the call in progress: its next step and position     *)
  started,          (* the positions whose start has returned success       *)
  starts,           (* starts are numbered; 0 is the default callback       *)
  heartBeats,       (* heartbeat tasks that run                             *)
  h264TaskHandle,   (* the task that would be stopped                       *)
  frame,            (* RecordStreamHandler: the frame it has, and the       *)
                    (* callback it has copied                               *)
  lostHandle        (* a task was stopped that does not run                 *)

liveVars == <<streaming, inFlight, handlerMap, defUserData, liveCall, started,
              starts, heartBeats, h264TaskHandle, frame, lostHandle>>

Off     == -1
NoFrame == [pos |-> "none", start |-> Off, cb |-> Off]

\* A frame, and the start it is sent for.
Frames == [pos : Positions, start : 0 .. MaxStarts]

LiveInit ==
  /\ streaming \in [Positions -> {Off, 0}]
  /\ inFlight = {}
  /\ handlerMap = [pos \in Positions |-> [cb |-> 0, userData |-> 0]]
  /\ defUserData = {}
  /\ liveCall = [step |-> "finding", pos |-> FPV]
  /\ started = {} /\ starts = 0
  /\ heartBeats = {} /\ h264TaskHandle = 0
  /\ frame = NoFrame
  /\ lostHandle = FALSE

-----------------------------------------------------------------------------
(* Exchanges with the drone.                                               *)

\* What sendSync and the answer lead to: the drone has done it, and the SDK
\* knows.
Outcomes == {o \in [done : BOOLEAN, known : BOOLEAN] : o.known => o.done}

Exchange(o, pos, stream) ==
  streaming' = IF o.done THEN [streaming EXCEPT ![pos] = stream] ELSE streaming

FrameVars == <<inFlight, defUserData, frame>>

\* The constructor: streams whose frames were seen meanwhile are cancelled one
\* by one, whatever the answers.
LiveViewImpl ==
  /\ liveCall.step = "finding"
  /\ \E done \in SUBSET defUserData :
       streaming' = [pos \in Positions |->
                      IF pos \in done THEN Off ELSE streaming[pos]]
  /\ liveCall' = [liveCall EXCEPT !.step = "none"]
  /\ UNCHANGED <<FrameVars, handlerMap, started, starts, heartBeats,
                 h264TaskHandle, lostHandle>>

-----------------------------------------------------------------------------
(* startH264Stream and stopH264Stream.                                     *)

Steps == {"finding", "callback", "userData", "subscribe", "heartBeat",
          "stopHeartBeat", "none"}

\* The table is changed when frames may come already.
NextStepSubscribesFirst(step) ==
  CASE step = "start"     -> "subscribe"
    [] step = "subscribe" -> "callback"
    [] step = "callback"  -> "userData"
    [] step = "userData"  -> "heartBeat"
    [] step = "heartBeat" -> "none"

\* The task runs before the stream is there.
NextStepHeartBeatFirst(step) ==
  CASE step = "start"     -> "callback"
    [] step = "callback"  -> "userData"
    [] step = "userData"  -> "heartBeat"
    [] step = "heartBeat" -> "subscribe"
    [] step = "subscribe" -> "none"

\* The order of the calls in startH264Stream.
NextStep(step) ==
  CASE step = "start"     -> "callback"
    [] step = "callback"  -> "userData"
    [] step = "userData"  -> "subscribe"
    [] step = "subscribe" -> "heartBeat"
    [] step = "heartBeat" -> "none"

GoOn(step) ==
  /\ liveCall' = [liveCall EXCEPT !.step = NextStep(step)]
  /\ started' = IF NextStep(step) = "none" THEN started \cup {liveCall.pos}
                ELSE started

GiveUp == liveCall' = [liveCall EXCEPT !.step = "none"] /\ UNCHANGED started

\* A camera that is not mounted, or is not seen in time, ends the call.  Frames
\* of an earlier stream of the position may still come at any time.
StartH264Stream(pos) ==
  /\ liveCall.step = "none" /\ started = {} /\ starts < MaxStarts
  /\ starts' = starts + 1
  /\ \/ liveCall' = [step |-> NextStep("start"), pos |-> pos]
     \/ pos # FPV /\ UNCHANGED liveCall
  /\ UNCHANGED <<FrameVars, streaming, handlerMap, started,
                 heartBeats, h264TaskHandle, lostHandle>>

SetCallback ==
  /\ liveCall.step = "callback"
  /\ handlerMap' = [handlerMap EXCEPT ![liveCall.pos].cb = starts]
  /\ GoOn("callback")
  /\ UNCHANGED <<FrameVars, streaming, starts, heartBeats, h264TaskHandle,
                 lostHandle>>

SetUserData ==
  /\ liveCall.step = "userData"
  /\ handlerMap' = [handlerMap EXCEPT ![liveCall.pos].userData = starts]
  /\ GoOn("userData")
  /\ UNCHANGED <<FrameVars, streaming, starts, heartBeats, h264TaskHandle,
                 lostHandle>>

\* Neither the table nor the drone is set back if this fails.
SubscribeLiveViewData ==
  /\ liveCall.step = "subscribe"
  /\ \E o \in Outcomes :
       /\ Exchange(o, liveCall.pos, starts)
       /\ IF o.known THEN GoOn("subscribe") ELSE GiveUp
  /\ UNCHANGED <<FrameVars, handlerMap, starts, heartBeats, h264TaskHandle,
                 lostHandle>>

\* The task may not be created, and the stream is left running.
StartHeartBeatTask ==
  /\ liveCall.step = "heartBeat"
  /\ \/ /\ heartBeats' = heartBeats \cup {starts}
        /\ h264TaskHandle' = starts
        /\ GoOn("heartBeat")
     \/ GiveUp /\ UNCHANGED <<heartBeats, h264TaskHandle>>
  /\ UNCHANGED <<FrameVars, streaming, handlerMap, starts, lostHandle>>

\* stopH264Stream: unsubscribeLiveViewData, whose result nobody looks at...
StopH264Stream(pos) ==
  /\ liveCall.step = "none" /\ pos \in started
  /\ \E o \in Outcomes : Exchange(o, pos, Off)
  /\ liveCall' = [step |-> "stopHeartBeat", pos |-> pos]
  /\ UNCHANGED <<FrameVars, handlerMap, started, starts, heartBeats,
                 h264TaskHandle, lostHandle>>

\* ...and stopHeartBeatTask.  The handle keeps its value, and the callback
\* stays in the table.
StopHeartBeatTask ==
  /\ liveCall.step = "stopHeartBeat"
  /\ heartBeats' = heartBeats \ {h264TaskHandle}
  /\ lostHandle' = (lostHandle \/ h264TaskHandle \notin heartBeats)
  /\ liveCall' = [liveCall EXCEPT !.step = "none"]
  /\ started' = started \ {liveCall.pos}
  /\ UNCHANGED <<FrameVars, streaming, handlerMap, starts, h264TaskHandle>>

-----------------------------------------------------------------------------
(* The drone's frames and RecordStreamHandler.                             *)

AppVars == <<streaming, handlerMap, liveCall, started, starts, heartBeats,
             h264TaskHandle, lostHandle>>

DroneSendsFrame ==
  /\ \E pos \in Positions :
       /\ streaming[pos] # Off
       /\ inFlight' = inFlight \cup {[pos |-> pos, start |-> streaming[pos]]}
  /\ UNCHANGED <<AppVars, defUserData, frame>>

\* The copy of the table is not atomic: first the callback of a position...
CopyCallback(pos) ==
  /\ frame = NoFrame
  /\ \E f \in inFlight :
       /\ f.pos = pos
       /\ inFlight' = inFlight \ {f}
       /\ frame' = [pos |-> pos, start |-> f.start, cb |-> handlerMap[pos].cb]
  /\ UNCHANGED <<AppVars, defUserData>>

\* ...then its user data; and the callback is called.
RecordStreamHandler ==
  /\ frame # NoFrame
  /\ defUserData' = IF frame.cb = 0 THEN defUserData \cup {frame.pos}
                    ELSE defUserData
  /\ frame' = NoFrame
  /\ UNCHANGED <<AppVars, inFlight>>

-----------------------------------------------------------------------------
LiveNext ==
  \/ LiveViewImpl
  \/ \E pos \in Positions : StartH264Stream(pos) \/ StopH264Stream(pos)
  \/ SetCallback \/ SetUserData \/ SubscribeLiveViewData
  \/ StartHeartBeatTask \/ StopHeartBeatTask
  \/ DroneSendsFrame
  \/ \E pos \in Positions : CopyCallback(pos)
  \/ RecordStreamHandler

LiveSpec == LiveInit /\ [][LiveNext]_liveVars

-----------------------------------------------------------------------------
\* Every variable has its type.
LiveTypeOK ==
  /\ streaming \in [Positions -> {Off} \cup 0 .. MaxStarts]
  /\ inFlight \subseteq Frames
  /\ handlerMap \in [Positions -> [cb : 0 .. MaxStarts,
                                   userData : 0 .. MaxStarts]]
  /\ defUserData \subseteq Positions
  /\ liveCall \in [step : Steps, pos : Positions]
  /\ started \subseteq Positions /\ starts \in 0 .. MaxStarts
  /\ heartBeats \subseteq 1 .. MaxStarts
  /\ h264TaskHandle \in 0 .. MaxStarts
  /\ frame \in [pos : Positions, start : 0 .. MaxStarts, cb : 0 .. MaxStarts]
              \cup {NoFrame}
  /\ lostHandle \in BOOLEAN

\* Between two calls exactly one heartbeat task runs if a stream is started,
\* and none otherwise, whatever starts and stops have failed before, and no
\* task is stopped twice.
OneHeartBeat ==
  /\ liveCall.step = "none" =>
       heartBeats = (IF started = {} THEN {} ELSE {starts})
  /\ ~lostHandle

\* A frame is never given to the callback of a start before the one it is sent
\* for, and as long as no later start has changed the table it is given to the
\* callback of that very start with that start's user data, whatever requests
\* and answers were lost and however frames of earlier streams are late.  A
\* late frame that meets a later start may find the table half written: its
\* callback is then called with another's user data.
OwnUserData ==
  frame # NoFrame =>
    LET entry == handlerMap[frame.pos]
    IN  /\ frame.start <= frame.cb
        /\ frame.start = entry.cb =>
             frame.cb = entry.cb /\ entry.userData = entry.cb
=============================================================================
