--------------------------- MODULE ProgramProofs ---------------------------
(***************************************************************************)
(* Theorems about the H264 streams (LiveView), the stereo images           *)
(* (SensingStream) and the programs that use the independent components    *)
(* (MCPrograms).                                                           *)
(***************************************************************************)
EXTENDS MCPrograms, MissionProofs, ModulesProofs, FiniteSetTheorems, TLAPS

-----------------------------------------------------------------------------
(* H264 streams: the inductive invariant.                                  *)

\* A step of a start belongs to a start that has been counted.
StartsCounted ==
  liveCall.step \in {"callback", "userData", "subscribe", "heartBeat"} =>
    starts >= 1

\* There is one stream or none, and the task of the last start runs exactly as
\* long as there is one.
HeartBeatKept ==
  /\ ~lostHandle
  /\ \A p, q \in started : p = q
  /\ heartBeats = (IF started = {} THEN {} ELSE {starts})
  /\ started # {} =>
       h264TaskHandle = starts /\ liveCall.step \in {"none", "stopHeartBeat"}
  /\ liveCall.step = "stopHeartBeat" => started = {liveCall.pos}

\* The entry of a position holds callback and user data of one start, except
\* between the two writes; no entry is of a start that has not begun, and the
\* table is written when the drone is asked.
TableKept ==
  /\ \A p \in Positions :
       /\ handlerMap[p].cb <= starts
       /\ liveCall.step = "callback" => handlerMap[p].cb < starts
       /\ IF liveCall.step = "userData" /\ p = liveCall.pos
          THEN handlerMap[p].cb = starts
          ELSE handlerMap[p].cb = handlerMap[p].userData
  /\ liveCall.step = "subscribe" => handlerMap[liveCall.pos].cb = starts

\* The table is as new as what is sent, or was sent, for start s of position p,
\* and newer while it is half written.
InTable(s, p) ==
  /\ s <= handlerMap[p].cb
  /\ liveCall.step = "userData" /\ p = liveCall.pos => s < starts

LiveFramesKept ==
  /\ \A p \in Positions : InTable(streaming[p], p)
  /\ \A f \in inFlight : InTable(f.start, f.pos)
  /\ frame # NoFrame => /\ InTable(frame.start, frame.pos)
                        /\ frame.start <= frame.cb
                        /\ frame.cb <= handlerMap[frame.pos].cb

CallbacksKept == TableKept /\ LiveFramesKept

LiveInv == LiveTypeOK /\ StartsCounted /\ HeartBeatKept /\ CallbacksKept

-----------------------------------------------------------------------------
(* H264 streams: the proofs.                                               *)

\* The calls of startH264Stream follow each other.
LEMMA NextSteps ==
  /\ NextStep("start") = "callback" /\ NextStep("callback") = "userData"
  /\ NextStep("userData") = "subscribe" /\ NextStep("subscribe") = "heartBeat"
  /\ NextStep("heartBeat") = "none"
BY DEF NextStep

\* What the types say of the numbers of starts.
LEMMA StartNumbers ==
  ASSUME LiveTypeOK
  PROVE  /\ starts \in Nat /\ liveCall.pos \in Positions
         /\ \A p \in Positions : /\ handlerMap[p].cb \in Nat
                                 /\ handlerMap[p].userData \in Nat
                                 /\ streaming[p] \in Int
         /\ \A f \in inFlight : f.pos \in Positions /\ f.start \in Nat
         /\ frame # NoFrame => /\ frame.pos \in Positions
                               /\ frame.start \in Nat /\ frame.cb \in Nat
<1>1. MaxStarts \in Nat /\ 0 .. MaxStarts \subseteq Nat
  BY LiveViewAssumption
<1>2. /\ starts \in 0 .. MaxStarts
      /\ liveCall \in [step : Steps, pos : Positions]
      /\ handlerMap \in [Positions -> [cb : 0 .. MaxStarts,
                                       userData : 0 .. MaxStarts]]
      /\ streaming \in [Positions -> {Off} \cup 0 .. MaxStarts]
      /\ inFlight \subseteq Frames
      /\ frame \in [pos : Positions, start : 0 .. MaxStarts, cb : 0 .. MaxStarts]
                     \cup {NoFrame}
  BY DEF LiveTypeOK
<1>3. \A p \in Positions : streaming[p] \in Int
  BY <1>1, <1>2 DEF Off
<1>4. \A f \in inFlight : f.pos \in Positions /\ f.start \in Nat
  BY <1>1, <1>2 DEF Frames
<1> QED
  BY <1>1, <1>2, <1>3, <1>4

LEMMA LiveStart == LiveInit => LiveInv
<1> SUFFICES ASSUME LiveInit PROVE LiveInv
  OBVIOUS
<1>1. LiveTypeOK
  <2>1. 0 \in 0 .. MaxStarts
    BY LiveViewAssumption
  <2>2. handlerMap \in [Positions -> [cb : 0 .. MaxStarts,
                                      userData : 0 .. MaxStarts]]
    BY <2>1 DEF LiveInit
  <2>3. liveCall \in [step : Steps, pos : Positions]
    BY LiveViewAssumption DEF LiveInit, Steps
  <2>4. /\ streaming \in [Positions -> {Off} \cup 0 .. MaxStarts]
        /\ inFlight = {} /\ defUserData = {} /\ lostHandle \in BOOLEAN
        /\ started = {} /\ starts = 0 /\ heartBeats = {} /\ h264TaskHandle = 0
        /\ frame = NoFrame
    BY <2>1 DEF LiveInit
  <2> QED
    BY <2>1, <2>2, <2>3, <2>4 DEF LiveTypeOK
<1>2. StartsCounted /\ HeartBeatKept
  BY DEF LiveInit, StartsCounted, HeartBeatKept
<1>3. TableKept
  BY DEF LiveInit, TableKept
<1>4. LiveFramesKept
  <2>1. /\ inFlight = {} /\ frame = NoFrame /\ liveCall.step = "finding"
        /\ \A p \in Positions : streaming[p] \in {Off, 0} /\ handlerMap[p].cb = 0
    BY DEF LiveInit
  <2> QED
    BY <2>1 DEF LiveFramesKept, InTable, Off
<1> QED
  BY <1>1, <1>2, <1>3, <1>4 DEF LiveInv, CallbacksKept

\* A step that writes nothing to the table, and after which no start is between
\* its writes.
LEMMA TableStays ==
  ASSUME LiveTypeOK, CallbacksKept, liveCall.step # "userData",
         UNCHANGED <<handlerMap, inFlight, frame>>,
         starts' \in Nat, starts' >= starts,
         liveCall'.step \notin {"userData", "subscribe"},
         liveCall'.step = "callback" => starts' > starts,
         \A p \in Positions : streaming'[p] \in Int /\
                              streaming'[p] <= handlerMap[p].cb
  PROVE  CallbacksKept'
<1>1. TableKept /\ LiveFramesKept
  BY DEF CallbacksKept
<1>2. TableKept'
  <2> SUFFICES ASSUME NEW p \in Positions
               PROVE  /\ handlerMap[p].cb <= starts'
                      /\ liveCall'.step = "callback" => handlerMap[p].cb < starts'
                      /\ handlerMap[p].cb = handlerMap[p].userData
    BY DEF TableKept
  <2>1. /\ handlerMap[p].cb <= starts
        /\ handlerMap[p].cb = handlerMap[p].userData
    BY <1>1 DEF TableKept
  <2>2. handlerMap[p].cb \in Nat /\ starts \in Nat
    BY StartNumbers
  <2>3. liveCall'.step = "callback" => starts' > starts
    OBVIOUS
  <2> QED
    BY <2>1, <2>2, <2>3
<1>3. LiveFramesKept'
  BY <1>1 DEF LiveFramesKept, InTable
<1> QED
  BY <1>2, <1>3 DEF CallbacksKept

\* The drone is told to send, or not to send, the frames of a position.
LEMMA ExchangeTypes ==
  ASSUME LiveTypeOK, NEW o \in Outcomes, NEW pos \in Positions,
         NEW stream \in {Off} \cup 0 .. MaxStarts, Exchange(o, pos, stream)
  PROVE  /\ streaming' \in [Positions -> {Off} \cup 0 .. MaxStarts]
         /\ \A p \in Positions :
              streaming'[p] \in {streaming[p]} \cup
                                (IF p = pos THEN {stream} ELSE {})
<1>1. streaming \in [Positions -> {Off} \cup 0 .. MaxStarts]
  BY DEF LiveTypeOK
<1> QED
  BY <1>1 DEF Exchange

LEMMA LiveViewImplKeepsLiveInv ==
  ASSUME LiveInv, LiveViewImpl PROVE LiveInv'
<1>1. /\ liveCall.step = "finding"
      /\ liveCall' = [liveCall EXCEPT !.step = "none"]
      /\ UNCHANGED <<inFlight, defUserData, frame, handlerMap, started,
                     starts, heartBeats, h264TaskHandle, lostHandle>>
  BY DEF LiveViewImpl, FrameVars
<1>2. LiveTypeOK /\ HeartBeatKept /\ CallbacksKept
  BY DEF LiveInv
<1>3. liveCall'.step = "none" /\ liveCall' \in [step : Steps, pos : Positions]
  BY <1>1, <1>2 DEF LiveTypeOK, Steps
<1>4. /\ streaming' \in [Positions -> {Off} \cup 0 .. MaxStarts]
      /\ \A p \in Positions : streaming'[p] \in {Off, streaming[p]}
  <2>1. PICK done \in SUBSET defUserData :
          streaming' = [p \in Positions |->
                         IF p \in done THEN Off ELSE streaming[p]]
    BY DEF LiveViewImpl
  <2>2. streaming \in [Positions -> {Off} \cup 0 .. MaxStarts]
    BY <1>2 DEF LiveTypeOK
  <2> QED
    BY <2>1, <2>2
<1>5. LiveTypeOK'
  BY <1>1, <1>2, <1>3, <1>4 DEF LiveTypeOK
<1>6. StartsCounted' /\ HeartBeatKept'
  BY <1>1, <1>2, <1>3 DEF StartsCounted, HeartBeatKept
<1>7. CallbacksKept'
  <2>1. \A p \in Positions : streaming[p] <= handlerMap[p].cb
    BY <1>2 DEF CallbacksKept, LiveFramesKept, InTable
  <2>2. \A p \in Positions :
          streaming'[p] \in Int /\ streaming'[p] <= handlerMap[p].cb
    BY <1>2, <1>4, <2>1, StartNumbers DEF Off
  <2>3. starts \in Nat /\ starts' = starts
    BY <1>1, <1>2, StartNumbers
  <2> QED
    BY <1>1, <1>2, <1>3, <2>2, <2>3, TableStays
<1> QED
  BY <1>5, <1>6, <1>7 DEF LiveInv

LEMMA StartKeepsLiveInv ==
  ASSUME LiveInv, NEW pos \in Positions, StartH264Stream(pos) PROVE LiveInv'
<1>1. /\ liveCall.step = "none" /\ started = {} /\ starts < MaxStarts
      /\ starts' = starts + 1
      /\ \/ liveCall' = [step |-> "callback", pos |-> pos]
         \/ UNCHANGED liveCall
      /\ UNCHANGED <<inFlight, defUserData, frame, streaming, handlerMap,
                     started, heartBeats, h264TaskHandle, lostHandle>>
  BY NextSteps DEF StartH264Stream, FrameVars
<1>2. LiveTypeOK /\ HeartBeatKept /\ CallbacksKept
  BY DEF LiveInv
<1>3. starts \in 0 .. MaxStarts /\ MaxStarts \in Nat
  BY <1>2, LiveViewAssumption DEF LiveTypeOK
<1>4. starts' \in 0 .. MaxStarts /\ starts' >= 1 /\ starts' > starts
  BY <1>1, <1>3
<1>5. /\ liveCall' \in [step : Steps, pos : Positions]
      /\ liveCall'.step \in {"callback", "none"}
  BY <1>1, <1>2 DEF LiveTypeOK, Steps
<1>6. LiveTypeOK'
  BY <1>1, <1>2, <1>4, <1>5 DEF LiveTypeOK
<1>7. StartsCounted'
  BY <1>4 DEF StartsCounted
<1>8. HeartBeatKept'
  BY <1>1, <1>2, <1>5 DEF HeartBeatKept
<1>9. CallbacksKept'
  <2>1. \A p \in Positions :
          streaming'[p] \in Int /\ streaming'[p] <= handlerMap[p].cb
    BY <1>1, <1>2, StartNumbers DEF CallbacksKept, LiveFramesKept, InTable
  <2>2. starts' \in Nat /\ starts' >= starts
    BY <1>3, <1>4
  <2> QED
    BY <1>1, <1>2, <1>4, <1>5, <2>1, <2>2, TableStays
<1> QED
  BY <1>6, <1>7, <1>8, <1>9 DEF LiveInv

LEMMA SetCallbackKeepsLiveInv ==
  ASSUME LiveInv, SetCallback PROVE LiveInv'
<1> DEFINE pos == liveCall.pos
<1>1. LiveTypeOK /\ StartsCounted /\ HeartBeatKept /\ TableKept /\ LiveFramesKept
  BY DEF LiveInv, CallbacksKept
<1>2. /\ liveCall.step = "callback"
      /\ liveCall' = [liveCall EXCEPT !.step = "userData"]
      /\ started' = started
      /\ UNCHANGED <<inFlight, defUserData, frame, streaming, starts,
                     heartBeats, h264TaskHandle, lostHandle>>
  BY NextSteps DEF SetCallback, GoOn, FrameVars
<1>3. handlerMap' = [handlerMap EXCEPT
                       ![pos] = [@ EXCEPT !.cb = starts]]
  BY DEF SetCallback
<1>4. /\ pos \in Positions /\ starts \in 0 .. MaxStarts /\ starts >= 1
      /\ handlerMap \in [Positions -> [cb : 0 .. MaxStarts,
                                       userData : 0 .. MaxStarts]]
  BY <1>1, <1>2 DEF LiveTypeOK, StartsCounted
<1>5. /\ handlerMap' \in [Positions -> [cb : 0 .. MaxStarts,
                                        userData : 0 .. MaxStarts]]
      /\ \A p \in Positions : p # pos => handlerMap'[p] = handlerMap[p]
      /\ handlerMap'[pos].cb = starts
  BY <1>3, <1>4
<1>6. /\ liveCall'.step = "userData" /\ liveCall'.pos = pos
      /\ liveCall' \in [step : Steps, pos : Positions]
  BY <1>1, <1>2 DEF LiveTypeOK, Steps
<1> HIDE DEF pos
<1>7. LiveTypeOK'
  BY <1>1, <1>2, <1>5, <1>6 DEF LiveTypeOK
<1>8. StartsCounted' /\ HeartBeatKept'
  BY <1>1, <1>2, <1>4, <1>6 DEF StartsCounted, HeartBeatKept
<1>9. \A p \in Positions :
        /\ handlerMap[p].cb < starts
        /\ handlerMap[p].cb = handlerMap[p].userData
        /\ handlerMap[p].cb \in Nat /\ starts \in Nat
  BY <1>1, <1>2, StartNumbers DEF TableKept
<1>10. TableKept'
  <2> SUFFICES ASSUME NEW p \in Positions
               PROVE  /\ handlerMap'[p].cb <= starts
                      /\ IF p = pos THEN handlerMap'[p].cb = starts
                         ELSE handlerMap'[p].cb = handlerMap'[p].userData
    BY <1>2, <1>6 DEF TableKept
  <2> QED
    BY <1>5, <1>9
<1>11. ASSUME NEW s \in Int, NEW p \in Positions, InTable(s, p)
       PROVE  s <= handlerMap'[p].cb /\ s < starts
  <2>1. s <= handlerMap[p].cb
    BY <1>11 DEF InTable
  <2> QED
    BY <1>5, <1>9, <2>1
<1>12. LiveFramesKept'
  <2>1. \A p \in Positions : streaming[p] <= handlerMap'[p].cb /\ streaming[p] < starts
    BY <1>1, <1>11, StartNumbers DEF LiveFramesKept
  <2>2. \A f \in inFlight : f.start <= handlerMap'[f.pos].cb /\ f.start < starts
    BY <1>1, <1>11, StartNumbers DEF LiveFramesKept
  <2>3. frame # NoFrame => /\ frame.start <= handlerMap'[frame.pos].cb
                           /\ frame.start < starts
                           /\ frame.start <= frame.cb
                           /\ frame.cb <= handlerMap'[frame.pos].cb
    <3> SUFFICES ASSUME frame # NoFrame
                 PROVE  /\ frame.start <= handlerMap'[frame.pos].cb
                        /\ frame.start < starts
                        /\ frame.start <= frame.cb
                        /\ frame.cb <= handlerMap'[frame.pos].cb
      OBVIOUS
    <3>1. /\ InTable(frame.start, frame.pos) /\ frame.start <= frame.cb
          /\ frame.cb <= handlerMap[frame.pos].cb
      BY <1>1 DEF LiveFramesKept
    <3>2. frame.pos \in Positions /\ frame.start \in Nat /\ frame.cb \in Nat
      BY <1>1, StartNumbers
    <3>3. InTable(frame.cb, frame.pos)
      BY <1>2, <3>1 DEF InTable
    <3> QED
      BY <1>11, <3>1, <3>2, <3>3
  <2> QED
    BY <1>2, <2>1, <2>2, <2>3 DEF LiveFramesKept, InTable
<1> QED
  BY <1>7, <1>8, <1>10, <1>12 DEF LiveInv, CallbacksKept

LEMMA SetUserDataKeepsLiveInv ==
  ASSUME LiveInv, SetUserData PROVE LiveInv'
<1> DEFINE pos == liveCall.pos
<1>1. LiveTypeOK /\ StartsCounted /\ HeartBeatKept /\ TableKept /\ LiveFramesKept
  BY DEF LiveInv, CallbacksKept
<1>2. /\ liveCall.step = "userData"
      /\ liveCall' = [liveCall EXCEPT !.step = "subscribe"]
      /\ started' = started
      /\ UNCHANGED <<inFlight, defUserData, frame, streaming, starts,
                     heartBeats, h264TaskHandle, lostHandle>>
  BY NextSteps DEF SetUserData, GoOn, FrameVars
<1>3. handlerMap' = [handlerMap EXCEPT
                       ![pos] = [@ EXCEPT !.userData = starts]]
  BY DEF SetUserData
<1>4. /\ pos \in Positions /\ starts \in 0 .. MaxStarts /\ starts >= 1
      /\ handlerMap \in [Positions -> [cb : 0 .. MaxStarts,
                                       userData : 0 .. MaxStarts]]
  BY <1>1, <1>2 DEF LiveTypeOK, StartsCounted
<1>5. /\ handlerMap' \in [Positions -> [cb : 0 .. MaxStarts,
                                        userData : 0 .. MaxStarts]]
      /\ \A p \in Positions : handlerMap'[p].cb = handlerMap[p].cb
      /\ \A p \in Positions : handlerMap'[p].userData =
           IF p = pos THEN starts ELSE handlerMap[p].userData
  BY <1>3, <1>4
<1>6. /\ liveCall'.step = "subscribe" /\ liveCall'.pos = pos
      /\ liveCall' \in [step : Steps, pos : Positions]
  BY <1>1, <1>2 DEF LiveTypeOK, Steps
<1>7. \A p \in Positions :
        /\ handlerMap[p].cb <= starts
        /\ IF p = pos THEN handlerMap[p].cb = starts
           ELSE handlerMap[p].cb = handlerMap[p].userData
  BY <1>1, <1>2 DEF TableKept
<1> HIDE DEF pos
<1>8. LiveTypeOK'
  BY <1>1, <1>2, <1>5, <1>6 DEF LiveTypeOK
<1>9. StartsCounted' /\ HeartBeatKept'
  BY <1>1, <1>2, <1>4, <1>6 DEF StartsCounted, HeartBeatKept
<1>10. TableKept'
  BY <1>2, <1>4, <1>5, <1>6, <1>7 DEF TableKept
<1>11. LiveFramesKept'
  BY <1>1, <1>2, <1>5, <1>6, StartNumbers DEF LiveFramesKept, InTable
<1> QED
  BY <1>8, <1>9, <1>10, <1>11 DEF LiveInv, CallbacksKept

LEMMA SubscribeKeepsLiveInv ==
  ASSUME LiveInv, SubscribeLiveViewData PROVE LiveInv'
<1> DEFINE pos == liveCall.pos
<1>1. LiveTypeOK /\ StartsCounted /\ HeartBeatKept /\ CallbacksKept
  BY DEF LiveInv
<1>2. PICK o \in Outcomes :
        /\ Exchange(o, pos, starts)
        /\ IF o.known THEN GoOn("subscribe") ELSE GiveUp
  BY DEF SubscribeLiveViewData
<1>3. /\ liveCall.step = "subscribe"
      /\ UNCHANGED <<inFlight, defUserData, frame, handlerMap, starts,
                     heartBeats, h264TaskHandle, lostHandle>>
  BY DEF SubscribeLiveViewData, FrameVars
<1>4. /\ liveCall'.step \in {"heartBeat", "none"}
      /\ liveCall'.pos = pos
      /\ liveCall' \in [step : Steps, pos : Positions]
      /\ started' = started
  BY <1>1, <1>2, <1>3, NextSteps DEF GoOn, GiveUp, LiveTypeOK, Steps
<1>5. pos \in Positions /\ starts \in 0 .. MaxStarts
  BY <1>1 DEF LiveTypeOK
<1>6. /\ streaming' \in [Positions -> {Off} \cup 0 .. MaxStarts]
      /\ \A p \in Positions :
           streaming'[p] \in {streaming[p]} \cup
                             (IF p = pos THEN {starts} ELSE {})
  BY <1>1, <1>2, <1>5, ExchangeTypes
<1>7. handlerMap[pos].cb = starts
  BY <1>1, <1>3 DEF CallbacksKept, TableKept
<1> HIDE DEF pos
<1>8. LiveTypeOK'
  BY <1>1, <1>3, <1>4, <1>6 DEF LiveTypeOK
<1>9. StartsCounted' /\ HeartBeatKept'
  BY <1>1, <1>3, <1>4 DEF StartsCounted, HeartBeatKept
<1>10. CallbacksKept'
  <2>1. starts \in Nat /\ starts' = starts
    BY <1>1, <1>3, StartNumbers
  <2>2. \A p \in Positions : streaming[p] <= handlerMap[p].cb
                             /\ streaming[p] \in Int
    BY <1>1, StartNumbers DEF CallbacksKept, LiveFramesKept, InTable
  <2>3. \A p \in Positions :
          streaming'[p] \in Int /\ streaming'[p] <= handlerMap[p].cb
    BY <1>6, <1>7, <2>1, <2>2
  <2> QED
    BY <1>1, <1>3, <1>4, <2>1, <2>3, TableStays
<1> QED
  BY <1>8, <1>9, <1>10 DEF LiveInv

LEMMA StartHeartBeatKeepsLiveInv ==
  ASSUME LiveInv, StartHeartBeatTask PROVE LiveInv'
<1> DEFINE pos == liveCall.pos
<1>1. LiveTypeOK /\ StartsCounted /\ HeartBeatKept /\ CallbacksKept
  BY DEF LiveInv
<1>2. /\ liveCall.step = "heartBeat"
      /\ UNCHANGED <<inFlight, defUserData, frame, streaming, handlerMap,
                     starts, lostHandle>>
      /\ liveCall' = [liveCall EXCEPT !.step = "none"]
      /\ \/ /\ heartBeats' = heartBeats \cup {starts}
            /\ h264TaskHandle' = starts
            /\ started' = started \cup {pos}
         \/ UNCHANGED <<heartBeats, h264TaskHandle, started>>
  BY NextSteps DEF StartHeartBeatTask, GoOn, GiveUp, FrameVars
<1>3. started = {} /\ heartBeats = {} /\ ~lostHandle
  BY <1>1, <1>2 DEF HeartBeatKept
<1>4. /\ liveCall'.step = "none" /\ pos \in Positions
      /\ liveCall' \in [step : Steps, pos : Positions]
  BY <1>1, <1>2 DEF LiveTypeOK, Steps
<1>5. starts \in 1 .. MaxStarts
  BY <1>1, <1>2, LiveViewAssumption DEF LiveTypeOK, StartsCounted
<1> HIDE DEF pos
<1>6. /\ heartBeats' = (IF started' = {} THEN {} ELSE {starts})
      /\ started' = {} \/ started' = {pos}
      /\ started' # {} => h264TaskHandle' = starts
  BY <1>2, <1>3
<1>7. LiveTypeOK'
  <2>1. heartBeats' \subseteq 1 .. MaxStarts /\ started' \subseteq Positions
    BY <1>4, <1>5, <1>6
  <2>2. h264TaskHandle' \in 0 .. MaxStarts
    BY <1>1, <1>2, <1>5, LiveViewAssumption DEF LiveTypeOK
  <2> QED
    BY <1>1, <1>2, <1>4, <2>1, <2>2 DEF LiveTypeOK
<1>8. StartsCounted' /\ HeartBeatKept'
  BY <1>2, <1>3, <1>4, <1>6 DEF StartsCounted, HeartBeatKept
<1>9. CallbacksKept'
  <2>1. \A p \in Positions :
          streaming'[p] \in Int /\ streaming'[p] <= handlerMap[p].cb
    BY <1>1, <1>2, StartNumbers DEF CallbacksKept, LiveFramesKept, InTable
  <2>2. starts \in Nat /\ starts' = starts
    BY <1>1, <1>2, StartNumbers
  <2> QED
    BY <1>1, <1>2, <1>4, <2>1, <2>2, TableStays
<1> QED
  BY <1>7, <1>8, <1>9 DEF LiveInv

LEMMA StopKeepsLiveInv ==
  ASSUME LiveInv, NEW pos \in Positions, StopH264Stream(pos) PROVE LiveInv'
<1>1. LiveTypeOK /\ StartsCounted /\ HeartBeatKept /\ CallbacksKept
  BY DEF LiveInv
<1>2. PICK o \in Outcomes : Exchange(o, pos, Off)
  BY DEF StopH264Stream
<1>3. /\ liveCall.step = "none" /\ pos \in started
      /\ liveCall' = [step |-> "stopHeartBeat", pos |-> pos]
      /\ UNCHANGED <<inFlight, defUserData, frame, handlerMap, started, starts,
                     heartBeats, h264TaskHandle, lostHandle>>
  BY DEF StopH264Stream, FrameVars
<1>4. /\ streaming' \in [Positions -> {Off} \cup 0 .. MaxStarts]
      /\ \A p \in Positions :
           streaming'[p] \in {streaming[p]} \cup
                             (IF p = pos THEN {Off} ELSE {})
  BY <1>1, <1>2, ExchangeTypes
<1>5. /\ liveCall'.step = "stopHeartBeat" /\ liveCall'.pos = pos
      /\ liveCall' \in [step : Steps, pos : Positions]
  BY <1>3 DEF Steps
<1>6. started = {pos}
  BY <1>1, <1>3 DEF HeartBeatKept
<1>7. LiveTypeOK'
  BY <1>1, <1>3, <1>4, <1>5 DEF LiveTypeOK
<1>8. StartsCounted' /\ HeartBeatKept'
  BY <1>1, <1>3, <1>5, <1>6 DEF StartsCounted, HeartBeatKept
<1>9. CallbacksKept'
  <2>1. starts \in Nat /\ starts' = starts
    BY <1>1, <1>3, StartNumbers
  <2>2. \A p \in Positions : /\ streaming[p] <= handlerMap[p].cb
                             /\ streaming[p] \in Int /\ handlerMap[p].cb \in Nat
    BY <1>1, StartNumbers DEF CallbacksKept, LiveFramesKept, InTable
  <2>3. \A p \in Positions :
          streaming'[p] \in Int /\ streaming'[p] <= handlerMap[p].cb
    BY <1>4, <2>2 DEF Off
  <2> QED
    BY <1>1, <1>3, <1>5, <2>1, <2>3, TableStays
<1> QED
  BY <1>7, <1>8, <1>9 DEF LiveInv

LEMMA StopHeartBeatKeepsLiveInv ==
  ASSUME LiveInv, StopHeartBeatTask PROVE LiveInv'
<1>1. LiveTypeOK /\ StartsCounted /\ HeartBeatKept /\ CallbacksKept
  BY DEF LiveInv
<1>2. /\ liveCall.step = "stopHeartBeat"
      /\ heartBeats' = heartBeats \ {h264TaskHandle}
      /\ lostHandle' = (lostHandle \/ h264TaskHandle \notin heartBeats)
      /\ liveCall' = [liveCall EXCEPT !.step = "none"]
      /\ started' = started \ {liveCall.pos}
      /\ UNCHANGED <<inFlight, defUserData, frame, streaming, handlerMap,
                     starts, h264TaskHandle>>
  BY DEF StopHeartBeatTask, FrameVars
<1>3. started = {liveCall.pos} /\ heartBeats = {starts}
      /\ h264TaskHandle = starts /\ ~lostHandle
  BY <1>1, <1>2 DEF HeartBeatKept
<1>4. started' = {} /\ heartBeats' = {} /\ lostHandle' = FALSE
  BY <1>2, <1>3
<1>5. /\ liveCall'.step = "none"
      /\ liveCall' \in [step : Steps, pos : Positions]
  BY <1>1, <1>2 DEF LiveTypeOK, Steps
<1>6. LiveTypeOK'
  BY <1>1, <1>2, <1>4, <1>5 DEF LiveTypeOK
<1>7. StartsCounted' /\ HeartBeatKept'
  BY <1>4, <1>5 DEF StartsCounted, HeartBeatKept
<1>8. CallbacksKept'
  <2>1. \A p \in Positions :
          streaming'[p] \in Int /\ streaming'[p] <= handlerMap[p].cb
    BY <1>1, <1>2, StartNumbers DEF CallbacksKept, LiveFramesKept, InTable
  <2>2. starts \in Nat /\ starts' = starts
    BY <1>1, <1>2, StartNumbers
  <2> QED
    BY <1>1, <1>2, <1>5, <2>1, <2>2, TableStays
<1> QED
  BY <1>6, <1>7, <1>8 DEF LiveInv

LEMMA FramesKeepLiveInv ==
  ASSUME LiveInv,
         \/ DroneSendsFrame
         \/ \E pos \in Positions : CopyCallback(pos)
         \/ RecordStreamHandler
  PROVE  LiveInv'
<1>1. LiveTypeOK /\ StartsCounted /\ HeartBeatKept /\ TableKept /\ LiveFramesKept
  BY DEF LiveInv, CallbacksKept
<1>2. UNCHANGED <<streaming, handlerMap, liveCall, started, starts,
                  heartBeats, h264TaskHandle, lostHandle>>
  BY DEF DroneSendsFrame, CopyCallback, RecordStreamHandler, AppVars
<1>3. StartsCounted' /\ HeartBeatKept' /\ TableKept'
  BY <1>1, <1>2 DEF StartsCounted, HeartBeatKept, TableKept
<1>4. CASE DroneSendsFrame
  <2>1. PICK pos \in Positions :
          /\ streaming[pos] # Off
          /\ inFlight' = inFlight \cup {[pos |-> pos, start |-> streaming[pos]]}
    BY <1>4 DEF DroneSendsFrame
  <2>2. UNCHANGED <<defUserData, frame>>
    BY <1>4 DEF DroneSendsFrame
  <2>3. [pos |-> pos, start |-> streaming[pos]] \in Frames
    BY <1>1, <2>1 DEF LiveTypeOK, Frames
  <2>4. LiveTypeOK'
    BY <1>1, <1>2, <2>1, <2>2, <2>3 DEF LiveTypeOK
  <2>5. LiveFramesKept'
    BY <1>1, <1>2, <2>1, <2>2 DEF LiveFramesKept, InTable
  <2> QED
    BY <1>3, <2>4, <2>5 DEF LiveInv, CallbacksKept
<1>5. ASSUME NEW pos \in Positions, CopyCallback(pos) PROVE LiveInv'
  <2>1. PICK f \in inFlight :
          /\ f.pos = pos /\ inFlight' = inFlight \ {f}
          /\ frame' = [pos |-> pos, start |-> f.start,
                       cb |-> handlerMap[pos].cb]
    BY <1>5 DEF CopyCallback
  <2>2. defUserData' = defUserData
    BY <1>5 DEF CopyCallback
  <2>3. handlerMap[pos].cb \in 0 .. MaxStarts /\ f.start \in 0 .. MaxStarts
    BY <1>1 DEF LiveTypeOK, Frames
  <2>4. LiveTypeOK'
    BY <1>1, <1>2, <2>1, <2>2, <2>3 DEF LiveTypeOK
  <2>5. InTable(f.start, pos)
    BY <1>1, <2>1 DEF LiveFramesKept
  <2>6. LiveFramesKept'
    <3>1. /\ frame'.pos = pos /\ frame'.start = f.start
          /\ frame'.cb = handlerMap[pos].cb
      BY <2>1
    <3>2. handlerMap[pos].cb \in Nat
      BY <1>1, StartNumbers
    <3>3. InTable(f.start, pos)' /\ f.start <= handlerMap[pos].cb
      BY <1>2, <2>5 DEF InTable
    <3>4. /\ \A p \in Positions : InTable(streaming[p], p)'
          /\ \A g \in inFlight : InTable(g.start, g.pos)'
      BY <1>1, <1>2 DEF LiveFramesKept, InTable
    <3> QED
      BY <1>2, <2>1, <3>1, <3>2, <3>3, <3>4 DEF LiveFramesKept, InTable
  <2> QED
    BY <1>3, <2>4, <2>6 DEF LiveInv, CallbacksKept
<1>6. CASE RecordStreamHandler
  <2>1. /\ frame # NoFrame /\ frame' = NoFrame /\ inFlight' = inFlight
        /\ defUserData' = defUserData \/ defUserData' = defUserData \cup {frame.pos}
    BY <1>6 DEF RecordStreamHandler
  <2>2. frame.pos \in Positions
    BY <1>1, <2>1 DEF LiveTypeOK
  <2>3. LiveTypeOK'
    BY <1>1, <1>2, <2>1, <2>2 DEF LiveTypeOK
  <2>4. LiveFramesKept'
    BY <1>1, <1>2, <2>1 DEF LiveFramesKept, InTable
  <2> QED
    BY <1>3, <2>3, <2>4 DEF LiveInv, CallbacksKept
<1> QED
  BY <1>4, <1>5, <1>6

LEMMA LiveInvHolds == LiveSpec => []LiveInv
<1>1. LiveInv /\ [LiveNext]_liveVars => LiveInv'
  <2> SUFFICES ASSUME LiveInv, [LiveNext]_liveVars PROVE LiveInv'
    OBVIOUS
  <2>1. CASE LiveViewImpl
    BY <2>1, LiveViewImplKeepsLiveInv
  <2>2. ASSUME NEW pos \in Positions, StartH264Stream(pos) PROVE LiveInv'
    BY <2>2, StartKeepsLiveInv
  <2>3. ASSUME NEW pos \in Positions, StopH264Stream(pos) PROVE LiveInv'
    BY <2>3, StopKeepsLiveInv
  <2>4. CASE SetCallback
    BY <2>4, SetCallbackKeepsLiveInv
  <2>5. CASE SetUserData
    BY <2>5, SetUserDataKeepsLiveInv
  <2>6. CASE SubscribeLiveViewData
    BY <2>6, SubscribeKeepsLiveInv
  <2>7. CASE StartHeartBeatTask
    BY <2>7, StartHeartBeatKeepsLiveInv
  <2>8. CASE StopHeartBeatTask
    BY <2>8, StopHeartBeatKeepsLiveInv
  <2>9. CASE DroneSendsFrame \/ (\E pos \in Positions : CopyCallback(pos))
               \/ RecordStreamHandler
    BY <2>9, FramesKeepLiveInv
  <2>10. CASE UNCHANGED liveVars
    BY <2>10 DEF liveVars, LiveInv, LiveTypeOK, StartsCounted, HeartBeatKept,
                 CallbacksKept, TableKept, LiveFramesKept, InTable
  <2> QED
    BY <2>1, <2>2, <2>3, <2>4, <2>5, <2>6, <2>7, <2>8, <2>9, <2>10 DEF LiveNext
<1> QED
  BY <1>1, LiveStart, PTL DEF LiveSpec

\* Between two calls exactly one heartbeat task runs if a stream is started,
\* and none otherwise, and stopH264Stream never stops a task a second time,
\* though h264TaskHandle keeps its value: for all cameras, any number of calls
\* and any failures.
THEOREM OneHeartBeatTheorem == LiveSpec => []OneHeartBeat
<1>1. LiveInv => OneHeartBeat
  BY DEF LiveInv, HeartBeatKept, OneHeartBeat
<1> QED
  BY <1>1, LiveInvHolds, PTL

\* Though the receive thread reads the callback and its user data from a table
\* without a lock, and one after the other, and though frames of earlier streams
\* may come at any time, a frame is never given to the callback of a start
\* before its own, and until a later start writes the table it is given to the
\* callback of its own with that start's user data: for all cameras, any number
\* of calls, and whatever requests and answers are lost.
THEOREM OwnUserDataTheorem == LiveSpec => []OwnUserData
<1>1. LiveInv => OwnUserData
  <2> SUFFICES ASSUME LiveInv, frame # NoFrame
               PROVE  /\ frame.start <= frame.cb
                      /\ frame.start = handlerMap[frame.pos].cb =>
                           /\ frame.cb = handlerMap[frame.pos].cb
                           /\ handlerMap[frame.pos].userData =
                                handlerMap[frame.pos].cb
    BY DEF OwnUserData
  <2>1. LiveTypeOK /\ TableKept /\ LiveFramesKept
    BY DEF LiveInv, CallbacksKept
  <2>2. /\ InTable(frame.start, frame.pos) /\ frame.start <= frame.cb
        /\ frame.cb <= handlerMap[frame.pos].cb
    BY <2>1 DEF LiveFramesKept
  <2>3. /\ frame.pos \in Positions /\ frame.start \in Nat /\ frame.cb \in Nat
        /\ handlerMap[frame.pos].cb \in Nat /\ starts \in Nat
    BY <2>1, StartNumbers
  <2>4. ASSUME frame.start = handlerMap[frame.pos].cb
        PROVE  ~(liveCall.step = "userData" /\ frame.pos = liveCall.pos)
    <3> SUFFICES ASSUME liveCall.step = "userData", frame.pos = liveCall.pos
                 PROVE  FALSE
      OBVIOUS
    <3>1. handlerMap[frame.pos].cb = starts
      BY <2>1, <2>3 DEF TableKept
    <3>2. frame.start < starts
      BY <2>2 DEF InTable
    <3> QED
      BY <2>3, <2>4, <3>1, <3>2
  <2>5. frame.start = handlerMap[frame.pos].cb =>
          handlerMap[frame.pos].userData = handlerMap[frame.pos].cb
    BY <2>1, <2>3, <2>4 DEF TableKept
  <2>6. frame.start = handlerMap[frame.pos].cb =>
          frame.cb = handlerMap[frame.pos].cb
    BY <2>2, <2>3
  <2> QED
    BY <2>2, <2>5, <2>6
<1> QED
  BY <1>1, LiveInvHolds, PTL
-----------------------------------------------------------------------------
(* Stereo images: the inductive invariant.                                 *)

\* Bytes of the last transfer that have not been parsed.
Unread == Len(readBuf) - bufReadPos

\* Bytes of the last frame that are still to come.
Remaining == toSend + Unread

\* Bytes of the last frame that have been parsed, appended unseen or lost.
Consumed == FrameLen - Remaining

\* The camera sends a header and then the payload; what is left of a payload
\* is never a full transfer, and unread bytes are the next ones of the frame.
TransferKept ==
  /\ toSend # 0 => toSend % BufferSize = payload % BufferSize
  /\ payload < BufferSize => toSend \in {0, payload}
  /\ payload >= BufferSize => losses = 0
  /\ \/ toSend = payload /\ Unread <= HeaderLen
     \/ Remaining <= payload
  /\ sentFrames = 0 => Remaining = 0
  /\ \A i \in bufReadPos + 1 .. Len(readBuf) :
       readBuf[i] = Byte(sentFrames, (FrameLen - toSend - Len(readBuf)) + i)

\* recvBuf ends with what has been parsed of the last frame.  What precedes it
\* holds no first byte of a header, and nothing does once the header is found.
OnTrack ==
  LET skip == Len(recvBuf) - Consumed
  IN /\ Remaining > 0 /\ skip >= 0
     /\ \A i \in 1 .. skip : recvBuf[i].place # 1
     /\ \A i \in skip + 1 .. Len(recvBuf) :
          recvBuf[i] = Byte(sentFrames, i - skip)
     /\ IF Remaining > payload THEN Len(recvBuf) < HeaderLen ELSE skip = 0

\* The frame is complete, its last byte perhaps still to be parsed again.
Resting ==
  /\ toSend = 0 /\ Unread <= 1
  /\ Len(recvBuf) < HeaderLen
  /\ \A i \in 1 .. Len(recvBuf) : recvBuf[i].place # 1

\* As long as no read fails, the parser follows the frames.
TrackKept ==
  losses = 0 =>
    /\ \A i \in 1 .. Len(received) : received[i] = i
    /\ \/ OnTrack /\ Len(received) = sentFrames - 1
       \/ Resting /\ Len(received) = sentFrames

\* The last bytes of recvBuf hold no first byte of a header, except while the
\* header it belongs to is being parsed.
FirstBytesKept ==
  \A i \in 1 .. Len(recvBuf) :
    recvBuf[i].place = 1 =>
      \/ Len(recvBuf) - i >= HeaderLen - 1
      \/ /\ recvBuf[i].frame = sentFrames /\ Remaining > payload
         /\ Len(recvBuf) - i >= Consumed - 1

\* First bytes stand in recvBuf in the order of their frames, one of them
\* perhaps twice in a row.
FirstBytesOrdered ==
  \A i, j \in 1 .. Len(recvBuf) :
    i < j /\ recvBuf[i].place = 1 /\ recvBuf[j].place = 1 =>
      \/ recvBuf[i].frame < recvBuf[j].frame
      \/ recvBuf[i].frame = recvBuf[j].frame /\ j = i + 1

\* They are of later frames than the images the application has, and of no
\* frame to come.  That of the last frame is there before it is parsed only
\* if it has completed another frame and is parsed once more.
FirstBytesAhead ==
  \A i \in 1 .. Len(recvBuf) :
    recvBuf[i].place = 1 =>
      /\ \A j \in 1 .. Len(received) : received[j] < recvBuf[i].frame
      /\ recvBuf[i].frame <= sentFrames
      /\ recvBuf[i].frame = sentFrames /\ Consumed = 0 =>
           i = Len(recvBuf) /\ i < HeaderLen

\* The images are in order, and none is of a frame that is not parsed yet.
ImagesKept ==
  /\ \A j \in 1 .. Len(received) :
       /\ received[j] <= sentFrames
       /\ Consumed = 0 => received[j] < sentFrames
  /\ \A i, j \in 1 .. Len(received) :
       i < j /\ received[i] # 0 /\ received[j] # 0 => received[i] < received[j]

\* What the parser has delivered and what the losses excuse.
Credit == Cardinality(WholeImages) + 2 * losses

\* On track, only the frame being parsed is missing.  A window without a
\* header misses none, and a torn frame, once it is complete, has swallowed
\* one frame that is accounted for.
CreditKept ==
  \/ OnTrack /\ Credit >= sentFrames - 1
  \/ Len(recvBuf) < HeaderLen /\ Credit >= sentFrames
  \/ /\ Len(recvBuf) \in HeaderLen .. FrameLen - 1 /\ StartOfFrame(recvBuf)
     /\ Credit >= sentFrames
     /\ Len(recvBuf) + Remaining >= FrameLen \/ Credit >= sentFrames + 1

ImageInv ==
  /\ SensingTypeOK /\ TransferKept /\ TrackKept
  /\ payload < BufferSize =>
       /\ FirstBytesKept /\ FirstBytesOrdered /\ FirstBytesAhead /\ ImagesKept
       /\ CreditKept

-----------------------------------------------------------------------------
(* Lemmas about sizes, bytes and remainders.                               *)

\* The numbers of a state, and how they relate.
Numbers ==
  /\ HeaderLen \in Nat /\ HeaderLen > 2
  /\ BufferSize \in Nat /\ BufferSize > HeaderLen
  /\ payload \in Nat /\ payload >= HeaderLen
  /\ FrameLen \in Nat /\ FrameLen = HeaderLen + payload
  /\ MaxRecvLen \in Nat /\ FrameLen <= MaxRecvLen /\ MaxFrames \in Nat
  /\ sentFrames \in Nat /\ losses \in Nat
  /\ toSend \in Nat /\ toSend <= payload
  /\ Len(readBuf) \in Nat /\ bufReadPos \in Nat /\ bufReadPos <= Len(readBuf)
  /\ Len(recvBuf) \in Nat /\ Len(received) \in Nat
  /\ Unread \in Nat /\ Unread = Len(readBuf) - bufReadPos
  /\ Remaining \in Nat /\ Remaining = toSend + Unread
  /\ Consumed \in Int /\ Consumed = FrameLen - Remaining

LEMMA Sizes == SensingTypeOK => Numbers
  <1> SUFFICES ASSUME SensingTypeOK PROVE Numbers
    OBVIOUS
  <1>1. /\ HeaderLen \in Nat /\ HeaderLen > 2
        /\ BufferSize \in Nat /\ BufferSize > HeaderLen
        /\ payload \in Nat /\ payload >= HeaderLen
        /\ HeaderLen + payload <= MaxRecvLen /\ MaxRecvLen \in Nat
        /\ MaxFrames \in Nat /\ MaxLosses \in Nat
    BY SensingAssumption DEF SensingTypeOK, SensingAssumption
  <1>2. /\ Len(readBuf) \in Nat /\ Len(recvBuf) \in Nat /\ Len(received) \in Nat
        /\ sentFrames \in 0 .. MaxFrames /\ losses \in 0 .. MaxLosses
        /\ toSend \in 0 .. payload /\ bufReadPos \in 0 .. Len(readBuf)
    BY DEF SensingTypeOK
  <1> QED BY <1>1, <1>2 DEF FrameLen, Unread, Remaining, Consumed, Numbers

\* A byte of a frame has its type.
LEMMA ByteType ==
  ASSUME NEW f \in Nat, NEW p \in Int, FrameLen \in Nat, MaxFrames \in Nat,
         f >= 1, f <= MaxFrames, p >= 1, p <= FrameLen
  PROVE  Byte(f, p) \in Bytes
  BY DEF Byte, Bytes

LEMMA ByteFields ==
  ASSUME NEW f, NEW p
  PROVE  Byte(f, p).frame = f /\ Byte(f, p).place = p
  BY DEF Byte

\* The bytes of recvBuf are numbered by frame and place.
LEMMA BytesAreNumbered ==
  ASSUME NEW b \in Bytes, MaxFrames \in Nat, FrameLen \in Nat
  PROVE  b.frame \in Nat /\ b.frame >= 1 /\ b.place \in Nat
  BY DEF Bytes

LEMMA DivisionOfNumbers ==
  ASSUME NEW a \in Nat, NEW b \in Nat, b > 0
  PROVE  a = (b * (a \div b)) + (a % b)
  OBVIOUS

LEMMA RemainderIsUnique ==
  ASSUME NEW a \in Nat, NEW b \in Nat, b > 0,
         NEW q \in Int, NEW r \in Int, 0 <= r, r < b, a = b * q + r
  PROVE  a % b = r
  OBVIOUS

\* Taking a full transfer off leaves the remainder as it is.
LEMMA RemainderKept ==
  ASSUME NEW a \in Nat, NEW b \in Nat, b > 0, a >= b
  PROVE  (a - b) % b = a % b
  <1> DEFINE q == a \div b
             r == a % b
  <1>1. q \in Int /\ r \in Int /\ 0 <= r /\ r < b /\ a = b * q + r
    BY DivisionOfNumbers
  <1> HIDE DEF q, r
  <1>2. a - b \in Nat /\ a - b = b * (q - 1) + r
    BY <1>1
  <1>3. (a - b) % b = r
    BY <1>1, <1>2, RemainderIsUnique
  <1> QED BY <1>3 DEF r

\* The elements of a sequence.
LEMMA ElementsOfSequence ==
  ASSUME NEW S, NEW s \in Seq(S)
  PROVE  \A i \in 1 .. Len(s) : s[i] \in S
  OBVIOUS

\* Two sequences in a row.
LEMMA TwoSequences ==
  ASSUME NEW S, NEW s \in Seq(S), NEW t \in Seq(S)
  PROVE  /\ s \o t \in Seq(S) /\ Len(s \o t) = Len(s) + Len(t)
         /\ \A i \in 1 .. Len(s) + Len(t) :
              (s \o t)[i] = IF i <= Len(s) THEN s[i] ELSE t[i - Len(s)]
  OBVIOUS

\* The application has finitely many images.
LEMMA ImagesAreFinite ==
  ASSUME SensingTypeOK
  PROVE  IsFiniteSet(WholeImages) /\ Cardinality(WholeImages) \in Nat
  <1>0. Numbers
    BY Sizes
  <1>1. WholeImages \subseteq 0 .. MaxFrames
    <2>1. received \in Seq(0 .. MaxFrames)
      BY DEF SensingTypeOK
    <2>2. \A i \in 1 .. Len(received) : received[i] \in 0 .. MaxFrames
      BY <2>1, ElementsOfSequence
    <2> QED BY <2>2 DEF WholeImages
  <1>2. IsFiniteSet(0 .. MaxFrames)
    BY <1>0, FS_Interval DEF Numbers
  <1>3. IsFiniteSet(WholeImages)
    BY <1>1, <1>2, FS_Subset
  <1> QED BY <1>3, FS_CardinalityType

-----------------------------------------------------------------------------
(* Stereo images: the start.                                               *)

LEMMA ImageStart == SensingInit => ImageInv
  <1> SUFFICES ASSUME SensingInit PROVE ImageInv
    OBVIOUS
  <1>1. SensingTypeOK
    BY SensingAssumption DEF SensingInit, SensingTypeOK, SensingAssumption
  <1>0. Numbers
    BY <1>1, Sizes
  <1>2. /\ sentFrames = 0 /\ losses = 0 /\ toSend = 0 /\ bufReadPos = 0
        /\ Len(readBuf) = 0 /\ Len(recvBuf) = 0 /\ Len(received) = 0
    BY DEF SensingInit
  <1>3. Unread = 0 /\ Remaining = 0 /\ Consumed = FrameLen
    BY <1>1, <1>2, <1>0 DEF Numbers
  <1>4. TransferKept
    BY <1>1, <1>2, <1>3, <1>0 DEF TransferKept, Numbers
  <1>5. Resting
    BY <1>1, <1>2, <1>3, <1>0 DEF Resting, Numbers
  <1>6. TrackKept
    BY <1>2, <1>5 DEF TrackKept
  <1>7. FirstBytesKept /\ FirstBytesOrdered /\ FirstBytesAhead /\ ImagesKept
    BY <1>2 DEF FirstBytesKept, FirstBytesOrdered, FirstBytesAhead, ImagesKept
  <1>8. CreditKept
    BY <1>1, <1>2, ImagesAreFinite, <1>0 DEF CreditKept, Credit, Numbers
  <1> QED BY <1>1, <1>4, <1>6, <1>7, <1>8 DEF ImageInv

-----------------------------------------------------------------------------
(* Stereo images: the parser.                                              *)

\* The next byte to be parsed is the next byte of the last frame.
LEMMA NextByte ==
  ASSUME SensingTypeOK, TransferKept, ~BufferConsumed
  PROVE  /\ Unread >= 1 /\ Remaining >= 1 /\ sentFrames >= 1
         /\ Consumed >= 0 /\ Consumed < FrameLen
         /\ readBuf[bufReadPos + 1] = Byte(sentFrames, Consumed + 1)
         /\ Byte(sentFrames, Consumed + 1) \in Bytes
  <1>0. Numbers
    BY Sizes
  <1>1. bufReadPos < Len(readBuf) /\ Unread >= 1 /\ Remaining >= 1
    BY <1>0 DEF BufferConsumed, Numbers
  <1>2. sentFrames >= 1 /\ Remaining <= FrameLen
    BY <1>1, <1>0 DEF TransferKept, Numbers
  <1>3. readBuf[bufReadPos + 1]
          = Byte(sentFrames,
                 (FrameLen - toSend - Len(readBuf)) + (bufReadPos + 1))
    BY <1>1, <1>0 DEF TransferKept, Numbers
  <1>4. (FrameLen - toSend - Len(readBuf)) + (bufReadPos + 1) = Consumed + 1
    BY <1>0 DEF Numbers
  <1>5. sentFrames <= MaxFrames
    BY DEF SensingTypeOK
  <1>6. Byte(sentFrames, Consumed + 1) \in Bytes
    BY <1>1, <1>2, <1>5, ByteType, <1>0 DEF Numbers
  <1> QED BY <1>1, <1>2, <1>3, <1>4, <1>6, <1>0 DEF Numbers

\* A buffer that begins with a frame is longer than a header or is one; it
\* never holds a whole frame between two steps.
LEMMA BufferIsShort ==
  ASSUME ImageInv
  PROVE  /\ Len(recvBuf) < FrameLen
         /\ Len(recvBuf) >= HeaderLen => StartOfFrame(recvBuf)
  <1>1. SensingTypeOK /\ TransferKept
    BY DEF ImageInv
  <1>0. Numbers
    BY <1>1, Sizes
  <1>2. HeaderLen < FrameLen
    BY <1>1, <1>0 DEF Numbers
  <1>3. CASE OnTrack
    <2>1. CASE Remaining > payload
      BY <1>1, <1>2, <1>3, <2>1, <1>0 DEF OnTrack, Numbers
    <2>2. CASE ~(Remaining > payload)
      <3>1. /\ Len(recvBuf) = Consumed /\ Remaining > 0
            /\ \A i \in 1 .. Len(recvBuf) : recvBuf[i] = Byte(sentFrames, i)
        <4> DEFINE skip == Len(recvBuf) - Consumed
        <4>1. /\ skip = 0 /\ Remaining > 0
              /\ \A i \in skip + 1 .. Len(recvBuf) :
                   recvBuf[i] = Byte(sentFrames, i - skip)
          BY <1>3, <2>2 DEF OnTrack
        <4>2. Len(recvBuf) = Consumed
          BY <1>0, <4>1 DEF Numbers
        <4> HIDE DEF skip
        <4>3. \A i \in 1 .. Len(recvBuf) : recvBuf[i] = Byte(sentFrames, i)
          <5> TAKE i \in 1 .. Len(recvBuf)
          <5>1. i \in skip + 1 .. Len(recvBuf) /\ i - skip = i
            BY <4>1
          <5> QED BY <4>1, <5>1
        <4> QED BY <4>1, <4>2, <4>3
      <3>2. Len(recvBuf) < FrameLen /\ Len(recvBuf) >= HeaderLen
        BY <1>1, <2>2, <3>1, <1>0 DEF Numbers
      <3>3. recvBuf[1] = Byte(sentFrames, 1) /\ recvBuf[2] = Byte(sentFrames, 2)
        BY <1>1, <3>1, <3>2, <1>0 DEF Numbers
      <3> QED BY <3>2, <3>3, ByteFields DEF StartOfFrame
    <2> QED BY <2>1, <2>2
  <1>4. CASE Resting
    BY <1>1, <1>2, <1>4, <1>0 DEF Resting, Numbers
  <1>5. CASE payload < BufferSize /\ ~OnTrack
    BY <1>1, <1>2, <1>5, <1>0 DEF ImageInv, CreditKept, Numbers
  <1>6. payload < BufferSize \/ losses = 0
    BY <1>1, <1>0 DEF TransferKept, Numbers
  <1>7. OnTrack \/ Resting \/ payload < BufferSize
    BY <1>6 DEF ImageInv, TrackKept
  <1> QED BY <1>3, <1>4, <1>5, <1>7

\* recvBuf with the byte that is parsed.
Joined == Append(recvBuf, Byte(sentFrames, Consumed + 1))

LEMMA JoinedBytes ==
  ASSUME SensingTypeOK, TransferKept, ~BufferConsumed
  PROVE  /\ Joined \in Seq(Bytes) /\ Len(Joined) = Len(recvBuf) + 1
         /\ \A i \in 1 .. Len(recvBuf) : Joined[i] = recvBuf[i]
         /\ Joined[Len(recvBuf) + 1] = Byte(sentFrames, Consumed + 1)
  <1> DEFINE byte == Byte(sentFrames, Consumed + 1)
  <1>1. byte \in Bytes
    BY NextByte
  <1>2. recvBuf \in Seq(Bytes)
    BY DEF SensingTypeOK
  <1> HIDE DEF byte
  <1>3. /\ Append(recvBuf, byte) \in Seq(Bytes)
        /\ Len(Append(recvBuf, byte)) = Len(recvBuf) + 1
        /\ \A i \in 1 .. Len(recvBuf) : Append(recvBuf, byte)[i] = recvBuf[i]
        /\ Append(recvBuf, byte)[Len(recvBuf) + 1] = byte
    BY <1>1, <1>2
  <1> QED BY <1>3 DEF Joined, byte

\* The three things that may happen to a byte: it is kept, it is kept and the
\* oldest one is dropped, or it completes a frame.
Kept ==
  /\ Len(Joined) >= HeaderLen => StartOfFrame(Joined)
  /\ Len(Joined) < FrameLen
  /\ recvBuf' = Joined
  /\ received' = received /\ bufReadPos' = bufReadPos + 1

Shifted ==
  /\ Len(Joined) = HeaderLen /\ ~StartOfFrame(Joined)
  /\ recvBuf' = ShiftDataStream(Joined)
  /\ received' = received /\ bufReadPos' = bufReadPos + 1

Completed ==
  /\ Len(Joined) = FrameLen /\ StartOfFrame(Joined)
  /\ recvBuf' = PrepareDataStream(Joined)
  /\ received' = Append(received, FrameOf(Joined)) /\ bufReadPos' = bufReadPos

LEMMA ByteSteps ==
  ASSUME ImageInv, ByteHandler
  PROVE  /\ ~BufferConsumed
         /\ UNCHANGED <<payload, sentFrames, toSend, readBuf, losses>>
         /\ Kept \/ Shifted \/ Completed
  <1>1. SensingTypeOK /\ TransferKept /\ ~BufferConsumed
    BY DEF ImageInv, ByteHandler
  <1>0. Numbers
    BY <1>1, Sizes
  <1>2. UNCHANGED <<payload, sentFrames, toSend, readBuf, losses>>
    BY DEF ByteHandler
  <1>3. StoreData(readBuf[bufReadPos + 1]) = Joined
    BY <1>1, NextByte, BufferIsShort, <1>0 DEF StoreData, Joined, Numbers
  <1> DEFINE isFrame ==
        /\ Len(Joined) > HeaderLen /\ StartOfFrame(Joined)
        /\ Len(Joined) = FrameLen
  <1>4. /\ recvBuf' = IF isFrame THEN PrepareDataStream(Joined)
                      ELSE IF Len(Joined) = HeaderLen /\ ~StartOfFrame(Joined)
                      THEN ShiftDataStream(Joined)
                      ELSE Joined
        /\ received' = IF isFrame THEN Append(received, FrameOf(Joined))
                       ELSE received
        /\ bufReadPos' = IF isFrame THEN bufReadPos ELSE bufReadPos + 1
    BY <1>3 DEF ByteHandler
  <1>5. Len(Joined) = Len(recvBuf) + 1
    BY <1>1, JoinedBytes
  <1>6. Len(Joined) > HeaderLen => StartOfFrame(Joined)
    <2> SUFFICES ASSUME Len(Joined) > HeaderLen PROVE StartOfFrame(Joined)
      OBVIOUS
    <2>1. Len(recvBuf) >= HeaderLen /\ StartOfFrame(recvBuf)
      BY <1>1, <1>5, BufferIsShort, <1>0 DEF Numbers
    <2>2. 1 \in 1 .. Len(recvBuf) /\ 2 \in 1 .. Len(recvBuf)
      BY <2>1, <1>0 DEF Numbers
    <2>3. Joined[1] = recvBuf[1] /\ Joined[2] = recvBuf[2]
      BY <1>1, <2>2, JoinedBytes
    <2> QED BY <2>1, <2>3 DEF StartOfFrame
  <1>7. Len(Joined) <= FrameLen /\ HeaderLen < FrameLen
    BY <1>1, <1>5, BufferIsShort, <1>0 DEF Numbers
  <1>8. ASSUME isFrame PROVE Completed
    BY <1>4, <1>8 DEF Completed
  <1>9. ASSUME Len(Joined) = HeaderLen, ~StartOfFrame(Joined) PROVE Shifted
    BY <1>4, <1>9 DEF Shifted
  <1>10. ASSUME ~isFrame /\ ~(Len(Joined) = HeaderLen /\ ~StartOfFrame(Joined))
         PROVE  Kept
    <2>1. recvBuf' = Joined /\ received' = received /\ bufReadPos' = bufReadPos + 1
      BY <1>4, <1>10
    <2>2. Len(Joined) >= HeaderLen => StartOfFrame(Joined)
      BY <1>1, <1>5, <1>6, <1>10, <1>0 DEF Numbers
    <2>3. Len(Joined) # FrameLen
      BY <1>6, <1>7, <1>10
    <2> QED BY <1>1, <1>5, <1>7, <2>1, <2>2, <2>3, <1>0 DEF Kept, Numbers
  <1> QED BY <1>1, <1>2, <1>8, <1>9, <1>10

\* What stays in recvBuf: the last bytes of the buffer the byte was stored in.
LEMMA WhatStays ==
  ASSUME ImageInv, ByteHandler
  PROVE  \E cut \in Nat :
           /\ recvBuf' \in Seq(Bytes) /\ Len(recvBuf') = Len(Joined) - cut
           /\ \A i \in 1 .. Len(recvBuf') : recvBuf'[i] = Joined[i + cut]
           /\ Kept => cut = 0
           /\ Shifted => cut = 1
           /\ Completed => cut = FrameLen - (HeaderLen - 1)
  <1>1. SensingTypeOK /\ TransferKept /\ ~BufferConsumed
    BY DEF ImageInv, ByteHandler
  <1>0. Numbers
    BY <1>1, Sizes
  <1>2. Joined \in Seq(Bytes) /\ Len(Joined) = Len(recvBuf) + 1
    BY <1>1, JoinedBytes
  <1>3. HeaderLen > 2 /\ HeaderLen \in Nat /\ FrameLen \in Nat /\ FrameLen > HeaderLen
        /\ Len(recvBuf) \in Nat
    BY <1>1, <1>0 DEF Numbers
  <1>4. CASE Kept
    <2>1. recvBuf' = Joined /\ ~Shifted /\ ~Completed
      BY <1>4 DEF Kept, Shifted, Completed
    <2> QED BY <1>2, <1>4, <2>1
  <1>5. CASE Shifted
    <2>1. recvBuf' = Tail(Joined) /\ Len(Joined) = HeaderLen
      BY <1>5 DEF Shifted, ShiftDataStream
    <2>2. ~Kept /\ ~Completed
      BY <1>3, <1>5 DEF Kept, Shifted, Completed
    <2>3. /\ Tail(Joined) \in Seq(Bytes) /\ Len(Tail(Joined)) = Len(Joined) - 1
          /\ \A i \in 1 .. Len(Joined) - 1 : Tail(Joined)[i] = Joined[i + 1]
      BY <1>2, <1>3
    <2> QED BY <1>5, <2>1, <2>2, <2>3
  <1>6. CASE Completed
    <2> DEFINE cut == FrameLen - (HeaderLen - 1)
    <2>1. recvBuf' = SubSeq(Joined, Len(Joined) - HeaderLen + 2, Len(Joined))
          /\ Len(Joined) = FrameLen
      BY <1>6 DEF Completed, PrepareDataStream
    <2>2. ~Kept /\ ~Shifted
      BY <1>3, <1>6 DEF Kept, Shifted, Completed
    <2>3. cut \in Nat /\ Len(Joined) - HeaderLen + 2 = cut + 1
      BY <1>3, <2>1
    <2>4. recvBuf' = SubSeq(Joined, cut + 1, FrameLen)
      BY <2>1, <2>3
    <2> HIDE DEF cut
    <2>5. /\ SubSeq(Joined, cut + 1, FrameLen) \in Seq(Bytes)
          /\ Len(SubSeq(Joined, cut + 1, FrameLen)) = FrameLen - cut
          /\ \A i \in 1 .. FrameLen - cut :
               SubSeq(Joined, cut + 1, FrameLen)[i] = Joined[i + cut]
      <3>1. cut < FrameLen
        BY <1>3 DEF cut
      <3> QED BY <1>2, <1>3, <2>1, <2>3, <3>1
    <2> QED BY <1>6, <2>1, <2>2, <2>3, <2>4, <2>5 DEF cut
  <1> QED BY <1>4, <1>5, <1>6, ByteSteps

LEMMA SizesAfter == SensingTypeOK' => Numbers'
  BY Sizes, PTL

\* What a byte does to the counts.
LEMMA ParserCounts ==
  ASSUME ImageInv, ByteHandler
  PROVE  /\ FrameLen' = FrameLen
         /\ Kept \/ Shifted =>
              /\ Unread' = Unread - 1 /\ Remaining' = Remaining - 1
              /\ Consumed' = Consumed + 1
         /\ Completed =>
              Unread' = Unread /\ Remaining' = Remaining /\ Consumed' = Consumed
  <1>0. Numbers
    BY Sizes DEF ImageInv
  <1>1. UNCHANGED <<payload, sentFrames, toSend, readBuf, losses>>
    BY ByteSteps
  <1>2. FrameLen' = FrameLen
    BY <1>1 DEF FrameLen
  <1>3. ASSUME Kept \/ Shifted
        PROVE  /\ Unread' = Unread - 1 /\ Remaining' = Remaining - 1
               /\ Consumed' = Consumed + 1
    <2>1. bufReadPos' = bufReadPos + 1
      BY <1>3 DEF Kept, Shifted
    <2>2. Unread' = Unread - 1
      BY <1>0, <1>1, <2>1 DEF Numbers, Unread
    <2>3. Remaining' = Remaining - 1
      BY <1>0, <1>1, <2>2 DEF Numbers, Remaining
    <2>4. Consumed' = Consumed + 1
      BY <1>0, <1>2, <2>3 DEF Numbers, Consumed
    <2> QED BY <2>2, <2>3, <2>4
  <1>4. ASSUME Completed
        PROVE  Unread' = Unread /\ Remaining' = Remaining /\ Consumed' = Consumed
    <2>1. bufReadPos' = bufReadPos
      BY <1>4 DEF Completed
    <2> QED BY <1>1, <1>2, <2>1 DEF Unread, Remaining, Consumed
  <1> QED BY <1>2, <1>3, <1>4

\* A frame is given to the application by its number, or as 0.
LEMMA FrameNumber ==
  ASSUME SensingTypeOK, TransferKept, ~BufferConsumed
  PROVE  /\ FrameOf(Joined) \in {0, Joined[1].frame}
         /\ FrameOf(Joined) \in 0 .. MaxFrames /\ Joined[1].frame >= 1
         /\ Joined[1].frame \in Nat
  <1>0. Numbers
    BY Sizes
  <1>1. Joined[1] \in Bytes
    <2>1. Joined \in Seq(Bytes) /\ Len(Joined) = Len(recvBuf) + 1
      BY JoinedBytes
    <2>2. 1 \in 1 .. Len(Joined)
      BY <1>0, <2>1 DEF Numbers
    <2> QED BY <2>1, <2>2, ElementsOfSequence
  <1>2. Joined[1].frame \in 1 .. MaxFrames
    BY <1>1 DEF Bytes
  <1>3. FrameOf(Joined) = Joined[1].frame \/ FrameOf(Joined) = 0
    BY Zenon DEF FrameOf
  <1> QED BY <1>0, <1>2, <1>3 DEF Numbers

LEMMA ParserTypes ==
  ASSUME ImageInv, ByteHandler
  PROVE  SensingTypeOK'
  <1>1. SensingTypeOK /\ TransferKept /\ ~BufferConsumed
    BY DEF ImageInv, ByteHandler
  <1>0. Numbers
    BY <1>1, Sizes
  <1>2. UNCHANGED <<payload, sentFrames, toSend, readBuf, losses>>
        /\ (Kept \/ Shifted \/ Completed)
    BY ByteSteps
  <1>3. recvBuf' \in Seq(Bytes) /\ Len(recvBuf') <= MaxRecvLen
    <2>1. PICK cut \in Nat :
            recvBuf' \in Seq(Bytes) /\ Len(recvBuf') = Len(Joined) - cut
      BY WhatStays
    <2>2. Len(Joined) = Len(recvBuf) + 1 /\ Len(recvBuf) < FrameLen
      BY <1>1, JoinedBytes, BufferIsShort
    <2>3. Len(recvBuf') <= MaxRecvLen
      BY <1>0, <2>1, <2>2 DEF Numbers
    <2> QED BY <2>1, <2>3
  <1>4. received' \in Seq(0 .. MaxFrames)
    <2>1. received \in Seq(0 .. MaxFrames)
      BY <1>1 DEF SensingTypeOK
    <2>2. FrameOf(Joined) \in 0 .. MaxFrames
      BY <1>1, FrameNumber
    <2>3. Append(received, FrameOf(Joined)) \in Seq(0 .. MaxFrames)
      BY <2>1, <2>2
    <2> QED BY <1>2, <2>1, <2>3 DEF Kept, Shifted, Completed
  <1>5. bufReadPos' \in 0 .. Len(readBuf)
    <2>1. bufReadPos < Len(readBuf)
      BY <1>0, <1>1 DEF BufferConsumed, Numbers
    <2>2. bufReadPos' = bufReadPos \/ bufReadPos' = bufReadPos + 1
      BY <1>2 DEF Kept, Shifted, Completed
    <2> QED BY <1>0, <2>1, <2>2 DEF Numbers
  <1>6. Bytes' = Bytes
    BY <1>2 DEF Bytes, FrameLen
  <1>7. /\ payload' \in Payloads /\ sentFrames' \in 0 .. MaxFrames
        /\ toSend' \in 0 .. payload' /\ losses' \in 0 .. MaxLosses
        /\ readBuf' \in Seq(Bytes) /\ Len(readBuf') <= BufferSize
        /\ bufReadPos' \in 0 .. Len(readBuf')
    BY <1>1, <1>2, <1>5 DEF SensingTypeOK
  <1> QED BY <1>3, <1>4, <1>6, <1>7 DEF SensingTypeOK

LEMMA ParserTransfer ==
  ASSUME ImageInv, ByteHandler
  PROVE  TransferKept'
  <1>1. SensingTypeOK /\ TransferKept /\ ~BufferConsumed
    BY DEF ImageInv, ByteHandler
  <1>0. Numbers
    BY <1>1, Sizes
  <1>2. /\ payload' = payload /\ sentFrames' = sentFrames /\ toSend' = toSend
        /\ readBuf' = readBuf /\ losses' = losses
        /\ (Kept \/ Shifted \/ Completed)
    BY ByteSteps
  <1>3. /\ FrameLen' = FrameLen
        /\ \/ /\ bufReadPos' = bufReadPos + 1
              /\ Unread' = Unread - 1 /\ Remaining' = Remaining - 1
           \/ /\ bufReadPos' = bufReadPos
              /\ Unread' = Unread /\ Remaining' = Remaining
    BY <1>2, ParserCounts DEF Kept, Shifted, Completed
  <1>4. Unread >= 1 /\ Remaining >= 1 /\ sentFrames >= 1
    BY <1>1, NextByte
  <1>5. (toSend = payload /\ Unread <= HeaderLen) \/ Remaining <= payload
    BY <1>1 DEF TransferKept
  <1>6. (toSend' = payload' /\ Unread' <= HeaderLen) \/ Remaining' <= payload'
    BY <1>0, <1>2, <1>3, <1>5 DEF Numbers
  <1>7. \A i \in bufReadPos' + 1 .. Len(readBuf') :
          readBuf'[i] = Byte(sentFrames, (FrameLen - toSend - Len(readBuf)) + i)
    <2>1. \A i \in bufReadPos + 1 .. Len(readBuf) :
            readBuf[i] = Byte(sentFrames, (FrameLen - toSend - Len(readBuf)) + i)
      BY <1>1 DEF TransferKept
    <2>2. /\ bufReadPos' = bufReadPos + 1 \/ bufReadPos' = bufReadPos
          /\ Len(readBuf') = Len(readBuf)
      BY <1>2, <1>3
    <2>3. bufReadPos' + 1 .. Len(readBuf') \subseteq bufReadPos + 1 .. Len(readBuf)
      BY <1>0, <2>2 DEF Numbers
    <2> QED BY <1>2, <2>1, <2>3
  <1>8. /\ toSend' # 0 => toSend' % BufferSize = payload' % BufferSize
        /\ payload' < BufferSize => toSend' \in {0, payload'}
        /\ payload' >= BufferSize => losses' = 0
    BY <1>1, <1>2 DEF TransferKept
  <1>9. sentFrames' = 0 => Remaining' = 0
    BY <1>0, <1>2, <1>4 DEF Numbers
  <1>10. \A i \in bufReadPos' + 1 .. Len(readBuf') :
           readBuf'[i]
             = Byte(sentFrames', (FrameLen' - toSend' - Len(readBuf')) + i)
    BY <1>2, <1>3, <1>7
  <1> QED BY <1>6, <1>8, <1>9, <1>10 DEF TransferKept

\* Parsing a byte on track keeps the parser on track or completes the frame.
LEMMA ParserOnTrack ==
  ASSUME ImageInv, ByteHandler, OnTrack
  PROVE  \/ OnTrack' /\ received' = received
         \/ /\ Completed /\ FrameOf(Joined) = sentFrames
            /\ Consumed + 1 = FrameLen
            /\ Len(recvBuf') = HeaderLen - 1
            /\ \A i \in 1 .. Len(recvBuf') : recvBuf'[i].place # 1
  <1>1. SensingTypeOK /\ TransferKept /\ ~BufferConsumed
    BY DEF ImageInv, ByteHandler
  <1>0. Numbers
    BY <1>1, Sizes
  <1> DEFINE skip == Len(recvBuf) - Consumed
  <1>2. /\ skip \in Nat /\ Remaining >= 1
        /\ \A i \in 1 .. skip : recvBuf[i].place # 1
        /\ \A i \in skip + 1 .. Len(recvBuf) :
             recvBuf[i] = Byte(sentFrames, i - skip)
        /\ IF Remaining > payload THEN Len(recvBuf) < HeaderLen ELSE skip = 0
    BY <1>0, <1>1, NextByte DEF OnTrack, Numbers
  <1>3. Consumed >= 0 /\ Consumed < FrameLen
    BY <1>1, NextByte
  <1>4. Len(Joined) = Len(recvBuf) + 1
    BY <1>1, JoinedBytes
  <1>5. skip = Len(recvBuf) - Consumed
    OBVIOUS
  <1> HIDE DEF skip
  <1>6. \A i \in 1 .. skip : Joined[i].place # 1
    <2> TAKE i \in 1 .. skip
    <2>1. i \in 1 .. Len(recvBuf)
      BY <1>0, <1>2, <1>3, <1>5 DEF Numbers
    <2> QED BY <1>1, <1>2, <2>1, JoinedBytes
  <1>7. \A i \in skip + 1 .. Len(Joined) : Joined[i] = Byte(sentFrames, i - skip)
    <2> TAKE i \in skip + 1 .. Len(Joined)
    <2>1. CASE i = Len(recvBuf) + 1
      <3>1. i - skip = Consumed + 1
        BY <1>0, <1>2, <1>5, <2>1 DEF Numbers
      <3> QED BY <1>1, <2>1, <3>1, JoinedBytes
    <2>2. CASE i # Len(recvBuf) + 1
      <3>1. i \in 1 .. Len(recvBuf) /\ i \in skip + 1 .. Len(recvBuf)
        BY <1>0, <1>2, <1>4, <2>2 DEF Numbers
      <3> QED BY <1>1, <1>2, <3>1, JoinedBytes
    <2> QED BY <2>1, <2>2
  <1>8. FrameLen' = FrameLen /\ payload' = payload /\ sentFrames' = sentFrames
    BY ByteSteps, ParserCounts
  <1>9. ASSUME Kept PROVE OnTrack' /\ received' = received
    <2>1. /\ recvBuf' = Joined /\ received' = received
          /\ Len(Joined) >= HeaderLen => StartOfFrame(Joined)
          /\ Len(Joined) < FrameLen
      BY <1>9 DEF Kept
    <2>2. Remaining' = Remaining - 1 /\ Consumed' = Consumed + 1
      BY <1>9, ParserCounts
    <2>3. Len(recvBuf') - Consumed' = skip
      <3>1. Len(recvBuf') = Len(recvBuf) + 1
        BY <1>4, <2>1
      <3> QED BY <1>0, <1>5, <2>2, <3>1 DEF Numbers
    <2>4. CASE Remaining > payload
      <3>1. Len(Joined) >= HeaderLen => skip = 0
        <4> SUFFICES ASSUME Len(Joined) >= HeaderLen, skip # 0 PROVE FALSE
          OBVIOUS
        <4>1. Joined[1].place = 1
          BY <2>1 DEF StartOfFrame
        <4>2. 1 \in 1 .. skip
          BY <1>2
        <4> QED BY <1>6, <4>1, <4>2
      <3>2. Len(Joined) <= HeaderLen
        BY <1>0, <1>2, <1>4, <2>4 DEF Numbers
      <3>3. Remaining - 1 > 0
        BY <1>0, <2>4 DEF Numbers
      <3>4. Remaining - 1 > payload => Len(Joined) < HeaderLen
        BY <1>0, <1>4, <1>5, <3>1, <3>2 DEF Numbers
      <3>5. ~(Remaining - 1 > payload) => skip = 0
        BY <1>0, <1>2, <1>4, <1>5, <2>4, <3>1 DEF Numbers
      <3>6. IF Remaining' > payload' THEN Len(recvBuf') < HeaderLen
            ELSE Len(recvBuf') - Consumed' = 0
        BY <1>8, <2>1, <2>2, <2>3, <3>4, <3>5
      <3> QED BY <1>2, <1>6, <1>7, <1>8, <2>1, <2>2, <2>3, <3>3, <3>6 DEF OnTrack
    <2>5. CASE ~(Remaining > payload)
      <3>1. skip = 0 /\ ~(Remaining - 1 > payload)
        BY <1>0, <1>2, <2>5 DEF Numbers
      <3>2. Remaining - 1 > 0
        BY <1>0, <1>2, <1>4, <1>5, <2>1, <3>1 DEF Numbers
      <3>3. IF Remaining' > payload' THEN Len(recvBuf') < HeaderLen
            ELSE Len(recvBuf') - Consumed' = 0
        BY <1>8, <2>2, <2>3, <3>1
      <3> QED BY <1>2, <1>6, <1>7, <1>8, <2>1, <2>2, <2>3, <3>2, <3>3 DEF OnTrack
    <2> QED BY <2>4, <2>5
  <1>10. ASSUME Shifted PROVE OnTrack' /\ received' = received
    <2>1. /\ Len(Joined) = HeaderLen /\ ~StartOfFrame(Joined)
          /\ received' = received
      BY <1>10 DEF Shifted
    <2>2. Remaining' = Remaining - 1 /\ Consumed' = Consumed + 1
      BY <1>10, ParserCounts
    <2>3. /\ recvBuf' \in Seq(Bytes) /\ Len(recvBuf') = Len(Joined) - 1
          /\ \A i \in 1 .. Len(recvBuf') : recvBuf'[i] = Joined[i + 1]
      BY <1>10, WhatStays
    <2>4. Remaining > payload
      <3> SUFFICES ASSUME ~(Remaining > payload) PROVE FALSE
        OBVIOUS
      <3>0. skip = 0
        BY <1>2
      <3>1. Len(recvBuf) = Consumed
        BY <1>0, <1>5, <3>0 DEF Numbers
      <3>2. Len(recvBuf) + 1 = HeaderLen
        BY <1>4, <2>1
      <3> QED BY <1>0, <3>1, <3>2 DEF Numbers
    <2>5. skip # 0
      <3> SUFFICES ASSUME skip = 0 PROVE FALSE
        OBVIOUS
      <3>1. Joined[1] = Byte(sentFrames, 1) /\ Joined[2] = Byte(sentFrames, 2)
        BY <1>0, <1>7, <2>1 DEF Numbers
      <3> QED BY <2>1, <3>1, ByteFields DEF StartOfFrame
    <2>6. Len(recvBuf') - Consumed' = skip - 1
      BY <1>0, <1>2, <1>4, <1>5, <2>2, <2>3 DEF Numbers
    <2>7. skip - 1 \in Nat /\ Len(recvBuf') = HeaderLen - 1
          /\ Len(recvBuf') \in Nat /\ skip <= Len(recvBuf')
      <3>1. skip - 1 \in Nat
        BY <1>2, <2>5
      <3>2. Len(recvBuf') = HeaderLen - 1
        BY <2>1, <2>3
      <3>3. Len(recvBuf) + 1 = HeaderLen
        BY <1>4, <2>1
      <3>4. Len(recvBuf') = Len(recvBuf)
        BY <1>0, <3>2, <3>3 DEF Numbers
      <3>5. skip <= Len(recvBuf)
        BY <1>0, <1>3, <1>5 DEF Numbers
      <3> QED BY <1>0, <3>1, <3>2, <3>4, <3>5 DEF Numbers
    <2>8. \A i \in 1 .. skip - 1 : recvBuf'[i].place # 1
      <3> TAKE i \in 1 .. skip - 1
      <3>1. skip \in Nat
        BY <1>2
      <3>2. i + 1 \in 1 .. skip /\ i \in 1 .. Len(recvBuf')
        BY <2>7, <3>1
      <3> QED BY <1>6, <2>3, <3>2
    <2>9. \A i \in (skip - 1) + 1 .. Len(recvBuf') :
            recvBuf'[i] = Byte(sentFrames, i - (skip - 1))
      <3> TAKE i \in (skip - 1) + 1 .. Len(recvBuf')
      <3>1. skip \in Nat
        BY <1>2
      <3>2. Len(Joined) = Len(recvBuf') + 1
        BY <1>0, <1>4, <2>3 DEF Numbers
      <3>3. /\ i + 1 \in skip + 1 .. Len(Joined) /\ i \in 1 .. Len(recvBuf')
            /\ (i + 1) - skip = i - (skip - 1)
        BY <2>7, <3>1, <3>2
      <3> QED BY <1>7, <2>3, <3>3
    <2>10. Remaining - 1 > payload
      <3>1. Len(recvBuf) + 1 = HeaderLen
        BY <1>4, <2>1
      <3>2. skip \in Nat /\ skip # 0
        BY <1>2, <2>5
      <3> QED BY <1>0, <1>5, <3>1, <3>2 DEF Numbers
    <2>11. Remaining - 1 > 0 /\ HeaderLen - 1 < HeaderLen
      BY <1>0, <2>10 DEF Numbers
    <2>12. IF Remaining' > payload' THEN Len(recvBuf') < HeaderLen
            ELSE Len(recvBuf') - Consumed' = 0
      BY <1>8, <2>2, <2>7, <2>10, <2>11
    <2> QED
      BY <1>8, <2>1, <2>2, <2>6, <2>7, <2>8, <2>9, <2>11, <2>12 DEF OnTrack
  <1>11. ASSUME Completed
         PROVE  /\ FrameOf(Joined) = sentFrames /\ Consumed + 1 = FrameLen
                /\ Len(recvBuf') = HeaderLen - 1
                /\ \A i \in 1 .. Len(recvBuf') : recvBuf'[i].place # 1
    <2>1. Len(Joined) = FrameLen /\ StartOfFrame(Joined)
      BY <1>11 DEF Completed
    <2>2. ~(Remaining > payload)
      BY <1>0, <1>2, <1>4, <2>1 DEF Numbers
    <2>3. skip = 0 /\ Consumed + 1 = FrameLen
      <3>1. skip = 0
        BY <1>2, <2>2
      <3>2. Len(recvBuf) + 1 = FrameLen
        BY <1>4, <2>1
      <3> QED BY <1>0, <1>5, <3>1, <3>2 DEF Numbers
    <2>4. \A i \in 1 .. FrameLen : Joined[i] = Byte(sentFrames, i)
      <3> TAKE i \in 1 .. FrameLen
      <3>1. i \in skip + 1 .. Len(Joined) /\ i - skip = i
        BY <2>1, <2>3
      <3> QED BY <1>7, <3>1
    <2>5. Joined[1].frame = sentFrames
      <3>1. 1 \in 1 .. FrameLen
        BY <1>0 DEF Numbers
      <3> QED BY <2>4, <3>1, ByteFields
    <2>6. Joined = [i \in 1 .. FrameLen |-> Byte(Joined[1].frame, i)]
      <3>1. Joined \in Seq(Bytes)
        BY <1>1, JoinedBytes
      <3> QED BY <2>1, <2>4, <2>5, <3>1
    <2>7. FrameOf(Joined) = sentFrames
      BY <2>5, <2>6 DEF FrameOf
    <2> DEFINE cut == FrameLen - (HeaderLen - 1)
    <2>8. /\ Len(recvBuf') = FrameLen - cut
          /\ \A i \in 1 .. Len(recvBuf') : recvBuf'[i] = Joined[i + cut]
      BY <1>11, <2>1, WhatStays
    <2>9. Len(recvBuf') = HeaderLen - 1 /\ cut \in Nat /\ cut >= 1
      BY <1>0, <2>8 DEF Numbers
    <2> HIDE DEF cut
    <2>10. \A i \in 1 .. Len(recvBuf') : recvBuf'[i].place # 1
      <3> TAKE i \in 1 .. Len(recvBuf')
      <3>1. i + cut \in 1 .. FrameLen /\ i + cut # 1
        BY <1>0, <2>8, <2>9 DEF Numbers
      <3>2. recvBuf'[i] = Byte(sentFrames, i + cut)
        BY <2>4, <2>8, <3>1
      <3> QED BY <3>1, <3>2, ByteFields
    <2> QED BY <2>3, <2>7, <2>9, <2>10
  <1> QED BY <1>9, <1>10, <1>11, ByteSteps

\* Resting two frames the last byte of the frame may be parsed once more.
LEMMA ParserBetween ==
  ASSUME ImageInv, ByteHandler, Resting
  PROVE  Resting' /\ received' = received
  <1>1. SensingTypeOK /\ TransferKept /\ ~BufferConsumed
    BY DEF ImageInv, ByteHandler
  <1>0. Numbers
    BY <1>1, Sizes
  <1>2. /\ toSend = 0 /\ Unread <= 1 /\ Len(recvBuf) < HeaderLen
        /\ \A i \in 1 .. Len(recvBuf) : recvBuf[i].place # 1
    BY DEF Resting
  <1>3. Unread = 1 /\ Consumed + 1 = FrameLen
    <2>1. Unread >= 1
      BY <1>1, NextByte
    <2>2. Unread = 1
      BY <1>0, <1>2, <2>1 DEF Numbers
    <2> QED BY <1>0, <1>2, <2>2 DEF Numbers
  <1>4. Len(Joined) = Len(recvBuf) + 1
    BY <1>1, JoinedBytes
  <1>5. \A i \in 1 .. Len(Joined) : Joined[i].place # 1
    <2> TAKE i \in 1 .. Len(Joined)
    <2>1. CASE i \in 1 .. Len(recvBuf)
      BY <1>1, <1>2, <2>1, JoinedBytes
    <2>2. CASE i \notin 1 .. Len(recvBuf)
      <3>1. i = Len(recvBuf) + 1
        BY <1>0, <1>4, <2>2 DEF Numbers
      <3>2. Joined[i] = Byte(sentFrames, FrameLen)
        BY <1>1, <1>3, <3>1, JoinedBytes
      <3>3. FrameLen # 1
        BY <1>0 DEF Numbers
      <3> QED BY <3>2, <3>3, ByteFields
    <2> QED BY <2>1, <2>2
  <1>6. ~StartOfFrame(Joined)
    <2>1. 1 \in 1 .. Len(Joined)
      BY <1>0, <1>4 DEF Numbers
    <2> QED BY <1>5, <2>1 DEF StartOfFrame
  <1>7. Kept \/ Shifted
    BY <1>6, ByteSteps DEF Completed
  <1>8. PICK cut \in Nat :
          /\ Len(recvBuf') = Len(Joined) - cut
          /\ \A i \in 1 .. Len(recvBuf') : recvBuf'[i] = Joined[i + cut]
          /\ Kept => cut = 0
          /\ Shifted => cut = 1
    BY WhatStays
  <1>9. Len(recvBuf') < HeaderLen
    <2>1. ASSUME Kept PROVE Len(recvBuf') < HeaderLen
      <3>1. ~(Len(Joined) >= HeaderLen) /\ recvBuf' = Joined
        BY <1>6, <2>1 DEF Kept
      <3> QED BY <1>0, <1>4, <3>1 DEF Numbers
    <2>2. ASSUME Shifted PROVE Len(recvBuf') < HeaderLen
      <3>1. Len(Joined) = HeaderLen /\ Len(recvBuf') = Len(Joined) - 1
        BY <1>8, <2>2 DEF Shifted
      <3> QED BY <1>0, <3>1 DEF Numbers
    <2> QED BY <1>7, <2>1, <2>2
  <1>10. \A i \in 1 .. Len(recvBuf') : recvBuf'[i].place # 1
    <2> TAKE i \in 1 .. Len(recvBuf')
    <2>1. i + cut \in 1 .. Len(Joined)
      BY <1>0, <1>4, <1>8 DEF Numbers
    <2> QED BY <1>5, <1>8, <2>1
  <1>11. toSend' = 0 /\ Unread' <= 1
    <2>1. toSend' = toSend /\ Unread' = Unread - 1
      BY <1>7, ByteSteps, ParserCounts
    <2> QED BY <1>2, <1>3, <2>1
  <1>12. received' = received
    BY <1>7 DEF Kept, Shifted
  <1> QED BY <1>9, <1>10, <1>11, <1>12 DEF Resting

LEMMA ParserTrack ==
  ASSUME ImageInv, ByteHandler
  PROVE  TrackKept'
  <1>1. SensingTypeOK /\ TransferKept /\ ~BufferConsumed /\ TrackKept
    BY DEF ImageInv, ByteHandler
  <1>0. Numbers
    BY <1>1, Sizes
  <1> SUFFICES ASSUME losses = 0 PROVE TrackKept'
    BY ByteSteps DEF TrackKept
  <1>2. /\ \A i \in 1 .. Len(received) : received[i] = i
        /\ \/ OnTrack /\ Len(received) = sentFrames - 1
           \/ Resting /\ Len(received) = sentFrames
    BY <1>1 DEF TrackKept
  <1>3. sentFrames' = sentFrames
    BY ByteSteps
  <1>5. CASE Resting /\ Len(received) = sentFrames
    <2>1. Resting' /\ received' = received
      BY <1>5, ParserBetween
    <2> QED BY <1>2, <1>3, <1>5, <2>1 DEF TrackKept
  <1>6. CASE OnTrack /\ Len(received) = sentFrames - 1
    <2>1. CASE OnTrack' /\ received' = received
      BY <1>2, <1>3, <1>6, <2>1 DEF TrackKept
    <2>2. CASE /\ Completed /\ FrameOf(Joined) = sentFrames
               /\ Consumed + 1 = FrameLen
               /\ Len(recvBuf') = HeaderLen - 1
               /\ \A i \in 1 .. Len(recvBuf') : recvBuf'[i].place # 1
      <3>1. received' = Append(received, sentFrames)
        BY <2>2 DEF Completed
      <3>2. received \in Seq(0 .. MaxFrames) /\ sentFrames \in 0 .. MaxFrames
        BY <1>1 DEF SensingTypeOK
      <3>3. /\ Len(received') = Len(received) + 1
            /\ \A i \in 1 .. Len(received) : received'[i] = received[i]
            /\ received'[Len(received) + 1] = sentFrames
        BY <3>1, <3>2
      <3>4. Len(received') = sentFrames
        BY <1>0, <1>6, <3>3 DEF Numbers
      <3>5. \A i \in 1 .. Len(received') : received'[i] = i
        <4> TAKE i \in 1 .. Len(received')
        <4>1. CASE i \in 1 .. Len(received)
          BY <1>2, <3>3, <4>1
        <4>2. CASE i \notin 1 .. Len(received)
          <5>1. i = Len(received) + 1 /\ i = sentFrames
            BY <1>0, <1>6, <3>3, <4>2 DEF Numbers
          <5> QED BY <3>3, <5>1
        <4> QED BY <4>1, <4>2
      <3>6. Unread' = Unread /\ Remaining' = Remaining /\ toSend' = toSend
        BY <2>2, ByteSteps, ParserCounts
      <3>7. Remaining = 1 /\ Unread >= 1
        BY <1>0, <1>1, <2>2, NextByte DEF Numbers
      <3>8. toSend = 0 /\ Unread = 1
        BY <1>0, <3>7 DEF Numbers
      <3>9. HeaderLen - 1 < HeaderLen
        BY <1>0 DEF Numbers
      <3>10. Resting'
        BY <2>2, <3>6, <3>8, <3>9 DEF Resting
      <3> QED BY <1>3, <3>4, <3>5, <3>10 DEF TrackKept
    <2> QED BY <1>6, <2>1, <2>2, ParserOnTrack
  <1> QED BY <1>2, <1>5, <1>6

LEMMA ParserFirstBytes ==
  ASSUME ImageInv, ByteHandler, FirstBytesKept
  PROVE  FirstBytesKept'
  <1>1. SensingTypeOK /\ TransferKept /\ ~BufferConsumed
    BY DEF ImageInv, ByteHandler
  <1>0. Numbers
    BY <1>1, Sizes
  <1>2. PICK cut \in Nat :
          /\ recvBuf' \in Seq(Bytes) /\ Len(recvBuf') = Len(Joined) - cut
          /\ \A i \in 1 .. Len(recvBuf') : recvBuf'[i] = Joined[i + cut]
    BY WhatStays
  <1>3. Len(Joined) = Len(recvBuf) + 1
    BY <1>1, JoinedBytes
  <1>4. /\ sentFrames' = sentFrames /\ payload' = payload
        /\ \/ Remaining' = Remaining - 1 /\ Consumed' = Consumed + 1
           \/ Remaining' = Remaining /\ Consumed' = Consumed
    BY ByteSteps, ParserCounts
  <1> SUFFICES ASSUME NEW i \in 1 .. Len(recvBuf'), recvBuf'[i].place = 1
               PROVE  \/ Len(recvBuf') - i >= HeaderLen - 1
                      \/ /\ recvBuf'[i].frame = sentFrames /\ Remaining' > payload
                         /\ Len(recvBuf') - i >= Consumed' - 1
    BY <1>4 DEF FirstBytesKept
  <1> DEFINE j == i + cut
             far == Len(recvBuf) - j
  <1>5. /\ recvBuf'[i] = Joined[j] /\ j \in 1 .. Len(recvBuf) + 1
        /\ Len(recvBuf') - i = far + 1
    BY <1>0, <1>2, <1>3 DEF Numbers
  <1>6. far \in Int
    BY <1>0, <1>5 DEF Numbers
  <1> HIDE DEF far
  <1>7. CASE j \in 1 .. Len(recvBuf)
    <2>1. Joined[j] = recvBuf[j]
      BY <1>1, <1>7, JoinedBytes
    <2>2. \/ far >= HeaderLen - 1
          \/ /\ recvBuf[j].frame = sentFrames /\ Remaining > payload
             /\ far >= Consumed - 1
      BY <1>5, <1>7, <2>1 DEF FirstBytesKept, far
    <2>3. CASE far >= HeaderLen - 1
      BY <1>0, <1>5, <1>6, <2>3 DEF Numbers
    <2>4. CASE /\ recvBuf[j].frame = sentFrames /\ Remaining > payload
               /\ far >= Consumed - 1
      <3>1. recvBuf'[i].frame = sentFrames
        BY <1>5, <2>1, <2>4
      <3>2. far + 1 >= HeaderLen - 1 \/ (Remaining' > payload /\ far + 1 >= Consumed' - 1)
        <4>1. CASE Remaining' = Remaining /\ Consumed' = Consumed
          BY <1>0, <1>6, <2>4, <4>1 DEF Numbers
        <4>2. CASE Remaining' = Remaining - 1 /\ Consumed' = Consumed + 1
          <5>1. CASE Remaining - 1 > payload
            BY <1>0, <1>6, <2>4, <4>2, <5>1 DEF Numbers
          <5>2. CASE ~(Remaining - 1 > payload)
            <6>1. Consumed = HeaderLen - 1
              <7>1. Remaining > payload
                BY <2>4
              <7>2. Remaining = payload + 1
                BY <1>0, <5>2, <7>1 DEF Numbers
              <7> QED BY <1>0, <7>2 DEF Numbers
            <6> QED BY <1>0, <1>6, <2>4, <6>1 DEF Numbers
          <5> QED BY <5>1, <5>2
        <4> QED BY <1>4, <4>1, <4>2
      <3> QED BY <1>5, <3>1, <3>2
    <2> QED BY <2>2, <2>3, <2>4
  <1>8. CASE j \notin 1 .. Len(recvBuf)
    <2>1. j = Len(recvBuf) + 1
      BY <1>0, <1>5, <1>8 DEF Numbers
    <2>2. Joined[j] = Byte(sentFrames, Consumed + 1)
      BY <1>1, <2>1, JoinedBytes
    <2>3. Consumed + 1 = 1 /\ recvBuf'[i].frame = sentFrames
      BY <1>5, <2>2, ByteFields
    <2>4. far = -1
      BY <1>0, <2>1 DEF Numbers, far
    <2>5. Remaining' > payload /\ far + 1 >= Consumed' - 1
      BY <1>0, <1>4, <2>3, <2>4 DEF Numbers
    <2> QED BY <1>5, <2>3, <2>5
  <1> QED BY <1>7, <1>8

\* The order of first bytes, and that they are ahead of the images, hold for
\* recvBuf with the byte that is parsed.
JoinedOrdered ==
  /\ \A i, j \in 1 .. Len(Joined) :
       i < j /\ Joined[i].place = 1 /\ Joined[j].place = 1 =>
         \/ Joined[i].frame < Joined[j].frame
         \/ Joined[i].frame = Joined[j].frame /\ j = i + 1
  /\ \A i \in 1 .. Len(Joined) :
       Joined[i].place = 1 =>
         /\ \A j \in 1 .. Len(received) : received[j] < Joined[i].frame
         /\ Joined[i].frame <= sentFrames
         /\ Joined[i].frame = sentFrames /\ Consumed = 0 =>
              i = Len(Joined) \/ (i + 1 = Len(Joined) /\ i < HeaderLen)

LEMMA ByteIsOrdered ==
  ASSUME SensingTypeOK, TransferKept, ~BufferConsumed,
         FirstBytesOrdered, FirstBytesAhead, ImagesKept
  PROVE  JoinedOrdered
  <1>0. Numbers
    BY Sizes
  <1>1. /\ Len(Joined) = Len(recvBuf) + 1
        /\ \A i \in 1 .. Len(recvBuf) : Joined[i] = recvBuf[i]
        /\ Joined[Len(recvBuf) + 1] = Byte(sentFrames, Consumed + 1)
    BY JoinedBytes
  <1>2. \A i \in 1 .. Len(Joined) : i \notin 1 .. Len(recvBuf) =>
          /\ i = Len(recvBuf) + 1
          /\ Joined[i].frame = sentFrames /\ Joined[i].place = Consumed + 1
    <2> SUFFICES ASSUME NEW i \in 1 .. Len(Joined), i \notin 1 .. Len(recvBuf)
                 PROVE  /\ i = Len(recvBuf) + 1
                        /\ Joined[i].frame = sentFrames
                        /\ Joined[i].place = Consumed + 1
      OBVIOUS
    <2>1. i = Len(recvBuf) + 1
      BY <1>0, <1>1 DEF Numbers
    <2> QED BY <1>1, <2>1, ByteFields
  <1>3. ASSUME NEW i \in 1 .. Len(Joined), NEW j \in 1 .. Len(Joined),
               i < j, Joined[i].place = 1, Joined[j].place = 1
        PROVE  \/ Joined[i].frame < Joined[j].frame
               \/ Joined[i].frame = Joined[j].frame /\ j = i + 1
    <2>1. i \in 1 .. Len(recvBuf) /\ Joined[i] = recvBuf[i]
      BY <1>0, <1>1, <1>3 DEF Numbers
    <2>2. CASE j \in 1 .. Len(recvBuf)
      <3>1. Joined[j] = recvBuf[j]
        BY <1>1, <2>2
      <3> QED BY <1>3, <2>1, <2>2, <3>1 DEF FirstBytesOrdered
    <2>3. CASE j \notin 1 .. Len(recvBuf)
      <3>1. /\ j = Len(recvBuf) + 1
            /\ Joined[j].frame = sentFrames /\ Consumed + 1 = 1
        BY <1>2, <1>3, <2>3
      <3>2. Consumed = 0
        BY <1>0, <3>1 DEF Numbers
      <3>3. /\ recvBuf[i].frame <= sentFrames
            /\ recvBuf[i].frame = sentFrames => i = Len(recvBuf)
        BY <1>3, <2>1, <3>2 DEF FirstBytesAhead
      <3>4. recvBuf[i].frame \in Nat
        <4>1. recvBuf[i] \in Bytes
          BY <2>1, ElementsOfSequence DEF SensingTypeOK
        <4> QED BY <1>0, <4>1, BytesAreNumbered DEF Numbers
      <3>5. recvBuf[i].frame < sentFrames \/ recvBuf[i].frame = sentFrames
        BY <1>0, <3>3, <3>4 DEF Numbers
      <3>6. recvBuf[i].frame = sentFrames => j = i + 1
        BY <3>1, <3>3
      <3> QED BY <2>1, <3>1, <3>5, <3>6
    <2> QED BY <2>2, <2>3
  <1>4. ASSUME NEW i \in 1 .. Len(Joined), Joined[i].place = 1
        PROVE  /\ \A j \in 1 .. Len(received) : received[j] < Joined[i].frame
               /\ Joined[i].frame <= sentFrames
               /\ Joined[i].frame = sentFrames /\ Consumed = 0 =>
                    \/ i = Len(Joined)
                    \/ i + 1 = Len(Joined) /\ i < HeaderLen
    <2>1. CASE i \in 1 .. Len(recvBuf)
      <3>1. Joined[i] = recvBuf[i]
        BY <1>1, <2>1
      <3>2. /\ \A j \in 1 .. Len(received) : received[j] < recvBuf[i].frame
            /\ recvBuf[i].frame <= sentFrames
            /\ recvBuf[i].frame = sentFrames /\ Consumed = 0 =>
                 i = Len(recvBuf) /\ i < HeaderLen
        BY <1>4, <2>1, <3>1 DEF FirstBytesAhead
      <3> QED BY <1>1, <3>1, <3>2
    <2>2. CASE i \notin 1 .. Len(recvBuf)
      <3>1. /\ i = Len(recvBuf) + 1
            /\ Joined[i].frame = sentFrames /\ Consumed + 1 = 1
        BY <1>2, <1>4, <2>2
      <3>2. Consumed = 0
        BY <1>0, <3>1 DEF Numbers
      <3>3. \A j \in 1 .. Len(received) : received[j] < sentFrames
        BY <3>2 DEF ImagesKept
      <3>4. sentFrames <= sentFrames
        BY <1>0 DEF Numbers
      <3> QED BY <1>1, <3>1, <3>3, <3>4
    <2> QED BY <2>1, <2>2
  <1> QED BY <1>3, <1>4 DEF JoinedOrdered

\* A frame that is completed is behind every other first byte in recvBuf.
LEMMA FrameIsFirst ==
  ASSUME SensingTypeOK, TransferKept, ~BufferConsumed, JoinedOrdered, Completed,
         NEW i \in 2 .. Len(Joined), Joined[i].place = 1
  PROVE  Joined[1].frame < Joined[i].frame
  <1>0. Numbers
    BY Sizes
  <1>1. Len(Joined) = FrameLen /\ Joined[1].place = 1 /\ Joined[2].place = 2
    BY DEF Completed, StartOfFrame
  <1>2. 1 \in 1 .. Len(Joined) /\ i \in 1 .. Len(Joined) /\ 1 < i /\ i # 1 + 1
    BY <1>0, <1>1 DEF Numbers
  <1> QED BY <1>1, <1>2 DEF JoinedOrdered

LEMMA ParserOrder ==
  ASSUME ImageInv, ByteHandler, FirstBytesOrdered, FirstBytesAhead, ImagesKept
  PROVE  FirstBytesOrdered' /\ FirstBytesAhead' /\ ImagesKept'
  <1>1. SensingTypeOK /\ TransferKept /\ ~BufferConsumed
    BY DEF ImageInv, ByteHandler
  <1>0. Numbers
    BY <1>1, Sizes
  <1>2. PICK cut \in Nat :
          /\ recvBuf' \in Seq(Bytes) /\ Len(recvBuf') = Len(Joined) - cut
          /\ \A i \in 1 .. Len(recvBuf') : recvBuf'[i] = Joined[i + cut]
          /\ Completed => cut = FrameLen - (HeaderLen - 1)
    BY WhatStays
  <1>3. /\ Len(Joined) = Len(recvBuf) + 1
        /\ Joined[Len(recvBuf) + 1] = Byte(sentFrames, Consumed + 1)
    BY <1>1, JoinedBytes
  <1>4. /\ sentFrames' = sentFrames /\ (Kept \/ Shifted \/ Completed)
        /\ Kept \/ Shifted => received' = received /\ Consumed' = Consumed + 1
        /\ Completed => received' = Append(received, FrameOf(Joined))
        /\ Completed => Consumed' = Consumed
    BY ByteSteps, ParserCounts DEF Kept, Shifted, Completed
  <1>5. JoinedOrdered
    BY <1>1, ByteIsOrdered
  <1>6. Consumed >= 0 /\ Consumed < FrameLen
    BY <1>1, NextByte
  <1>7. \A i \in 1 .. Len(recvBuf') : i + cut \in 1 .. Len(Joined)
    <2>1. Len(recvBuf') = Len(Joined) - cut /\ Len(recvBuf') \in Nat
      BY <1>2
    <2>2. Len(Joined) \in Nat
      BY <1>0, <1>3 DEF Numbers
    <2> QED BY <2>1, <2>2
  <1>8. received \in Seq(0 .. MaxFrames)
    BY <1>1 DEF SensingTypeOK
  <1> DEFINE newImage == FrameOf(Joined)
  <1>9. /\ newImage \in 0 .. MaxFrames /\ newImage \in {0, Joined[1].frame}
        /\ Joined[1].frame \in Nat
    BY <1>1, FrameNumber
  <1> HIDE DEF newImage
  <1>10. Completed =>
           /\ Len(received') = Len(received) + 1
           /\ \A i \in 1 .. Len(received) : received'[i] = received[i]
           /\ received'[Len(received) + 1] = newImage
    BY <1>4, <1>8, <1>9 DEF newImage
  <1>11. FirstBytesOrdered'
    <2> SUFFICES ASSUME NEW i \in 1 .. Len(recvBuf'), NEW j \in 1 .. Len(recvBuf'),
                        i < j, recvBuf'[i].place = 1, recvBuf'[j].place = 1
                 PROVE  \/ recvBuf'[i].frame < recvBuf'[j].frame
                        \/ recvBuf'[i].frame = recvBuf'[j].frame /\ j = i + 1
      BY DEF FirstBytesOrdered
    <2>1. /\ i + cut \in 1 .. Len(Joined) /\ j + cut \in 1 .. Len(Joined)
          /\ recvBuf'[i] = Joined[i + cut] /\ recvBuf'[j] = Joined[j + cut]
      BY <1>2, <1>7
    <2>2. i + cut < j + cut /\ (j + cut = (i + cut) + 1 => j = i + 1)
      OBVIOUS
    <2>3. \/ Joined[i + cut].frame < Joined[j + cut].frame
          \/ /\ Joined[i + cut].frame = Joined[j + cut].frame
             /\ j + cut = (i + cut) + 1
      BY <1>5, <2>1, <2>2 DEF JoinedOrdered
    <2> QED BY <2>1, <2>2, <2>3
  <1>12. FirstBytesAhead'
    <2> SUFFICES ASSUME NEW i \in 1 .. Len(recvBuf'), recvBuf'[i].place = 1
                 PROVE  /\ \A j \in 1 .. Len(received') :
                             received'[j] < recvBuf'[i].frame
                        /\ recvBuf'[i].frame <= sentFrames
                        /\ recvBuf'[i].frame = sentFrames /\ Consumed' = 0 =>
                             i = Len(recvBuf') /\ i < HeaderLen
      BY <1>4 DEF FirstBytesAhead
    <2> DEFINE at == i + cut
    <2>1. at \in 1 .. Len(Joined) /\ recvBuf'[i] = Joined[at]
      BY <1>2, <1>7
    <2>2. /\ \A j \in 1 .. Len(received) : received[j] < Joined[at].frame
          /\ Joined[at].frame <= sentFrames
          /\ Joined[at].frame = sentFrames /\ Consumed = 0 =>
               at = Len(Joined) \/ (at + 1 = Len(Joined) /\ at < HeaderLen)
      BY <1>5, <2>1 DEF JoinedOrdered
    <2>3. CASE Kept \/ Shifted
      <3>1. received' = received /\ Consumed' = Consumed + 1
        BY <1>4, <2>3
      <3>2. Consumed' # 0
        BY <1>0, <1>6, <3>1 DEF Numbers
      <3> QED BY <2>1, <2>2, <3>1, <3>2
    <2>4. CASE Completed
      <3>1. cut = FrameLen - (HeaderLen - 1) /\ Len(Joined) = FrameLen
        BY <1>2, <2>4 DEF Completed
      <3>2. at \in 2 .. Len(Joined) /\ at >= HeaderLen /\ Len(recvBuf') < HeaderLen
        BY <1>0, <1>2, <2>1, <3>1 DEF Numbers
      <3>3. Joined[1].frame < Joined[at].frame
        BY <1>1, <1>5, <2>1, <2>4, <3>2, FrameIsFirst
      <3>4. Joined[at].frame \in Nat /\ Joined[at].frame >= 1
        <4>1. Joined[at] \in Bytes
          BY <1>1, <2>1, JoinedBytes, ElementsOfSequence
        <4> QED BY <1>0, <4>1, BytesAreNumbered DEF Numbers
      <3>5. newImage < Joined[at].frame
        BY <1>9, <3>3, <3>4
      <3>6. ASSUME NEW j \in 1 .. Len(received') PROVE received'[j] < Joined[at].frame
        <4>1. CASE j \in 1 .. Len(received)
          BY <1>10, <2>2, <2>4, <4>1
        <4>2. CASE j \notin 1 .. Len(received)
          <5>1. j = Len(received) + 1
            BY <1>0, <1>10, <2>4, <4>2 DEF Numbers
          <5> QED BY <1>10, <2>4, <3>5, <5>1
        <4> QED BY <4>1, <4>2
      <3>7. Joined[at].frame = sentFrames /\ Consumed = 0 =>
              i = Len(recvBuf') /\ i < HeaderLen
        <4> SUFFICES ASSUME Joined[at].frame = sentFrames, Consumed = 0
                     PROVE  i = Len(recvBuf') /\ i < HeaderLen
          OBVIOUS
        <4>1. at = Len(Joined)
          BY <1>0, <2>1, <2>2, <3>2 DEF Numbers
        <4> QED BY <1>0, <1>2, <1>3, <3>2, <4>1 DEF Numbers
      <3> QED BY <1>4, <2>1, <2>2, <2>4, <3>6, <3>7
    <2> QED BY <1>4, <2>3, <2>4
  <1>13. ImagesKept'
    <2>1. CASE Kept \/ Shifted
      <3>1. received' = received /\ Consumed' = Consumed + 1
        BY <1>4, <2>1
      <3>2. Consumed' # 0
        BY <1>0, <1>6, <3>1 DEF Numbers
      <3> QED BY <1>4, <3>1, <3>2 DEF ImagesKept
    <2>3. ASSUME Completed, NEW j \in 1 .. Len(received'), j \notin 1 .. Len(received)
          PROVE  j = Len(received) + 1
      <3>1. Len(received) \in Nat
        BY <1>0 DEF Numbers
      <3>2. Len(received') = Len(received) + 1
        BY <1>10, <2>3
      <3> QED BY <2>3, <3>1, <3>2
    <2>2. CASE Completed
      <3>1. Len(Joined) = FrameLen /\ Joined[1].place = 1 /\ Consumed' = Consumed
        BY <1>4, <2>2 DEF Completed, StartOfFrame
      <3>2. 1 \in 1 .. Len(Joined)
        <4>1. FrameLen \in Nat /\ FrameLen >= 1
          BY <1>0 DEF Numbers
        <4> QED BY <3>1, <4>1
      <3>3. /\ \A j \in 1 .. Len(received) : received[j] < Joined[1].frame
            /\ Joined[1].frame <= sentFrames
        BY <1>5, <3>1, <3>2 DEF JoinedOrdered
      <3>4. Consumed = 0 => Joined[1].frame < sentFrames
        <4> SUFFICES ASSUME Consumed = 0 PROVE Joined[1].frame < sentFrames
          OBVIOUS
        <4>1. Joined[Len(Joined)] = Byte(sentFrames, 1)
          BY <1>3
        <4>2. Len(Joined) \in 2 .. Len(Joined)
          BY <1>0, <3>1 DEF Numbers
        <4>3. Joined[Len(Joined)].place = 1 /\ Joined[Len(Joined)].frame = sentFrames
          BY <4>1, ByteFields
        <4>4. Joined[1].frame < Joined[Len(Joined)].frame
          BY <1>1, <1>5, <2>2, <4>2, <4>3, FrameIsFirst
        <4> QED BY <4>3, <4>4
      <3>5. sentFrames >= 1
        BY <1>1, NextByte
      <3>6. newImage <= sentFrames /\ (Consumed = 0 => newImage < sentFrames)
        BY <1>0, <1>9, <3>3, <3>4, <3>5 DEF Numbers
      <3>7. ASSUME NEW j \in 1 .. Len(received')
            PROVE  /\ received'[j] <= sentFrames
                   /\ Consumed = 0 => received'[j] < sentFrames
        <4>1. CASE j \in 1 .. Len(received)
          BY <1>10, <2>2, <4>1 DEF ImagesKept
        <4>2. CASE j \notin 1 .. Len(received)
          <5>1. j = Len(received) + 1
            BY <2>2, <2>3, <4>2
          <5> QED BY <1>10, <2>2, <3>6, <5>1
        <4> QED BY <4>1, <4>2
      <3>8. ASSUME NEW i \in 1 .. Len(received'), NEW j \in 1 .. Len(received'),
                   i < j, received'[i] # 0, received'[j] # 0
            PROVE  received'[i] < received'[j]
        <4>1. i \in 1 .. Len(received)
          BY <1>0, <1>10, <2>2, <3>8 DEF Numbers
        <4>2. received'[i] = received[i]
          BY <1>10, <2>2, <4>1
        <4>3. CASE j \in 1 .. Len(received)
          BY <1>10, <2>2, <3>8, <4>1, <4>2, <4>3 DEF ImagesKept
        <4>4. CASE j \notin 1 .. Len(received)
          <5>1. j = Len(received) + 1
            BY <2>2, <2>3, <4>4
          <5>2. received'[j] = Joined[1].frame
            BY <1>9, <1>10, <2>2, <3>8, <5>1
          <5> QED BY <3>3, <4>1, <4>2, <5>2
        <4> QED BY <4>3, <4>4
      <3> QED BY <1>4, <3>1, <3>7, <3>8 DEF ImagesKept
    <2> QED BY <1>4, <2>1, <2>2
  <1> QED BY <1>11, <1>12, <1>13

\* A byte adds an image at most, and one is added only by a complete frame.
LEMMA ParserCredit ==
  ASSUME ImageInv, ByteHandler, FirstBytesOrdered, FirstBytesAhead, ImagesKept
  PROVE  /\ Kept \/ Shifted => Credit' = Credit
         /\ Completed =>
              /\ Credit' >= Credit
              /\ FrameOf(Joined) # 0 => Credit' >= Credit + 1
         /\ Credit \in Nat /\ Credit' \in Nat
  <1>1. SensingTypeOK /\ TransferKept /\ ~BufferConsumed
    BY DEF ImageInv, ByteHandler
  <1>0. Numbers
    BY <1>1, Sizes
  <1>2. losses' = losses /\ SensingTypeOK'
    BY ByteSteps, ParserTypes
  <1>3. IsFiniteSet(WholeImages) /\ Cardinality(WholeImages) \in Nat
    BY <1>1, ImagesAreFinite
  <1>4. IsFiniteSet(WholeImages') /\ Cardinality(WholeImages') \in Nat
    <2>1. SensingTypeOK' =>
            (IsFiniteSet(WholeImages) /\ Cardinality(WholeImages) \in Nat)'
      BY ImagesAreFinite, PTL
    <2> QED BY <1>2, <2>1
  <1>5. /\ Credit = Cardinality(WholeImages) + 2 * losses
        /\ Credit' = Cardinality(WholeImages') + 2 * losses
    BY <1>2 DEF Credit
  <1>6. Credit \in Nat /\ Credit' \in Nat
    BY <1>0, <1>3, <1>4, <1>5 DEF Numbers
  <1>7. ASSUME Kept \/ Shifted PROVE Credit' = Credit
    <2>1. received' = received
      BY <1>7 DEF Kept, Shifted
    <2> QED BY <1>5, <2>1 DEF WholeImages
  <1>8. ASSUME Completed
        PROVE  /\ Credit' >= Credit
               /\ FrameOf(Joined) # 0 => Credit' >= Credit + 1
    <2> DEFINE newImage == FrameOf(Joined)
    <2>1. newImage \in 0 .. MaxFrames /\ newImage \in {0, Joined[1].frame}
      BY <1>1, FrameNumber
    <2>2. received' = Append(received, newImage) /\ Joined[1].place = 1
      BY <1>8 DEF Completed, StartOfFrame
    <2> HIDE DEF newImage
    <2>3. received \in Seq(0 .. MaxFrames)
      BY <1>1 DEF SensingTypeOK
    <2>4. /\ Len(received') = Len(received) + 1
          /\ \A i \in 1 .. Len(received) : received'[i] = received[i]
          /\ received'[Len(received) + 1] = newImage
      BY <2>1, <2>2, <2>3
    <2>5. \A i \in 1 .. Len(received) :
            i \in 1 .. Len(received') /\ received'[i] = received[i]
      BY <1>0, <2>4 DEF Numbers
    <2>6. WholeImages \subseteq WholeImages'
      BY <2>5 DEF WholeImages
    <2>7. Cardinality(WholeImages') >= Cardinality(WholeImages)
      BY <1>3, <1>4, <2>6, FS_Subset
    <2>8. Credit' >= Credit
      BY <1>0, <1>3, <1>4, <1>5, <2>7 DEF Numbers
    <2>9. ASSUME newImage # 0 PROVE Credit' >= Credit + 1
      <3>1. newImage = Joined[1].frame
        BY <2>1, <2>9
      <3>2. \A j \in 1 .. Len(received) : received[j] < Joined[1].frame
        <4>1. JoinedOrdered
          BY <1>1, ByteIsOrdered
        <4>2. 1 \in 1 .. Len(Joined)
          BY <1>0, <1>1, JoinedBytes DEF Numbers
        <4> QED BY <2>2, <4>1, <4>2 DEF JoinedOrdered
      <3>3. newImage \notin WholeImages
        <4> SUFFICES ASSUME newImage \in WholeImages PROVE FALSE
          OBVIOUS
        <4>1. PICK j \in 1 .. Len(received) : received[j] = newImage
          BY DEF WholeImages
        <4>2. newImage < newImage /\ newImage \in Int
          BY <2>1, <3>1, <3>2, <4>1
        <4> QED BY <4>2
      <3>4. newImage \in WholeImages'
        <4>1. Len(received) + 1 \in 1 .. Len(received')
          BY <1>0, <2>4 DEF Numbers
        <4> QED BY <2>4, <2>9, <4>1 DEF WholeImages
      <3>5. WholeImages \cup {newImage} \subseteq WholeImages'
        BY <2>6, <3>4
      <3>6. Cardinality(WholeImages \cup {newImage}) = Cardinality(WholeImages) + 1
        BY <1>3, <3>3, FS_AddElement
      <3>7. Cardinality(WholeImages') >= Cardinality(WholeImages) + 1
        <4>1. Cardinality(WholeImages \cup {newImage}) <= Cardinality(WholeImages')
          BY <1>4, <3>5, FS_Subset
        <4> QED BY <1>3, <1>4, <3>6, <4>1
      <3> QED BY <1>0, <1>3, <1>4, <1>5, <3>7 DEF Numbers
    <2> QED BY <2>8, <2>9 DEF newImage
  <1> QED BY <1>6, <1>7, <1>8

LEMMA ParserKeepsCredit ==
  ASSUME ImageInv, ByteHandler, payload < BufferSize
  PROVE  CreditKept'
  <1>1. /\ SensingTypeOK /\ TransferKept /\ ~BufferConsumed
        /\ FirstBytesKept /\ FirstBytesOrdered /\ FirstBytesAhead /\ ImagesKept
        /\ CreditKept
    BY DEF ImageInv, ByteHandler
  <1>0. Numbers
    BY <1>1, Sizes
  <1>2. /\ sentFrames' = sentFrames /\ FrameLen' = FrameLen
        /\ Kept \/ Shifted =>
             Remaining' = Remaining - 1 /\ Consumed' = Consumed + 1
        /\ Completed => Remaining' = Remaining
    BY ByteSteps, ParserCounts
  <1>3. Kept \/ Shifted \/ Completed
    BY ByteSteps
  <1>4. /\ Kept \/ Shifted => Credit' = Credit
        /\ Completed =>
              /\ Credit' >= Credit
              /\ FrameOf(Joined) # 0 => Credit' >= Credit + 1
        /\ Credit \in Nat /\ Credit' \in Nat
    BY <1>1, ParserCredit
  <1>5. Len(Joined) = Len(recvBuf) + 1 /\ Len(recvBuf) < FrameLen
    BY <1>1, JoinedBytes, BufferIsShort
  <1>6. sentFrames >= 1
    BY <1>1, NextByte
  <1>7. CASE OnTrack /\ Credit >= sentFrames - 1
    <2>1. CASE OnTrack' /\ received' = received
      <3>1. Credit' = Credit
        BY <2>1, ByteSteps DEF Credit, WholeImages
      <3> QED BY <1>2, <1>7, <2>1, <3>1 DEF CreditKept
    <2>2. CASE /\ Completed /\ FrameOf(Joined) = sentFrames
               /\ Len(recvBuf') = HeaderLen - 1
      <3>1. Credit' >= Credit + 1
        BY <1>0, <1>4, <1>6, <2>2 DEF Numbers
      <3>2. Credit' >= sentFrames
        BY <1>0, <1>4, <1>7, <3>1 DEF Numbers
      <3>3. Len(recvBuf') < HeaderLen
        BY <1>0, <2>2 DEF Numbers
      <3> QED BY <1>2, <3>2, <3>3 DEF CreditKept
    <2> QED BY <1>7, <2>1, <2>2, ParserOnTrack
  <1>8. CASE Completed /\ Credit >= sentFrames
    <2>1. Len(recvBuf') = Len(Joined) - (FrameLen - (HeaderLen - 1))
          /\ Len(Joined) = FrameLen
      BY <1>8, WhatStays DEF Completed
    <2>2. Len(recvBuf') < HeaderLen
      BY <1>0, <2>1 DEF Numbers
    <2>3. Credit' >= sentFrames
      <3>1. Credit' >= Credit
        BY <1>4, <1>8
      <3> QED BY <1>0, <1>4, <1>8, <3>1 DEF Numbers
    <2> QED BY <1>2, <2>2, <2>3 DEF CreditKept
  <1>9. CASE Shifted /\ Credit >= sentFrames
    <2>1. Len(recvBuf') = Len(Joined) - 1 /\ Len(Joined) = HeaderLen
      BY <1>9, WhatStays DEF Shifted
    <2>2. Len(recvBuf') < HeaderLen
      BY <1>0, <2>1 DEF Numbers
    <2> QED BY <1>2, <1>4, <1>9, <2>2 DEF CreditKept
  <1>10. CASE Kept /\ Len(recvBuf) < HeaderLen /\ Credit >= sentFrames
    <2>1. /\ recvBuf' = Joined /\ Len(Joined) < FrameLen
          /\ Len(Joined) >= HeaderLen => StartOfFrame(Joined)
      BY <1>10 DEF Kept
    <2>2. /\ Remaining' = Remaining - 1 /\ Credit' = Credit
      BY <1>2, <1>4, <1>10
    <2>3. CASE Len(Joined) < HeaderLen
      BY <1>2, <1>10, <2>1, <2>2, <2>3 DEF CreditKept
    <2>4. CASE Len(Joined) >= HeaderLen
      <3>1. StartOfFrame(Joined) /\ Joined[1].place = 1
        BY <2>1, <2>4 DEF StartOfFrame
      <3>2. Len(Joined) = HeaderLen /\ Len(recvBuf) = HeaderLen - 1
        BY <1>0, <1>5, <1>10, <2>4 DEF Numbers
      <3>3. 1 \in 1 .. Len(recvBuf)
        BY <1>0, <3>2 DEF Numbers
      <3>4. recvBuf[1].place = 1
        BY <1>1, <3>1, <3>3, JoinedBytes
      <3>5. Len(recvBuf) - 1 >= HeaderLen - 1 \/ Remaining > payload
        BY <1>1, <3>3, <3>4 DEF FirstBytesKept
      <3>6. Remaining > payload
        BY <1>0, <3>2, <3>5 DEF Numbers
      <3>7. Len(Joined) + (Remaining - 1) >= FrameLen
        BY <1>0, <3>2, <3>6 DEF Numbers
      <3>8. Len(Joined) \in HeaderLen .. FrameLen - 1
        BY <1>0, <2>1, <3>2 DEF Numbers
      <3>9. /\ Len(recvBuf') \in HeaderLen' .. FrameLen' - 1
            /\ StartOfFrame(recvBuf')
            /\ Credit' >= sentFrames'
            /\ Len(recvBuf') + Remaining' >= FrameLen'
        BY <1>2, <1>10, <2>1, <2>2, <3>1, <3>7, <3>8
      <3> QED BY <3>9 DEF CreditKept, StartOfFrame
    <2> QED BY <1>0, <1>5, <2>3, <2>4 DEF Numbers
  <1>11. CASE /\ Kept /\ Len(recvBuf) \in HeaderLen .. FrameLen - 1
              /\ StartOfFrame(recvBuf) /\ Credit >= sentFrames
              /\ \/ Len(recvBuf) + Remaining >= FrameLen
                 \/ Credit >= sentFrames + 1
    <2>1. /\ recvBuf' = Joined /\ Len(Joined) < FrameLen
          /\ Len(Joined) >= HeaderLen => StartOfFrame(Joined)
      BY <1>11 DEF Kept
    <2>2. /\ Remaining' = Remaining - 1 /\ Credit' = Credit
      BY <1>2, <1>4, <1>11
    <2>3. Len(Joined) \in HeaderLen .. FrameLen - 1 /\ Len(Joined) >= HeaderLen
      BY <1>0, <1>5, <1>11, <2>1 DEF Numbers
    <2>4. Len(Joined) + (Remaining - 1) >= FrameLen \/ Credit >= sentFrames + 1
      <3>1. Len(Joined) + (Remaining - 1) = Len(recvBuf) + Remaining
        BY <1>0, <1>5 DEF Numbers
      <3> QED BY <1>11, <3>1
    <2>5. /\ Len(recvBuf') \in HeaderLen' .. FrameLen' - 1
          /\ StartOfFrame(recvBuf')
          /\ Credit' >= sentFrames'
          /\ Len(recvBuf') + Remaining' >= FrameLen' \/ Credit' >= sentFrames' + 1
      BY <1>2, <1>11, <2>1, <2>2, <2>3, <2>4
    <2> QED BY <2>5 DEF CreditKept, StartOfFrame
  <1> QED BY <1>1, <1>3, <1>7, <1>8, <1>9, <1>10, <1>11 DEF CreditKept

LEMMA ParserKeepsImageInv ==
  ASSUME ImageInv, ByteHandler
  PROVE  ImageInv'
  <1>1. SensingTypeOK' /\ TransferKept' /\ TrackKept'
    BY ParserTypes, ParserTransfer, ParserTrack
  <1>2. ASSUME payload < BufferSize
        PROVE  /\ FirstBytesKept' /\ FirstBytesOrdered' /\ FirstBytesAhead'
               /\ ImagesKept' /\ CreditKept'
    <2>1. FirstBytesKept /\ FirstBytesOrdered /\ FirstBytesAhead /\ ImagesKept
      BY <1>2 DEF ImageInv
    <2> QED BY <1>2, <2>1, ParserFirstBytes, ParserOrder, ParserKeepsCredit
  <1>3. payload' = payload
    BY ByteSteps
  <1> QED BY <1>1, <1>2, <1>3 DEF ImageInv

-----------------------------------------------------------------------------
(* Stereo images: the transfers.                                           *)

\* The five outcomes of a read.
HeaderRead ==
  /\ toSend = 0 /\ sentFrames < MaxFrames
  /\ sentFrames' = sentFrames + 1 /\ toSend' = payload
  /\ readBuf' = Transfer /\ bufReadPos' = 0
  /\ recvBuf' = recvBuf /\ losses' = losses

PayloadRead ==
  /\ toSend > 0 /\ toSend < BufferSize
  /\ sentFrames' = sentFrames /\ toSend' = 0
  /\ readBuf' = Transfer /\ bufReadPos' = 0
  /\ recvBuf' = recvBuf /\ losses' = losses

PayloadStored ==
  /\ toSend > BufferSize
  /\ sentFrames' = sentFrames /\ toSend' = toSend - BufferSize
  /\ readBuf' = Transfer /\ bufReadPos' = BufferSize
  /\ recvBuf' = recvBuf \o Transfer /\ losses' = losses

HeaderLost ==
  /\ payload < BufferSize /\ losses < MaxLosses /\ losses' = losses + 1
  /\ toSend = 0 /\ sentFrames < MaxFrames
  /\ sentFrames' = sentFrames + 1 /\ toSend' = payload
  /\ UNCHANGED <<readBuf, bufReadPos, recvBuf>>

PayloadLost ==
  /\ payload < BufferSize /\ losses < MaxLosses /\ losses' = losses + 1
  /\ toSend = payload
  /\ sentFrames' = sentFrames /\ toSend' = 0
  /\ UNCHANGED <<readBuf, bufReadPos, recvBuf>>

\* The bytes of a transfer are the next ones of a frame.
LEMMA TransferBytes ==
  ASSUME SensingTypeOK, TransferKept, BufferConsumed
  PROVE  /\ Unread = 0 /\ Remaining = toSend
         /\ toSend # BufferSize
         /\ toSend = 0 =>
              /\ Len(Transfer) = HeaderLen
              /\ \A i \in 1 .. HeaderLen : Transfer[i] = Byte(sentFrames + 1, i)
              /\ sentFrames < MaxFrames => Transfer \in Seq(Bytes)
         /\ toSend > 0 =>
              /\ Len(Transfer) = IF toSend < BufferSize THEN toSend ELSE BufferSize
              /\ \A i \in 1 .. Len(Transfer) :
                   Transfer[i] = Byte(sentFrames, (FrameLen - toSend) + i)
              /\ Transfer \in Seq(Bytes)
  <1>0. Numbers
    BY Sizes
  <1>1. Unread = 0 /\ Remaining = toSend
    BY <1>0 DEF BufferConsumed, Numbers
  <1>2. sentFrames <= MaxFrames
    BY DEF SensingTypeOK
  <1>3. toSend # BufferSize
    <2> SUFFICES ASSUME toSend = BufferSize PROVE FALSE
      OBVIOUS
    <2>1. BufferSize % BufferSize = 0
      BY <1>0 DEF Numbers
    <2>2. toSend # 0
      BY <1>0 DEF Numbers
    <2>3. toSend % BufferSize = payload % BufferSize
      BY <2>2 DEF TransferKept
    <2>4. payload % BufferSize # 0
      BY SensingAssumption DEF SensingAssumption, SensingTypeOK
    <2> QED BY <2>1, <2>3, <2>4
  <1>4. ASSUME toSend = 0
        PROVE  /\ Len(Transfer) = HeaderLen
               /\ \A i \in 1 .. HeaderLen : Transfer[i] = Byte(sentFrames + 1, i)
               /\ sentFrames < MaxFrames => Transfer \in Seq(Bytes)
    <2>1. Transfer = [i \in 1 .. HeaderLen |-> Byte(sentFrames + 1, i)]
      BY <1>4 DEF Transfer
    <2>2. ASSUME sentFrames < MaxFrames PROVE Transfer \in Seq(Bytes)
      <3>1. \A i \in 1 .. HeaderLen : Byte(sentFrames + 1, i) \in Bytes
        <4> TAKE i \in 1 .. HeaderLen
        <4>1. /\ sentFrames + 1 \in Nat /\ sentFrames + 1 >= 1
              /\ sentFrames + 1 <= MaxFrames
              /\ i \in Int /\ i >= 1 /\ i <= FrameLen
          BY <1>0, <2>2 DEF Numbers
        <4> QED BY <1>0, <4>1, ByteType DEF Numbers
      <3>2. HeaderLen \in Nat
        BY <1>0 DEF Numbers
      <3> QED BY <2>1, <3>1, <3>2
    <2>3. HeaderLen \in Nat
      BY <1>0 DEF Numbers
    <2> QED BY <2>1, <2>2, <2>3
  <1>5. ASSUME toSend > 0
        PROVE  /\ Len(Transfer)
                    = IF toSend < BufferSize THEN toSend ELSE BufferSize
               /\ \A i \in 1 .. Len(Transfer) :
                    Transfer[i] = Byte(sentFrames, (FrameLen - toSend) + i)
               /\ Transfer \in Seq(Bytes)
    <2> DEFINE m == IF toSend < BufferSize THEN toSend ELSE BufferSize
    <2>1. m \in Nat /\ m <= toSend
      BY <1>0 DEF Numbers
    <2>2. Transfer = [i \in 1 .. m |-> Byte(sentFrames, FrameLen - toSend + i)]
      <3>1. toSend # 0
        BY <1>0, <1>5 DEF Numbers
      <3> QED BY <3>1, Zenon DEF Transfer
    <2>3. sentFrames >= 1
      BY <1>0, <1>1, <1>5 DEF Numbers, TransferKept
    <2> HIDE DEF m
    <2>4. \A i \in 1 .. m : Byte(sentFrames, FrameLen - toSend + i) \in Bytes
      <3> TAKE i \in 1 .. m
      <3>1. /\ FrameLen - toSend + i \in Int /\ FrameLen - toSend + i >= 1
            /\ FrameLen - toSend + i <= FrameLen
        BY <1>0, <2>1 DEF Numbers
      <3> QED BY <1>0, <1>2, <2>3, <3>1, ByteType DEF Numbers
    <2>5. Transfer \in Seq(Bytes) /\ Len(Transfer) = m
      BY <2>1, <2>2, <2>4
    <2> QED BY <2>2, <2>5 DEF m
  <1> QED BY <1>1, <1>3, <1>4, <1>5

LEMMA ReadSteps ==
  ASSUME ImageInv, ReadPoll \/ ReadFails
  PROVE  /\ BufferConsumed /\ payload' = payload /\ received' = received
         /\ HeaderRead \/ PayloadRead \/ PayloadStored \/ HeaderLost \/ PayloadLost
  <1>1. SensingTypeOK /\ TransferKept /\ BufferConsumed
    BY DEF ImageInv, ReadPoll, ReadFails
  <1>0. Numbers
    BY <1>1, Sizes
  <1>2. payload' = payload /\ received' = received
    BY DEF ReadPoll, ReadFails
  <1>3. /\ Unread = 0 /\ toSend # BufferSize
        /\ toSend = 0 => Len(Transfer) = HeaderLen
        /\ toSend > 0 =>
             Len(Transfer) = IF toSend < BufferSize THEN toSend ELSE BufferSize
    BY <1>1, TransferBytes
  <1>4. /\ toSend = 0 =>
             /\ sentFrames < MaxFrames
             /\ sentFrames' = sentFrames + 1 /\ toSend' = payload
        /\ toSend # 0 => toSend' = toSend - Len(Transfer) /\ sentFrames' = sentFrames
    BY DEF ReadPoll, ReadFails, TransferTaken
  <1>5. toSend = 0 \/ (toSend > 0 /\ toSend < BufferSize) \/ toSend > BufferSize
    BY <1>0, <1>3 DEF Numbers
  <1>6. CASE ReadPoll
    <2>1. /\ readBuf' = Transfer /\ losses' = losses
          /\ Len(Transfer) = BufferSize =>
               recvBuf' = recvBuf \o Transfer /\ bufReadPos' = BufferSize
          /\ Len(Transfer) # BufferSize => bufReadPos' = 0 /\ recvBuf' = recvBuf
      BY <1>6 DEF ReadPoll
    <2>2. CASE toSend = 0
      <3>1. Len(Transfer) # BufferSize
        BY <1>0, <1>3, <2>2 DEF Numbers
      <3> QED BY <1>1, <1>2, <1>4, <2>1, <2>2, <3>1 DEF HeaderRead
    <2>3. CASE toSend > 0 /\ toSend < BufferSize
      <3>1. Len(Transfer) = toSend /\ toSend # 0
        BY <1>0, <1>3, <2>3 DEF Numbers
      <3>2. Len(Transfer) # BufferSize /\ toSend - Len(Transfer) = 0
        BY <1>0, <2>3, <3>1 DEF Numbers
      <3> QED BY <1>1, <1>2, <1>4, <2>1, <2>3, <3>1, <3>2 DEF PayloadRead
    <2>4. CASE toSend > BufferSize
      <3>1. Len(Transfer) = BufferSize /\ toSend # 0
        BY <1>0, <1>3, <2>4 DEF Numbers
      <3> QED BY <1>1, <1>2, <1>4, <2>1, <2>4, <3>1 DEF PayloadStored
    <2> QED BY <1>5, <2>2, <2>3, <2>4
  <1>7. CASE ReadFails
    <2>1. /\ payload < BufferSize /\ losses < MaxLosses /\ losses' = losses + 1
          /\ UNCHANGED <<readBuf, bufReadPos, recvBuf>>
      BY <1>7 DEF ReadFails
    <2>2. CASE toSend = 0
      BY <1>1, <1>2, <1>4, <2>1, <2>2 DEF HeaderLost
    <2>3. CASE toSend # 0
      <3>1. toSend = payload
        BY <1>1, <2>1, <2>3 DEF TransferKept
      <3>2. Len(Transfer) = toSend
        BY <1>0, <1>3, <2>1, <2>3, <3>1 DEF Numbers
      <3>3. toSend' = 0
        BY <1>0, <1>4, <2>3, <3>2 DEF Numbers
      <3> QED BY <1>1, <1>2, <1>4, <2>1, <2>3, <3>1, <3>3 DEF PayloadLost
    <2> QED BY <2>2, <2>3
  <1> QED BY <1>1, <1>2, <1>6, <1>7

\* What a read does to the counts.
LEMMA ReadCounts ==
  ASSUME ImageInv, ReadPoll \/ ReadFails
  PROVE  /\ FrameLen' = FrameLen /\ Bytes' = Bytes
         /\ HeaderRead => /\ Len(readBuf') = HeaderLen
                          /\ Unread' = HeaderLen /\ Remaining' = FrameLen
                          /\ Consumed' = 0
         /\ PayloadRead => /\ Len(readBuf') = toSend
                           /\ Unread' = toSend /\ Remaining' = Remaining
                           /\ Consumed' = Consumed
         /\ PayloadStored => /\ Len(readBuf') = BufferSize
                             /\ Unread' = 0
                             /\ Remaining' = Remaining - BufferSize
                             /\ Consumed' = Consumed + BufferSize
         /\ HeaderLost => /\ Unread' = 0 /\ Remaining' = payload
                          /\ Consumed' = HeaderLen
         /\ PayloadLost => /\ Unread' = 0 /\ Remaining' = 0
                           /\ Consumed' = FrameLen
  <1>1. SensingTypeOK /\ TransferKept
    BY DEF ImageInv
  <1>0. Numbers
    BY <1>1, Sizes
  <1>2. BufferConsumed /\ payload' = payload
    BY ReadSteps
  <1>3. /\ Unread = 0 /\ Remaining = toSend
        /\ toSend = 0 => Len(Transfer) = HeaderLen
        /\ toSend > 0 =>
             Len(Transfer) = IF toSend < BufferSize THEN toSend ELSE BufferSize
    BY <1>1, <1>2, TransferBytes
  <1>4. FrameLen' = FrameLen /\ Bytes' = Bytes
    BY <1>2 DEF FrameLen, Bytes
  <1>5. /\ Unread' = Len(readBuf') - bufReadPos'
        /\ Remaining' = toSend' + Unread' /\ Consumed' = FrameLen - Remaining'
    BY <1>4 DEF Unread, Remaining, Consumed
  <1>6. ASSUME HeaderRead
        PROVE  /\ Len(readBuf') = HeaderLen
               /\ Unread' = HeaderLen /\ Remaining' = FrameLen /\ Consumed' = 0
    <2>1. Len(readBuf') = HeaderLen /\ bufReadPos' = 0 /\ toSend' = payload
      BY <1>3, <1>6 DEF HeaderRead
    <2>2. Unread' = HeaderLen
      BY <1>0, <1>5, <2>1 DEF Numbers
    <2>3. Remaining' = FrameLen
      BY <1>0, <1>5, <2>1, <2>2 DEF Numbers
    <2> QED BY <1>0, <1>5, <2>1, <2>2, <2>3 DEF Numbers
  <1>7. ASSUME PayloadRead
        PROVE  /\ Len(readBuf') = toSend
               /\ Unread' = toSend /\ Remaining' = Remaining
               /\ Consumed' = Consumed
    <2>1. Len(readBuf') = toSend /\ bufReadPos' = 0 /\ toSend' = 0
      BY <1>3, <1>7 DEF PayloadRead
    <2>2. Unread' = toSend
      BY <1>0, <1>5, <2>1 DEF Numbers
    <2>3. Remaining' = Remaining
      BY <1>0, <1>3, <1>5, <2>1, <2>2 DEF Numbers
    <2> QED BY <1>0, <1>5, <2>1, <2>2, <2>3 DEF Numbers
  <1>8. ASSUME PayloadStored
        PROVE  /\ Len(readBuf') = BufferSize
               /\ Unread' = 0 /\ Remaining' = Remaining - BufferSize
               /\ Consumed' = Consumed + BufferSize
    <2>1. /\ Len(readBuf') = BufferSize /\ bufReadPos' = BufferSize
          /\ toSend' = toSend - BufferSize
      BY <1>0, <1>3, <1>8 DEF PayloadStored, Numbers
    <2>2. Unread' = 0
      BY <1>0, <1>5, <2>1 DEF Numbers
    <2>3. Remaining' = Remaining - BufferSize
      BY <1>0, <1>3, <1>5, <2>1, <2>2 DEF Numbers
    <2>4. Consumed' = Consumed + BufferSize
      BY <1>0, <1>5, <2>3 DEF Numbers
    <2> QED BY <2>1, <2>2, <2>3, <2>4
  <1>9. ASSUME HeaderLost
        PROVE  Unread' = 0 /\ Remaining' = payload /\ Consumed' = HeaderLen
    <2>1. toSend' = payload /\ Unread' = 0
      BY <1>3, <1>9 DEF HeaderLost, Unread
    <2>2. Remaining' = payload
      BY <1>0, <1>5, <2>1 DEF Numbers
    <2> QED BY <1>0, <1>5, <2>1, <2>2 DEF Numbers
  <1>10. ASSUME PayloadLost
         PROVE  Unread' = 0 /\ Remaining' = 0 /\ Consumed' = FrameLen
    <2>1. toSend' = 0 /\ Unread' = 0
      BY <1>3, <1>10 DEF PayloadLost, Unread
    <2>2. Remaining' = 0
      BY <1>5, <2>1
    <2> QED BY <1>0, <1>5, <2>1, <2>2 DEF Numbers
  <1> QED BY <1>4, <1>6, <1>7, <1>8, <1>9, <1>10

\* A full transfer is read only on track, and what it adds is the next part of
\* the frame that is being collected.
LEMMA StoredOnTrack ==
  ASSUME ImageInv, ReadPoll \/ ReadFails, PayloadStored
  PROVE  /\ losses = 0 /\ payload >= BufferSize
         /\ OnTrack /\ Len(received) = sentFrames - 1
         /\ Len(recvBuf) = Consumed
         /\ \A i \in 1 .. Len(recvBuf) : recvBuf[i] = Byte(sentFrames, i)
  <1>1. SensingTypeOK /\ TransferKept /\ TrackKept
    BY DEF ImageInv
  <1>0. Numbers
    BY <1>1, Sizes
  <1>2. Unread = 0 /\ Remaining = toSend /\ toSend > BufferSize
    BY <1>1, ReadSteps, TransferBytes DEF PayloadStored
  <1>3. payload >= BufferSize /\ losses = 0
    <2>1. payload >= BufferSize
      BY <1>0, <1>2 DEF Numbers
    <2> QED BY <1>1, <2>1 DEF TransferKept
  <1>4. toSend # 0
    BY <1>0, <1>2 DEF Numbers
  <1>5. OnTrack /\ Len(received) = sentFrames - 1
    BY <1>1, <1>3, <1>4 DEF TrackKept, Resting
  <1>6. ~(Remaining > payload)
    BY <1>0, <1>2 DEF Numbers
  <1> DEFINE skip == Len(recvBuf) - Consumed
  <1>7. /\ skip = 0
        /\ \A i \in skip + 1 .. Len(recvBuf) : recvBuf[i] = Byte(sentFrames, i - skip)
    BY <1>5, <1>6 DEF OnTrack
  <1>8. Len(recvBuf) = Consumed
    BY <1>0, <1>7 DEF Numbers
  <1> HIDE DEF skip
  <1>9. \A i \in 1 .. Len(recvBuf) : recvBuf[i] = Byte(sentFrames, i)
    <2> TAKE i \in 1 .. Len(recvBuf)
    <2>1. i \in skip + 1 .. Len(recvBuf) /\ i - skip = i
      BY <1>7
    <2> QED BY <1>7, <2>1
  <1> QED BY <1>3, <1>5, <1>8, <1>9

LEMMA ReadTypes ==
  ASSUME ImageInv, ReadPoll \/ ReadFails
  PROVE  SensingTypeOK'
  <1>1. SensingTypeOK /\ TransferKept
    BY DEF ImageInv
  <1>0. Numbers
    BY <1>1, Sizes
  <1>2. /\ BufferConsumed /\ payload' = payload /\ received' = received
        /\ HeaderRead \/ PayloadRead \/ PayloadStored \/ HeaderLost \/ PayloadLost
    BY ReadSteps
  <1>3. /\ Unread = 0 /\ Remaining = toSend
        /\ toSend = 0 /\ sentFrames < MaxFrames => Transfer \in Seq(Bytes)
        /\ toSend > 0 => Transfer \in Seq(Bytes)
    BY <1>1, <1>2, TransferBytes
  <1>4. Bytes' = Bytes
    BY ReadCounts
  <1>5. /\ payload \in Payloads /\ received \in Seq(0 .. MaxFrames)
        /\ readBuf \in Seq(Bytes) /\ Len(readBuf) <= BufferSize
        /\ bufReadPos \in 0 .. Len(readBuf)
        /\ recvBuf \in Seq(Bytes) /\ Len(recvBuf) <= MaxRecvLen
        /\ sentFrames \in 0 .. MaxFrames /\ losses \in 0 .. MaxLosses
        /\ MaxLosses \in Nat
    BY <1>1, SensingAssumption DEF SensingTypeOK, SensingAssumption
  <1>6. sentFrames' \in 0 .. MaxFrames /\ toSend' \in 0 .. payload
    <2>1. /\ sentFrames \in Nat /\ MaxFrames \in Nat /\ payload \in Nat
          /\ toSend \in Nat /\ toSend <= payload /\ BufferSize \in Nat
          /\ sentFrames <= MaxFrames
      BY <1>0, <1>5 DEF Numbers
    <2>2. CASE HeaderRead \/ HeaderLost
      BY <2>1, <2>2 DEF HeaderRead, HeaderLost
    <2>3. CASE PayloadRead \/ PayloadLost
      BY <2>1, <2>3 DEF PayloadRead, PayloadLost
    <2>4. CASE PayloadStored
      BY <2>1, <2>4 DEF PayloadStored
    <2> QED BY <1>2, <2>2, <2>3, <2>4
  <1>7. losses' \in 0 .. MaxLosses
    <2>1. CASE HeaderRead \/ PayloadRead \/ PayloadStored
      BY <1>5, <2>1 DEF HeaderRead, PayloadRead, PayloadStored
    <2>2. CASE HeaderLost \/ PayloadLost
      <3>1. losses < MaxLosses /\ losses' = losses + 1
        BY <2>2 DEF HeaderLost, PayloadLost
      <3>2. losses \in 0 .. MaxLosses /\ MaxLosses \in Nat
        BY <1>5
      <3> QED BY <3>1, <3>2
    <2> QED BY <1>2, <2>1, <2>2
  <1>8. /\ readBuf' \in Seq(Bytes) /\ Len(readBuf') <= BufferSize
        /\ bufReadPos' \in 0 .. Len(readBuf')
    <2>1. CASE HeaderRead
      <3>1. readBuf' = Transfer /\ Len(readBuf') = HeaderLen /\ bufReadPos' = 0
        BY <2>1, ReadCounts DEF HeaderRead
      <3>2. Transfer \in Seq(Bytes)
        BY <1>3, <2>1 DEF HeaderRead
      <3> QED BY <1>0, <3>1, <3>2 DEF Numbers
    <2>2. CASE PayloadRead
      <3>1. /\ readBuf' = Transfer /\ Len(readBuf') = toSend /\ bufReadPos' = 0
            /\ toSend < BufferSize
        BY <2>2, ReadCounts DEF PayloadRead
      <3>2. Transfer \in Seq(Bytes)
        BY <1>3, <2>2 DEF PayloadRead
      <3> QED BY <1>0, <3>1, <3>2 DEF Numbers
    <2>3. CASE PayloadStored
      <3>1. /\ readBuf' = Transfer /\ Len(readBuf') = BufferSize
            /\ bufReadPos' = BufferSize /\ toSend > BufferSize
        BY <2>3, ReadCounts DEF PayloadStored
      <3>2. toSend > 0
        BY <1>0, <3>1 DEF Numbers
      <3>3. Transfer \in Seq(Bytes)
        BY <1>3, <3>2
      <3> QED BY <1>0, <3>1, <3>3 DEF Numbers
    <2>4. CASE HeaderLost \/ PayloadLost
      <3>1. readBuf' = readBuf /\ bufReadPos' = bufReadPos
        BY <2>4 DEF HeaderLost, PayloadLost
      <3> QED BY <1>5, <3>1
    <2> QED BY <1>2, <2>1, <2>2, <2>3, <2>4
  <1>9. recvBuf' \in Seq(Bytes) /\ Len(recvBuf') <= MaxRecvLen
    <2>1. CASE PayloadStored
      <3>1. toSend > BufferSize /\ recvBuf' = recvBuf \o Transfer
        BY <2>1 DEF PayloadStored
      <3>2. toSend > 0
        BY <1>0, <3>1 DEF Numbers
      <3>3. Transfer \in Seq(Bytes) /\ Len(Transfer) = BufferSize
        <4>1. readBuf' = Transfer /\ Len(readBuf') = BufferSize
          BY <2>1, ReadCounts DEF PayloadStored
        <4> QED BY <1>3, <3>2, <4>1
      <3>4. recvBuf' \in Seq(Bytes) /\ Len(recvBuf') = Len(recvBuf) + BufferSize
        BY <1>5, <3>1, <3>3
      <3>5. Len(recvBuf) = Consumed
        BY <2>1, StoredOnTrack
      <3>6. Len(recvBuf) + BufferSize <= FrameLen
        BY <1>0, <1>3, <3>1, <3>5 DEF Numbers
      <3>7. Len(recvBuf') <= MaxRecvLen
        BY <1>0, <3>4, <3>6 DEF Numbers
      <3> QED BY <3>4, <3>7
    <2>2. CASE HeaderRead \/ PayloadRead \/ HeaderLost \/ PayloadLost
      <3>1. recvBuf' = recvBuf
        BY <2>2 DEF HeaderRead, PayloadRead, HeaderLost, PayloadLost
      <3> QED BY <1>5, <3>1
    <2> QED BY <1>2, <2>1, <2>2
  <1> QED
    BY <1>2, <1>4, <1>5, <1>6, <1>7, <1>8, <1>9 DEF SensingTypeOK

LEMMA ReadTransfer ==
  ASSUME ImageInv, ReadPoll \/ ReadFails
  PROVE  TransferKept'
  <1>1. SensingTypeOK /\ TransferKept
    BY DEF ImageInv
  <1>0. Numbers
    BY <1>1, Sizes
  <1>2. /\ BufferConsumed /\ payload' = payload
        /\ HeaderRead \/ PayloadRead \/ PayloadStored \/ HeaderLost \/ PayloadLost
    BY ReadSteps
  <1>3. /\ Unread = 0 /\ Remaining = toSend
        /\ toSend = 0 =>
             \A i \in 1 .. HeaderLen : Transfer[i] = Byte(sentFrames + 1, i)
        /\ toSend > 0 =>
             \A i \in 1 .. Len(Transfer) :
               Transfer[i] = Byte(sentFrames, (FrameLen - toSend) + i)
    BY <1>1, <1>2, TransferBytes
  <1>4. FrameLen' = FrameLen
    BY ReadCounts
  <1>5. sentFrames = 0 => toSend = 0
    BY <1>0, <1>3, <1>1 DEF TransferKept, Numbers
  <1>6. CASE HeaderRead
    <2>1. /\ toSend = 0 /\ sentFrames' = sentFrames + 1 /\ toSend' = payload
          /\ readBuf' = Transfer /\ bufReadPos' = 0 /\ losses' = losses
          /\ Len(readBuf') = HeaderLen /\ Unread' = HeaderLen
      BY <1>6, ReadCounts DEF HeaderRead
    <2>2. sentFrames' # 0
      BY <1>0, <2>1 DEF Numbers
    <2>3. \A i \in bufReadPos' + 1 .. Len(readBuf') :
            readBuf'[i]
              = Byte(sentFrames', (FrameLen' - toSend' - Len(readBuf')) + i)
      <3> SUFFICES ASSUME NEW i \in bufReadPos' + 1 .. Len(readBuf')
                   PROVE  readBuf'[i]
                            = Byte(sentFrames',
                                   (FrameLen' - toSend' - Len(readBuf')) + i)
        OBVIOUS
      <3>1. i \in 1 .. HeaderLen
        BY <1>0, <2>1 DEF Numbers
      <3>2. (FrameLen - payload - HeaderLen) + i = i
        BY <1>0, <3>1 DEF Numbers
      <3>3. (FrameLen' - toSend' - Len(readBuf')) + i = i
        BY <1>4, <2>1, <3>2
      <3>4. Transfer[i] = Byte(sentFrames + 1, i)
        BY <1>3, <2>1, <3>1
      <3> QED BY <2>1, <3>3, <3>4
    <2>4. HeaderLen <= HeaderLen
      BY <1>0 DEF Numbers
    <2>5. payload >= BufferSize => losses' = 0
      BY <1>1, <2>1 DEF TransferKept
    <2> QED BY <1>2, <2>1, <2>2, <2>3, <2>4, <2>5 DEF TransferKept
  <1>7. CASE PayloadRead
    <2>1. /\ toSend > 0 /\ sentFrames' = sentFrames /\ toSend' = 0
          /\ readBuf' = Transfer /\ bufReadPos' = 0 /\ losses' = losses
          /\ Len(readBuf') = toSend /\ Unread' = toSend /\ Remaining' = Remaining
      BY <1>7, ReadCounts DEF PayloadRead
    <2>2. \A i \in bufReadPos' + 1 .. Len(readBuf') :
            readBuf'[i]
              = Byte(sentFrames', (FrameLen' - toSend' - Len(readBuf')) + i)
      <3> SUFFICES ASSUME NEW i \in bufReadPos' + 1 .. Len(readBuf')
                   PROVE  readBuf'[i]
                            = Byte(sentFrames',
                                   (FrameLen' - toSend' - Len(readBuf')) + i)
        OBVIOUS
      <3>1. i \in 1 .. Len(Transfer) /\ i \in Int
        BY <1>0, <2>1 DEF Numbers
      <3>2. (FrameLen - 0 - toSend) + i = (FrameLen - toSend) + i
        BY <1>0, <3>1 DEF Numbers
      <3>3. (FrameLen' - toSend' - Len(readBuf')) + i = (FrameLen - toSend) + i
        BY <1>4, <2>1, <3>2
      <3>4. Transfer[i] = Byte(sentFrames, (FrameLen - toSend) + i)
        BY <1>3, <2>1, <3>1
      <3> QED BY <2>1, <3>3, <3>4
    <2>3. Remaining' <= payload'
      BY <1>0, <1>2, <1>3, <2>1 DEF Numbers
    <2>4. sentFrames' # 0
      BY <1>0, <1>5, <2>1 DEF Numbers
    <2>5. payload >= BufferSize => losses' = 0
      BY <1>1, <2>1 DEF TransferKept
    <2> QED BY <1>2, <2>1, <2>2, <2>3, <2>4, <2>5 DEF TransferKept
  <1>8. CASE PayloadStored
    <2>1. /\ toSend > BufferSize /\ sentFrames' = sentFrames
          /\ toSend' = toSend - BufferSize
          /\ bufReadPos' = BufferSize /\ losses' = losses
          /\ Len(readBuf') = BufferSize /\ Remaining' = Remaining - BufferSize
      BY <1>8, ReadCounts DEF PayloadStored
    <2>2. losses = 0 /\ payload >= BufferSize
      BY <1>8, StoredOnTrack
    <2>3. bufReadPos' + 1 .. Len(readBuf') = {}
      BY <1>0, <2>1 DEF Numbers
    <2>4. Remaining' <= payload'
      BY <1>0, <1>2, <1>3, <2>1 DEF Numbers
    <2>5. toSend # 0 /\ sentFrames' # 0
      BY <1>0, <1>5, <2>1 DEF Numbers
    <2>6. toSend' % BufferSize = payload' % BufferSize
      <3>1. toSend % BufferSize = payload % BufferSize
        BY <1>1, <2>5 DEF TransferKept
      <3>2. /\ toSend \in Nat /\ BufferSize \in Nat /\ BufferSize > 0
            /\ toSend >= BufferSize
        BY <1>0, <2>1 DEF Numbers
      <3>3. (toSend - BufferSize) % BufferSize = toSend % BufferSize
        BY <3>2, RemainderKept
      <3> QED BY <1>2, <2>1, <3>1, <3>3
    <2>7. ~(payload' < BufferSize)
      BY <1>0, <1>2, <2>2 DEF Numbers
    <2> QED BY <1>2, <2>1, <2>2, <2>3, <2>4, <2>5, <2>6, <2>7 DEF TransferKept
  <1>9. CASE HeaderLost
    <2>1. /\ payload < BufferSize /\ sentFrames' = sentFrames + 1
          /\ toSend' = payload /\ Unread' = 0 /\ Remaining' = payload
          /\ Len(readBuf') = Len(readBuf) /\ bufReadPos' = bufReadPos
      BY <1>9, ReadCounts DEF HeaderLost
    <2>2. sentFrames' # 0 /\ Remaining' <= payload' /\ ~(payload' >= BufferSize)
      BY <1>0, <1>2, <2>1 DEF Numbers
    <2>3. bufReadPos' + 1 .. Len(readBuf') = {}
      BY <1>0, <1>3, <2>1 DEF Numbers
    <2> QED BY <1>2, <2>1, <2>2, <2>3 DEF TransferKept
  <1>10. CASE PayloadLost
    <2>1. /\ payload < BufferSize /\ toSend' = 0 /\ Remaining' = 0
          /\ Len(readBuf') = Len(readBuf) /\ bufReadPos' = bufReadPos
      BY <1>10, ReadCounts DEF PayloadLost
    <2>2. Remaining' <= payload' /\ ~(payload' >= BufferSize)
      BY <1>0, <1>2, <2>1 DEF Numbers
    <2>3. bufReadPos' + 1 .. Len(readBuf') = {}
      BY <1>0, <1>3, <2>1 DEF Numbers
    <2> QED BY <1>2, <2>1, <2>2, <2>3 DEF TransferKept
  <1> QED BY <1>2, <1>6, <1>7, <1>8, <1>9, <1>10

\* A header that is read starts a frame on track if no first byte is left.
LEMMA HeaderStartsFrame ==
  ASSUME ImageInv, ReadPoll \/ ReadFails, HeaderRead, Len(recvBuf) < HeaderLen,
         \A i \in 1 .. Len(recvBuf) : recvBuf[i].place # 1
  PROVE  OnTrack'
  <1>0. Numbers
    BY Sizes DEF ImageInv
  <1>1. /\ Remaining' = FrameLen /\ Consumed' = 0
        /\ recvBuf' = recvBuf /\ payload' = payload
    BY ReadCounts, ReadSteps DEF HeaderRead
  <1>2. Len(recvBuf') - Consumed' = Len(recvBuf)
    BY <1>0, <1>1 DEF Numbers
  <1>3. /\ FrameLen > 0 /\ FrameLen > payload /\ Len(recvBuf) >= 0
        /\ Len(recvBuf) + 1 .. Len(recvBuf) = {}
    BY <1>0 DEF Numbers
  <1> QED BY <1>1, <1>2, <1>3 DEF OnTrack

\* A payload that is read does not change what has been parsed.
LEMMA PayloadReadOnTrack ==
  ASSUME ImageInv, ReadPoll \/ ReadFails, PayloadRead, OnTrack
  PROVE  OnTrack'
  <1>1. /\ Remaining' = Remaining /\ Consumed' = Consumed
        /\ recvBuf' = recvBuf /\ payload' = payload /\ sentFrames' = sentFrames
    BY ReadCounts, ReadSteps DEF PayloadRead
  <1> QED BY <1>1 DEF OnTrack

LEMMA PayloadStoredOnTrack ==
  ASSUME ImageInv, ReadPoll \/ ReadFails, PayloadStored
  PROVE  OnTrack'
  <1>1. SensingTypeOK /\ TransferKept
    BY DEF ImageInv
  <1>0. Numbers
    BY <1>1, Sizes
  <1>2. /\ Len(recvBuf) = Consumed
        /\ \A i \in 1 .. Len(recvBuf) : recvBuf[i] = Byte(sentFrames, i)
    BY StoredOnTrack
  <1>3. /\ Remaining' = Remaining - BufferSize
        /\ Consumed' = Consumed + BufferSize
        /\ payload' = payload /\ sentFrames' = sentFrames
        /\ recvBuf' = recvBuf \o Transfer
        /\ toSend > BufferSize /\ BufferConsumed
    BY ReadCounts, ReadSteps DEF PayloadStored
  <1>4. toSend > 0 /\ ~(toSend < BufferSize)
    BY <1>0, <1>3 DEF Numbers
  <1>5. /\ Len(Transfer) = BufferSize /\ Transfer \in Seq(Bytes)
        /\ \A i \in 1 .. Len(Transfer) :
             Transfer[i] = Byte(sentFrames, (FrameLen - toSend) + i)
        /\ Remaining = toSend
    BY <1>1, <1>3, <1>4, TransferBytes
  <1>6. recvBuf \in Seq(Bytes)
    BY <1>1 DEF SensingTypeOK
  <1>7. /\ Len(recvBuf') = Len(recvBuf) + BufferSize
        /\ \A i \in 1 .. Len(recvBuf) + BufferSize :
             recvBuf'[i] = IF i <= Len(recvBuf) THEN recvBuf[i]
                           ELSE Transfer[i - Len(recvBuf)]
    BY <1>3, <1>5, <1>6, TwoSequences
  <1>8. \A i \in 1 .. Len(recvBuf') : recvBuf'[i] = Byte(sentFrames, i)
    <2> TAKE i \in 1 .. Len(recvBuf')
    <2>1. CASE i <= Len(recvBuf)
      <3>1. i \in 1 .. Len(recvBuf) /\ i \in 1 .. Len(recvBuf) + BufferSize
        BY <1>0, <1>7, <2>1 DEF Numbers
      <3> QED BY <1>2, <1>7, <2>1, <3>1
    <2>2. CASE ~(i <= Len(recvBuf))
      <3>1. /\ i \in 1 .. Len(recvBuf) + BufferSize
            /\ i - Len(recvBuf) \in 1 .. Len(Transfer)
        BY <1>0, <1>5, <1>7, <2>2 DEF Numbers
      <3>2. (FrameLen - toSend) + (i - Len(recvBuf)) = i
        <4>1. Len(recvBuf) = FrameLen - toSend
          BY <1>0, <1>2, <1>5 DEF Numbers
        <4>2. Len(recvBuf) \in Nat /\ i \in Int
          BY <1>0, <3>1 DEF Numbers
        <4>3. Len(recvBuf) + (i - Len(recvBuf)) = i
          BY <4>2
        <4> QED BY <4>1, <4>3
      <3> QED BY <1>5, <1>7, <2>2, <3>1, <3>2
    <2> QED BY <2>1, <2>2
  <1>9. Len(recvBuf') - Consumed' = 0
    <2>1. Len(recvBuf') = Consumed + BufferSize
      BY <1>2, <1>7
    <2> QED BY <1>0, <1>3, <2>1 DEF Numbers
  <1>10. Remaining' > 0 /\ ~(Remaining' > payload')
    BY <1>0, <1>3, <1>5 DEF Numbers
  <1>11. \A i \in 0 + 1 .. Len(recvBuf') : recvBuf'[i] = Byte(sentFrames', i - 0)
    BY <1>3, <1>8
  <1>12. 1 .. 0 = {}
    OBVIOUS
  <1> QED BY <1>9, <1>10, <1>11, <1>12 DEF OnTrack

LEMMA ReadTrack ==
  ASSUME ImageInv, ReadPoll \/ ReadFails
  PROVE  TrackKept'
  <1>1. SensingTypeOK /\ TransferKept /\ TrackKept
    BY DEF ImageInv
  <1>0. Numbers
    BY <1>1, Sizes
  <1>2. /\ BufferConsumed /\ received' = received
        /\ HeaderRead \/ PayloadRead \/ PayloadStored \/ HeaderLost \/ PayloadLost
    BY ReadSteps
  <1>3. Unread = 0 /\ Remaining = toSend
    BY <1>1, <1>2, TransferBytes
  <1>4. CASE HeaderLost \/ PayloadLost
    <2>1. losses' # 0
      BY <1>0, <1>4 DEF HeaderLost, PayloadLost, Numbers
    <2> QED BY <2>1 DEF TrackKept
  <1>5. CASE HeaderRead
    <2> SUFFICES ASSUME losses' = 0 PROVE TrackKept'
      BY DEF TrackKept
    <2>1. losses = 0 /\ toSend = 0 /\ sentFrames' = sentFrames + 1
      BY <1>5 DEF HeaderRead
    <2>2. ~OnTrack
      BY <1>3, <2>1 DEF OnTrack
    <2>3. /\ Resting /\ Len(received) = sentFrames
          /\ \A i \in 1 .. Len(received) : received[i] = i
      BY <1>1, <2>1, <2>2 DEF TrackKept
    <2>4. OnTrack'
      BY <1>5, <2>3, HeaderStartsFrame DEF Resting
    <2>5. Len(received') = sentFrames' - 1
      BY <1>0, <1>2, <2>1, <2>3 DEF Numbers
    <2> QED BY <1>2, <2>3, <2>4, <2>5 DEF TrackKept
  <1>6. CASE PayloadRead
    <2> SUFFICES ASSUME losses' = 0 PROVE TrackKept'
      BY DEF TrackKept
    <2>1. losses = 0 /\ toSend > 0 /\ sentFrames' = sentFrames
      BY <1>6 DEF PayloadRead
    <2>2. ~Resting
      BY <1>0, <2>1 DEF Resting, Numbers
    <2>3. /\ OnTrack /\ Len(received) = sentFrames - 1
          /\ \A i \in 1 .. Len(received) : received[i] = i
      BY <1>1, <2>1, <2>2 DEF TrackKept
    <2>4. OnTrack'
      BY <1>6, <2>3, PayloadReadOnTrack
    <2> QED BY <1>2, <2>1, <2>3, <2>4 DEF TrackKept
  <1>7. CASE PayloadStored
    <2>1. losses = 0 /\ sentFrames' = sentFrames /\ Len(received) = sentFrames - 1
      BY <1>7, StoredOnTrack DEF PayloadStored
    <2>2. \A i \in 1 .. Len(received) : received[i] = i
      BY <1>1, <2>1 DEF TrackKept
    <2>3. OnTrack'
      BY <1>7, PayloadStoredOnTrack
    <2> QED BY <1>2, <2>1, <2>2, <2>3 DEF TrackKept
  <1> QED BY <1>2, <1>4, <1>5, <1>6, <1>7

\* With payloads that take one transfer, no transfer is appended unseen.
LEMMA ReadsOfSmallPayloads ==
  ASSUME ImageInv, ReadPoll \/ ReadFails, payload < BufferSize
  PROVE  /\ recvBuf' = recvBuf /\ received' = received /\ FrameLen' = FrameLen
         /\ Unread = 0 /\ Remaining = toSend /\ toSend \in {0, payload}
         /\ HeaderRead \/ PayloadRead \/ HeaderLost \/ PayloadLost
  <1>1. SensingTypeOK /\ TransferKept
    BY DEF ImageInv
  <1>0. Numbers
    BY <1>1, Sizes
  <1>2. /\ BufferConsumed /\ received' = received /\ FrameLen' = FrameLen
        /\ HeaderRead \/ PayloadRead \/ PayloadStored \/ HeaderLost \/ PayloadLost
    BY ReadSteps, ReadCounts
  <1>3. ~PayloadStored
    BY <1>0 DEF PayloadStored, Numbers
  <1>4. Unread = 0 /\ Remaining = toSend
    BY <1>1, <1>2, TransferBytes
  <1>5. toSend \in {0, payload}
    BY <1>1 DEF TransferKept
  <1>6. recvBuf' = recvBuf
    BY <1>2, <1>3 DEF HeaderRead, PayloadRead, HeaderLost, PayloadLost
  <1> QED BY <1>2, <1>3, <1>4, <1>5, <1>6

\* A read finds no first byte among the last bytes of recvBuf.
LEMMA ReadFindsNoFirstByte ==
  ASSUME ImageInv, ReadPoll \/ ReadFails, payload < BufferSize
  PROVE  /\ \A i \in 1 .. Len(recvBuf) :
              recvBuf[i].place = 1 => Len(recvBuf) - i >= HeaderLen - 1
         /\ Len(recvBuf) < HeaderLen =>
              \A i \in 1 .. Len(recvBuf) : recvBuf[i].place # 1
  <1>1. SensingTypeOK /\ FirstBytesKept
    BY DEF ImageInv
  <1>0. Numbers
    BY <1>1, Sizes
  <1>2. ~(Remaining > payload)
    BY <1>0, ReadsOfSmallPayloads DEF Numbers
  <1>3. \A i \in 1 .. Len(recvBuf) :
          recvBuf[i].place = 1 => Len(recvBuf) - i >= HeaderLen - 1
    BY <1>1, <1>2 DEF FirstBytesKept
  <1>4. ASSUME Len(recvBuf) < HeaderLen, NEW i \in 1 .. Len(recvBuf),
               recvBuf[i].place = 1
        PROVE  FALSE
    <2>1. Len(recvBuf) - i >= HeaderLen - 1
      BY <1>3, <1>4
    <2> QED BY <1>0, <1>4, <2>1 DEF Numbers
  <1> QED BY <1>3, <1>4

LEMMA ReadWindow ==
  ASSUME ImageInv, ReadPoll \/ ReadFails, payload < BufferSize
  PROVE  FirstBytesKept' /\ FirstBytesOrdered' /\ FirstBytesAhead' /\ ImagesKept'
  <1>1. /\ SensingTypeOK /\ TransferKept
        /\ FirstBytesOrdered /\ FirstBytesAhead /\ ImagesKept
    BY DEF ImageInv
  <1>0. Numbers
    BY <1>1, Sizes
  <1>2. /\ recvBuf' = recvBuf /\ received' = received
        /\ HeaderRead \/ PayloadRead \/ HeaderLost \/ PayloadLost
        /\ Remaining = toSend
    BY ReadsOfSmallPayloads
  <1>3. FirstBytesKept'
    BY <1>2, ReadFindsNoFirstByte DEF FirstBytesKept
  <1>4. FirstBytesOrdered'
    BY <1>1, <1>2 DEF FirstBytesOrdered
  <1>5. \/ sentFrames' = sentFrames + 1
        \/ sentFrames' = sentFrames /\ Consumed' # 0
    <2>1. CASE HeaderRead \/ HeaderLost
      BY <2>1 DEF HeaderRead, HeaderLost
    <2>2. CASE PayloadRead
      <3>1. sentFrames' = sentFrames /\ Consumed' = Consumed
        BY <2>2, ReadCounts DEF PayloadRead
      <3>2. Consumed # 0
        BY <1>0, <1>2 DEF Numbers
      <3> QED BY <3>1, <3>2
    <2>3. CASE PayloadLost
      <3>1. sentFrames' = sentFrames /\ Consumed' = FrameLen
        BY <2>3, ReadCounts DEF PayloadLost
      <3>2. FrameLen # 0
        BY <1>0 DEF Numbers
      <3> QED BY <3>1, <3>2
    <2> QED BY <1>2, <2>1, <2>2, <2>3
  <1>6. FirstBytesAhead'
    <2> SUFFICES ASSUME NEW i \in 1 .. Len(recvBuf), recvBuf[i].place = 1
                 PROVE  /\ \A j \in 1 .. Len(received) : received[j] < recvBuf[i].frame
                        /\ recvBuf[i].frame <= sentFrames'
                        /\ recvBuf[i].frame = sentFrames' /\ Consumed' = 0 =>
                             i = Len(recvBuf) /\ i < HeaderLen
      BY <1>2 DEF FirstBytesAhead
    <2>1. /\ \A j \in 1 .. Len(received) : received[j] < recvBuf[i].frame
          /\ recvBuf[i].frame <= sentFrames
      BY <1>1 DEF FirstBytesAhead
    <2>2. recvBuf[i].frame \in Nat
      <3>1. recvBuf[i] \in Bytes
        BY <1>1, ElementsOfSequence DEF SensingTypeOK
      <3> QED BY <1>0, <3>1, BytesAreNumbered DEF Numbers
    <2>3. CASE sentFrames' = sentFrames + 1
      <3>1. recvBuf[i].frame <= sentFrames' /\ recvBuf[i].frame # sentFrames'
        BY <1>0, <2>1, <2>2, <2>3 DEF Numbers
      <3> QED BY <2>1, <3>1
    <2>4. CASE sentFrames' = sentFrames /\ Consumed' # 0
      BY <2>1, <2>4
    <2> QED BY <1>5, <2>3, <2>4
  <1>7. ImagesKept'
    <2>1. ASSUME NEW j \in 1 .. Len(received)
          PROVE  /\ received[j] <= sentFrames'
                 /\ Consumed' = 0 => received[j] < sentFrames'
      <3>1. received[j] <= sentFrames
        BY <1>1 DEF ImagesKept
      <3>2. received[j] \in 0 .. MaxFrames
        BY <1>1, ElementsOfSequence DEF SensingTypeOK
      <3>3. CASE sentFrames' = sentFrames + 1
        BY <1>0, <3>1, <3>2, <3>3 DEF Numbers
      <3>4. CASE sentFrames' = sentFrames /\ Consumed' # 0
        BY <3>1, <3>4
      <3> QED BY <1>5, <3>3, <3>4
    <2>2. \A i, j \in 1 .. Len(received) :
            i < j /\ received[i] # 0 /\ received[j] # 0 => received[i] < received[j]
      BY <1>1 DEF ImagesKept
    <2> QED BY <1>2, <2>1, <2>2 DEF ImagesKept
  <1> QED BY <1>3, <1>4, <1>6, <1>7

LEMMA ReadKeepsCredit ==
  ASSUME ImageInv, ReadPoll \/ ReadFails, payload < BufferSize
  PROVE  CreditKept'
  <1>1. SensingTypeOK /\ TransferKept /\ CreditKept
    BY DEF ImageInv
  <1>0. Numbers
    BY <1>1, Sizes
  <1>2. /\ recvBuf' = recvBuf /\ received' = received /\ FrameLen' = FrameLen
        /\ Remaining = toSend /\ toSend \in {0, payload}
        /\ HeaderRead \/ PayloadRead \/ HeaderLost \/ PayloadLost
    BY ReadsOfSmallPayloads
  <1>3. Credit \in Nat
    BY <1>0, <1>1, ImagesAreFinite DEF Credit, Numbers
  <1>4. /\ losses' = losses => Credit' = Credit
        /\ losses' = losses + 1 => Credit' = Credit + 2
    <2>1. WholeImages' = WholeImages
      BY <1>2 DEF WholeImages
    <2>2. Cardinality(WholeImages) \in Nat
      BY <1>1, ImagesAreFinite
    <2>3. ASSUME losses' = losses + 1 PROVE Credit' = Credit + 2
      <3>1. Credit' = Cardinality(WholeImages) + 2 * (losses + 1)
        BY <2>1, <2>3 DEF Credit
      <3> QED BY <1>0, <2>2, <3>1 DEF Credit, Numbers
    <2> QED BY <2>1, <2>3 DEF Credit
  <1>5. /\ Credit >= sentFrames - 1
        /\ ~OnTrack => Credit >= sentFrames
    BY <1>0, <1>1, <1>3 DEF CreditKept, Numbers
  <1>6. toSend = 0 => ~OnTrack
    BY <1>2 DEF OnTrack
  <1>7. Len(recvBuf) < FrameLen
    BY BufferIsShort
  <1>8. CASE Len(recvBuf) < HeaderLen /\ (~OnTrack \/ HeaderLost \/ PayloadLost)
    <2>1. CASE HeaderRead
      <3>1. toSend = 0 /\ sentFrames' = sentFrames + 1 /\ losses' = losses
        BY <2>1 DEF HeaderRead
      <3>2. OnTrack'
        BY <1>8, <2>1, HeaderStartsFrame, ReadFindsNoFirstByte
      <3>3. Credit' >= sentFrames' - 1
        BY <1>0, <1>3, <1>4, <1>5, <1>6, <3>1 DEF Numbers
      <3> QED BY <3>2, <3>3 DEF CreditKept
    <2>2. CASE PayloadRead
      <3>1. sentFrames' = sentFrames /\ losses' = losses /\ ~OnTrack
        BY <1>0, <1>8, <2>2 DEF PayloadRead, HeaderLost, PayloadLost, Numbers
      <3> QED BY <1>2, <1>4, <1>5, <1>8, <3>1 DEF CreditKept
    <2>3. CASE HeaderLost \/ PayloadLost
      <3>1. /\ losses' = losses + 1
            /\ sentFrames' = sentFrames + 1 \/ sentFrames' = sentFrames
            /\ sentFrames' = sentFrames + 1 => toSend = 0
        BY <1>0, <2>3 DEF HeaderLost, PayloadLost, Numbers
      <3>2. Credit' >= sentFrames'
        BY <1>0, <1>3, <1>4, <1>5, <1>6, <3>1 DEF Numbers
      <3> QED BY <1>2, <1>8, <3>2 DEF CreditKept
    <2> QED BY <1>2, <2>1, <2>2, <2>3
  <1>9. CASE PayloadRead /\ OnTrack
    <2>1. OnTrack' /\ sentFrames' = sentFrames /\ losses' = losses
      BY <1>9, PayloadReadOnTrack DEF PayloadRead
    <2> QED BY <1>4, <1>5, <2>1 DEF CreditKept
  <1>10. CASE ~(Len(recvBuf) < HeaderLen) /\ ~(PayloadRead /\ OnTrack)
    <2>1. Len(recvBuf) \in HeaderLen .. FrameLen - 1 /\ StartOfFrame(recvBuf)
      BY <1>0, <1>7, <1>10, BufferIsShort DEF Numbers
    <2>2. /\ Credit' >= sentFrames'
          /\ Len(recvBuf) + Remaining' >= FrameLen \/ Credit' >= sentFrames' + 1
      <3>1. ~OnTrack =>
              \/ Len(recvBuf) + Remaining >= FrameLen
              \/ Credit >= sentFrames + 1
        BY <1>1, <1>10 DEF CreditKept
      <3>2. CASE HeaderRead
        <4>1. /\ toSend = 0 /\ sentFrames' = sentFrames + 1 /\ losses' = losses
              /\ Remaining' = FrameLen
          BY <3>2, ReadCounts DEF HeaderRead
        <4>2. Credit >= sentFrames + 1
          BY <1>0, <1>2, <1>6, <1>7, <3>1, <4>1 DEF Numbers
        <4> QED BY <1>0, <1>3, <1>4, <4>1, <4>2 DEF Numbers
      <3>3. CASE PayloadRead
        <4>1. /\ sentFrames' = sentFrames /\ losses' = losses
              /\ Remaining' = Remaining
          BY <3>3, ReadCounts DEF PayloadRead
        <4> QED BY <1>4, <1>5, <1>10, <3>1, <3>3, <4>1
      <3>4. CASE HeaderLost
        <4>1. /\ toSend = 0 /\ sentFrames' = sentFrames + 1
              /\ losses' = losses + 1
          BY <3>4 DEF HeaderLost
        <4>2. Credit >= sentFrames + 1
          BY <1>0, <1>2, <1>6, <1>7, <3>1, <4>1 DEF Numbers
        <4> QED BY <1>0, <1>3, <1>4, <4>1, <4>2 DEF Numbers
      <3>5. CASE PayloadLost
        <4>1. sentFrames' = sentFrames /\ losses' = losses + 1
          BY <3>5 DEF PayloadLost
        <4> QED BY <1>0, <1>3, <1>4, <1>5, <4>1 DEF Numbers
      <3> QED BY <1>2, <3>2, <3>3, <3>4, <3>5
    <2>3. /\ Len(recvBuf') \in HeaderLen .. FrameLen' - 1
          /\ StartOfFrame(recvBuf')
          /\ Credit' >= sentFrames'
          /\ Len(recvBuf') + Remaining' >= FrameLen' \/ Credit' >= sentFrames' + 1
      BY <1>2, <2>1, <2>2
    <2> QED BY <2>3 DEF CreditKept, StartOfFrame
  <1>11. OnTrack /\ HeaderRead => FALSE
    BY <1>6 DEF HeaderRead
  <1> QED BY <1>2, <1>8, <1>9, <1>10, <1>11

LEMMA ReadKeepsImageInv ==
  ASSUME ImageInv, ReadPoll \/ ReadFails
  PROVE  ImageInv'
  <1>1. SensingTypeOK' /\ TransferKept' /\ TrackKept'
    BY ReadTypes, ReadTransfer, ReadTrack
  <1>2. payload' = payload
    BY ReadSteps
  <1> QED BY <1>1, <1>2, ReadWindow, ReadKeepsCredit DEF ImageInv

-----------------------------------------------------------------------------
(* Stereo images: the theorems.                                            *)

\* The invariant is inductive, for any sizes of headers, payloads and buffers
\* and any numbers of frames and losses.
LEMMA ImageInvHolds == SensingSpec => []ImageInv
  <1>1. ImageInv /\ [SensingNext]_sensingVars => ImageInv'
    <2> SUFFICES ASSUME ImageInv, [SensingNext]_sensingVars PROVE ImageInv'
      OBVIOUS
    <2>1. CASE ReadPoll \/ ReadFails
      BY <2>1, ReadKeepsImageInv
    <2>2. CASE ByteHandler
      BY <2>2, ParserKeepsImageInv
    <2>3. CASE UNCHANGED sensingVars
      BY <2>3
         DEF sensingVars, ImageInv, SensingTypeOK, TransferKept, TrackKept,
             FirstBytesKept, FirstBytesOrdered, FirstBytesAhead, ImagesKept,
             CreditKept, Credit, WholeImages, OnTrack, Resting, StartOfFrame,
             Unread, Remaining, Consumed, FrameLen, Bytes, Byte
    <2> QED BY <2>1, <2>2, <2>3 DEF SensingNext
  <1> QED BY <1>1, ImageStart, PTL DEF SensingSpec

\* Every variable of the receive pipeline has its type, and recvBuf (storeData)
\* never holds more than its size.
THEOREM SensingTypes == SensingSpec => []SensingTypeOK
  <1>1. ImageInv => SensingTypeOK
    BY DEF ImageInv
  <1> QED BY <1>1, ImageInvHolds, PTL

\* A parser on track has delivered all that is complete.
LEMMA TrackGivesOrder == ImageInv => ImagesInOrder
  <1> SUFFICES ASSUME ImageInv, losses = 0, sentFrames > 0
               PROVE  /\ \A i \in 1 .. Len(received) : received[i] = i
                      /\ Len(received) >= Complete
    BY DEF ImagesInOrder
  <1>1. SensingTypeOK /\ TrackKept
    BY DEF ImageInv
  <1>0. Numbers
    BY <1>1, Sizes
  <1>2. /\ \A i \in 1 .. Len(received) : received[i] = i
        /\ \/ OnTrack /\ Len(received) = sentFrames - 1
           \/ Resting /\ Len(received) = sentFrames
    BY <1>1 DEF TrackKept
  <1>3. CASE Len(received) = sentFrames
    BY <1>0, <1>2, <1>3 DEF Complete, Numbers
  <1>4. CASE OnTrack /\ Len(received) = sentFrames - 1
    <2>1. ~(toSend = 0 /\ BufferConsumed)
      BY <1>0, <1>4 DEF OnTrack, BufferConsumed, Numbers
    <2> QED BY <1>0, <1>2, <1>4, <2>1 DEF Complete, Numbers
  <1> QED BY <1>2, <1>3, <1>4

\* As long as no read fails, each image that has come in completely has been
\* given to the application, whole, once and in order (streamHandler).
THEOREM ImagesInOrderTheorem == SensingSpec => []ImagesInOrder
  <1> QED BY TrackGivesOrder, ImageInvHolds, PTL

\* Each failed read costs two images at most, and no image comes twice or out
\* of order (streamHandler after a failed readall).
THEOREM ResynchronisesTheorem == SensingSpec => []Resynchronises
  <1>1. ImageInv => Resynchronises
    <2> SUFFICES ASSUME ImageInv PROVE Resynchronises
      OBVIOUS
    <2>1. SensingTypeOK /\ TransferKept /\ TrackKept
      BY DEF ImageInv
    <2>0. Numbers
      BY <2>1, Sizes
    <2>2. Cardinality(WholeImages) \in Nat
      BY <2>1, ImagesAreFinite
    <2>3. CASE payload < BufferSize
      <3>1. CreditKept /\ ImagesKept
        BY <2>3 DEF ImageInv
      <3>2. toSend = 0 /\ BufferConsumed => Remaining = 0
        BY <2>0 DEF BufferConsumed, Numbers
      <3>3. /\ Credit >= sentFrames - 1
            /\ Remaining = 0 => Credit >= sentFrames
        BY <2>0, <2>2, <3>1 DEF CreditKept, Credit, OnTrack, Numbers
      <3>4. Cardinality(WholeImages) >= Complete - 2 * losses
        BY <2>0, <2>2, <3>2, <3>3 DEF Credit, Complete, Numbers
      <3> QED BY <3>1, <3>4 DEF Resynchronises, ImagesKept
    <2>4. CASE ~(payload < BufferSize)
      <3>1. losses = 0
        BY <2>0, <2>1, <2>4 DEF TransferKept, Numbers
      <3>2. \A i \in 1 .. Len(received) : received[i] = i
        BY <2>1, <3>1 DEF TrackKept
      <3>3. ASSUME sentFrames > 0
            PROVE  Cardinality(WholeImages) >= Complete - 2 * losses
        <4>1. Len(received) >= Complete /\ Complete \in Int
          <5>1. ImagesInOrder
            BY TrackGivesOrder
          <5> QED BY <2>0, <3>1, <3>3, <5>1 DEF ImagesInOrder, Complete, Numbers
        <4>2. WholeImages = 1 .. Len(received)
          BY <2>0, <3>2 DEF WholeImages, Numbers
        <4>3. Cardinality(1 .. Len(received)) = Len(received)
          <5>1. Len(received) \in Nat /\ 1 \in Int
            BY <2>0 DEF Numbers
          <5>2. Cardinality(1 .. Len(received))
                  = IF 1 > Len(received) THEN 0 ELSE Len(received) - 1 + 1
            BY <5>1, FS_Interval
          <5> QED BY <5>1, <5>2
        <4> QED BY <2>0, <3>1, <4>1, <4>2, <4>3 DEF Numbers
      <3>4. \A i, j \in 1 .. Len(received) : i < j => received[i] < received[j]
        BY <3>2
      <3> QED BY <3>3, <3>4 DEF Resynchronises
    <2> QED BY <2>3, <2>4
  <1> QED BY <1>1, ImageInvHolds, PTL

-----------------------------------------------------------------------------
(* Programs: each component behaves as it does alone.                      *)

\* A step of a program is a step of one component, and the others stutter.
LEMMA ProgramSteps ==
  [ProgramNext]_programVars =>
    /\ [WaypointNext]_waypointVars /\ [MissionNext]_missionVars
    /\ [SensingNext]_sensingVars /\ [CallbackNext]_callbackVars
    /\ [LiveNext]_liveVars /\ [MopNext]_mopVars
    /\ program' = program
  <1> SUFFICES ASSUME [ProgramNext]_programVars
               PROVE  /\ [WaypointNext]_waypointVars /\ [MissionNext]_missionVars
                      /\ [SensingNext]_sensingVars /\ [CallbackNext]_callbackVars
                      /\ [LiveNext]_liveVars /\ [MopNext]_mopVars
                      /\ program' = program
    OBVIOUS
  <1>1. CASE ProgramNext
    BY <1>1 DEF ProgramNext
  <1>2. CASE UNCHANGED programVars
    BY <1>2 DEF programVars
  <1> QED BY <1>1, <1>2

\* A program is an implementation of each component's specification, so that
\* the theorems about the components hold in it.
THEOREM ProgramRunsComponents ==
  ProgramSpec =>
    /\ WaypointSpec /\ MissionSpec /\ SensingSpec
    /\ CallbackSpec /\ LiveSpec /\ MopSpec
  <1>1. ProgramInit =>
          /\ WaypointInit /\ MissionInit /\ SensingInit
          /\ CallbackInit /\ LiveInit /\ MopInit
    BY DEF ProgramInit
  <1> QED
    BY <1>1, ProgramSteps, PTL
       DEF ProgramSpec, WaypointSpec, MissionSpec, SensingSpec, CallbackSpec,
           LiveSpec, MopSpec

\* The program that runs never changes.
LEMMA ProgramKept == ProgramSpec => [](program \in Programs)
  <1>1. ProgramInit => program \in Programs
    BY DEF ProgramInit
  <1>2. program \in Programs /\ [ProgramNext]_programVars
          => (program \in Programs)'
    BY ProgramSteps
  <1> QED BY <1>1, <1>2, PTL DEF ProgramSpec

\* In a program every variable of every component has its type: the
\* missions, images, callbacks, streams and pipelines keep to it
\* together because each does alone.
THEOREM ProgramTypes == ProgramSpec => []ProgramTypeOK
  <1>1. /\ WaypointInv => WaypointTypeOK
        /\ MissionInv => MissionTypeOK
        /\ CallbackInv => CallbackTypeOK
        /\ LiveInv => LiveTypeOK
    BY DEF WaypointInv, MissionInv, CallbackInv, LiveInv
  <1>2. (/\ program \in Programs /\ WaypointTypeOK /\ MissionTypeOK
         /\ SensingTypeOK /\ CallbackTypeOK /\ LiveTypeOK /\ MopTypeOK)
        => ProgramTypeOK
    BY DEF ProgramTypeOK
  <1> QED
    BY <1>1, <1>2, ProgramKept, ProgramRunsComponents, WaypointInvHolds,
       MissionInvHolds, SensingTypes, CallbackInvHolds, LiveInvHolds,
       MopTypesHold, PTL
=============================================================================
