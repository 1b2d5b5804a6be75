-------------------------- MODULE WaypointV2Mission --------------------------
(***************************************************************************)
(* Waypoint V2 missions: class WaypointV2MissionOperator                   *)
(* (api/src/dji_waypoint_v2.cpp).                                          *)
(*                                                                         *)
(* A mission or a list of actions goes to the flight controller in frames, *)
(* one blocking request each, and comes back the same way.  How far an     *)
(* upload has come is kept in static variables of the encoders, so that it *)
(* outlives a call that is given up half-way.  The flight controller is    *)
(* external: it takes or refuses a frame, and its answer may be lost.      *)
(***************************************************************************)
EXTENDS Integers, Sequences

CONSTANTS
  MaxWaypoints,    (* the longest mission, and the longest list of actions  *)
  PerFrame,        (* the most elements that fit into one frame             *)
  MaxDownLoadNum,  (* waypoints asked for by one request (10)               *)
  IndexMod,        (* indexes are unsigned and wrap around at this (2^16)   *)
  MaxMissionCalls  (* bound: calls of the application                       *)

ASSUME MissionAssumption ==
  /\ MaxWaypoints \in Nat /\ PerFrame \in Nat \ {0}
  /\ MaxDownLoadNum \in Nat \ {0} /\ MaxMissionCalls \in Nat
  /\ IndexMod \in Nat /\ MaxWaypoints < IndexMod

VARIABLES
  missionV2,     (* the mission to upload: its length and the init it is of *)
  actions,       (* the list of actions to upload, likewise                 *)
  startIndex,    (* the static startIndex of both encoders                  *)
  onBoard,       (* what the flight controller holds at each index          *)
  missionCall,   (* the call in progress                                    *)
  requests,      (* frames or ranges it has asked for                       *)
  range,         (* downloadMission: bounds of the mission and next request *)
  downloaded,    (* downloadMission: indexes received so far                *)
  missionAnswer, (* the last call, its result, and what it came after       *)
  givenUp,       (* the last upload of the kind that sent ended in an error *)
  missionCalls   (* calls so far                                            *)

missionVars == <<missionV2, actions, startIndex, onBoard, missionCall, requests,
                 range, downloaded, missionAnswer, givenUp, missionCalls>>

Kinds   == {"mission", "actions"}
Indexes == 0 .. MaxWaypoints - 1

Minimum(a, b) == IF a < b THEN a ELSE b

\* The elements of a kind that are to be uploaded.
Elements(kind) == IF kind = "mission" THEN missionV2 ELSE actions

\* The flight controller holds all of them.
AllOnBoard(kind) ==
  \A i \in 0 .. Elements(kind).size - 1 :
    onBoard[kind][i] = Elements(kind).id

NoRange == [first |-> 0, last |-> 0, from |-> 0, to |-> 0]

MissionInit ==
  /\ missionV2 = [size |-> 0, id |-> 0]
  /\ actions = [size |-> 0, id |-> 0]
  /\ startIndex = [kind \in Kinds |-> 0]
  /\ onBoard = [kind \in Kinds |-> [i \in Indexes |-> 0]]
  /\ missionCall = "none" /\ requests = 0
  /\ range = NoRange
  /\ downloaded = <<>>
  /\ missionAnswer = [op |-> "none", success |-> TRUE, whole |-> TRUE,
                      retried |-> FALSE]
  /\ givenUp = [kind \in Kinds |-> FALSE]
  /\ missionCalls = 0

-----------------------------------------------------------------------------
(* Calls and answers.                                                      *)

\* sendSync with its retransmissions: whether the flight controller has taken
\* the request, and whether the caller is told that it has.  A lost answer, a
\* late one and one too short look like an error to the caller.
Exchanges == {e \in [taken : BOOLEAN, told : BOOLEAN] : e.told => e.taken}

Call ==
  /\ missionCall = "none" /\ missionCalls < MaxMissionCalls
  /\ missionCalls' = missionCalls + 1
  /\ requests' = 0

\* The call returns.  "retried" is what the application knows: the last upload
\* of this kind that sent anything had ended with an error.
Answer(op, success) ==
  /\ missionCall' = "none"
  /\ missionAnswer' =
       [op |-> op, success |-> success,
        whole   |-> op \in Kinds => AllOnBoard(op)',
        retried |-> op \in Kinds /\ givenUp[op]]

-----------------------------------------------------------------------------
(* init.                                                                   *)

\* The mission is kept before the flight controller is asked, and whatever it
\* answers; a mission that is too short is refused without asking.
InitMission(n) ==
  /\ Call
  /\ \/ /\ n < 2
        /\ UNCHANGED <<missionV2, onBoard>>
        /\ Answer("init", FALSE)
     \/ /\ n >= 2
        /\ missionV2' = [size |-> n, id |-> missionCalls']
        /\ \E e \in Exchanges :
             /\ onBoard' = IF e.taken
                           THEN [onBoard EXCEPT !["mission"] =
                                   [i \in Indexes |-> 0]]
                           ELSE onBoard
             /\ Answer("init", e.told)
  /\ UNCHANGED <<actions, startIndex, range, downloaded, givenUp>>

-----------------------------------------------------------------------------
(* uploadMission and uploadAction.                                         *)

UploadMission ==
  /\ Call
  /\ missionCall' = "mission"
  /\ UNCHANGED <<missionV2, actions, startIndex, onBoard, range, downloaded,
                 missionAnswer, givenUp>>

\* An empty list is answered with success and nothing is sent.
UploadAction(n) ==
  /\ Call
  /\ actions' = [size |-> n, id |-> missionCalls']
  /\ UNCHANGED <<missionV2, startIndex, onBoard, range, downloaded, givenUp>>
  /\ IF n = 0
     THEN Answer("actions", TRUE)
     ELSE missionCall' = "actions" /\ UNCHANGED missionAnswer

\* The last frame has been built, and the index is left as it is.
EncodeKeepsIndex(kind, past) ==
  LET n == Elements(kind).size
  IN  [next |-> past, finished |-> past >= n]

\* Only a frame that ends exactly with the last element is the last one.
EncodeExactEnd(kind, past) ==
  LET n == Elements(kind).size
  IN  [next |-> IF past = n THEN 0 ELSE past, finished |-> past = n]

\* The end of missionEncode and ActionsEncode, "past" being the index after
\* the last element of the frame: where the next frame starts, and whether
\* this was the last one.  A frame that starts behind the end, because an
\* upload of something longer was given up, is a last frame without elements.
Encode(kind, past) ==
  LET n    == Elements(kind).size
      last == n = 0 \/ past >= n
  IN  [next |-> IF last /\ n > 0 THEN 0 ELSE past, finished |-> last]

\* One pass of the loop: encode a frame, send it, look at the answer.  How many
\* elements fit depends on their options.  The index has moved on before the
\* frame is sent, and stays there if that fails.
UploadFrame(kind) ==
  /\ missionCall = kind
  /\ requests' = requests + 1
  /\ UNCHANGED <<missionV2, actions, range, downloaded, missionCalls>>
  /\ LET first == startIndex[kind]
         n     == Elements(kind).size
     IN \E past \in IF first < n
                    THEN first + 1 .. Minimum(first + PerFrame, n)
                    ELSE {first} :
          \E e \in Exchanges :
            /\ startIndex' = [startIndex EXCEPT ![kind] =
                                Encode(kind, past).next % IndexMod]
            /\ onBoard' = IF e.taken
                          THEN [onBoard EXCEPT ![kind] =
                                  [i \in Indexes |->
                                     IF i \in first .. past - 1
                                     THEN Elements(kind).id
                                     ELSE onBoard[kind][i]]]
                          ELSE onBoard
            /\ IF e.told /\ ~Encode(kind, past).finished
               THEN UNCHANGED <<missionCall, missionAnswer, givenUp>>
               ELSE /\ Answer(kind, e.told)
                    /\ givenUp' = [givenUp EXCEPT ![kind] = ~e.told]

-----------------------------------------------------------------------------
(* downloadMission.                                                        *)

Stored == {i \in Indexes : onBoard["mission"][i] # 0}

\* The next request: at most MaxDownLoadNum waypoints, and none after the last.
RequestEnd(from, last) ==
  IF last - from + 1 >= MaxDownLoadNum THEN from + MaxDownLoadNum - 1 ELSE last

\* getWaypointIndexInList: the flight controller names the first and the last
\* waypoint of a mission it has.
GetWaypointIndexInList ==
  /\ Call
  /\ \/ /\ Stored # {}
        /\ \E first, last \in Stored :
             /\ Stored \subseteq first .. last
             /\ range' = [first |-> first, last |-> last, from |-> first,
                          to |-> RequestEnd(first, last)]
        /\ downloaded' = <<>>
        /\ missionCall' = "download"
        /\ UNCHANGED missionAnswer
     \/ /\ Answer("download", FALSE)
        /\ UNCHANGED <<range, downloaded>>
  /\ UNCHANGED <<missionV2, actions, startIndex, onBoard, givenUp>>

\* The waypoint after the range is asked for again.
NextRangeOverlaps(r) ==
  [r EXCEPT !.from = r.to, !.to = RequestEnd(r.to, r.last)]

NextRange(r) ==
  LET from == (r.to + 1) % IndexMod
  IN  [r EXCEPT !.from = from, !.to = RequestEnd(from, r.last)]

\* One pass of the loop, and missionDecode.  A flight controller that misses
\* one of the waypoints refuses.
DownloadRange ==
  /\ missionCall = "download"
  /\ requests' = requests + 1
  /\ \/ /\ range.from .. range.to \subseteq Stored
        /\ downloaded' = downloaded \o [i \in 1 .. range.to - range.from + 1 |->
                                          range.from + i - 1]
        /\ IF (range.to + 1) % IndexMod > range.last
           THEN missionCall' = "settings" /\ UNCHANGED range
           ELSE range' = NextRange(range) /\ UNCHANGED missionCall
        /\ UNCHANGED missionAnswer
     \/ /\ Answer("download", FALSE)
        /\ UNCHANGED <<range, downloaded>>
  /\ UNCHANGED <<missionV2, actions, startIndex, onBoard, givenUp,
                 missionCalls>>

\* downloadInitSetting, for the reference point of the waypoints.
DownloadInitSetting ==
  /\ missionCall = "settings"
  /\ \E success \in BOOLEAN : Answer("download", success)
  /\ UNCHANGED <<missionV2, actions, startIndex, onBoard, range, downloaded,
                 givenUp, requests, missionCalls>>

-----------------------------------------------------------------------------
MissionCallStep == \/ \E kind \in Kinds : UploadFrame(kind)
                   \/ DownloadRange \/ DownloadInitSetting

\* Any application: any calls in any order, whatever was answered before.
MissionNext ==
  \/ \E n \in 0 .. MaxWaypoints : InitMission(n) \/ UploadAction(n)
  \/ UploadMission \/ GetWaypointIndexInList
  \/ MissionCallStep

MissionSpec == MissionInit /\ [][MissionNext]_missionVars

-----------------------------------------------------------------------------
(* Properties.                                                             *)

\* Every variable has its type.
MissionTypeOK ==
  /\ missionV2 \in [size : 0 .. MaxWaypoints, id : 0 .. MaxMissionCalls]
  /\ actions \in [size : 0 .. MaxWaypoints, id : 0 .. MaxMissionCalls]
  /\ startIndex \in [Kinds -> 0 .. MaxWaypoints]
  /\ onBoard \in [Kinds -> [Indexes -> 0 .. MaxMissionCalls]]
  /\ missionCall \in Kinds \cup {"none", "download", "settings"}
  /\ requests \in 0 .. MaxWaypoints + 1
  /\ range \in [first : Indexes, last : Indexes, from : Indexes, to : Indexes]
               \cup {NoRange}
  /\ downloaded \in Seq(Indexes)
  /\ missionAnswer \in [op : Kinds \cup {"none", "init", "download"},
                        success : BOOLEAN, whole : BOOLEAN, retried : BOOLEAN]
  /\ givenUp \in [Kinds -> BOOLEAN]
  /\ missionCalls \in 0 .. MaxMissionCalls

\* An upload that returns success has put every element on board, in whatever
\* frames, after any calls before it, uploads of longer and shorter missions
\* included: except right after an upload that ended with an error, which
\* leaves the static index behind the frame that failed.
UploadIsWhole ==
  missionAnswer.op \in Kinds /\ missionAnswer.success /\ ~missionAnswer.retried
    => missionAnswer.whole

\* A download that returns success has each waypoint of the mission on board
\* once and in order, whatever the limit of a request.
DownloadIsWhole ==
  missionAnswer.op = "download" /\ missionAnswer.success
    /\ missionCall = "none" =>
      LET size == range.last - range.first + 1 IN
      /\ downloaded = [i \in 1 .. size |-> range.first + i - 1]
      /\ Stored = {downloaded[i] : i \in 1 .. size}

\* Every call ends, for each request is answered or times out, and a call that
\* goes on has asked for fewer than its elements need: also an upload that
\* starts behind the end of its list.
RequestsSuffice ==
  /\ missionCall \in Kinds =>
       requests = 0 \/ requests < Elements(missionCall).size
  /\ missionCall = "download" =>
       requests * MaxDownLoadNum <= range.last - range.first
  /\ missionCall = "settings" =>
       (requests - 1) * MaxDownLoadNum <= range.last - range.first
=============================================================================
