--------------------------- MODULE WaypointMission ---------------------------
(***************************************************************************)
(* Waypoint missions of the first version: WaypointMission                 *)
(* (api/src/dji_waypoint.cpp), made by MissionManager                      *)
(* (api/src/dji_mission_manager.cpp).                                      *)
(*                                                                         *)
(* A mission has an array that is allocated at the first upload, with the  *)
(* number of waypoints the mission's info holds then; the receive thread   *)
(* overwrites the info of the newest mission with what the drone answers.  *)
(* The application has MissionManager make a mission for each init, with   *)
(* an info of its own, uploads no position it did not announce, asks for   *)
(* indexes with a callback of its own, and inits when no request is under  *)
(* way.  The drone and the linker are external: a request or its answer    *)
(* may be lost after all tries.                                            *)
(***************************************************************************)
EXTENDS Integers

CONSTANTS
  MaxIndexNumber,  (* waypoints of a mission                                *)
  MaxMissions,     (* bound: missions the application inits                 *)
  MaxUploads       (* bound: waypoints it uploads                           *)

ASSUME WaypointAssumption ==
  /\ MaxIndexNumber \in Nat \ {0}
  /\ MaxMissions \in Nat /\ MaxUploads \in Nat

VARIABLES
  wpMission,       (* info.indexNumber and the array index of the newest one *)
  missionsMade,    (* missions of MissionManager                            *)
  announced,       (* waypoints of the mission whose init has succeeded     *)
  uploads,         (* uploads are numbered, and so are their data           *)
  sending,         (* uploads that are not answered                         *)
  uploaded,        (* for each position the last upload that has succeeded  *)
  droneMission,    (* what the drone has: number of waypoints, and points   *)
  settingsAsked,   (* getWaypointSettings is not answered                   *)
  writtenOutside   (* an element was written that index has not             *)

waypointVars == <<wpMission, missionsMade, announced, uploads, sending,
                  uploaded, droneMission, settingsAsked, writtenOutside>>

WaypointPositions == 0 .. MaxIndexNumber - 1

\* Data 0 stands for memory nobody has set.
NoPoints == [pos \in WaypointPositions |-> 0]

\* index is NULL when it has size 0.
NewMission(n) == [indexNumber |-> n, size |-> 0, index |-> NoPoints]

WaypointInit ==
  /\ wpMission = NewMission(0) /\ missionsMade = 0 /\ announced = 0
  /\ uploads = 0 /\ sending = {} /\ uploaded = NoPoints
  /\ droneMission = [number |-> 0, points |-> NoPoints]
  /\ settingsAsked = FALSE /\ writtenOutside = FALSE

-----------------------------------------------------------------------------
\* The mission that is there is used again, and setInfo keeps its array.
InitOfMissionReused(mission, n) == [mission EXCEPT !.indexNumber = n]

\* initWayptMission, the constructor and setInfo: what becomes of wpMission.
InitOfMission(mission, n) == NewMission(n)

\* initWayptMission and init.  The request may be lost, or its answer.
InitWaypt(n) ==
  /\ missionsMade < MaxMissions /\ sending = {} /\ ~settingsAsked
  /\ missionsMade' = missionsMade + 1
  /\ wpMission' = InitOfMission(wpMission, n)
  /\ \E done \in BOOLEAN :
       /\ droneMission' = IF done THEN [number |-> n, points |-> NoPoints]
                          ELSE droneMission
       /\ announced' \in IF done THEN {0, n} ELSE {0}
  /\ uploaded' = NoPoints
  /\ UNCHANGED <<uploads, sending, settingsAsked, writtenOutside>>

\* A position that is set keeps its data.
SetIndexOnce(mission, pos, data) ==
  LET size == IF mission.size = 0 THEN mission.indexNumber ELSE mission.size
  IN [mission EXCEPT !.size = size,
        !.index = IF @[pos] = 0 /\ pos < size THEN [@ EXCEPT ![pos] = data]
                  ELSE @]

\* setIndex, with the allocation; what is written elsewhere is lost.
SetIndex(mission, pos, data) ==
  LET size == IF mission.size = 0 THEN mission.indexNumber ELSE mission.size
  IN [mission EXCEPT !.size = size,
        !.index = IF pos < size THEN [@ EXCEPT ![pos] = data] ELSE @]

\* uploadIndexData, which comes to the same with a callback and without, but
\* for a position out of range: that one is refused, or sent as it is.
UploadIndexData(pos, blocking) ==
  /\ uploads < MaxUploads /\ pos < announced
  /\ \A s \in sending : s.pos # pos
  /\ uploads' = uploads + 1
  /\ wpMission' = SetIndex(wpMission, pos, uploads')
  /\ writtenOutside' = (writtenOutside \/ pos >= wpMission'.size)
  /\ LET inRange == pos < wpMission'.indexNumber
         data    == IF inRange THEN wpMission'.index[pos] ELSE 0
     IN sending' = IF inRange \/ blocking
                   THEN sending \cup {[pos |-> pos, given |-> uploads',
                                       data |-> data]}
                   ELSE sending
  /\ UNCHANGED <<missionsMade, announced, uploaded, droneMission,
                 settingsAsked>>

\* The drone takes a waypoint, or the request is lost; the answer is lost too,
\* or the application learns of it.
UploadEnds(s) ==
  /\ sending' = sending \ {s}
  /\ \E o \in {o \in [done : BOOLEAN, known : BOOLEAN] : o.known => o.done} :
       /\ droneMission' = IF o.done
                          THEN [droneMission EXCEPT !.points[s.pos] = s.data]
                          ELSE droneMission
       /\ uploaded' = [uploaded EXCEPT ![s.pos] = IF o.known THEN s.given
                                                  ELSE 0]
  /\ UNCHANGED <<wpMission, missionsMade, announced, uploads, settingsAsked,
                 writtenOutside>>

\* getWaypointSettings with the default callback.
GetWaypointSettings ==
  /\ missionsMade > 0 /\ ~settingsAsked
  /\ settingsAsked' = TRUE
  /\ UNCHANGED <<wpMission, missionsMade, announced, uploads, sending,
                 uploaded, droneMission, writtenOutside>>

\* getWaypointSettingsCallback.  The answer of a drone that has no mission is
\* an error; its data are taken all the same, and may be anything.
GetWaypointSettingsCallback ==
  /\ settingsAsked
  /\ settingsAsked' = FALSE
  /\ \E n \in IF droneMission.number = 0 THEN 0 .. MaxIndexNumber
              ELSE {droneMission.number} :
       wpMission' = [wpMission EXCEPT !.indexNumber = n]
  /\ UNCHANGED <<missionsMade, announced, uploads, sending, uploaded,
                 droneMission, writtenOutside>>

\* No answer in time: the default callback is not called.
GetWaypointSettingsEnds ==
  /\ settingsAsked
  /\ settingsAsked' = FALSE
  /\ UNCHANGED <<wpMission, missionsMade, announced, uploads, sending,
                 uploaded, droneMission, writtenOutside>>

WaypointNext ==
  \/ \E n \in 1 .. MaxIndexNumber : InitWaypt(n)
  \/ \E pos \in WaypointPositions, blocking \in BOOLEAN :
       UploadIndexData(pos, blocking)
  \/ \E s \in sending : UploadEnds(s)
  \/ GetWaypointSettings
  \/ GetWaypointSettingsCallback
  \/ GetWaypointSettingsEnds

WaypointSpec == WaypointInit /\ [][WaypointNext]_waypointVars

-----------------------------------------------------------------------------
\* Every variable has its type.
WaypointTypeOK ==
  /\ wpMission \in [indexNumber : 0 .. MaxIndexNumber,
                    size : 0 .. MaxIndexNumber,
                    index : [WaypointPositions -> 0 .. MaxUploads]]
  /\ missionsMade \in 0 .. MaxMissions
  /\ announced \in 0 .. MaxIndexNumber /\ uploads \in 0 .. MaxUploads
  /\ sending \subseteq [pos : WaypointPositions, given : 1 .. MaxUploads,
                        data : 0 .. MaxUploads]
  /\ uploaded \in [WaypointPositions -> 0 .. MaxUploads]
  /\ droneMission \in [number : 0 .. MaxIndexNumber,
                       points : [WaypointPositions -> 0 .. MaxUploads]]
  /\ {settingsAsked, writtenOutside} \subseteq BOOLEAN

\* uploadIndexData writes inside the array, though the array has the size the
\* info had at the first upload, the receive thread overwrites the info, and
\* the check of the position comes after the write.
IndexInside == ~writtenOutside

\* What the drone has is what the application gave: for each waypoint whose
\* last upload has succeeded, the data of that upload, in a mission of the
\* size that was announced.
DroneHasUploaded ==
  /\ announced # 0 => droneMission.number = announced
  /\ \A pos \in WaypointPositions :
       uploaded[pos] # 0 => droneMission.points[pos] = uploaded[pos]
=============================================================================
