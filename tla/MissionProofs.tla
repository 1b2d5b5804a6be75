----------------------------- MODULE MissionProofs -----------------------------
(***************************************************************************)
(* Theorems about missions: waypoint missions of the first version         *)
(* (WaypointMission) and waypoint V2 missions (WaypointV2Mission).         *)
(***************************************************************************)
EXTENDS WaypointMission, WaypointV2Mission, TLAPS

-----------------------------------------------------------------------------
(* Waypoint missions: the inductive invariant.                             *)

\* The info of a mission that was announced and the size of its array are what
\* was announced: the receive thread can only overwrite the info with what the
\* drone was told, and the array cannot be allocated with another size.
AnnouncedKept ==
  announced # 0 =>
    /\ droneMission.number = announced
    /\ wpMission.indexNumber = announced
    /\ wpMission.size \in {0, announced}

\* What is being sent is what the application gave.
DataKept == \A s \in sending : s.data = s.given

WaypointInv ==
  /\ WaypointTypeOK
  /\ AnnouncedKept /\ DataKept
  /\ IndexInside /\ DroneHasUploaded

-----------------------------------------------------------------------------
(* Waypoint missions: the proofs.                                          *)

LEMMA WaypointStart == WaypointInit => WaypointInv
<1> SUFFICES ASSUME WaypointInit PROVE WaypointInv
  OBVIOUS
<1>1. 0 \in 0 .. MaxIndexNumber /\ 0 \in 0 .. MaxUploads /\ 0 \in 0 .. MaxMissions
  BY WaypointAssumption
<1>2. NoPoints \in [WaypointPositions -> 0 .. MaxUploads]
  BY <1>1 DEF NoPoints
<1>3. /\ wpMission = [indexNumber |-> 0, size |-> 0, index |-> NoPoints]
      /\ droneMission = [number |-> 0, points |-> NoPoints]
      /\ missionsMade = 0 /\ announced = 0 /\ uploads = 0 /\ sending = {}
      /\ uploaded = NoPoints
  BY DEF WaypointInit, NewMission
<1>4. settingsAsked \in BOOLEAN /\ writtenOutside \in BOOLEAN /\ ~writtenOutside
  BY DEF WaypointInit
<1>5. WaypointTypeOK
  BY <1>1, <1>2, <1>3, <1>4 DEF WaypointTypeOK
<1>6. \A pos \in WaypointPositions : uploaded[pos] = 0
  BY <1>3 DEF NoPoints
<1> QED
  BY <1>3, <1>4, <1>5, <1>6 DEF WaypointInv, AnnouncedKept, DataKept,
                                IndexInside, DroneHasUploaded

LEMMA InitWayptKeepsInv ==
  ASSUME WaypointInv, NEW n \in 1 .. MaxIndexNumber, InitWaypt(n)
  PROVE  WaypointInv'
<1>1. WaypointTypeOK /\ IndexInside
  BY DEF WaypointInv
<1>2. /\ missionsMade < MaxMissions /\ sending = {}
      /\ missionsMade' = missionsMade + 1
      /\ wpMission' = [indexNumber |-> n, size |-> 0, index |-> NoPoints]
      /\ uploaded' = NoPoints
      /\ UNCHANGED <<uploads, sending, settingsAsked, writtenOutside>>
  BY DEF InitWaypt, InitOfMission, NewMission
<1>3. PICK done \in BOOLEAN :
        /\ droneMission' = IF done THEN [number |-> n, points |-> NoPoints]
                           ELSE droneMission
        /\ announced' \in IF done THEN {0, n} ELSE {0}
  BY DEF InitWaypt
<1>4. 0 \in 0 .. MaxIndexNumber /\ 0 \in 0 .. MaxUploads
      /\ n \in 0 .. MaxIndexNumber /\ missionsMade' \in 0 .. MaxMissions
  BY <1>1, <1>2, WaypointAssumption DEF WaypointTypeOK
<1>5. NoPoints \in [WaypointPositions -> 0 .. MaxUploads]
      /\ \A pos \in WaypointPositions : NoPoints[pos] = 0
  BY <1>4 DEF NoPoints
<1>6. droneMission' \in [number : 0 .. MaxIndexNumber,
                         points : [WaypointPositions -> 0 .. MaxUploads]]
  BY <1>1, <1>3, <1>4, <1>5 DEF WaypointTypeOK
<1>7. wpMission' \in [indexNumber : 0 .. MaxIndexNumber,
                      size : 0 .. MaxIndexNumber,
                      index : [WaypointPositions -> 0 .. MaxUploads]]
  BY <1>2, <1>4, <1>5
<1>8. announced' \in 0 .. MaxIndexNumber
  BY <1>3, <1>4
<1>9. WaypointTypeOK'
  BY <1>1, <1>2, <1>4, <1>5, <1>6, <1>7, <1>8 DEF WaypointTypeOK
<1>10. announced' # 0 => droneMission'.number = announced' /\ announced' = n
  BY <1>3
<1>11. AnnouncedKept'
  BY <1>2, <1>10 DEF AnnouncedKept
<1>12. DataKept' /\ IndexInside'
  BY <1>1, <1>2 DEF DataKept, IndexInside
<1>13. DroneHasUploaded'
  BY <1>2, <1>5, <1>10 DEF DroneHasUploaded
<1> QED
  BY <1>9, <1>11, <1>12, <1>13 DEF WaypointInv

\* setIndex writes the data it is given at a position of the array, and the
\* array keeps its size.
LEMMA SetIndexWrites ==
  ASSUME WaypointInv, NEW pos \in WaypointPositions, pos < announced,
         NEW data \in 0 .. MaxUploads
  PROVE  LET m == SetIndex(wpMission, pos, data)
         IN /\ m \in [indexNumber : 0 .. MaxIndexNumber,
                      size : 0 .. MaxIndexNumber,
                      index : [WaypointPositions -> 0 .. MaxUploads]]
            /\ m.indexNumber = announced /\ m.size = announced
            /\ m.index[pos] = data
<1> DEFINE size == IF wpMission.size = 0 THEN wpMission.indexNumber
                   ELSE wpMission.size
<1>1. WaypointTypeOK /\ AnnouncedKept
  BY DEF WaypointInv
<1>2. pos \in Nat /\ announced \in 0 .. MaxIndexNumber
  BY <1>1, WaypointAssumption DEF WaypointTypeOK, WaypointPositions
<1>3. announced # 0
  BY <1>2, WaypointAssumption
<1>4. wpMission.indexNumber = announced /\ size = announced
  BY <1>1, <1>3 DEF AnnouncedKept
<1>5. wpMission.index \in [WaypointPositions -> 0 .. MaxUploads]
      /\ wpMission = [indexNumber |-> wpMission.indexNumber,
                      size |-> wpMission.size, index |-> wpMission.index]
  BY <1>1 DEF WaypointTypeOK
<1>6. SetIndex(wpMission, pos, data) =
        [indexNumber |-> announced, size |-> announced,
         index |-> [wpMission.index EXCEPT ![pos] = data]]
  <2>1. SetIndex(wpMission, pos, data) =
          [wpMission EXCEPT !.size = size,
             !.index = IF pos < size THEN [@ EXCEPT ![pos] = data] ELSE @]
    BY Zenon DEF SetIndex
  <2> HIDE DEF size
  <2>2. SetIndex(wpMission, pos, data) =
          [wpMission EXCEPT !.size = announced,
             !.index = [wpMission.index EXCEPT ![pos] = data]]
    BY <1>4, <1>5, <2>1
  <2> QED
    BY <1>4, <1>5, <2>2
<1>7. /\ [wpMission.index EXCEPT ![pos] = data]
           \in [WaypointPositions -> 0 .. MaxUploads]
      /\ [wpMission.index EXCEPT ![pos] = data][pos] = data
  BY <1>5
<1> QED
  BY <1>2, <1>6, <1>7

LEMMA UploadKeepsInv ==
  ASSUME WaypointInv, NEW pos \in WaypointPositions, NEW blocking \in BOOLEAN,
         UploadIndexData(pos, blocking)
  PROVE  WaypointInv'
<1>1. WaypointTypeOK /\ AnnouncedKept /\ DataKept /\ IndexInside
      /\ DroneHasUploaded
  BY DEF WaypointInv
<1>2. /\ uploads < MaxUploads /\ pos < announced
      /\ uploads' = uploads + 1
      /\ wpMission' = SetIndex(wpMission, pos, uploads')
      /\ writtenOutside' = (writtenOutside \/ pos >= wpMission'.size)
      /\ UNCHANGED <<missionsMade, announced, uploaded, droneMission,
                     settingsAsked>>
  BY DEF UploadIndexData
<1>3. uploads' \in 1 .. MaxUploads /\ uploads' \in 0 .. MaxUploads
  BY <1>1, <1>2, WaypointAssumption DEF WaypointTypeOK
<1>4. /\ wpMission' \in [indexNumber : 0 .. MaxIndexNumber,
                         size : 0 .. MaxIndexNumber,
                         index : [WaypointPositions -> 0 .. MaxUploads]]
      /\ wpMission'.indexNumber = announced /\ wpMission'.size = announced
      /\ wpMission'.index[pos] = uploads'
  <2>1. ASSUME NEW data \in 0 .. MaxUploads
        PROVE  LET m == SetIndex(wpMission, pos, data)
               IN /\ m \in [indexNumber : 0 .. MaxIndexNumber,
                            size : 0 .. MaxIndexNumber,
                            index : [WaypointPositions -> 0 .. MaxUploads]]
                  /\ m.indexNumber = announced /\ m.size = announced
                  /\ m.index[pos] = data
    BY <1>2, SetIndexWrites
  <2> QED
    BY ONLY <1>2, <1>3, <2>1
<1>5. sending' = sending \cup {[pos |-> pos, given |-> uploads',
                                data |-> uploads']}
  BY <1>2, <1>4 DEF UploadIndexData
<1>6. writtenOutside' = FALSE
  <2>1. pos \in Nat /\ announced \in Nat
    BY <1>1, WaypointAssumption DEF WaypointTypeOK, WaypointPositions
  <2>2. ~(pos >= wpMission'.size)
    BY <1>2, <1>4, <2>1
  <2>3. ~writtenOutside
    BY <1>1 DEF IndexInside
  <2> QED
    BY ONLY <1>2, <2>2, <2>3, Zenon
<1>7. WaypointTypeOK'
  <2>1. writtenOutside' \in BOOLEAN
    BY <1>6
  <2>2. sending' \subseteq [pos : WaypointPositions, given : 1 .. MaxUploads,
                            data : 0 .. MaxUploads]
    BY <1>1, <1>3, <1>5 DEF WaypointTypeOK
  <2> QED
    BY <1>1, <1>2, <1>3, <1>4, <2>1, <2>2 DEF WaypointTypeOK
<1>8. AnnouncedKept'
  BY <1>1, <1>2, <1>4 DEF AnnouncedKept
<1>9. DataKept'
  BY <1>1, <1>5 DEF DataKept
<1>10. IndexInside' /\ DroneHasUploaded'
  BY <1>1, <1>2, <1>6 DEF IndexInside, DroneHasUploaded
<1> QED
  BY <1>7, <1>8, <1>9, <1>10 DEF WaypointInv

LEMMA UploadEndsKeepsInv ==
  ASSUME WaypointInv, NEW s \in sending, UploadEnds(s)
  PROVE  WaypointInv'
<1>1. WaypointTypeOK /\ AnnouncedKept /\ DataKept /\ IndexInside
      /\ DroneHasUploaded
  BY DEF WaypointInv
<1>2. PICK o \in [done : BOOLEAN, known : BOOLEAN] :
        /\ o.known => o.done
        /\ droneMission' = IF o.done
                           THEN [droneMission EXCEPT !.points[s.pos] = s.data]
                           ELSE droneMission
        /\ uploaded' = [uploaded EXCEPT ![s.pos] = IF o.known THEN s.given
                                                   ELSE 0]
  BY DEF UploadEnds
<1>3. /\ sending' = sending \ {s}
      /\ UNCHANGED <<wpMission, missionsMade, announced, uploads, settingsAsked,
                     writtenOutside>>
  BY DEF UploadEnds
<1>4. /\ s.pos \in WaypointPositions /\ s.given \in 0 .. MaxUploads
      /\ s.data = s.given /\ 0 \in 0 .. MaxUploads
  BY <1>1, WaypointAssumption DEF WaypointTypeOK, DataKept
<1>5. /\ uploaded' \in [WaypointPositions -> 0 .. MaxUploads]
      /\ uploaded'[s.pos] = IF o.known THEN s.given ELSE 0
      /\ \A p \in WaypointPositions : p # s.pos => uploaded'[p] = uploaded[p]
  BY <1>1, <1>2, <1>4 DEF WaypointTypeOK
<1>6. /\ droneMission' \in [number : 0 .. MaxIndexNumber,
                            points : [WaypointPositions -> 0 .. MaxUploads]]
      /\ droneMission'.number = droneMission.number
      /\ o.known => droneMission'.points[s.pos] = s.given
      /\ \A p \in WaypointPositions :
           p # s.pos => droneMission'.points[p] = droneMission.points[p]
  <2>1. droneMission.points \in [WaypointPositions -> 0 .. MaxUploads]
        /\ droneMission.number \in 0 .. MaxIndexNumber
        /\ droneMission = [number |-> droneMission.number,
                           points |-> droneMission.points]
    BY <1>1 DEF WaypointTypeOK
  <2>2. droneMission' = [number |-> droneMission.number,
          points |-> IF o.done THEN [droneMission.points EXCEPT
                                       ![s.pos] = s.data]
                     ELSE droneMission.points]
    BY <1>2, <2>1
  <2>3. (IF o.done THEN [droneMission.points EXCEPT ![s.pos] = s.data]
         ELSE droneMission.points) \in [WaypointPositions -> 0 .. MaxUploads]
    BY <1>4, <2>1
  <2> QED
    BY <1>2, <1>4, <2>1, <2>2, <2>3
<1>7. WaypointTypeOK'
  BY <1>1, <1>3, <1>5, <1>6 DEF WaypointTypeOK
<1>8. AnnouncedKept' /\ DataKept' /\ IndexInside'
  BY <1>1, <1>3, <1>6 DEF AnnouncedKept, DataKept, IndexInside
<1>9. DroneHasUploaded'
  <2>1. announced' # 0 => droneMission'.number = announced'
    BY <1>1, <1>3, <1>6 DEF DroneHasUploaded
  <2>2. \A p \in WaypointPositions :
          uploaded'[p] # 0 => droneMission'.points[p] = uploaded'[p]
    BY <1>1, <1>5, <1>6 DEF DroneHasUploaded
  <2> QED
    BY <2>1, <2>2 DEF DroneHasUploaded
<1> QED
  BY <1>7, <1>8, <1>9 DEF WaypointInv

LEMMA SettingsKeepInv ==
  ASSUME WaypointInv,
         \/ GetWaypointSettings \/ GetWaypointSettingsCallback
         \/ GetWaypointSettingsEnds
  PROVE  WaypointInv'
<1>1. WaypointTypeOK /\ AnnouncedKept /\ DataKept /\ IndexInside
      /\ DroneHasUploaded
  BY DEF WaypointInv
<1>2. /\ settingsAsked' \in BOOLEAN
      /\ UNCHANGED <<missionsMade, announced, uploads, sending, uploaded,
                     droneMission, writtenOutside>>
  BY DEF GetWaypointSettings, GetWaypointSettingsCallback,
         GetWaypointSettingsEnds
<1>3. /\ wpMission' \in [indexNumber : 0 .. MaxIndexNumber,
                         size : 0 .. MaxIndexNumber,
                         index : [WaypointPositions -> 0 .. MaxUploads]]
      /\ wpMission'.size = wpMission.size
      /\ \/ wpMission'.indexNumber = wpMission.indexNumber
         \/ droneMission.number = 0
         \/ wpMission'.indexNumber = droneMission.number
  <2>1. CASE GetWaypointSettingsCallback
    <3>1. PICK n \in IF droneMission.number = 0 THEN 0 .. MaxIndexNumber
                     ELSE {droneMission.number} :
            wpMission' = [wpMission EXCEPT !.indexNumber = n]
      BY <2>1 DEF GetWaypointSettingsCallback
    <3>2. n \in 0 .. MaxIndexNumber
      BY <1>1, <3>1 DEF WaypointTypeOK
    <3>3. wpMission' \in [indexNumber : 0 .. MaxIndexNumber,
                          size : 0 .. MaxIndexNumber,
                          index : [WaypointPositions -> 0 .. MaxUploads]]
      BY <1>1, <3>1, <3>2 DEF WaypointTypeOK
    <3>4. wpMission'.size = wpMission.size /\ wpMission'.indexNumber = n
      BY <1>1, <3>1 DEF WaypointTypeOK
    <3> QED
      BY <3>1, <3>3, <3>4
  <2>2. CASE UNCHANGED wpMission
    BY <1>1, <2>2 DEF WaypointTypeOK
  <2> QED
    BY <2>1, <2>2 DEF GetWaypointSettings, GetWaypointSettingsEnds
<1>4. WaypointTypeOK'
  BY <1>1, <1>2, <1>3 DEF WaypointTypeOK
<1>5. AnnouncedKept'
  BY <1>1, <1>2, <1>3 DEF AnnouncedKept
<1>6. DataKept' /\ IndexInside' /\ DroneHasUploaded'
  BY <1>1, <1>2 DEF DataKept, IndexInside, DroneHasUploaded
<1> QED
  BY <1>4, <1>5, <1>6 DEF WaypointInv

LEMMA WaypointInvHolds == WaypointSpec => []WaypointInv
<1>1. WaypointInv /\ [WaypointNext]_waypointVars => WaypointInv'
  <2> SUFFICES ASSUME WaypointInv, [WaypointNext]_waypointVars
               PROVE  WaypointInv'
    OBVIOUS
  <2>1. ASSUME NEW n \in 1 .. MaxIndexNumber, InitWaypt(n) PROVE WaypointInv'
    BY <2>1, InitWayptKeepsInv
  <2>2. ASSUME NEW pos \in WaypointPositions, NEW blocking \in BOOLEAN,
               UploadIndexData(pos, blocking)
        PROVE  WaypointInv'
    BY <2>2, UploadKeepsInv
  <2>3. ASSUME NEW s \in sending, UploadEnds(s) PROVE WaypointInv'
    BY <2>3, UploadEndsKeepsInv
  <2>4. CASE \/ GetWaypointSettings \/ GetWaypointSettingsCallback
             \/ GetWaypointSettingsEnds
    BY <2>4, SettingsKeepInv
  <2>5. CASE UNCHANGED waypointVars
    BY <2>5 DEF waypointVars, WaypointInv, WaypointTypeOK, AnnouncedKept,
                DataKept, IndexInside, DroneHasUploaded
  <2> QED
    BY <2>1, <2>2, <2>3, <2>4, <2>5 DEF WaypointNext
<1> QED
  BY <1>1, WaypointStart, PTL DEF WaypointSpec

\* uploadIndexData writes inside the array, though the array is allocated with
\* what the info holds at the first upload, the receive thread overwrites the
\* info, and the position is checked after the write: for missions of every
\* length, and whatever is lost.
THEOREM IndexInsideTheorem == WaypointSpec => []IndexInside
<1>1. WaypointInv => IndexInside
  BY DEF WaypointInv
<1> QED
  BY <1>1, WaypointInvHolds, PTL

\* The drone has what the application gave: at every position whose last
\* upload has succeeded, the data of that upload, in a mission of the size
\* that was announced.
THEOREM DroneHasUploadedTheorem == WaypointSpec => []DroneHasUploaded
<1>1. WaypointInv => DroneHasUploaded
  BY DEF WaypointInv
<1> QED
  BY <1>1, WaypointInvHolds, PTL

-----------------------------------------------------------------------------
(* Waypoint V2 missions: the inductive invariant.                          *)

\* The static index of an encoder is 0 between two uploads, and everything
\* before it is on board while one is under way, unless one was given up.
IndexKept ==
  /\ \A kind \in Kinds : ~givenUp[kind] =>
       IF missionCall = kind
       THEN \A i \in 0 .. startIndex[kind] - 1 :
              onBoard[kind][i] = Elements(kind).id
       ELSE startIndex[kind] = 0
  /\ missionV2.size = 0 => startIndex["mission"] = 0
  /\ missionCall = "actions" => actions.size > 0

\* Each frame of a call that goes on has brought the index forward.
FramesKept ==
  missionCall \in Kinds =>
    \/ requests = 0
    \/ /\ requests <= startIndex[missionCall]
       /\ startIndex[missionCall] < Elements(missionCall).size

\* The indexes from first on, n of them.
Run(first, n) == [i \in 1 .. n |-> first + i - 1]

\* What was asked for so far has come and is on board.
RangesKept ==
  missionCall = "download" =>
    /\ range.first \in Stored /\ range.last \in Stored
    /\ Stored \subseteq range.first .. range.last
    /\ range.from \in range.first .. range.last
    /\ range.to = RequestEnd(range.from, range.last)
    /\ range.first .. range.from - 1 \subseteq Stored
    /\ downloaded = Run(range.first, range.from - range.first)
    /\ requests * MaxDownLoadNum = range.from - range.first

\* A download that has come to its end, with or without its last answer.
DownloadEnded ==
  \/ missionCall = "settings"
  \/ /\ missionCall = "none"
     /\ missionAnswer.op = "download" /\ missionAnswer.success

DownloadKept ==
  /\ DownloadEnded =>
       /\ range.first <= range.last
       /\ range.first \in Int /\ range.last \in Int
       /\ Stored = range.first .. range.last
       /\ downloaded = Run(range.first, range.last - range.first + 1)
  /\ missionCall = "settings" =>
       (requests - 1) * MaxDownLoadNum <= range.last - range.first

MissionInv ==
  /\ MissionTypeOK
  /\ IndexKept /\ FramesKept /\ RangesKept /\ DownloadKept /\ UploadIsWhole

-----------------------------------------------------------------------------
(* Waypoint V2 missions: lemmas.                                           *)

\* An index of a mission does not wrap around.
LEMMA NoWrap ==
  ASSUME NEW n \in 0 .. MaxWaypoints
  PROVE  n % IndexMod = n
<1>1. n \in Nat /\ IndexMod \in Nat /\ n < IndexMod
  BY MissionAssumption
<1> QED
  BY ONLY <1>1

\* The run goes on with the k indexes that come next.
LEMMA RunGoesOn ==
  ASSUME NEW first \in Nat, NEW n \in Nat, NEW k \in Nat
  PROVE  Run(first, n) \o [i \in 1 .. k |-> (first + n) + i - 1]
           = Run(first, n + k)
<1>1. Run(first, n) \in Seq(Int) /\ Len(Run(first, n)) = n
  BY DEF Run
<1> DEFINE more == [i \in 1 .. k |-> (first + n) + i - 1]
<1>2. more \in Seq(Int) /\ Len(more) = k
  OBVIOUS
<1>3. ASSUME NEW i \in 1 .. n + k
      PROVE  (Run(first, n) \o more)[i] = Run(first, n + k)[i]
  <2>1. CASE i <= n
    BY <1>1, <1>2, <2>1 DEF Run
  <2>2. CASE i > n
    <3>1. i - n \in 1 .. k
      BY <2>2
    <3>2. (Run(first, n) \o more)[i] = more[i - n]
      BY <1>1, <1>2, <2>2
    <3>3. more[i - n] = first + i - 1
      BY <3>1
    <3>4. Run(first, n + k)[i] = first + i - 1
      BY DEF Run
    <3> HIDE DEF more
    <3> QED
      BY <3>2, <3>3, <3>4
  <2>3. i <= n \/ i > n
    OBVIOUS
  <2> QED
    BY ONLY <2>1, <2>2, <2>3, Zenon
<1> DEFINE both == Run(first, n) \o more
           all  == Run(first, n + k)
<1>5. both = [i \in 1 .. n + k |-> both[i]]
  BY <1>1, <1>2
<1>6. all = [i \in 1 .. n + k |-> all[i]]
  BY DEF Run
<1>7. \A i \in 1 .. n + k : both[i] = all[i]
  BY <1>3
<1> HIDE DEF both, all, more
<1>8. both = all
  BY <1>5, <1>6, <1>7
<1> QED
  BY <1>8 DEF both, all, more

\* A request does not go past the last waypoint, and the next one starts
\* behind it.
LEMMA RequestBounds ==
  ASSUME NEW from \in Nat, NEW last \in Nat, from <= last
  PROVE  /\ RequestEnd(from, last) \in from .. last
         /\ RequestEnd(from, last) # last =>
              RequestEnd(from, last) + 1 = from + MaxDownLoadNum
         /\ RequestEnd(from, last) + 1 <= from + MaxDownLoadNum
BY MissionAssumption DEF RequestEnd

LEMMA AnswerType ==
  ASSUME NEW op \in Kinds \cup {"init", "download"}, NEW success \in BOOLEAN,
         MissionTypeOK, Answer(op, success)
  PROVE  /\ missionCall' = "none"
         /\ missionAnswer' \in [op : Kinds \cup {"none", "init", "download"},
                                success : BOOLEAN, whole : BOOLEAN,
                                retried : BOOLEAN]
         /\ missionAnswer'.op = op /\ missionAnswer'.success = success
         /\ op \in Kinds =>
              /\ missionAnswer'.retried = givenUp[op]
              /\ missionAnswer'.whole = AllOnBoard(op)'
<1> DEFINE w == op \in Kinds => AllOnBoard(op)'
           r == op \in Kinds /\ givenUp[op]
<1>1. missionCall' = "none" /\
      missionAnswer' = [op |-> op, success |-> success, whole |-> w,
                        retried |-> r]
  BY DEF Answer
<1>2. w \in BOOLEAN /\ r \in BOOLEAN
  OBVIOUS
<1>3. op \in Kinds => w = AllOnBoard(op)' /\ r = givenUp[op]
  <2>1. op \in Kinds => givenUp[op] \in BOOLEAN
    BY DEF MissionTypeOK
  <2>2. AllOnBoard(op)' \in BOOLEAN
    BY DEF AllOnBoard
  <2> QED
    BY <2>1, <2>2
<1> HIDE DEF w, r
<1> QED
  BY <1>1, <1>2, <1>3

LEMMA MissionStart == MissionInit => MissionInv
<1> SUFFICES ASSUME MissionInit PROVE MissionInv
  OBVIOUS
<1>1. 0 \in 0 .. MaxWaypoints /\ 0 \in 0 .. MaxMissionCalls
      /\ 0 \in 0 .. MaxWaypoints + 1
  BY MissionAssumption
<1>2. /\ missionV2 = [size |-> 0, id |-> 0] /\ actions = [size |-> 0, id |-> 0]
      /\ startIndex = [kind \in Kinds |-> 0]
      /\ onBoard = [kind \in Kinds |-> [i \in Indexes |-> 0]]
      /\ missionCall = "none" /\ requests = 0 /\ range = NoRange
      /\ downloaded = <<>> /\ missionCalls = 0
      /\ givenUp = [kind \in Kinds |-> FALSE]
      /\ missionAnswer = [op |-> "none", success |-> TRUE, whole |-> TRUE,
                          retried |-> FALSE]
  BY DEF MissionInit
<1>3. MissionTypeOK
  <2>1. onBoard \in [Kinds -> [Indexes -> 0 .. MaxMissionCalls]]
    BY <1>1, <1>2
  <2>2. startIndex \in [Kinds -> 0 .. MaxWaypoints]
        /\ givenUp \in [Kinds -> BOOLEAN]
    BY <1>1, <1>2
  <2>3. downloaded \in Seq(Indexes)
    BY <1>2
  <2>4. missionAnswer \in [op : Kinds \cup {"none", "init", "download"},
                           success : BOOLEAN, whole : BOOLEAN,
                           retried : BOOLEAN]
    BY <1>2
  <2> QED
    BY <1>1, <1>2, <2>1, <2>2, <2>3, <2>4 DEF MissionTypeOK
<1>4. IndexKept
  BY <1>2 DEF IndexKept, Kinds
<1>5. FramesKept /\ RangesKept /\ DownloadKept /\ UploadIsWhole
  BY <1>2 DEF FramesKept, RangesKept, DownloadKept, DownloadEnded,
              UploadIsWhole, Kinds
<1> QED
  BY <1>3, <1>4, <1>5 DEF MissionInv

\* Before a call begins, nothing is under way.
LEMMA CallBegins ==
  ASSUME MissionInv, Call
  PROVE  /\ missionCall = "none"
         /\ missionCalls' \in 0 .. MaxMissionCalls
         /\ requests' = 0 /\ requests' \in 0 .. MaxWaypoints + 1
         /\ \A kind \in Kinds : ~givenUp[kind] => startIndex[kind] = 0
<1>1. MissionTypeOK /\ IndexKept
  BY DEF MissionInv
<1>2. /\ missionCall = "none" /\ missionCalls < MaxMissionCalls
      /\ missionCalls' = missionCalls + 1 /\ requests' = 0
  BY DEF Call
<1>3. missionCalls' \in 0 .. MaxMissionCalls
  BY <1>1, <1>2, MissionAssumption DEF MissionTypeOK
<1>4. 0 \in 0 .. MaxWaypoints + 1
  BY MissionAssumption
<1>5. \A kind \in Kinds : missionCall # kind
  BY <1>2 DEF Kinds
<1> QED
  BY <1>1, <1>2, <1>3, <1>4, <1>5 DEF IndexKept

\* What holds when a call that was no download has just returned.
LEMMA NoCallLeft ==
  ASSUME missionCall' = "none",
         missionAnswer'.op # "download" \/ ~missionAnswer'.success
  PROVE  FramesKept' /\ RangesKept' /\ DownloadKept'
BY DEF FramesKept, RangesKept, DownloadKept, DownloadEnded, Kinds

LEMMA InitMissionKeepsInv ==
  ASSUME MissionInv, NEW n \in 0 .. MaxWaypoints, InitMission(n)
  PROVE  MissionInv'
<1>1. MissionTypeOK /\ IndexKept
  BY DEF MissionInv
<1>2. Call /\ UNCHANGED <<actions, startIndex, range, downloaded, givenUp>>
  BY DEF InitMission
<1>3. /\ missionCall = "none" /\ missionCalls' \in 0 .. MaxMissionCalls
      /\ requests' \in 0 .. MaxWaypoints + 1
      /\ \A kind \in Kinds : ~givenUp[kind] => startIndex[kind] = 0
  BY <1>2, CallBegins
<1>4. \/ UNCHANGED <<missionV2, onBoard>> /\ Answer("init", FALSE)
      \/ /\ n >= 2 /\ missionV2' = [size |-> n, id |-> missionCalls']
         /\ \E e \in Exchanges :
              /\ onBoard' = IF e.taken
                            THEN [onBoard EXCEPT !["mission"] =
                                    [i \in Indexes |-> 0]]
                            ELSE onBoard
              /\ Answer("init", e.told)
  BY Zenon DEF InitMission
<1>5. \E success \in BOOLEAN : Answer("init", success)
  <2>1. \A e \in Exchanges : e.told \in BOOLEAN
    BY DEF Exchanges
  <2> QED
    BY <1>4, <2>1, Zenon
<1>6. /\ missionCall' = "none" /\ missionAnswer'.op = "init"
      /\ missionAnswer' \in [op : Kinds \cup {"none", "init", "download"},
                             success : BOOLEAN, whole : BOOLEAN,
                             retried : BOOLEAN]
  BY <1>1, <1>5, AnswerType
<1>7. /\ missionV2' \in [size : 0 .. MaxWaypoints, id : 0 .. MaxMissionCalls]
      /\ missionV2' = missionV2 \/ missionV2'.size >= 2
  <2>1. CASE missionV2' = missionV2
    BY <1>1, <2>1 DEF MissionTypeOK
  <2>2. CASE n >= 2 /\ missionV2' = [size |-> n, id |-> missionCalls']
    BY <1>3, <2>2
  <2> QED
    BY <1>4, <2>1, <2>2, Zenon
<1>8. onBoard' \in [Kinds -> [Indexes -> 0 .. MaxMissionCalls]]
  <2>1. 0 \in 0 .. MaxMissionCalls
    BY MissionAssumption
  <2> DEFINE cleared == [i \in Indexes |-> 0]
  <2>2. \/ onBoard' = onBoard
        \/ onBoard' = [onBoard EXCEPT !["mission"] = cleared]
    BY <1>4, Zenon
  <2>3. cleared \in [Indexes -> 0 .. MaxMissionCalls]
    BY <2>1
  <2>4. onBoard \in [Kinds -> [Indexes -> 0 .. MaxMissionCalls]]
    BY <1>1 DEF MissionTypeOK
  <2> HIDE DEF cleared
  <2> QED
    BY ONLY <2>2, <2>3, <2>4
<1>9. MissionTypeOK'
  BY <1>1, <1>2, <1>3, <1>6, <1>7, <1>8 DEF MissionTypeOK
<1>10. IndexKept'
  <2>1. missionV2'.size = 0 => missionV2.size = 0
    BY <1>7
  <2>2. \A kind \in Kinds : missionCall' # kind
    BY <1>6 DEF Kinds
  <2> QED
    BY <1>1, <1>2, <1>3, <1>6, <2>1, <2>2 DEF IndexKept
<1>11. FramesKept' /\ RangesKept' /\ DownloadKept'
  BY <1>6, NoCallLeft
<1>12. UploadIsWhole'
  BY <1>6 DEF UploadIsWhole, Kinds
<1> QED
  BY <1>9, <1>10, <1>11, <1>12 DEF MissionInv

LEMMA UploadMissionKeepsInv ==
  ASSUME MissionInv, UploadMission PROVE MissionInv'
<1>1. MissionTypeOK /\ IndexKept /\ UploadIsWhole
  BY DEF MissionInv
<1>2. /\ Call /\ missionCall' = "mission"
      /\ UNCHANGED <<missionV2, actions, startIndex, onBoard, range, downloaded,
                     missionAnswer, givenUp>>
  BY DEF UploadMission
<1>3. /\ missionCall = "none" /\ missionCalls' \in 0 .. MaxMissionCalls
      /\ requests' = 0 /\ requests' \in 0 .. MaxWaypoints + 1
      /\ \A kind \in Kinds : ~givenUp[kind] => startIndex[kind] = 0
  BY <1>2, CallBegins
<1>4. MissionTypeOK'
  BY <1>1, <1>2, <1>3 DEF MissionTypeOK, Kinds
<1>5. IndexKept'
  <2>1. \A kind \in Kinds : ~givenUp'[kind] => startIndex'[kind] = 0
    BY <1>2, <1>3
  <2>2. 0 .. 0 - 1 = {}
    OBVIOUS
  <2>3. missionV2'.size = 0 => startIndex'["mission"] = 0
    BY <1>1, <1>2 DEF IndexKept
  <2>4. missionCall' # "actions"
    BY <1>2
  <2> QED
    BY <2>1, <2>2, <2>3, <2>4 DEF IndexKept
<1>6. FramesKept' /\ RangesKept' /\ DownloadKept'
  BY <1>2, <1>3 DEF FramesKept, RangesKept, DownloadKept, DownloadEnded
<1>7. UploadIsWhole'
  BY <1>1, <1>2 DEF UploadIsWhole
<1> QED
  BY <1>4, <1>5, <1>6, <1>7 DEF MissionInv

LEMMA UploadActionKeepsInv ==
  ASSUME MissionInv, NEW n \in 0 .. MaxWaypoints, UploadAction(n)
  PROVE  MissionInv'
<1>1. MissionTypeOK /\ IndexKept /\ UploadIsWhole
  BY DEF MissionInv
<1>2. /\ Call /\ actions' = [size |-> n, id |-> missionCalls']
      /\ UNCHANGED <<missionV2, startIndex, onBoard, range, downloaded, givenUp>>
      /\ IF n = 0 THEN Answer("actions", TRUE)
         ELSE missionCall' = "actions" /\ UNCHANGED missionAnswer
  BY DEF UploadAction
<1>3. /\ missionCall = "none" /\ missionCalls' \in 0 .. MaxMissionCalls
      /\ requests' = 0 /\ requests' \in 0 .. MaxWaypoints + 1
      /\ \A kind \in Kinds : ~givenUp[kind] => startIndex[kind] = 0
  BY <1>2, CallBegins
<1>4. /\ actions' \in [size : 0 .. MaxWaypoints, id : 0 .. MaxMissionCalls]
      /\ actions'.size = n
  BY <1>2, <1>3
<1>5. missionV2'.size = 0 => startIndex'["mission"] = 0
  BY <1>1, <1>2 DEF IndexKept
<1>6. \A kind \in Kinds : ~givenUp'[kind] => startIndex'[kind] = 0
  BY <1>2, <1>3
<1>7. CASE n = 0
  <2>1. Answer("actions", TRUE)
    BY <1>2, <1>7
  <2>2. "actions" \in Kinds
    BY DEF Kinds
  <2>3. /\ missionCall' = "none"
        /\ missionAnswer' \in [op : Kinds \cup {"none", "init", "download"},
                               success : BOOLEAN, whole : BOOLEAN,
                               retried : BOOLEAN]
        /\ missionAnswer'.op = "actions"
        /\ missionAnswer'.whole = AllOnBoard("actions")'
    BY <1>1, <2>1, <2>2, AnswerType
  <2>4. AllOnBoard("actions")'
    <3>1. Elements("actions")' = actions'
      BY DEF Elements
    <3>2. 0 .. 0 - 1 = {}
      OBVIOUS
    <3> QED
      BY <1>4, <1>7, <3>1, <3>2 DEF AllOnBoard
  <2>5. MissionTypeOK'
    BY <1>1, <1>2, <1>3, <1>4, <2>3 DEF MissionTypeOK
  <2>6. IndexKept'
    BY <1>5, <1>6, <2>3 DEF IndexKept, Kinds
  <2>7. FramesKept' /\ RangesKept' /\ DownloadKept'
    BY <2>3, NoCallLeft
  <2>8. UploadIsWhole'
    BY <2>3, <2>4 DEF UploadIsWhole
  <2> QED
    BY <2>5, <2>6, <2>7, <2>8 DEF MissionInv
<1>8. CASE n # 0
  <2>1. missionCall' = "actions" /\ UNCHANGED missionAnswer
    BY <1>2, <1>8
  <2>2. MissionTypeOK'
    BY <1>1, <1>2, <1>3, <1>4, <2>1 DEF MissionTypeOK, Kinds
  <2>3. IndexKept'
    <3>1. 0 .. 0 - 1 = {}
      OBVIOUS
    <3>2. actions'.size > 0
      BY <1>4, <1>8
    <3> QED
      BY <1>5, <1>6, <3>1, <3>2 DEF IndexKept
  <2>4. FramesKept' /\ RangesKept' /\ DownloadKept'
    BY <1>3, <2>1 DEF FramesKept, RangesKept, DownloadKept, DownloadEnded
  <2>5. UploadIsWhole'
    BY <1>1, <2>1 DEF UploadIsWhole
  <2> QED
    BY <2>2, <2>3, <2>4, <2>5 DEF MissionInv
<1> QED
  BY <1>7, <1>8

\* One frame, e and past being what the flight controller did and where the
\* frame has ended: the index after it, and what is on board.
LEMMA FrameSent ==
  ASSUME MissionInv, NEW kind \in Kinds, UploadFrame(kind)
  PROVE  \E past \in 0 .. MaxWaypoints, e \in Exchanges :
           LET n     == Elements(kind).size
               first == startIndex[kind]
               last  == n = 0 \/ past >= n
           IN /\ n \in 0 .. MaxWaypoints /\ first \in 0 .. MaxWaypoints
              /\ IF first < n THEN past \in first + 1 .. n ELSE past = first
              /\ startIndex' \in [Kinds -> 0 .. MaxWaypoints]
              /\ startIndex'[kind] = IF last /\ n > 0 THEN 0 ELSE past
              /\ \A k \in Kinds : k # kind => startIndex'[k] = startIndex[k]
              /\ onBoard' \in [Kinds -> [Indexes -> 0 .. MaxMissionCalls]]
              /\ \A k \in Kinds : k # kind => onBoard'[k] = onBoard[k]
              /\ e.taken => \A i \in Indexes :
                   onBoard'[kind][i] = IF i \in first .. past - 1
                                       THEN Elements(kind).id
                                       ELSE onBoard[kind][i]
              /\ IF e.told /\ ~last
                 THEN UNCHANGED <<missionCall, missionAnswer, givenUp>>
                 ELSE /\ Answer(kind, e.told)
                      /\ givenUp' = [givenUp EXCEPT ![kind] = ~e.told]
<1> DEFINE n     == Elements(kind).size
           first == startIndex[kind]
<1>1. MissionTypeOK
  BY DEF MissionInv
<1>2. PICK past \in IF first < n THEN first + 1 .. Minimum(first + PerFrame, n)
                    ELSE {first} :
        \E e \in Exchanges :
          /\ startIndex' = [startIndex EXCEPT ![kind] =
                              Encode(kind, past).next % IndexMod]
          /\ onBoard' = IF e.taken
                        THEN [onBoard EXCEPT ![kind] =
                                [i \in Indexes |->
                                   IF i \in first .. past - 1
                                   THEN Elements(kind).id
                                   ELSE onBoard[kind][i]]]
                        ELSE onBoard
          /\ IF e.told /\ ~Encode(kind, past).finished
             THEN UNCHANGED <<missionCall, missionAnswer, givenUp>>
             ELSE /\ Answer(kind, e.told)
                  /\ givenUp' = [givenUp EXCEPT ![kind] = ~e.told]
  BY Zenon DEF UploadFrame
<1>3. PICK e \in Exchanges :
        /\ startIndex' = [startIndex EXCEPT ![kind] =
                            Encode(kind, past).next % IndexMod]
        /\ onBoard' = IF e.taken
                      THEN [onBoard EXCEPT ![kind] =
                              [i \in Indexes |->
                                 IF i \in first .. past - 1
                                 THEN Elements(kind).id
                                 ELSE onBoard[kind][i]]]
                      ELSE onBoard
        /\ IF e.told /\ ~Encode(kind, past).finished
           THEN UNCHANGED <<missionCall, missionAnswer, givenUp>>
           ELSE /\ Answer(kind, e.told)
                /\ givenUp' = [givenUp EXCEPT ![kind] = ~e.told]
  BY <1>2, Zenon
<1> DEFINE last  == n = 0 \/ past >= n
           frame == [i \in Indexes |-> IF i \in first .. past - 1
                                       THEN Elements(kind).id
                                       ELSE onBoard[kind][i]]
<1>4. /\ Elements(kind) \in [size : 0 .. MaxWaypoints, id : 0 .. MaxMissionCalls]
      /\ n \in 0 .. MaxWaypoints /\ first \in 0 .. MaxWaypoints
  BY <1>1 DEF MissionTypeOK, Elements
<1>5. /\ IF first < n THEN past \in first + 1 .. n ELSE past = first
      /\ past \in 0 .. MaxWaypoints
  <2>1. CASE first < n
    <3>1. past \in first + 1 .. Minimum(first + PerFrame, n)
      BY <1>2, <2>1
    <3>2. Minimum(first + PerFrame, n) <= n
      BY <1>4, MissionAssumption DEF Minimum
    <3>3. Minimum(first + PerFrame, n) \in Int
      BY <1>4, MissionAssumption DEF Minimum
    <3> HIDE DEF first, n
    <3> QED
      BY <1>4, <2>1, <3>1, <3>2, <3>3, MissionAssumption
  <2>2. CASE ~(first < n)
    BY <1>2, <1>4, <2>2
  <2> QED
    BY <2>1, <2>2
<1>6. Encode(kind, past) = [next |-> IF last /\ n > 0 THEN 0 ELSE past,
                            finished |-> last]
  BY DEF Encode
<1> DEFINE next == IF last /\ n > 0 THEN 0 ELSE past
<1>7. next \in 0 .. MaxWaypoints /\ next % IndexMod = next
  <2>1. next \in 0 .. MaxWaypoints
    BY <1>5, MissionAssumption
  <2> HIDE DEF next
  <2> QED
    BY <2>1, NoWrap
<1>8. startIndex' = [startIndex EXCEPT ![kind] = next]
  <2>1. Encode(kind, past).next = next
    BY <1>6
  <2> HIDE DEF next
  <2> QED
    BY <1>3, <1>7, <2>1
<1>9. /\ startIndex' \in [Kinds -> 0 .. MaxWaypoints]
      /\ startIndex'[kind] = next
      /\ \A k \in Kinds : k # kind => startIndex'[k] = startIndex[k]
  <2>1. startIndex \in [Kinds -> 0 .. MaxWaypoints]
    BY <1>1 DEF MissionTypeOK
  <2> HIDE DEF next
  <2> QED
    BY <1>7, <1>8, <2>1
<1>10. frame \in [Indexes -> 0 .. MaxMissionCalls]
  <2>1. onBoard[kind] \in [Indexes -> 0 .. MaxMissionCalls]
    BY <1>1 DEF MissionTypeOK
  <2>2. Elements(kind).id \in 0 .. MaxMissionCalls
    BY <1>4
  <2> QED
    BY <2>1, <2>2
<1>11. /\ onBoard' \in [Kinds -> [Indexes -> 0 .. MaxMissionCalls]]
       /\ \A k \in Kinds : k # kind => onBoard'[k] = onBoard[k]
       /\ e.taken => onBoard'[kind] = frame
  <2>1. onBoard \in [Kinds -> [Indexes -> 0 .. MaxMissionCalls]]
    BY <1>1 DEF MissionTypeOK
  <2>2. onBoard' = IF e.taken THEN [onBoard EXCEPT ![kind] = frame]
                   ELSE onBoard
    BY <1>3
  <2> HIDE DEF frame
  <2> QED
    BY <1>10, <2>1, <2>2
<1>12. e.taken => \A i \in Indexes :
         onBoard'[kind][i] = IF i \in first .. past - 1
                             THEN Elements(kind).id
                             ELSE onBoard[kind][i]
  BY <1>11
<1>13. IF e.told /\ ~last
       THEN UNCHANGED <<missionCall, missionAnswer, givenUp>>
       ELSE /\ Answer(kind, e.told)
            /\ givenUp' = [givenUp EXCEPT ![kind] = ~e.told]
  <2>1. Encode(kind, past).finished = last
    BY <1>6
  <2> HIDE DEF last
  <2> QED
    BY <1>3, <2>1, Zenon
<1> QED
  BY <1>4, <1>5, <1>9, <1>11, <1>12, <1>13, Zenon

LEMMA UploadFrameKeepsInv ==
  ASSUME MissionInv, NEW kind \in Kinds, UploadFrame(kind)
  PROVE  MissionInv'
<1> DEFINE n     == Elements(kind).size
           id    == Elements(kind).id
           first == startIndex[kind]
<1>1. MissionTypeOK /\ IndexKept /\ FramesKept /\ UploadIsWhole
  BY DEF MissionInv
<1>2. /\ missionCall = kind /\ requests' = requests + 1
      /\ UNCHANGED <<missionV2, actions, range, downloaded, missionCalls>>
  BY DEF UploadFrame
<1>3. PICK past \in 0 .. MaxWaypoints, e \in Exchanges :
        /\ n \in 0 .. MaxWaypoints /\ first \in 0 .. MaxWaypoints
        /\ IF first < n THEN past \in first + 1 .. n ELSE past = first
        /\ startIndex' \in [Kinds -> 0 .. MaxWaypoints]
        /\ startIndex'[kind] = IF (n = 0 \/ past >= n) /\ n > 0 THEN 0 ELSE past
        /\ \A k \in Kinds : k # kind => startIndex'[k] = startIndex[k]
        /\ onBoard' \in [Kinds -> [Indexes -> 0 .. MaxMissionCalls]]
        /\ \A k \in Kinds : k # kind => onBoard'[k] = onBoard[k]
        /\ e.taken => \A i \in Indexes :
             onBoard'[kind][i] = IF i \in first .. past - 1 THEN id
                                 ELSE onBoard[kind][i]
        /\ IF e.told /\ ~(n = 0 \/ past >= n)
           THEN UNCHANGED <<missionCall, missionAnswer, givenUp>>
           ELSE /\ Answer(kind, e.told)
                /\ givenUp' = [givenUp EXCEPT ![kind] = ~e.told]
  BY FrameSent, Zenon
<1>4. e.told \in BOOLEAN /\ (e.told => e.taken)
  BY DEF Exchanges
<1>5. /\ \A k \in Kinds : Elements(k)' = Elements(k)
      /\ Elements(kind)'.size = n /\ Elements(kind)'.id = id
  BY <1>2 DEF Elements
<1>6. n = 0 => first = 0
  BY <1>1, <1>2 DEF IndexKept, Elements, Kinds
<1>7. (n = 0 \/ past >= n) => startIndex'[kind] = 0
  BY <1>3, <1>6
<1>8. requests' \in 0 .. MaxWaypoints + 1
  <2>1. requests \in Int /\ requests >= 0
    BY <1>1 DEF MissionTypeOK
  <2>2. requests = 0 \/ (requests <= first /\ first < n)
    BY <1>1, <1>2 DEF FramesKept
  <2> QED
    BY <1>2, <1>3, <2>1, <2>2, MissionAssumption
<1>9. missionV2'.size = 0 => startIndex'["mission"] = 0
  <2>1. CASE kind = "mission"
    BY <1>2, <1>7, <2>1 DEF Elements
  <2>2. CASE kind # "mission"
    BY <1>1, <1>2, <1>3, <2>2 DEF IndexKept, Kinds
  <2> QED
    BY <2>1, <2>2
\* Each element before the next frame is on board.
<1>10. ASSUME ~givenUp[kind], e.taken, NEW i \in 0 .. past - 1
       PROVE  onBoard'[kind][i] = id
  <2>1. i \in Indexes
    BY <1>3, MissionAssumption DEF Indexes
  <2>2. i \in first .. past - 1 \/ i \in 0 .. first - 1
    BY <1>3
  <2>3. i \in 0 .. first - 1 => onBoard[kind][i] = id
    BY <1>1, <1>2, <1>10 DEF IndexKept
  <2> QED
    BY <1>3, <1>10, <2>1, <2>2, <2>3
<1>11. \A k \in Kinds : k # kind => missionCall # k
  BY <1>2
<1> HIDE DEF n, id, first
\* The call goes on.
<1>12. ASSUME e.told /\ ~(n = 0 \/ past >= n) PROVE MissionInv'
  <2>1. UNCHANGED <<missionCall, missionAnswer, givenUp>>
    BY <1>3, <1>12
  <2>2. first < n /\ past \in first + 1 .. n /\ past < n /\ startIndex'[kind] = past
    BY <1>3, <1>12
  <2>3. MissionTypeOK'
    BY <1>1, <1>2, <1>3, <1>8, <2>1 DEF MissionTypeOK
  <2>4. IndexKept'
    <3>1. ASSUME NEW k \in Kinds, ~givenUp'[k], missionCall' = k
          PROVE  \A i \in 0 .. startIndex'[k] - 1 :
                   onBoard'[k][i] = Elements(k)'.id
      <4>1. k = kind /\ ~givenUp[kind] /\ e.taken
        BY <1>2, <1>4, <1>12, <2>1, <3>1
      <4> QED
        BY <1>5, <1>10, <2>2, <4>1
    <3>2. ASSUME NEW k \in Kinds, ~givenUp'[k], missionCall' # k
          PROVE  startIndex'[k] = 0
      BY <1>1, <1>2, <1>3, <2>1, <3>2 DEF IndexKept
    <3>3. missionCall' = "actions" => actions'.size > 0
      BY <1>1, <1>2, <2>1 DEF IndexKept
    <3> QED
      BY <1>9, <3>1, <3>2, <3>3 DEF IndexKept
  <2>5. FramesKept'
    <3>1. requests = 0 \/ requests <= first
      BY <1>1, <1>2 DEF FramesKept, first
    <3>2. requests' <= past
      BY <1>1, <1>2, <1>3, <2>2, <3>1 DEF MissionTypeOK
    <3>3. missionCall' = kind
      BY <1>2, <2>1
    <3> QED
      BY <1>5, <2>2, <3>2, <3>3 DEF FramesKept
  <2>6. RangesKept' /\ DownloadKept'
    BY <1>2, <2>1 DEF RangesKept, DownloadKept, DownloadEnded, Kinds
  <2>7. UploadIsWhole'
    BY <1>1, <2>1 DEF UploadIsWhole
  <2> QED
    BY <2>3, <2>4, <2>5, <2>6, <2>7 DEF MissionInv
\* The call returns.
<1>13. ASSUME ~(e.told /\ ~(n = 0 \/ past >= n)) PROVE MissionInv'
  <2>1. /\ Answer(kind, e.told)
        /\ givenUp' = [givenUp EXCEPT ![kind] = ~e.told]
    BY <1>3, <1>13
  <2>2. /\ missionCall' = "none"
        /\ missionAnswer' \in [op : Kinds \cup {"none", "init", "download"},
                               success : BOOLEAN, whole : BOOLEAN,
                               retried : BOOLEAN]
        /\ missionAnswer'.op = kind /\ missionAnswer'.success = e.told
        /\ missionAnswer'.retried = givenUp[kind]
        /\ missionAnswer'.whole = AllOnBoard(kind)'
    BY <1>1, <1>4, <2>1, AnswerType
  <2>3. /\ givenUp' \in [Kinds -> BOOLEAN] /\ givenUp'[kind] = ~e.told
        /\ \A k \in Kinds : k # kind => givenUp'[k] = givenUp[k]
    BY <1>1, <2>1 DEF MissionTypeOK
  <2>4. MissionTypeOK'
    BY <1>1, <1>2, <1>3, <1>8, <2>2, <2>3 DEF MissionTypeOK
  <2>5. IndexKept'
    <3>1. ASSUME NEW k \in Kinds, ~givenUp'[k] PROVE startIndex'[k] = 0
      <4>1. CASE k = kind
        BY <1>7, <1>13, <2>3, <3>1, <4>1
      <4>2. CASE k # kind
        BY <1>1, <1>3, <1>11, <2>3, <3>1, <4>2 DEF IndexKept
      <4> QED
        BY <4>1, <4>2
    <3>2. \A k \in Kinds : missionCall' # k
      BY <2>2 DEF Kinds
    <3> QED
      BY <1>9, <2>2, <3>1, <3>2 DEF IndexKept
  <2>6. FramesKept' /\ RangesKept' /\ DownloadKept'
    BY <2>2, NoCallLeft DEF Kinds
  <2>7. UploadIsWhole'
    <3> SUFFICES ASSUME e.told, ~givenUp[kind] PROVE AllOnBoard(kind)'
      BY <2>2 DEF UploadIsWhole
    <3>1. n = 0 \/ past >= n
      BY <1>13
    <3>2. \A i \in 0 .. n - 1 : onBoard'[kind][i] = id
      BY <1>3, <1>4, <1>10, <3>1
    <3> QED
      BY <1>5, <3>2 DEF AllOnBoard
  <2> QED
    BY <2>4, <2>5, <2>6, <2>7 DEF MissionInv
<1> QED
  BY <1>12, <1>13

\* A download asks the flight controller and changes nothing on board.
LEMMA DownloadChangesNothing ==
  ASSUME MissionInv,
         UNCHANGED <<missionV2, actions, startIndex, onBoard, givenUp>>,
         missionCall \notin Kinds, missionCall' \notin Kinds
  PROVE  IndexKept' /\ Stored' = Stored
<1>1. IndexKept
  BY DEF MissionInv
<1>2. Stored' = Stored
  BY DEF Stored
<1>3. "actions" \in Kinds
  BY DEF Kinds
<1> QED
  BY <1>1, <1>2, <1>3 DEF IndexKept

\* A waypoint between two waypoints of a mission is one too.
LEMMA Between ==
  ASSUME NEW first \in Indexes, NEW last \in Indexes, NEW i \in first .. last
  PROVE  i \in Indexes
BY MissionAssumption DEF Indexes

LEMMA GetIndexKeepsInv ==
  ASSUME MissionInv, GetWaypointIndexInList PROVE MissionInv'
<1>1. MissionTypeOK /\ UploadIsWhole
  BY DEF MissionInv
<1>2. Call /\ UNCHANGED <<missionV2, actions, startIndex, onBoard, givenUp>>
  BY DEF GetWaypointIndexInList
<1>3. /\ missionCall = "none" /\ missionCalls' \in 0 .. MaxMissionCalls
      /\ requests' = 0 /\ requests' \in 0 .. MaxWaypoints + 1
  BY <1>2, CallBegins
<1>4. \/ /\ Stored # {}
         /\ \E first, last \in Stored :
              /\ Stored \subseteq first .. last
              /\ range' = [first |-> first, last |-> last, from |-> first,
                           to |-> RequestEnd(first, last)]
         /\ downloaded' = <<>>
         /\ missionCall' = "download"
         /\ UNCHANGED missionAnswer
      \/ /\ Answer("download", FALSE)
         /\ UNCHANGED <<range, downloaded>>
  BY Zenon DEF GetWaypointIndexInList
<1>5. ASSUME NEW first \in Stored, NEW last \in Stored,
             Stored \subseteq first .. last,
             range' = [first |-> first, last |-> last, from |-> first,
                       to |-> RequestEnd(first, last)],
             downloaded' = <<>>, missionCall' = "download",
             UNCHANGED missionAnswer
      PROVE  MissionInv'
  <2>1. IndexKept' /\ Stored' = Stored
    BY <1>2, <1>3, <1>5, DownloadChangesNothing DEF Kinds
  <2>2. /\ first \in Indexes /\ last \in Indexes /\ first <= last
        /\ first \in Nat /\ last \in Nat
    <3>1. first \in Indexes /\ last \in Indexes
      BY DEF Stored
    <3>2. first \in first .. last
      BY <1>5
    <3> QED
      BY <3>1, <3>2, MissionAssumption DEF Indexes
  <2>3. RequestEnd(first, last) \in first .. last
    BY <2>2, RequestBounds
  <2>4. RequestEnd(first, last) \in Indexes
    BY <2>2, <2>3, Between
  <2>5. range' \in [first : Indexes, last : Indexes, from : Indexes,
                    to : Indexes]
    BY <1>5, <2>2, <2>4
  <2>6. MissionTypeOK'
    <3>1. downloaded' \in Seq(Indexes)
      BY <1>5
    <3> QED
      BY <1>1, <1>2, <1>3, <1>5, <2>5, <3>1 DEF MissionTypeOK
  <2>7. FramesKept' /\ DownloadKept' /\ UploadIsWhole'
    BY <1>1, <1>5 DEF FramesKept, DownloadKept, DownloadEnded, UploadIsWhole,
                      Kinds
  <2>8. RangesKept'
    <3>1. first .. first - 1 = {}
      BY <2>2
    <3>2. Run(first, first - first) = <<>>
      BY <2>2 DEF Run
    <3>3. requests' * MaxDownLoadNum = first - first
      BY <1>3, <2>2, MissionAssumption
    <3>4. first \in first .. last
      BY <2>2
    <3>5. /\ range'.first = first /\ range'.last = last /\ range'.from = first
          /\ range'.to = RequestEnd(first, last)
      BY <1>5
    <3>6. (RequestEnd(range.from, range.last))'
            = RequestEnd(range'.from, range'.last)
      BY DEF RequestEnd
    <3> QED
      BY <1>5, <2>1, <3>1, <3>2, <3>3, <3>4, <3>5, <3>6 DEF RangesKept
  <2> QED
    BY <2>1, <2>6, <2>7, <2>8 DEF MissionInv
<1>6. ASSUME Answer("download", FALSE), UNCHANGED <<range, downloaded>>
      PROVE  MissionInv'
  <2>1. /\ missionCall' = "none"
        /\ missionAnswer' \in [op : Kinds \cup {"none", "init", "download"},
                               success : BOOLEAN, whole : BOOLEAN,
                               retried : BOOLEAN]
        /\ missionAnswer'.op = "download" /\ missionAnswer'.success = FALSE
    BY <1>1, <1>6, AnswerType
  <2>2. IndexKept'
    BY <1>2, <1>3, <2>1, DownloadChangesNothing DEF Kinds
  <2>3. MissionTypeOK'
    BY <1>1, <1>2, <1>3, <1>6, <2>1 DEF MissionTypeOK
  <2>4. FramesKept' /\ RangesKept' /\ DownloadKept'
    BY <2>1, NoCallLeft
  <2>5. UploadIsWhole'
    BY <2>1 DEF UploadIsWhole
  <2> QED
    BY <2>2, <2>3, <2>4, <2>5 DEF MissionInv
<1> QED
  BY <1>4, <1>5, <1>6

LEMMA DownloadRangeKeepsInv ==
  ASSUME MissionInv, DownloadRange PROVE MissionInv'
<1> DEFINE first == range.first
           last  == range.last
           from  == range.from
           to    == range.to
           M     == MaxDownLoadNum
<1>1. MissionTypeOK /\ UploadIsWhole /\ RangesKept
  BY DEF MissionInv
<1>2. /\ missionCall = "download" /\ requests' = requests + 1
      /\ UNCHANGED <<missionV2, actions, startIndex, onBoard, givenUp,
                     missionCalls>>
  BY DEF DownloadRange
<1>3. \/ /\ from .. to \subseteq Stored
         /\ downloaded' = downloaded \o [i \in 1 .. to - from + 1 |-> from + i - 1]
         /\ IF (to + 1) % IndexMod > last
            THEN missionCall' = "settings" /\ UNCHANGED range
            ELSE range' = NextRange(range) /\ UNCHANGED missionCall
         /\ UNCHANGED missionAnswer
      \/ Answer("download", FALSE) /\ UNCHANGED <<range, downloaded>>
  BY Zenon DEF DownloadRange
<1>4. /\ first \in Stored /\ last \in Stored /\ Stored \subseteq first .. last
      /\ from \in first .. last /\ to = RequestEnd(from, last)
      /\ first .. from - 1 \subseteq Stored
      /\ downloaded = Run(first, from - first)
      /\ requests * M = from - first
  BY <1>1, <1>2 DEF RangesKept
<1>5. /\ first \in Indexes /\ last \in Indexes
      /\ first \in Nat /\ last \in Nat /\ from \in Nat /\ from >= first
      /\ from <= last /\ first <= last /\ from \in Indexes
  <2>1. first \in Indexes /\ last \in Indexes
    BY <1>4 DEF Stored
  <2>2. first \in Nat /\ last \in Nat /\ last <= MaxWaypoints - 1
    BY <2>1, MissionAssumption DEF Indexes
  <2> HIDE DEF first, last, from
  <2>3. from \in Nat /\ from >= first /\ from <= last
    BY <1>4, <2>2
  <2> QED
    BY <2>1, <2>2, <2>3, MissionAssumption DEF Indexes
<1>6. /\ to \in Nat /\ from <= to /\ to <= last /\ to \in Indexes
      /\ to # last => to + 1 = from + M
      /\ to + 1 <= from + M
      /\ M \in Nat /\ M >= 1
  <2>1. /\ to \in from .. last /\ (to # last => to + 1 = from + M)
        /\ to + 1 <= from + M
    BY <1>4, <1>5, RequestBounds
  <2>2. M \in Nat /\ M >= 1
    BY MissionAssumption
  <2> HIDE DEF to, from, last, M
  <2>3. to \in Nat /\ from <= to /\ to <= last
    BY <1>5, <2>1
  <2> QED
    BY <1>5, <2>1, <2>2, <2>3, MissionAssumption DEF Indexes
<1>7. (to + 1) % IndexMod = to + 1
  <2>1. to + 1 \in 0 .. MaxWaypoints
    BY <1>6, MissionAssumption DEF Indexes
  <2> HIDE DEF to
  <2> QED
    BY <2>1, NoWrap
<1>8. /\ requests \in Nat /\ requests' * M = requests * M + M
      /\ (requests' - 1) * M = requests * M
      /\ requests <= requests * M
  <2>1. requests \in Nat
    BY <1>1, MissionAssumption DEF MissionTypeOK
  <2> HIDE DEF M
  <2>2. (requests + 1) * M = requests * M + M
    BY <1>6, <2>1
  <2>3. (requests + 1) - 1 = requests
    BY <2>1
  <2>4. \E m \in Nat : M = m + 1
    <3>1. M - 1 \in Nat /\ M = (M - 1) + 1
      BY <1>6
    <3> QED
      BY <3>1
  <2>5. PICK m \in Nat : M = m + 1
    BY <2>4
  <2>6. requests * M = requests * m + requests /\ requests * m >= 0
    BY <2>1, <2>5
  <2>7. requests * m \in Nat
    BY <2>1, <2>5
  <2>8. requests <= requests * M
    BY <2>1, <2>6, <2>7
  <2> QED
    BY <1>2, <2>1, <2>2, <2>3, <2>8
<1>9. requests' \in 0 .. MaxWaypoints + 1
  <2>1. requests <= from - first
    BY <1>4, <1>8
  <2>2. from <= MaxWaypoints - 1 /\ MaxWaypoints \in Nat
    BY <1>5, MissionAssumption DEF Indexes
  <2> HIDE DEF from, first
  <2> QED
    BY <1>2, <1>5, <1>8, <2>1, <2>2
<1>10. ASSUME from .. to \subseteq Stored,
              downloaded' = downloaded \o
                [i \in 1 .. to - from + 1 |-> from + i - 1]
       PROVE  /\ first .. to \subseteq Stored
              /\ downloaded' = Run(first, (to + 1) - first)
              /\ downloaded' \in Seq(Indexes)
  <2>1. first .. to \subseteq Stored
    BY <1>4, <1>5, <1>6, <1>10
  <2> DEFINE n == from - first
             k == to - from + 1
  <2>2. n \in Nat /\ k \in Nat /\ first + n = from /\ n + k = (to + 1) - first
    BY <1>5, <1>6
  <2>3. Run(first, n) \o [i \in 1 .. k |-> (first + n) + i - 1]
          = Run(first, n + k)
    BY <1>5, <2>2, RunGoesOn
  <2>4. downloaded' = Run(first, (to + 1) - first)
    <3>1. downloaded' = Run(first, n) \o [i \in 1 .. k |-> from + i - 1]
      BY <1>4, <1>10
    <3> HIDE DEF n, k
    <3> QED
      BY <2>2, <2>3, <3>1
  <2>5. Run(first, (to + 1) - first) \in Seq(Indexes)
    <3>1. \A i \in 1 .. (to + 1) - first : first + i - 1 \in first .. last
      BY <1>5, <1>6
    <3> HIDE DEF first, last
    <3>3. \A i \in 1 .. (to + 1) - first : first + i - 1 \in Indexes
      BY <1>5, <3>1, Between
    <3>2. (to + 1) - first \in Nat
      BY <1>5, <1>6
    <3> QED
      BY <3>2, <3>3 DEF Run
  <2> QED
    BY <2>1, <2>4, <2>5
<1>11. missionCall \notin Kinds
  BY <1>2 DEF Kinds
\* The last range has come.
<1>12. ASSUME from .. to \subseteq Stored,
              downloaded' = downloaded \o
                [i \in 1 .. to - from + 1 |-> from + i - 1],
              (to + 1) % IndexMod > last,
              missionCall' = "settings", UNCHANGED <<range, missionAnswer>>
       PROVE  MissionInv'
  <2>1. to = last
    BY <1>5, <1>6, <1>7, <1>12
  <2>2. IndexKept' /\ Stored' = Stored
    BY <1>2, <1>11, <1>12, DownloadChangesNothing DEF Kinds
  <2>3. /\ first .. to \subseteq Stored
        /\ downloaded' = Run(first, (to + 1) - first)
        /\ downloaded' \in Seq(Indexes)
    BY <1>10, <1>12
  <2>4. Stored = first .. last
    BY <1>4, <2>1, <2>3
  <2>5. MissionTypeOK'
    BY <1>1, <1>2, <1>9, <1>12, <2>3 DEF MissionTypeOK
  <2>6. FramesKept' /\ RangesKept' /\ UploadIsWhole'
    BY <1>1, <1>12 DEF FramesKept, RangesKept, UploadIsWhole, Kinds
  <2>7. DownloadKept'
    <3>1. downloaded' = Run(first, (last - first) + 1)
      <4>1. (to + 1) - first = (last - first) + 1
        BY <1>5, <2>1
      <4> QED
        BY <2>3, <4>1
    <3>2. (requests' - 1) * M <= last - first
      BY <1>4, <1>5, <1>8
    <3>3. first \in Int /\ last \in Int /\ first <= last
      BY <1>5
    <3>4. range' = range /\ missionCall' = "settings"
      BY <1>12
    <3> QED
      BY ONLY <2>2, <2>4, <3>1, <3>2, <3>3, <3>4 DEF DownloadKept, first, last
  <2> QED
    BY <2>2, <2>5, <2>6, <2>7 DEF MissionInv
\* The next range is asked for.
<1>13. ASSUME from .. to \subseteq Stored,
              downloaded' = downloaded \o
                [i \in 1 .. to - from + 1 |-> from + i - 1],
              ~((to + 1) % IndexMod > last),
              range' = NextRange(range), UNCHANGED <<missionCall, missionAnswer>>
       PROVE  MissionInv'
  <2>1. /\ to + 1 <= last /\ to + 1 = from + M /\ to + 1 \in Nat
        /\ to + 1 \in first .. last
    BY <1>5, <1>6, <1>7, <1>13
  <2>2. IndexKept' /\ Stored' = Stored
    BY <1>2, <1>11, <1>13, DownloadChangesNothing
  <2>3. /\ first .. to \subseteq Stored
        /\ downloaded' = Run(first, (to + 1) - first)
        /\ downloaded' \in Seq(Indexes)
    BY <1>10, <1>13
  <2>4. range' = [first |-> first, last |-> last, from |-> to + 1,
                  to |-> RequestEnd(to + 1, last)]
    <3>1. range = [first |-> first, last |-> last, from |-> from, to |-> to]
      BY <1>1 DEF MissionTypeOK, NoRange
    <3>2. range' = [range EXCEPT !.from = to + 1, !.to = RequestEnd(to + 1, last)]
      BY <1>7, <1>13 DEF NextRange
    <3> HIDE DEF first, last, from, to
    <3> QED
      BY <3>1, <3>2
  <2>5. RequestEnd(to + 1, last) \in to + 1 .. last
    BY <1>5, <2>1, RequestBounds
  <2>6. to + 1 \in Indexes /\ RequestEnd(to + 1, last) \in Indexes
    <3>1. RequestEnd(to + 1, last) \in first .. last
      BY <1>5, <2>1, <2>5
    <3> HIDE DEF first, last, to
    <3> QED
      BY <1>5, <2>1, <3>1, Between
  <2>7. /\ range'.first = first /\ range'.last = last /\ range'.from = to + 1
        /\ range'.to = RequestEnd(to + 1, last)
        /\ range' \in [first : Indexes, last : Indexes, from : Indexes,
                       to : Indexes]
    BY <1>5, <2>4, <2>6
  <2>8. MissionTypeOK'
    BY <1>1, <1>2, <1>9, <1>13, <2>3, <2>7 DEF MissionTypeOK
  <2>9. FramesKept' /\ DownloadKept' /\ UploadIsWhole'
    BY <1>1, <1>2, <1>13 DEF FramesKept, DownloadKept, DownloadEnded,
                             UploadIsWhole, Kinds
  <2>10. RangesKept'
    <3>1. (to + 1) - 1 = to
      BY <1>6
    <3>2. requests' * M = (to + 1) - first
      BY <1>4, <1>5, <1>6, <1>8, <2>1
    <3>3. (RequestEnd(range.from, range.last))'
            = RequestEnd(range'.from, range'.last)
      BY DEF RequestEnd
    <3> HIDE DEF first, last, from, to, M
    <3>4. first .. (to + 1) - 1 \subseteq Stored
      BY <2>3, <3>1
    <3> QED
      BY <1>4, <2>1, <2>2, <2>3, <2>7, <3>2, <3>3, <3>4 DEF RangesKept, M
  <2> QED
    BY <2>2, <2>8, <2>9, <2>10 DEF MissionInv
<1>14. ASSUME Answer("download", FALSE), UNCHANGED <<range, downloaded>>
       PROVE  MissionInv'
  <2>1. /\ missionCall' = "none"
        /\ missionAnswer' \in [op : Kinds \cup {"none", "init", "download"},
                               success : BOOLEAN, whole : BOOLEAN,
                               retried : BOOLEAN]
        /\ missionAnswer'.op = "download" /\ missionAnswer'.success = FALSE
    BY <1>1, <1>14, AnswerType
  <2>2. IndexKept'
    BY <1>2, <1>11, <2>1, DownloadChangesNothing DEF Kinds
  <2>3. MissionTypeOK'
    BY <1>1, <1>2, <1>9, <1>14, <2>1 DEF MissionTypeOK
  <2>4. FramesKept' /\ RangesKept' /\ DownloadKept'
    BY <2>1, NoCallLeft
  <2>5. UploadIsWhole'
    BY <2>1 DEF UploadIsWhole
  <2> QED
    BY <2>2, <2>3, <2>4, <2>5 DEF MissionInv
<1> QED
  BY <1>3, <1>12, <1>13, <1>14

LEMMA DownloadInitSettingKeepsInv ==
  ASSUME MissionInv, DownloadInitSetting PROVE MissionInv'
<1>1. MissionTypeOK /\ DownloadKept
  BY DEF MissionInv
<1>2. /\ missionCall = "settings"
      /\ UNCHANGED <<missionV2, actions, startIndex, onBoard, range, downloaded,
                     givenUp, requests, missionCalls>>
  BY DEF DownloadInitSetting
<1>3. PICK success \in BOOLEAN : Answer("download", success)
  BY DEF DownloadInitSetting
<1>4. /\ missionCall' = "none"
      /\ missionAnswer' \in [op : Kinds \cup {"none", "init", "download"},
                             success : BOOLEAN, whole : BOOLEAN,
                             retried : BOOLEAN]
      /\ missionAnswer'.op = "download"
  BY <1>1, <1>3, AnswerType
<1>5. IndexKept' /\ Stored' = Stored
  BY <1>2, <1>4, DownloadChangesNothing DEF Kinds
<1>6. MissionTypeOK'
  BY <1>1, <1>2, <1>4 DEF MissionTypeOK
<1>7. FramesKept' /\ RangesKept' /\ UploadIsWhole'
  BY <1>4 DEF FramesKept, RangesKept, UploadIsWhole, Kinds
<1>8. DownloadKept'
  BY <1>1, <1>2, <1>4, <1>5 DEF DownloadKept, DownloadEnded
<1> QED
  BY <1>5, <1>6, <1>7, <1>8 DEF MissionInv

LEMMA MissionInvHolds == MissionSpec => []MissionInv
<1>1. MissionInv /\ [MissionNext]_missionVars => MissionInv'
  <2> SUFFICES ASSUME MissionInv, [MissionNext]_missionVars
               PROVE  MissionInv'
    OBVIOUS
  <2>1. ASSUME NEW n \in 0 .. MaxWaypoints, InitMission(n) PROVE MissionInv'
    BY <2>1, InitMissionKeepsInv
  <2>2. ASSUME NEW n \in 0 .. MaxWaypoints, UploadAction(n) PROVE MissionInv'
    BY <2>2, UploadActionKeepsInv
  <2>3. CASE UploadMission
    BY <2>3, UploadMissionKeepsInv
  <2>4. CASE GetWaypointIndexInList
    BY <2>4, GetIndexKeepsInv
  <2>5. ASSUME NEW kind \in Kinds, UploadFrame(kind) PROVE MissionInv'
    BY <2>5, UploadFrameKeepsInv
  <2>6. CASE DownloadRange
    BY <2>6, DownloadRangeKeepsInv
  <2>7. CASE DownloadInitSetting
    BY <2>7, DownloadInitSettingKeepsInv
  <2>8. CASE UNCHANGED missionVars
    <3>1. Stored' = Stored
      BY <2>8 DEF missionVars, Stored
    <3>2. \A kind : Elements(kind)' = Elements(kind)
      BY <2>8 DEF missionVars, Elements
    <3>3. (RequestEnd(range.from, range.last))'
            = RequestEnd(range.from, range.last)
      BY <2>8 DEF missionVars, RequestEnd
    <3>4. MissionTypeOK' /\ UploadIsWhole'
      BY <2>8 DEF missionVars, MissionInv, MissionTypeOK, UploadIsWhole
    <3>5. IndexKept' /\ FramesKept'
      BY <2>8, <3>2 DEF missionVars, MissionInv, IndexKept, FramesKept
    <3>6. RangesKept' /\ DownloadKept'
      BY <2>8, <3>1, <3>3 DEF missionVars, MissionInv, RangesKept, DownloadKept,
                              DownloadEnded
    <3> QED
      BY <3>4, <3>5, <3>6 DEF MissionInv
  <2> QED
    BY <2>1, <2>2, <2>3, <2>4, <2>5, <2>6, <2>7, <2>8
       DEF MissionNext, MissionCallStep
<1> QED
  BY <1>1, MissionStart, PTL DEF MissionSpec

\* An upload of a mission or of a list of actions that returns success has put
\* every element on board, after any sequence of calls before it and however
\* many elements fit in a frame, although the encoders keep their index in
\* static variables: except right after an upload that ended with an error.
THEOREM UploadIsWholeTheorem == MissionSpec => []UploadIsWhole
<1>1. MissionInv => UploadIsWhole
  BY DEF MissionInv
<1> QED
  BY <1>1, MissionInvHolds, PTL

\* A download that returns success has each waypoint on board once and in
\* order, for missions of every length and every limit of a request.
THEOREM DownloadIsWholeTheorem == MissionSpec => []DownloadIsWhole
<1>1. MissionInv => DownloadIsWhole
  <2> SUFFICES ASSUME MissionInv, DownloadEnded, missionCall = "none"
               PROVE  LET size == range.last - range.first + 1 IN
                      /\ downloaded = [i \in 1 .. size |-> range.first + i - 1]
                      /\ Stored = {downloaded[i] : i \in 1 .. size}
    BY DEF DownloadIsWhole, DownloadEnded
  <2> DEFINE first == range.first
             last  == range.last
             size  == last - first + 1
  <2>1. /\ first \in Int /\ last \in Int /\ first <= last
        /\ Stored = first .. last /\ downloaded = Run(first, size)
    BY DEF MissionInv, DownloadKept
  <2>2. downloaded = [i \in 1 .. size |-> first + i - 1]
    BY <2>1 DEF Run
  <2>3. \A i \in 1 .. size : downloaded[i] = first + i - 1
    BY <2>2
  <2>4. \A x \in first .. last : x - first + 1 \in 1 .. size
                                 /\ first + (x - first + 1) - 1 = x
    BY <2>1
  <2>5. \A i \in 1 .. size : first + i - 1 \in first .. last
    BY <2>1
  <2> HIDE DEF first, last, size
  <2>6. first .. last = {downloaded[i] : i \in 1 .. size}
    <3>1. ASSUME NEW x \in first .. last
          PROVE  x \in {downloaded[i] : i \in 1 .. size}
      <4>1. /\ x - first + 1 \in 1 .. size
            /\ downloaded[x - first + 1] = x
        BY <2>3, <2>4
      <4> QED
        BY <4>1
    <3>2. ASSUME NEW x \in {downloaded[i] : i \in 1 .. size}
          PROVE  x \in first .. last
      BY <2>3, <2>5
    <3> QED
      BY <3>1, <3>2
  <2> QED
    BY <2>1, <2>2, <2>6 DEF first, last, size
<1> QED
  BY <1>1, MissionInvHolds, PTL

\* No call asks for more frames or ranges than its elements need, so that every
\* call ends once each request has been answered or has timed out: also an
\* upload that starts behind the end of its list.
THEOREM RequestsSufficeTheorem == MissionSpec => []RequestsSuffice
<1>1. MissionInv => RequestsSuffice
  <2> SUFFICES ASSUME MissionInv PROVE RequestsSuffice
    OBVIOUS
  <2>1. MissionTypeOK /\ FramesKept /\ RangesKept /\ DownloadKept
    BY DEF MissionInv
  <2>2. missionCall \in Kinds =>
          requests = 0 \/ requests < Elements(missionCall).size
    <3> SUFFICES ASSUME missionCall \in Kinds, requests # 0
                 PROVE  requests < Elements(missionCall).size
      OBVIOUS
    <3>1. /\ requests <= startIndex[missionCall]
          /\ startIndex[missionCall] < Elements(missionCall).size
      BY <2>1 DEF FramesKept
    <3>2. /\ requests \in Int /\ startIndex[missionCall] \in Int
          /\ Elements(missionCall).size \in Int
      BY <2>1 DEF MissionTypeOK, Elements
    <3> QED
      BY ONLY <3>1, <3>2
  <2>3. missionCall = "download" =>
          requests * MaxDownLoadNum <= range.last - range.first
    <3> SUFFICES ASSUME missionCall = "download"
                 PROVE  requests * MaxDownLoadNum <= range.last - range.first
      OBVIOUS
    <3>1. /\ requests * MaxDownLoadNum = range.from - range.first
          /\ range.from \in range.first .. range.last
          /\ range.first \in Int /\ range.last \in Int
      BY <2>1 DEF RangesKept, Stored, Indexes
    <3> QED
      BY <3>1
  <2> QED
    BY <2>1, <2>2, <2>3 DEF RequestsSuffice, DownloadKept
<1> QED
  BY <1>1, MissionInvHolds, PTL
=============================================================================
