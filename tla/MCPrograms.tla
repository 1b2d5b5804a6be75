------------------------------ MODULE MCPrograms ------------------------------
(***************************************************************************)
(* Instances for TLC of the components that share no state with another:   *)
(* programs that use one of them each, as the samples do.  The program is  *)
(* chosen at the start, so that the reachable states are the union of      *)
(* those of the components and not their product.                          *)
(***************************************************************************)
EXTENDS WaypointMission, WaypointV2Mission, SensingStream, CallbackRing,
        LiveView, MopPipelines

VARIABLE program

MCPayloads == {3, 4, 5, 7, 8, 13, 14}

programVars == <<program, waypointVars, missionVars, sensingVars,
                 callbackVars, liveVars, mopVars>>

Programs == {"waypoints", "waypoints v2", "images", "commands", "live view",
             "pipelines"}

\* The start of a component no program uses does not matter.
ProgramInit ==
  /\ program \in Programs
  /\ WaypointInit /\ MissionInit /\ SensingInit /\ CallbackInit /\ LiveInit
  /\ MopInit
  /\ program # "images" => payload = CHOOSE p \in Payloads : TRUE
  /\ program # "live view" => streaming = [pos \in Positions |-> Off]

ProgramNext ==
  \/ /\ program = "waypoints" /\ WaypointNext
     /\ UNCHANGED <<program, missionVars, sensingVars, callbackVars, liveVars,
                    mopVars>>
  \/ /\ program = "waypoints v2" /\ MissionNext
     /\ UNCHANGED <<program, waypointVars, sensingVars, callbackVars, liveVars,
                    mopVars>>
  \/ /\ program = "images" /\ SensingNext
     /\ UNCHANGED <<program, waypointVars, missionVars, callbackVars, liveVars,
                    mopVars>>
  \/ /\ program = "commands" /\ CallbackNext
     /\ UNCHANGED <<program, waypointVars, missionVars, sensingVars, liveVars,
                    mopVars>>
  \/ /\ program = "live view" /\ LiveNext
     /\ UNCHANGED <<program, waypointVars, missionVars, sensingVars,
                    callbackVars, mopVars>>
  \/ /\ program = "pipelines" /\ MopNext
     /\ UNCHANGED <<program, waypointVars, missionVars, sensingVars,
                    callbackVars, liveVars>>

ProgramSpec == ProgramInit /\ [][ProgramNext]_programVars

-----------------------------------------------------------------------------
\* Every variable of every component has its type.
ProgramTypeOK ==
  /\ program \in Programs
  /\ WaypointTypeOK /\ MissionTypeOK /\ SensingTypeOK /\ CallbackTypeOK
  /\ LiveTypeOK /\ MopTypeOK
=============================================================================
