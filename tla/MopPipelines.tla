----------------------------- MODULE MopPipelines -----------------------------
(***************************************************************************)
(* MOP pipelines: MopPipelineManagerBase, MopClient and MopServer          *)
(* (modules/src/mop).                                                      *)
(*                                                                         *)
(* All managers share one table of pipelines, and a count of the objects   *)
(* that need the background task.  Two application threads, as in the      *)
(* samples: one connects and disconnects the pipelines of one slot, the    *)
(* other accepts and closes pipelines with other ids.  Managers come and   *)
(* go when no thread is in a call or holds a pipeline.  checkEntry is one  *)
(* step: the threads do not make their first calls at the same time.  The  *)
(* channels of mop.h are external: creating, binding, connecting and       *)
(* accepting them may fail.                                                *)
(***************************************************************************)
EXTENDS Integers, FiniteSets

CONSTANTS
  ClientIds,          (* pipelines the client thread connects               *)
  ServerIds,          (* pipelines the server thread accepts                *)
  ConnectRetryTimes,  (* 10                                                 *)
  AcceptRetryTimes,   (* 3                                                  *)
  MaxChannels         (* bound: channels created                            *)

ASSUME MopAssumption ==
  /\ ClientIds \cap ServerIds = {}
  /\ ConnectRetryTimes \in Nat \ {0} /\ AcceptRetryTimes \in Nat \ {0}
  /\ MaxChannels \in Nat

VARIABLES
  pipelineMap,   (* for each id its pipeline, and 0 if there is none        *)
  handleOf,      (* the channelHandle of each pipeline object, 0 if unset   *)
  deleted,       (* pipeline objects deleted                                *)
  channels,      (* the state of each channel created                       *)
  mopObjectCnt,  (* the count of checkEntry                                 *)
  mopTask,       (* background tasks that run                               *)
  clientCall,    (* connect in progress: id, pipeline and tries             *)
  serverCall,    (* accept in progress: likewise, and the bound channel     *)
  held,          (* the pipeline the application holds for an id, or 0      *)
  undisposed     (* disconnects and bindings, which destroy no channel      *)

mopVars == <<pipelineMap, handleOf, deleted, channels, mopObjectCnt, mopTask,
             clientCall, serverCall, held, undisposed>>

PipelineIds == ClientIds \cup ServerIds
Handles     == 1 .. MaxChannels

NoCall == [id |-> "none", pipeline |-> 0, tries |-> 0, bound |-> 0]

\* Pipeline objects are numbered; one is made for at most every channel.
MopInit ==
  /\ pipelineMap = [id \in PipelineIds |-> 0]
  /\ handleOf = [p \in {} |-> 0]
  /\ deleted = {}
  /\ channels = [c \in {} |-> "created"]
  /\ mopObjectCnt = 0 /\ mopTask = 0
  /\ clientCall = NoCall /\ serverCall = NoCall
  /\ held = [id \in PipelineIds |-> 0]
  /\ undisposed = 0

-----------------------------------------------------------------------------
(* The background task.                                                    *)

\* checkEntry.
CheckEntry ==
  IF mopObjectCnt = 0
  THEN mopObjectCnt' = 1 /\ mopTask' = mopTask + 1
  ELSE UNCHANGED <<mopObjectCnt, mopTask>>

\* No thread is in a call or has a pipeline.
AllQuiet ==
  /\ clientCall = NoCall /\ serverCall = NoCall
  /\ \A id \in PipelineIds : held[id] = 0

\* The count is left as it is.
CountAfterDestructorKept(n) == n

CountAfterDestructor(n) == n - 1

\* The destructors of all managers and the constructors of new ones: the first
\* one ends the task, and the pipelines in the table are not deleted.
NewManagers ==
  /\ AllQuiet
  /\ IF mopObjectCnt > 0
     THEN /\ mopObjectCnt' = CountAfterDestructor(mopObjectCnt)
          /\ mopTask' = mopTask - 1
     ELSE UNCHANGED <<mopObjectCnt, mopTask>>
  /\ pipelineMap' = [id \in PipelineIds |-> 0]
  /\ UNCHANGED <<handleOf, deleted, channels, clientCall, serverCall, held,
                 undisposed>>

-----------------------------------------------------------------------------
(* MopClient.                                                              *)

NewChannel  == Cardinality(DOMAIN channels) + 1
NewPipeline == Cardinality(DOMAIN handleOf) + 1

WithChannel(c, state) ==
  [h \in DOMAIN channels \cup {c} |-> IF h = c THEN state ELSE channels[h]]

WithHandle(p, c) ==
  [q \in DOMAIN handleOf \cup {p} |-> IF q = p THEN c ELSE handleOf[q]]

\* connect up to mop_create_channel: a pipeline that is in the table since a
\* call that failed or was disconnected is taken again.
Connect(id) ==
  /\ clientCall = NoCall /\ held[id] = 0
  /\ NewChannel \in Handles
  /\ CheckEntry
  /\ LET p == IF pipelineMap[id] = 0 THEN NewPipeline ELSE pipelineMap[id]
     IN /\ pipelineMap' = [pipelineMap EXCEPT ![id] = p]
        /\ \/ /\ channels' = WithChannel(NewChannel, "created")
              /\ handleOf' = WithHandle(p, NewChannel)
              /\ clientCall' = [NoCall EXCEPT !.id = id, !.pipeline = p]
           \/ /\ p \in DOMAIN handleOf \/ NewPipeline \in Handles
              /\ handleOf' = IF p \in DOMAIN handleOf THEN handleOf
                             ELSE WithHandle(p, 0)
              /\ UNCHANGED <<channels, clientCall>>
  /\ UNCHANGED <<deleted, serverCall, held, undisposed>>

\* The channel is left behind.
AfterLastTryKept(tries) == "created"

\* What becomes of the channel when a try fails.
AfterLastTry(tries) ==
  IF tries = ConnectRetryTimes THEN "destroyed" ELSE "created"

\* One pass of the loop around mop_connect_channel, and what follows it.
ConnectChannel ==
  /\ clientCall # NoCall
  /\ LET p     == clientCall.pipeline
         tries == clientCall.tries + 1
     IN \/ /\ channels' = WithChannel(handleOf[p], "open")
           /\ held' = [held EXCEPT ![clientCall.id] = p]
           /\ clientCall' = NoCall
        \/ /\ channels' = WithChannel(handleOf[p], AfterLastTry(tries))
           /\ clientCall' = IF tries = ConnectRetryTimes THEN NoCall
                            ELSE [clientCall EXCEPT !.tries = tries]
           /\ UNCHANGED held
  /\ UNCHANGED <<pipelineMap, handleOf, deleted, mopObjectCnt, mopTask,
                 serverCall, undisposed>>

\* disconnect: the channel the table leads to is closed and not destroyed, and
\* the pipeline stays.  An id that is not there is refused.
Disconnect(id) ==
  /\ clientCall = NoCall /\ held[id] # 0
  /\ CheckEntry
  /\ IF pipelineMap[id] = 0
     THEN UNCHANGED <<channels, held, undisposed>>
     ELSE /\ channels' = WithChannel(handleOf[pipelineMap[id]], "closed")
          /\ held' = [held EXCEPT ![id] = 0]
          /\ undisposed' = undisposed + 1
  /\ UNCHANGED <<pipelineMap, handleOf, deleted, clientCall, serverCall>>

-----------------------------------------------------------------------------
(* MopServer.                                                              *)

\* accept up to mop_bind_channel.  The channel for binding is never closed.
Accept(id) ==
  /\ serverCall = NoCall
  /\ NewChannel \in Handles
  /\ CheckEntry
  /\ \/ /\ pipelineMap[id] = 0
        /\ channels' = WithChannel(NewChannel, "created")
        /\ undisposed' = undisposed + 1
        /\ \/ /\ handleOf' = WithHandle(NewPipeline, 0)
              /\ serverCall' = [id |-> id, pipeline |-> NewPipeline,
                                tries |-> 0, bound |-> NewChannel]
           \/ UNCHANGED <<handleOf, serverCall>>
     \/ UNCHANGED <<channels, undisposed, handleOf, serverCall>>
  /\ UNCHANGED <<pipelineMap, deleted, clientCall, held>>

\* The loop around mop_accept_channel: the pipeline comes into the table at the
\* end, and is lost when all tries have failed.
AcceptChannel ==
  /\ serverCall # NoCall
  /\ LET id    == serverCall.id
         p     == serverCall.pipeline
         tries == serverCall.tries + 1
     IN \/ /\ NewChannel \in Handles
           /\ channels' = WithChannel(NewChannel, "open")
           /\ handleOf' = WithHandle(p, NewChannel)
           /\ pipelineMap' = [pipelineMap EXCEPT ![id] = p]
           /\ held' = [held EXCEPT ![id] = p]
           /\ serverCall' = NoCall
        \/ /\ serverCall' = IF tries = AcceptRetryTimes THEN NoCall
                            ELSE [serverCall EXCEPT !.tries = tries]
           /\ UNCHANGED <<channels, handleOf, pipelineMap, held>>
  /\ UNCHANGED <<deleted, mopObjectCnt, mopTask, clientCall, undisposed>>

\* close.
Close(id) ==
  /\ serverCall = NoCall /\ held[id] # 0
  /\ LET p == pipelineMap[id]
     IN IF p = 0
        THEN UNCHANGED <<channels, deleted, pipelineMap, held, mopObjectCnt,
                         mopTask>>
        ELSE /\ CheckEntry
             /\ channels' = WithChannel(handleOf[p], "destroyed")
             /\ deleted' = deleted \cup {p}
             /\ pipelineMap' = [pipelineMap EXCEPT ![id] = 0]
             /\ held' = [held EXCEPT ![id] = 0]
  /\ UNCHANGED <<handleOf, clientCall, serverCall, undisposed>>

-----------------------------------------------------------------------------
MopNext ==
  \/ NewManagers
  \/ \E id \in ClientIds : Connect(id) \/ Disconnect(id)
  \/ ConnectChannel
  \/ \E id \in ServerIds : Accept(id) \/ Close(id)
  \/ AcceptChannel

MopSpec == MopInit /\ [][MopNext]_mopVars

-----------------------------------------------------------------------------
\* Every variable has its type.
MopTypeOK ==
  /\ DOMAIN handleOf = 1 .. Cardinality(DOMAIN handleOf)
  /\ DOMAIN channels = 1 .. Cardinality(DOMAIN channels)
  /\ pipelineMap \in [PipelineIds -> DOMAIN handleOf \cup {0}]
  /\ \A p \in DOMAIN handleOf : handleOf[p] \in DOMAIN channels \cup {0}
  /\ deleted \subseteq DOMAIN handleOf
  /\ \A c \in DOMAIN channels :
       channels[c] \in {"created", "open", "closed", "destroyed"}
  /\ mopObjectCnt \in {0, 1} /\ mopTask \in Nat
  /\ clientCall = NoCall \/ clientCall \in
       [id : ClientIds, pipeline : DOMAIN handleOf,
        tries : 0 .. ConnectRetryTimes - 1, bound : {0}]
  /\ serverCall = NoCall \/ serverCall \in
       [id : ServerIds, pipeline : DOMAIN handleOf,
        tries : 0 .. AcceptRetryTimes - 1, bound : DOMAIN channels]
  /\ held \in [PipelineIds -> DOMAIN handleOf \cup {0}]
  /\ undisposed \in 0 .. MaxChannels

\* A pipeline that was connected or accepted can be used until it is given
\* back, whatever the other thread does and however calls have failed: it is
\* the one in the table, it is not deleted, its channel is open and no other
\* pipeline's, and exactly one background task runs.
PipelineUsable ==
  \A id \in PipelineIds : held[id] # 0 =>
    /\ pipelineMap[id] = held[id] /\ held[id] \notin deleted
    /\ handleOf[held[id]] # 0 /\ channels[handleOf[held[id]]] = "open"
    /\ \A other \in PipelineIds \ {id} :
         held[other] # 0 => handleOf[held[other]] # handleOf[held[id]]
    /\ mopTask = 1

\* Channels that were created and not destroyed are in use, but for one for
\* each disconnect and each binding: no path that fails leaves another.
ChannelsAccounted ==
  Cardinality({c \in DOMAIN channels : channels[c] # "destroyed"}) =
    Cardinality({id \in PipelineIds : held[id] # 0})
      + (IF clientCall = NoCall THEN 0 ELSE 1) + undisposed
=============================================================================
