----------------------------- MODULE CallbackRing -----------------------------
(***************************************************************************)
(* The callbacks of asynchronous commands: allocUCBHandler, actionAsync    *)
(* and commonAckDecoder of FlightActions                                   *)
(* (modules/src/flight/dji_flight_actions_module.cpp), and the same code   *)
(* in PSDKModule, of which there is one object for each payload            *)
(* (modules/src/payload/dji_psdk_module.cpp); sendAsync and                *)
(* legacyAdaptingAsyncCB of api/src/dji_legacy_linker.cpp.                 *)
(*                                                                         *)
(* The user's callback is put into a ring of records, and the receive      *)
(* thread reads the record when the answer comes.  The index of the ring   *)
(* is static, so that the rings of all objects move on together.  One      *)
(* application thread makes the calls.  The linker is external: it answers *)
(* the requests in any order, or tells that time has run out.              *)
(***************************************************************************)
EXTENDS Integers

CONSTANTS
  Modules,       (* the objects that share the index                        *)
  MaxSize,       (* records of a ring (32)                                  *)
  MaxRequests    (* bound: requests of the application                      *)

ASSUME CallbackAssumption ==
  /\ MaxSize \in Nat \ {0} /\ MaxRequests \in Nat

VARIABLES
  ucbHandlerIndex,  (* the static index                                     *)
  ucbHandler,       (* the rings: the request whose callback a record has   *)
  allocated,        (* the record taken for the request being made          *)
  requestsMade,     (* requests are numbered                                *)
  pending,          (* requests given to the linker, with their records     *)
  decoding,         (* the request whose answer is being decoded, and       *)
                    (* the callback that was read for it                    *)
  called            (* requests answered, and whose callback and user data  *)
                    (* that led to                                          *)

callbackVars == <<ucbHandlerIndex, ucbHandler, allocated, requestsMade,
                  pending, decoding, called>>

NoRecord == [module |-> "none", index |-> 0]
Idle     == [request |-> 0, callback |-> 0, record |-> NoRecord]
Records  == [module : Modules, index : 0 .. MaxSize - 1]

\* Request 0 stands for a record never used.
CallbackInit ==
  /\ ucbHandlerIndex = 0
  /\ ucbHandler = [r \in Records |-> [callback |-> 0, userData |-> 0]]
  /\ allocated = NoRecord
  /\ requestsMade = 0
  /\ pending = {}
  /\ decoding = Idle
  /\ called = {}

\* Requests that may still be answered.
Unanswered == {p.request : p \in pending} \cup ({decoding.request} \ {0})

\* What the application has to see to: the commands of all objects that it
\* makes during the time any one of them takes are no more than a ring has
\* records.  That few are under way is not enough, for they are answered in
\* any order.
WithinRing(request) == \A q \in Unanswered : request - q < MaxSize

-----------------------------------------------------------------------------
\* One record is never used.
NextIndexShort(index) == IF index + 1 >= MaxSize - 1 THEN 0 ELSE index + 1

\* The index runs one too far.
NextIndexLate(index) == IF index >= MaxSize THEN 0 ELSE index + 1

NextIndex(index) == IF index + 1 >= MaxSize THEN 0 ELSE index + 1

\* allocUCBHandler, up to the callback...
AllocUCBHandler(m) ==
  /\ allocated = NoRecord
  /\ requestsMade < MaxRequests
  /\ WithinRing(requestsMade + 1)
  /\ ucbHandlerIndex' = NextIndex(ucbHandlerIndex)
  /\ allocated' = [module |-> m, index |-> ucbHandlerIndex']
  /\ requestsMade' = requestsMade + 1
  /\ ucbHandler' = [ucbHandler EXCEPT ![allocated'].callback = requestsMade']
  /\ UNCHANGED <<pending, decoding, called>>

\* ...and its user data, and sendAsync.
SendAsync ==
  /\ allocated # NoRecord
  /\ ucbHandler' = [ucbHandler EXCEPT ![allocated].userData = requestsMade]
  /\ pending' = pending \cup {[request |-> requestsMade, record |-> allocated]}
  /\ allocated' = NoRecord
  /\ UNCHANGED <<ucbHandlerIndex, requestsMade, decoding, called>>

\* legacyAdaptingAsyncCB with an answer: the decoder reads the callback...
AckDecoder(p) ==
  /\ decoding = Idle
  /\ pending' = pending \ {p}
  /\ decoding' = [request |-> p.request, record |-> p.record,
                  callback |-> ucbHandler[p.record].callback]
  /\ UNCHANGED <<ucbHandlerIndex, ucbHandler, allocated, requestsMade, called>>

\* ...and then its user data, and calls it.
UserCallBack ==
  /\ decoding # Idle
  /\ called' = called \cup
       {[request  |-> decoding.request, callback |-> decoding.callback,
         userData |-> ucbHandler[decoding.record].userData]}
  /\ decoding' = Idle
  /\ UNCHANGED <<ucbHandlerIndex, ucbHandler, allocated, requestsMade, pending>>

\* legacyAdaptingAsyncCB at the time limit: the user's callback is not called,
\* and the record keeps what it has.
TimeOut(p) ==
  /\ pending' = pending \ {p}
  /\ UNCHANGED <<ucbHandlerIndex, ucbHandler, allocated, requestsMade,
                 decoding, called>>

CallbackNext ==
  \/ \E m \in Modules : AllocUCBHandler(m)
  \/ SendAsync
  \/ \E p \in pending : AckDecoder(p) \/ TimeOut(p)
  \/ UserCallBack

CallbackSpec == CallbackInit /\ [][CallbackNext]_callbackVars

-----------------------------------------------------------------------------
\* Every variable has its type.
CallbackTypeOK ==
  /\ ucbHandlerIndex \in 0 .. MaxSize - 1
  /\ ucbHandler \in [Records -> [callback : 0 .. MaxRequests,
                                 userData : 0 .. MaxRequests]]
  /\ allocated \in Records \cup {NoRecord}
  /\ requestsMade \in 0 .. MaxRequests
  /\ pending \subseteq [request : 1 .. MaxRequests, record : Records]
  /\ decoding \in [request : 1 .. MaxRequests, record : Records,
                   callback : 0 .. MaxRequests] \cup {Idle}
  /\ called \subseteq [request : 1 .. MaxRequests, callback : 0 .. MaxRequests,
                       userData : 0 .. MaxRequests]

\* An answer leads to the callback and the user data of its own request, each
\* once: the records outlast the requests, though nothing frees or checks them
\* and the answers come in any order.
OwnCallback ==
  /\ \A c \in called : c.callback = c.request /\ c.userData = c.request
  /\ \A c \in called : c.request \notin Unanswered
=============================================================================
