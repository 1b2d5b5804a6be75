---------------------------- MODULE PackAssembly ----------------------------
(***************************************************************************)
(* Receiving a file list: the ring buffer and the range handler side by    *)
(* side, as FileMgrImpl drives them (modules/src/filemgr/impl/             *)
(* dji_file_mgr_impl.cpp).  Packs arrive in any order, any number of       *)
(* times, or not at all.                                                   *)
(***************************************************************************)
EXTENDS RangeHandler, DownloadBufferQueue

CONSTANT MaxTotal      (* bound: packs in a list                            *)

ASSUME TotalAssumption == MaxTotal \in Nat /\ NoPack \notin Nat

VARIABLES receiving,   (* downloadState is RECVING_FILE_LIST                *)
          total,       (* packs of the list; the last one carries msg_flag  *)
          queue,       (* download_buffer_                                  *)
          handler,     (* range_handler_                                    *)
          handed       (* the packs given to parseFileList                  *)

vars == <<receiving, total, queue, handler, handed>>

Init ==
  /\ receiving = FALSE /\ total = 0
  /\ queue = InitBufferQueue(0)
  /\ handler = NoPackReceived
  /\ handed = <<>>

\* startReqFileList, once both transfers are idle.
Restart ==
  /\ ~receiving
  /\ receiving' = TRUE
  /\ total' \in 1 .. MaxTotal
  /\ queue' = InitBufferQueue(0)
  /\ handler' = NoPackReceived
  /\ handed' = <<>>

\* The end of the list is taken for the whole of it.
LastOneReceived(h, n) == n = total - 1 /\ h.last = n + 1

\* The pack carries the flag of the last one, and nothing is missing.
Complete(h, n) ==
  /\ n = total - 1
  /\ h.last = n + 1
  /\ h.ranges = <<>>

\* fileListRawDataCB.
FileListRawDataCB(n) ==
  LET q == InsertBlock(queue, n, n)
      h == AddSeqIndex(handler, n, ConfirmLimit(q))
  IN  /\ receiving
      /\ handler' = h
      /\ IF Complete(h, n)
         THEN /\ handed' = DequeuedPacks(q)
              /\ queue' = AfterDequeueAll(q)
              /\ receiving' = FALSE
         ELSE /\ queue' = q
              /\ UNCHANGED <<handed, receiving>>
      /\ UNCHANGED total

\* fileListMonitorTask gives up when no pack has come for six seconds.
TimeOut ==
  /\ receiving /\ receiving' = FALSE
  /\ UNCHANGED <<total, queue, handler, handed>>

Next == Restart \/ (\E n \in 0 .. total - 1 : FileListRawDataCB(n)) \/ TimeOut

Spec == Init /\ [][Next]_vars

-----------------------------------------------------------------------------
(* Properties.                                                             *)

\* Every variable has its type; no range is empty.
TypeOK ==
  /\ receiving \in BOOLEAN /\ total \in 0 .. MaxTotal
  /\ queue \in QueueType(Nat)
  /\ handler \in HandlerType
  /\ handed \in Seq(Nat \cup {NoPack})

\* No pack is in two of the ranges of missing packs, and all of them are below
\* the next expected one: the request for a range never asks for more than is
\* missing.
RangesApart ==
  /\ \A i, j \in 1 .. Len(handler.ranges) :
       i # j => PacksOf(handler.ranges[i]) \cap PacksOf(handler.ranges[j]) = {}
  /\ \A i \in 1 .. Len(handler.ranges) :
       handler.ranges[i].seq + handler.ranges[i].length <= handler.last

\* While a list is being received the two structures agree: the ring holds a
\* pack, in the place of its number, exactly if the range handler counts it as
\* received.
BufferHoldsReceived ==
  receiving =>
    \A n \in 0 .. MaxTotal - 1 :
      n \in ReceivedPacks(handler)
        <=> InWindow(queue, n) /\ queue.slots[SlotOf(queue, n)] = n

\* The detailed structures implement the ledger.
Ledger == INSTANCE PackLedger
            WITH got <- ReceivedPacks(handler), Room <- QueueSize

ImplementsLedger == Ledger!LedgerSpec

=============================================================================
