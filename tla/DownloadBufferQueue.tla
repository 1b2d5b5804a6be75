------------------------- MODULE DownloadBufferQueue ------------------------
(***************************************************************************)
(* DownloadBufferQueue (modules/src/filemgr/impl/downloadbufferqueue.cpp): *)
(* the ring buffer in which the packs of a file list are put in order.     *)
(***************************************************************************)
EXTENDS Naturals, Sequences

CONSTANTS QueueSize,  (* m_size, 5000 for a file list                       *)
          NoPack      (* a slot whose data pointer is NULL                  *)

ASSUME QueueAssumption == QueueSize \in Nat \ {0}

Slots == 0 .. QueueSize - 1

\* m_queue_ptr, m_expect_index and m_head; m_buf_max_index is never used.
QueueType(pack) ==
  [slots : [Slots -> pack \cup {NoPack}], expect : Nat, head : Slots]

InitBufferQueue(start) ==
  [slots |-> [s \in Slots |-> NoPack], expect |-> start,
   head |-> start % QueueSize]

\* Where the pack with sequence number n is kept while it is in the window.
InWindow(q, n) == q.expect <= n /\ n < q.expect + QueueSize

SlotOf(q, n) == (q.head + (n - q.expect)) % QueueSize

\* InsertBlock with the flag that lets a pack replace an earlier copy.
InsertBlock(q, n, pack) ==
  IF InWindow(q, n) THEN [q EXCEPT !.slots[SlotOf(q, n)] = pack] ELSE q

\* The greatest sequence number that AddSeqIndex may be told of: GetConfirmSeq
\* plus GetSize.  With nothing dequeued GetConfirmSeq is -1, and the unsigned
\* addition wraps around to the same value.
ConfirmLimit(q) == q.expect + QueueSize - 1

\* DequeueAllBuffer: DequeueBuffer until the slot at the head is empty.
Consecutive(q) ==
  CHOOSE n \in 0 .. QueueSize :
    /\ \A i \in 0 .. n - 1 : q.slots[SlotOf(q, q.expect + i)] # NoPack
    /\ n = QueueSize \/ q.slots[SlotOf(q, q.expect + n)] = NoPack

DequeuedPacks(q) ==
  [i \in 1 .. Consecutive(q) |-> q.slots[SlotOf(q, q.expect + i - 1)]]

AfterDequeueAll(q) ==
  LET n == Consecutive(q)
  IN  [slots  |-> [s \in Slots |->
                     IF \E i \in 0 .. n - 1 : s = SlotOf(q, q.expect + i)
                     THEN NoPack ELSE q.slots[s]],
       expect |-> q.expect + n,
       head   |-> (q.head + n) % QueueSize]

=============================================================================
