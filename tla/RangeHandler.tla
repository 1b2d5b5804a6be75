---------------------------- MODULE RangeHandler ----------------------------
(***************************************************************************)
(* CommonDataRangeHandler (modules/src/filemgr/impl/                       *)
(* commondatarangehandler.cpp): which packs of a transfer are missing.     *)
(*                                                                         *)
(* A handler is the pair of m_noAckRanges, a vector of ranges that have    *)
(* been skipped, and m_lastNotReceivedSeq, the first sequence number above *)
(* all that were received.  Sequence numbers stay far below 2^32.          *)
(***************************************************************************)
EXTENDS Naturals, Sequences

\* A range of length packs from seq on; there is no empty one.
Range(seq, length) == [seq |-> seq, length |-> length]

RangeType == [seq : Nat, length : Nat \ {0}]

HandlerType == [ranges : Seq(RangeType), last : Nat]

\* A new handler, and one after DeInit.
NoPackReceived == [ranges |-> <<>>, last |-> 0]

PacksOf(r) == r.seq .. r.seq + r.length - 1

MissingPacks(h) == UNION {PacksOf(h.ranges[i]) : i \in 1 .. Len(h.ranges)}

ReceivedPacks(h) == {n \in 0 .. h.last - 1 : n \notin MissingPacks(h)}

NonEmpty(r) == IF r.length > 0 THEN <<r>> ELSE <<>>

\* With the right part one too long.
SplitOffByOne(r, n) ==
  NonEmpty(Range(n + 1, r.seq + r.length - n))
    \o NonEmpty(Range(r.seq, n - r.seq))

\* Ranges of one pack are shortened like the others.
SplitKeepsEmpty(r, n) ==
  IF r.length = 1 THEN <<Range(n + 1, 0)>>
  ELSE NonEmpty(Range(n + 1, r.seq + r.length - n - 1))
         \o NonEmpty(Range(r.seq, n - r.seq))

\* What is left of range r without pack n of it.  A pack in the middle splits
\* the range, and the part on the right is inserted in front of the left one.
Split(r, n) ==
  NonEmpty(Range(n + 1, r.seq + r.length - n - 1))
    \o NonEmpty(Range(r.seq, n - r.seq))

\* The loop over the ranges ends at the first that holds pack n.
RemoveFromRanges(rs, n) ==
  LET hits == {i \in 1 .. Len(rs) : n \in PacksOf(rs[i])}
  IN  IF hits = {} THEN rs
      ELSE LET i == CHOOSE j \in hits : \A k \in hits : j <= k
           IN  SubSeq(rs, 1, i - 1) \o Split(rs[i], n)
                 \o SubSeq(rs, i + 1, Len(rs))

\* Without the check against the end of the buffer.
AddSeqUnlimited(h, n, limit) ==
  IF n = h.last
  THEN [h EXCEPT !.last = n + 1]
  ELSE IF n > h.last
  THEN [ranges |-> Append(h.ranges, Range(h.last, n - h.last)), last |-> n + 1]
  ELSE [h EXCEPT !.ranges = RemoveFromRanges(h.ranges, n)]

\* A gap is noted for the expected pack too.
AddSeqEmptyGap(h, n, limit) ==
  IF n > limit THEN h
  ELSE IF n >= h.last
  THEN [ranges |-> Append(h.ranges, Range(h.last, n - h.last)), last |-> n + 1]
  ELSE [h EXCEPT !.ranges = RemoveFromRanges(h.ranges, n)]

\* limit: confirmSeq + bufSize.
AddSeqIndex(h, n, limit) ==
  IF n > limit THEN h
  ELSE IF n = h.last
  THEN [h EXCEPT !.last = n + 1]
  ELSE IF n > h.last
  THEN [ranges |-> Append(h.ranges, Range(h.last, n - h.last)), last |-> n + 1]
  ELSE [h EXCEPT !.ranges = RemoveFromRanges(h.ranges, n)]

=============================================================================
