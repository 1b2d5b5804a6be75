---------------------------- MODULE SensingStream ----------------------------
(***************************************************************************)
(* The receive pipeline of the stereo images: ProtocolBase                 *)
(* (advanced-sensing/ori-osdk-core/protocol/src/dji_protocol_base.cpp) and *)
(* AdvancedSensingProtocol                                                 *)
(* (advanced-sensing/protocol/src/dji_advanced_sensing_protocol.cpp).      *)
(*                                                                         *)
(* One thread reads USB transfers and finds the image frames in them.  A   *)
(* transfer that fills the read buffer is appended unseen; any other goes  *)
(* through the parser byte by byte.  The camera side is external: it sends *)
(* a header as a transfer of its own, then the payload in transfers of at  *)
(* most BufferSize, and a failed read of a payload or a header loses it.   *)
(* A byte is known by the frame it is of and its place in that frame, so   *)
(* that only the first two bytes of a header look like a start of frame.   *)
(***************************************************************************)
EXTENDS Integers, Sequences, FiniteSets

CONSTANTS
  HeaderLen,       (* bytes of AdvancedSensingHeader (12)                   *)
  BufferSize,      (* bytes of the read buffer (600 KiB)                    *)
  MaxRecvLen,      (* bytes of recvBuf (USB_MAXRECV)                        *)
  Payloads,        (* payload lengths a stream may have                     *)
  MaxFrames,       (* bound: frames of a stream                             *)
  MaxLosses        (* bound: transfers lost by a failed read                *)

\* No payload ends with a full transfer: nothing would look at it then.
ASSUME SensingAssumption ==
  /\ HeaderLen \in Nat /\ HeaderLen > 2 /\ BufferSize \in Nat
  /\ BufferSize > HeaderLen /\ MaxRecvLen \in Nat
  /\ \A p \in Payloads : /\ p \in Nat /\ p >= HeaderLen
                         /\ HeaderLen + p <= MaxRecvLen
                         /\ p % BufferSize # 0
  /\ MaxFrames \in Nat /\ MaxLosses \in Nat

VARIABLES
  payload,         (* the payload length of this stream                     *)
  sentFrames,      (* frames whose first transfer was read or lost          *)
  toSend,          (* bytes of the last of them still to be read            *)
  readBuf,         (* buf, of length read_len                               *)
  bufReadPos,      (* buf_read_pos                                          *)
  recvBuf,         (* p_filter->recvBuf, of length recvIndex                *)
  received,        (* frames given to the application; 0 for a mixed one    *)
  losses           (* transfers lost so far                                 *)

sensingVars == <<payload, sentFrames, toSend, readBuf, bufReadPos, recvBuf,
                 received, losses>>

SensingInit ==
  /\ payload \in Payloads
  /\ sentFrames = 0 /\ toSend = 0
  /\ readBuf = <<>> /\ bufReadPos = 0
  /\ recvBuf = <<>> /\ received = <<>>
  /\ losses = 0

-----------------------------------------------------------------------------
(* The camera side.                                                        *)

FrameLen == HeaderLen + payload

Byte(frame, place) == [frame |-> frame, place |-> place]

\* The next transfer: a header, or as much of the payload as fits.
Transfer ==
  IF toSend = 0
  THEN [i \in 1 .. HeaderLen |-> Byte(sentFrames + 1, i)]
  ELSE [i \in 1 .. (IF toSend < BufferSize THEN toSend ELSE BufferSize) |->
          Byte(sentFrames, FrameLen - toSend + i)]

TransferTaken ==
  /\ toSend = 0 => sentFrames < MaxFrames
  /\ IF toSend = 0
     THEN sentFrames' = sentFrames + 1 /\ toSend' = payload
     ELSE toSend' = toSend - Len(Transfer) /\ UNCHANGED sentFrames

-----------------------------------------------------------------------------
(* readPoll.                                                               *)

BufferConsumed == bufReadPos >= Len(readBuf)

\* readall, and the branch for a transfer that fills the buffer.
ReadPoll ==
  /\ BufferConsumed
  /\ TransferTaken
  /\ readBuf' = Transfer
  /\ IF Len(Transfer) = BufferSize
     THEN recvBuf' = recvBuf \o Transfer /\ bufReadPos' = BufferSize
     ELSE bufReadPos' = 0 /\ UNCHANGED recvBuf
  /\ UNCHANGED <<payload, received, losses>>

\* readall fails, at its time limit for instance, and what the transfer had
\* brought is not looked at.  Only streams whose payloads take one transfer
\* are followed through losses.
ReadFails ==
  /\ BufferConsumed
  /\ payload < BufferSize /\ losses < MaxLosses
  /\ TransferTaken
  /\ losses' = losses + 1
  /\ UNCHANGED <<payload, readBuf, bufReadPos, recvBuf, received>>

-----------------------------------------------------------------------------
(* byteHandler, for each byte that is left in the buffer.                  *)

StoreData(byte) ==
  IF Len(recvBuf) < MaxRecvLen THEN Append(recvBuf, byte) ELSE <<>>

StartOfFrame(b) ==
  /\ b[1].place = 1 /\ b[2].place = 2 /\ b[1].frame = b[2].frame

\* The whole header is thrown away instead of one byte.
ShiftDataStreamAll(b) == <<>>

ShiftDataStream(b) == Tail(b)

\* One byte more is kept.
PrepareDataStreamKeepsHeader(b) ==
  SubSeq(b, Len(b) - HeaderLen + 1, Len(b))

\* The last HeaderLen - 1 bytes may be the beginning of a header.
PrepareDataStream(b) == SubSeq(b, Len(b) - HeaderLen + 2, Len(b))

\* The frame the application gets: which one it is, or that it is mixed.
FrameOf(b) == IF b = [i \in 1 .. FrameLen |-> Byte(b[1].frame, i)]
              THEN b[1].frame ELSE 0

\* streamHandler: storeData and checkStream.  After a frame the byte that
\* completed it stays in the buffer and is handled once more.
ByteHandler ==
  /\ ~BufferConsumed
  /\ LET b       == StoreData(readBuf[bufReadPos + 1])
         isFrame == Len(b) > HeaderLen /\ StartOfFrame(b) /\ Len(b) = FrameLen
     IN /\ recvBuf' = IF isFrame THEN PrepareDataStream(b)
                      ELSE IF Len(b) = HeaderLen /\ ~StartOfFrame(b)
                      THEN ShiftDataStream(b)
                      ELSE b
        /\ received' = IF isFrame THEN Append(received, FrameOf(b))
                       ELSE received
        /\ bufReadPos' = IF isFrame THEN bufReadPos ELSE bufReadPos + 1
  /\ UNCHANGED <<payload, sentFrames, toSend, readBuf, losses>>

-----------------------------------------------------------------------------
SensingNext == ReadPoll \/ ReadFails \/ ByteHandler

SensingSpec == SensingInit /\ [][SensingNext]_sensingVars

-----------------------------------------------------------------------------
(* Properties.                                                             *)

Bytes == [frame : 1 .. MaxFrames, place : 1 .. FrameLen]

\* Every variable has its type, and recvBuf its size.
SensingTypeOK ==
  /\ payload \in Payloads
  /\ sentFrames \in 0 .. MaxFrames
  /\ toSend \in 0 .. payload
  /\ readBuf \in Seq(Bytes) /\ Len(readBuf) <= BufferSize
  /\ bufReadPos \in 0 .. Len(readBuf)
  /\ recvBuf \in Seq(Bytes) /\ Len(recvBuf) <= MaxRecvLen
  /\ received \in Seq(0 .. MaxFrames)
  /\ losses \in 0 .. MaxLosses

\* The frames that have come in completely.
Complete == IF toSend = 0 /\ BufferConsumed THEN sentFrames ELSE sentFrames - 1

\* As long as no read fails, the application has each image that has come in,
\* whole, once and in order, although the byte that ends a frame is parsed
\* twice and large transfers are not parsed at all.
ImagesInOrder ==
  losses = 0 /\ sentFrames > 0 =>
    /\ \A i \in 1 .. Len(received) : received[i] = i
    /\ Len(received) >= Complete

\* The images the application has got whole.
WholeImages == {received[i] : i \in 1 .. Len(received)} \ {0}

\* The parser finds the next header again after a failed read: each costs at
\* most two images, the one that is torn and the one whose bytes stand in for
\* what is missing, and no image comes twice or out of order.
Resynchronises ==
  /\ sentFrames > 0 => Cardinality(WholeImages) >= Complete - 2 * losses
  /\ \A i, j \in 1 .. Len(received) :
       i < j /\ received[i] # 0 /\ received[j] # 0 => received[i] < received[j]
=============================================================================
