----------------------------- MODULE PcivTrans -----------------------------
(***************************************************************************)
(* The stream transport of pciv/pciv_trans.c: a sender on one chip writes  *)
(* frames by DMA into a ring buffer in the memory of another chip.         *)
(*                                                                         *)
(*   sender client   pciv_trans_write_loc_buf, pciv_trans_send_data        *)
(*   sender thread   pciv_trans_sender_thread, the only writer of read_pos *)
(*   receiver client pciv_trans_get_data, pciv_trans_release_data          *)
(*                                                                         *)
(* WRITE_DONE messages travel to the receiver and READ_DONE messages back, *)
(* each over a message port of its own (a FIFO of the PCIe message         *)
(* driver).  A byte of the buffer is one unit of Data; positions and       *)
(* lengths are counted in those units.                                     *)
(***************************************************************************)
EXTENDS Integers, Sequences

CONSTANTS
  BufLen,      \* attr->buf_size: length of the ring and of the local buffer
  Data,        \* the values a byte can have
  Chunks,      \* lengths the client passes to pciv_trans_write_loc_buf
  MaxFrame,    \* the client stops filling the local buffer at this length
  MaxHeld,     \* the receiver's client holds at most this many frames
  QueueCap,    \* messages the driver stores for a port before write() fails
  SeqMod,      \* sequence numbers are td_u32: arithmetic modulo SeqMod
  Faults       \* which of "dma", "msg", "empty", "timeout" can happen

ASSUME BufLenAssumption == BufLen \in Nat \ {0}
ASSUME ChunksAssumption == Chunks \subseteq 1..BufLen
ASSUME MaxFrameAssumption == MaxFrame \in Nat
ASSUME MaxHeldAssumption == MaxHeld \in Nat
ASSUME QueueCapAssumption == QueueCap \in Nat
ASSUME SeqModAssumption == SeqMod \in Nat /\ SeqMod > 2

VARIABLES
  up,          \* the session: "none" or "up" (both ends initialised)
  pc,          \* sender client: "idle", or "dma" inside pciv_trans_send_data
  loc_buf,     \* the bytes in the sender's local buffer; cur_len is its length
  write_off,   \* write_off of the send under way
  write_pos, read_pos,      \* sender->rmt_buf
  snd_seq, snd_free_seq,    \* sender->msg_seq_send, sender->msg_seq_free
  rcv_seq, rcv_free_seq,    \* receiver->msg_seq_send, receiver->msg_seq_free
  write_done, read_done,    \* the two message ports
  held,        \* frames the receiver's client got and has not released
  mem          \* the bytes of the ring buffer

sender == <<pc, loc_buf, write_off, write_pos, snd_seq>>
senderThread == <<read_pos, snd_free_seq>>
receiver == <<rcv_seq, rcv_free_seq, held>>
vars == <<up, sender, senderThread, receiver, write_done, read_done, mem>>

-----------------------------------------------------------------------------
Byte == 0..(BufLen - 1)
SeqNo == 0..(SeqMod - 1)
Frame == [start : 0..BufLen, end : 0..BufLen]
Notify == [start : 0..BufLen, end : 0..BufLen, seq : SeqNo]

cur_len == Len(loc_buf)

(* pciv_send_msg on a port: the write succeeds, or it fails because the     *)
(* driver is full or for a reason of its own.                               *)
CanSend(port) == Len(port) < QueueCap
CanFail(port) == Len(port) >= QueueCap \/ "msg" \in Faults

(* a - b in td_u32 arithmetic *)
SeqDiff(a, b) == (a - b) % SeqMod
SeqNext(a) == (a + 1) % SeqMod

InSequence_same(seq, last) == SeqDiff(seq, last) < 1

(* "diff <= 1": the test both ends apply to the sequence number of a message *)
InSequence(seq, last) == SeqDiff(seq, last) <= 1

(* Faulty variants of WriteOffset: the free gap may be filled completely,   *)
(* so that a full ring looks empty; the last byte of the ring is refused;   *)
(* the tail is tested against one byte too many.                            *)
WriteOffset_full(wpos, rpos, size, off) ==
  IF wpos >= rpos
  THEN IF wpos + size <= BufLen THEN off = wpos ELSE size <= rpos /\ off = 0
  ELSE wpos + size <= rpos /\ off = wpos
WriteOffset_strict(wpos, rpos, size, off) ==
  IF wpos >= rpos
  THEN IF wpos + size < BufLen THEN off = wpos ELSE size < rpos /\ off = 0
  ELSE wpos + size < rpos /\ off = wpos
WriteOffset_tail(wpos, rpos, size, off) ==
  IF wpos >= rpos
  THEN IF wpos + size <= BufLen + 1 THEN off = wpos ELSE size < rpos /\ off = 0
  ELSE wpos + size < rpos /\ off = wpos

(* trans_get_write_offset: with these two positions a frame of size bytes   *)
(* may go to offset off.  The early return for size > length * 2 is first.  *)
WriteOffset(wpos, rpos, size, off) ==
  /\ ~(size > BufLen * 2)
  /\ IF wpos >= rpos
     THEN IF wpos + size <= BufLen
          THEN off = wpos
          ELSE size < rpos /\ off = 0
     ELSE wpos + size < rpos /\ off = wpos

(* trans_upd_write_pos and trans_upd_read_pos.  (Faulty variant: the old    *)
(* position is advanced instead of the offset of the write.)                *)
NewWritePos_add(off, size) == write_pos + size
NewWritePos(off, size) == off + size
NewReadPos(m) == m.end

(* The ring after the first n bytes of the local buffer reached it *)
Written(n) ==
  [b \in Byte |-> IF write_off <= b /\ b < write_off + n
                  THEN loc_buf[b - write_off + 1] ELSE mem[b]]

(* What a reader of the ring sees in a frame *)
Content(f) == [i \in 1..(f.end - f.start) |-> mem[f.start + i - 1]]

-----------------------------------------------------------------------------
(* pciv_trans_init_sender and pciv_trans_init_receiver: both ends start     *)
(* from zeroed structures.  A failure of either undoes itself completely,   *)
(* so it is a step that changes nothing.  The clients open the two message  *)
(* ports for a session and initialise both ends before they use either.     *)
InitSession ==
  /\ up = "none"
  /\ up' = "up"
  /\ loc_buf' = <<>> /\ write_off' = -1 /\ write_pos' = 0 /\ read_pos' = 0
  /\ snd_seq' = 0 /\ snd_free_seq' = 0
  /\ rcv_seq' = 0 /\ rcv_free_seq' = 0
  /\ UNCHANGED <<pc, held, write_done, read_done, mem>>

(* pciv_trans_de_init_sender joins the thread and frees the sender;         *)
(* pciv_trans_de_init_receiver frees the receiver.  The frames it lent out  *)
(* and the messages in the closed ports are gone with them.                 *)
EndSession ==
  /\ up = "up" /\ pc = "idle"
  /\ up' = "none"
  /\ held' = <<>> /\ write_done' = <<>> /\ read_done' = <<>>
  /\ UNCHANGED <<sender, senderThread, rcv_seq, rcv_free_seq, mem>>

(* pciv_trans_write_loc_buf, for a length that fits; otherwise it fails and *)
(* changes nothing.                                                         *)
WriteLocBuf ==
  /\ up = "up" /\ pc = "idle"
  /\ \E len \in Chunks, d \in Data :
       /\ cur_len + len <= BufLen
       /\ cur_len + len <= MaxFrame
       /\ loc_buf' = loc_buf \o [i \in 1..len |-> d]
  /\ UNCHANGED <<up, pc, write_off, write_pos, snd_seq, senderThread, receiver,
                 write_done, read_done, mem>>

(* pciv_trans_send_data up to the first DMA request.  Without room it       *)
(* returns failure and changes nothing.                                     *)
SendStart ==
  /\ up = "up" /\ pc = "idle"
  /\ cur_len > 0 \/ "empty" \in Faults
  /\ \E off \in 0..BufLen :
       WriteOffset(write_pos, read_pos, cur_len, off) /\ write_off' = off
  /\ pc' = "dma"
  /\ UNCHANGED <<up, loc_buf, write_pos, snd_seq, senderThread, receiver,
                 write_done, read_done, mem>>

(* The DMA request times out part of the way: the loop issues it again.     *)
DmaTimeout ==
  /\ pc = "dma" /\ "timeout" \in Faults
  /\ \E n \in 0..cur_len : mem' = Written(n)
  /\ UNCHANGED <<up, sender, senderThread, receiver, write_done, read_done>>

(* The DMA request fails: pciv_trans_send_data returns, the frame stays in  *)
(* the local buffer.                                                        *)
DmaFail ==
  /\ pc = "dma" /\ "dma" \in Faults
  /\ \E n \in 0..cur_len : mem' = Written(n)
  /\ pc' = "idle"
  /\ UNCHANGED <<up, loc_buf, write_off, write_pos, snd_seq, senderThread,
                 receiver, write_done, read_done>>

(* The DMA request succeeds: write_pos advances, WRITE_DONE is sent with    *)
(* the next sequence number, and the local buffer is emptied.  When the     *)
(* message cannot be sent the function returns early: write_pos and         *)
(* msg_seq_send have moved, cur_len has not been reset.                     *)
SendFinish ==
  /\ pc = "dma"
  /\ mem' = Written(cur_len)
  /\ write_pos' = NewWritePos(write_off, cur_len)
  /\ snd_seq' = SeqNext(snd_seq)
  /\ \/ /\ CanSend(write_done)
        /\ write_done' = Append(write_done,
                           [start |-> write_off, end |-> write_off + cur_len,
                            seq |-> snd_seq])
        /\ loc_buf' = <<>>
     \/ /\ CanFail(write_done)
        /\ UNCHANGED <<write_done, loc_buf>>
  /\ pc' = "idle"
  /\ UNCHANGED <<up, write_off, senderThread, receiver, read_done>>

(* One round of pciv_trans_sender_thread that finds a READ_DONE message: a  *)
(* message out of sequence is thrown away.                                  *)
SenderThread ==
  /\ up = "up" /\ read_done # <<>>
  /\ LET m == Head(read_done) IN
       IF InSequence(m.seq, snd_free_seq)
       THEN snd_free_seq' = m.seq /\ read_pos' = NewReadPos(m)
       ELSE UNCHANGED senderThread
  /\ read_done' = Tail(read_done)
  /\ UNCHANGED <<up, sender, receiver, write_done, mem>>

(* pciv_trans_get_data accepts the next WRITE_DONE message: the range test  *)
(* as it is written, then the sequence test.                                *)
RangeRefused(m) == ~(m.end > m.start) /\ m.end <= BufLen
Acceptable(m) == ~RangeRefused(m) /\ InSequence(m.seq, rcv_seq)

GetData ==
  /\ up = "up" /\ write_done # <<>> /\ Len(held) < MaxHeld
  /\ LET m == Head(write_done) IN
       /\ Acceptable(m)
       /\ held' = Append(held, [start |-> m.start, end |-> m.end])
       /\ rcv_seq' = m.seq
  /\ write_done' = Tail(write_done)
  /\ UNCHANGED <<up, sender, senderThread, rcv_free_seq, read_done, mem>>

(* ... or consumes it and returns -1 without touching msg_seq_send. *)
GetDataRefused ==
  /\ up = "up" /\ write_done # <<>> /\ Len(held) < MaxHeld
  /\ ~Acceptable(Head(write_done))
  /\ write_done' = Tail(write_done)
  /\ UNCHANGED <<up, sender, senderThread, receiver, read_done, mem>>

(* pciv_trans_release_data for the oldest frame the client holds.  The      *)
(* sequence number is used up even when the message cannot be sent; the     *)
(* client then either keeps the frame, to release it again, or forgets it.  *)
ReleaseData ==
  /\ up = "up" /\ held # <<>>
  /\ rcv_free_seq' = SeqNext(rcv_free_seq)
  /\ \/ /\ CanSend(read_done)
        /\ read_done' = Append(read_done,
                          [start |-> Head(held).start, end |-> Head(held).end,
                           seq |-> rcv_free_seq])
        /\ held' = Tail(held)
     \/ /\ CanFail(read_done)
        /\ UNCHANGED read_done
        /\ held' \in {held, Tail(held)}
  /\ UNCHANGED <<up, sender, senderThread, rcv_seq, write_done, mem>>

-----------------------------------------------------------------------------
Init ==
  /\ up = "none" /\ pc = "idle"
  /\ loc_buf = <<>> /\ write_off = -1 /\ write_pos = 0 /\ read_pos = 0
  /\ snd_seq = 0 /\ snd_free_seq = 0 /\ rcv_seq = 0 /\ rcv_free_seq = 0
  /\ write_done = <<>> /\ read_done = <<>> /\ held = <<>>
  /\ \E d \in Data : mem = [b \in Byte |-> d]

Next ==
  \/ InitSession \/ EndSession
  \/ WriteLocBuf \/ SendStart \/ DmaTimeout \/ DmaFail \/ SendFinish
  \/ SenderThread
  \/ GetData \/ GetDataRefused \/ ReleaseData

Spec == Init /\ [][Next]_vars

(* A client that has data sends it and polls until there is room; the DMA   *)
(* engine completes; the sender thread and the receiver's client poll their *)
(* ports and the client gives every frame back.                             *)
Fairness ==
  /\ WF_vars(SendStart) /\ WF_vars(SendFinish)
  /\ WF_vars(SenderThread)
  /\ WF_vars(GetData) /\ WF_vars(GetDataRefused) /\ WF_vars(ReleaseData)

FairSpec == Spec /\ Fairness

-----------------------------------------------------------------------------
(* Every variable stays in the range its C type and its uses give it, and   *)
(* the two positions of pciv_trans_rmtbuf stay inside the ring.             *)
TypeOK ==
  /\ up \in {"none", "up"} /\ pc \in {"idle", "dma"}
  /\ loc_buf \in Seq(Data) /\ cur_len <= BufLen
  /\ write_off \in -1..BufLen
  /\ write_pos \in 0..BufLen /\ read_pos \in 0..BufLen
  /\ snd_seq \in SeqNo /\ snd_free_seq \in SeqNo
  /\ rcv_seq \in SeqNo /\ rcv_free_seq \in SeqNo
  /\ write_done \in Seq(Notify) /\ read_done \in Seq(Notify)
  /\ held \in Seq(Frame)
  /\ mem \in [Byte -> Data]

(* Two regions of the ring that share no byte *)
Apart(f, start, end) == f.end <= start \/ end <= f.start

(* The bytes pciv_trans_send_data is writing belong to no frame that has    *)
(* been announced or that the receiver's client still holds, even though    *)
(* read_pos was sampled without a lock and may be out of date.              *)
NoOverwrite ==
  pc = "dma" =>
    \A S \in {held, write_done} : \A i \in DOMAIN S :
      Apart(S[i], write_off, write_off + cur_len)

(* A frame of the ring comes before another one when a walk that starts at  *)
(* rpos and wraps at the end of the ring meets it first.                    *)
Before(rpos, f, g) ==
  \/ (f.start >= rpos <=> g.start >= rpos) /\ f.end <= g.start
  \/ f.start >= rpos /\ g.start < rpos

Sorted(rpos, S) == \A i, j \in DOMAIN S : i < j => Before(rpos, S[i], S[j])
Precedes(rpos, S, T) ==
  \A i \in DOMAIN S, j \in DOMAIN T : Before(rpos, S[i], T[j])

(* A frame lies in the part of the ring from rpos round to wpos. *)
InWindow(rpos, wpos, f) ==
  /\ f.start <= f.end
  /\ IF rpos <= wpos
     THEN rpos <= f.start /\ f.end <= wpos
     ELSE rpos <= f.start \/ f.end <= wpos

(* A queue of frames that lie in the window in the order of the walk *)
Chain(rpos, wpos, S) ==
  Sorted(rpos, S) /\ \A i \in DOMAIN S : InWindow(rpos, wpos, S[i])

(* Every live frame is in the window, and frames are released, held and     *)
(* announced in the order of the ring: what makes one position enough to    *)
(* tell the sender which bytes are free.                                    *)
RingOrder ==
  /\ Chain(read_pos, write_pos, read_done)
  /\ Chain(read_pos, write_pos, held)
  /\ Chain(read_pos, write_pos, write_done)
  /\ Precedes(read_pos, read_done, held)
  /\ Precedes(read_pos, read_done, write_done)
  /\ Precedes(read_pos, held, write_done)

(* While a send is under way the place chosen for it is still free under    *)
(* the current read_pos, not only under the one it was chosen with.         *)
PlaceStillFree ==
  pc = "dma" => WriteOffset(write_pos, read_pos, cur_len, write_off)

(* With both ports reliable no message is ever refused: the two sequence    *)
(* tests agree with the numbering of the other end, across wrap-around and  *)
(* from one session to the next.                                            *)
NothingRefused ==
  up = "up" =>
    /\ write_done # <<>> => Acceptable(Head(write_done))
    /\ read_done # <<>> => InSequence(Head(read_done).seq, snd_free_seq)

(* The rule in the comment of trans_get_write_offset: "the circule buffer   *)
(* must be twice as much as the data length", "if size is more than half of *)
(* buf length, return FAILURE".                                             *)
HalfRule == pc = "dma" => cur_len * 2 <= BufLen

(* The transport refines the FIFO of FrameQueue: a frame's content is what  *)
(* the memory of the ring holds where the message says it is.               *)
FQ == INSTANCE FrameQueue WITH
        Payload <- UNION {[1..n -> Data] : n \in 0..BufLen},
        queue <- [i \in DOMAIN write_done |-> Content(write_done[i])],
        loaned <- [i \in DOMAIN held |-> Content(held[i])]

DeliversInOrder == FQ!FQSpec

(* What is in the local buffer is sent sooner or later unless it grows to   *)
(* more than half the ring, whatever is in the ring at the time:            *)
(* pciv_trans_send_data may fail for lack of room but not for ever.         *)
EverySendCompletes ==
  cur_len > 0 ~> cur_len = 0 \/ cur_len > BufLen \div 2 \/ up = "none"
=============================================================================
