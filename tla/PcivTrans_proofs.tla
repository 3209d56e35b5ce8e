-------------------------- MODULE PcivTrans_proofs --------------------------
(***************************************************************************)
(* Proofs about PcivTrans for every ring length, every set of chunk        *)
(* lengths, every bound on the queues and every combination of faults.     *)
(*                                                                         *)
(* The inductive invariant is RingOrder (with the types and with           *)
(* PlaceStillFree): one position, read_pos, can describe the free part of  *)
(* the ring only because the frames on their way back, held and announced  *)
(* follow each other around the ring.  NoOverwrite follows from it, the    *)
(* refinement of FrameQueue follows from NoOverwrite, and NothingRefused   *)
(* from the order and from the numbering of the messages (RInv).           *)
(***************************************************************************)
EXTENDS PcivTrans, SequenceTheorems, FiniteSetTheorems, TLAPS

(* Between sessions nothing is under way and nothing is left over. *)
DownIsEmpty ==
  up = "none" =>
    pc = "idle" /\ held = <<>> /\ write_done = <<>> /\ read_done = <<>>

IInv == TypeOK /\ RingOrder /\ PlaceStillFree /\ DownIsEmpty

Pos == 0..BufLen
IsFrame(f) == f.start \in Pos /\ f.end \in Pos
-----------------------------------------------------------------------------
(* The place trans_get_write_offset picks lies inside the ring. *)
LEMMA PlaceInRing ==
  ASSUME NEW r \in Pos, NEW w \in Pos, NEW size \in Nat, NEW off,
         WriteOffset(w, r, size, off)
  PROVE  off \in Pos /\ off + size \in Pos
BY BufLenAssumption DEF WriteOffset, Pos

(* The documented rule is sufficient: when every byte is free, a frame of   *)
(* at most half the ring always finds a place (trans_get_write_offset).     *)
THEOREM HalfAlwaysFits ==
  ASSUME NEW r \in Pos, NEW size \in 1..BufLen, size * 2 <= BufLen
  PROVE  \E off \in Pos : WriteOffset(r, r, size, off)
<1>1. CASE r + size <= BufLen
  <2>1. WriteOffset(r, r, size, r)
    BY <1>1, BufLenAssumption DEF WriteOffset, Pos
  <2> QED BY <2>1
<1>2. CASE r + size > BufLen
  <2>1. WriteOffset(r, r, size, 0)
    BY <1>2, BufLenAssumption DEF WriteOffset, Pos
  <2> QED BY <2>1, BufLenAssumption DEF Pos
<1> QED BY <1>1, <1>2, BufLenAssumption DEF Pos

(* The place does not touch a frame in the window. *)
LEMMA PlaceApart ==
  ASSUME NEW r \in Pos, NEW w \in Pos, NEW size \in Nat, NEW off,
         WriteOffset(w, r, size, off),
         NEW f, IsFrame(f), InWindow(r, w, f)
  PROVE  Apart(f, off, off + size)
BY BufLenAssumption DEF WriteOffset, Pos, IsFrame, InWindow, Apart

(* When read_pos moves to the end of the first frame of the walk, the rest  *)
(* of the walk is unchanged.                                                *)
LEMMA Advance ==
  ASSUME NEW r \in Pos, NEW w \in Pos,
         NEW f, IsFrame(f), InWindow(r, w, f),
         NEW g, IsFrame(g), InWindow(r, w, g), Before(r, f, g),
         NEW h, IsFrame(h), InWindow(r, w, h), Before(r, f, h)
  PROVE  /\ InWindow(f.end, w, g)
         /\ Before(r, g, h) => Before(f.end, g, h)
BY BufLenAssumption DEF Pos, IsFrame, InWindow, Before

(* ... and a place that was free stays free. *)
LEMMA AdvancePlace ==
  ASSUME NEW r \in Pos, NEW w \in Pos, NEW size \in Nat, NEW off,
         WriteOffset(w, r, size, off),
         NEW f, IsFrame(f), InWindow(r, w, f)
  PROVE  WriteOffset(w, f.end, size, off)
BY BufLenAssumption DEF Pos, IsFrame, InWindow, WriteOffset

(* A frame put in the free place extends the walk at its far end. *)
LEMMA Extend ==
  ASSUME NEW r \in Pos, NEW w \in Pos, NEW size \in Nat, NEW off,
         WriteOffset(w, r, size, off),
         NEW p, p.start = off, p.end = off + size
  PROVE  /\ IsFrame(p) /\ InWindow(r, off + size, p)
         /\ \A f : IsFrame(f) /\ InWindow(r, w, f)
                 => InWindow(r, off + size, f) /\ Before(r, f, p)
BY BufLenAssumption DEF Pos, IsFrame, InWindow, WriteOffset, Before

-----------------------------------------------------------------------------
(* The order conditions on queues, under the three things that happen to a  *)
(* queue: a frame is appended, the oldest one is taken, read_pos moves.     *)
LEMMA ChainAppend ==
  ASSUME NEW r, NEW w, NEW X, NEW S \in Seq(X), NEW x \in X,
         Chain(r, w, S), InWindow(r, w, x),
         \A i \in DOMAIN S : Before(r, S[i], x)
  PROVE  Chain(r, w, Append(S, x))
BY DEF Chain, Sorted

LEMMA ChainTail ==
  ASSUME NEW r, NEW w, NEW X, NEW S \in Seq(X), S # <<>>, Chain(r, w, S)
  PROVE  /\ Chain(r, w, Tail(S))
         /\ InWindow(r, w, Head(S))
         /\ \A i \in DOMAIN Tail(S) : Before(r, Head(S), Tail(S)[i])
BY DEF Chain, Sorted

LEMMA PrecedesTail ==
  ASSUME NEW r, NEW X, NEW S \in Seq(X), NEW Y, NEW T \in Seq(Y),
         S # <<>>, Precedes(r, S, T)
  PROVE  /\ Precedes(r, Tail(S), T)
         /\ \A j \in DOMAIN T : Before(r, Head(S), T[j])
BY DEF Precedes

LEMMA TailPrecedes ==
  ASSUME NEW r, NEW X, NEW S \in Seq(X), NEW Y, NEW T \in Seq(Y),
         T # <<>>, Precedes(r, S, T)
  PROVE  /\ Precedes(r, S, Tail(T))
         /\ \A i \in DOMAIN S : Before(r, S[i], Head(T))
BY DEF Precedes

LEMMA PrecedesAppend ==
  ASSUME NEW r, NEW X, NEW S \in Seq(X), NEW Y, NEW T \in Seq(Y), NEW y \in Y,
         Precedes(r, S, T), \A i \in DOMAIN S : Before(r, S[i], y)
  PROVE  Precedes(r, S, Append(T, y))
BY DEF Precedes

LEMMA AppendPrecedes ==
  ASSUME NEW r, NEW X, NEW S \in Seq(X), NEW Y, NEW T \in Seq(Y), NEW x \in X,
         Precedes(r, S, T), \A j \in DOMAIN T : Before(r, x, T[j])
  PROVE  Precedes(r, Append(S, x), T)
BY DEF Precedes

(* Only start and end matter to the order: two frames with the same ones    *)
(* are interchangeable.                                                     *)
LEMMA SamePlace ==
  ASSUME NEW r, NEW w, NEW f, NEW g, f.start = g.start, f.end = g.end
  PROVE  /\ InWindow(r, w, f) <=> InWindow(r, w, g)
         /\ \A h : Before(r, f, h) <=> Before(r, g, h)
         /\ \A h : Before(r, h, f) <=> Before(r, h, g)
BY DEF InWindow, Before

-----------------------------------------------------------------------------
LEMMA SeqNextType == ASSUME NEW a \in SeqNo PROVE SeqNext(a) \in SeqNo
BY SeqModAssumption DEF SeqNo, SeqNext

LEMMA WrittenType ==
  ASSUME TypeOK, NEW n \in 0..cur_len PROVE Written(n) \in [Byte -> Data]
<1>1. ASSUME NEW b \in Byte, write_off <= b, b < write_off + n
      PROVE  loc_buf[b - write_off + 1] \in Data
  <2>1. b - write_off + 1 \in 1..Len(loc_buf)
    BY <1>1, BufLenAssumption DEF TypeOK, Byte, cur_len
  <2> QED BY <2>1 DEF TypeOK
<1> QED BY <1>1 DEF Written, TypeOK

(* Where a send under way will put its frame *)
LEMMA SendPlace ==
  ASSUME IInv, pc = "dma"
  PROVE  /\ WriteOffset(write_pos, read_pos, cur_len, write_off)
         /\ write_off \in Pos /\ write_off + cur_len \in Pos /\ cur_len \in Nat
<1>1. WriteOffset(write_pos, read_pos, cur_len, write_off)
  BY DEF IInv, PlaceStillFree
<1>2. cur_len \in Nat /\ write_pos \in Pos /\ read_pos \in Pos
  BY DEF IInv, TypeOK, cur_len, Pos
<1> QED BY <1>1, <1>2, PlaceInRing

LEMMA TypeStep == IInv /\ [Next]_vars => TypeOK'
<1> SUFFICES ASSUME IInv, [Next]_vars PROVE TypeOK'
  OBVIOUS
<1> USE DEF sender, senderThread, receiver
<1>0. TypeOK
  BY DEF IInv
<1>1. CASE InitSession
  BY <1>0, <1>1, BufLenAssumption, SeqModAssumption
  DEF InitSession, TypeOK, SeqNo, cur_len
<1>2. CASE EndSession
  BY <1>0, <1>2 DEF EndSession, TypeOK, cur_len
<1>3. CASE WriteLocBuf
  <2>1. PICK len \in Chunks, d \in Data :
          /\ cur_len + len <= BufLen
          /\ loc_buf' = loc_buf \o [i \in 1..len |-> d]
    BY <1>3 DEF WriteLocBuf
  <2>2. len \in Nat
    BY ChunksAssumption, BufLenAssumption
  <2>3. [i \in 1..len |-> d] \in Seq(Data) /\ Len([i \in 1..len |-> d]) = len
    BY <2>2
  <2>4. loc_buf' \in Seq(Data) /\ Len(loc_buf') = cur_len + len
    <3>1. loc_buf \in Seq(Data)
      BY <1>0 DEF TypeOK
    <3> QED BY <3>1, <2>1, <2>3, ConcatProperties DEF cur_len
  <2> QED BY <1>0, <1>3, <2>1, <2>4 DEF WriteLocBuf, TypeOK, cur_len
<1>4. CASE SendStart
  BY <1>0, <1>4, BufLenAssumption DEF SendStart, TypeOK, cur_len
<1>5. CASE DmaTimeout
  <2>1. mem' \in [Byte -> Data]
    BY <1>0, <1>5, WrittenType DEF DmaTimeout
  <2> QED BY <1>0, <1>5, <2>1 DEF DmaTimeout, TypeOK, cur_len
<1>6. CASE DmaFail
  <2>1. mem' \in [Byte -> Data]
    BY <1>0, <1>6, WrittenType DEF DmaFail
  <2> QED BY <1>0, <1>6, <2>1 DEF DmaFail, TypeOK, cur_len
<1>7. CASE SendFinish
  <2>1. mem' \in [Byte -> Data]
    <3>1. cur_len \in 0..cur_len
      BY <1>0 DEF TypeOK, cur_len
    <3> QED BY <1>0, <1>7, <3>1, WrittenType DEF SendFinish
  <2>2. write_off \in 0..BufLen /\ write_off + cur_len \in 0..BufLen
    BY <1>7, SendPlace DEF SendFinish, Pos
  <2>3. snd_seq' \in SeqNo
    BY <1>0, <1>7, SeqNextType DEF SendFinish, TypeOK
  <2>4. write_done' \in Seq(Notify)
    <3> DEFINE m == [start |-> write_off, end |-> write_off + cur_len,
                     seq |-> snd_seq]
    <3>1. write_done \in Seq(Notify) /\ m \in Notify
      BY <1>0, <2>2 DEF TypeOK, Notify
    <3>2. write_done' \in {write_done, Append(write_done, m)}
      BY <1>7 DEF SendFinish
    <3> HIDE DEF m
    <3> QED BY <3>1, <3>2
  <2>5. loc_buf' \in Seq(Data) /\ Len(loc_buf') <= BufLen
    <3>1. loc_buf' \in {<<>>, loc_buf}
      BY <1>7 DEF SendFinish
    <3>2. CASE loc_buf' = <<>>
      BY <3>2, EmptySeq, BufLenAssumption
    <3>3. CASE loc_buf' = loc_buf
      BY <1>0, <3>3 DEF TypeOK, cur_len
    <3> QED BY <3>1, <3>2, <3>3
  <2> QED
    BY <1>0, <1>7, <2>1, <2>2, <2>3, <2>4, <2>5
    DEF SendFinish, TypeOK, cur_len, NewWritePos
<1>8. CASE SenderThread
  <2>1. Head(read_done) \in Notify /\ Tail(read_done) \in Seq(Notify)
    BY <1>0, <1>8 DEF SenderThread, TypeOK
  <2> QED BY <1>0, <1>8, <2>1 DEF SenderThread, TypeOK, cur_len, Notify, NewReadPos
<1>9. CASE GetData
  <2>1. Head(write_done) \in Notify /\ Tail(write_done) \in Seq(Notify)
    BY <1>0, <1>9 DEF GetData, TypeOK
  <2>2. held' \in Seq(Frame) /\ rcv_seq' \in SeqNo
    BY <1>0, <1>9, <2>1 DEF GetData, TypeOK, Notify, Frame
  <2> QED BY <1>0, <1>9, <2>1, <2>2 DEF GetData, TypeOK, cur_len
<1>10. CASE GetDataRefused
  BY <1>0, <1>10 DEF GetDataRefused, TypeOK, cur_len
<1>11. CASE ReleaseData
  <2>1. Head(held) \in Frame /\ Tail(held) \in Seq(Frame)
    BY <1>0, <1>11 DEF ReleaseData, TypeOK
  <2>2. rcv_free_seq' \in SeqNo
    BY <1>0, <1>11, SeqNextType DEF ReleaseData, TypeOK
  <2>3. read_done' \in Seq(Notify)
    <3> DEFINE m == [start |-> Head(held).start, end |-> Head(held).end,
                     seq |-> rcv_free_seq]
    <3>1. read_done \in Seq(Notify) /\ m \in Notify
      BY <1>0, <2>1 DEF TypeOK, Notify, Frame
    <3>2. read_done' \in {read_done, Append(read_done, m)}
      BY <1>11 DEF ReleaseData
    <3> HIDE DEF m
    <3> QED BY <3>1, <3>2
  <2> QED BY <1>0, <1>11, <2>1, <2>2, <2>3 DEF ReleaseData, TypeOK, cur_len
<1>12. CASE UNCHANGED vars
  BY <1>0, <1>12 DEF vars, TypeOK, cur_len
<1> QED
  BY <1>1, <1>2, <1>3, <1>4, <1>5, <1>6, <1>7, <1>8, <1>9, <1>10, <1>11, <1>12
  DEF Next

-----------------------------------------------------------------------------
(* RingOrder and PlaceStillFree, action by action. *)
LEMMA LiveFrames ==
  ASSUME TypeOK
  PROVE  /\ read_pos \in Pos /\ write_pos \in Pos /\ cur_len \in Nat
         /\ \A S \in {read_done, held, write_done} :
              \A i \in DOMAIN S : IsFrame(S[i])
<1>1. read_pos \in Pos /\ write_pos \in Pos /\ cur_len \in Nat
  BY DEF TypeOK, Pos, cur_len
<1>2. \A S \in Seq(Notify) : \A i \in DOMAIN S : IsFrame(S[i])
  <2>1. \A m \in Notify : IsFrame(m)
    BY DEF IsFrame, Notify, Pos
  <2> QED BY <2>1
<1>3. \A S \in Seq(Frame) : \A i \in DOMAIN S : IsFrame(S[i])
  <2>1. \A f \in Frame : IsFrame(f)
    BY DEF IsFrame, Frame, Pos
  <2> QED BY <2>1
<1> QED BY <1>1, <1>2, <1>3 DEF TypeOK

LEMMA SendFinishOrder == IInv /\ SendFinish => RingOrder'
<1> SUFFICES ASSUME IInv, SendFinish PROVE RingOrder'
  OBVIOUS
<1> DEFINE m == [start |-> write_off, end |-> write_off + cur_len,
                 seq |-> snd_seq]
           r == read_pos
           w == write_pos'
<1>1. /\ WriteOffset(write_pos, read_pos, cur_len, write_off)
      /\ w = write_off + cur_len /\ r' = r
      /\ read_done' = read_done /\ held' = held
      /\ write_done' \in {write_done, Append(write_done, m)}
  BY SendPlace DEF SendFinish, senderThread, receiver, NewWritePos
<1>2. /\ TypeOK /\ RingOrder
      /\ read_done \in Seq(Notify) /\ held \in Seq(Frame)
      /\ write_done \in Seq(Notify) /\ m \in Notify
  BY SendPlace DEF IInv, TypeOK, Notify, Pos, SendFinish
<1>3. m.start = write_off /\ m.end = write_off + cur_len
  OBVIOUS
<1> HIDE DEF m
<1>4. /\ InWindow(r, w, m)
      /\ \A f : IsFrame(f) /\ InWindow(r, write_pos, f)
               => InWindow(r, w, f) /\ Before(r, f, m)
  BY <1>1, <1>2, <1>3, Extend, LiveFrames
<1>5. \A S \in {read_done, held, write_done} :
        Chain(r, w, S) /\ \A i \in DOMAIN S : Before(r, S[i], m)
  BY <1>2, <1>4, LiveFrames DEF RingOrder, Chain
<1>6. Chain(r, w, Append(write_done, m))
  BY <1>2, <1>4, <1>5, ChainAppend
<1>7. /\ Precedes(r, read_done, Append(write_done, m))
      /\ Precedes(r, held, Append(write_done, m))
  BY <1>2, <1>5, PrecedesAppend DEF RingOrder
<1>8. Precedes(r, read_done, held) /\ Precedes(r, read_done, write_done)
      /\ Precedes(r, held, write_done)
  BY <1>2 DEF RingOrder
<1>9. CASE write_done' = write_done
  BY <1>1, <1>5, <1>8, <1>9 DEF RingOrder
<1>10. CASE write_done' = Append(write_done, m)
  BY <1>1, <1>5, <1>6, <1>7, <1>8, <1>10 DEF RingOrder
<1> QED BY <1>1, <1>9, <1>10

LEMMA SenderThreadOrder ==
  IInv /\ SenderThread => RingOrder' /\ PlaceStillFree'
<1> SUFFICES ASSUME IInv, SenderThread PROVE RingOrder' /\ PlaceStillFree'
  OBVIOUS
<1> DEFINE m == Head(read_done)
           r == read_pos
           w == write_pos
           Q == {Tail(read_done), held, write_done}
<1>1. /\ read_done # <<>> /\ read_done' = Tail(read_done)
      /\ r' \in {r, m.end}
      /\ UNCHANGED <<held, write_done, write_pos, pc, loc_buf, write_off>>
  BY DEF SenderThread, sender, senderThread, receiver, NewReadPos
<1>2. /\ TypeOK /\ RingOrder /\ r \in Pos /\ w \in Pos
      /\ read_done \in Seq(Notify) /\ held \in Seq(Frame)
      /\ write_done \in Seq(Notify) /\ m \in Notify
  <2>1. TypeOK /\ RingOrder
    BY DEF IInv
  <2>2. m \in Notify
    BY <1>1, <2>1 DEF TypeOK
  <2> QED BY <2>1, <2>2 DEF TypeOK, Pos
<1>3. IsFrame(m) /\ \A S \in Q : \A i \in DOMAIN S : IsFrame(S[i])
  <2>1. \A i \in DOMAIN read_done : IsFrame(read_done[i])
    BY <1>2, LiveFrames
  <2>2. IsFrame(m) /\ \A i \in DOMAIN Tail(read_done) : IsFrame(Tail(read_done)[i])
    BY <1>1, <1>2, <2>1
  <2> QED BY <1>2, <2>2, LiveFrames
<1>4. /\ InWindow(r, w, m)
      /\ \A S \in Q : Chain(r, w, S) /\ \A i \in DOMAIN S : Before(r, m, S[i])
      /\ Precedes(r, Tail(read_done), held)
      /\ Precedes(r, Tail(read_done), write_done)
      /\ Precedes(r, held, write_done)
  BY <1>1, <1>2, ChainTail, PrecedesTail DEF RingOrder
<1>5. CASE r' = r
  BY <1>1, <1>4, <1>5 DEF RingOrder, PlaceStillFree, IInv, cur_len
<1>6. CASE r' = m.end
  <2>1. \A S \in Q : \A i \in DOMAIN S : InWindow(m.end, w, S[i])
    BY <1>2, <1>3, <1>4, Advance DEF Chain
  <2>2. \A S, T \in Q : \A i \in DOMAIN S, j \in DOMAIN T :
          Before(r, S[i], T[j]) => Before(m.end, S[i], T[j])
    BY <1>2, <1>3, <1>4, Advance DEF Chain
  <2>3. \A S \in Q : Chain(m.end, w, S)
    BY <1>4, <2>1, <2>2 DEF Chain, Sorted
  <2>4. /\ Precedes(m.end, Tail(read_done), held)
        /\ Precedes(m.end, Tail(read_done), write_done)
        /\ Precedes(m.end, held, write_done)
    <3>1. ASSUME NEW S \in Q, NEW T \in Q, Precedes(r, S, T)
          PROVE  Precedes(m.end, S, T)
      BY <2>2, <3>1 DEF Precedes
    <3> QED BY <1>4, <3>1
  <2>5. RingOrder'
    BY <1>1, <1>6, <2>3, <2>4 DEF RingOrder
  <2>6. ASSUME pc = "dma"
        PROVE  WriteOffset(w, m.end, cur_len, write_off)
    BY <1>2, <1>3, <1>4, <2>6, AdvancePlace, LiveFrames DEF IInv, PlaceStillFree
  <2> QED BY <1>1, <1>6, <2>5, <2>6 DEF PlaceStillFree, cur_len
<1> QED BY <1>1, <1>5, <1>6

(* The frame pciv_trans_get_data takes off the port is first on the port    *)
(* and becomes last with the client; a refused one leaves the walk.         *)
LEMMA GetDataOrder ==
  IInv /\ (GetData \/ GetDataRefused) => RingOrder'
<1> SUFFICES ASSUME IInv, GetData \/ GetDataRefused PROVE RingOrder'
  OBVIOUS
<1> DEFINE m == Head(write_done)
           f == [start |-> m.start, end |-> m.end]
           r == read_pos
           w == write_pos
           rest == Tail(write_done)
<1>1. /\ write_done # <<>> /\ write_done' = rest
      /\ held' \in {held, Append(held, f)}
      /\ UNCHANGED <<read_done, read_pos, write_pos>>
  BY DEF GetData, GetDataRefused, sender, senderThread, receiver
<1>2. /\ TypeOK /\ RingOrder
      /\ read_done \in Seq(Notify) /\ held \in Seq(Frame)
      /\ write_done \in Seq(Notify)
  BY DEF IInv, TypeOK
<1>3. f \in Frame /\ rest \in Seq(Notify)
  <2>1. m \in Notify
    BY <1>1, <1>2
  <2> QED BY <1>1, <1>2, <2>1 DEF Notify, Frame
<1>4. f.start = m.start /\ f.end = m.end
  OBVIOUS
<1> HIDE DEF f
<1>5. /\ Chain(r, w, rest) /\ InWindow(r, w, m)
      /\ \A i \in DOMAIN rest : Before(r, m, rest[i])
      /\ Precedes(r, read_done, rest) /\ Precedes(r, held, rest)
      /\ \A i \in DOMAIN read_done : Before(r, read_done[i], m)
      /\ \A i \in DOMAIN held : Before(r, held[i], m)
      /\ Precedes(r, read_done, held) /\ Chain(r, w, read_done)
      /\ Chain(r, w, held)
  BY <1>1, <1>2, ChainTail, TailPrecedes DEF RingOrder
<1>6. /\ InWindow(r, w, f)
      /\ \A i \in DOMAIN rest : Before(r, f, rest[i])
      /\ \A i \in DOMAIN read_done : Before(r, read_done[i], f)
      /\ \A i \in DOMAIN held : Before(r, held[i], f)
  BY <1>4, <1>5, SamePlace
<1>7. CASE held' = held
  BY <1>1, <1>5, <1>7 DEF RingOrder
<1>8. CASE held' = Append(held, f)
  <2>1. Chain(r, w, Append(held, f))
    BY <1>2, <1>3, <1>5, <1>6, ChainAppend
  <2>2. Precedes(r, read_done, Append(held, f))
    BY <1>2, <1>3, <1>5, <1>6, PrecedesAppend
  <2>3. Precedes(r, Append(held, f), rest)
    BY <1>2, <1>3, <1>5, <1>6, AppendPrecedes
  <2> QED BY <1>1, <1>5, <1>8, <2>1, <2>2, <2>3 DEF RingOrder
<1> QED BY <1>1, <1>7, <1>8

(* The frame pciv_trans_release_data gives back moves to the end of the     *)
(* READ_DONE port, stays held, or (message lost, frame forgotten) leaves.   *)
LEMMA ReleaseDataOrder == IInv /\ ReleaseData => RingOrder'
<1> SUFFICES ASSUME IInv, ReleaseData PROVE RingOrder'
  OBVIOUS
<1> DEFINE f == Head(held)
           m == [start |-> f.start, end |-> f.end, seq |-> rcv_free_seq]
           r == read_pos
           w == write_pos
           rest == Tail(held)
<1>1. /\ held # <<>> /\ held' \in {held, rest}
      /\ \/ read_done' = read_done
         \/ read_done' = Append(read_done, m) /\ held' = rest
      /\ UNCHANGED <<write_done, read_pos, write_pos>>
  BY DEF ReleaseData, sender, senderThread, receiver
<1>2. /\ TypeOK /\ RingOrder
      /\ read_done \in Seq(Notify) /\ held \in Seq(Frame)
      /\ write_done \in Seq(Notify)
  BY DEF IInv, TypeOK
<1>3. m \in Notify /\ rest \in Seq(Frame)
  <2>1. f \in Frame
    BY <1>1, <1>2
  <2> QED BY <1>1, <1>2, <2>1 DEF Notify, Frame, TypeOK
<1>4. m.start = f.start /\ m.end = f.end
  OBVIOUS
<1> HIDE DEF m
<1>5. /\ Chain(r, w, rest) /\ InWindow(r, w, f)
      /\ \A i \in DOMAIN rest : Before(r, f, rest[i])
      /\ Precedes(r, read_done, rest) /\ Precedes(r, rest, write_done)
      /\ \A i \in DOMAIN read_done : Before(r, read_done[i], f)
      /\ \A i \in DOMAIN write_done : Before(r, f, write_done[i])
      /\ Precedes(r, read_done, write_done)
      /\ Chain(r, w, read_done) /\ Chain(r, w, write_done)
  BY <1>1, <1>2, ChainTail, PrecedesTail, TailPrecedes DEF RingOrder
<1>6. /\ InWindow(r, w, m)
      /\ \A i \in DOMAIN rest : Before(r, m, rest[i])
      /\ \A i \in DOMAIN read_done : Before(r, read_done[i], m)
      /\ \A i \in DOMAIN write_done : Before(r, m, write_done[i])
  BY <1>4, <1>5, SamePlace
<1>7. CASE read_done' = read_done /\ held' = held
  BY <1>1, <1>2, <1>7 DEF RingOrder
<1>8. CASE read_done' = read_done /\ held' = rest
  BY <1>1, <1>5, <1>8 DEF RingOrder
<1>9. CASE read_done' = Append(read_done, m) /\ held' = rest
  <2>1. Chain(r, w, Append(read_done, m))
    BY <1>2, <1>3, <1>5, <1>6, ChainAppend
  <2>2. Precedes(r, Append(read_done, m), rest)
    BY <1>2, <1>3, <1>5, <1>6, AppendPrecedes
  <2>3. Precedes(r, Append(read_done, m), write_done)
    BY <1>2, <1>3, <1>5, <1>6, AppendPrecedes
  <2> QED BY <1>1, <1>5, <1>9, <2>1, <2>2, <2>3 DEF RingOrder
<1> QED BY <1>1, <1>7, <1>8, <1>9

(* Queues that are empty, and queues and positions that do not change *)
LEMMA EmptyOrder ==
  ASSUME NEW r, NEW w, NEW S
  PROVE  /\ Chain(r, w, <<>>)
         /\ Precedes(r, <<>>, S) /\ Precedes(r, S, <<>>)
BY DEF Chain, Sorted, Precedes

LEMMA OrderUnchanged ==
  ASSUME RingOrder,
         UNCHANGED <<read_pos, write_pos, read_done, held, write_done>>
  PROVE  RingOrder'
BY DEF RingOrder
-----------------------------------------------------------------------------
LEMMA InvInit == Init => IInv
<1> SUFFICES ASSUME Init PROVE IInv
  OBVIOUS
<1>1. TypeOK
  <2>1. loc_buf \in Seq(Data) /\ cur_len = 0
    BY EmptySeq DEF Init, cur_len
  <2>2. mem \in [Byte -> Data]
    BY DEF Init
  <2> QED BY <2>1, <2>2, BufLenAssumption, SeqModAssumption DEF Init, TypeOK, SeqNo
<1>2. RingOrder
  BY EmptyOrder DEF Init, RingOrder
<1> QED BY <1>1, <1>2 DEF Init, IInv, PlaceStillFree, DownIsEmpty

LEMMA InvStep == IInv /\ [Next]_vars => IInv'
<1> SUFFICES ASSUME IInv, [Next]_vars PROVE IInv'
  OBVIOUS
<1> USE DEF sender, senderThread, receiver
<1>0. TypeOK' /\ RingOrder /\ PlaceStillFree /\ DownIsEmpty
  BY TypeStep DEF IInv
<1>1. CASE InitSession
  <2>1. /\ pc' = "idle" /\ up' = "up"
        /\ held' = <<>> /\ write_done' = <<>> /\ read_done' = <<>>
    BY <1>0, <1>1 DEF InitSession, DownIsEmpty
  <2> QED
    BY <1>0, <2>1, EmptyOrder DEF IInv, RingOrder, PlaceStillFree, DownIsEmpty
<1>2. CASE EndSession
  <2>1. /\ pc' = "idle"
        /\ held' = <<>> /\ write_done' = <<>> /\ read_done' = <<>>
    BY <1>2 DEF EndSession
  <2> QED
    BY <1>0, <2>1, EmptyOrder DEF IInv, RingOrder, PlaceStillFree, DownIsEmpty
<1>3. CASE WriteLocBuf
  <2>1. RingOrder'
    BY <1>0, <1>3, OrderUnchanged DEF WriteLocBuf
  <2> QED BY <1>0, <1>3, <2>1 DEF WriteLocBuf, IInv, PlaceStillFree, DownIsEmpty
<1>4. CASE SendStart
  <2>1. RingOrder'
    BY <1>0, <1>4, OrderUnchanged DEF SendStart
  <2>2. PlaceStillFree'
    BY <1>4 DEF SendStart, PlaceStillFree, cur_len
  <2> QED BY <1>0, <1>4, <2>1, <2>2 DEF SendStart, IInv, DownIsEmpty
<1>5. CASE DmaTimeout
  <2>1. RingOrder'
    BY <1>0, <1>5, OrderUnchanged DEF DmaTimeout
  <2> QED
    BY <1>0, <1>5, <2>1 DEF DmaTimeout, IInv, PlaceStillFree, DownIsEmpty, cur_len
<1>6. CASE DmaFail
  <2>1. RingOrder'
    BY <1>0, <1>6, OrderUnchanged DEF DmaFail
  <2> QED BY <1>0, <1>6, <2>1 DEF DmaFail, IInv, PlaceStillFree, DownIsEmpty
<1>7. CASE SendFinish
  <2>1. RingOrder'
    BY <1>7, SendFinishOrder
  <2>2. pc' = "idle" /\ up' = "up"
    BY <1>0, <1>7 DEF SendFinish, DownIsEmpty, IInv, TypeOK
  <2> QED BY <1>0, <2>1, <2>2 DEF IInv, PlaceStillFree, DownIsEmpty
<1>8. CASE SenderThread
  <2>1. up' = "up"
    BY <1>8 DEF SenderThread
  <2> QED BY <1>0, <1>8, <2>1, SenderThreadOrder DEF IInv, DownIsEmpty
<1>9. CASE GetData \/ GetDataRefused
  <2>1. up' = "up" /\ UNCHANGED <<pc, write_pos, read_pos, loc_buf, write_off>>
    BY <1>9 DEF GetData, GetDataRefused
  <2> QED
    BY <1>0, <1>9, <2>1, GetDataOrder DEF IInv, PlaceStillFree, DownIsEmpty, cur_len
<1>10. CASE ReleaseData
  <2>1. up' = "up" /\ UNCHANGED <<pc, write_pos, read_pos, loc_buf, write_off>>
    BY <1>10 DEF ReleaseData
  <2> QED
    BY <1>0, <1>10, <2>1, ReleaseDataOrder
    DEF IInv, PlaceStillFree, DownIsEmpty, cur_len
<1>11. CASE UNCHANGED vars
  <2>1. RingOrder'
    BY <1>0, <1>11, OrderUnchanged DEF vars
  <2> QED
    BY <1>0, <1>11, <2>1 DEF vars, IInv, PlaceStillFree, DownIsEmpty, cur_len
<1> QED
  BY <1>1, <1>2, <1>3, <1>4, <1>5, <1>6, <1>7, <1>8, <1>9, <1>10, <1>11 DEF Next

(* The frames in flight keep the order of the ring, the place of a send     *)
(* under way stays free and every variable keeps its type, in every         *)
(* behaviour of the transport (pciv_trans_send_data, _sender_thread,        *)
(* _get_data, _release_data).                                               *)
THEOREM RingInvariant == Spec => []IInv
BY InvInit, InvStep, PTL DEF Spec

THEOREM TypeCorrect == Spec => []TypeOK
<1>1. IInv => TypeOK
  BY DEF IInv
<1> QED BY <1>1, RingInvariant, PTL

THEOREM OrderKept == Spec => []RingOrder
<1>1. IInv => RingOrder
  BY DEF IInv
<1> QED BY <1>1, RingInvariant, PTL

LEMMA ApartWhenSent == IInv => NoOverwrite
<1> SUFFICES ASSUME IInv, pc = "dma", NEW S \in {held, write_done},
                    NEW i \in DOMAIN S
             PROVE  Apart(S[i], write_off, write_off + cur_len)
  BY DEF NoOverwrite
<1>1. TypeOK /\ Chain(read_pos, write_pos, S)
  BY DEF IInv, RingOrder
<1>2. IsFrame(S[i]) /\ InWindow(read_pos, write_pos, S[i])
  BY <1>1, LiveFrames DEF Chain
<1> QED BY <1>1, <1>2, SendPlace, LiveFrames, PlaceApart

(* No DMA of pciv_trans_send_data ever touches a frame that is announced or *)
(* held, although read_pos is read without a lock.                          *)
THEOREM Safety == Spec => []NoOverwrite
BY ApartWhenSent, RingInvariant, PTL

-----------------------------------------------------------------------------
(* The refinement of FrameQueue *)
(* The bytes of frame f in the memory M, and the frames of a queue by their *)
(* bytes: the refinement mapping of FQ for an arbitrary memory.             *)
Bytes(M, f) == [i \in 1..(f.end - f.start) |-> M[f.start + i - 1]]
Image(M, S) == [i \in DOMAIN S |-> Bytes(M, S[i])]

(* The image of a queue under an append and under the removal of its head. *)
LEMMA ImageSeq ==
  ASSUME NEW M, NEW X, NEW S \in Seq(X)
  PROVE  /\ Image(M, S) \in Seq({Bytes(M, x) : x \in X})
         /\ Len(Image(M, S)) = Len(S)
<1> DEFINE T == {Bytes(M, x) : x \in X}
<1>1. Len(S) \in Nat /\ DOMAIN S = 1..Len(S)
  BY LenProperties
<1>2. Image(M, S) \in [1..Len(S) -> T]
  <2>1. \A i \in 1..Len(S) : Bytes(M, S[i]) \in T
    BY <1>1, ElementOfSeq
  <2> HIDE DEF T
  <2> QED BY <1>1, <2>1 DEF Image
<1> HIDE DEF T
<1>3. Image(M, S) \in Seq(T) /\ Len(Image(M, S)) = Len(S)
  BY <1>1, <1>2
<1> QED BY <1>3 DEF T

LEMMA ImageAppend ==
  ASSUME NEW M, NEW X, NEW S \in Seq(X), NEW x \in X
  PROVE  Image(M, Append(S, x)) = Append(Image(M, S), Bytes(M, x))
<1> DEFINE T == {Bytes(M, y) : y \in X}
           L == Image(M, Append(S, x))
           R == Append(Image(M, S), Bytes(M, x))
<1>1. Append(S, x) \in Seq(X) /\ Len(Append(S, x)) = Len(S) + 1 /\ Len(S) \in Nat
  OBVIOUS
<1>2. L \in Seq(T) /\ Len(L) = Len(S) + 1
  BY <1>1, ImageSeq
<1>3. Image(M, S) \in Seq(T) /\ Len(Image(M, S)) = Len(S) /\ Bytes(M, x) \in T
  BY ImageSeq
<1> HIDE DEF T
<1>4. R \in Seq(T) /\ Len(R) = Len(S) + 1
  BY <1>3
<1>5. ASSUME NEW i \in 1..Len(L) PROVE L[i] = R[i]
  <2>1. i \in DOMAIN Append(S, x)
    BY <1>1, <1>2, LenProperties
  <2>2. L[i] = Bytes(M, Append(S, x)[i])
    BY <2>1 DEF Image
  <2>3. CASE i = Len(S) + 1
    BY <1>3, <2>2, <2>3
  <2>4. CASE i \in 1..Len(S)
    <3>1. R[i] = Image(M, S)[i] /\ Append(S, x)[i] = S[i]
      BY <1>3, <2>4
    <3>2. i \in DOMAIN S
      BY <2>4, LenProperties
    <3>3. Image(M, S)[i] = Bytes(M, S[i])
      BY <3>2 DEF Image
    <3> QED BY <2>2, <3>1, <3>3
  <2>5. i = Len(S) + 1 \/ i \in 1..Len(S)
    <3> HIDE DEF L
    <3> QED BY <1>1, <1>2
  <2> QED BY <2>3, <2>4, <2>5
<1> HIDE DEF L, R
<1> QED BY <1>2, <1>4, <1>5, SeqEqual DEF L, R

LEMMA ImageTail ==
  ASSUME NEW M, NEW X, NEW S \in Seq(X), S # <<>>
  PROVE  /\ Image(M, Tail(S)) = Tail(Image(M, S))
         /\ Head(Image(M, S)) = Bytes(M, Head(S))
<1> DEFINE T == {Bytes(M, y) : y \in X}
           L == Image(M, Tail(S))
           R == Tail(Image(M, S))
<1>1. Len(S) \in Nat \ {0} /\ Tail(S) \in Seq(X) /\ Len(Tail(S)) = Len(S) - 1
      /\ \A i \in 1..Len(Tail(S)) : Tail(S)[i] = S[i + 1]
  BY EmptySeq, HeadTailProperties
<1>2. L \in Seq(T) /\ Len(L) = Len(S) - 1
  BY <1>1, ImageSeq
<1>3. Image(M, S) \in Seq(T) /\ Len(Image(M, S)) = Len(S) /\ Image(M, S) # <<>>
  <2>1. Image(M, S) \in Seq(T) /\ Len(Image(M, S)) = Len(S)
    BY ImageSeq
  <2> QED BY <1>1, <2>1, EmptySeq
<1> HIDE DEF T
<1>4. R \in Seq(T) /\ Len(R) = Len(S) - 1 /\ \A i \in 1..Len(R) : R[i] = Image(M, S)[i + 1]
  BY <1>3, HeadTailProperties
<1>5. \A i \in 1..Len(S) : Image(M, S)[i] = Bytes(M, S[i])
  BY LenProperties DEF Image
<1>6. ASSUME NEW i \in 1..Len(L) PROVE L[i] = R[i]
  <2>1. L[i] = Bytes(M, Tail(S)[i])
    BY <1>1, <1>2, LenProperties DEF Image
  <2> QED BY <1>1, <1>2, <1>4, <1>5, <2>1
<1>7. Head(Image(M, S)) = Image(M, S)[1] /\ Head(S) = S[1]
  BY <1>1, <1>3
<1> HIDE DEF L, R
<1>8. L = R
  BY <1>2, <1>4, <1>6, SeqEqual
<1> QED BY <1>1, <1>5, <1>7, <1>8 DEF L, R

LEMMA ImageNonempty ==
  ASSUME NEW M, NEW X, NEW S \in Seq(X), S # <<>>
  PROVE  Image(M, S) # <<>>
<1>1. Len(S) # 0 /\ Len(Image(M, S)) = Len(S)
  BY EmptySeq, ImageSeq
<1> QED BY <1>1, EmptySeq

(* A queue whose frames keep their bytes keeps its image. *)
LEMMA ImageKept ==
  ASSUME NEW M, NEW N, NEW S, \A i \in DOMAIN S : Bytes(N, S[i]) = Bytes(M, S[i])
  PROVE  Image(N, S) = Image(M, S)
BY DEF Image

-----------------------------------------------------------------------------
(* A frame away from the place of the send keeps its bytes while the DMA     *)
(* writes there.                                                            *)
LEMMA BytesKept ==
  ASSUME TypeOK, NEW n \in 0..cur_len,
         NEW f, f.start \in Nat, f.end \in Nat, f.end <= BufLen,
         Apart(f, write_off, write_off + cur_len)
  PROVE  Bytes(Written(n), f) = Bytes(mem, f)
<1>1. ASSUME NEW i \in 1..(f.end - f.start)
      PROVE  Written(n)[f.start + i - 1] = mem[f.start + i - 1]
  <2>1. f.start + i - 1 \in Byte
    BY BufLenAssumption DEF Byte
  <2>2. write_off \in Int /\ cur_len \in Nat
    BY DEF TypeOK, cur_len
  <2>3. ~(write_off <= f.start + i - 1 /\ f.start + i - 1 < write_off + n)
    BY <2>2 DEF Apart
  <2> QED BY <2>1, <2>3 DEF Written
<1> QED BY <1>1 DEF Bytes

(* The DMA disturbs neither an announced frame nor one that is held.        *)
LEMMA FramesKept ==
  ASSUME IInv, pc = "dma", NEW n \in 0..cur_len, mem' = Written(n)
  PROVE  /\ Image(mem', write_done) = Image(mem, write_done)
         /\ Image(mem', held) = Image(mem, held)
<1>1. ASSUME NEW S \in {held, write_done}, NEW i \in DOMAIN S
      PROVE  Bytes(mem', S[i]) = Bytes(mem, S[i])
  <2>1. Apart(S[i], write_off, write_off + cur_len)
    BY ApartWhenSent DEF NoOverwrite
  <2>2. TypeOK /\ IsFrame(S[i])
    BY LiveFrames DEF IInv
  <2> QED BY <2>1, <2>2, BytesKept, BufLenAssumption DEF IsFrame, Pos
<1> QED BY <1>1, ImageKept

(* What a frame in the window holds is a payload of the abstract queue.     *)
LEMMA BytesType ==
  ASSUME NEW M \in [Byte -> Data], NEW f, f.start \in Pos, f.end \in Pos, f.start <= f.end
  PROVE  Bytes(M, f) \in UNION {[1..n -> Data] : n \in 0..BufLen}
<1>1. f.end - f.start \in 0..BufLen
  BY BufLenAssumption DEF Pos
<1>2. \A i \in 1..(f.end - f.start) : M[f.start + i - 1] \in Data
  <2>1. \A i \in 1..(f.end - f.start) : f.start + i - 1 \in Byte
    BY BufLenAssumption DEF Pos, Byte
  <2> QED BY <2>1
<1>3. Bytes(M, f) \in [1..(f.end - f.start) -> Data]
  BY <1>2 DEF Bytes
<1> QED BY <1>1, <1>3

-----------------------------------------------------------------------------
(* The two queues of FrameQueue, as FQ instantiates them *)
LEMMA Mapped ==
  /\ [i \in DOMAIN write_done |-> Content(write_done[i])] = Image(mem, write_done)
  /\ [i \in DOMAIN held |-> Content(held[i])] = Image(mem, held)
BY DEF Content, Image, Bytes

LEMMA MappedNext ==
  /\ [i \in DOMAIN write_done |-> Content(write_done[i])]' = Image(mem', write_done')
  /\ [i \in DOMAIN held |-> Content(held[i])]' = Image(mem', held')
BY DEF Content, Image, Bytes

LEMMA EmptyImage == ASSUME NEW M PROVE Image(M, <<>>) = <<>>
BY ImageSeq, EmptySeq

LEMMA MapInit == Init => FQ!FQInit
BY Mapped, EmptyImage DEF Init, FQ!FQInit

(* Every step of the transport is one of the queue or changes nothing of it *)
LEMMA MapStep == IInv /\ [Next]_vars => [FQ!FQNext]_FQ!fqVars
<1> SUFFICES ASSUME IInv, [Next]_vars
             PROVE  [FQ!FQNext]_FQ!fqVars
  OBVIOUS
<1> DEFINE q  == Image(mem, write_done)
           l  == Image(mem, held)
           q2 == Image(mem', write_done')
           l2 == Image(mem', held')
           Payloads == UNION {[1..n -> Data] : n \in 0..BufLen}
<1>0. /\ TypeOK /\ DownIsEmpty
      /\ write_done \in Seq(Notify) /\ held \in Seq(Frame)
  BY DEF IInv, TypeOK
<1>a. SUFFICES \/ q2 = q /\ l2 = l
               \/ (\E x \in Payloads : q2 = Append(q, x)) /\ l2 = l
               \/ q # <<>> /\ l2 = Append(l, Head(q)) /\ q2 = Tail(q)
               \/ q # <<>> /\ q2 = Tail(q) /\ l2 = l
               \/ l # <<>> /\ l2 = Tail(l) /\ q2 = q
               \/ q2 = <<>> /\ l2 = <<>>
  BY Mapped, MappedNext
  DEF FQ!FQNext, FQ!fqVars, FQ!Put, FQ!Deliver, FQ!Discard, FQ!GiveBack, FQ!Shutdown
<1> USE DEF sender, senderThread, receiver
<1>1. CASE UNCHANGED <<mem, held, write_done>>
  BY <1>1
<1>2. CASE InitSession \/ EndSession
  <2>1. held' = <<>> /\ write_done' = <<>>
    BY <1>0, <1>2 DEF InitSession, EndSession, DownIsEmpty
  <2> QED BY <2>1, EmptyImage
<1>3. CASE DmaTimeout \/ DmaFail
  <2>1. /\ pc = "dma" /\ held' = held /\ write_done' = write_done
        /\ \E n \in 0..cur_len : mem' = Written(n)
    BY <1>3 DEF DmaTimeout, DmaFail
  <2> QED BY <2>1, FramesKept
<1>4. CASE SendFinish
  <2> DEFINE m == [start |-> write_off, end |-> write_off + cur_len, seq |-> snd_seq]
  <2>1. /\ pc = "dma" /\ mem' = Written(cur_len) /\ held' = held
        /\ write_done' \in {write_done, Append(write_done, m)}
    BY <1>4 DEF SendFinish
  <2>2. cur_len \in Nat /\ write_off \in Pos /\ write_off + cur_len \in Pos
    BY <2>1, SendPlace
  <2>3. Image(mem', write_done) = q /\ Image(mem', held) = l
    BY <2>1, <2>2, FramesKept
  <2>4. CASE write_done' = write_done
    BY <2>1, <2>3, <2>4
  <2>5. CASE write_done' = Append(write_done, m)
    <3>1. m \in Notify /\ m.start = write_off /\ m.end = write_off + cur_len
      BY <1>0, <2>2 DEF TypeOK, Notify, Pos
    <3>2. mem' \in [Byte -> Data]
      BY <1>0, <2>1, <2>2, WrittenType
    <3> HIDE DEF m
    <3>3. Bytes(mem', m) \in Payloads
      <4>1. m.start \in Pos /\ m.end \in Pos /\ m.start <= m.end
        BY <2>2, <3>1, BufLenAssumption DEF Pos
      <4> QED BY <3>2, <4>1, BytesType
    <3>4. q2 = Append(q, Bytes(mem', m))
      BY <1>0, <2>3, <2>5, <3>1, ImageAppend
    <3> QED BY <2>1, <2>3, <3>3, <3>4
  <2> QED BY <2>1, <2>4, <2>5
<1>5. CASE GetData
  <2> DEFINE m == Head(write_done)
             f == [start |-> m.start, end |-> m.end]
  <2>1. /\ write_done # <<>> /\ held' = Append(held, f)
        /\ write_done' = Tail(write_done) /\ mem' = mem
    BY <1>5 DEF GetData
  <2>2. m \in Notify
    BY <1>0, <2>1
  <2>3. f \in Frame /\ Bytes(mem, f) = Bytes(mem, m)
    BY <2>2 DEF Notify, Frame, Bytes
  <2> HIDE DEF f
  <2>4. l2 = Append(l, Bytes(mem, m))
    BY <1>0, <2>1, <2>3, ImageAppend
  <2>5. q2 = Tail(q) /\ Head(q) = Bytes(mem, m)
    BY <1>0, <2>1, ImageTail
  <2>6. q # <<>>
    BY <1>0, <2>1, ImageNonempty
  <2> QED BY <2>4, <2>5, <2>6
<1>6. CASE GetDataRefused
  <2>1. write_done # <<>> /\ write_done' = Tail(write_done) /\ mem' = mem /\ held' = held
    BY <1>6 DEF GetDataRefused
  <2>2. q2 = Tail(q)
    BY <1>0, <2>1, ImageTail
  <2>3. q # <<>>
    BY <1>0, <2>1, ImageNonempty
  <2> QED BY <2>1, <2>2, <2>3
<1>7. CASE ReleaseData
  <2>1. held # <<>> /\ held' \in {held, Tail(held)} /\ mem' = mem /\ write_done' = write_done
    BY <1>7 DEF ReleaseData
  <2>2. CASE held' = held
    BY <2>1, <2>2
  <2>3. CASE held' = Tail(held)
    <3>1. l2 = Tail(l)
      BY <1>0, <2>1, <2>3, ImageTail
    <3>2. l # <<>>
      BY <1>0, <2>1, ImageNonempty
    <3> QED BY <2>1, <3>1, <3>2
  <2> QED BY <2>1, <2>2, <2>3
<1>8. CASE WriteLocBuf \/ SendStart \/ SenderThread \/ UNCHANGED vars
  BY <1>1, <1>8 DEF WriteLocBuf, SendStart, SenderThread, vars
<1> QED BY <1>2, <1>3, <1>4, <1>5, <1>6, <1>7, <1>8 DEF Next

(* Frames are delivered whole and in the order in which they were announced: *)
(* the ring, its positions and the two ports implement the FIFO of           *)
(* FrameQueue, whatever faults there are.                                    *)
THEOREM Refines == Spec => DeliversInOrder
BY RingInvariant, MapInit, MapStep, PTL DEF Spec, DeliversInOrder, FQ!FQSpec

-----------------------------------------------------------------------------
(* NothingRefused *)
(* The test "diff <= 1" of both ends accepts the number after the last one   *)
(* and the last one itself, across the wrap-around of td_u32.                *)
LEMMA SeqArith ==
  ASSUME NEW a \in SeqNo
  PROVE  InSequence(a, a) /\ InSequence(SeqNext(a), a)
<1>1. SeqDiff(a, a) = 0
  BY SeqModAssumption DEF SeqDiff, SeqNo
<1>2. CASE a + 1 < SeqMod
  <2>1. SeqNext(a) = a + 1
    BY <1>2, SeqModAssumption DEF SeqNext, SeqNo
  <2>2. SeqDiff(a + 1, a) = 1
    BY SeqModAssumption DEF SeqDiff, SeqNo
  <2> QED BY <1>1, <2>1, <2>2 DEF InSequence
<1>3. CASE a + 1 = SeqMod
  <2>1. SeqNext(a) = 0
    BY <1>3, SeqModAssumption DEF SeqNext, SeqNo
  <2>2. SeqDiff(0, a) = 1
    BY <1>3, SeqModAssumption DEF SeqDiff, SeqNo
  <2> QED BY <1>1, <2>1, <2>2 DEF InSequence
<1> QED BY <1>2, <1>3, SeqModAssumption DEF SeqNo

(* No more than BufLen things start at different bytes of the ring. *)
LEMMA Room ==
  ASSUME NEW n \in Nat, NEW g \in [0..n -> 0..(BufLen - 1)],
         \A i, j \in 0..n : i < j => g[i] # g[j]
  PROVE  n < BufLen
<1>1. IsFiniteSet(0..n) /\ Cardinality(0..n) = n + 1
  BY FS_Interval
<1>2. IsFiniteSet(0..(BufLen - 1)) /\ Cardinality(0..(BufLen - 1)) = BufLen
  BY FS_Interval, BufLenAssumption
<1>3. g \in Injection(0..n, 0..(BufLen - 1))
  BY DEF Injection, IsInjective
<1> QED BY <1>1, <1>2, <1>3, FS_Injection, BufLenAssumption

-----------------------------------------------------------------------------
(* The ports lose nothing and no empty frame is sent: what the driver       *)
(* stores for a port is enough for as many frames as the ring has bytes.    *)
Reliable == "msg" \notin Faults /\ "empty" \notin Faults /\ BufLen <= QueueCap

(* Reliable is about constants only; Solid says that no frame is empty, which *)
(* the range test of pciv_trans_get_data would refuse.                       *)
Solid ==
  /\ pc = "dma" => cur_len > 0
  /\ \A S \in {read_done, held, write_done} : \A i \in DOMAIN S : S[i].start < S[i].end

(* The messages on a port are numbered without a gap from the number after  *)
(* the last one accepted, or from that number itself (both ends start at 0) *)
(* to the one before the next to be used.                                   *)
Numbered(Q, last, next) ==
  /\ \A i \in DOMAIN Q : i + 1 \in DOMAIN Q => Q[i + 1].seq = SeqNext(Q[i].seq)
  /\ Q # <<>> => Q[1].seq \in {last, SeqNext(last)} /\ next = SeqNext(Q[Len(Q)].seq)
  /\ Q = <<>> => next \in {last, SeqNext(last)}

NumberedOk ==
  up = "up" =>
    Numbered(write_done, rcv_seq, snd_seq) /\ Numbered(read_done, snd_free_seq, rcv_free_seq)

RInv == IInv /\ Solid /\ NumberedOk

(* The numbering under a send, a receive and the start of a session. *)
LEMMA NumberedAppend ==
  ASSUME NEW Q \in Seq(Notify), NEW last \in SeqNo, NEW next \in SeqNo, Numbered(Q, last, next),
         NEW m \in Notify, m.seq = next
  PROVE  Numbered(Append(Q, m), last, SeqNext(next))
<1> DEFINE R == Append(Q, m)
<1>1. /\ R \in Seq(Notify) /\ Len(R) = Len(Q) + 1 /\ Len(Q) \in Nat /\ R # <<>>
      /\ DOMAIN R = 1..(Len(Q) + 1) /\ DOMAIN Q = 1..Len(Q)
      /\ R[Len(Q) + 1] = m /\ \A i \in 1..Len(Q) : R[i] = Q[i]
  BY AppendProperties
<1> HIDE DEF R
<1>2. ASSUME NEW i \in DOMAIN R, i + 1 \in DOMAIN R PROVE R[i + 1].seq = SeqNext(R[i].seq)
  <2>1. CASE i = Len(Q)
    <3>1. Q # <<>>
      BY <1>1, <2>1, EmptySeq
    <3>2. R[i + 1].seq = next /\ R[i] = Q[Len(Q)]
      BY <1>1, <1>2, <2>1
    <3> QED BY <3>1, <3>2 DEF Numbered
  <2>2. CASE i < Len(Q)
    <3>1. i \in DOMAIN Q /\ i + 1 \in DOMAIN Q
      BY <1>1, <1>2, <2>2
    <3> QED BY <1>1, <3>1 DEF Numbered
  <2> QED BY <1>1, <1>2, <2>1, <2>2
<1>3. R[1].seq \in {last, SeqNext(last)}
  <2>1. CASE Q = <<>>
    BY <1>1, <2>1, EmptySeq DEF Numbered
  <2>2. CASE Q # <<>>
    BY <1>1, <2>2, EmptySeq DEF Numbered
  <2> QED BY <2>1, <2>2
<1>4. SeqNext(next) = SeqNext(R[Len(R)].seq)
  BY <1>1
<1> QED BY <1>1, <1>2, <1>3, <1>4 DEF Numbered, R

LEMMA NumberedTail ==
  ASSUME NEW Q \in Seq(Notify), NEW last, NEW next, Numbered(Q, last, next), Q # <<>>
  PROVE  Numbered(Tail(Q), Head(Q).seq, next)
<1> DEFINE R == Tail(Q)
<1>1. /\ R \in Seq(Notify) /\ Len(R) = Len(Q) - 1 /\ Len(Q) \in Nat \ {0}
      /\ DOMAIN R = 1..(Len(Q) - 1) /\ DOMAIN Q = 1..Len(Q)
      /\ \A i \in 1..(Len(Q) - 1) : R[i] = Q[i + 1]
      /\ Head(Q) = Q[1]
  BY HeadTailProperties, EmptySeq, LenProperties
<1>2. R = <<>> <=> Len(Q) = 1
  BY <1>1, EmptySeq
<1> HIDE DEF R
<1>3. ASSUME NEW i \in DOMAIN R, i + 1 \in DOMAIN R PROVE R[i + 1].seq = SeqNext(R[i].seq)
  <2>1. i + 1 \in DOMAIN Q /\ i + 1 + 1 \in DOMAIN Q
    BY <1>1, <1>3
  <2> QED BY <1>1, <1>3, <2>1 DEF Numbered
<1>4. CASE R # <<>>
  <2>1. 1 \in DOMAIN Q /\ 1 + 1 \in DOMAIN Q
    BY <1>1, <1>2, <1>4
  <2>2. R[1].seq = SeqNext(Q[1].seq)
    <3>1. Q[1 + 1].seq = SeqNext(Q[1].seq)
      BY <2>1 DEF Numbered
    <3>2. R[1] = Q[1 + 1]
      BY <1>1, <1>2, <1>4
    <3> QED BY <3>1, <3>2
  <2>3. R[Len(R)] = Q[Len(Q)]
    BY <1>1, <1>2, <1>4
  <2> QED BY <1>1, <1>3, <1>4, <2>2, <2>3 DEF Numbered, R
<1>5. CASE R = <<>>
  BY <1>1, <1>2, <1>3, <1>5 DEF Numbered, R
<1> QED BY <1>4, <1>5

LEMMA NumberedEmpty == ASSUME NEW a PROVE Numbered(<<>>, a, a)
BY DEF Numbered

(* The head of a port is the message that its reader expects. *)
LEMMA HeadExpected ==
  ASSUME NEW Q \in Seq(Notify), NEW last \in SeqNo, NEW next, Numbered(Q, last, next), Q # <<>>
  PROVE  InSequence(Head(Q).seq, last)
BY SeqArith, EmptySeq DEF Numbered

(* Solid frames that follow each other in the ring start at different bytes, *)
(* so a port with room for BufLen messages has room for one more.            *)
LEMMA PortHasRoom ==
  ASSUME NEW r, NEW X, NEW S \in Seq(X), NEW m, Sorted(r, S),
         \A i \in DOMAIN S : Before(r, S[i], m),
         \A i \in DOMAIN S : IsFrame(S[i]) /\ S[i].start < S[i].end,
         IsFrame(m), m.start < m.end, r \in Pos
  PROVE  Len(S) < BufLen
<1> DEFINE g == [i \in 0..Len(S) |-> IF i = 0 THEN m.start ELSE S[i].start]
<1>1. Len(S) \in Nat /\ DOMAIN S = 1..Len(S)
  BY LenProperties
<1>2. \A i \in 0..Len(S) : g[i] \in 0..(BufLen - 1)
  BY <1>1, BufLenAssumption DEF IsFrame, Pos
<1>3. ASSUME NEW f, NEW h, IsFrame(f), IsFrame(h), f.start < f.end, h.start < h.end, Before(r, f, h)
      PROVE  f.start # h.start
  BY <1>3, BufLenAssumption DEF IsFrame, Pos, Before
<1>4. ASSUME NEW i \in 0..Len(S), NEW j \in 0..Len(S), i < j PROVE g[i] # g[j]
  <2>1. CASE i = 0
    BY <1>1, <1>3, <1>4, <2>1
  <2>2. CASE i # 0
    <3>1. i \in DOMAIN S /\ j \in DOMAIN S /\ Before(r, S[i], S[j])
      BY <1>1, <1>4, <2>2 DEF Sorted
    <3> QED BY <1>1, <1>3, <1>4, <2>2, <3>1
  <2> QED BY <2>1, <2>2
<1> QED BY <1>1, <1>2, <1>4, Room

LEMMA RInit == Init => RInv
<1>1. Init => IInv
  BY InvInit
<1>2. Init => Solid
  BY DEF Init, Solid
<1>3. Init => NumberedOk
  BY DEF Init, NumberedOk
<1> QED BY <1>1, <1>2, <1>3 DEF RInv

(* With room on the port and no fault a frame that was written is announced. *)
LEMMA Announced ==
  ASSUME Reliable, RInv, SendFinish
  PROVE  /\ write_done' = Append(write_done, [start |-> write_off, end |-> write_off + cur_len,
                                            seq |-> snd_seq])
         /\ [start |-> write_off, end |-> write_off + cur_len, seq |-> snd_seq] \in Notify
         /\ cur_len > 0 /\ cur_len \in Nat /\ write_off \in Pos
<1> DEFINE m == [start |-> write_off, end |-> write_off + cur_len, seq |-> snd_seq]
<1>1. /\ WriteOffset(write_pos, read_pos, cur_len, write_off)
      /\ write_off \in Pos /\ write_off + cur_len \in Pos /\ cur_len \in Nat
  BY SendPlace DEF RInv, SendFinish
<1>2. cur_len > 0
  BY DEF RInv, Solid, SendFinish
<1>3. TypeOK /\ RingOrder /\ write_done \in Seq(Notify) /\ m \in Notify
  BY <1>1 DEF RInv, IInv, TypeOK, Notify, Pos
<1>4. m.start = write_off /\ m.end = write_off + cur_len
  OBVIOUS
<1> HIDE DEF m
<1>5. IsFrame(m) /\ m.start < m.end
  BY <1>1, <1>2, <1>4 DEF IsFrame, Pos
<1>6. \A i \in DOMAIN write_done :
        IsFrame(write_done[i]) /\ InWindow(read_pos, write_pos, write_done[i])
  BY <1>3, LiveFrames DEF RingOrder, Chain
<1>7. read_pos \in Pos /\ write_pos \in Pos
  BY <1>3, LiveFrames
<1>8. \A i \in DOMAIN write_done : Before(read_pos, write_done[i], m)
  BY <1>1, <1>4, <1>6, <1>7, Extend
<1>9. Sorted(read_pos, write_done)
  BY <1>3 DEF RingOrder, Chain
<1>10. \A i \in DOMAIN write_done : write_done[i].start < write_done[i].end
  BY DEF RInv, Solid
<1>11. Len(write_done) < BufLen
  BY <1>3, <1>5, <1>6, <1>7, <1>8, <1>9, <1>10, PortHasRoom
<1>12. ~CanFail(write_done)
  BY <1>3, <1>11, BufLenAssumption, QueueCapAssumption, LenProperties DEF Reliable, CanFail
<1> QED BY <1>1, <1>2, <1>3, <1>12 DEF SendFinish, m

(* ... and a frame that is given back is given back.                        *)
LEMMA GivenBack ==
  ASSUME Reliable, RInv, ReleaseData
  PROVE  /\ read_done' = Append(read_done, [start |-> Head(held).start, end |-> Head(held).end,
                                          seq |-> rcv_free_seq])
         /\ [start |-> Head(held).start, end |-> Head(held).end, seq |-> rcv_free_seq] \in Notify
         /\ Head(held).start < Head(held).end /\ held' = Tail(held)
<1> DEFINE f == Head(held)
<1>1. /\ TypeOK /\ RingOrder /\ held # <<>>
      /\ read_done \in Seq(Notify) /\ held \in Seq(Frame)
  BY DEF RInv, IInv, TypeOK, ReleaseData
<1>2. f \in Frame /\ f = held[1] /\ 1 \in DOMAIN held
  BY <1>1, EmptySeq
<1>3. f.start < f.end
  BY <1>2 DEF RInv, Solid
<1>4. IsFrame(f)
  BY <1>2 DEF IsFrame, Frame, Pos
<1>5. \A i \in DOMAIN read_done : Before(read_pos, read_done[i], f)
  BY <1>1, <1>2 DEF RingOrder, Precedes
<1>6. Sorted(read_pos, read_done)
  BY <1>1 DEF RingOrder, Chain
<1>7. \A i \in DOMAIN read_done : IsFrame(read_done[i]) /\ read_done[i].start < read_done[i].end
  BY <1>1, LiveFrames DEF RInv, Solid
<1>8. read_pos \in Pos
  BY <1>1, LiveFrames
<1> HIDE DEF f
<1>9. Len(read_done) < BufLen
  BY <1>1, <1>3, <1>4, <1>5, <1>6, <1>7, <1>8, PortHasRoom
<1>10. ~CanFail(read_done)
  BY <1>1, <1>9, BufLenAssumption, QueueCapAssumption, LenProperties DEF Reliable, CanFail
<1>11. [start |-> f.start, end |-> f.end, seq |-> rcv_free_seq] \in Notify
  BY <1>1, <1>2 DEF TypeOK, Frame, Notify
<1> QED BY <1>3, <1>10, <1>11 DEF ReleaseData, f

LEMMA SolidAppend ==
  ASSUME NEW X, NEW S \in Seq(X), NEW x \in X, \A i \in DOMAIN S : S[i].start < S[i].end,
         x.start < x.end
  PROVE  \A i \in DOMAIN Append(S, x) : Append(S, x)[i].start < Append(S, x)[i].end
<1>1. DOMAIN Append(S, x) = 1..(Len(S) + 1) /\ DOMAIN S = 1..Len(S) /\ Len(S) \in Nat
  BY AppendProperties, LenProperties
<1>2. Append(S, x)[Len(S) + 1] = x /\ \A i \in 1..Len(S) : Append(S, x)[i] = S[i]
  OBVIOUS
<1> QED BY <1>1, <1>2

LEMMA SolidTail ==
  ASSUME NEW X, NEW S \in Seq(X), S # <<>>, \A i \in DOMAIN S : S[i].start < S[i].end
  PROVE  /\ \A i \in DOMAIN Tail(S) : Tail(S)[i].start < Tail(S)[i].end
         /\ Head(S).start < Head(S).end
BY EmptySeq

(* The head of a port is accepted.                                          *)
LEMMA HeadAccepted == ASSUME RInv PROVE NothingRefused
<1> SUFFICES ASSUME up = "up" PROVE NothingRefused
  BY DEF NothingRefused
<1>1. /\ TypeOK /\ write_done \in Seq(Notify) /\ read_done \in Seq(Notify)
      /\ rcv_seq \in SeqNo /\ snd_free_seq \in SeqNo
  BY DEF RInv, IInv, TypeOK
<1>2. /\ Numbered(write_done, rcv_seq, snd_seq)
      /\ Numbered(read_done, snd_free_seq, rcv_free_seq)
  BY DEF RInv, NumberedOk
<1>3. ASSUME write_done # <<>> PROVE Acceptable(Head(write_done))
  <2>1. InSequence(Head(write_done).seq, rcv_seq)
    BY <1>1, <1>2, <1>3, HeadExpected
  <2>2. Head(write_done).start < Head(write_done).end
    BY <1>1, <1>3, SolidTail DEF RInv, Solid
  <2>3. Head(write_done) \in Notify
    BY <1>1, <1>3
  <2> QED BY <2>1, <2>2, <2>3, BufLenAssumption DEF Acceptable, RangeRefused, Notify
<1>4. ASSUME read_done # <<>> PROVE InSequence(Head(read_done).seq, snd_free_seq)
  BY <1>1, <1>2, <1>4, HeadExpected
<1> QED BY <1>3, <1>4 DEF NothingRefused

LEMMA RStep == Reliable /\ RInv /\ [Next]_vars => RInv'
<1> SUFFICES ASSUME Reliable, RInv, [Next]_vars PROVE Solid' /\ NumberedOk'
  BY InvStep DEF RInv
<1> USE DEF sender, senderThread, receiver
<1>0. /\ TypeOK /\ DownIsEmpty /\ Solid /\ NumberedOk /\ NothingRefused
      /\ write_done \in Seq(Notify) /\ read_done \in Seq(Notify) /\ held \in Seq(Frame)
      /\ snd_seq \in SeqNo /\ rcv_seq \in SeqNo
      /\ snd_free_seq \in SeqNo /\ rcv_free_seq \in SeqNo
  BY HeadAccepted DEF RInv, IInv, TypeOK
<1>1. CASE InitSession
  <2>1. /\ up = "none" /\ UNCHANGED <<pc, held, write_done, read_done>>
        /\ snd_seq' = 0 /\ rcv_seq' = 0 /\ snd_free_seq' = 0 /\ rcv_free_seq' = 0
    BY <1>1 DEF InitSession
  <2>2. pc' = "idle" /\ held' = <<>> /\ write_done' = <<>> /\ read_done' = <<>>
    BY <1>0, <2>1 DEF DownIsEmpty
  <2> QED BY <2>1, <2>2, NumberedEmpty, EmptySeq DEF Solid, NumberedOk
<1>2. CASE EndSession
  <2>1. /\ up' = "none" /\ pc' = "idle"
        /\ held' = <<>> /\ write_done' = <<>> /\ read_done' = <<>>
    BY <1>2 DEF EndSession
  <2> QED BY <2>1, EmptySeq DEF Solid, NumberedOk
<1>3. CASE WriteLocBuf \/ SendStart \/ DmaTimeout \/ DmaFail \/ UNCHANGED vars
  <2>1. /\ UNCHANGED <<up, held, write_done, read_done, snd_seq, snd_free_seq,
                        rcv_seq, rcv_free_seq>>
        /\ pc' = "dma" => cur_len' > 0
    BY <1>0, <1>3 DEF WriteLocBuf, SendStart, DmaTimeout, DmaFail, vars, Solid, Reliable, cur_len
  <2> QED BY <1>0, <2>1 DEF Solid, NumberedOk
<1>4. CASE SendFinish
  <2> DEFINE m == [start |-> write_off, end |-> write_off + cur_len, seq |-> snd_seq]
  <2>1. /\ write_done' = Append(write_done, m) /\ m \in Notify
        /\ cur_len > 0 /\ cur_len \in Nat /\ write_off \in Pos
    BY <1>4, Announced
  <2>2. /\ pc' = "idle" /\ snd_seq' = SeqNext(snd_seq)
        /\ UNCHANGED <<up, held, read_done, snd_free_seq, rcv_seq, rcv_free_seq>>
    BY <1>4 DEF SendFinish
  <2>3. m.start < m.end /\ m.seq = snd_seq
    BY <2>1, BufLenAssumption DEF Pos
  <2> HIDE DEF m
  <2>4. Solid'
    BY <1>0, <2>1, <2>2, <2>3, SolidAppend DEF Solid
  <2>5. NumberedOk'
    BY <1>0, <2>1, <2>2, <2>3, NumberedAppend DEF NumberedOk
  <2> QED BY <2>4, <2>5
<1>5. CASE SenderThread
  <2> DEFINE m == Head(read_done)
  <2>1. /\ up = "up" /\ read_done # <<>> /\ read_done' = Tail(read_done)
        /\ UNCHANGED <<up, pc, loc_buf, held, write_done, snd_seq, rcv_seq, rcv_free_seq>>
    BY <1>5 DEF SenderThread
  <2>2. snd_free_seq' = m.seq
    BY <1>0, <1>5, <2>1 DEF SenderThread, NothingRefused
  <2>3. Solid'
    BY <1>0, <2>1, SolidTail DEF Solid, cur_len
  <2>4. NumberedOk'
    BY <1>0, <2>1, <2>2, NumberedTail DEF NumberedOk
  <2> QED BY <2>3, <2>4
<1>6. CASE GetData
  <2> DEFINE m == Head(write_done)
             f == [start |-> m.start, end |-> m.end]
  <2>1. /\ up = "up" /\ write_done # <<>> /\ write_done' = Tail(write_done)
        /\ held' = Append(held, f) /\ rcv_seq' = m.seq
        /\ UNCHANGED <<up, pc, loc_buf, read_done, snd_seq, snd_free_seq, rcv_free_seq>>
    BY <1>6 DEF GetData
  <2>2. /\ m.start < m.end
        /\ \A i \in DOMAIN Tail(write_done) : Tail(write_done)[i].start < Tail(write_done)[i].end
    BY <1>0, <2>1, SolidTail DEF Solid
  <2>3. m \in Notify
    BY <1>0, <2>1
  <2>4. f \in Frame /\ f.start < f.end
    BY <2>2, <2>3 DEF Notify, Frame
  <2> HIDE DEF f
  <2>5. \A i \in DOMAIN held' : held'[i].start < held'[i].end
    BY <1>0, <2>1, <2>4, SolidAppend DEF Solid
  <2>6. Solid'
    BY <1>0, <2>1, <2>2, <2>5 DEF Solid, cur_len
  <2>7. NumberedOk'
    BY <1>0, <2>1, NumberedTail DEF NumberedOk
  <2> QED BY <2>6, <2>7
<1>7. CASE GetDataRefused
  BY <1>0, <1>7 DEF GetDataRefused, NothingRefused
<1>8. CASE ReleaseData
  <2> DEFINE m == [start |-> Head(held).start, end |-> Head(held).end, seq |-> rcv_free_seq]
  <2>1. /\ read_done' = Append(read_done, m) /\ m \in Notify
        /\ Head(held).start < Head(held).end /\ held' = Tail(held)
    BY <1>8, GivenBack
  <2>2. /\ held # <<>> /\ rcv_free_seq' = SeqNext(rcv_free_seq)
        /\ UNCHANGED <<up, pc, loc_buf, write_done, snd_seq, snd_free_seq, rcv_seq>>
    BY <1>8 DEF ReleaseData
  <2>3. m.start < m.end /\ m.seq = rcv_free_seq
    BY <2>1
  <2> HIDE DEF m
  <2>4. \A i \in DOMAIN held' : held'[i].start < held'[i].end
    BY <1>0, <2>1, <2>2, SolidTail DEF Solid
  <2>5. \A i \in DOMAIN read_done' : read_done'[i].start < read_done'[i].end
    BY <1>0, <2>1, <2>3, SolidAppend DEF Solid
  <2>6. Solid'
    BY <1>0, <2>2, <2>4, <2>5 DEF Solid, cur_len
  <2>7. NumberedOk'
    BY <1>0, <2>1, <2>2, <2>3, NumberedAppend DEF NumberedOk
  <2> QED BY <2>6, <2>7
<1> QED BY <1>1, <1>2, <1>3, <1>4, <1>5, <1>6, <1>7, <1>8 DEF Next

(* With reliable ports no message is refused: pciv_trans_get_data never       *)
(* returns -1 for a frame that waits, and the sender thread never throws a    *)
(* READ_DONE away, which would leave its bytes of the ring in use.            *)
THEOREM NeverRefused == ASSUME Reliable PROVE Spec => []NothingRefused
<1>1. Init => RInv
  BY RInit
<1>2. RInv /\ [Next]_vars => RInv'
  BY RStep
<1>3. RInv => NothingRefused
  BY HeadAccepted
<1> QED BY <1>1, <1>2, <1>3, PTL DEF Spec
=============================================================================
