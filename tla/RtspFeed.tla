----------------------------- MODULE RtspFeed -----------------------------
(***************************************************************************)
(* One decoder channel of sample_comm_vdec.c fed from a camera: the thread *)
(* udp_send_thread takes frames off RTSP and the thread                    *)
(* sample_comm_vdec_send_stream hands them to the hardware decoder.  The   *)
(* two share one buffer (buf_tmp), its length (size_tmp) and one flag      *)
(* (random_int), and there is no lock: 1 says the buffer is the reader's,  *)
(* 0 that it is the sender's.  The main thread starts both and stops the   *)
(* sender; nothing ever stops the reader.                                  *)
(*                                                                         *)
(* Frames are numbered as the camera sends them; the number stands for the *)
(* bytes of the frame in the buffers, and for its length in size, len and  *)
(* copied, so that a length of another frame can be told apart.            *)
(***************************************************************************)
EXTENDS Naturals, Sequences

CONSTANTS
  MaxFrames,  \* bound on the frames of the camera
  Pieces      \* SEND_STREAM_CNT in OT_VDEC_SEND_MODE_COMPAT, else 1

ASSUME FeedAssumption == MaxFrames \in Nat /\ Pieces \in Nat \ {0}

VARIABLES
  flag,      \* random_int[chn]
  buf,       \* the frame in buf_tmp[chn], 0 when there was none
  alloc,     \* buf_tmp[chn] is not NULL
  size,      \* size_tmp[chn]: the frame whose length it is
  ctrl,      \* e_thread_ctrl
  rpc,       \* where the reader (udp_send_thread) is
  cur,       \* the frame in the reader's packet
  spc,       \* where the sender (sample_comm_vdec_send_stream) is
  len,       \* read_len: the frame whose length it is
  got,       \* the frame in buf_in
  copied,    \* the frame whose length the memcpy to buf_in was given
  piece,     \* i + 1 in sample_comm_vdec_send_stream_proc
  mpc,       \* where the main thread is
  handle,    \* vdec_thread[chn]: "none" (0), "thread", or "number", see below
  room,      \* the decoder has room for a stream packet
  taken,     \* what the decoder took, oldest first
  shown      \* history: the frames the reader has published, oldest first

shared == <<flag, buf, alloc, size>>
reader == <<rpc, cur>>
sender == <<spc, len, got, copied, piece>>
main   == <<mpc, handle, ctrl>>
decoder == <<room, taken>>
vars   == <<shared, reader, sender, main, decoder, shown>>

(* random_int is static and 0 until the sender has a buffer to offer.       *)
Init ==
  /\ flag = 0 /\ buf = 0 /\ alloc = FALSE /\ size = 0
  /\ rpc = "off" /\ cur = 0
  /\ spc = "off" /\ len = 0 /\ got = 0 /\ copied = 0 /\ piece = 0
  /\ mpc = "start" /\ handle = "none" /\ ctrl = "START"
  /\ room \in BOOLEAN /\ taken = <<>> /\ shown = <<>>

---------------------------------------------------------------------------
(* udp_send_thread *)

(* A camera that cannot be opened or has no video ends the thread for good. *)
OpenCamera ==
  /\ rpc = "open"
  /\ rpc' \in {"read", "gone"}
  /\ UNCHANGED <<cur, shared, sender, main, decoder, shown>>

(* The test of the flag.  (Faulty variant: it is left out.)                 *)
AnyTime == TRUE
MayWrite == flag = 1

(* A frame that comes while the sender has the buffer is dropped.           *)
ReadFrame ==
  /\ rpc = "read" /\ cur < MaxFrames
  /\ cur' = cur + 1
  /\ rpc' = IF MayWrite THEN "copy" ELSE "read"
  /\ UNCHANGED <<shared, sender, main, decoder, shown>>

CopyIn ==
  /\ rpc = "copy"
  /\ buf' = cur
  /\ rpc' = "publish"
  /\ UNCHANGED <<flag, alloc, size, cur, sender, main, decoder, shown>>

(* The flag is turned over first and the length stored after it.            *)
Publish ==
  /\ rpc = "publish"
  /\ flag' = 0
  /\ shown' = Append(shown, cur)
  /\ rpc' = "size"
  /\ UNCHANGED <<buf, alloc, size, cur, sender, main, decoder>>

(* (Faulty variant: the length is only stored once.)                        *)
FirstLength(n) == IF size = 0 THEN n ELSE size
Stored(n) == n

StoreSize ==
  /\ rpc = "size"
  /\ size' = Stored(cur)
  /\ rpc' = "read"
  /\ UNCHANGED <<flag, buf, alloc, cur, sender, main, decoder, shown>>

Reader == OpenCamera \/ ReadFrame \/ CopyIn \/ Publish \/ StoreSize

---------------------------------------------------------------------------
(* sample_comm_vdec_send_stream *)

AllocBuffer ==
  /\ spc = "alloc"
  /\ \/ alloc' = TRUE /\ spc' = "init"
     \/ UNCHANGED alloc /\ spc' = "done"
  /\ UNCHANGED <<flag, buf, size, len, got, copied, piece,
                 reader, main, decoder, shown>>

OfferBuffer ==
  /\ spc = "init"
  /\ flag' = 1
  /\ spc' = "top"
  /\ UNCHANGED <<buf, alloc, size, len, got, copied, piece,
                 reader, main, decoder, shown>>

(* The head of the loop: the control word first, then the flag.  (Faulty    *)
(* variant: the stop is only looked at with a frame at hand.)               *)
LeavesIdle == ctrl = "STOP" /\ flag = 0
Leaves == ctrl = "STOP"

LoopTop ==
  /\ spc = "top"
  /\ spc' = IF Leaves THEN "end" ELSE "test"
  /\ UNCHANGED <<shared, len, got, copied, piece, reader, main, decoder, shown>>

TestFlag ==
  /\ spc = "test"
  /\ spc' = IF flag = 1 THEN "top" ELSE "len"
  /\ UNCHANGED <<shared, len, got, copied, piece, reader, main, decoder, shown>>

(* size_tmp is read twice, once for read_len and once for the memcpy.       *)
ReadLen ==
  /\ spc = "len"
  /\ len' = size
  /\ spc' = "copy"
  /\ UNCHANGED <<shared, got, copied, piece, reader, main, decoder, shown>>

CopyOut ==
  /\ spc = "copy"
  /\ got' = buf /\ copied' = size
  /\ spc' = "pace"
  /\ UNCHANGED <<shared, len, piece, reader, main, decoder, shown>>

(* sample_comm_vdec_handle_send_stream: the frame waits for its time; when  *)
(* the stop comes first it is not sent at all.  Waiting is stuttering.      *)
Due ==
  /\ spc = "pace" /\ ctrl = "START"
  /\ piece' = 1
  /\ spc' = "send"
  /\ UNCHANGED <<shared, len, got, copied, reader, main, decoder, shown>>

TooLate ==
  /\ spc = "pace" /\ ctrl # "START"
  /\ spc' = "release"
  /\ UNCHANGED <<shared, len, got, copied, piece, reader, main, decoder, shown>>

(* The loop over the pieces.                                                *)
NextPiece == IF piece < Pieces
               THEN piece' = piece + 1 /\ spc' = "send"
               ELSE UNCHANGED piece /\ spc' = "release"

(* ss_mpi_vdec_send_stream, which fails when the decoder has no room        *)
SendPiece ==
  /\ spc = "send" /\ room
  /\ taken' = Append(taken, [frame |-> got, part |-> piece,
                             len |-> len, copied |-> copied])
  /\ room' \in BOOLEAN
  /\ NextPiece
  /\ UNCHANGED <<shared, len, got, copied, reader, main, shown>>

(* (Faulty variant: a refused piece is not tried again.)                    *)
AtOnce == TRUE
GivesUp == ctrl # "START"

(* A refused piece is tried again until the stop comes; the pieces after it *)
(* are then still tried, once each.                                         *)
Refused ==
  /\ spc = "send" /\ ~room /\ GivesUp
  /\ NextPiece
  /\ UNCHANGED <<shared, len, got, copied, reader, main, decoder, shown>>

Release ==
  /\ spc = "release"
  /\ flag' = 1
  /\ spc' = "top"
  /\ UNCHANGED <<buf, alloc, size, len, got, copied, piece,
                 reader, main, decoder, shown>>

(* The end of stream is sent with milli_sec = -1 and waits for room.        *)
SendEnd ==
  /\ spc = "end" /\ room
  /\ room' \in BOOLEAN
  /\ spc' = "done"
  /\ UNCHANGED <<shared, len, got, copied, piece, taken, reader, main, shown>>

Sender ==
  \/ AllocBuffer \/ OfferBuffer \/ LoopTop \/ TestFlag \/ ReadLen \/ CopyOut
  \/ Due \/ TooLate \/ SendPiece \/ Refused \/ Release \/ SendEnd

---------------------------------------------------------------------------
(* The main thread and the decoder *)

(* The result of pthread_create is not looked at.                           *)
CreateReader ==
  /\ mpc = "start"
  /\ rpc' \in {"open", "gone"}
  /\ mpc' = "create"
  /\ UNCHANGED <<cur, handle, ctrl, shared, sender, decoder, shown>>

(* The handle is set to the channel's number first: where pthread_create    *)
(* fails it is 0 on channel 0, and no thread's on the others.               *)
CreateSender ==
  /\ mpc = "create"
  /\ \E ok \in BOOLEAN :
       /\ handle' \in IF ok THEN {"thread"} ELSE {"none", "number"}
       /\ spc' = IF ok THEN "alloc" ELSE "off"
  /\ mpc' = "run"
  /\ UNCHANGED <<ctrl, len, got, copied, piece, shared, reader, decoder, shown>>

StopSending ==
  /\ mpc = "run"
  /\ ctrl' = "STOP"
  /\ mpc' = "join"
  /\ UNCHANGED <<handle, shared, reader, sender, decoder, shown>>

JoinSender ==
  /\ mpc = "join" /\ (handle = "thread" => spc = "done")
  /\ handle' = "none"
  /\ mpc' = "over"
  /\ UNCHANGED <<ctrl, shared, reader, sender, decoder, shown>>

(* Joining a number that is no thread's is undefined: the call may return,  *)
(* as above, or the process dies, and the reader with it.                   *)
JoinNoThread ==
  /\ mpc = "join" /\ handle = "number"
  /\ mpc' = "dead" /\ rpc' = "gone"
  /\ UNCHANGED <<cur, handle, ctrl, shared, sender, decoder, shown>>

Main == CreateReader \/ CreateSender \/ StopSending \/ JoinSender \/ JoinNoThread

(* The decoder works off what it has.                                       *)
Decode ==
  /\ ~room /\ room' = TRUE
  /\ UNCHANGED <<taken, shared, reader, sender, main, shown>>

Next == Reader \/ Sender \/ Main \/ Decode

Spec == Init /\ [][Next]_vars

(* Threads are scheduled and the decoder decodes.  Nothing is assumed of    *)
(* the camera, of when a frame is due and of when the program is stopped.   *)
FairSpec ==
  /\ Spec
  /\ WF_vars(Sender /\ ~Due) /\ WF_vars(JoinSender) /\ WF_vars(Decode)

---------------------------------------------------------------------------
Frame == 0..MaxFrames

TypeOK ==
  /\ flag \in {0, 1} /\ alloc \in BOOLEAN
  /\ {buf, size, cur, len, got, copied} \subseteq Frame
  /\ rpc \in {"off", "open", "read", "copy", "publish", "size", "gone"}
  /\ spc \in {"off", "alloc", "init", "top", "test", "len", "copy", "pace",
              "send", "release", "end", "done"}
  /\ piece \in 0..Pieces
  /\ mpc \in {"start", "create", "run", "join", "over", "dead"}
  /\ ctrl \in {"START", "STOP"} /\ room \in BOOLEAN
  /\ handle \in {"none", "thread", "number"}
  /\ taken \in Seq([frame : Frame, part : 1..Pieces, len : Frame, copied : Frame])
  /\ shown \in Seq(Frame)

(* The buffer has one user at a time, though only a flag guards it: the     *)
(* reader writes it only when it exists and while the sender neither copies *)
(* it nor measures it.                                                      *)
BufferExclusive ==
  rpc = "copy" => alloc /\ spc \notin {"len", "copy"}

(* What the decoder has: until the stop, every frame the reader published   *)
(* but the last, in all its pieces, in order and once; of the last one the  *)
(* first pieces.  After the stop pieces may be missing, none is twice.      *)
OnceInOrder ==
  /\ \A i \in 1..Len(taken) - 1 :
       \/ taken[i].frame < taken[i + 1].frame
       \/ /\ taken[i].frame = taken[i + 1].frame
          /\ taken[i].part < taken[i + 1].part
  /\ ctrl = "START" =>
       \A i \in 1..Len(taken) :
         /\ taken[i].part = ((i - 1) % Pieces) + 1
         /\ taken[i].frame = shown[((i - 1) \div Pieces) + 1]
  /\ ctrl = "START" => Len(shown) * Pieces <= Len(taken) + Pieces

(* The frame published before frame n *)
Before(n) == LET earlier == {k \in 1..Len(shown) : shown[k] < n} IN
  IF earlier = {} THEN 0 ELSE shown[CHOOSE k \in earlier : \A j \in earlier : j <= k]

(* The length is stored behind the flag and read twice.  What the decoder   *)
(* takes goes out with the length of its own frame or of the one published  *)
(* before it (0 before the first), never of an older one; and it was copied *)
(* by the length that is sent or by its own.  Whose length it is says       *)
(* nothing of how long it is: with that of the frame before, a bigger frame *)
(* is cut off, and of a smaller one more may be sent than was copied.       *)
LenLagsOne ==
  \A i \in 1..Len(taken) : LET t == taken[i] IN
    t.len \in {Before(t.frame), t.frame} /\ t.copied \in {t.len, t.frame}

(* A stop always comes to an end: with a silent camera, with the sender     *)
(* waiting for a frame's time or for room in the decoder.  Only where the   *)
(* sender was never created can the process die of it.                      *)
StopCompletes == mpc = "join" ~> mpc = "over" \/ (mpc = "dead" /\ spc = "off")
===========================================================================
