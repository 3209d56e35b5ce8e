-------------------------- MODULE RtspFeed_proofs --------------------------
(***************************************************************************)
(* Proofs about the camera feed of a decoder channel, for any number of    *)
(* frames and of pieces.                                                   *)
(***************************************************************************)
EXTENDS RtspFeed, TLAPS

(* The loop runs with a buffer, and the sender is created once.  Flag 1 is  *)
(* the reader's: the sender is at the head of its loop or behind  *)
(* it, and the buffer exists.  The reader keeps the flag at 1 for as long   *)
(* as it works on the buffer.                                               *)
FlagOwns ==
  /\ spc \notin {"off", "alloc", "done"} => alloc
  /\ mpc \in {"start", "create"} => spc = "off" /\ flag = 0
  /\ handle = "number" => spc = "off"
  /\ flag = 1 => alloc /\ spc \in {"top", "test", "end", "done"}
  /\ rpc \in {"copy", "publish"} => flag = 1

(* A piece that is being sent is one of the frame's.                        *)
Counting == spc = "send" => piece >= 1

IInv == TypeOK /\ FlagOwns /\ Counting

LEMMA InitInv == Init => IInv
<1> SUFFICES ASSUME Init PROVE IInv
  OBVIOUS
<1>1. 0 \in Frame /\ 0 \in 0..Pieces
  BY FeedAssumption DEF FeedAssumption, Frame
<1>2. taken = <<>> /\ shown = <<>>
  BY DEF Init
<1>3. taken \in Seq([frame : Frame, part : 1..Pieces, len : Frame, copied : Frame])
  BY <1>2
<1>4. shown \in Seq(Frame)
  BY <1>2
<1>5. TypeOK
  BY <1>1, <1>3, <1>4 DEF Init, TypeOK
<1>6. FlagOwns /\ Counting
  BY DEF Init, FlagOwns, Counting
<1> QED BY <1>5, <1>6 DEF IInv

(* The steps of the reader keep the types.                                  *)
LEMMA ReaderTypes == TypeOK /\ Reader => TypeOK'
<1> USE FeedAssumption DEF FeedAssumption, TypeOK, Frame, shared, sender, main, decoder, MayWrite, Stored
<1> SUFFICES ASSUME TypeOK, Reader PROVE TypeOK'
  OBVIOUS
<1>1. CASE OpenCamera BY <1>1 DEF OpenCamera
<1>2. CASE ReadFrame BY <1>2 DEF ReadFrame
<1>3. CASE CopyIn BY <1>3 DEF CopyIn
<1>4. CASE Publish BY <1>4 DEF Publish
<1>5. CASE StoreSize BY <1>5 DEF StoreSize
<1> QED BY <1>1, <1>2, <1>3, <1>4, <1>5 DEF Reader

(* The steps of the sender keep the types.                                  *)
LEMMA SenderTypes == TypeOK /\ Counting /\ Sender => TypeOK' /\ Counting'
<1> USE FeedAssumption DEF FeedAssumption, TypeOK, Counting, Frame, shared, reader, main, decoder
<1> SUFFICES ASSUME TypeOK, Counting, Sender PROVE TypeOK' /\ Counting'
  OBVIOUS
<1>1. CASE AllocBuffer BY <1>1 DEF AllocBuffer
<1>2. CASE OfferBuffer BY <1>2 DEF OfferBuffer
<1>3. CASE LoopTop BY <1>3 DEF LoopTop
<1>4. CASE TestFlag BY <1>4 DEF TestFlag
<1>5. CASE ReadLen BY <1>5 DEF ReadLen
<1>6. CASE CopyOut BY <1>6 DEF CopyOut
<1>7. CASE Due BY <1>7 DEF Due
<1>8. CASE TooLate BY <1>8 DEF TooLate
<1>9. CASE Refused BY <1>9 DEF Refused, NextPiece
<1>10. CASE Release BY <1>10 DEF Release
<1>11. CASE SendEnd BY <1>11 DEF SendEnd
<1>12. CASE SendPiece
  <2>1. [frame |-> got, part |-> piece, len |-> len, copied |-> copied]
           \in [frame : Frame, part : 1..Pieces, len : Frame, copied : Frame]
    BY <1>12 DEF SendPiece
  <2>2. taken' \in Seq([frame : Frame, part : 1..Pieces, len : Frame, copied : Frame])
    BY <1>12, <2>1 DEF SendPiece
  <2> QED BY <1>12, <2>2 DEF SendPiece, NextPiece
<1> QED BY <1>1, <1>2, <1>3, <1>4, <1>5, <1>6, <1>7, <1>8, <1>9, <1>10,
           <1>11, <1>12 DEF Sender

(* The steps of the main thread and of the decoder keep the types.          *)
LEMMA MainTypes == TypeOK /\ (Main \/ Decode) => TypeOK'
<1> USE FeedAssumption DEF FeedAssumption, TypeOK, Frame, shared, reader, sender, decoder, main
<1> SUFFICES ASSUME TypeOK, Main \/ Decode PROVE TypeOK'
  OBVIOUS
<1>1. CASE CreateReader BY <1>1 DEF CreateReader
<1>2. CASE CreateSender BY <1>2 DEF CreateSender
<1>3. CASE StopSending BY <1>3 DEF StopSending
<1>4. CASE JoinSender BY <1>4 DEF JoinSender
<1>5. CASE JoinNoThread BY <1>5 DEF JoinNoThread
<1>6. CASE Decode BY <1>6 DEF Decode
<1> QED BY <1>1, <1>2, <1>3, <1>4, <1>5, <1>6 DEF Main

LEMMA Types == TypeOK /\ Counting /\ [Next]_vars => TypeOK' /\ Counting'
<1> SUFFICES ASSUME TypeOK, Counting, [Next]_vars PROVE TypeOK' /\ Counting'
  OBVIOUS
<1>1. CASE Reader
  <2>1. Counting' BY <1>1 DEF Counting, Reader, OpenCamera, ReadFrame, CopyIn,
                      Publish, StoreSize, sender
  <2> QED BY <1>1, <2>1, ReaderTypes
<1>2. CASE Sender BY <1>2, SenderTypes
<1>3. CASE Main \/ Decode
  <2>1. Counting' BY <1>3 DEF Counting, Main, CreateReader, CreateSender,
                      StopSending, JoinSender, JoinNoThread, Decode, sender
  <2> QED BY <1>3, <2>1, MainTypes
<1>4. CASE UNCHANGED vars
  BY <1>4 DEF TypeOK, Counting, vars, shared, reader, sender, main, decoder
<1> QED BY <1>1, <1>2, <1>3, <1>4 DEF Next

(* The flag changes hands in two places, in Publish when the reader is      *)
(* behind its copy and in Release and OfferBuffer when the sender is not    *)
(* yet at its own.                                                          *)
LEMMA FlagStep == IInv /\ [Next]_vars => FlagOwns'
<1> USE DEF FlagOwns, shared, reader, sender, main, decoder
<1> SUFFICES ASSUME IInv, [Next]_vars PROVE FlagOwns'
  OBVIOUS
<1>1. TypeOK /\ FlagOwns
  BY DEF IInv
<1>2. CASE Reader
  BY <1>1, <1>2 DEF Reader, OpenCamera, ReadFrame, CopyIn, Publish, StoreSize, MayWrite
<1>3. CASE Sender
  <2>1. CASE AllocBuffer BY <1>1, <2>1 DEF AllocBuffer
  <2>2. CASE OfferBuffer BY <1>1, <2>2 DEF OfferBuffer
  <2>3. CASE LoopTop BY <1>1, <2>3 DEF LoopTop
  <2>4. CASE TestFlag BY <1>1, <2>4 DEF TestFlag
  <2>5. CASE ReadLen \/ CopyOut \/ Due \/ TooLate
    BY <1>1, <2>5 DEF ReadLen, CopyOut, Due, TooLate
  <2>6. CASE SendPiece \/ Refused
    BY <1>1, <2>6 DEF SendPiece, Refused, NextPiece
  <2>7. CASE Release
    <3>1. alloc BY <1>1, <2>7 DEF Release
    <3> QED BY <1>1, <2>7, <3>1 DEF Release
  <2>8. CASE SendEnd BY <1>1, <2>8 DEF SendEnd
  <2> QED BY <1>3, <2>1, <2>2, <2>3, <2>4, <2>5, <2>6, <2>7, <2>8 DEF Sender
<1>4. CASE Main \/ Decode
  BY <1>1, <1>4 DEF Main, CreateReader, CreateSender, StopSending, JoinSender, JoinNoThread, Decode
<1>5. CASE UNCHANGED vars
  BY <1>1, <1>5 DEF vars
<1> QED BY <1>2, <1>3, <1>4, <1>5 DEF Next

THEOREM FeedInvariant == Spec => []IInv
<1>1. IInv /\ [Next]_vars => IInv'
  BY Types, FlagStep DEF IInv
<1> QED BY <1>1, InitInv, PTL DEF Spec

(* Every variable keeps to its type.                                        *)
THEOREM FeedTypes == Spec => []TypeOK
<1>1. IInv => TypeOK
  BY DEF IInv
<1> QED BY <1>1, FeedInvariant, PTL

(* The buffer of a channel has one user at a time, for any number of frames *)
(* and pieces and whenever the stop comes.                                  *)
THEOREM OneUser == Spec => []BufferExclusive
<1>1. IInv => BufferExclusive
  BY DEF IInv, FlagOwns, BufferExclusive
<1> QED BY <1>1, FeedInvariant, PTL

------------------------------------------------------------------------------
(* What the reader has published, and whose length is where.                *)

Last == shown[Len(shown)]
Prev == IF Len(shown) = 1 THEN 0 ELSE shown[Len(shown) - 1]

(* Frames are published in the order of the camera; the buffer holds the    *)
(* last of them while it is the sender's.                                   *)
Published ==
  /\ \A i \in 1..Len(shown) : shown[i] \in 1..cur
  /\ \A i, j \in 1..Len(shown) : i < j => shown[i] < shown[j]
  /\ rpc \in {"copy", "publish"} => cur >= 1 /\ \A i \in 1..Len(shown) : shown[i] < cur
  /\ rpc = "publish" => buf = cur
  /\ rpc = "size" => shown # <<>> /\ Last = cur
  /\ spc \in {"off", "alloc", "init"} => shown = <<>> /\ rpc \notin {"copy", "publish"}
  /\ spc \in {"top", "test"} /\ flag = 0 => shown # <<>>
  /\ spc \in {"len", "copy", "pace", "send", "release"} => shown # <<>> /\ flag = 0
  /\ spc \in {"top", "test", "len", "copy"} /\ flag = 0 => buf = Last
  /\ spc \in {"pace", "send", "release"} => got = Last

(* The length stored is that of the last frame published, or for one step   *)
(* of the reader that of the frame before it.                               *)
Lengths ==
  /\ shown = <<>> => size = 0
  /\ shown # <<>> => size = IF rpc = "size" THEN Prev ELSE Last
  /\ spc = "copy" => len \in {Prev, size}
  /\ spc \in {"pace", "send"} => len \in {Prev, Last} /\ copied \in {len, Last}

(* Every piece the decoder took is of a published frame and has a length of *)
(* it or of the one before; it is of the last frame only once the sender    *)
(* has come to send that one.                                               *)
FromShown(t) ==
  \E k \in 1..Len(shown) :
    /\ t.frame = shown[k]
    /\ t.len \in {IF k = 1 THEN 0 ELSE shown[k - 1], t.frame}
    /\ t.copied \in {t.len, t.frame}

InOrder ==
  \A i \in 1..Len(taken) - 1 :
    \/ taken[i].frame < taken[i + 1].frame
    \/ taken[i].frame = taken[i + 1].frame /\ taken[i].part < taken[i + 1].part

Taken ==
  /\ \A i \in 1..Len(taken) : FromShown(taken[i])
  /\ InOrder
  /\ spc \in {"top", "test", "len", "copy", "pace"} /\ flag = 0 =>
       \A i \in 1..Len(taken) : taken[i].frame < Last
  /\ spc = "send" =>
       \A i \in 1..Len(taken) : taken[i].frame < got \/ (taken[i].frame = got /\ taken[i].part < piece)

OInv == Published /\ Lengths /\ Taken

LEMMA OrderInit == Init => OInv
BY DEF Init, OInv, Published, Lengths, Taken, InOrder

(* Appending to what was published leaves what was there in place.          *)
LEMMA Appended ==
  ASSUME NEW s, NEW S, s \in Seq(S), NEW e \in S
  PROVE  /\ Append(s, e) \in Seq(S) /\ Len(Append(s, e)) = Len(s) + 1
         /\ \A i \in 1..Len(s) : Append(s, e)[i] = s[i]
         /\ Append(s, e)[Len(s) + 1] = e /\ Len(s) \in Nat
OBVIOUS

(* The facts of a state in which a step is taken, and what a publication    *)
(* does to the sequence.                                                    *)
LEMMA Shapes ==
  ASSUME TypeOK
  PROVE  /\ shown \in Seq(Frame) /\ Len(shown) \in Nat
         /\ cur \in Nat /\ size \in Nat /\ len \in Nat /\ copied \in Nat /\ piece \in Nat
         /\ \A i \in 1..Len(shown) : shown[i] \in Nat
         /\ taken \in Seq([frame : Frame, part : 1..Pieces, len : Frame, copied : Frame])
         /\ Len(taken) \in Nat
         /\ \A i \in 1..Len(taken) : /\ taken[i].frame \in Nat /\ taken[i].part \in Nat
                                     /\ taken[i].len \in Nat /\ taken[i].copied \in Nat
         /\ shown = <<>> <=> Len(shown) = 0
         /\ shown # <<>> => Last \in Nat /\ Prev \in Nat
<1> USE FeedAssumption DEF FeedAssumption
<1>1. /\ shown \in Seq(Frame) /\ Len(shown) \in Nat
      /\ taken \in Seq([frame : Frame, part : 1..Pieces, len : Frame, copied : Frame])
      /\ Len(taken) \in Nat
      /\ shown = <<>> <=> Len(shown) = 0
  BY DEF TypeOK
<1>2. \A i \in 1..Len(shown) : shown[i] \in Nat
  BY <1>1 DEF Frame
<1>3. \A i \in 1..Len(taken) : /\ taken[i].frame \in Nat /\ taken[i].part \in Nat
                               /\ taken[i].len \in Nat /\ taken[i].copied \in Nat
  <2>1. \A R : taken \in Seq(R) => \A i \in 1..Len(taken) : taken[i] \in R
    OBVIOUS
  <2>2. \A i \in 1..Len(taken) :
          taken[i] \in [frame : Frame, part : 1..Pieces, len : Frame, copied : Frame]
    BY <1>1, <2>1
  <2> QED BY <2>2 DEF Frame
<1>4. shown # <<>> => Last \in Nat /\ Prev \in Nat
  <2> SUFFICES ASSUME shown # <<>> PROVE Last \in Nat /\ Prev \in Nat
    OBVIOUS
  <2>0. Len(shown) \in Nat /\ Len(shown) # 0
    BY <1>1
  <2>1. Len(shown) \in 1..Len(shown) /\ (Len(shown) # 1 => Len(shown) - 1 \in 1..Len(shown))
    <3>1. \A n \in Nat : n # 0 => n \in 1..n /\ (n # 1 => n - 1 \in 1..n)
      OBVIOUS
    <3> QED BY <2>0, <3>1
  <2> QED BY <1>2, <2>1 DEF Last, Prev
<1>5. cur \in Nat /\ size \in Nat /\ len \in Nat /\ copied \in Nat /\ piece \in Nat
  BY DEF TypeOK, Frame
<1> QED BY <1>1, <1>2, <1>3, <1>4, <1>5

LEMMA Publication ==
  ASSUME TypeOK, shown' = Append(shown, cur)
  PROVE  /\ Len(shown') = Len(shown) + 1
         /\ \A i \in 1..Len(shown) : shown'[i] = shown[i]
         /\ shown'[Len(shown) + 1] = cur
         /\ shown' # <<>> /\ Last' = cur
         /\ Prev' = IF shown = <<>> THEN 0 ELSE Last
<1>1. shown \in Seq(Frame) /\ cur \in Frame /\ Len(shown) \in Nat
  BY DEF TypeOK
<1>2. /\ Len(shown') = Len(shown) + 1
      /\ \A i \in 1..Len(shown) : shown'[i] = shown[i]
      /\ shown'[Len(shown) + 1] = cur
  BY <1>1, Appended
<1>3. shown = <<>> <=> Len(shown) = 0
  BY <1>1
<1> QED BY <1>1, <1>2, <1>3 DEF Last, Prev

(* Order of publication.                                                    *)
LEMMA PublishedStep == IInv /\ OInv /\ [Next]_vars => Published'
<1> SUFFICES ASSUME IInv, OInv, [Next]_vars PROVE Published'
  OBVIOUS
<1>1. TypeOK /\ FlagOwns /\ Published /\ cur \in Nat /\ Len(shown) \in Nat
  BY Shapes DEF IInv, OInv
<1>2. CASE Reader
  <2>1. CASE OpenCamera
    BY <1>1, <2>1 DEF OpenCamera, Published, Last, shared, sender
  <2>2. CASE ReadFrame
    <3>1. \A i \in 1..Len(shown) : shown[i] \in 1..cur' /\ shown[i] < cur'
      BY <1>1, <2>2 DEF ReadFrame, Published
    <3>2. rpc' = "copy" => flag = 1
      BY <2>2 DEF ReadFrame, MayWrite
    <3> QED BY <1>1, <2>2, <3>1, <3>2 DEF ReadFrame, Published, FlagOwns, Last, shared, sender
  <2>3. CASE CopyIn
    BY <1>1, <2>3 DEF CopyIn, Published, FlagOwns, Last, sender
  <2>4. CASE Publish
    <3>1. shown' = Append(shown, cur) /\ cur' = cur /\ buf' = buf /\ rpc' = "size" /\ flag' = 0
          /\ spc' = spc /\ got' = got
      BY <2>4 DEF Publish, sender
    <3>2. /\ Len(shown') = Len(shown) + 1
          /\ \A i \in 1..Len(shown) : shown'[i] = shown[i]
          /\ shown'[Len(shown) + 1] = cur
          /\ shown' # <<>> /\ Last' = cur
      BY <1>1, <3>1, Publication
    <3>3. flag = 1 /\ spc \in {"top", "test", "end", "done"} /\ buf = cur
          /\ cur >= 1 /\ \A i \in 1..Len(shown) : shown[i] < cur
      BY <1>1, <2>4 DEF Publish, FlagOwns, Published
    <3>4. \A i \in 1..Len(shown') : shown'[i] \in 1..cur
      BY <1>1, <3>2, <3>3 DEF Published
    <3>5. \A i, j \in 1..Len(shown') : i < j => shown'[i] < shown'[j]
      BY <1>1, <3>2, <3>3 DEF Published
    <3> QED BY <3>1, <3>2, <3>3, <3>4, <3>5 DEF Published
  <2>5. CASE StoreSize
    BY <1>1, <2>5 DEF StoreSize, Published, Last, sender
  <2> QED BY <1>2, <2>1, <2>2, <2>3, <2>4, <2>5 DEF Reader
<1>3. CASE Sender
  <2>1. shown' = shown /\ Last' = Last /\ cur' = cur /\ rpc' = rpc /\ buf' = buf
    BY <1>3 DEF Sender, AllocBuffer, OfferBuffer, LoopTop, TestFlag, ReadLen, CopyOut, Due, TooLate,
                SendPiece, Refused, Release, SendEnd, shared, reader, Last
  <2>2. CASE AllocBuffer BY <1>1, <2>1, <2>2 DEF AllocBuffer, Published
  <2>3. CASE OfferBuffer BY <1>1, <2>1, <2>3 DEF OfferBuffer, Published
  <2>4. CASE LoopTop BY <1>1, <2>1, <2>4 DEF LoopTop, Published, shared
  <2>5. CASE TestFlag
    <3>1. flag \in {0, 1} BY <1>1 DEF TypeOK
    <3> QED BY <1>1, <2>1, <2>5, <3>1 DEF TestFlag, Published, shared
  <2>6. CASE ReadLen BY <1>1, <2>1, <2>6 DEF ReadLen, Published, shared
  <2>7. CASE CopyOut BY <1>1, <2>1, <2>7 DEF CopyOut, Published, shared
  <2>8. CASE Due \/ TooLate BY <1>1, <2>1, <2>8 DEF Due, TooLate, Published, shared
  <2>9. CASE SendPiece \/ Refused
    BY <1>1, <2>1, <2>9 DEF SendPiece, Refused, NextPiece, Published, shared
  <2>10. CASE Release BY <1>1, <2>1, <2>10 DEF Release, Published
  <2>11. CASE SendEnd BY <1>1, <2>1, <2>11 DEF SendEnd, Published, shared
  <2> QED BY <1>3, <2>2, <2>3, <2>4, <2>5, <2>6, <2>7, <2>8, <2>9, <2>10, <2>11 DEF Sender
<1>4. CASE Main \/ Decode
  <2>1. /\ shown' = shown /\ Last' = Last /\ cur' = cur /\ buf' = buf /\ flag' = flag /\ got' = got
        /\ rpc' = rpc \/ (mpc = "start" /\ rpc' = "open") \/ rpc' = "gone"
        /\ spc' = spc \/ (mpc = "create" /\ spc' \in {"alloc", "off"})
    BY <1>4 DEF Main, CreateReader, CreateSender, StopSending, JoinSender, JoinNoThread, Decode, shared, reader, sender, Last
  <2>2. mpc \in {"start", "create"} => spc = "off"
    BY <1>1 DEF FlagOwns
  <2> QED BY <1>1, <2>1, <2>2 DEF Published
<1>5. CASE UNCHANGED vars
  BY <1>1, <1>5 DEF vars, shared, reader, sender, Published, Last
<1> QED BY <1>2, <1>3, <1>4, <1>5 DEF Next

(* What every step but a publication leaves alone.                          *)
LEMMA SameShown == [Next]_vars /\ ~Publish => shown' = shown /\ Last' = Last /\ Prev' = Prev
BY DEF Next, Reader, OpenCamera, ReadFrame, CopyIn, StoreSize, Sender, AllocBuffer, OfferBuffer,
       LoopTop, TestFlag, ReadLen, CopyOut, Due, TooLate, SendPiece, Refused, Release, SendEnd,
       Main, CreateReader, CreateSender, StopSending, JoinSender, JoinNoThread, Decode, vars, Last, Prev

(* Lengths.                                                                 *)
LEMMA LengthsStep == IInv /\ OInv /\ [Next]_vars => Lengths'
<1> SUFFICES ASSUME IInv, OInv, [Next]_vars PROVE Lengths'
  OBVIOUS
<1>1. TypeOK /\ FlagOwns /\ Published /\ Lengths
  BY DEF IInv, OInv
<1>2. /\ size \in Nat /\ len \in Nat /\ copied \in Nat
      /\ shown # <<>> => Last \in Nat /\ Prev \in Nat
  BY <1>1, Shapes
<1>3. shown # <<>> => Prev <= Last
  <2> SUFFICES ASSUME shown # <<>> PROVE Prev <= Last
    OBVIOUS
  <2>1. Len(shown) \in Nat /\ Len(shown) # 0
    BY <1>1, Shapes
  <2>2. \A n \in Nat : n # 0 /\ n # 1 => n \in 1..n /\ n - 1 \in 1..n /\ n - 1 < n
    OBVIOUS
  <2>3. CASE Len(shown) = 1
    BY <1>2, <2>3 DEF Last, Prev
  <2>4. CASE Len(shown) # 1
    <3>1. shown[Len(shown) - 1] < shown[Len(shown)]
      BY <1>1, <2>1, <2>2, <2>4 DEF Published
    <3> QED BY <1>2, <2>4, <3>1 DEF Last, Prev
  <2> QED BY <2>3, <2>4
<1>4. CASE Publish
  <2>1. /\ shown' = Append(shown, cur) /\ size' = size /\ rpc = "publish" /\ rpc' = "size"
        /\ spc' = spc /\ len' = len /\ copied' = copied
    BY <1>4 DEF Publish, sender
  <2>2. shown' # <<>> /\ Prev' = IF shown = <<>> THEN 0 ELSE Last
    BY <1>1, <2>1, Publication
  <2>3. spc \in {"top", "test", "end", "done"}
    BY <1>1, <2>1 DEF FlagOwns
  <2> QED BY <1>1, <2>1, <2>2, <2>3 DEF Lengths
<1>5. CASE ~Publish
  <2>1. shown' = shown /\ Last' = Last /\ Prev' = Prev
    BY <1>5, SameShown
  <2>2. CASE Reader
    <3>1. CASE OpenCamera BY <1>1, <2>1, <3>1 DEF OpenCamera, Lengths, shared, sender
    <3>2. CASE ReadFrame BY <1>1, <2>1, <3>2 DEF ReadFrame, Lengths, shared, sender
    <3>3. CASE CopyIn BY <1>1, <2>1, <3>3 DEF CopyIn, Lengths, sender
    <3>4. CASE StoreSize
      <4>1. shown # <<>> /\ Last = cur
        BY <1>1, <3>4 DEF StoreSize, Published
      <4> QED BY <1>1, <1>2, <1>3, <2>1, <3>4, <4>1 DEF StoreSize, Stored, Lengths, sender
    <3> QED BY <1>5, <2>2, <3>1, <3>2, <3>3, <3>4 DEF Reader
  <2>3. CASE Sender
    <3>1. CASE ReadLen
      <4>1. shown # <<>>
        BY <1>1, <3>1 DEF ReadLen, Published
      <4> QED BY <1>1, <1>2, <1>3, <2>1, <3>1, <4>1 DEF ReadLen, Lengths, shared, reader
    <3>2. CASE CopyOut
      <4>1. shown # <<>>
        BY <1>1, <3>2 DEF CopyOut, Published
      <4> QED BY <1>1, <1>2, <1>3, <2>1, <3>2, <4>1 DEF CopyOut, Lengths, shared, reader
    <3>3. CASE ~ReadLen /\ ~CopyOut
      <4>1. /\ size' = size /\ rpc' = rpc /\ len' = len /\ copied' = copied
            /\ spc' # "copy" /\ (spc' \in {"pace", "send"} => spc \in {"pace", "send"})
        BY <2>3, <3>3 DEF Sender, AllocBuffer, OfferBuffer, LoopTop, TestFlag, Due, TooLate,
           SendPiece, Refused, NextPiece, Release, SendEnd, shared, reader
      <4> QED BY <1>1, <2>1, <4>1 DEF Lengths
    <3> QED BY <3>1, <3>2, <3>3
  <2>4. CASE Main \/ Decode
    <3>1. /\ size' = size /\ len' = len /\ copied' = copied
          /\ rpc' = rpc \/ (mpc = "start" /\ rpc' # "size") \/ (handle = "number" /\ rpc' # "size")
          /\ spc' = spc \/ spc' \in {"alloc", "off"}
      BY <2>4 DEF Main, CreateReader, CreateSender, StopSending, JoinSender, JoinNoThread, Decode, shared, reader, sender
    <3>2. mpc = "start" \/ handle = "number" => shown = <<>>
      BY <1>1 DEF FlagOwns, Published
    <3> QED BY <1>1, <2>1, <3>1, <3>2 DEF Lengths
  <2>5. CASE UNCHANGED vars
    BY <1>1, <2>1, <2>5 DEF vars, shared, reader, sender, Lengths
  <2> QED BY <2>2, <2>3, <2>4, <2>5 DEF Next
<1> QED BY <1>4, <1>5

(* The decoder.                                                             *)
LEMMA TakenStep == IInv /\ OInv /\ [Next]_vars => Taken'
<1> SUFFICES ASSUME IInv, OInv, [Next]_vars PROVE Taken'
  OBVIOUS
<1>1. TypeOK /\ FlagOwns /\ Published /\ Lengths /\ Taken
  BY DEF IInv, OInv
<1>2. CASE Publish
  <2>1. /\ shown' = Append(shown, cur) /\ taken' = taken /\ rpc = "publish"
        /\ spc' = spc /\ got' = got /\ piece' = piece
    BY <1>2 DEF Publish, sender, decoder
  <2>2. /\ Len(shown') = Len(shown) + 1
        /\ \A i \in 1..Len(shown) : shown'[i] = shown[i]
        /\ Last' = cur /\ Len(shown) \in Nat
    BY <1>1, <2>1, Publication, Shapes
  <2>3. spc \in {"top", "test", "end", "done"} /\ \A i \in 1..Len(shown) : shown[i] < cur
    BY <1>1, <2>1 DEF FlagOwns, Published
  <2>4. \A i \in 1..Len(taken) : FromShown(taken[i])'
    <3> SUFFICES ASSUME NEW i \in 1..Len(taken) PROVE FromShown(taken[i])'
      OBVIOUS
    <3>1. PICK k \in 1..Len(shown) :
             /\ taken[i].frame = shown[k]
             /\ taken[i].len \in {IF k = 1 THEN 0 ELSE shown[k - 1], taken[i].frame}
             /\ taken[i].copied \in {taken[i].len, taken[i].frame}
      BY <1>1 DEF Taken, FromShown
    <3>2. k \in 1..Len(shown') /\ shown'[k] = shown[k] /\ (k # 1 => shown'[k - 1] = shown[k - 1])
      BY <2>2
    <3> QED BY <2>1, <3>1, <3>2 DEF FromShown
  <2>5. \A i \in 1..Len(taken) : taken[i].frame < cur
    BY <1>1, <2>3 DEF Taken, FromShown
  <2> QED BY <1>1, <2>1, <2>2, <2>3, <2>4, <2>5 DEF Taken, InOrder
<1>3. CASE SendPiece
  <2> DEFINE t == [frame |-> got, part |-> piece, len |-> len, copied |-> copied]
  <2>1. /\ taken' = Append(taken, t) /\ spc = "send" /\ got' = got /\ shown' = shown
        /\ spc' \in {"send", "release"} /\ (spc' = "send" => piece' = piece + 1)
    BY <1>3 DEF SendPiece, NextPiece
  <2>2. taken \in Seq([frame : Frame, part : 1..Pieces, len : Frame, copied : Frame]) /\ Len(taken) \in Nat
        /\ piece \in Nat /\ Len(shown) \in Nat
    BY <1>1, Shapes
  <2>3. \A R : taken \in Seq(R) => taken \in Seq(R \cup {t})
    OBVIOUS
  <2>4. /\ Len(taken') = Len(taken) + 1
        /\ \A i \in 1..Len(taken) : taken'[i] = taken[i]
        /\ taken'[Len(taken) + 1] = t
    BY <2>1, <2>2, <2>3, Appended
  <2>5. shown # <<>> /\ got = Last /\ len \in {Prev, Last} /\ copied \in {len, Last}
    BY <1>1, <2>1 DEF Published, Lengths
  <2>6. Len(shown) \in 1..Len(shown)
    <3>1. \A n \in Nat : n # 0 => n \in 1..n
      OBVIOUS
    <3> QED BY <1>1, <2>2, <2>5, <3>1, Shapes
  <2>7. FromShown(t)
    <3>1. t.frame = shown[Len(shown)] /\ t.copied \in {t.len, t.frame}
      BY <2>5 DEF Last
    <3>2. t.len \in {IF Len(shown) = 1 THEN 0 ELSE shown[Len(shown) - 1], t.frame}
      BY <2>5 DEF Last, Prev
    <3> QED BY <2>6, <3>1, <3>2 DEF FromShown
  <2>8. \A i \in 1..Len(taken') : FromShown(taken'[i])
    <3> HIDE DEF t
    <3> SUFFICES ASSUME NEW i \in 1..Len(taken') PROVE FromShown(taken'[i])
      OBVIOUS
    <3>1. CASE i = Len(taken) + 1
      BY <2>4, <2>7, <3>1
    <3>2. CASE i # Len(taken) + 1
      <4>1. i \in 1..Len(taken) /\ taken'[i] = taken[i]
        BY <2>2, <2>4, <3>2
      <4>2. FromShown(taken[i])
        BY <1>1, <4>1 DEF Taken
      <4> QED BY <4>1, <4>2
    <3> QED BY <3>1, <3>2
  <2>9. \A i \in 1..Len(taken') : FromShown(taken[i])'
    BY <2>1, <2>8 DEF FromShown
  <2>10. \A i \in 1..Len(taken) : taken[i].frame < got \/ (taken[i].frame = got /\ taken[i].part < piece)
    BY <1>1, <2>1 DEF Taken
  <2>11. InOrder'
    <3> SUFFICES ASSUME NEW i \in 1..Len(taken') - 1
                 PROVE  \/ taken'[i].frame < taken'[i + 1].frame
                        \/ /\ taken'[i].frame = taken'[i + 1].frame
                           /\ taken'[i].part < taken'[i + 1].part
      BY DEF InOrder
    <3>1. i \in 1..Len(taken) /\ taken'[i] = taken[i]
      BY <2>2, <2>4
    <3>2. CASE i = Len(taken)
      BY <2>4, <2>10, <3>1, <3>2
    <3>3. CASE i # Len(taken)
      <4>1. i + 1 \in 1..Len(taken) /\ i \in 1..Len(taken) - 1
        BY <2>2, <3>1, <3>3
      <4> QED BY <1>1, <2>4, <3>1, <4>1 DEF Taken, InOrder
    <3> QED BY <3>2, <3>3
  <2>12. spc' = "send" =>
           \A i \in 1..Len(taken') :
             taken'[i].frame < got \/ (taken'[i].frame = got /\ taken'[i].part < piece')
    <3> SUFFICES ASSUME spc' = "send", NEW i \in 1..Len(taken')
                 PROVE  taken'[i].frame < got \/ (taken'[i].frame = got /\ taken'[i].part < piece')
      OBVIOUS
    <3>1. piece' = piece + 1
      BY <2>1
    <3>2. CASE i = Len(taken) + 1
      BY <2>2, <2>4, <3>1, <3>2
    <3>3. CASE i # Len(taken) + 1
      <4>1. i \in 1..Len(taken) /\ taken'[i] = taken[i] /\ taken[i].part \in Nat
        BY <1>1, <2>2, <2>4, <3>3, Shapes
      <4> QED BY <2>2, <2>10, <3>1, <4>1
    <3> QED BY <3>2, <3>3
  <2> QED BY <2>1, <2>9, <2>11, <2>12 DEF Taken
<1>4. CASE ~Publish /\ ~SendPiece
  <2>1. shown' = shown /\ Last' = Last
    BY <1>4, SameShown
  <2>2. taken' = taken
    BY <1>4 DEF Next, Reader, OpenCamera, ReadFrame, CopyIn, StoreSize, Sender, AllocBuffer, OfferBuffer,
       LoopTop, TestFlag, ReadLen, CopyOut, Due, TooLate, Refused, Release, SendEnd,
       Main, CreateReader, CreateSender, StopSending, JoinSender, JoinNoThread, Decode, vars, decoder
  <2>3. (\A i \in 1..Len(taken) : FromShown(taken[i])') /\ InOrder'
    BY <1>1, <2>1, <2>2 DEF Taken, FromShown, InOrder
  <2>4. spc' \in {"top", "test", "len", "copy", "pace"} /\ flag' = 0 =>
          \A i \in 1..Len(taken) : taken[i].frame < Last
    <3>1. spc' \in {"top", "test", "len", "copy", "pace"} /\ flag' = 0 =>
            spc \in {"top", "test", "len", "copy", "pace"} /\ flag = 0
      BY <1>1, <1>4 DEF Next, Reader, OpenCamera, ReadFrame, CopyIn, StoreSize, Sender, AllocBuffer, OfferBuffer,
         LoopTop, TestFlag, ReadLen, CopyOut, Due, TooLate, Refused, NextPiece, Release, SendEnd,
         Main, CreateReader, CreateSender, StopSending, JoinSender, JoinNoThread, Decode, vars, shared, sender, reader
    <3> QED BY <1>1, <3>1 DEF Taken
  <2>5. spc' = "send" =>
          \A i \in 1..Len(taken) : taken[i].frame < got' \/ (taken[i].frame = got' /\ taken[i].part < piece')
    <3> SUFFICES ASSUME spc' = "send", NEW i \in 1..Len(taken)
                 PROVE  taken[i].frame < got' \/ (taken[i].frame = got' /\ taken[i].part < piece')
      OBVIOUS
    <3>0. taken[i].part \in Nat /\ piece \in Nat
      BY <1>1, Shapes
    <3>1. CASE Due
      <4>1. spc = "pace" /\ flag = 0 /\ got = Last /\ got' = got
        BY <1>1, <3>1 DEF Due, Published
      <4> QED BY <1>1, <4>1 DEF Taken
    <3>2. CASE ~Due
      <4>1. spc = "send" /\ got' = got /\ (piece' = piece \/ piece' = piece + 1)
        BY <1>4, <3>2 DEF Next, Reader, OpenCamera, ReadFrame, CopyIn, StoreSize, Sender, AllocBuffer, OfferBuffer,
         LoopTop, TestFlag, ReadLen, CopyOut, TooLate, Refused, NextPiece, Release, SendEnd,
         Main, CreateReader, CreateSender, StopSending, JoinSender, JoinNoThread, Decode, vars, shared, sender, reader
      <4> QED BY <1>1, <3>0, <4>1 DEF Taken
    <3> QED BY <3>1, <3>2
  <2> QED BY <2>1, <2>2, <2>3, <2>4, <2>5 DEF Taken
<1> QED BY <1>2, <1>3, <1>4

THEOREM OrderInvariant == Spec => []OInv
<1>1. IInv /\ OInv /\ [Next]_vars => OInv'
  BY PublishedStep, LengthsStep, TakenStep DEF OInv
<1> QED BY <1>1, OrderInit, FeedInvariant, PTL DEF Spec

(* The frame published before the k-th is the one in front of it.           *)
LEMMA BeforeIsNeighbour ==
  ASSUME TypeOK, Published, NEW k \in 1..Len(shown)
  PROVE  Before(shown[k]) = IF k = 1 THEN 0 ELSE shown[k - 1]
<1> DEFINE earlier == {j \in 1..Len(shown) : shown[j] < shown[k]}
<1>1. /\ Len(shown) \in Nat
      /\ \A i \in 1..Len(shown) : shown[i] \in Nat
      /\ \A i, j \in 1..Len(shown) : i < j => shown[i] < shown[j]
  BY Shapes DEF Published
<1>2. \A j \in 1..Len(shown) : shown[j] < shown[k] <=> j < k
  <2> SUFFICES ASSUME NEW j \in 1..Len(shown) PROVE shown[j] < shown[k] <=> j < k
    OBVIOUS
  <2>1. j < k \/ j = k \/ k < j
    BY <1>1
  <2> QED BY <1>1, <2>1
<1>3. earlier = {j \in 1..Len(shown) : j < k}
  BY <1>2
<1>4. CASE k = 1
  BY <1>3, <1>4 DEF Before
<1>5. CASE k # 1
  <2>1. k - 1 \in earlier /\ \A j \in earlier : j <= k - 1
    BY <1>1, <1>3, <1>5
  <2>2. (CHOOSE m \in earlier : \A j \in earlier : j <= m) = k - 1
    <3>1. \A m \in earlier : (\A j \in earlier : j <= m) => m = k - 1
      BY <1>1, <1>3, <2>1
    <3> QED BY <2>1, <3>1
  <2> QED BY <1>5, <2>1, <2>2 DEF Before
<1> QED BY <1>4, <1>5

(* Whatever the decoder takes goes out with the length of its own frame or  *)
(* of the one published before it, and was copied by that one or its own.   *)
THEOREM LengthLags == Spec => []LenLagsOne
<1>1. IInv /\ OInv => LenLagsOne
  <2> SUFFICES ASSUME TypeOK, Published, Taken, NEW i \in 1..Len(taken)
               PROVE  /\ taken[i].len \in {Before(taken[i].frame), taken[i].frame}
                      /\ taken[i].copied \in {taken[i].len, taken[i].frame}
    BY DEF IInv, OInv, LenLagsOne
  <2>1. PICK k \in 1..Len(shown) :
           /\ taken[i].frame = shown[k]
           /\ taken[i].len \in {IF k = 1 THEN 0 ELSE shown[k - 1], taken[i].frame}
           /\ taken[i].copied \in {taken[i].len, taken[i].frame}
    BY DEF Taken, FromShown
  <2> QED BY <2>1, BeforeIsNeighbour
<1> QED BY <1>1, FeedInvariant, OrderInvariant, PTL

------------------------------------------------------------------------------
(* How much the decoder has of what was published.                          *)

LEMMA Less ==
  ASSUME NEW a \in Nat, NEW b \in Nat, NEW p \in Nat, a < b
  PROVE  a * p + p <= b * p
<1>1. PICK d \in Nat : b = a + 1 + d
  <2>1. b - a - 1 \in Nat /\ b = a + 1 + (b - a - 1)
    OBVIOUS
  <2> QED BY <2>1
<1>2. b * p = a * p + p + d * p /\ d * p \in Nat /\ a * p \in Nat
  BY <1>1, Z3
<1> QED BY <1>2

(* The division of a number of pieces into frames.                          *)
LEMMA Division ==
  ASSUME NEW q \in Nat, NEW r \in 0..Pieces - 1
  PROVE  (q * Pieces + r) % Pieces = r /\ (q * Pieces + r) \div Pieces = q
<1> DEFINE x == q * Pieces + r
<1> DEFINE a == x \div Pieces
<1> DEFINE s == x % Pieces
<1>1. Pieces \in Nat /\ Pieces # 0 /\ r \in Nat /\ r < Pieces
  BY FeedAssumption DEF FeedAssumption
<1>2. x \in Nat
  BY <1>1, Z3
<1>3. x = a * Pieces + s /\ s \in 0..Pieces - 1 /\ a \in Nat
  <2>1. \A n \in Nat : /\ n = (n \div Pieces) * Pieces + (n % Pieces)
                       /\ n % Pieces \in 0..Pieces - 1 /\ n \div Pieces \in Nat
    BY <1>1, Z3
  <2> QED BY <1>2, <2>1
<1> HIDE DEF a, s
<1>4. a * Pieces \in Nat /\ q * Pieces \in Nat
  BY <1>1, <1>3, Z3
<1>5. a < q => a * Pieces + Pieces <= q * Pieces
  BY <1>1, <1>3, Less
<1>6. q < a => q * Pieces + Pieces <= a * Pieces
  BY <1>1, <1>3, Less
<1>7. a = q
  BY <1>1, <1>3, <1>4, <1>5, <1>6
<1>8. s = r
  BY <1>1, <1>3, <1>4, <1>7
<1> QED BY <1>7, <1>8 DEF a, s

(* The pieces of published frames that are still to be sent.                *)
Behind ==
  IF spc = "send" THEN Pieces + 1 - piece
  ELSE IF spc \in {"off", "alloc", "init", "done", "release"} THEN 0
  ELSE IF spc \in {"top", "test"} /\ flag = 1 THEN 0
  ELSE Pieces

(* The i-th piece taken is the one that is due.                             *)
InPlace(i) ==
  /\ taken[i].part = ((i - 1) % Pieces) + 1
  /\ ((i - 1) \div Pieces) + 1 \in 1..Len(shown)
  /\ taken[i].frame = shown[((i - 1) \div Pieces) + 1]

(* Until the stop nothing is left out.                                      *)
Complete ==
  ctrl = "START" =>
    /\ spc # "end"
    /\ spc \in {"off", "alloc", "init", "done"} => shown = <<>> /\ flag = 0
    /\ Len(taken) + Behind = Len(shown) * Pieces
    /\ \A i \in 1..Len(taken) : InPlace(i)

LEMMA CompleteInit == Init => Complete
<1> SUFFICES ASSUME Init PROVE Complete
  OBVIOUS
<1>1. Len(taken) = 0 /\ Len(shown) = 0 /\ Behind = 0
  BY DEF Init, Behind
<1>2. 0 * Pieces = 0
  BY FeedAssumption DEF FeedAssumption
<1> QED BY <1>1, <1>2 DEF Init, Complete

LEMMA CompleteStep == IInv /\ OInv /\ Complete /\ [Next]_vars => Complete'
<1> SUFFICES ASSUME IInv, OInv, Complete, [Next]_vars, ctrl' = "START"
             PROVE  /\ spc' # "end"
                    /\ spc' \in {"off", "alloc", "init", "done"} => shown' = <<>> /\ flag' = 0
                    /\ Len(taken') + Behind' = Len(shown') * Pieces
                    /\ \A i \in 1..Len(taken') : InPlace(i)'
  BY DEF Complete
<1>1. TypeOK /\ FlagOwns /\ Counting /\ Published
  BY DEF IInv, OInv
<1>2. Len(taken) \in Nat /\ Len(shown) \in Nat /\ piece \in Nat /\ Pieces \in Nat /\ Pieces # 0
  BY <1>1, Shapes, FeedAssumption DEF FeedAssumption
<1>3. ctrl = "START"
  BY <1>1 DEF TypeOK, Next, Reader, OpenCamera, ReadFrame, CopyIn, Publish, StoreSize, Sender, AllocBuffer,
     OfferBuffer, LoopTop, TestFlag, ReadLen, CopyOut, Due, TooLate, SendPiece, Refused, Release,
     SendEnd, Main, CreateReader, CreateSender, StopSending, JoinSender, JoinNoThread, Decode, vars, main
<1>4. /\ spc # "end"
      /\ spc \in {"off", "alloc", "init", "done"} => shown = <<>> /\ flag = 0
      /\ Len(taken) + Behind = Len(shown) * Pieces
      /\ \A i \in 1..Len(taken) : InPlace(i)
  BY <1>3 DEF Complete
<1>5. CASE Publish
  <2>1. /\ shown' = Append(shown, cur) /\ taken' = taken /\ rpc = "publish"
        /\ spc' = spc /\ flag' = 0
    BY <1>5 DEF Publish, sender, decoder
  <2>2. Len(shown') = Len(shown) + 1 /\ \A i \in 1..Len(shown) : shown'[i] = shown[i]
    BY <1>1, <2>1, Publication
  <2>3. flag = 1 /\ spc \in {"top", "test"}
    BY <1>1, <1>4, <2>1 DEF FlagOwns
  <2>4. Behind = 0 /\ Behind' = Pieces
    BY <2>1, <2>3 DEF Behind
  <2>5. \A n \in Nat : (n + 1) * Pieces = n * Pieces + Pieces
    BY <1>2, Z3
  <2>6. Len(taken') + Behind' = Len(shown') * Pieces
    BY <1>2, <1>4, <2>1, <2>2, <2>4, <2>5
  <2>7. \A i \in 1..Len(taken') : InPlace(i)'
    BY <1>2, <1>4, <2>1, <2>2 DEF InPlace
  <2> QED BY <2>1, <2>3, <2>6, <2>7
<1>6. CASE SendPiece
  <2> DEFINE t == [frame |-> got, part |-> piece, len |-> len, copied |-> copied]
  <2>1. /\ taken' = Append(taken, t) /\ spc = "send" /\ shown' = shown
        /\ \/ piece < Pieces /\ spc' = "send" /\ piece' = piece + 1
           \/ ~(piece < Pieces) /\ spc' = "release"
    BY <1>6 DEF SendPiece, NextPiece
  <2>2. taken \in Seq([frame : Frame, part : 1..Pieces, len : Frame, copied : Frame])
    BY <1>1, Shapes
  <2>3. \A R : taken \in Seq(R) => taken \in Seq(R \cup {t})
    OBVIOUS
  <2>4. /\ Len(taken') = Len(taken) + 1
        /\ \A i \in 1..Len(taken) : taken'[i] = taken[i]
        /\ taken'[Len(taken) + 1] = t
    BY <2>2, <2>1, <2>3, Appended
  <2>5. piece \in 1..Pieces
    BY <1>1, <1>2, <2>1 DEF TypeOK, Counting
  <2>6. Behind = Pieces + 1 - piece /\ Behind' = Pieces - piece
    BY <1>2, <2>1, <2>5 DEF Behind
  <2>7. Len(taken') + Behind' = Len(shown') * Pieces
    <3>2. Len(taken) + (Pieces + 1 - piece) = Len(shown) * Pieces
      BY <1>4, <2>6
    <3>3. (Len(taken) + 1) + (Pieces - piece) = Len(taken) + (Pieces + 1 - piece)
      BY <1>2, <2>5
    <3> QED BY <2>1, <2>4, <2>6, <3>2, <3>3
  <2>8. shown # <<>> /\ got = shown[Len(shown)]
    BY <1>1, <2>1 DEF Published, Last
  <2>9. Len(shown) - 1 \in Nat
    BY <1>1, <1>2, <2>8, Shapes
  <2>10. Len(taken) = (Len(shown) - 1) * Pieces + (piece - 1)
    <3>1. \A n \in Nat : n - 1 \in Nat => (n - 1) * Pieces + Pieces = n * Pieces
      BY <1>2, Z3
    <3>2. \A n \in Nat : n * Pieces \in Nat
      BY <1>2, Z3
    <3>3. (Len(shown) - 1) * Pieces + Pieces = Len(shown) * Pieces
      BY <1>2, <2>9, <3>1
    <3>4. (Len(shown) - 1) * Pieces \in Nat
      BY <2>9, <3>2
    <3>5. Len(taken) + (Pieces + 1 - piece) = (Len(shown) - 1) * Pieces + Pieces
      BY <1>4, <2>6, <3>3
    <3>6. \A l, p, c, m \in Nat : l + (p + 1 - c) = m + p => l = m + (c - 1)
      OBVIOUS
    <3> QED BY <1>2, <3>4, <3>5, <3>6
  <2>11. Len(taken) % Pieces = piece - 1 /\ Len(taken) \div Pieces = Len(shown) - 1
    <3>1. piece - 1 \in 0..Pieces - 1
      BY <1>2, <2>5
    <3> QED BY <2>9, <2>10, <3>1, Division
  <2>12. \A i : i = Len(taken) + 1 => InPlace(i)'
    <3>1. (Len(taken) + 1) - 1 = Len(taken)
      BY <1>2
    <3>2. (Len(taken) % Pieces) + 1 = piece /\ (Len(taken) \div Pieces) + 1 = Len(shown)
      BY <1>2, <2>11
    <3>3. Len(shown) \in 1..Len(shown)
      BY <1>2, <2>9
    <3>4. /\ taken'[Len(taken) + 1].part = piece
          /\ taken'[Len(taken) + 1].frame = shown[Len(shown)]
      BY <2>4, <2>8
    <3>5. /\ taken'[Len(taken) + 1].part = ((Len(taken) + 1 - 1) % Pieces) + 1
          /\ ((Len(taken) + 1 - 1) \div Pieces) + 1 \in 1..Len(shown)
          /\ taken'[Len(taken) + 1].frame = shown[((Len(taken) + 1 - 1) \div Pieces) + 1]
      BY <3>1, <3>2, <3>3, <3>4
    <3> QED BY <2>1, <3>5 DEF InPlace
  <2>13. \A i \in 1..Len(taken) : InPlace(i)'
    BY <1>4, <2>1, <2>4 DEF InPlace
  <2>14. \A i \in 1..Len(taken') : InPlace(i)'
    <3>1. \A i \in 1..Len(taken') : i \in 1..Len(taken) \/ i = Len(taken) + 1
      BY <1>2, <2>4
    <3> QED BY <2>12, <2>13, <3>1
  <2> QED BY <2>1, <2>7, <2>14
<1>7. CASE ~Publish /\ ~SendPiece
  <2>1. shown' = shown
    BY <1>7, SameShown
  <2>2. taken' = taken
    BY <1>7 DEF Next, Reader, OpenCamera, ReadFrame, CopyIn, StoreSize, Sender, AllocBuffer, OfferBuffer,
       LoopTop, TestFlag, ReadLen, CopyOut, Due, TooLate, Refused, Release, SendEnd,
       Main, CreateReader, CreateSender, StopSending, JoinSender, JoinNoThread, Decode, vars, decoder
  <2>3. \A i \in 1..Len(taken') : InPlace(i)'
    BY <1>4, <2>1, <2>2 DEF InPlace
  <2>4. /\ spc' # "end"
        /\ spc' \in {"off", "alloc", "init", "done"} => shown = <<>> /\ flag' = 0
        /\ Behind' = Behind
    <3>1. CASE Reader
      BY <1>4, <1>7, <3>1 DEF Behind, Reader, OpenCamera, ReadFrame, CopyIn, StoreSize, shared, sender
    <3>2. CASE AllocBuffer \/ OfferBuffer
      BY <1>4, <3>2 DEF Behind, AllocBuffer, OfferBuffer
    <3>3. CASE LoopTop
      BY <1>3, <1>4, <3>3 DEF Behind, LoopTop, Leaves, shared
    <3>4. CASE TestFlag
      BY <1>4, <3>4 DEF Behind, TestFlag, shared
    <3>5. CASE ReadLen \/ CopyOut
      BY <1>4, <3>5 DEF Behind, ReadLen, CopyOut, shared
    <3>6. CASE Due
      BY <1>2, <1>4, <3>6 DEF Behind, Due, shared
    <3>7. CASE TooLate \/ Refused
      BY <1>3, <3>7 DEF TooLate, Refused, GivesUp
    <3>8. CASE Release
      BY <1>4, <3>8 DEF Behind, Release
    <3>9. CASE SendEnd
      BY <1>4, <3>9 DEF SendEnd
    <3>10. CASE Main \/ Decode
      <4>1. /\ flag' = flag /\ piece' = piece
            /\ spc' = spc \/ (mpc = "create" /\ spc' \in {"alloc", "off"})
        BY <3>10 DEF Main, CreateReader, CreateSender, StopSending, JoinSender, JoinNoThread, Decode, shared, sender
      <4>2. mpc = "create" => spc = "off"
        BY <1>1 DEF FlagOwns
      <4> QED BY <1>4, <4>1, <4>2 DEF Behind
    <3>11. CASE UNCHANGED vars
      BY <1>4, <3>11 DEF Behind, vars, shared, sender
    <3> QED BY <1>7, <3>1, <3>2, <3>3, <3>4, <3>5, <3>6, <3>7, <3>8, <3>9, <3>10, <3>11 DEF Next, Sender
  <2> QED BY <1>4, <2>1, <2>2, <2>3, <2>4
<1> QED BY <1>5, <1>6, <1>7

THEOREM CompleteInvariant == Spec => []Complete
<1>1. IInv /\ OInv /\ Complete /\ [Next]_vars => Complete'
  BY CompleteStep
<1> QED BY <1>1, CompleteInit, FeedInvariant, OrderInvariant, PTL DEF Spec

(* Nothing is sent twice or out of order, and until the stop no piece of a  *)
(* published frame is left out, whatever the decoder refuses and for how    *)
(* long.                                                                    *)
THEOREM TakenOnceInOrder == Spec => []OnceInOrder
<1>1. IInv /\ OInv /\ Complete => OnceInOrder
  <2> SUFFICES ASSUME TypeOK, Counting, Taken, Complete PROVE OnceInOrder
    BY DEF IInv, OInv
  <2>1. ctrl = "START" => Len(shown) * Pieces <= Len(taken) + Pieces
    <3> SUFFICES ASSUME ctrl = "START" PROVE Len(shown) * Pieces <= Len(taken) + Pieces
      OBVIOUS
    <3>1. Len(taken) + Behind = Len(shown) * Pieces
      BY DEF Complete
    <3>2. Len(taken) \in Nat /\ Pieces \in Nat /\ piece \in Nat
      BY Shapes, FeedAssumption DEF FeedAssumption
    <3>3. piece <= Pieces
      BY <3>2 DEF TypeOK
    <3>4. Behind \in Nat /\ Behind <= Pieces
      BY <3>2, <3>3 DEF Behind, Counting
    <3>5. Len(taken) + Behind <= Len(taken) + Pieces
      BY <3>2, <3>4
    <3> QED BY <3>1, <3>5
  <2> QED BY <2>1 DEF OnceInOrder, Taken, InOrder, Complete, InPlace
<1> QED BY <1>1, FeedInvariant, OrderInvariant, CompleteInvariant, PTL
============================================================================
