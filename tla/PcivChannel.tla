---------------------------- MODULE PcivChannel ----------------------------
(***************************************************************************)
(* One co-processing channel between start and stop: the host's co-thread  *)
(* (sample_pciv_host.c) announces a small picture of VPSS with WRITE_DONE, *)
(* the slave's co-thread (sample_pciv_slave.c) reads it out of the host's  *)
(* memory by DMA and answers READ_DONE with a rectangle, which the host    *)
(* draws on the big picture of the same moment.  The answer does not say   *)
(* which picture it is about.                                              *)
(***************************************************************************)
EXTENDS Integers, Sequences

CONSTANTS
  Block,       \* the blocks VPSS can put a small picture into
  PicMod,      \* pictures are numbered modulo PicMod
  QueueCap,    \* messages the driver stores for a port before write() fails
  Sessions     \* the sets of faults a session can meet: "msg", "dma", "base",
               \* "vb" and "late" (see the actions)

ASSUME PicModAssumption == PicMod \in Nat \ {0}
ASSUME QueueCapAssumption == QueueCap \in Nat \ {0}

VARIABLES
  faults,      \* the faults that can happen between this start and stop
  hstart,      \* is_start of the host's thread
  hpc,         \* the host's thread: "get", "send", "base", "read", "draw",
               \* "done"
  proc,        \* the block of proc_frame_info
  rect,        \* recv_msg: the picture the answer was computed from
  free,        \* blocks VPSS may overwrite
  content,     \* number of the picture in each block
  last,        \* number of the last picture
  sstart,      \* is_start of the slave's thread
  spc,         \* the slave's thread: "read", "dma", "answer", "done"
  work,        \* the WRITE_DONE message it works on
  seen,        \* what its DMA request has read so far
  write_done,  \* the message port, host to slave
  read_done    \* and slave to host

host == <<hstart, hpc, proc, rect, free, content, last>>
slave == <<sstart, spc, work, seen>>
ports == <<write_done, read_done>>
vars == <<faults, host, slave, ports>>

-----------------------------------------------------------------------------
Picture == 0..(PicMod - 1)
Torn == PicMod              \* parts of two pictures
Answer == [ok : BOOLEAN, of : Picture \cup {Torn}]

CanFail(port) == Len(port) >= QueueCap \/ "msg" \in faults

(* The wait for READ_DONE ends after PCIV_REPEAT_MAX_TIME tries: when no    *)
(* answer can come any more, or, with the fault "late", before it comes.    *)
(* (Faulty variants: after the first try; never.)                           *)
TimesOut_never == FALSE
TimesOut_first == read_done = <<>>
TimesOut ==
  /\ read_done = <<>>
  /\ "late" \in faults \/ spc = "done" \/ (spc = "read" /\ write_done = <<>>)

-----------------------------------------------------------------------------
(* The host takes the next picture of channel 3 out of VPSS.                *)
HostGet ==
  /\ hpc = "get" /\ hstart
  /\ \E b \in free :
       /\ proc' = b /\ free' = free \ {b}
       /\ content' = [content EXCEPT ![b] = (last + 1) % PicMod]
  /\ last' = (last + 1) % PicMod
  /\ hpc' = "send"
  /\ UNCHANGED <<faults, hstart, rect, slave, ports>>

(* release_proc: VPSS gets the block back.                                  *)
Release == hpc' = "get" /\ free' = free \cup {proc}

HostSend ==
  /\ hpc = "send"
  /\ \/ /\ Len(write_done) < QueueCap
        /\ write_done' = Append(write_done, proc)
        /\ hpc' = "base" /\ UNCHANGED free
     \/ CanFail(write_done) /\ Release /\ UNCHANGED write_done
  /\ UNCHANGED <<faults, hstart, proc, rect, content, last, slave, read_done>>

(* The big picture of channel 2: without it the host gives the small one    *)
(* back although the slave was told to read it.                             *)
HostBase ==
  /\ hpc = "base"
  /\ \/ hpc' = "read" /\ UNCHANGED free
     \/ "base" \in faults /\ Release
  /\ UNCHANGED <<faults, hstart, proc, rect, content, last, slave, ports>>

(* (Faulty variant of the test: the ret_val of the answer is not looked     *)
(* at.)                                                                     *)
Usable_any(m) == TRUE
Usable(m) == m.ok

HostRead ==
  /\ hpc = "read"
  /\ \/ /\ read_done # <<>> /\ read_done' = Tail(read_done)
        /\ rect' = Head(read_done).of
        /\ IF Usable(Head(read_done)) THEN hpc' = "draw" /\ UNCHANGED free
           ELSE Release
     \/ TimesOut /\ Release /\ UNCHANGED <<rect, read_done>>
  /\ UNCHANGED <<faults, hstart, proc, content, last, slave, write_done>>

(* The rectangle is drawn and the picture shown, or VGS or VO refuses; both *)
(* pictures go back to VPSS.                                                *)
HostDraw ==
  /\ hpc = "draw" /\ Release
  /\ UNCHANGED <<faults, hstart, proc, rect, content, last, slave, ports>>

(* Another picture passes through a block VPSS has back.                    *)
VpssOverwrites ==
  /\ \E b \in free : content' = [content EXCEPT ![b] = (last + 1) % PicMod]
  /\ last' = (last + 1) % PicMod
  /\ UNCHANGED <<faults, hstart, hpc, proc, rect, free, slave, ports>>

(* The main thread stops the channel; the thread sees it when it is back at *)
(* its loop.                                                                *)
StopHost ==
  /\ hstart /\ hstart' = FALSE
  /\ UNCHANGED <<faults, hpc, proc, rect, free, content, last, slave, ports>>

HostEnds ==
  /\ hpc = "get" /\ ~hstart /\ hpc' = "done"
  /\ UNCHANGED <<faults, hstart, proc, rect, free, content, last, slave, ports>>

-----------------------------------------------------------------------------
(* The slave reads WRITE_DONE and starts its DMA request.                   *)
SlaveRead ==
  /\ spc = "read" /\ sstart /\ write_done # <<>>
  /\ work' = Head(write_done) /\ write_done' = Tail(write_done)
  /\ seen' = content[Head(write_done)]
  /\ spc' = "dma"
  /\ UNCHANGED <<faults, host, sstart, read_done>>

(* The request completes.  What it read is one picture if the block was     *)
(* left alone meanwhile.                                                    *)
SlaveDma ==
  /\ spc = "dma" /\ spc' = "answer"
  /\ seen' = IF content[work] = seen THEN seen ELSE Torn
  /\ UNCHANGED <<faults, host, sstart, work, ports>>

(* READ_DONE; a request that failed is answered too, without a rectangle.   *)
(* When the message cannot be sent nothing more is done about it.           *)
Body == seen

SlaveAnswer ==
  /\ spc = "answer" /\ spc' = "read"
  /\ \/ /\ Len(read_done) < QueueCap
        /\ \/ read_done' = Append(read_done, [ok |-> TRUE, of |-> Body])
           \/ /\ "dma" \in faults
              /\ read_done' = Append(read_done, [ok |-> FALSE, of |-> Torn])
     \/ CanFail(read_done) /\ UNCHANGED read_done
  /\ UNCHANGED <<faults, host, sstart, work, seen, write_done>>

(* EXIT is sent once the host's thread has been joined.  (Faulty variant:   *)
(* without waiting for it.)                                                 *)
HostJoined_early == ~hstart
HostJoined == hpc = "done"

StopSlave ==
  /\ HostJoined /\ sstart /\ sstart' = FALSE
  /\ UNCHANGED <<faults, host, spc, work, seen, ports>>

SlaveEnds ==
  /\ spc = "read" /\ ~sstart /\ spc' = "done"
  /\ UNCHANGED <<faults, host, sstart, work, seen, ports>>

(* A slave thread that gets no memory block returns at once.                *)
SlaveStart(fs) == {"read"} \cup (IF "vb" \in fs THEN {"done"} ELSE {})

(* The channel is started again: the ports were closed, and what was in     *)
(* them is lost.                                                            *)
StartAgain ==
  /\ hpc = "done" /\ spc = "done"
  /\ hstart' = TRUE /\ hpc' = "get" /\ sstart' = TRUE /\ faults' \in Sessions
  /\ spc' \in SlaveStart(faults')
  /\ write_done' = <<>> /\ read_done' = <<>>
  /\ UNCHANGED <<proc, rect, free, content, last, work, seen>>

-----------------------------------------------------------------------------
Init ==
  /\ hstart = TRUE /\ hpc = "get" /\ proc \in Block /\ rect = 0
  /\ free = Block /\ content = [b \in Block |-> 0] /\ last = 0
  /\ sstart = TRUE /\ faults \in Sessions
  /\ spc \in SlaveStart(faults) /\ work \in Block /\ seen = 0
  /\ write_done = <<>> /\ read_done = <<>>

HostThread ==
  HostGet \/ HostSend \/ HostBase \/ HostRead \/ HostDraw \/ HostEnds
SlaveThread == SlaveRead \/ SlaveDma \/ SlaveAnswer \/ SlaveEnds

Next ==
  \/ HostThread \/ SlaveThread \/ VpssOverwrites
  \/ StopHost \/ StopSlave \/ StartAgain

Spec == Init /\ [][Next]_vars

(* Both threads are scheduled, DMA requests complete; once the host's       *)
(* thread is joined EXIT is sent.                                           *)
FairSpec ==
  Spec /\ WF_vars(HostThread) /\ WF_vars(SlaveThread) /\ WF_vars(StopSlave)

-----------------------------------------------------------------------------
(* Every variable has the type its C declaration and its uses give it.      *)
TypeOK ==
  /\ faults \in Sessions
  /\ hstart \in BOOLEAN /\ sstart \in BOOLEAN
  /\ hpc \in {"get", "send", "base", "read", "draw", "done"}
  /\ spc \in {"read", "dma", "answer", "done"}
  /\ proc \in Block /\ work \in Block /\ free \subseteq Block
  /\ content \in [Block -> Picture] /\ last \in Picture
  /\ rect \in Picture \cup {Torn} /\ seen \in Picture \cup {Torn}
  /\ write_done \in Seq(Block) /\ read_done \in Seq(Answer)

(* The timing the channel relies on: the wait for READ_DONE does not end    *)
(* before the answer, the slave's thread runs, the big picture is there.    *)
InTime == faults \cap {"late", "vb", "base"} = {}

(* The host keeps a picture as long as the slave may read it: the one block *)
(* that is announced or under DMA is the one the host holds.                *)
HeldWhileRead ==
  InTime =>
    /\ spc = "dma" => hpc \in {"base", "read"} /\ work = proc
    /\ \A i \in DOMAIN write_done :
         i = 1 /\ hpc \in {"base", "read"} /\ write_done[i] = proc

(* The rectangle that is drawn was computed from the small picture that     *)
(* goes with the big one, lost messages and failed requests in between      *)
(* notwithstanding.                                                         *)
RectMatches == InTime /\ hpc = "draw" => rect = content[proc]

(* When the host's thread has ended, both ports are empty and the slave is  *)
(* idle: EXIT finds nothing under way.                                      *)
NothingLeft ==
  InTime /\ hpc = "done" =>
    write_done = <<>> /\ read_done = <<>> /\ spc \in {"read", "done"}

(* A stop is completed on both sides, whatever is lost, late or refused.    *)
StopCompletes == ~hstart ~> (hpc = "done" /\ spc = "done")
=============================================================================
