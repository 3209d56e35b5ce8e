------------------------- MODULE PcivChannel_proofs -------------------------
(***************************************************************************)
(* Proofs about PcivChannel: in a session in which answers come in time    *)
(* the host holds a picture as long as the slave may read it, and every    *)
(* rectangle is drawn on its own picture.                                  *)
(***************************************************************************)
EXTENDS PcivChannel, TLAPS

(* An exchange is in one of four phases, and the message ports, the slave   *)
(* and the host agree on it.                                                *)
Quiet == write_done = <<>> /\ read_done = <<>>
Announced == write_done = <<proc>> /\ read_done = <<>> /\ spc = "read"
Reading ==
  /\ Quiet /\ spc \in {"dma", "answer"}
  /\ work = proc /\ seen = content[proc]
AnswerOfProc(m) == m.ok => m.of = content[proc]
Back ==
  /\ write_done = <<>> /\ spc = "read"
  /\ \E m \in Answer : read_done = <<m>> /\ AnswerOfProc(m)
Lost == Quiet /\ spc = "read"

Exchange == Announced \/ Reading \/ Back \/ Lost

PhaseInv ==
  /\ hpc \in {"get", "send"} => Quiet /\ spc = "read"
  /\ hpc = "done" => Quiet /\ spc \in {"read", "done"}
  /\ hpc \in {"base", "read"} => Exchange
  /\ hpc = "draw" => Quiet /\ spc = "read" /\ rect = content[proc]
  /\ hpc \notin {"get", "done"} => proc \notin free
  /\ ~sstart => hpc = "done"
  /\ spc = "done" => ~sstart

IInv == TypeOK /\ (InTime => PhaseInv)

-----------------------------------------------------------------------------
(* The number of the next picture is a number of a picture. *)
LEMMA NextPicture == ASSUME last \in Picture PROVE (last + 1) % PicMod \in Picture
  BY PicModAssumption DEF Picture

(* READ_DONE keeps the type of the port. *)
LEMMA AnswerType == ASSUME TypeOK, SlaveAnswer PROVE read_done' \in Seq(Answer)
  <1> DEFINE good == [ok |-> TRUE, of |-> seen]
             bad == [ok |-> FALSE, of |-> Torn]
  <1>1. good \in Answer /\ bad \in Answer
    BY DEF TypeOK, Answer
  <1>2. read_done \in Seq(Answer)
    BY DEF TypeOK
  <1>3. read_done' \in {read_done, Append(read_done, good), Append(read_done, bad)}
    BY DEF SlaveAnswer, Body
  <1> HIDE DEF good, bad
  <1> QED BY <1>1, <1>2, <1>3

(* Every step keeps the types. *)
LEMMA TypeStep == ASSUME TypeOK, [Next]_vars PROVE TypeOK'
  <1> USE DEF ports
  <1>1. CASE HostGet
    BY <1>1, NextPicture DEF HostGet, TypeOK, slave
  <1>2. CASE HostSend
    BY <1>2 DEF HostSend, Release, TypeOK, slave
  <1>3. CASE HostBase
    BY <1>3 DEF HostBase, Release, TypeOK, slave
  <1>4. CASE HostRead
    <2>1. read_done' \in Seq(Answer)
      <3>1. read_done \in Seq(Answer)
        BY DEF TypeOK
      <3>2. \/ read_done # <<>> /\ read_done' = Tail(read_done)
            \/ read_done' = read_done
        BY <1>4 DEF HostRead
      <3>3. CASE read_done # <<>> /\ read_done' = Tail(read_done)
        BY <3>1, <3>3
      <3> QED BY <3>1, <3>2, <3>3
    <2>2. rect' \in Picture \cup {Torn}
      <3>1. CASE rect' = rect
        BY <3>1 DEF TypeOK
      <3>2. CASE read_done # <<>> /\ rect' = Head(read_done).of
        <4>1. Head(read_done) \in Answer
          BY <3>2 DEF TypeOK
        <4> QED BY <3>2, <4>1 DEF Answer
      <3> QED BY <1>4, <3>1, <3>2 DEF HostRead
    <2>3. hpc' \in {"get", "draw"} /\ free' \subseteq Block
      BY <1>4 DEF HostRead, Release, TypeOK
    <2>4. UNCHANGED <<faults, hstart, proc, content, last, slave, write_done>>
      BY <1>4 DEF HostRead
    <2> QED BY <2>1, <2>2, <2>3, <2>4 DEF TypeOK, slave
  <1>5. CASE HostDraw \/ HostEnds
    BY <1>5 DEF HostDraw, HostEnds, Release, TypeOK, slave
  <1>6. CASE SlaveRead
    <2>1. Head(write_done) \in Block /\ Tail(write_done) \in Seq(Block)
      BY <1>6 DEF SlaveRead, TypeOK
    <2> QED BY <1>6, <2>1 DEF SlaveRead, TypeOK, host
  <1>7. CASE SlaveDma \/ SlaveEnds
    BY <1>7 DEF SlaveDma, SlaveEnds, TypeOK, host
  <1>8. CASE SlaveAnswer
    <2>1. spc' = "read" /\ UNCHANGED <<faults, host, sstart, work, seen, write_done>>
      BY <1>8 DEF SlaveAnswer
    <2> QED BY <1>8, <2>1, AnswerType DEF TypeOK, host
  <1>9. CASE VpssOverwrites
    BY <1>9, NextPicture DEF VpssOverwrites, TypeOK, slave
  <1>10. CASE StopHost \/ StopSlave
    BY <1>10 DEF StopHost, StopSlave, TypeOK, host, slave
  <1>11. CASE StartAgain
    <2>1. spc' \in {"read", "done"}
      BY <1>11 DEF StartAgain, SlaveStart
    <2> QED BY <1>11, <2>1 DEF StartAgain, TypeOK
  <1>12. CASE UNCHANGED vars
    BY <1>12 DEF vars, TypeOK, host, slave
  <1> QED BY <1>1, <1>2, <1>3, <1>4, <1>5, <1>6, <1>7, <1>8, <1>9, <1>10,
             <1>11, <1>12 DEF Next, HostThread, SlaveThread

-----------------------------------------------------------------------------
(* In time, every step of the host's thread keeps the phases in order. *)
LEMMA HostStep == ASSUME TypeOK, InTime, PhaseInv, HostThread PROVE PhaseInv'
  <1> USE DEF ports
  <1>1. CASE HostGet
    BY <1>1 DEF HostGet, TypeOK, PhaseInv, Quiet, slave
  <1>2. CASE HostSend
    BY <1>2 DEF HostSend, Release, TypeOK, PhaseInv, Quiet, Exchange,
                Announced, slave
  <1>3. CASE HostBase
    <2>1. hpc = "base" /\ hpc' = "read" /\ UNCHANGED free
      BY <1>3 DEF HostBase, InTime
    <2>2. Exchange'
      BY <1>3, <2>1 DEF HostBase, PhaseInv, Exchange, Announced, Reading, Back,
                        AnswerOfProc, Lost, Quiet, slave
    <2> QED BY <1>3, <2>1, <2>2 DEF HostBase, PhaseInv, slave
  <1>4. CASE HostRead
    <2>1. hpc = "read" /\ Exchange
      BY <1>4 DEF HostRead, PhaseInv
    <2>2. CASE read_done # <<>>
      <3>1. PICK m \in Answer : read_done = <<m>> /\ AnswerOfProc(m)
        BY <2>1, <2>2 DEF Exchange, Announced, Reading, Back, Lost, Quiet
      <3>2. Head(read_done) = m /\ Tail(read_done) = <<>>
        BY <3>1
      <3>3. write_done = <<>> /\ spc = "read"
        BY <2>1, <2>2 DEF Exchange, Announced, Reading, Back, Lost, Quiet
      <3>4. rect' = m.of /\ read_done' = <<>>
        BY <1>4, <2>2, <3>2 DEF HostRead, TimesOut
      <3> QED BY <1>4, <2>2, <3>1, <3>2, <3>3, <3>4 DEF HostRead, TypeOK,
                 PhaseInv, Quiet, AnswerOfProc, Usable, Release, TimesOut, slave
    <2>3. CASE read_done = <<>>
      <3>1. TimesOut /\ Release /\ UNCHANGED <<rect, read_done>>
        BY <1>4, <2>3 DEF HostRead
      <3>2. Quiet /\ spc = "read"
        BY <2>1, <3>1 DEF TimesOut, InTime, PhaseInv, Exchange, Announced,
           Reading, Back, Lost, Quiet
      <3> QED BY <1>4, <2>1, <3>1, <3>2 DEF HostRead, TypeOK, PhaseInv, Quiet,
                 Release, slave
    <2> QED BY <2>2, <2>3
  <1>5. CASE HostDraw
    BY <1>5 DEF HostDraw, Release, TypeOK, PhaseInv, Quiet, slave
  <1>6. CASE HostEnds
    BY <1>6 DEF HostEnds, TypeOK, PhaseInv, Quiet, slave
  <1> QED BY <1>1, <1>2, <1>3, <1>4, <1>5, <1>6 DEF HostThread

(* In time, every step of the slave's thread keeps the phases in order. *)
LEMMA SlaveStep == ASSUME TypeOK, InTime, PhaseInv, SlaveThread PROVE PhaseInv'
  <1>1. CASE SlaveRead
    <2>1. hpc \in {"base", "read"} /\ write_done = <<proc>> /\ read_done = <<>>
      BY <1>1 DEF SlaveRead, TypeOK, PhaseInv, Quiet, Exchange, Announced,
                  Reading, Back, Lost
    <2>2. Head(write_done) = proc /\ Tail(write_done) = <<>>
      BY <2>1
    <2>3. Reading'
      BY <1>1, <2>1, <2>2 DEF SlaveRead, Reading, Quiet, host
    <2> QED BY <1>1, <2>1, <2>3 DEF SlaveRead, PhaseInv, Exchange, host
  <1>2. CASE SlaveDma
    <2>1. hpc \in {"base", "read"} /\ Reading
      BY <1>2 DEF SlaveDma, TypeOK, PhaseInv, Exchange, Announced, Back, Lost
    <2>2. Reading'
      BY <1>2, <2>1 DEF SlaveDma, Reading, Quiet, host, ports
    <2> QED BY <1>2, <2>1, <2>2 DEF SlaveDma, PhaseInv, Exchange, host
  <1>3. CASE SlaveAnswer
    <2>1. hpc \in {"base", "read"} /\ Reading
      BY <1>3 DEF SlaveAnswer, TypeOK, PhaseInv, Exchange, Announced, Back, Lost
    <2>2. read_done = <<>> /\ write_done = <<>>
      BY <2>1 DEF Reading, Quiet
    <2>3. [ok |-> TRUE, of |-> seen] \in Answer /\ [ok |-> FALSE, of |-> Torn] \in Answer
      BY DEF TypeOK, Answer
    <2>4. read_done' \in {<<>>, <<[ok |-> TRUE, of |-> seen]>>,
                          <<[ok |-> FALSE, of |-> Torn]>>}
      BY <1>3, <2>2 DEF SlaveAnswer, Body
    <2>5. Back' \/ Lost'
      <3>1. CASE read_done' = <<>>
        BY <1>3, <2>2, <3>1 DEF SlaveAnswer, Lost, Quiet
      <3>2. CASE read_done' = <<[ok |-> TRUE, of |-> seen]>>
        BY <1>3, <2>1, <2>2, <2>3, <3>2
           DEF SlaveAnswer, Back, AnswerOfProc, Reading, host
      <3>3. CASE read_done' = <<[ok |-> FALSE, of |-> Torn]>>
        BY <1>3, <2>2, <2>3, <3>3 DEF SlaveAnswer, Back, AnswerOfProc, host
      <3> QED BY <2>4, <3>1, <3>2, <3>3
    <2> QED BY <1>3, <2>1, <2>5 DEF SlaveAnswer, PhaseInv, Exchange, host
  <1>4. CASE SlaveEnds
    BY <1>4 DEF SlaveEnds, TypeOK, PhaseInv, Quiet, host, ports
  <1> QED BY <1>1, <1>2, <1>3, <1>4 DEF SlaveThread

(* In time, VPSS, the two stops and stuttering keep the phases in order. *)
LEMMA OtherStep ==
  ASSUME TypeOK, InTime, PhaseInv,
         VpssOverwrites \/ StopHost \/ StopSlave \/ UNCHANGED vars
  PROVE  PhaseInv'
  <1> USE DEF ports
  <1>1. CASE VpssOverwrites
    <2>1. PICK b \in free :
            content' = [content EXCEPT ![b] = (last + 1) % PicMod]
      BY <1>1 DEF VpssOverwrites
    <2>2. hpc \notin {"get", "done"} => content'[proc] = content[proc]
      BY <2>1 DEF PhaseInv, TypeOK
    <2>3. hpc \in {"base", "read"} => Exchange'
      BY <1>1, <2>2 DEF VpssOverwrites, PhaseInv, Exchange, Announced, Reading,
                        Back, AnswerOfProc, Lost, Quiet, slave
    <2> QED BY <1>1, <2>2, <2>3 DEF VpssOverwrites, PhaseInv, Quiet, slave
  <1>2. CASE StopHost \/ UNCHANGED vars
    <2>1. Exchange' = Exchange
      BY <1>2 DEF StopHost, vars, Exchange, Announced, Reading, Back,
                  AnswerOfProc, Lost, Quiet, host, slave
    <2> QED BY <1>2, <2>1 DEF StopHost, vars, PhaseInv, Quiet, host, slave
  <1>3. CASE StopSlave
    BY <1>3 DEF StopSlave, HostJoined, TypeOK, PhaseInv, Quiet, host
  <1> QED BY <1>1, <1>2, <1>3

(* A session that starts in time starts with the phases in order. *)
LEMMA RestartStep == ASSUME TypeOK, StartAgain, InTime' PROVE PhaseInv'
  BY DEF StartAgain, SlaveStart, InTime, TypeOK, PhaseInv, Quiet

-----------------------------------------------------------------------------
(* The inductive invariant holds of every behaviour: the types, and in a    *)
(* session in time the phases.                                              *)
THEOREM PhaseInvariant == Spec => []IInv
  <1>1. Init => IInv
    <2>1. 0 \in Picture
      BY PicModAssumption DEF Picture
    <2>2. Init => TypeOK
      BY <2>1 DEF Init, TypeOK, SlaveStart
    <2>3. Init => (InTime => PhaseInv)
      BY DEF Init, PhaseInv, Quiet, SlaveStart, InTime
    <2> QED BY <2>2, <2>3 DEF IInv
  <1>2. IInv /\ [Next]_vars => IInv'
    <2> SUFFICES ASSUME TypeOK, InTime => PhaseInv, [Next]_vars
                 PROVE  TypeOK' /\ (InTime' => PhaseInv')
      BY DEF IInv
    <2>1. TypeOK'
      BY TypeStep
    <2>2. CASE StartAgain
      BY <2>1, <2>2, RestartStep
    <2>3. CASE ~StartAgain
      <3>1. faults' = faults
        BY <2>3 DEF Next, HostThread, HostGet, HostSend, HostBase, HostRead,
           HostDraw, HostEnds, SlaveThread, SlaveRead, SlaveDma, SlaveAnswer,
           SlaveEnds, VpssOverwrites, StopHost, StopSlave, vars
      <3>2. InTime' => PhaseInv'
        BY <2>3, <3>1, HostStep, SlaveStep, OtherStep DEF Next, InTime
      <3> QED BY <2>1, <3>2
    <2> QED BY <2>2, <2>3
  <1> QED BY <1>1, <1>2, PTL DEF Spec

(* Every variable keeps its type, whatever can go wrong in the sessions. *)
THEOREM ChannelTypes == Spec => []TypeOK
  <1>1. IInv => TypeOK
    BY DEF IInv
  <1> QED BY <1>1, PhaseInvariant, PTL

(* The picture that is announced or under DMA is the one the host holds:    *)
(* sample_pciv_host_co_thread never gives it back too early.                *)
THEOREM PictureHeld == Spec => []HeldWhileRead
  <1>1. IInv => HeldWhileRead
    BY DEF IInv, TypeOK, PhaseInv, HeldWhileRead, Quiet, Exchange, Announced,
           Reading, Back, Lost
  <1> QED BY <1>1, PhaseInvariant, PTL

(* Every rectangle is drawn on the picture it was computed from. *)
THEOREM RectOfItsPicture == Spec => []RectMatches
  <1>1. IInv => RectMatches
    BY DEF IInv, PhaseInv, RectMatches
  <1> QED BY <1>1, PhaseInvariant, PTL

(* The end of the host's thread leaves nothing under way. *)
THEOREM EndsQuiet == Spec => []NothingLeft
  <1>1. IInv => NothingLeft
    BY DEF IInv, PhaseInv, NothingLeft, Quiet
  <1> QED BY <1>1, PhaseInvariant, PTL
=============================================================================
