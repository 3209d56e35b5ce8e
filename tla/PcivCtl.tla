------------------------------ MODULE PcivCtl ------------------------------
(***************************************************************************)
(* Control of the PCIe co-processors: the host program starts and stops    *)
(* one co-processing channel after another on every slave chip.            *)
(*                                                                         *)
(*   host main     sample_pciv_host.c: menu, start, stop, quit             *)
(*   slave main    sample_pciv_slave.c: reads a command, deals with it,    *)
(*                 echoes the result                                       *)
(*   co-threads    one on each side of a started channel; what they do     *)
(*                 between start and stop is the subject of PcivChannel    *)
(*   message ports pciv_msg.c: which ports each side has open              *)
(*                                                                         *)
(* Channels are numbered in the order of the two loops over chips and ids. *)
(***************************************************************************)
EXTENDS Integers, Sequences

CONSTANTS
  NChans,      \* SAMPLE_PCIV_CHN_PER_CHIP
  MaxPort,     \* PCIV_MSG_MAX_PORT, counted from PCIV_MSG_BASE_PORT
  QueueCap,    \* messages the driver stores for a port before write() fails
  MaxChips,    \* chips in the largest machine
  Setups       \* what can be found in one run: pairs of the number of chips
               \* and the kinds of fault that go together, a set of
               \* "msg", "late", "open", "sopen", "vb", "media", "kill",
               \* "skill"

ASSUME MaxChipsAssumption == MaxChips \in Nat \ {0}
ASSUME SetupsAssumption ==
  Setups \subseteq (1..MaxChips) \X
    SUBSET {"msg", "late", "open", "sopen", "vb", "media", "kill", "skill"}
ASSUME NChansAssumption == NChans \in Nat \ {0}
ASSUME MaxPortAssumption == MaxPort \in Nat
ASSUME QueueCapAssumption == QueueCap \in Nat \ {0}

VARIABLES
  hpc,         \* where the host's main thread is
  k,           \* the channel, or the chip while quitting, its loop is at
  ret,         \* main's ret: "unset" (never assigned), "ok" or "fail"
  signo,       \* g_signo_flag: FALSE after ctrl+c
  cur_port,    \* g_cur_msg_port, counted from PCIV_MSG_BASE_PORT
  hfd,         \* g_msg_fd of the host: the ports open to each chip
  hthr,        \* g_all_thrad and the state of the host's co-threads
  slave,       \* each slave's main thread: where it is, its msg and result
  sfd,         \* g_msg_fd of each slave: the ports open to the host
  sthr,        \* g_co_thrad and the state of the slaves' co-threads
  chip_num,    \* g_chips.chip_num, enumerated when the host starts
  faults,      \* the kinds that happen in this run (see the actions)
  cmd, echo,   \* PCIV_MSGPORT_COMM_CMD of each chip, host to slave and back
  settled      \* history: the chips whose slave was idle when this host was
               \* started and has not been started again since

setup == <<chip_num, faults>>
host == <<hpc, k, ret, signo, cur_port, hfd, hthr>>
slaves == <<slave, sfd, sthr>>
vars == <<host, slaves, cmd, echo, settled, setup>>

-----------------------------------------------------------------------------
Chip == 1..chip_num
Chan == 1..(chip_num * NChans)
ChipOf(i) == (i - 1) \div NChans + 1
ChansOf(c) == {i \in Chan : ChipOf(i) = c}

(* Port 0 is what a zeroed sample_pciv_co_thread holds: outside the table.  *)
NoPort == 0
Port == 1..MaxPort

Thread == [is_start : BOOLEAN, port : {NoPort} \cup Port,
           st : {"none", "run", "ended"}]
NoThread == [is_start |-> FALSE, port |-> NoPort, st |-> "none"]

Command == [type : {"INIT", "EXIT"}, of : Chan, port : {NoPort} \cup Port]
             \cup [type : {"QUIT"}, of : Chip, port : {NoPort}]
Cmd(type, of, port) == [type |-> type, of |-> of, port |-> port]
Answer(m, ok) == [to |-> m, ok |-> ok]

(* A slave's main thread between two commands: what the last one left in    *)
(* its msg is overwritten by the next.                                      *)
NoCommand(c, pc) == [pc |-> pc, msg |-> Cmd("QUIT", c, NoPort), ok |-> FALSE]
Alive(c) == slave[c].pc # "gone"

(* pciv_send_msg on the command port of chip c.  A slave that has gone      *)
(* leaves a port that may or may not still take the message.                *)
Sent(c, m) ==
  \/ /\ Alive(c) /\ Len(cmd[c]) < QueueCap
     /\ cmd' = [cmd EXCEPT ![c] = Append(@, m)]
  \/ ~Alive(c) /\ UNCHANGED cmd
SendFails(c) ==
  /\ ~Alive(c) \/ Len(cmd[c]) >= QueueCap \/ "msg" \in faults
  /\ UNCHANGED cmd

(* sample_pciv_read_msg gives up after PCIV_REPEAT_MAX_TIME tries: when no  *)
(* answer can come any more, or, with the fault "late", before it comes.    *)
(* The faulty variant gives up after the first try.                         *)
TimesOut_first(c) == echo[c] = <<>>
NoAnswerComes(c) == ~Alive(c) \/ (slave[c].pc = "read" /\ cmd[c] = <<>>)
TimesOut(c) == echo[c] = <<>> /\ ("late" \in faults \/ NoAnswerComes(c))
Answered(c) == echo[c] # <<>> /\ echo' = [echo EXCEPT ![c] = Tail(@)]

-----------------------------------------------------------------------------
(* Key '1': pciv_free_all_msg_port, then the media channels are set up; if  *)
(* that fails main leaves its loop.                                         *)
FreeAllPorts == 1

StartCoprocessor ==
  /\ hpc = "menu" /\ signo
  /\ cur_port' = FreeAllPorts
  /\ \/ hpc' = "init" /\ k' = 1 /\ UNCHANGED ret
     \/ "media" \in faults /\ hpc' = "exit" /\ ret' = "fail" /\ UNCHANGED k
  /\ UNCHANGED <<signo, hfd, hthr, slaves, cmd, echo, settled, setup>>

(* A failure anywhere in sample_pciv_init_slave_coprocessor: everything is  *)
(* stopped, from the first channel on, and main will leave its loop.        *)
GiveUp == hpc' = "stop" /\ k' = 1 /\ ret' = "fail"

(* One round of sample_pciv_init_slave_coprocessor up to the wait for the   *)
(* answer: a port is allocated and opened and INIT is sent.  The opened     *)
(* port is recorded in g_all_thrad only after the answer.                   *)
PortLeft == cur_port <= MaxPort

InitChannel ==
  /\ hpc = "init"
  /\ LET c == ChipOf(k) IN
     \/ /\ ~PortLeft \/ cur_port \in hfd[c] \/ "open" \in faults
        /\ cur_port' = IF PortLeft THEN cur_port + 1 ELSE cur_port
        /\ GiveUp /\ UNCHANGED <<hfd, cmd>>
     \/ /\ PortLeft /\ cur_port \notin hfd[c]
        /\ cur_port' = cur_port + 1
        /\ hfd' = [hfd EXCEPT ![c] = @ \cup {cur_port}]
        /\ \/ /\ Sent(c, Cmd("INIT", k, cur_port))
              /\ hpc' = "initwait" /\ UNCHANGED <<k, ret>>
           \/ SendFails(c) /\ GiveUp
  /\ UNCHANGED <<signo, hthr, slaves, echo, settled, setup>>

(* ... and from the answer on: the host's own thread is started last.       *)
(* (Faulty variant: the ret_val of the answer is not looked at.)            *)
Accepted_any(m) == TRUE
Accepted(m) == m.ok

InitAnswered ==
  /\ hpc = "initwait"
  /\ LET c == ChipOf(k)
         m == Head(echo[c]) IN
     \/ /\ Answered(c) /\ Accepted(m)
        /\ hthr' = [hthr EXCEPT ![k] = [is_start |-> TRUE, st |-> "run",
                                        port |-> cur_port - 1]]
        /\ IF k < chip_num * NChans
           THEN hpc' = "init" /\ k' = k + 1 /\ UNCHANGED ret
           ELSE hpc' = "run" /\ k' = 1 /\ ret' = "ok"
     \/ /\ \/ Answered(c) /\ ~Accepted(m)
           \/ TimesOut(c) /\ UNCHANGED echo
        /\ GiveUp /\ UNCHANGED hthr
  /\ UNCHANGED <<signo, cur_port, hfd, slaves, cmd, settled, setup>>

(* The channels run until a key is pressed.                                 *)
KeyPressed ==
  /\ hpc = "run" /\ hpc' = "stop" /\ k' = 1
  /\ UNCHANGED <<ret, signo, cur_port, hfd, hthr, slaves, cmd, echo, settled, setup>>

(* One round of sample_pciv_exit_slave_coprocessor: the host's thread is    *)
(* told to stop, if it was started ...                                      *)
StopThread ==
  /\ hpc = "stop" /\ hthr[k].is_start
  /\ hthr' = [hthr EXCEPT ![k].is_start = FALSE]
  /\ hpc' = "join"
  /\ UNCHANGED <<k, ret, signo, cur_port, hfd, slaves, cmd, echo, settled, setup>>

(* ... the recorded port is closed after the exchange with the slave, and   *)
(* the loop goes on to the next channel whatever the outcome ...            *)
HostCloses(i) == hfd[ChipOf(i)] \ {hthr[i].port}

CloseAndGoOn ==
  /\ hfd' = [hfd EXCEPT ![ChipOf(k)] = HostCloses(k)]
  /\ IF k < chip_num * NChans
     THEN hpc' = "stop" /\ k' = k + 1
     ELSE hpc' = (IF ret = "fail" THEN "exit" ELSE "menu") /\ k' = 1

(* ... in between it is joined and EXIT is sent, also for a channel that    *)
(* was never started.  (Faulty variants of the id: always the first one of  *)
(* the chip; the next one.)                                                 *)
ExitId_first(i) == (ChipOf(i) - 1) * NChans + 1
ExitId_next(i) == i + 1
ExitId(i) == i

StopChannel ==
  /\ \/ hpc = "stop" /\ ~hthr[k].is_start /\ UNCHANGED hthr
     \/ /\ hpc = "join" /\ hthr[k].st # "run"
        /\ hthr' = [hthr EXCEPT ![k].st = "none"]
  /\ LET c == ChipOf(k) IN
     \/ /\ Sent(c, Cmd("EXIT", ExitId(k), NoPort))
        /\ hpc' = "stopwait" /\ UNCHANGED <<k, hfd>>
     \/ SendFails(c) /\ CloseAndGoOn
  /\ UNCHANGED <<ret, signo, cur_port, slaves, echo, settled, setup>>

StopAnswered ==
  /\ hpc = "stopwait"
  /\ \/ Answered(ChipOf(k))
     \/ TimesOut(ChipOf(k)) /\ UNCHANGED echo
  /\ CloseAndGoOn
  /\ UNCHANGED <<ret, signo, cur_port, hthr, slaves, cmd, settled, setup>>

(* Key 'q': sample_pciv_echo_key_q sends QUIT to every chip, whatever the   *)
(* answers.                                                                 *)
QuitKey ==
  /\ hpc = "menu" /\ signo
  /\ hpc' = "quit" /\ k' = 1 /\ ret' = "ok"
  /\ UNCHANGED <<signo, cur_port, hfd, hthr, slaves, cmd, echo, settled, setup>>

NextChip_first == hpc' = "exit" /\ k' = 1
NextChip ==
  IF k < chip_num THEN hpc' = "quit" /\ k' = k + 1 ELSE hpc' = "exit" /\ k' = 1

QuitChip ==
  /\ hpc = "quit"
  /\ \/ Sent(k, Cmd("QUIT", k, NoPort)) /\ hpc' = "quitwait" /\ UNCHANGED k
     \/ SendFails(k) /\ NextChip
  /\ UNCHANGED <<ret, signo, cur_port, hfd, hthr, slaves, echo, settled, setup>>

QuitAnswered ==
  /\ hpc = "quitwait"
  /\ Answered(k) \/ (TimesOut(k) /\ UNCHANGED echo)
  /\ NextChip
  /\ UNCHANGED <<ret, signo, cur_port, hfd, hthr, slaves, cmd, settled, setup>>

(* Any other key: main tests ret, which may never have been assigned; then  *)
(* it may hold a failure by chance.                                         *)
InvalidKey ==
  /\ hpc = "menu" /\ signo /\ ret = "unset"
  /\ hpc' = "exit"
  /\ UNCHANGED <<k, ret, signo, cur_port, hfd, hthr, slaves, cmd, echo, settled, setup>>

(* Ctrl+c clears g_signo_flag; main sees it when it is back at its loop,    *)
(* after which the flag has no effect but on what main prints.              *)
Signal ==
  /\ hpc \notin {"exit", "gone"} /\ signo /\ signo' = FALSE
  /\ UNCHANGED <<hpc, k, ret, cur_port, hfd, hthr, slaves, cmd, echo, settled, setup>>

LeaveLoop ==
  /\ hpc = "menu" /\ ~signo /\ hpc' = "exit"
  /\ UNCHANGED <<k, ret, signo, cur_port, hfd, hthr, slaves, cmd, echo, settled, setup>>

(* A co-thread of the host leaves its loop.  (Faulty variant: the loop only *)
(* looks at g_signo_flag.)                                                  *)
LoopEnds_signal(t) == ~signo
LoopEnds(t) == ~(t.is_start /\ signo)

HostThreadEnds(i) ==
  /\ hthr[i].st = "run" /\ LoopEnds(hthr[i])
  /\ hthr' = [hthr EXCEPT ![i].st = "ended"]
  /\ UNCHANGED <<hpc, k, ret, signo, cur_port, hfd, slaves, cmd, echo, settled, setup>>

(* The host's process ends, after sample_pciv_exit or killed: its ports,    *)
(* its threads and the answers waiting for it are gone.                     *)
HostGone ==
  /\ hpc = "exit" \/ (hpc # "gone" /\ "kill" \in faults)
  /\ hpc' = "gone" /\ k' = 1
  /\ hfd' = [c \in Chip |-> {}] /\ hthr' = [i \in Chan |-> NoThread]
  /\ echo' = [c \in Chip |-> <<>>] /\ settled' = {}
  /\ UNCHANGED <<ret, signo, cur_port, slaves, cmd, setup>>

(* It is started again at any time: pciv_wait_connect asks the driver       *)
(* whether the other chip is up, not what the slave's program is doing.  A  *)
(* slave may still have a command of the earlier host before it, or echo    *)
(* it to the new one; "settled" records where that is not so.               *)
IdleChip(c) == slave[c].pc \in {"read", "gone"} /\ cmd[c] = <<>>

HostRestart ==
  /\ hpc = "gone"
  /\ hpc' = "menu" /\ ret' = "unset" /\ signo' = TRUE /\ cur_port' = 1
  /\ settled' = {c \in Chip : IdleChip(c)}
  /\ UNCHANGED <<k, hfd, hthr, slaves, cmd, echo, setup>>

-----------------------------------------------------------------------------
(* A slave reads a command and deals with it.  INIT fills in g_co_thrad,    *)
(* is_start included, before the port is opened; a port that is open        *)
(* already, or that the driver refuses, leaves it that way.                 *)
CanOpen(c, p) == p \notin sfd[c]

SlaveInit(c) ==
  /\ slave[c].pc = "read" /\ cmd[c] # <<>> /\ Head(cmd[c]).type = "INIT"
  /\ LET m == Head(cmd[c])
         t == [sthr[m.of] EXCEPT !.is_start = TRUE, !.port = m.port] IN
     \/ /\ CanOpen(c, m.port)
        /\ sfd' = [sfd EXCEPT ![c] = @ \cup {m.port}]
        /\ sthr' = [sthr EXCEPT ![m.of] = [t EXCEPT !.st = "run"]]
        /\ slave' = [slave EXCEPT ![c] = [pc |-> "echo", msg |-> m, ok |-> TRUE]]
     \/ /\ ~CanOpen(c, m.port) \/ "sopen" \in faults
        /\ sthr' = [sthr EXCEPT ![m.of] = t]
        /\ slave' = [slave EXCEPT ![c] = [pc |-> "echo", msg |-> m, ok |-> FALSE]]
        /\ UNCHANGED sfd
  /\ cmd' = [cmd EXCEPT ![c] = Tail(@)]
  /\ UNCHANGED <<host, echo, settled, setup>>

(* EXIT stops the thread if is_start says there is one.  (Faulty variant:   *)
(* is_start is not cleared.)                                                *)
Stopped_keep(t) == t
Stopped(t) == [t EXCEPT !.is_start = FALSE]

SlaveExit(c) ==
  /\ slave[c].pc = "read" /\ cmd[c] # <<>> /\ Head(cmd[c]).type = "EXIT"
  /\ LET m == Head(cmd[c]) IN
     /\ slave' = [slave EXCEPT ![c] =
          [pc |-> IF sthr[m.of].is_start THEN "join" ELSE "close",
           msg |-> m, ok |-> FALSE]]
     /\ sthr' = [sthr EXCEPT ![m.of] = Stopped(@)]
  /\ cmd' = [cmd EXCEPT ![c] = Tail(@)]
  /\ UNCHANGED <<host, sfd, echo, settled, setup>>

SlaveQuit(c) ==
  /\ slave[c].pc = "read" /\ cmd[c] # <<>> /\ Head(cmd[c]).type = "QUIT"
  /\ slave' = [slave EXCEPT ![c] =
                 [pc |-> "echo", msg |-> Head(cmd[c]), ok |-> TRUE]]
  /\ cmd' = [cmd EXCEPT ![c] = Tail(@)]
  /\ UNCHANGED <<host, sfd, sthr, echo, settled, setup>>

(* The slave's process ends: its threads and ports go with it.              *)
Dies(c) ==
  /\ slave' = [slave EXCEPT ![c] = NoCommand(c, "gone")]
  /\ sthr' = [i \in Chan |-> IF i \in ChansOf(c) THEN NoThread ELSE sthr[i]]
  /\ sfd' = [sfd EXCEPT ![c] = {}]
  /\ cmd' = [cmd EXCEPT ![c] = <<>>]

(* pthread_join in sample_pciv_slave_exit_coprocessor.  Joining a thread    *)
(* that was never created, or was joined before, is undefined: the process  *)
(* may die or the call may return.                                          *)
SlaveJoin(c) ==
  /\ slave[c].pc = "join"
  /\ LET i == slave[c].msg.of IN
     \/ /\ sthr[i].st # "run"
        /\ sthr' = [sthr EXCEPT ![i].st = "none"]
        /\ slave' = [slave EXCEPT ![c].pc = "close"]
        /\ UNCHANGED <<sfd, cmd>>
     \/ sthr[i].st = "none" /\ Dies(c)
  /\ UNCHANGED <<host, echo, settled, setup>>

(* ... and its port is closed; port 0 is refused by the range check.  (A    *)
(* port the driver refused to open has the table's initial 0, and close()   *)
(* is given descriptor 0.  That the next port may then be opened under      *)
(* descriptor 0, which sending and reading take for not open, is left out.) *)
SlaveClose(c) ==
  /\ slave[c].pc = "close"
  /\ LET p == sthr[slave[c].msg.of].port IN
     /\ sfd' = [sfd EXCEPT ![c] = @ \ {p}]
     /\ slave' = [slave EXCEPT ![c].pc = "echo", ![c].ok = (p # NoPort)]
  /\ UNCHANGED <<host, sthr, cmd, echo, settled, setup>>

(* sample_pciv_echo_msg: a slave that cannot send its answer, or that was   *)
(* told to quit, leaves its loop.                                           *)
SlaveEcho(c) ==
  /\ slave[c].pc = "echo"
  /\ \/ /\ IF hpc = "gone" THEN UNCHANGED echo
           ELSE /\ Len(echo[c]) < QueueCap
                /\ echo' = [echo EXCEPT ![c] =
                              Append(@, Answer(slave[c].msg, slave[c].ok))]
        /\ IF slave[c].msg.type = "QUIT" THEN Dies(c)
           ELSE /\ slave' = [slave EXCEPT ![c] = NoCommand(c, "read")]
                /\ UNCHANGED <<sfd, sthr, cmd>>
     \/ /\ hpc = "gone" \/ Len(echo[c]) >= QueueCap \/ "msg" \in faults
        /\ Dies(c) /\ UNCHANGED echo
  /\ UNCHANGED <<host, settled, setup>>

(* A co-thread of a slave leaves its loop, or finds no memory when it       *)
(* starts and returns.                                                      *)
SlaveThreadEnds(i) ==
  /\ sthr[i].st = "run" /\ (~sthr[i].is_start \/ "vb" \in faults)
  /\ sthr' = [sthr EXCEPT ![i].st = "ended"]
  /\ UNCHANGED <<host, slave, sfd, cmd, echo, settled, setup>>

(* A slave's process is killed; it is started again at any time, also while *)
(* a host is running.                                                       *)
SlaveKilled(c) ==
  /\ "skill" \in faults /\ Alive(c) /\ Dies(c)
  /\ UNCHANGED <<host, echo, settled, setup>>

SlaveRestart(c) ==
  /\ ~Alive(c)
  /\ slave' = [slave EXCEPT ![c] = NoCommand(c, "read")]
  /\ settled' = settled \ {c}
  /\ UNCHANGED <<host, sfd, sthr, cmd, echo, setup>>

-----------------------------------------------------------------------------
(* Both programs have been initialised and the command ports are open.      *)
Init ==
  /\ \E s \in Setups : chip_num = s[1] /\ faults = s[2]
  /\ hpc = "menu" /\ k = 1 /\ ret = "unset" /\ signo = TRUE /\ cur_port = 1
  /\ hfd = [c \in Chip |-> {}] /\ hthr = [i \in Chan |-> NoThread]
  /\ slave = [c \in Chip |-> NoCommand(c, "read")]
  /\ sfd = [c \in Chip |-> {}] /\ sthr = [i \in Chan |-> NoThread]
  /\ cmd = [c \in Chip |-> <<>>] /\ echo = [c \in Chip |-> <<>>]
  /\ settled = Chip

HostMain ==
  \/ StartCoprocessor \/ InitChannel \/ InitAnswered \/ KeyPressed
  \/ StopThread \/ StopChannel \/ StopAnswered
  \/ QuitKey \/ QuitChip \/ QuitAnswered \/ InvalidKey \/ LeaveLoop

SlaveMain(c) ==
  \/ SlaveInit(c) \/ SlaveExit(c) \/ SlaveQuit(c)
  \/ SlaveJoin(c) \/ SlaveClose(c) \/ SlaveEcho(c)

Next ==
  \/ HostMain \/ Signal \/ HostGone \/ HostRestart
  \/ \E c \in Chip : SlaveMain(c) \/ SlaveKilled(c) \/ SlaveRestart(c)
  \/ \E i \in Chan : HostThreadEnds(i) \/ SlaveThreadEnds(i)

Spec == Init /\ [][Next]_vars

(* The scheduler runs every thread; nobody has to press a key.              *)
Fairness ==
  /\ WF_vars(InitChannel) /\ WF_vars(InitAnswered)
  /\ WF_vars(StopThread) /\ WF_vars(StopChannel) /\ WF_vars(StopAnswered)
  /\ WF_vars(QuitChip) /\ WF_vars(QuitAnswered)
  /\ \A c \in 1..MaxChips : WF_vars(c \in Chip /\ SlaveMain(c))
  /\ \A i \in 1..(MaxChips * NChans) :
       WF_vars(i \in Chan /\ HostThreadEnds(i)) /\ WF_vars(i \in Chan /\ SlaveThreadEnds(i))

FairSpec == Spec /\ Fairness

-----------------------------------------------------------------------------
(* No message is refused, no answer comes after the host gave up, and the   *)
(* slave of chip c had nothing left to do or to echo for an earlier host    *)
(* when this one was started.  Without the last part the four properties    *)
(* that rest on it do not hold: the ECHO of a killed host's command is read *)
(* as the answer to the first command of the next host.                     *)
Reliable == faults \cap {"msg", "late"} = {}
InStep(c) == Reliable /\ c \in settled

(* Every variable has the type its C declaration and its uses give it.      *)
TypeOK ==
  /\ chip_num \in 1..MaxChips /\ setup \in Setups
  /\ hpc \in {"menu", "init", "initwait", "run", "stop", "join", "stopwait",
              "quit", "quitwait", "exit", "gone"}
  /\ k \in Chan /\ ret \in {"unset", "ok", "fail"} /\ signo \in BOOLEAN
  /\ cur_port \in 1..(MaxPort + 1)
  /\ hfd \in [Chip -> SUBSET Port] /\ sfd \in [Chip -> SUBSET Port]
  /\ hthr \in [Chan -> Thread] /\ sthr \in [Chan -> Thread]
  /\ slave \in [Chip -> [pc : {"read", "join", "close", "echo", "gone"},
                         msg : Command, ok : BOOLEAN]]
  /\ cmd \in [Chip -> Seq(Command)]
  /\ echo \in [Chip -> Seq([to : Command, ok : BOOLEAN])]
  /\ settled \in SUBSET Chip

(* pthread_join is only ever called for a thread that was created and has   *)
(* not been joined: is_start tells the truth on both sides, also when a     *)
(* command was lost or a slave was left over by an earlier host.            *)
JoinsOwnThread ==
  /\ hpc = "join" => hthr[k].st # "none"
  /\ \A c \in Chip :
       slave[c].pc = "join" /\ "sopen" \notin faults => sthr[slave[c].msg.of].st # "none"

(* While a co-thread of the host runs, its port is open; and with a slave   *)
(* in step, that slave has been told to serve the channel and holds the     *)
(* same port open: the slave is set up before the host's thread starts and  *)
(* taken down after it was joined.                                          *)
StartedTogether ==
  \A i \in Chan :
    LET c == ChipOf(i)
        p == hthr[i].port IN
      hthr[i].st = "run" =>
        /\ p \in hfd[c]
        /\ Alive(c) /\ InStep(c) =>
             sthr[i].is_start /\ sthr[i].port = p /\ p \in sfd[c]

(* The stop loop leaves nothing behind that g_all_thrad knows of.  On the   *)
(* host, whatever happens: behind the loop every channel is joined and its  *)
(* recorded port closed, and a port that is open is that of a channel still *)
(* to come, or the one the failing round of a start had opened and not yet  *)
(* recorded, which stays open until main, which then leaves, has exited.    *)
(* On a slave that is in step: behind the loop the channel's thread is      *)
(* joined and its port closed, also after a start that failed half way and  *)
(* after a host that was killed.                                            *)
Stopping == hpc \in {"stop", "join", "stopwait"}
Unrecorded == IF ret = "fail" THEN {cur_port - 1} ELSE {}
HostClean(i) == hthr[i].st = "none" /\ hthr[i].port \notin hfd[ChipOf(i)]
SlaveClean(i) == sthr[i].st = "none" /\ sthr[i].port \notin sfd[ChipOf(i)]

StopLeavesNothing ==
  /\ Stopping => \A i \in Chan : i < k => HostClean(i)
  /\ \A c \in Chip :
       /\ Stopping =>
            hfd[c] \subseteq {hthr[i].port : i \in {j \in ChansOf(c) : j >= k}} \cup Unrecorded
       /\ hpc = "exit" => hfd[c] \subseteq Unrecorded
       /\ hpc = "menu" => hfd[c] = {}
       /\ InStep(c) =>
            /\ Stopping => \A i \in ChansOf(c) : i < k => SlaveClean(i)
            /\ hpc = "menu" /\ ret = "ok" => sfd[c] = {}

(* The answer the host reads from a slave that is in step is the answer to  *)
(* the command it has just sent, although an echo says only "echo".         *)
Pending ==
  CASE hpc = "initwait" -> {Cmd("INIT", k, cur_port - 1)}
    [] hpc = "stopwait" -> {Cmd("EXIT", k, NoPort)}
    [] hpc = "quitwait" -> {Cmd("QUIT", k, NoPort)}
    [] OTHER -> {}

AnswersMatch ==
  \A c \in Chip : InStep(c) => \A n \in DOMAIN echo[c] : n = 1 /\ echo[c][n].to \in Pending

(* Stopping always comes to an end: neither the join of a co-thread nor the *)
(* wait for an answer can hold the host, late and lost answers included.    *)
StopCompletes ==
  Stopping ~> hpc \in {"menu", "exit", "gone"}

(* Key 'q' reaches every slave that is in step: behind the loop, and when   *)
(* the host leaves after it, it is not serving any more.                    *)
QuitReachesSlaves ==
  \A c \in Chip : InStep(c) =>
    /\ hpc \in {"quit", "quitwait"} /\ c < k => ~Alive(c)
    /\ hpc = "exit" /\ signo /\ ret = "ok" => ~Alive(c)

(* "send msg to slave chip to deal with ctrl+c": a host that leaves because *)
(* of ctrl+c has told every slave to quit.                                  *)
CtrlCReachesSlaves ==
  hpc = "exit" /\ ~signo =>
    \A c \in Chip :
      Alive(c) => \E n \in DOMAIN cmd[c] : cmd[c][n].type = "QUIT"
=============================================================================
