--------------------------- MODULE PcivCtl_proofs ---------------------------
(***************************************************************************)
(* Proofs about the control of the co-processors, for any number of chips, *)
(* channels and ports and any faults.                                      *)
(***************************************************************************)
EXTENDS PcivCtl, TLAPS

Pcs == {"read", "join", "close", "echo", "gone"}
Slave == [pc : Pcs, msg : Command, ok : BOOLEAN]
Echo == [to : Command, ok : BOOLEAN]

-----------------------------------------------------------------------------
(* What an update of one field leaves of the others. *)

LEMMA MarkStart ==
  ASSUME NEW D, NEW f \in [D -> Thread], NEW i \in D, NEW b \in BOOLEAN,
         NEW g, g = [f EXCEPT ![i].is_start = b]
  PROVE  /\ g \in [D -> Thread]
         /\ g[i].is_start = b /\ g[i].st = f[i].st /\ g[i].port = f[i].port
         /\ \A j \in D : j # i => g[j] = f[j]
<1> DEFINE r == [f[i] EXCEPT !.is_start = b]
<1>1. r \in Thread /\ r.is_start = b /\ r.st = f[i].st /\ r.port = f[i].port
  BY Zenon DEF Thread
<1>2. g = [f EXCEPT ![i] = r]
  BY Zenon
<1> HIDE DEF r
<1>3. g \in [D -> Thread] /\ g[i] = r /\ \A j \in D : j # i => g[j] = f[j]
  BY <1>1, <1>2
<1> QED BY <1>1, <1>3, Zenon

LEMMA MarkSt ==
  ASSUME NEW D, NEW f \in [D -> Thread], NEW i \in D, NEW x \in {"none", "run", "ended"},
         NEW g, g = [f EXCEPT ![i].st = x]
  PROVE  /\ g \in [D -> Thread]
         /\ g[i].is_start = f[i].is_start /\ g[i].st = x /\ g[i].port = f[i].port
         /\ \A j \in D : j # i => g[j] = f[j]
<1> DEFINE r == [f[i] EXCEPT !.st = x]
<1>1. r \in Thread /\ r.is_start = f[i].is_start /\ r.st = x /\ r.port = f[i].port
  BY Zenon DEF Thread
<1>2. g = [f EXCEPT ![i] = r]
  BY Zenon
<1> HIDE DEF r
<1>3. g \in [D -> Thread] /\ g[i] = r /\ \A j \in D : j # i => g[j] = f[j]
  BY <1>1, <1>2
<1> QED BY <1>1, <1>3, Zenon

LEMMA MarkPc ==
  ASSUME NEW D, NEW f \in [D -> Slave], NEW i \in D, NEW x \in Pcs,
         NEW g, g = [f EXCEPT ![i].pc = x]
  PROVE  /\ g \in [D -> Slave]
         /\ g[i].pc = x /\ g[i].msg = f[i].msg /\ g[i].ok = f[i].ok
         /\ \A j \in D : j # i => g[j] = f[j]
<1> DEFINE r == [f[i] EXCEPT !.pc = x]
<1>1. r \in Slave /\ r.pc = x /\ r.msg = f[i].msg /\ r.ok = f[i].ok
  BY Zenon DEF Slave
<1>2. g = [f EXCEPT ![i] = r]
  BY Zenon
<1> HIDE DEF r
<1>3. g \in [D -> Slave] /\ g[i] = r /\ \A j \in D : j # i => g[j] = f[j]
  BY <1>1, <1>2
<1> QED BY <1>1, <1>3, Zenon

LEMMA MarkOk ==
  ASSUME NEW D, NEW f \in [D -> Slave], NEW i \in D, NEW b \in BOOLEAN,
         NEW g, g = [f EXCEPT ![i].ok = b]
  PROVE  /\ g \in [D -> Slave]
         /\ g[i].pc = f[i].pc /\ g[i].msg = f[i].msg /\ g[i].ok = b
         /\ \A j \in D : j # i => g[j] = f[j]
<1> DEFINE r == [f[i] EXCEPT !.ok = b]
<1>1. r \in Slave /\ r.pc = f[i].pc /\ r.msg = f[i].msg /\ r.ok = b
  BY Zenon DEF Slave
<1>2. g = [f EXCEPT ![i] = r]
  BY Zenon
<1> HIDE DEF r
<1>3. g \in [D -> Slave] /\ g[i] = r /\ \A j \in D : j # i => g[j] = f[j]
  BY <1>1, <1>2
<1> QED BY <1>1, <1>3, Zenon

LEMMA Resting ==
  ASSUME NEW f \in [Chip -> Slave], NEW i \in Chip, NEW x \in {"read", "gone"},
         NEW g, g = [f EXCEPT ![i] = NoCommand(i, x)]
  PROVE  /\ g \in [Chip -> Slave] /\ g[i].pc = x
         /\ \A j \in Chip : j # i => g[j] = f[j]
<1> DEFINE r == NoCommand(i, x)
<1>1. Cmd("QUIT", i, NoPort) \in Command
  BY DEF Cmd, Command
<1>2. r \in Slave /\ r.pc = x
  BY <1>1 DEF NoCommand, Slave, Pcs
<1>3. g = [f EXCEPT ![i] = r]
  BY Zenon
<1> HIDE DEF r
<1> QED BY <1>2, <1>3

LEMMA StartedRecord ==
  ASSUME NEW u \in Thread, NEW p \in Port
  PROVE  LET t == [u EXCEPT !.is_start = TRUE, !.port = p]
             v == [t EXCEPT !.st = "run"]
         IN  /\ t \in Thread /\ t.is_start = TRUE /\ t.port = p /\ t.st = u.st
             /\ v \in Thread /\ v.is_start = TRUE /\ v.port = p /\ v.st = "run"
<1> DEFINE t == [u EXCEPT !.is_start = TRUE, !.port = p]
<1>1. t \in Thread /\ t.is_start = TRUE /\ t.port = p /\ t.st = u.st
  BY Zenon DEF Thread
<1> HIDE DEF t
<1>2. LET v == [t EXCEPT !.st = "run"]
      IN  v \in Thread /\ v.is_start = TRUE /\ v.port = p /\ v.st = "run"
  BY <1>1, Zenon DEF Thread
<1> QED BY <1>1, <1>2, Zenon DEF t

LEMMA StoppedRecord ==
  ASSUME NEW u \in Thread
  PROVE  /\ Stopped(u) \in Thread
         /\ Stopped(u).is_start = FALSE /\ Stopped(u).st = u.st /\ Stopped(u).port = u.port
BY Zenon DEF Stopped, Thread

-----------------------------------------------------------------------------
(* Numbers of chips and channels. *)

LEMMA DivBelow ==
  ASSUME NEW n \in Nat \ {0}, NEW m \in Nat \ {0}, NEW i \in 1..(n * m)
  PROVE  (i - 1) \div m + 1 \in 1..n
<1> DEFINE q == (i - 1) \div m
<1>1. n * m \in Nat
  OBVIOUS
<1>2. q \in Int /\ i - 1 = (m * q) + ((i - 1) % m) /\ (i - 1) % m \in 0..(m - 1)
  BY <1>1
<1> HIDE DEF q
<1>3. q >= 0
  <2>1. SUFFICES ASSUME q <= -1
                 PROVE  FALSE
    BY <1>2
  <2>2. m * q <= -m
    BY <1>2, <2>1
  <2> QED BY <1>1, <1>2, <2>2
<1>4. q < n
  <2>1. SUFFICES ASSUME q >= n
                 PROVE  FALSE
    BY <1>2
  <2>2. m * q >= n * m
    BY <1>2, <2>1
  <2> QED BY <1>1, <1>2, <2>2
<1> QED BY <1>2, <1>3, <1>4 DEF q

Sized == chip_num \in Nat \ {0}

LEMMA Numbers ==
  ASSUME Sized
  PROVE  /\ Chan \subseteq Nat \ {0} /\ Chip \subseteq Chan
         /\ 1 \in Chip /\ 1 \in Chan
         /\ \A i \in Chan : ChipOf(i) \in Chip
         /\ \A i \in Chan : i < chip_num * NChans => i + 1 \in Chan
         /\ \A i \in Chan : ~(i < chip_num * NChans) => \A j \in Chan : j <= i
         /\ \A c \in Chip : c < chip_num => c + 1 \in Chip
         /\ \A c \in Chip : ~(c < chip_num) => \A d \in Chip : d <= c
<1>1. NChans \in Nat \ {0} /\ chip_num \in Nat \ {0}
  BY NChansAssumption DEF Sized
<1>2. chip_num * NChans \in Nat /\ chip_num <= chip_num * NChans
  BY <1>1
<1>3. \A i \in Chan : ChipOf(i) \in Chip
  BY <1>1, DivBelow DEF Chan, Chip, ChipOf
<1> QED BY <1>1, <1>2, <1>3 DEF Chan, Chip

LEMMA SameSetup ==
  ASSUME UNCHANGED setup
  PROVE  /\ Chip' = Chip /\ Chan' = Chan /\ Command' = Command
         /\ Slave' = Slave /\ Echo' = Echo /\ Sized' = Sized
         /\ Reliable' = Reliable /\ faults' = faults
         /\ \A c : ChansOf(c)' = ChansOf(c)
BY DEF setup, Chip, Chan, Command, Slave, Echo, Sized, Reliable, ChansOf

-----------------------------------------------------------------------------
(* The invariant: the host's side, and each chip's side. *)

Served(i) == sthr[i].is_start /\ sthr[i].port = i /\ i \in sfd[ChipOf(i)]

(* Ports are handed out in the order of the channels, so that a channel has *)
(* the same one in every session; a co-thread that is not joined is known   *)
(* to its owner by is_start, and its port is open.                          *)
HostInv ==
  /\ \A i \in Chan : hthr[i].port \in {NoPort, i}
  /\ hpc = "init" => cur_port = k
  /\ hpc = "initwait" => cur_port = k + 1 /\ k \in hfd[ChipOf(k)]
  /\ hpc \in {"quit", "quitwait"} => k \in Chip
  /\ \A i \in Chan : hthr[i].is_start => hthr[i].st # "none"
  /\ \A i \in Chan : hthr[i].st # "none" =>
       /\ hthr[i].is_start \/ (hpc = "join" /\ k = i)
       /\ hthr[i].port = i /\ i \in hfd[ChipOf(i)]
  /\ hpc = "join" => hthr[k].st # "none" /\ ~hthr[k].is_start
  /\ hpc = "stopwait" => hthr[k].st = "none"
  /\ hpc = "gone" => \A i \in Chan : hthr[i].st = "none"
  /\ \A c \in Chip : \A p \in hfd[c] :
       /\ p \in Chan /\ ChipOf(p) = c
       /\ \/ hthr[p].port = p
          \/ hpc = "initwait" /\ k = p
          \/ ret = "fail" /\ p = cur_port - 1
  /\ ret = "fail" => Stopping \/ hpc \in {"exit", "gone"}
  /\ hpc = "exit" => \A c \in Chip : \A p \in hfd[c] : ret = "fail" /\ p = cur_port - 1
  /\ Stopping => \A i \in Chan : i < k =>
       hthr[i].st = "none" /\ hthr[i].port \notin hfd[ChipOf(i)]
  /\ hpc \in {"menu", "quit", "quitwait", "gone"} => \A c \in Chip : hfd[c] = {}

Addressed(c, m) ==
  m.type # "QUIT" => /\ m.of \in Chan /\ ChipOf(m.of) = c
                     /\ m.type = "INIT" => m.port = m.of

MailInv(c) ==
  /\ \A n \in DOMAIN cmd[c] : Addressed(c, cmd[c][n])
  /\ slave[c].pc \in {"join", "close", "echo"} => Addressed(c, slave[c].msg)
  /\ slave[c].pc \in {"join", "close"} => slave[c].msg.type = "EXIT"
  /\ slave[c].pc = "gone" => cmd[c] = <<>>

(* How far the slave is with its command. *)
CommandInv(c) ==
  LET i == slave[c].msg.of IN
  /\ slave[c].pc = "join" => ~sthr[i].is_start /\ ("sopen" \notin faults => sthr[i].st # "none")
  /\ slave[c].pc = "close" => ~sthr[i].is_start /\ sthr[i].st = "none"
  /\ slave[c].pc = "echo" /\ slave[c].msg.type = "EXIT" => SlaveClean(i)
  /\ slave[c].pc = "echo" /\ slave[c].msg.type = "INIT" /\ slave[c].ok => Served(i)

(* What it knows of its threads: is_start is TRUE for all that exist and,   *)
(* where no port is refused, only for those.                                *)
ThreadInv(c) ==
  \A i \in Chan : ChipOf(i) = c =>
    /\ sthr[i].port \in {NoPort, i}
    /\ sthr[i].st # "none" =>
         sthr[i].is_start \/ (slave[c].pc = "join" /\ slave[c].msg.of = i)
    /\ "sopen" \notin faults /\ sthr[i].is_start => sthr[i].st # "none"
    /\ slave[c].pc = "gone" => sthr[i] = NoThread

PortInv(c) ==
  /\ \A p \in sfd[c] :
       /\ p \in Chan /\ ChipOf(p) = c /\ sthr[p].port = p
       /\ "sopen" \notin faults =>
            sthr[p].st # "none" \/ (slave[c].pc = "close" /\ slave[c].msg.of = p)
  /\ slave[c].pc = "gone" => sfd[c] = {}

(* No answer waits for a host that is gone.  With a slave that is in step   *)
(* at most one message is under way, and what it says is so.                *)
Waiting(c) ==
  \/ hpc \in {"initwait", "stopwait"} /\ ChipOf(k) = c
  \/ hpc = "quitwait" /\ k = c
Request ==
  IF hpc = "initwait" THEN Cmd("INIT", k, cur_port - 1)
  ELSE IF hpc = "stopwait" THEN Cmd("EXIT", k, NoPort) ELSE Cmd("QUIT", k, NoPort)
One(s, m) == Len(s) = 1 /\ s[1] = m

AnswerTrue(c) ==
  /\ hpc = "initwait" /\ echo[c][1].ok /\ Alive(c) => Served(k)
  /\ hpc = "stopwait" => SlaveClean(k)
  /\ hpc = "quitwait" => ~Alive(c)

Idle(c) == cmd[c] = <<>> /\ echo[c] = <<>> /\ slave[c].pc \in {"read", "gone"}
Sending(c) == One(cmd[c], Request) /\ slave[c].pc = "read" /\ echo[c] = <<>>
Serving(c) == /\ cmd[c] = <<>> /\ slave[c].pc \in {"join", "close", "echo"}
              /\ slave[c].msg = Request /\ echo[c] = <<>>
Answering(c) == /\ cmd[c] = <<>> /\ slave[c].pc \in {"read", "gone"}
                /\ Len(echo[c]) = 1 /\ echo[c][1].to = Request /\ AnswerTrue(c)
Lost(c) == cmd[c] = <<>> /\ slave[c].pc = "gone" /\ echo[c] = <<>>

Exchange(c) ==
  /\ hpc = "gone" => echo[c] = <<>>
  /\ InStep(c) /\ hpc # "gone" /\ ~Waiting(c) => Idle(c)
  /\ InStep(c) /\ hpc # "gone" /\ Waiting(c) => Sending(c) \/ Serving(c) \/ Answering(c) \/ Lost(c)

ServedInv(c) ==
  InStep(c) =>
  /\ \A i \in Chan : ChipOf(i) = c /\ hthr[i].st = "run" /\ Alive(c) => Served(i)
  /\ Stopping => \A i \in Chan : ChipOf(i) = c /\ i < k => SlaveClean(i)
  /\ hpc = "menu" /\ ret = "ok" => sfd[c] = {}
  /\ hpc \in {"quit", "quitwait"} /\ c < k => ~Alive(c)
  /\ hpc = "exit" /\ signo /\ ret = "ok" => ~Alive(c)

SlaveInv(c) == MailInv(c) /\ CommandInv(c) /\ ThreadInv(c) /\ PortInv(c)
ChipInv(c) == SlaveInv(c) /\ Exchange(c) /\ ServedInv(c)
CtlInv == TypeOK /\ HostInv /\ \A c \in Chip : ChipInv(c)

LEMMA SizedByType == TypeOK => Sized
BY MaxChipsAssumption DEF TypeOK, Sized

LEMMA CtlInit == Init => CtlInv
<1> SUFFICES ASSUME Init
             PROVE  CtlInv
  OBVIOUS
<1>1. chip_num \in 1..MaxChips /\ setup \in Setups /\ Sized
  <2>1. PICK s \in Setups : chip_num = s[1] /\ faults = s[2]
    BY DEF Init
  <2>2. s = <<s[1], s[2]>> /\ s[1] \in 1..MaxChips
    BY SetupsAssumption
  <2>3. chip_num \in 1..MaxChips
    BY <2>1, <2>2, Zenon
  <2>4. setup \in Setups
    BY <2>1, <2>2, Zenon DEF setup
  <2>5. Sized
    BY <2>3, MaxChipsAssumption DEF Sized
  <2> QED BY <2>3, <2>4, <2>5
<1>2. 1 \in Chan /\ 1 \in Chip
  BY <1>1, Numbers
<1>3. NoThread \in Thread /\ NoThread.port = NoPort /\ NoThread.st = "none" /\ NoThread.is_start = FALSE
  BY DEF NoThread, Thread
<1>4. \A c \in Chip : Cmd("QUIT", c, NoPort) \in Command
  BY DEF Cmd, Command
<1>5. slave \in [Chip -> Slave] /\ \A c \in Chip : slave[c].pc = "read"
  BY <1>4 DEF Init, NoCommand, Slave, Pcs
<1>6. cmd \in [Chip -> Seq(Command)] /\ echo \in [Chip -> Seq(Echo)]
      /\ \A c \in Chip : cmd[c] = <<>> /\ echo[c] = <<>>
  BY DEF Init
<1>7. hthr \in [Chan -> Thread] /\ sthr \in [Chan -> Thread]
      /\ \A i \in Chan : hthr[i] = NoThread /\ sthr[i] = NoThread
  BY <1>3 DEF Init
<1>8. hfd \in [Chip -> SUBSET Port] /\ sfd \in [Chip -> SUBSET Port]
      /\ \A c \in Chip : hfd[c] = {} /\ sfd[c] = {}
  BY DEF Init
<1>9. hpc = "menu" /\ k = 1 /\ ret = "unset" /\ signo = TRUE /\ cur_port = 1
      /\ cur_port \in 1..(MaxPort + 1)
  BY MaxPortAssumption DEF Init
<1>10. TypeOK
  <2>1. settled \in SUBSET Chip
    BY DEF Init
  <2> QED BY <2>1, <1>1, <1>2, <1>5, <1>6, <1>7, <1>8, <1>9 DEF TypeOK, Slave, Echo, Pcs
<1>11. HostInv
  BY <1>3, <1>7, <1>8, <1>9 DEF HostInv, Stopping
<1>12. ASSUME NEW c \in Chip
       PROVE  ChipInv(c)
  <2>1. SlaveInv(c)
    BY <1>3, <1>5, <1>6, <1>7, <1>8
       DEF SlaveInv, MailInv, CommandInv, ThreadInv, PortInv
  <2>2. Exchange(c)
    BY <1>5, <1>6, <1>9 DEF Exchange, Waiting, Idle
  <2>3. ServedInv(c)
    BY <1>3, <1>7, <1>9 DEF ServedInv, Stopping
  <2> QED BY <2>1, <2>2, <2>3 DEF ChipInv
<1> QED BY <1>10, <1>11, <1>12 DEF CtlInv

-----------------------------------------------------------------------------
(* What does not touch a chip, or the host, leaves its part. *)

LEMMA ChipAside ==
  ASSUME TypeOK, NEW c \in Chip, ChipInv(c), UNCHANGED <<host, setup>>, c \in settled' <=> c \in settled,
         slave'[c] = slave[c], sfd'[c] = sfd[c], cmd'[c] = cmd[c], echo'[c] = echo[c],
         \A i \in Chan : ChipOf(i) = c => sthr'[i] = sthr[i]
  PROVE  ChipInv(c)'
<1>1. Sized /\ Chan' = Chan /\ faults' = faults /\ (InStep(c)' <=> InStep(c))
  BY SizedByType, SameSetup DEF InStep
<1>2. UNCHANGED <<hpc, k, ret, signo, cur_port, hfd, hthr>>
  BY DEF host
<1>3. \A i \in Chan : ChipOf(i) = c => (Served(i)' <=> Served(i)) /\ (SlaveClean(i)' <=> SlaveClean(i))
  BY <1>1, Numbers DEF Served, SlaveClean
<1>4. Alive(c)' <=> Alive(c)
  BY DEF Alive
<1>5. SlaveInv(c)'
  <2>1. \A m : Addressed(c, m)' <=> Addressed(c, m)
    BY <1>1 DEF Addressed
  <2>2. MailInv(c)'
    BY <1>1, <2>1 DEF ChipInv, SlaveInv, MailInv
  <2>3. slave[c].pc \in {"join", "close", "echo"} /\ slave[c].msg.type # "QUIT" =>
          slave[c].msg.of \in Chan /\ ChipOf(slave[c].msg.of) = c
    BY DEF ChipInv, SlaveInv, MailInv, Addressed
  <2>4. CommandInv(c)'
    BY <1>1, <1>3, <2>3 DEF ChipInv, SlaveInv, MailInv, CommandInv
  <2>5. ThreadInv(c)'
    BY <1>1 DEF ChipInv, SlaveInv, ThreadInv
  <2>6. PortInv(c)'
    BY <1>1 DEF ChipInv, SlaveInv, PortInv
  <2> QED BY <2>2, <2>4, <2>5, <2>6 DEF SlaveInv
<1>6. ServedInv(c)'
  BY <1>1, <1>2, <1>3, <1>4 DEF ChipInv, ServedInv, Stopping
<1>7. Exchange(c)'
  <2>1. (Waiting(c)' <=> Waiting(c)) /\ Request' = Request
    BY <1>2 DEF Waiting, Request
  <2>2. k \in Chan
    BY DEF TypeOK
  <2>3. Waiting(c) => (AnswerTrue(c)' <=> AnswerTrue(c))
    BY <1>2, <1>3, <1>4, <2>2 DEF AnswerTrue, Waiting
  <2> QED BY <1>1, <1>2, <2>1, <2>3
          DEF ChipInv, Exchange, Idle, Sending, Serving, Answering, Lost
<1> QED BY <1>5, <1>6, <1>7 DEF ChipInv

LEMMA HostAside ==
  ASSUME HostInv, UNCHANGED <<host, setup>>
  PROVE  HostInv'
<1>1. Chan' = Chan /\ Chip' = Chip
  BY SameSetup
<1> QED BY <1>1 DEF host, HostInv, Stopping

-----------------------------------------------------------------------------
(* The slaves. *)

SlaveTypes ==
  /\ sfd \in [Chip -> SUBSET Port] /\ sthr \in [Chan -> Thread]
  /\ slave \in [Chip -> Slave]
  /\ cmd \in [Chip -> Seq(Command)] /\ echo \in [Chip -> Seq(Echo)]

LEMMA SlaveTypesOf == TypeOK => SlaveTypes
BY DEF TypeOK, SlaveTypes, Slave, Echo, Pcs

LEMMA TypesAfterSlave ==
  ASSUME TypeOK, UNCHANGED <<host, setup>>, settled' \subseteq settled,
         sfd' \in [Chip -> SUBSET Port], sthr' \in [Chan -> Thread],
         slave' \in [Chip -> Slave], cmd' \in [Chip -> Seq(Command)],
         echo' \in [Chip -> Seq(Echo)]
  PROVE  TypeOK'
<1>1. Chip' = Chip /\ Chan' = Chan /\ Command' = Command
  BY SameSetup
<1>2. slave' \in [Chip -> [pc : {"read", "join", "close", "echo", "gone"},
                           msg : Command, ok : BOOLEAN]]
      /\ echo' \in [Chip -> Seq([to : Command, ok : BOOLEAN])]
  BY DEF Slave, Pcs, Echo
<1> QED BY <1>1, <1>2 DEF TypeOK, host, setup

(* A step of the slave of chip c, seen from the others. *)
OnlyChip(c) ==
  /\ UNCHANGED <<host, setup>>
  /\ \A d \in Chip : d # c => (d \in settled' <=> d \in settled)
  /\ \A d \in Chip : d # c =>
       slave'[d] = slave[d] /\ sfd'[d] = sfd[d] /\ cmd'[d] = cmd[d] /\ echo'[d] = echo[d]
  /\ \A i \in Chan : ChipOf(i) # c => sthr'[i] = sthr[i]

LEMMA OneChip ==
  ASSUME CtlInv, NEW c \in Chip, OnlyChip(c), TypeOK', ChipInv(c)'
  PROVE  CtlInv'
<1>1. Chip' = Chip
  BY SameSetup DEF OnlyChip
<1>2. HostInv'
  BY HostAside DEF CtlInv, OnlyChip
<1>3. ASSUME NEW d \in Chip
      PROVE  ChipInv(d)'
  <2>1. CASE d = c
    BY <2>1
  <2>2. CASE d # c
    BY <2>2, ChipAside DEF CtlInv, OnlyChip
  <2> QED BY <2>1, <2>2
<1> QED BY <1>1, <1>2, <1>3 DEF CtlInv

LEMMA Mailed ==
  ASSUME NEW c \in Chip, Exchange(c), InStep(c), hpc # "gone", cmd[c] # <<>>
  PROVE  Waiting(c) /\ Sending(c)
BY DEF Exchange, Idle, Serving, Answering, Lost

LEMMA Busy ==
  ASSUME NEW c \in Chip, Exchange(c), InStep(c), hpc # "gone",
         slave[c].pc \in {"join", "close", "echo"}
  PROVE  Waiting(c) /\ Serving(c)
BY DEF Exchange, Idle, Sending, Answering, Lost

LEMMA RequestType ==
  /\ hpc = "initwait" => Request.type = "INIT" /\ Request.of = k
  /\ hpc = "stopwait" => Request.type = "EXIT" /\ Request.of = k
  /\ hpc = "quitwait" => Request.type = "QUIT" /\ Request.of = k
BY DEF Request, Cmd

(* What a slave finds when it has a command: which kind tells what the host *)
(* is waiting for.                                                          *)
LEMMA Asked ==
  ASSUME NEW c \in Chip, Waiting(c), NEW m, m = Request
  PROVE  /\ m.type = "INIT" => hpc = "initwait" /\ m.of = k
         /\ m.type = "EXIT" => hpc = "stopwait" /\ m.of = k
         /\ m.type = "QUIT" => hpc = "quitwait" /\ m.of = k
BY RequestType DEF Waiting

LEMMA FirstCommand ==
  ASSUME SlaveTypes, NEW c \in Chip, MailInv(c), cmd[c] # <<>>
  PROVE  /\ Head(cmd[c]) \in Command /\ Addressed(c, Head(cmd[c]))
         /\ Tail(cmd[c]) \in Seq(Command)
         /\ \A n \in DOMAIN Tail(cmd[c]) : Addressed(c, Tail(cmd[c])[n])
         /\ \A m : One(cmd[c], m) => Head(cmd[c]) = m /\ Tail(cmd[c]) = <<>>
<1>1. cmd[c] \in Seq(Command)
  BY DEF SlaveTypes
<1>2. \A s \in Seq(Command) : s # <<>> =>
        /\ Len(s) \in Nat \ {0} /\ Head(s) = s[1] /\ 1 \in DOMAIN s /\ Head(s) \in Command
        /\ Tail(s) \in Seq(Command) /\ Len(Tail(s)) = Len(s) - 1
        /\ \A n \in DOMAIN Tail(s) : n + 1 \in DOMAIN s /\ Tail(s)[n] = s[n + 1]
  OBVIOUS
<1>3. \A s \in Seq(Command) : Len(s) = 0 => s = <<>>
  OBVIOUS
<1>4. Head(cmd[c]) \in Command /\ Addressed(c, Head(cmd[c])) /\ Tail(cmd[c]) \in Seq(Command)
  BY <1>1, <1>2 DEF MailInv
<1>5. \A n \in DOMAIN Tail(cmd[c]) : Addressed(c, Tail(cmd[c])[n])
  BY <1>1, <1>2 DEF MailInv
<1>6. ASSUME NEW m, One(cmd[c], m)
      PROVE  Head(cmd[c]) = m /\ Tail(cmd[c]) = <<>>
  BY <1>1, <1>2, <1>3, <1>6 DEF One
<1> QED BY <1>4, <1>5, <1>6

LEMMA CommandFields ==
  ASSUME Sized, NEW c, NEW m \in Command, Addressed(c, m)
  PROVE  /\ m.type \in {"INIT", "EXIT", "QUIT"}
         /\ m.type # "QUIT" => m.of \in Chan /\ ChipOf(m.of) = c
         /\ m.type = "INIT" => m.port = m.of /\ m.port \in Port
<1>1. m.type \in {"INIT", "EXIT", "QUIT"} /\ (m.type = "INIT" => m.port \in {NoPort} \cup Port)
  BY DEF Command
<1>2. \A i \in Chan : i # NoPort
  BY Numbers DEF NoPort
<1> QED BY <1>1, <1>2 DEF Addressed

LEMMA HostSame ==
  ASSUME UNCHANGED <<host, settled, setup>>, NEW c
  PROVE  /\ UNCHANGED <<hpc, k, ret, signo, cur_port, hfd, hthr>>
         /\ Chan' = Chan /\ Chip' = Chip /\ (InStep(c)' <=> InStep(c)) /\ faults' = faults
         /\ (Waiting(c)' <=> Waiting(c)) /\ Request' = Request
         /\ \A m : Addressed(c, m)' <=> Addressed(c, m)
<1>1. UNCHANGED <<hpc, k, ret, signo, cur_port, hfd, hthr>>
  BY DEF host
<1>2. Chan' = Chan /\ Chip' = Chip /\ (InStep(c)' <=> InStep(c)) /\ faults' = faults
  BY SameSetup DEF InStep
<1> QED BY <1>1, <1>2 DEF Waiting, Request, Addressed, InStep

LEMMA NowServing ==
  ASSUME SlaveTypes, NEW c \in Chip, Exchange(c), MailInv(c), UNCHANGED <<host, settled, setup>>,
         cmd[c] # <<>>, cmd'[c] = Tail(cmd[c]), echo'[c] = echo[c],
         slave'[c].pc \in {"join", "close", "echo"}, slave'[c].msg = Head(cmd[c])
  PROVE  Exchange(c)'
<1>1. ASSUME InStep(c), hpc # "gone"
      PROVE  Waiting(c)' /\ Serving(c)'
  <2>1. Waiting(c) /\ Sending(c)
    BY <1>1, Mailed
  <2>2. Head(cmd[c]) = Request /\ Tail(cmd[c]) = <<>> /\ echo[c] = <<>>
    BY <2>1, FirstCommand DEF Sending
  <2> QED BY <2>1, <2>2, HostSame DEF Serving
<1> QED BY <1>1, HostSame DEF Exchange

LEMMA StillServing ==
  ASSUME NEW c \in Chip, Exchange(c), UNCHANGED <<host, settled, setup>>,
         slave[c].pc \in {"join", "close", "echo"}, cmd'[c] = cmd[c], echo'[c] = echo[c],
         slave'[c].pc \in {"join", "close", "echo"}, slave'[c].msg = slave[c].msg
  PROVE  Exchange(c)'
<1>1. ASSUME InStep(c), hpc # "gone"
      PROVE  Waiting(c)' /\ Serving(c)'
  BY <1>1, Busy, HostSame DEF Serving
<1> QED BY <1>1, HostSame DEF Exchange

LEMMA SlaveQuitStep ==
  ASSUME CtlInv, NEW c \in Chip, SlaveQuit(c)
  PROVE  CtlInv'
<1> DEFINE m == Head(cmd[c])
           s == [pc |-> "echo", msg |-> m, ok |-> TRUE]
<1>1. /\ slave[c].pc = "read" /\ cmd[c] # <<>> /\ m.type = "QUIT"
      /\ slave' = [slave EXCEPT ![c] = s] /\ cmd' = [cmd EXCEPT ![c] = Tail(@)]
      /\ UNCHANGED <<host, settled, setup>> /\ UNCHANGED <<sfd, sthr, echo>>
  BY Zenon DEF SlaveQuit
<1>2. TypeOK /\ SlaveTypes /\ MailInv(c) /\ ThreadInv(c) /\ PortInv(c) /\ CommandInv(c)
      /\ Exchange(c) /\ ServedInv(c)
  BY SlaveTypesOf DEF CtlInv, ChipInv, SlaveInv
<1>3. /\ m \in Command /\ Tail(cmd[c]) \in Seq(Command)
      /\ \A n \in DOMAIN Tail(cmd[c]) : Addressed(c, Tail(cmd[c])[n])
  BY <1>1, <1>2, FirstCommand
<1> HIDE DEF m
<1>4. s \in Slave /\ s.pc = "echo" /\ s.msg = m
  BY <1>3 DEF Slave, Pcs
<1> HIDE DEF s
<1>5. /\ slave' \in [Chip -> Slave] /\ slave'[c] = s /\ \A d \in Chip : d # c => slave'[d] = slave[d]
      /\ cmd' \in [Chip -> Seq(Command)] /\ cmd'[c] = Tail(cmd[c])
      /\ \A d \in Chip : d # c => cmd'[d] = cmd[d]
  BY <1>1, <1>2, <1>3, <1>4 DEF SlaveTypes
<1>6. TypeOK'
  BY <1>1, <1>2, <1>5, TypesAfterSlave DEF SlaveTypes
<1>7. OnlyChip(c)
  BY <1>1, <1>5 DEF OnlyChip
<1>8. slave'[c].pc = "echo" /\ slave'[c].msg = m /\ m.type = "QUIT"
  BY <1>1, <1>4, <1>5
<1>9. SlaveInv(c)'
  <2>1. MailInv(c)'
    BY <1>1, <1>3, <1>5, <1>8, HostSame DEF MailInv, Addressed
  <2>2. CommandInv(c)' 
    BY <1>8 DEF CommandInv
  <2>3. ThreadInv(c)' 
    BY <1>1, <1>2, <1>8, HostSame DEF ThreadInv
  <2>4. PortInv(c)'
    BY <1>1, <1>2, <1>8, HostSame DEF PortInv
  <2> QED BY <2>1, <2>2, <2>3, <2>4 DEF SlaveInv
<1>10. Exchange(c)'
  BY <1>1, <1>2, <1>5, <1>8, NowServing DEF m
<1>11. ServedInv(c)'
  <2>1. Alive(c) /\ Alive(c)'
    BY <1>1, <1>8 DEF Alive
  <2>2. \A i : Served(i)' <=> Served(i)
    BY <1>1 DEF Served
  <2>3. \A i : SlaveClean(i)' <=> SlaveClean(i)
    BY <1>1 DEF SlaveClean
  <2> QED BY <1>1, <1>2, <2>1, <2>2, <2>3, HostSame DEF ServedInv, Stopping
<1> QED BY <1>6, <1>7, <1>9, <1>10, <1>11, OneChip DEF ChipInv

LEMMA SlaveExitStep ==
  ASSUME CtlInv, NEW c \in Chip, SlaveExit(c)
  PROVE  CtlInv'
<1> DEFINE m == Head(cmd[c])
           i == m.of
           s == [pc |-> IF sthr[i].is_start THEN "join" ELSE "close", msg |-> m, ok |-> FALSE]
           t == Stopped(sthr[i])
<1>1. /\ slave[c].pc = "read" /\ cmd[c] # <<>> /\ m.type = "EXIT"
      /\ slave' = [slave EXCEPT ![c] = s] /\ cmd' = [cmd EXCEPT ![c] = Tail(@)]
      /\ sthr' = [sthr EXCEPT ![i] = t]
      /\ UNCHANGED <<host, settled, setup>> /\ UNCHANGED <<sfd, echo>>
  BY Zenon DEF SlaveExit
<1>2. TypeOK /\ SlaveTypes /\ MailInv(c) /\ ThreadInv(c) /\ PortInv(c) /\ CommandInv(c)
      /\ Exchange(c) /\ ServedInv(c) /\ HostInv /\ Sized
  BY SlaveTypesOf, SizedByType DEF CtlInv, ChipInv, SlaveInv
<1>3. /\ m \in Command /\ Tail(cmd[c]) \in Seq(Command) /\ Addressed(c, m)
      /\ \A n \in DOMAIN Tail(cmd[c]) : Addressed(c, Tail(cmd[c])[n])
  BY <1>1, <1>2, FirstCommand
<1>a. \A r : One(cmd[c], r) => m = r
  BY <1>1, <1>2, FirstCommand
<1> HIDE DEF m
<1>4. i \in Chan /\ ChipOf(i) = c
  BY <1>1, <1>3 DEF Addressed
<1>5. s \in Slave /\ s.pc = (IF sthr[i].is_start THEN "join" ELSE "close") /\ s.msg = m
  BY <1>3 DEF Slave, Pcs
<1>6. t \in Thread /\ t.is_start = FALSE /\ t.st = sthr[i].st /\ t.port = sthr[i].port
  BY <1>2, <1>4, StoppedRecord DEF SlaveTypes
<1> HIDE DEF s, t, i
<1>7. /\ slave' \in [Chip -> Slave] /\ slave'[c] = s /\ \A d \in Chip : d # c => slave'[d] = slave[d]
      /\ cmd' \in [Chip -> Seq(Command)] /\ cmd'[c] = Tail(cmd[c])
      /\ \A d \in Chip : d # c => cmd'[d] = cmd[d]
      /\ sthr' \in [Chan -> Thread] /\ sthr'[i] = t /\ \A j \in Chan : j # i => sthr'[j] = sthr[j]
  BY <1>1, <1>2, <1>3, <1>4, <1>5, <1>6 DEF SlaveTypes
<1>8. TypeOK'
  BY <1>1, <1>2, <1>7, TypesAfterSlave DEF SlaveTypes
<1>9. OnlyChip(c)
  BY <1>1, <1>4, <1>7 DEF OnlyChip
<1>10. slave'[c].pc = (IF sthr[i].is_start THEN "join" ELSE "close") /\ slave'[c].msg = m
       /\ slave'[c].msg.of = i
  BY <1>5, <1>7 DEF i
<1>11. sthr'[i].is_start = FALSE /\ sthr'[i].st = sthr[i].st /\ sthr'[i].port = sthr[i].port
  BY <1>6, <1>7
<1>12. SlaveInv(c)'
  <2>1. MailInv(c)'
    BY <1>1, <1>3, <1>7, <1>10, HostSame DEF MailInv
  <2>2. CommandInv(c)'
    BY <1>1, <1>2, <1>4, <1>10, <1>11, HostSame DEF CommandInv, ThreadInv
  <2>3. ThreadInv(c)'
    <3>1. ASSUME NEW j \in Chan, ChipOf(j) = c
          PROVE  /\ sthr'[j].port \in {NoPort, j}
                 /\ sthr'[j].st # "none" =>
                      sthr'[j].is_start \/ (slave'[c].pc = "join" /\ slave'[c].msg.of = j)
                 /\ "sopen" \notin faults /\ sthr'[j].is_start => sthr'[j].st # "none"
      <4>1. CASE j = i
        BY <1>1, <1>2, <1>4, <1>10, <1>11, <4>1 DEF ThreadInv
      <4>2. CASE j # i
        BY <1>1, <1>2, <1>7, <3>1, <4>2 DEF ThreadInv
      <4> QED BY <4>1, <4>2
    <3> QED BY <1>1, <1>10, <3>1, HostSame DEF ThreadInv
  <2>4. PortInv(c)'
    <3>1. \A p \in sfd[c] : p \in Chan /\ sthr'[p].port = sthr[p].port /\ sthr'[p].st = sthr[p].st
      BY <1>2, <1>7, <1>11 DEF PortInv
    <3> QED BY <1>1, <1>2, <1>10, <3>1, HostSame DEF PortInv
  <2> QED BY <2>1, <2>2, <2>3, <2>4 DEF SlaveInv
<1>13. Exchange(c)'
  BY <1>1, <1>2, <1>7, <1>10, NowServing DEF m
<1>14. ServedInv(c)'
  <2>1. Alive(c) /\ Alive(c)'
    BY <1>1, <1>10 DEF Alive
  <2>2. \A j \in Chan : j # i => (Served(j)' <=> Served(j)) /\ (SlaveClean(j)' <=> SlaveClean(j))
    BY <1>1, <1>7 DEF Served, SlaveClean
  <2>3. ASSUME InStep(c), hpc # "gone"
        PROVE  hpc = "stopwait" /\ k = i
    <3>1. Waiting(c) /\ m = Request
      BY <1>1, <1>2, <1>a, <2>3, Mailed DEF Sending
    <3> QED BY <1>1, <3>1, Asked DEF i
  <2>4. \A j \in Chan : InStep(c) /\ hthr[j].st = "run" => hpc # "gone" /\ j # i
    BY <1>2, <2>3 DEF HostInv
  <2>5. \A j \in Chan : InStep(c) /\ Stopping /\ j < k => j # i
    <3>1. Stopping => hpc # "gone"
      BY DEF Stopping
    <3>2. i \in Nat
      BY <1>2, <1>4, Numbers
    <3> QED BY <2>3, <3>1, <3>2
  <2> QED BY <1>1, <1>2, <2>1, <2>2, <2>3, <2>4, <2>5, HostSame DEF ServedInv, Stopping
<1> QED BY <1>8, <1>9, <1>12, <1>13, <1>14, OneChip DEF ChipInv

LEMMA SlaveInitStep ==
  ASSUME CtlInv, NEW c \in Chip, SlaveInit(c)
  PROVE  CtlInv'
<1> DEFINE m == Head(cmd[c])
           i == m.of
           u == [sthr[i] EXCEPT !.is_start = TRUE, !.port = m.port]
           v == [u EXCEPT !.st = "run"]
           good == [pc |-> "echo", msg |-> m, ok |-> TRUE]
           bad == [pc |-> "echo", msg |-> m, ok |-> FALSE]
<1>1. /\ slave[c].pc = "read" /\ cmd[c] # <<>> /\ m.type = "INIT"
      /\ cmd' = [cmd EXCEPT ![c] = Tail(@)]
      /\ UNCHANGED <<host, settled, setup>> /\ UNCHANGED echo
      /\ \/ /\ CanOpen(c, m.port)
            /\ sfd' = [sfd EXCEPT ![c] = @ \cup {m.port}]
            /\ sthr' = [sthr EXCEPT ![i] = v]
            /\ slave' = [slave EXCEPT ![c] = good]
         \/ /\ ~CanOpen(c, m.port) \/ "sopen" \in faults
            /\ sthr' = [sthr EXCEPT ![i] = u]
            /\ slave' = [slave EXCEPT ![c] = bad]
            /\ UNCHANGED sfd
  BY Zenon DEF SlaveInit
<1>2. TypeOK /\ SlaveTypes /\ MailInv(c) /\ ThreadInv(c) /\ PortInv(c) /\ CommandInv(c)
      /\ Exchange(c) /\ ServedInv(c) /\ HostInv /\ Sized
  BY SlaveTypesOf, SizedByType DEF CtlInv, ChipInv, SlaveInv
<1>3. /\ m \in Command /\ Tail(cmd[c]) \in Seq(Command) /\ Addressed(c, m)
      /\ \A n \in DOMAIN Tail(cmd[c]) : Addressed(c, Tail(cmd[c])[n])
  BY <1>1, <1>2, FirstCommand
<1>a. \A r : One(cmd[c], r) => m = r
  BY <1>1, <1>2, FirstCommand
<1> HIDE DEF m
<1>4. i \in Chan /\ ChipOf(i) = c /\ m.port = i /\ i \in Port
  BY <1>1, <1>2, <1>3, CommandFields
<1>5. good \in Slave /\ good.pc = "echo" /\ good.msg = m /\ good.ok = TRUE
      /\ bad \in Slave /\ bad.pc = "echo" /\ bad.msg = m /\ bad.ok = FALSE
  BY <1>3 DEF Slave, Pcs
<1>6. /\ u \in Thread /\ u.is_start = TRUE /\ u.port = i /\ u.st = sthr[i].st
      /\ v \in Thread /\ v.is_start = TRUE /\ v.port = i /\ v.st = "run"
  <2>1. sthr[i] \in Thread
    BY <1>2, <1>4 DEF SlaveTypes
  <2> HIDE DEF i
  <2> QED BY <1>4, <2>1, StartedRecord, Zenon
<1> HIDE DEF good, bad, u, v, i
<1> DEFINE opened == i \notin sfd[c] /\ sfd' = [sfd EXCEPT ![c] = @ \cup {i}]
                     /\ sthr' = [sthr EXCEPT ![i] = v] /\ slave' = [slave EXCEPT ![c] = good]
           refused == (i \in sfd[c] \/ "sopen" \in faults) /\ sfd' = sfd
                      /\ sthr' = [sthr EXCEPT ![i] = u] /\ slave' = [slave EXCEPT ![c] = bad]
<1>7. opened \/ refused
  BY <1>1, <1>4 DEF CanOpen
<1>8. /\ cmd' \in [Chip -> Seq(Command)] /\ cmd'[c] = Tail(cmd[c])
      /\ \A d \in Chip : d # c => cmd'[d] = cmd[d]
  BY <1>1, <1>2, <1>3 DEF SlaveTypes
<1>9. /\ slave' \in [Chip -> Slave] /\ slave'[c].pc = "echo" /\ slave'[c].msg = m
      /\ slave'[c].ok => opened
      /\ \A d \in Chip : d # c => slave'[d] = slave[d]
  BY <1>2, <1>5, <1>7 DEF SlaveTypes
<1>10. /\ sthr' \in [Chan -> Thread] /\ sthr'[i].is_start = TRUE /\ sthr'[i].port = i
       /\ opened => sthr'[i].st = "run"
       /\ refused => sthr'[i].st = sthr[i].st
       /\ \A j \in Chan : j # i => sthr'[j] = sthr[j]
  <2>1. CASE opened
    BY <1>2, <1>4, <1>6, <2>1 DEF SlaveTypes
  <2>2. CASE refused
    BY <1>2, <1>4, <1>6, <2>2 DEF SlaveTypes
  <2>3. ~(opened /\ refused)
    BY <1>2, <1>5 DEF SlaveTypes
  <2> QED BY <1>7, <2>1, <2>2, <2>3
<1>11. /\ sfd' \in [Chip -> SUBSET Port] /\ sfd[c] \subseteq sfd'[c] /\ sfd'[c] \subseteq sfd[c] \cup {i}
       /\ opened => i \in sfd'[c]
       /\ refused => sfd' = sfd
       /\ \A d \in Chip : d # c => sfd'[d] = sfd[d]
  <2>1. CASE opened
    BY <1>2, <1>4, <2>1 DEF SlaveTypes
  <2>2. CASE refused
    BY <1>2, <2>2, <1>5 DEF SlaveTypes
  <2> QED BY <1>7, <2>1, <2>2
<1>r. refused => i \in sfd[c] \/ "sopen" \in faults
  OBVIOUS
<1> HIDE DEF opened, refused
<1>12. TypeOK'
  BY <1>1, <1>2, <1>8, <1>9, <1>10, <1>11, TypesAfterSlave DEF SlaveTypes
<1>13. OnlyChip(c)
  BY <1>1, <1>4, <1>8, <1>9, <1>10, <1>11 DEF OnlyChip
<1>14. SlaveInv(c)'
  <2>1. MailInv(c)'
    BY <1>1, <1>3, <1>8, <1>9, HostSame DEF MailInv
  <2>2. CommandInv(c)'
    <3>1. slave'[c].msg.of = i /\ slave'[c].msg.type = "INIT"
      BY <1>1, <1>9 DEF i
    <3>2. slave'[c].ok => sthr'[i].is_start /\ sthr'[i].port = i /\ i \in sfd'[c]
      BY <1>9, <1>10, <1>11
    <3> QED BY <1>4, <1>9, <3>1, <3>2 DEF CommandInv, Served, ChipOf
  <2>3. ThreadInv(c)'
    <3>1. ASSUME NEW j \in Chan, ChipOf(j) = c
          PROVE  /\ sthr'[j].port \in {NoPort, j}
                 /\ sthr'[j].st # "none" => sthr'[j].is_start
                 /\ "sopen" \notin faults /\ sthr'[j].is_start => sthr'[j].st # "none"
      <4>1. CASE j = i
        <5>1. refused /\ "sopen" \notin faults => sthr[i].st # "none"
          BY <1>1, <1>2, <1>r DEF PortInv
        <5>2. sthr'[i].is_start = TRUE /\ sthr'[i].port = i
              /\ ("sopen" \notin faults => sthr'[i].st # "none")
          BY <1>7, <1>10, <5>1
        <5> QED BY <4>1, <5>2
      <4>2. CASE j # i
        BY <1>1, <1>2, <1>10, <3>1, <4>2 DEF ThreadInv
      <4> QED BY <4>1, <4>2
    <3> QED BY <1>1, <1>9, <3>1, HostSame DEF ThreadInv
  <2>4. PortInv(c)'
    <3>1. ASSUME NEW p \in sfd'[c]
          PROVE  p \in Chan /\ ChipOf(p) = c /\ sthr'[p].port = p
                 /\ ("sopen" \notin faults => sthr'[p].st # "none")
      <4>1. CASE p = i
        <5>1. refused => i \in sfd[c]
          BY <1>11, <3>1, <4>1
        <5>2. refused /\ "sopen" \notin faults => sthr[i].st # "none"
          BY <1>1, <1>2, <5>1 DEF PortInv
        <5> QED BY <1>4, <1>7, <1>10, <4>1, <5>2
      <4>2. CASE p # i
        BY <1>1, <1>2, <1>10, <1>11, <3>1, <4>2 DEF PortInv
      <4> QED BY <4>1, <4>2
    <3> QED BY <1>1, <1>9, <3>1, HostSame DEF PortInv
  <2> QED BY <2>1, <2>2, <2>3, <2>4 DEF SlaveInv
<1>15. Exchange(c)'
  BY <1>1, <1>2, <1>8, <1>9, NowServing DEF m
<1>16. ServedInv(c)'
  <2>1. Alive(c) /\ Alive(c)'
    BY <1>1, <1>9 DEF Alive
  <2>2. \A j \in Chan : ChipOf(j) = c /\ Served(j) => Served(j)'
    BY <1>10, <1>11, <1>4 DEF Served
  <2>3. ASSUME InStep(c), hpc # "gone"
        PROVE  hpc = "initwait"
    <3>1. Waiting(c) /\ m = Request
      BY <1>1, <1>2, <1>a, <2>3, Mailed DEF Sending
    <3> QED BY <1>1, <3>1, Asked
  <2>4. \A j \in Chan : InStep(c) /\ hthr[j].st = "run" => hpc = "initwait"
    BY <1>2, <2>3 DEF HostInv
  <2>5. ASSUME InStep(c)
        PROVE  ~Stopping /\ hpc \notin {"menu", "exit"}
    BY <2>3, <2>5 DEF Stopping
  <2> QED BY <1>1, <1>2, <2>1, <2>2, <2>3, <2>5, HostSame DEF ServedInv, Stopping
<1> QED BY <1>12, <1>13, <1>14, <1>15, <1>16, OneChip DEF ChipInv

-----------------------------------------------------------------------------
(* The end of a slave. *)

LEMMA Death ==
  ASSUME CtlInv, NEW c \in Chip, Dies(c), UNCHANGED setup
  PROVE  /\ slave' \in [Chip -> Slave] /\ sthr' \in [Chan -> Thread]
         /\ sfd' \in [Chip -> SUBSET Port] /\ cmd' \in [Chip -> Seq(Command)]
         /\ slave'[c].pc = "gone" /\ cmd'[c] = <<>> /\ sfd'[c] = {}
         /\ \A i \in Chan : ChipOf(i) = c => sthr'[i] = NoThread
         /\ \A i \in Chan : ChipOf(i) # c => sthr'[i] = sthr[i]
         /\ \A d \in Chip : d # c =>
              slave'[d] = slave[d] /\ sfd'[d] = sfd[d] /\ cmd'[d] = cmd[d]
<1>1. SlaveTypes
  BY SlaveTypesOf DEF CtlInv
<1>2. slave' \in [Chip -> Slave] /\ slave'[c].pc = "gone"
      /\ \A d \in Chip : d # c => slave'[d] = slave[d]
  <2>1. slave \in [Chip -> Slave]
    BY <1>1 DEF SlaveTypes
  <2>2. slave' = [slave EXCEPT ![c] = NoCommand(c, "gone")]
    BY Zenon DEF Dies
  <2> QED BY <2>1, <2>2, Resting
<1>3. /\ sfd' \in [Chip -> SUBSET Port] /\ sfd'[c] = {} /\ \A d \in Chip : d # c => sfd'[d] = sfd[d]
      /\ cmd' \in [Chip -> Seq(Command)] /\ cmd'[c] = <<>>
      /\ \A d \in Chip : d # c => cmd'[d] = cmd[d]
  <2>1. sfd' = [sfd EXCEPT ![c] = {}] /\ cmd' = [cmd EXCEPT ![c] = <<>>] /\ <<>> \in Seq(Command)
    BY SMT DEF Dies
  <2> QED BY <1>1, <2>1 DEF SlaveTypes
<1>4. NoThread \in Thread
  BY DEF NoThread, Thread
<1>5. sthr' = [i \in Chan |-> IF i \in ChansOf(c) THEN NoThread ELSE sthr[i]]
  BY Zenon DEF Dies
<1> QED BY <1>1, <1>2, <1>3, <1>4, <1>5 DEF SlaveTypes, ChansOf

LEMMA DeathStep ==
  ASSUME CtlInv, NEW c \in Chip, Dies(c), UNCHANGED <<host, settled, setup>>,
         echo' \in [Chip -> Seq(Echo)], \A d \in Chip : d # c => echo'[d] = echo[d],
         Exchange(c)'
  PROVE  CtlInv'
<1>1. /\ slave' \in [Chip -> Slave] /\ sthr' \in [Chan -> Thread]
      /\ sfd' \in [Chip -> SUBSET Port] /\ cmd' \in [Chip -> Seq(Command)]
      /\ slave'[c].pc = "gone" /\ cmd'[c] = <<>> /\ sfd'[c] = {}
      /\ \A i \in Chan : ChipOf(i) = c => sthr'[i] = NoThread
      /\ \A i \in Chan : ChipOf(i) # c => sthr'[i] = sthr[i]
      /\ \A d \in Chip : d # c =>
           slave'[d] = slave[d] /\ sfd'[d] = sfd[d] /\ cmd'[d] = cmd[d]
  BY Death
<1>2. TypeOK'
  BY <1>1, TypesAfterSlave DEF CtlInv
<1>3. OnlyChip(c)
  BY <1>1 DEF OnlyChip
<1>4. NoThread.port = NoPort /\ NoThread.st = "none" /\ NoThread.is_start = FALSE
  BY DEF NoThread
<1>5. SlaveInv(c)'
  <2>1. DOMAIN cmd'[c] = {}
    BY <1>1
  <2>2. MailInv(c)' /\ CommandInv(c)'
    BY <1>1, <2>1 DEF MailInv, CommandInv
  <2>3. ThreadInv(c)' /\ PortInv(c)'
    BY <1>1, <1>4, HostSame DEF ThreadInv, PortInv
  <2> QED BY <2>2, <2>3 DEF SlaveInv
<1>6. ServedInv(c)'
  <2>1. ~Alive(c)'
    BY <1>1 DEF Alive
  <2>2. \A i \in Chan : ChipOf(i) = c => SlaveClean(i)'
    BY <1>1, <1>4 DEF SlaveClean
  <2> QED BY <1>1, <2>1, <2>2, HostSame DEF ServedInv, Stopping
<1> QED BY <1>2, <1>3, <1>5, <1>6, OneChip DEF ChipInv

LEMMA SuddenDeath ==
  ASSUME CtlInv, NEW c \in Chip, Dies(c), UNCHANGED <<host, settled, setup>>, UNCHANGED echo
  PROVE  CtlInv'
<1>1. slave'[c].pc = "gone" /\ cmd'[c] = <<>> /\ sfd'[c] = {}
      /\ \A i \in Chan : ChipOf(i) = c => sthr'[i] = NoThread
  BY Death
<1>2. Exchange(c) /\ SlaveTypes /\ k \in Chan
  BY SlaveTypesOf DEF CtlInv, ChipInv, TypeOK
<1>3. ~Alive(c)' /\ \A i \in Chan : ChipOf(i) = c => SlaveClean(i)'
  BY <1>1 DEF Alive, SlaveClean, NoThread
<1>4. ASSUME Waiting(c), Answering(c)
      PROVE  Answering(c)'
  <2>1. AnswerTrue(c)'
    BY <1>2, <1>3, <1>4, HostSame DEF AnswerTrue, Waiting
  <2> QED BY <1>1, <1>4, <2>1, HostSame DEF Answering
<1>5. Exchange(c)'
  BY <1>1, <1>2, <1>4, HostSame DEF Exchange, Idle, Sending, Serving, Lost
<1> QED BY <1>2, <1>5, DeathStep DEF SlaveTypes

LEMMA SlaveKilledStep ==
  ASSUME CtlInv, NEW c \in Chip, SlaveKilled(c)
  PROVE  CtlInv'
BY SuddenDeath DEF SlaveKilled

LEMMA SlaveRestartStep ==
  ASSUME CtlInv, NEW c \in Chip, SlaveRestart(c)
  PROVE  CtlInv'
<1>1. slave[c].pc = "gone" /\ settled' = settled \ {c} /\ UNCHANGED <<host, setup>>
      /\ UNCHANGED <<sfd, sthr, cmd, echo>>
  BY DEF SlaveRestart, Alive
<1>2. TypeOK /\ SlaveTypes /\ MailInv(c) /\ ThreadInv(c) /\ PortInv(c)
      /\ Exchange(c) /\ ServedInv(c) /\ HostInv
  BY SlaveTypesOf DEF CtlInv, ChipInv, SlaveInv
<1>3. slave' \in [Chip -> Slave] /\ slave'[c].pc = "read"
      /\ \A d \in Chip : d # c => slave'[d] = slave[d]
  <2>1. slave \in [Chip -> Slave]
    BY <1>2 DEF SlaveTypes
  <2>2. slave' = [slave EXCEPT ![c] = NoCommand(c, "read")]
    BY Zenon DEF SlaveRestart
  <2> QED BY <2>1, <2>2, Resting
<1>4. TypeOK'
  BY <1>1, <1>2, <1>3, TypesAfterSlave DEF SlaveTypes
<1>5. OnlyChip(c)
  BY <1>1, <1>3 DEF OnlyChip
<1>6. NoThread.port = NoPort /\ NoThread.st = "none" /\ NoThread.is_start = FALSE
  BY DEF NoThread
<1>s. Chan' = Chan /\ faults' = faults /\ hpc' = hpc /\ ~InStep(c)'
  BY <1>1, SameSetup DEF host, InStep
<1>7. SlaveInv(c)'
  BY <1>1, <1>2, <1>3, <1>6, <1>s DEF SlaveInv, MailInv, CommandInv, ThreadInv, PortInv
<1>8. Exchange(c)'
  BY <1>1, <1>2, <1>s DEF Exchange
<1>9. ServedInv(c)'
  BY <1>s DEF ServedInv
<1> QED BY <1>4, <1>5, <1>7, <1>8, <1>9, OneChip DEF ChipInv

-----------------------------------------------------------------------------
(* The slave takes a channel down. *)

LEMMA ExitOnly ==
  ASSUME CtlInv, NEW c \in Chip, slave[c].pc \in {"join", "close"}
  PROVE  /\ slave[c].msg.of \in Chan /\ ChipOf(slave[c].msg.of) = c
         /\ slave[c].msg.type = "EXIT" /\ Addressed(c, slave[c].msg)
         /\ InStep(c) /\ hpc # "gone" => hpc = "stopwait" /\ k = slave[c].msg.of
<1>1. Exchange(c) /\ MailInv(c)
  BY DEF CtlInv, ChipInv, SlaveInv
<1>2. Addressed(c, slave[c].msg) /\ slave[c].msg.type = "EXIT"
  BY <1>1 DEF MailInv
<1>3. ASSUME InStep(c), hpc # "gone"
      PROVE  hpc = "stopwait" /\ k = slave[c].msg.of
  <2>1. Waiting(c) /\ slave[c].msg = Request
    BY <1>1, <1>3, Busy DEF Serving
  <2> QED BY <1>2, <2>1, Asked
<1> QED BY <1>2, <1>3 DEF Addressed

JoinReturns(c) ==
  /\ slave[c].pc = "join" /\ UNCHANGED <<host, settled, setup>> /\ UNCHANGED <<echo, sfd, cmd>>
  /\ sthr' = [sthr EXCEPT ![slave[c].msg.of].st = "none"]
  /\ slave' = [slave EXCEPT ![c].pc = "close"]

LEMMA JoinedStep ==
  ASSUME CtlInv, NEW c \in Chip, JoinReturns(c)
  PROVE  CtlInv'
<1> DEFINE i == slave[c].msg.of
<1>0. slave[c].pc = "join" /\ UNCHANGED <<host, settled, setup>> /\ UNCHANGED <<echo, sfd, cmd>>
  BY Zenon DEF JoinReturns
<1>1. TypeOK /\ SlaveTypes /\ MailInv(c) /\ ThreadInv(c) /\ PortInv(c) /\ CommandInv(c)
      /\ Exchange(c) /\ ServedInv(c) /\ HostInv /\ Sized
  BY SlaveTypesOf, SizedByType DEF CtlInv, ChipInv, SlaveInv
<1>2. i \in Chan /\ ChipOf(i) = c /\ slave[c].msg.type = "EXIT" /\ Addressed(c, slave[c].msg)
      /\ (InStep(c) /\ hpc # "gone" => hpc = "stopwait" /\ k = i)
  BY <1>0, ExitOnly
<1>3. /\ sthr' \in [Chan -> Thread] /\ sthr'[i].st = "none"
      /\ sthr'[i].is_start = sthr[i].is_start /\ sthr'[i].port = sthr[i].port
      /\ \A j \in Chan : j # i => sthr'[j] = sthr[j]
  <2>1. sthr \in [Chan -> Thread] /\ i \in Chan
    BY <1>1, <1>2 DEF SlaveTypes
  <2>3. sthr' = [sthr EXCEPT ![i].st = "none"]
    BY Zenon DEF JoinReturns
  <2>2. "none" \in {"none", "run", "ended"}
    OBVIOUS
  <2> HIDE DEF i
  <2> QED BY <2>1, <2>2, <2>3, MarkSt
<1>4. /\ slave' \in [Chip -> Slave] /\ slave'[c].pc = "close" /\ slave'[c].msg = slave[c].msg
      /\ \A d \in Chip : d # c => slave'[d] = slave[d]
  <2>1. slave \in [Chip -> Slave] /\ "close" \in Pcs
    BY <1>1 DEF SlaveTypes, Pcs
  <2>2. slave' = [slave EXCEPT ![c].pc = "close"]
    BY Zenon DEF JoinReturns
  <2> QED BY <2>1, <2>2, MarkPc
<1>5. slave'[c].msg.of = i
  BY <1>0, <1>4
<1> HIDE DEF i
<1>6. TypeOK'
  BY <1>0, <1>1, <1>3, <1>4, TypesAfterSlave DEF SlaveTypes
<1>7. OnlyChip(c)
  BY <1>0, <1>2, <1>3, <1>4 DEF OnlyChip
<1>8. ~sthr[i].is_start
  BY <1>0, <1>1 DEF CommandInv, i
<1>9. SlaveInv(c)'
  <2>1. MailInv(c)'
    BY <1>0, <1>1, <1>2, <1>4, HostSame DEF MailInv
  <2>2. CommandInv(c)'
    BY <1>0, <1>3, <1>4, <1>5, <1>8 DEF CommandInv
  <2>3. ThreadInv(c)'
    <3>1. ASSUME NEW j \in Chan, ChipOf(j) = c
          PROVE  /\ sthr'[j].port \in {NoPort, j}
                 /\ sthr'[j].st # "none" => sthr'[j].is_start
                 /\ "sopen" \notin faults /\ sthr'[j].is_start => sthr'[j].st # "none"
      <4>1. CASE j = i
        BY <1>0, <1>1, <1>2, <1>3, <1>8, <4>1 DEF ThreadInv
      <4>2. CASE j # i
        BY <1>0, <1>1, <1>3, <3>1, <4>2 DEF ThreadInv, i
      <4> QED BY <1>0, <4>1, <4>2
    <3> QED BY <1>0, <1>4, <3>1, HostSame DEF ThreadInv
  <2>4. PortInv(c)'
    <3>1. \A p \in sfd[c] : p \in Chan /\ sthr'[p].port = sthr[p].port
                            /\ (p # i => sthr'[p].st = sthr[p].st)
      BY <1>0, <1>1, <1>3 DEF PortInv
    <3> QED BY <1>0, <1>1, <1>4, <1>5, <3>1, HostSame DEF PortInv
  <2> QED BY <1>0, <2>1, <2>2, <2>3, <2>4 DEF SlaveInv
<1>10. Exchange(c)'
  BY <1>0, <1>1, <1>4, StillServing
<1>11. ServedInv(c)'
  <2>1. Alive(c) /\ Alive(c)'
    BY <1>0, <1>4 DEF Alive
  <2>2. \A j \in Chan : SlaveClean(j) => SlaveClean(j)'
    BY <1>0, <1>3 DEF SlaveClean
  <2>3. \A j \in Chan : j # i /\ Served(j) => Served(j)'
    BY <1>0, <1>3 DEF Served
  <2>4. InStep(c) => hthr[i].st # "run"
    BY <1>0, <1>1, <1>2 DEF HostInv
  <2> QED BY <1>0, <1>1, <2>1, <2>2, <2>3, <2>4, HostSame DEF ServedInv, Stopping
<1> QED BY <1>0, <1>6, <1>7, <1>9, <1>10, <1>11, OneChip DEF ChipInv

LEMMA SlaveJoinStep ==
  ASSUME CtlInv, NEW c \in Chip, SlaveJoin(c)
  PROVE  CtlInv'
<1>1. UNCHANGED <<host, settled, setup>> /\ UNCHANGED echo
  BY DEF SlaveJoin
<1>2. JoinReturns(c) \/ Dies(c)
  BY Zenon DEF SlaveJoin, JoinReturns
<1>3. CASE Dies(c)
  BY <1>1, <1>3, SuddenDeath
<1> QED BY <1>2, <1>3, JoinedStep

LEMMA SlaveCloseStep ==
  ASSUME CtlInv, NEW c \in Chip, SlaveClose(c)
  PROVE  CtlInv'
<1> DEFINE i == slave[c].msg.of
           p == sthr[i].port
<1>0. /\ slave[c].pc = "close" /\ UNCHANGED <<host, settled, setup>> /\ UNCHANGED <<sthr, cmd, echo>>
      /\ sfd' = [sfd EXCEPT ![c] = @ \ {p}]
      /\ slave' = [slave EXCEPT ![c].pc = "echo", ![c].ok = (p # NoPort)]
  BY Zenon DEF SlaveClose
<1>1. TypeOK /\ SlaveTypes /\ MailInv(c) /\ ThreadInv(c) /\ PortInv(c) /\ CommandInv(c)
      /\ Exchange(c) /\ ServedInv(c) /\ HostInv /\ Sized
  BY SlaveTypesOf, SizedByType DEF CtlInv, ChipInv, SlaveInv
<1>2. i \in Chan /\ ChipOf(i) = c /\ slave[c].msg.type = "EXIT" /\ Addressed(c, slave[c].msg)
      /\ (InStep(c) /\ hpc # "gone" => hpc = "stopwait" /\ k = i)
  BY <1>0, ExitOnly
<1>3. /\ sfd' \in [Chip -> SUBSET Port] /\ sfd'[c] = sfd[c] \ {p}
      /\ \A d \in Chip : d # c => sfd'[d] = sfd[d]
  BY <1>0, <1>1 DEF SlaveTypes
<1>4. /\ slave' \in [Chip -> Slave] /\ slave'[c].pc = "echo" /\ slave'[c].msg = slave[c].msg
      /\ \A d \in Chip : d # c => slave'[d] = slave[d]
  <2>1. slave \in [Chip -> Slave] /\ "echo" \in Pcs
    BY <1>1 DEF SlaveTypes, Pcs
  <2>2. PICK b \in BOOLEAN : b = (p # NoPort)
    BY Zenon
  <2>3. PICK h : h = [slave EXCEPT ![c].pc = "echo"]
    BY Zenon
  <2>4. h \in [Chip -> Slave] /\ h[c].pc = "echo" /\ h[c].msg = slave[c].msg
        /\ \A d \in Chip : d # c => h[d] = slave[d]
    BY <2>1, <2>3, MarkPc
  <2>5. slave' = [h EXCEPT ![c].ok = b]
    BY <1>0, <2>2, <2>3, Zenon
  <2>6. slave' \in [Chip -> Slave] /\ slave'[c].pc = h[c].pc /\ slave'[c].msg = h[c].msg
        /\ \A d \in Chip : d # c => slave'[d] = h[d]
    BY <2>4, <2>5, MarkOk
  <2> QED BY <2>4, <2>6
<1>5. slave'[c].msg.of = i /\ p \in {NoPort, i} /\ sthr[i].st = "none"
  BY <1>0, <1>1, <1>2, <1>4 DEF ThreadInv, CommandInv
<1>p. sthr[i].port = p
  OBVIOUS
<1> HIDE DEF p, i
<1>6. TypeOK'
  BY <1>0, <1>1, <1>3, <1>4, TypesAfterSlave DEF SlaveTypes
<1>7. OnlyChip(c)
  BY <1>0, <1>3, <1>4 DEF OnlyChip
<1>9. SlaveInv(c)'
  <2>1. MailInv(c)'
    BY <1>0, <1>1, <1>2, <1>4, HostSame DEF MailInv
  <2>2. CommandInv(c)'
    <3>1. sthr'[i].st = "none" /\ sthr'[i].port \notin sfd'[c]
      BY <1>0, <1>3, <1>5, <1>p
    <3> QED BY <1>2, <1>4, <1>5, <3>1 DEF CommandInv, SlaveClean, ChipOf
  <2>3. ThreadInv(c)'
    BY <1>0, <1>1, <1>4, HostSame DEF ThreadInv
  <2>4. PortInv(c)'
    <3>1. ASSUME NEW q \in sfd'[c]
          PROVE  q \in Chan /\ ChipOf(q) = c /\ sthr[q].port = q
                 /\ ("sopen" \notin faults => sthr[q].st # "none")
      <4>1. q \in sfd[c] /\ q # p
        BY <1>3, <3>1
      <4>2. q \in Chan /\ ChipOf(q) = c /\ sthr[q].port = q
        BY <1>1, <4>1 DEF PortInv
      <4>3. q # i
        BY <1>p, <4>1, <4>2
      <4> QED BY <1>0, <1>1, <4>1, <4>2, <4>3 DEF PortInv, i
    <3> QED BY <1>0, <1>4, <3>1, HostSame DEF PortInv
  <2> QED BY <2>1, <2>2, <2>3, <2>4 DEF SlaveInv
<1>10. Exchange(c)'
  BY <1>0, <1>1, <1>4, StillServing
<1>11. ServedInv(c)'
  <2>1. Alive(c) /\ Alive(c)'
    BY <1>0, <1>4 DEF Alive
  <2>2. \A j \in Chan : ChipOf(j) = c /\ SlaveClean(j) => SlaveClean(j)'
    BY <1>0, <1>3 DEF SlaveClean
  <2>3. \A j \in Chan : ChipOf(j) = c /\ j # i /\ Served(j) => Served(j)'
    <3>1. \A j \in Chan : j # NoPort
      BY <1>1, Numbers DEF NoPort
    <3> QED BY <1>0, <1>3, <1>5, <3>1 DEF Served
  <2>4. InStep(c) => hthr[i].st # "run"
    BY <1>1, <1>2 DEF HostInv
  <2>5. sfd[c] = {} => sfd'[c] = {}
    BY <1>3
  <2>6. ASSUME InStep(c), NEW j \in Chan, ChipOf(j) = c, hthr[j].st = "run"
        PROVE  Served(j)'
    BY <1>1, <2>1, <2>3, <2>4, <2>6 DEF ServedInv
  <2>7. ASSUME InStep(c), Stopping, NEW j \in Chan, ChipOf(j) = c, j < k
        PROVE  SlaveClean(j)'
    BY <1>1, <2>2, <2>7 DEF ServedInv
  <2>8. UNCHANGED <<hpc, k, ret, signo, hthr>> /\ Chan' = Chan /\ (InStep(c)' <=> InStep(c))
    BY <1>0, HostSame
  <2>9. InStep(c)' => \A j \in Chan' :
          ChipOf(j) = c /\ hthr'[j].st = "run" /\ Alive(c)' => Served(j)'
    BY <2>6, <2>8
  <2>10. InStep(c)' => (Stopping' => \A j \in Chan' : ChipOf(j) = c /\ j < k' => SlaveClean(j)')
    BY <2>7, <2>8 DEF Stopping
  <2>11. InStep(c) /\ hpc = "menu" /\ ret = "ok" => sfd'[c] = {}
    BY <1>1, <2>5 DEF ServedInv
  <2>12. InStep(c) => /\ ~(hpc \in {"quit", "quitwait"} /\ c < k)
                     /\ ~(hpc = "exit" /\ signo /\ ret = "ok")
    BY <1>1, <2>1 DEF ServedInv
  <2> QED BY <2>8, <2>9, <2>10, <2>11, <2>12 DEF ServedInv
<1> QED BY <1>6, <1>7, <1>9, <1>10, <1>11, OneChip DEF ChipInv

LEMMA SlaveThreadStep ==
  ASSUME CtlInv, NEW i \in Chan, SlaveThreadEnds(i)
  PROVE  CtlInv'
<1> DEFINE c == ChipOf(i)
<1>0. /\ sthr[i].st = "run" /\ UNCHANGED <<host, settled, setup>> /\ UNCHANGED <<slave, sfd, cmd, echo>>
      /\ sthr' = [sthr EXCEPT ![i].st = "ended"]
  BY Zenon DEF SlaveThreadEnds
<1>1. TypeOK /\ SlaveTypes /\ Sized /\ c \in Chip /\ k \in Chan
  BY SlaveTypesOf, SizedByType, Numbers DEF CtlInv, TypeOK
<1>2. MailInv(c) /\ ThreadInv(c) /\ PortInv(c) /\ CommandInv(c) /\ Exchange(c) /\ ServedInv(c)
  BY <1>1 DEF CtlInv, ChipInv, SlaveInv
<1>3. /\ sthr' \in [Chan -> Thread] /\ sthr'[i].st = "ended"
      /\ sthr'[i].is_start = sthr[i].is_start /\ sthr'[i].port = sthr[i].port
      /\ \A j \in Chan : j # i => sthr'[j] = sthr[j]
  <2>1. sthr \in [Chan -> Thread] /\ "ended" \in {"none", "run", "ended"}
    BY <1>1 DEF SlaveTypes
  <2>2. sthr' = [sthr EXCEPT ![i].st = "ended"]
    BY <1>0, Zenon
  <2> QED BY <2>1, <2>2, MarkSt
<1>4. \A j \in Chan : /\ sthr'[j].is_start = sthr[j].is_start /\ sthr'[j].port = sthr[j].port
                      /\ sthr'[j].st = "none" <=> sthr[j].st = "none"
                      /\ j # i => sthr'[j] = sthr[j]
  BY <1>0, <1>3
<1>5. \A j \in Chan : (Served(j)' <=> Served(j)) /\ (SlaveClean(j)' <=> SlaveClean(j))
  BY <1>0, <1>4 DEF Served, SlaveClean, ChipOf
<1>c. ChipOf(i) = c
  OBVIOUS
<1> HIDE DEF c
<1>6. TypeOK'
  BY <1>0, <1>1, <1>3, TypesAfterSlave DEF SlaveTypes
<1>7. \A d \in Chip : d # c => \A j \in Chan : ChipOf(j) = d => sthr'[j] = sthr[j]
  BY <1>3, <1>c
<1>8. OnlyChip(c)
  BY <1>0, <1>3, <1>c DEF OnlyChip
<1>9. SlaveInv(c)'
  <2>1. MailInv(c)'
    BY <1>0, <1>2, HostSame DEF MailInv
  <2>2. slave[c].pc \in {"join", "close", "echo"} /\ slave[c].msg.type # "QUIT" => slave[c].msg.of \in Chan
    BY <1>2 DEF MailInv, Addressed
  <2>3. CommandInv(c)'
    <3>1. slave[c].pc \in {"join", "close"} => slave[c].msg.type = "EXIT"
      BY <1>2 DEF MailInv
    <3> QED BY <1>0, <1>2, <1>4, <1>5, <2>2, <3>1, HostSame DEF CommandInv
  <2>4. ThreadInv(c)'
    <3>1. slave[c].pc # "gone"
      BY <1>0, <1>2, <1>c DEF ThreadInv, NoThread
    <3> QED BY <1>0, <1>2, <1>4, <3>1, HostSame DEF ThreadInv
  <2>5. PortInv(c)'
    BY <1>0, <1>2, <1>4, HostSame DEF PortInv
  <2> QED BY <2>1, <2>3, <2>4, <2>5 DEF SlaveInv
<1>10. (Alive(c)' <=> Alive(c))
  BY <1>0 DEF Alive
<1>11. Exchange(c)'
  <2>1. Waiting(c) => (AnswerTrue(c)' <=> AnswerTrue(c))
    BY <1>0, <1>1, <1>5, <1>10, HostSame DEF AnswerTrue
  <2> QED BY <1>0, <1>2, <2>1, HostSame DEF Exchange, Idle, Sending, Serving, Answering, Lost
<1>12. ServedInv(c)'
  BY <1>0, <1>2, <1>5, <1>10, HostSame DEF ServedInv, Stopping
<1> QED BY <1>1, <1>6, <1>8, <1>9, <1>11, <1>12, OneChip DEF ChipInv

-----------------------------------------------------------------------------
(* The slave answers. *)

LEMMA OneMore ==
  ASSUME NEW S, NEW s \in Seq(S), NEW x \in S
  PROVE  /\ Append(s, x) \in Seq(S)
         /\ s = <<>> => Len(Append(s, x)) = 1 /\ Append(s, x)[1] = x
OBVIOUS

(* What the answer says, when it is put where the host waits for it. *)
LEMMA AnswerGoes ==
  ASSUME CtlInv, NEW c \in Chip, slave[c].pc = "echo", UNCHANGED <<host, settled, setup>>,
         hpc # "gone", echo' = [echo EXCEPT ![c] = Append(@, Answer(slave[c].msg, slave[c].ok))]
  PROVE  /\ echo' \in [Chip -> Seq(Echo)] /\ \A d \in Chip : d # c => echo'[d] = echo[d]
         /\ InStep(c) => /\ Waiting(c) /\ slave[c].msg = Request /\ cmd[c] = <<>>
                        /\ Len(echo'[c]) = 1 /\ echo'[c][1].to = Request
                        /\ echo'[c][1].ok = slave[c].ok
<1> DEFINE a == Answer(slave[c].msg, slave[c].ok)
<1>1. SlaveTypes /\ Exchange(c)
  BY SlaveTypesOf DEF CtlInv, ChipInv
<1>2. a \in Echo /\ a.to = slave[c].msg /\ a.ok = slave[c].ok
  BY <1>1 DEF SlaveTypes, Slave, Echo, Answer
<1>3. echo[c] \in Seq(Echo)
  BY <1>1 DEF SlaveTypes
<1> HIDE DEF a
<1>4. Append(echo[c], a) \in Seq(Echo)
      /\ (echo[c] = <<>> => Len(Append(echo[c], a)) = 1 /\ Append(echo[c], a)[1] = a)
  BY <1>2, <1>3, OneMore
<1>5. /\ echo' \in [Chip -> Seq(Echo)] /\ echo'[c] = Append(echo[c], a)
      /\ \A d \in Chip : d # c => echo'[d] = echo[d]
  BY <1>1, <1>4 DEF SlaveTypes, a
<1>6. ASSUME InStep(c)
      PROVE  Waiting(c) /\ slave[c].msg = Request /\ cmd[c] = <<>> /\ echo[c] = <<>>
  BY <1>1, <1>6, Busy DEF Serving
<1> QED BY <1>2, <1>4, <1>5, <1>6

Reads(c) == /\ slave' = [slave EXCEPT ![c] = NoCommand(c, "read")] /\ UNCHANGED <<sfd, sthr, cmd>>
Puts(c) == /\ Len(echo[c]) < QueueCap
           /\ echo' = [echo EXCEPT ![c] = Append(@, Answer(slave[c].msg, slave[c].ok))]

LEMMA QuitAnswer ==
  ASSUME CtlInv, NEW c \in Chip, slave[c].pc = "echo", UNCHANGED <<host, settled, setup>>,
         hpc # "gone", Puts(c), slave[c].msg.type = "QUIT", Dies(c)
  PROVE  CtlInv'
<1>1. /\ echo' \in [Chip -> Seq(Echo)] /\ \A d \in Chip : d # c => echo'[d] = echo[d]
      /\ InStep(c) => /\ Waiting(c) /\ slave[c].msg = Request /\ cmd[c] = <<>>
                     /\ Len(echo'[c]) = 1 /\ echo'[c][1].to = Request
                     /\ echo'[c][1].ok = slave[c].ok
  BY AnswerGoes DEF Puts
<1>2. slave'[c].pc = "gone" /\ cmd'[c] = <<>>
  BY Death
<1>3. ASSUME InStep(c)
      PROVE  Waiting(c)' /\ Answering(c)'
  <2>1. hpc = "quitwait"
    BY <1>1, <1>3, Asked
  <2>2. AnswerTrue(c)'
    BY <1>2, <2>1, HostSame DEF AnswerTrue, Alive
  <2> QED BY <1>1, <1>2, <1>3, <2>2, HostSame DEF Answering
<1>4. Exchange(c)'
  BY <1>3, HostSame DEF Exchange
<1> QED BY <1>1, <1>4, DeathStep

LEMMA ReadsPc ==
  ASSUME SlaveTypes, NEW c \in Chip, Reads(c)
  PROVE  /\ slave' \in [Chip -> Slave] /\ slave'[c].pc = "read"
         /\ \A d \in Chip : d # c => slave'[d] = slave[d]
<1>1. slave \in [Chip -> Slave]
  BY DEF SlaveTypes
<1>2. slave' = [slave EXCEPT ![c] = NoCommand(c, "read")]
  BY Zenon DEF Reads
<1> QED BY <1>1, <1>2, Resting

LEMMA ReadsAgain ==
  ASSUME CtlInv, NEW c \in Chip, slave[c].pc = "echo", UNCHANGED <<host, settled, setup>>, Reads(c),
         echo' \in [Chip -> Seq(Echo)], \A d \in Chip : d # c => echo'[d] = echo[d],
         hpc = "gone" => echo'[c] = <<>>,
         InStep(c) /\ hpc # "gone" => Puts(c) /\ slave[c].msg.type # "QUIT"
  PROVE  CtlInv'
<1>1. TypeOK /\ SlaveTypes /\ MailInv(c) /\ ThreadInv(c) /\ PortInv(c) /\ CommandInv(c)
      /\ Exchange(c) /\ ServedInv(c)
  BY SlaveTypesOf DEF CtlInv, ChipInv, SlaveInv
<1>2. UNCHANGED <<sfd, sthr, cmd>>
  BY DEF Reads
<1>3. /\ slave' \in [Chip -> Slave] /\ slave'[c].pc = "read"
      /\ \A d \in Chip : d # c => slave'[d] = slave[d]
  BY <1>1, ReadsPc
<1>4. TypeOK'
  BY <1>1, <1>2, <1>3, TypesAfterSlave DEF SlaveTypes
<1>5. OnlyChip(c)
  BY <1>2, <1>3 DEF OnlyChip
<1>6. SlaveInv(c)'
  <2>1. MailInv(c)' /\ CommandInv(c)'
    BY <1>1, <1>2, <1>3, HostSame DEF MailInv, CommandInv
  <2>2. ThreadInv(c)' /\ PortInv(c)'
    BY <1>1, <1>2, <1>3, HostSame DEF ThreadInv, PortInv
  <2> QED BY <2>1, <2>2 DEF SlaveInv
<1>7. \A i : (Served(i)' <=> Served(i)) /\ (SlaveClean(i)' <=> SlaveClean(i))
  BY <1>2 DEF Served, SlaveClean, ChipOf
<1>8. Alive(c) /\ Alive(c)'
  BY <1>3 DEF Alive
<1>9. ASSUME InStep(c), hpc # "gone"
      PROVE  Waiting(c)' /\ Answering(c)'
  <2>1. /\ Waiting(c) /\ slave[c].msg = Request /\ cmd[c] = <<>>
        /\ Len(echo'[c]) = 1 /\ echo'[c][1].to = Request /\ echo'[c][1].ok = slave[c].ok
    BY <1>9, AnswerGoes DEF Puts
  <2>2. AnswerTrue(c)'
    <3>1. hpc = "initwait" => slave[c].msg.type = "INIT" /\ slave[c].msg.of = k
      BY <2>1, RequestType
    <3>2. hpc = "stopwait" => slave[c].msg.type = "EXIT" /\ slave[c].msg.of = k
      BY <2>1, RequestType
    <3>3. hpc # "quitwait"
      BY <1>9, <2>1, RequestType
    <3>4. hpc = "initwait" /\ echo'[c][1].ok => Served(k)
      BY <1>1, <2>1, <3>1 DEF CommandInv
    <3>5. hpc = "stopwait" => SlaveClean(k)
      BY <1>1, <2>1, <3>2 DEF CommandInv
    <3> QED BY <1>7, <3>3, <3>4, <3>5, HostSame DEF AnswerTrue
  <2> QED BY <1>2, <1>3, <2>1, <2>2, HostSame DEF Answering
<1>10. Exchange(c)'
  BY <1>9, HostSame DEF Exchange
<1>11. ServedInv(c)'
  BY <1>1, <1>2, <1>7, <1>8, HostSame DEF ServedInv, Stopping
<1> QED BY <1>4, <1>5, <1>6, <1>10, <1>11, OneChip DEF ChipInv

LEMMA SlaveEchoStep ==
  ASSUME CtlInv, NEW c \in Chip, SlaveEcho(c)
  PROVE  CtlInv'
<1>1. slave[c].pc = "echo" /\ UNCHANGED <<host, settled, setup>>
  BY DEF SlaveEcho
<1>2. \/ hpc = "gone" /\ UNCHANGED echo /\ Reads(c)
      \/ hpc # "gone" /\ Puts(c) /\ slave[c].msg.type # "QUIT" /\ Reads(c)
      \/ hpc # "gone" /\ Puts(c) /\ slave[c].msg.type = "QUIT" /\ Dies(c)
      \/ UNCHANGED echo /\ Dies(c)
  BY Zenon DEF SlaveEcho, Puts, Reads
<1>3. CASE hpc = "gone" /\ UNCHANGED echo /\ Reads(c)
  <2>1. SlaveTypes /\ Exchange(c)
    BY SlaveTypesOf DEF CtlInv, ChipInv
  <2>2. echo[c] = <<>>
    BY <1>3, <2>1 DEF Exchange
  <2> QED BY <1>1, <1>3, <2>1, <2>2, ReadsAgain DEF SlaveTypes
<1>4. CASE hpc # "gone" /\ Puts(c) /\ slave[c].msg.type # "QUIT" /\ Reads(c)
  <2>1. echo' \in [Chip -> Seq(Echo)] /\ \A d \in Chip : d # c => echo'[d] = echo[d]
    BY <1>1, <1>4, AnswerGoes DEF Puts
  <2> QED BY <1>1, <1>4, <2>1, ReadsAgain
<1>5. CASE hpc # "gone" /\ Puts(c) /\ slave[c].msg.type = "QUIT" /\ Dies(c)
  BY <1>1, <1>5, QuitAnswer
<1>6. CASE UNCHANGED echo /\ Dies(c)
  BY <1>1, <1>6, SuddenDeath
<1> QED BY <1>2, <1>3, <1>4, <1>5, <1>6

-----------------------------------------------------------------------------
(* The host: what its steps leave alone. *)

HostTypes ==
  /\ hpc \in {"menu", "init", "initwait", "run", "stop", "join", "stopwait",
              "quit", "quitwait", "exit", "gone"}
  /\ k \in Chan /\ ret \in {"unset", "ok", "fail"} /\ signo \in BOOLEAN
  /\ cur_port \in 1..(MaxPort + 1)
  /\ hfd \in [Chip -> SUBSET Port] /\ hthr \in [Chan -> Thread]

LEMMA HostTypesOf == TypeOK => HostTypes
BY DEF TypeOK, HostTypes

LEMMA TypesAfterHost ==
  ASSUME TypeOK, UNCHANGED <<slaves, setup>>, settled' \subseteq settled \cup Chip, HostTypes',
         cmd' \in [Chip -> Seq(Command)], echo' \in [Chip -> Seq(Echo)]
  PROVE  TypeOK'
<1>1. Chip' = Chip /\ Chan' = Chan /\ Command' = Command
  BY SameSetup
<1>2. echo' \in [Chip -> Seq([to : Command, ok : BOOLEAN])]
  BY DEF Echo
<1> QED BY <1>1, <1>2 DEF TypeOK, HostTypes, slaves, setup

LEMMA SlavesAlike ==
  ASSUME UNCHANGED <<slaves, setup>>
  PROVE  /\ UNCHANGED <<slave, sfd, sthr>>
         /\ Chan' = Chan /\ Chip' = Chip /\ Reliable' = Reliable /\ faults' = faults
         /\ \A c, m : Addressed(c, m)' <=> Addressed(c, m)
         /\ \A c : Alive(c)' <=> Alive(c)
         /\ \A i : Served(i)' <=> Served(i)
         /\ \A i : SlaveClean(i)' <=> SlaveClean(i)
<1>1. UNCHANGED <<slave, sfd, sthr>>
  BY DEF slaves
<1>2. Chan' = Chan /\ Chip' = Chip /\ Reliable' = Reliable /\ faults' = faults
  BY SameSetup
<1> QED BY <1>1, <1>2 DEF Addressed, Alive, Served, SlaveClean, ChipOf

LEMMA SlavesSame ==
  ASSUME UNCHANGED <<slaves, settled, setup>>
  PROVE  /\ UNCHANGED <<slave, sfd, sthr>>
         /\ Chan' = Chan /\ Chip' = Chip /\ faults' = faults
         /\ \A c : InStep(c)' <=> InStep(c)
         /\ \A c, m : Addressed(c, m)' <=> Addressed(c, m)
         /\ \A c : Alive(c)' <=> Alive(c)
         /\ \A i : Served(i)' <=> Served(i)
         /\ \A i : SlaveClean(i)' <=> SlaveClean(i)
<1>1. UNCHANGED <<slaves, setup>> /\ settled' = settled
  OBVIOUS
<1> QED BY <1>1, SlavesAlike DEF InStep

LEMMA HostStep ==
  ASSUME CtlInv, UNCHANGED <<slaves, setup>>, TypeOK', HostInv',
         \A c \in Chip : MailInv(c)' /\ Exchange(c)' /\ ServedInv(c)'
  PROVE  CtlInv'
<1>1. Chip' = Chip
  BY SlavesAlike
<1>2. ASSUME NEW c \in Chip
      PROVE  SlaveInv(c)'
  <2>1. MailInv(c) /\ CommandInv(c) /\ ThreadInv(c) /\ PortInv(c)
    BY DEF CtlInv, ChipInv, SlaveInv
  <2>2. CommandInv(c)'
    BY <2>1, SlavesAlike DEF CommandInv
  <2>3. ThreadInv(c)' /\ PortInv(c)'
    BY <2>1, SlavesAlike DEF ThreadInv, PortInv
  <2> QED BY <2>2, <2>3 DEF SlaveInv
<1> QED BY <1>1, <1>2 DEF CtlInv, ChipInv

LEMMA MailAside ==
  ASSUME CtlInv, UNCHANGED <<slaves, setup>>, NEW c \in Chip, cmd'[c] = cmd[c]
  PROVE  MailInv(c)'
<1>1. MailInv(c)
  BY DEF CtlInv, ChipInv, SlaveInv
<1> QED BY <1>1, SlavesAlike DEF MailInv

Between == hpc \notin {"initwait", "stopwait", "quitwait", "gone"}

(* A step between two exchanges. *)
LEMMA QuietStep ==
  ASSUME CtlInv, UNCHANGED <<slaves, settled, setup>>, UNCHANGED <<cmd, echo>>,
         Between, Between', HostTypes', HostInv',
         \A c \in Chip : ServedInv(c)'
  PROVE  CtlInv'
<1>1. TypeOK /\ SlaveTypes
  BY SlaveTypesOf DEF CtlInv
<1>2. TypeOK'
  BY <1>1, TypesAfterHost DEF SlaveTypes
<1>3. ASSUME NEW c \in Chip
      PROVE  MailInv(c)' /\ Exchange(c)'
  <2>1. MailInv(c)'
    BY MailAside
  <2>2. Exchange(c)
    BY DEF CtlInv, ChipInv
  <2>3. ~Waiting(c) /\ ~Waiting(c)' /\ hpc # "gone" /\ hpc' # "gone"
    BY DEF Waiting, Between
  <2>4. Exchange(c)'
    BY <2>2, <2>3, SlavesSame DEF Exchange, Idle
  <2> QED BY <2>1, <2>4
<1> QED BY <1>2, <1>3, HostStep

(* A step during one. *)
LEMMA MeanwhileStep ==
  ASSUME CtlInv, UNCHANGED <<slaves, settled, setup>>, UNCHANGED <<cmd, echo>>,
         UNCHANGED <<hpc, k, cur_port>>, HostTypes', HostInv',
         \A c \in Chip : ServedInv(c)'
  PROVE  CtlInv'
<1>1. TypeOK /\ SlaveTypes
  BY SlaveTypesOf DEF CtlInv
<1>2. TypeOK'
  BY <1>1, TypesAfterHost DEF SlaveTypes
<1>3. ASSUME NEW c \in Chip
      PROVE  MailInv(c)' /\ Exchange(c)'
  <2>1. MailInv(c)'
    BY MailAside
  <2>2. Exchange(c)
    BY DEF CtlInv, ChipInv
  <2>3. (Waiting(c)' <=> Waiting(c)) /\ Request' = Request /\ (AnswerTrue(c)' <=> AnswerTrue(c))
    BY SlavesSame DEF Waiting, Request, AnswerTrue
  <2>4. Exchange(c)'
    BY <2>2, <2>3, SlavesSame DEF Exchange, Idle, Sending, Serving, Answering, Lost
  <2> QED BY <2>1, <2>4
<1> QED BY <1>2, <1>3, HostStep

(* A command is sent. *)
LEMMA SentMail ==
  ASSUME SlaveTypes, NEW c \in Chip, NEW m \in Command, Sent(c, m)
  PROVE  /\ cmd' \in [Chip -> Seq(Command)] /\ \A d \in Chip : d # c => cmd'[d] = cmd[d]
         /\ \/ Alive(c) /\ cmd'[c] = Append(cmd[c], m)
            \/ ~Alive(c) /\ cmd'[c] = cmd[c]
<1>1. cmd \in [Chip -> Seq(Command)] /\ cmd[c] \in Seq(Command)
  BY DEF SlaveTypes
<1>2. Append(cmd[c], m) \in Seq(Command)
  BY <1>1, OneMore
<1>3. CASE Alive(c) /\ cmd' = [cmd EXCEPT ![c] = Append(cmd[c], m)]
  BY <1>1, <1>2, <1>3
<1>4. CASE ~Alive(c) /\ UNCHANGED cmd
  BY <1>1, <1>4
<1> QED BY <1>3, <1>4, Zenon DEF Sent

LEMMA SentStep ==
  ASSUME CtlInv, UNCHANGED <<slaves, settled, setup>>, UNCHANGED echo, Between, NEW c \in Chip,
         NEW m \in Command, Sent(c, m), Request' = m, Addressed(c, m),
         hpc' \in {"initwait", "stopwait", "quitwait"},
         \A d \in Chip : Waiting(d)' <=> d = c,
         HostTypes', HostInv', \A d \in Chip : ServedInv(d)'
  PROVE  CtlInv'
<1>1. TypeOK /\ SlaveTypes
  BY SlaveTypesOf DEF CtlInv
<1>2. /\ cmd' \in [Chip -> Seq(Command)] /\ \A d \in Chip : d # c => cmd'[d] = cmd[d]
      /\ \/ Alive(c) /\ cmd'[c] = Append(cmd[c], m)
         \/ ~Alive(c) /\ cmd'[c] = cmd[c]
  BY <1>1, SentMail
<1>3. TypeOK'
  BY <1>1, <1>2, TypesAfterHost DEF SlaveTypes
<1>4. ASSUME NEW d \in Chip, d # c
      PROVE  MailInv(d)' /\ Exchange(d)'
  <2>1. MailInv(d)'
    BY <1>2, <1>4, MailAside
  <2>2. Exchange(d) /\ ~Waiting(d) /\ hpc # "gone"
    BY DEF CtlInv, ChipInv, Waiting, Between
  <2>3. Exchange(d)'
    BY <1>2, <1>4, <2>2, SlavesSame DEF Exchange, Idle
  <2> QED BY <2>1, <2>3
<1>5. MailInv(c) /\ Exchange(c) /\ ~Waiting(c) /\ hpc # "gone"
  BY DEF CtlInv, ChipInv, SlaveInv, Waiting, Between
<1>6. \A s \in Seq(Command) : /\ \A n \in DOMAIN Append(s, m) :
                                   (n \in DOMAIN s /\ Append(s, m)[n] = s[n]) \/ Append(s, m)[n] = m
                              /\ s = <<>> => One(Append(s, m), m)
  BY DEF One
<1>7. MailInv(c)'
  <2>1. cmd[c] \in Seq(Command)
    BY <1>1 DEF SlaveTypes
  <2>2. \A n \in DOMAIN cmd'[c] : Addressed(c, cmd'[c][n])
    BY <1>2, <1>5, <1>6, <2>1 DEF MailInv
  <2> QED BY <1>2, <1>5, <2>2, SlavesSame DEF MailInv, Alive
<1>8. Exchange(c)'
  <2>1. ASSUME InStep(c)
        PROVE  Sending(c)' \/ Lost(c)'
    <3>1. Idle(c) /\ cmd[c] \in Seq(Command)
      BY <1>1, <1>5, <2>1 DEF Exchange, SlaveTypes
    <3>2. CASE Alive(c) /\ cmd'[c] = Append(cmd[c], m)
      <4>1. One(cmd'[c], m)
        BY <1>6, <3>1, <3>2 DEF Idle
      <4> QED BY <3>1, <3>2, <4>1, SlavesSame DEF Idle, Sending, Alive, One
    <3>3. CASE ~Alive(c) /\ cmd'[c] = cmd[c]
      BY <3>1, <3>3, SlavesSame DEF Idle, Lost, Alive
    <3> QED BY <1>2, <3>2, <3>3
  <2> QED BY <2>1, SlavesSame DEF Exchange
<1> QED BY <1>3, <1>4, <1>7, <1>8, HostStep

(* An answer is read, or the wait for it given up. *)
Concluded(c) == Answered(c) \/ (TimesOut(c) /\ UNCHANGED echo)

LEMMA ReadMail ==
  ASSUME SlaveTypes, NEW c \in Chip, Concluded(c)
  PROVE  /\ echo' \in [Chip -> Seq(Echo)] /\ \A d \in Chip : d # c => echo'[d] = echo[d]
         /\ \/ echo[c] # <<>> /\ echo'[c] = Tail(echo[c])
            \/ echo[c] = <<>> /\ echo'[c] = echo[c] /\ ("late" \in faults \/ NoAnswerComes(c))
<1>1. echo \in [Chip -> Seq(Echo)] /\ echo[c] \in Seq(Echo)
  BY DEF SlaveTypes
<1>2. echo[c] # <<>> => Tail(echo[c]) \in Seq(Echo)
  BY <1>1
<1>3. CASE echo[c] # <<>> /\ echo' = [echo EXCEPT ![c] = Tail(echo[c])]
  BY <1>1, <1>2, <1>3
<1>4. CASE echo[c] = <<>> /\ UNCHANGED echo /\ ("late" \in faults \/ NoAnswerComes(c))
  BY <1>1, <1>4
<1> QED BY <1>3, <1>4, Zenon DEF Concluded, Answered, TimesOut

(* ... what is known then. *)
LEMMA AnswerRead ==
  ASSUME CtlInv, NEW c \in Chip, Waiting(c), InStep(c), Concluded(c)
  PROVE  /\ hpc # "gone" /\ cmd[c] = <<>> /\ slave[c].pc \in {"read", "gone"} /\ echo'[c] = <<>>
         /\ \/ Answering(c) /\ echo[c] # <<>>
            \/ ~Alive(c) /\ echo[c] = <<>>
<1>1. SlaveTypes /\ Exchange(c) /\ MailInv(c)
  BY SlaveTypesOf DEF CtlInv, ChipInv, SlaveInv
<1>2. hpc # "gone"
  BY DEF Waiting
<1>3. \/ echo[c] # <<>> /\ echo'[c] = Tail(echo[c])
      \/ echo[c] = <<>> /\ echo'[c] = echo[c] /\ NoAnswerComes(c)
  BY <1>1, ReadMail DEF InStep, Reliable
<1>4. echo[c] \in Seq(Echo) /\ cmd[c] \in Seq(Command)
  BY <1>1 DEF SlaveTypes
<1>5. Len(echo[c]) = 1 => echo[c] # <<>> /\ Tail(echo[c]) = <<>>
  <2>1. \A s \in Seq(Echo) : s # <<>> => Tail(s) \in Seq(Echo) /\ Len(Tail(s)) = Len(s) - 1
    OBVIOUS
  <2>a. \A s \in Seq(Echo) : Len(s) = 1 => s # <<>>
    <3>1. Len(<<>>) # 1
      OBVIOUS
    <3> QED BY <3>1, Zenon
  <2>2. \A s \in Seq(Echo) : Len(s) = 0 => s = <<>>
    OBVIOUS
  <2>3. \A s \in Seq(Echo) : Len(s) = 1 => s # <<>> /\ Tail(s) = <<>>
    <3> SUFFICES ASSUME NEW s \in Seq(Echo), Len(s) = 1
                 PROVE  s # <<>> /\ Tail(s) = <<>>
      OBVIOUS
    <3>1. s # <<>>
      BY <2>a
    <3>2. Tail(s) \in Seq(Echo) /\ Len(Tail(s)) = 0
      BY <2>1, <3>1
    <3> QED BY <2>2, <3>1, <3>2
  <2> QED BY <1>4, <2>3
<1>6. CASE Answering(c)
  BY <1>2, <1>3, <1>5, <1>6 DEF Answering
<1>7. CASE Sending(c)
  <2>1. cmd[c] # <<>>
    BY <1>4, <1>7 DEF Sending, One
  <2> QED BY <1>3, <1>7, <2>1 DEF Sending, NoAnswerComes, Alive
<1>8. CASE Serving(c)
  BY <1>3, <1>8 DEF Serving, NoAnswerComes, Alive
<1>9. CASE Lost(c)
  BY <1>2, <1>3, <1>9 DEF Lost, Alive
<1> QED BY <1>1, <1>2, <1>6, <1>7, <1>8, <1>9 DEF Exchange

LEMMA AnsweredStep ==
  ASSUME CtlInv, UNCHANGED <<slaves, settled, setup>>, UNCHANGED cmd, Between', NEW c \in Chip,
         Concluded(c), \A d \in Chip : Waiting(d) <=> d = c,
         HostTypes', HostInv', \A d \in Chip : ServedInv(d)'
  PROVE  CtlInv'
<1>1. TypeOK /\ SlaveTypes /\ hpc # "gone"
  BY SlaveTypesOf DEF CtlInv, Waiting
<1>2. echo' \in [Chip -> Seq(Echo)] /\ \A d \in Chip : d # c => echo'[d] = echo[d]
  BY <1>1, ReadMail
<1>3. TypeOK'
  BY <1>1, <1>2, TypesAfterHost DEF SlaveTypes
<1>4. ASSUME NEW d \in Chip
      PROVE  MailInv(d)' /\ Exchange(d)'
  <2>1. MailInv(d)'
    BY MailAside
  <2>2. ~Waiting(d)' /\ hpc' # "gone"
    BY DEF Waiting, Between
  <2>3. CASE d = c
    <3>1. InStep(c) => cmd[c] = <<>> /\ slave[c].pc \in {"read", "gone"} /\ echo'[c] = <<>>
      BY AnswerRead
    <3> QED BY <2>1, <2>2, <2>3, <3>1, SlavesSame DEF Exchange, Idle
  <2>4. CASE d # c
    <3>1. Exchange(d) /\ ~Waiting(d)
      BY <2>4 DEF CtlInv, ChipInv
    <3> QED BY <1>1, <1>2, <2>1, <2>2, <2>4, <3>1, SlavesSame DEF Exchange, Idle
  <2> QED BY <2>3, <2>4
<1> QED BY <1>3, <1>4, HostStep

-----------------------------------------------------------------------------
(* The steps of the host that no slave sees. *)

LEMMA Parts ==
  ASSUME CtlInv
  PROVE  /\ TypeOK /\ HostTypes /\ HostInv /\ Sized
         /\ \A c \in Chip : ServedInv(c) /\ Exchange(c)
         /\ Chan \subseteq Nat \ {0} /\ 1 \in Chan /\ 1 \in Chip
BY HostTypesOf, SizedByType, Numbers DEF CtlInv, ChipInv

LEMMA StartStep == CtlInv /\ StartCoprocessor => CtlInv'
<1> SUFFICES ASSUME CtlInv, StartCoprocessor
             PROVE  CtlInv'
  OBVIOUS
<1>1. /\ hpc = "menu" /\ cur_port' = 1
      /\ \/ hpc' = "init" /\ k' = 1 /\ ret' = ret
         \/ hpc' = "exit" /\ ret' = "fail" /\ k' = k
      /\ UNCHANGED <<signo, hfd, hthr>> /\ UNCHANGED <<slaves, settled, setup>> /\ UNCHANGED <<cmd, echo>>
  BY DEF StartCoprocessor, FreeAllPorts
<1>2. HostTypes'
  BY <1>1, Parts, SlavesSame, MaxPortAssumption DEF HostTypes
<1>3. HostInv'
  BY <1>1, Parts, SlavesSame DEF HostInv, Stopping
<1>4. ASSUME NEW c \in Chip
      PROVE  ServedInv(c)'
  BY <1>1, Parts, SlavesSame DEF ServedInv, Stopping
<1>5. Between /\ Between'
  BY <1>1 DEF Between
<1> QED BY <1>1, <1>2, <1>3, <1>4, <1>5, QuietStep

LEMMA KeyPressedStep == CtlInv /\ KeyPressed => CtlInv'
<1> SUFFICES ASSUME CtlInv, KeyPressed
             PROVE  CtlInv'
  OBVIOUS
<1>1. /\ hpc = "run" /\ hpc' = "stop" /\ k' = 1 /\ UNCHANGED <<ret, signo, cur_port, hfd, hthr>>
      /\ UNCHANGED <<slaves, settled, setup>> /\ UNCHANGED <<cmd, echo>>
  BY DEF KeyPressed
<1>2. HostTypes'
  BY <1>1, Parts, SlavesSame DEF HostTypes
<1>3. HostInv'
  BY <1>1, Parts, SlavesSame DEF HostInv, Stopping
<1>4. ASSUME NEW c \in Chip
      PROVE  ServedInv(c)'
  <2>1. \A i \in Chan : ~(i < 1)
    BY Parts
  <2>2. ServedInv(c) /\ (InStep(c)' <=> InStep(c))
    BY <1>1, Parts, SlavesSame
  <2>3. hpc' = "stop" /\ k' = 1 /\ hthr' = hthr
    BY <1>1
  <2> QED BY <1>1, <2>1, <2>2, <2>3, SlavesSame DEF ServedInv, Stopping
<1>5. Between /\ Between'
  BY <1>1 DEF Between
<1> QED BY <1>1, <1>2, <1>3, <1>4, <1>5, QuietStep

LEMMA QuitKeyStep == CtlInv /\ QuitKey => CtlInv'
<1> SUFFICES ASSUME CtlInv, QuitKey
             PROVE  CtlInv'
  OBVIOUS
<1>1. /\ hpc = "menu" /\ hpc' = "quit" /\ k' = 1 /\ ret' = "ok"
      /\ UNCHANGED <<signo, cur_port, hfd, hthr>>
      /\ UNCHANGED <<slaves, settled, setup>> /\ UNCHANGED <<cmd, echo>>
  BY DEF QuitKey
<1>2. HostTypes'
  BY <1>1, Parts, SlavesSame DEF HostTypes
<1>3. HostInv'
  BY <1>1, Parts, SlavesSame DEF HostInv, Stopping
<1>4. ASSUME NEW c \in Chip
      PROVE  ServedInv(c)'
  <2>1. ~(c < 1)
    BY Parts, Numbers
  <2> QED BY <1>1, <2>1, Parts, SlavesSame DEF ServedInv, Stopping
<1>5. Between /\ Between'
  BY <1>1 DEF Between
<1> QED BY <1>1, <1>2, <1>3, <1>4, <1>5, QuietStep

(* InvalidKey and LeaveLoop. *)
LEMMA LeaveStep == CtlInv /\ (InvalidKey \/ LeaveLoop) => CtlInv'
<1> SUFFICES ASSUME CtlInv, InvalidKey \/ LeaveLoop
             PROVE  CtlInv'
  OBVIOUS
<1>1. /\ hpc = "menu" /\ hpc' = "exit" /\ (ret = "unset" \/ ~signo)
      /\ UNCHANGED <<k, ret, signo, cur_port, hfd, hthr>>
      /\ UNCHANGED <<slaves, settled, setup>> /\ UNCHANGED <<cmd, echo>>
  BY DEF InvalidKey, LeaveLoop
<1>2. HostTypes'
  BY <1>1, Parts, SlavesSame DEF HostTypes
<1>3. HostInv'
  BY <1>1, Parts, SlavesSame DEF HostInv, Stopping
<1>4. ASSUME NEW c \in Chip
      PROVE  ServedInv(c)'
  BY <1>1, Parts, SlavesSame DEF ServedInv, Stopping
<1>5. Between /\ Between'
  BY <1>1 DEF Between
<1> QED BY <1>1, <1>2, <1>3, <1>4, <1>5, QuietStep

LEMMA SignalStep == CtlInv /\ Signal => CtlInv'
<1> SUFFICES ASSUME CtlInv, Signal
             PROVE  CtlInv'
  OBVIOUS
<1>1. /\ hpc # "exit" /\ signo' = FALSE /\ UNCHANGED <<hpc, k, ret, cur_port, hfd, hthr>>
      /\ UNCHANGED <<hpc, k, cur_port>>
      /\ UNCHANGED <<slaves, settled, setup>> /\ UNCHANGED <<cmd, echo>>
  BY DEF Signal
<1>2. HostTypes'
  BY <1>1, Parts, SlavesSame DEF HostTypes
<1>3. HostInv'
  BY <1>1, Parts, SlavesSame DEF HostInv, Stopping
<1>4. ASSUME NEW c \in Chip
      PROVE  ServedInv(c)'
  BY <1>1, Parts, SlavesSame DEF ServedInv, Stopping
<1> QED BY <1>1, <1>2, <1>3, <1>4, MeanwhileStep

LEMMA HostThreadStep ==
  ASSUME CtlInv, NEW i \in Chan, HostThreadEnds(i)
  PROVE  CtlInv'
<1>1. /\ hthr[i].st = "run" /\ hthr' = [hthr EXCEPT ![i].st = "ended"]
      /\ UNCHANGED <<hpc, k, ret, signo, cur_port, hfd>> /\ UNCHANGED <<hpc, k, cur_port>>
      /\ UNCHANGED <<slaves, settled, setup>> /\ UNCHANGED <<cmd, echo>>
  BY Zenon DEF HostThreadEnds
<1>2. /\ hthr' \in [Chan -> Thread]
      /\ \A j \in Chan : /\ hthr'[j].is_start = hthr[j].is_start /\ hthr'[j].port = hthr[j].port
                         /\ hthr'[j].st = "none" <=> hthr[j].st = "none"
                         /\ hthr'[j].st = "run" => hthr[j].st = "run"
  <2>1. hthr \in [Chan -> Thread] /\ "ended" \in {"none", "run", "ended"}
    BY Parts DEF HostTypes
  <2>2. hthr' = [hthr EXCEPT ![i].st = "ended"]
    BY <1>1, Zenon
  <2>3. /\ hthr' \in [Chan -> Thread] /\ hthr'[i].st = "ended"
        /\ hthr'[i].is_start = hthr[i].is_start /\ hthr'[i].port = hthr[i].port
        /\ \A j \in Chan : j # i => hthr'[j] = hthr[j]
    BY <2>1, <2>2, MarkSt
  <2> QED BY <1>1, <2>3
<1>3. UNCHANGED <<hpc, k, ret, signo, cur_port, hfd>> /\ UNCHANGED <<slaves, settled, setup>>
  BY <1>1, Zenon
<1>4. HostTypes'
  BY <1>2, <1>3, Parts, SlavesSame DEF HostTypes
<1>5. HostInv'
  <2>1. HostInv /\ HostTypes /\ \A c \in Chip : \A p \in hfd[c] : p \in Chan
    BY Parts DEF HostInv
  <2> QED BY <1>2, <1>3, <2>1, SlavesSame DEF HostInv, HostTypes, Stopping
<1>6. ASSUME NEW c \in Chip
      PROVE  ServedInv(c)'
  BY <1>2, <1>3, Parts, SlavesSame DEF ServedInv, Stopping
<1>7. UNCHANGED <<cmd, echo>> /\ UNCHANGED <<hpc, k, cur_port>>
  BY <1>1, Zenon
<1> QED BY <1>3, <1>4, <1>5, <1>6, <1>7, MeanwhileStep

LEMMA StopThreadStep == CtlInv /\ StopThread => CtlInv'
<1> SUFFICES ASSUME CtlInv, StopThread
             PROVE  CtlInv'
  OBVIOUS
<1>1. /\ hpc = "stop" /\ hthr[k].is_start /\ hpc' = "join"
      /\ UNCHANGED <<k, ret, signo, cur_port, hfd>>
      /\ UNCHANGED <<slaves, settled, setup>> /\ UNCHANGED <<cmd, echo>>
  BY Zenon DEF StopThread
<1>2. /\ hthr' \in [Chan -> Thread] /\ hthr'[k].is_start = FALSE
      /\ \A j \in Chan : /\ hthr'[j].st = hthr[j].st /\ hthr'[j].port = hthr[j].port
                         /\ j # k => hthr'[j].is_start = hthr[j].is_start
  <2>1. hthr \in [Chan -> Thread] /\ k \in Chan
    BY Parts DEF HostTypes
  <2>b. PICK b \in BOOLEAN : b = FALSE
    OBVIOUS
  <2>2. hthr' = [hthr EXCEPT ![k].is_start = b]
    BY <2>b, Zenon DEF StopThread
  <2>3. /\ hthr' \in [Chan -> Thread] /\ hthr'[k].is_start = b
        /\ hthr'[k].st = hthr[k].st /\ hthr'[k].port = hthr[k].port
        /\ \A j \in Chan : j # k => hthr'[j] = hthr[j]
    BY <2>1, <2>2, MarkStart
  <2> QED BY <2>b, <2>3
<1>3. HostTypes'
  BY <1>1, <1>2, Parts, SlavesSame DEF HostTypes
<1>4. HostInv'
  <2>1. HostInv /\ k \in Chan /\ \A c \in Chip : \A p \in hfd[c] : p \in Chan
    BY Parts DEF HostInv, HostTypes
  <2> QED BY <1>1, <1>2, <2>1, SlavesSame DEF HostInv, Stopping
<1>5. ASSUME NEW c \in Chip
      PROVE  ServedInv(c)'
  BY <1>1, <1>2, Parts, SlavesSame DEF ServedInv, Stopping
<1>6. Between /\ Between'
  BY <1>1 DEF Between
<1> QED BY <1>1, <1>3, <1>4, <1>5, <1>6, QuietStep

LEMMA HostGoneStep == CtlInv /\ HostGone => CtlInv'
<1> SUFFICES ASSUME CtlInv, HostGone
             PROVE  CtlInv'
  OBVIOUS
<1>1. /\ hpc' = "gone" /\ k' = 1 /\ UNCHANGED <<ret, signo, cur_port>>
      /\ hfd' = [c \in Chip |-> {}] /\ hthr' = [i \in Chan |-> NoThread]
      /\ echo' = [c \in Chip |-> <<>>] /\ settled' = {}
      /\ UNCHANGED <<slaves, setup>> /\ UNCHANGED cmd
  BY Zenon DEF HostGone
<1>2. NoThread \in Thread /\ NoThread.st = "none" /\ NoThread.port = NoPort /\ NoThread.is_start = FALSE
  BY DEF NoThread, Thread
<1>3. HostTypes'
  BY <1>1, <1>2, Parts, SlavesAlike DEF HostTypes
<1>4. HostInv'
  BY <1>1, <1>2, SlavesAlike DEF HostInv, Stopping
<1>5. ASSUME NEW c \in Chip
      PROVE  MailInv(c)' /\ Exchange(c)' /\ ServedInv(c)'
  BY <1>1, <1>2, MailAside, SlavesAlike DEF Exchange, ServedInv, InStep
<1>6. TypeOK'
  <2>1. echo' \in [Chip -> Seq(Echo)]
    BY <1>1
  <2>2. TypeOK /\ cmd' \in [Chip -> Seq(Command)]
    BY <1>1, Parts, SlaveTypesOf DEF SlaveTypes
  <2> QED BY <1>1, <1>3, <2>1, <2>2, TypesAfterHost
<1> QED BY <1>1, <1>4, <1>5, <1>6, HostStep

LEMMA HostRestartStep == CtlInv /\ HostRestart => CtlInv'
<1> SUFFICES ASSUME CtlInv, HostRestart
             PROVE  CtlInv'
  OBVIOUS
<1>1. /\ hpc = "gone" /\ settled' = {c \in Chip : IdleChip(c)}
      /\ hpc' = "menu" /\ ret' = "unset" /\ signo' = TRUE /\ cur_port' = 1
      /\ UNCHANGED <<k, hfd, hthr>> /\ UNCHANGED <<slaves, setup>> /\ UNCHANGED <<cmd, echo>>
  BY DEF HostRestart
<1>2. HostTypes'
  BY <1>1, Parts, SlavesAlike, MaxPortAssumption DEF HostTypes
<1>3. HostInv'
  BY <1>1, Parts, SlavesAlike DEF HostInv, Stopping
<1>4. ASSUME NEW c \in Chip
      PROVE  MailInv(c)' /\ Exchange(c)' /\ ServedInv(c)'
  <2>1. HostInv /\ Exchange(c)
    BY Parts
  <2>2. ~Waiting(c)'
    BY <1>1 DEF Waiting
  <2>3. Exchange(c)'
    BY <1>1, <2>1, <2>2, SlavesAlike DEF Exchange, Idle, InStep, IdleChip
  <2>4. ServedInv(c)'
    BY <1>1, <2>1, SlavesAlike DEF ServedInv, HostInv, Stopping
  <2> QED BY <1>1, <2>3, <2>4, MailAside
<1>5. TypeOK'
  BY <1>1, <1>2, Parts, TypesAfterHost DEF TypeOK, Echo
<1> QED BY <1>1, <1>3, <1>4, <1>5, HostStep

-----------------------------------------------------------------------------
(* The host sets a channel up. *)

Opened(c) ==
  /\ PortLeft /\ cur_port' = cur_port + 1
  /\ hfd' = [hfd EXCEPT ![c] = @ \cup {cur_port}]

LEMMA OpenedPort ==
  ASSUME CtlInv, hpc = "init", NEW c, c = ChipOf(k), Opened(c)
  PROVE  /\ c \in Chip /\ k \in Chan /\ cur_port = k /\ cur_port' = k + 1
         /\ k \in Port /\ cur_port' \in 1..(MaxPort + 1)
         /\ hfd' \in [Chip -> SUBSET Port] /\ hfd'[c] = hfd[c] \cup {k}
         /\ \A d \in Chip : d # c => hfd'[d] = hfd[d]
<1>1. HostTypes /\ k \in Chan /\ cur_port = k /\ c \in Chip
  BY Parts, Numbers DEF HostTypes, HostInv
<1>2. k \in Port /\ cur_port' = k + 1 /\ cur_port' \in 1..(MaxPort + 1)
  BY <1>1, Parts, MaxPortAssumption DEF Opened, PortLeft, Port
<1>3. hfd' = [hfd EXCEPT ![c] = hfd[c] \cup {k}] /\ hfd \in [Chip -> SUBSET Port]
  BY <1>1 DEF Opened, HostTypes
<1> QED BY <1>1, <1>2, <1>3

InitFails ==
  /\ hpc = "init" /\ GiveUp
  /\ \/ cur_port' \in 1..(MaxPort + 1) /\ UNCHANGED hfd
     \/ Opened(ChipOf(k))
  /\ UNCHANGED <<signo, hthr>> /\ UNCHANGED <<slaves, settled, setup>> /\ UNCHANGED <<cmd, echo>>

LEMMA InitFailsStep == CtlInv /\ InitFails => CtlInv'
<1> SUFFICES ASSUME CtlInv, InitFails
             PROVE  CtlInv'
  OBVIOUS
<1>1. /\ hpc = "init" /\ hpc' = "stop" /\ k' = 1 /\ ret' = "fail" /\ hthr' = hthr
      /\ UNCHANGED <<signo, hthr>> /\ UNCHANGED <<slaves, settled, setup>> /\ UNCHANGED <<cmd, echo>>
  BY DEF InitFails, GiveUp
<1>2. /\ cur_port' \in 1..(MaxPort + 1) /\ hfd' \in [Chip -> SUBSET Port]
      /\ \A c \in Chip : hfd[c] \subseteq hfd'[c]
      /\ \A c \in Chip : \A p \in hfd'[c] :
           p \in hfd[c] \/ (p \in Chan /\ ChipOf(p) = c /\ p = cur_port' - 1)
  <2>1. CASE cur_port' \in 1..(MaxPort + 1) /\ UNCHANGED hfd
    BY <2>1, Parts DEF HostTypes
  <2>2. CASE Opened(ChipOf(k))
    <3>1. cur_port' = k + 1 /\ k \in Chan /\ Chan \subseteq Nat
      BY <1>1, <2>2, OpenedPort, Parts, Numbers
    <3>2. k = cur_port' - 1
      BY <3>1
    <3> QED BY <1>1, <2>2, <3>1, <3>2, OpenedPort
  <2> QED BY <2>1, <2>2, Zenon DEF InitFails
<1>3. HostTypes'
  BY <1>1, <1>2, Parts, SlavesSame DEF HostTypes
<1>4. HostInv'
  <2>1. HostInv /\ Chan \subseteq Nat \ {0} /\ Chan' = Chan /\ Chip' = Chip
    BY <1>1, Parts, SlavesSame
  <2>2. \A i \in Chan : hthr[i].st # "none" =>
          hthr[i].is_start /\ hthr[i].port = i /\ i \in hfd'[ChipOf(i)]
    BY <1>1, <1>2, <2>1, Parts, Numbers DEF HostInv
  <2>3. \A c \in Chip : \A p \in hfd'[c] :
          p \in Chan /\ ChipOf(p) = c /\ (hthr[p].port = p \/ p = cur_port' - 1)
    <3>1. ret # "fail"
      BY <1>1, <2>1 DEF HostInv, Stopping
    <3>2. \A c \in Chip : \A p \in hfd[c] :
            p \in Chan /\ ChipOf(p) = c /\ hthr[p].port = p
      BY <1>1, <2>1, <3>1 DEF HostInv
    <3> QED BY <1>2, <3>2
  <2> QED BY <1>1, <2>1, <2>2, <2>3 DEF HostInv, Stopping, ChipOf
<1>5. ASSUME NEW c \in Chip
      PROVE  ServedInv(c)'
  <2>1. ServedInv(c) /\ \A i \in Chan : ~(i < 1)
    BY Parts
  <2> QED BY <1>1, <2>1, SlavesSame DEF ServedInv, Stopping
<1>6. Between /\ Between'
  BY <1>1 DEF Between
<1> QED BY <1>1, <1>3, <1>4, <1>5, <1>6, QuietStep

InitSent ==
  /\ hpc = "init" /\ hpc' = "initwait" /\ UNCHANGED <<k, ret>>
  /\ Opened(ChipOf(k)) /\ Sent(ChipOf(k), Cmd("INIT", k, cur_port))
  /\ UNCHANGED <<signo, hthr>> /\ UNCHANGED <<slaves, settled, setup>> /\ UNCHANGED echo

LEMMA InitSentStep == CtlInv /\ InitSent => CtlInv'
<1> SUFFICES ASSUME CtlInv, InitSent
             PROVE  CtlInv'
  OBVIOUS
<1> DEFINE c == ChipOf(k)
           m == Cmd("INIT", k, cur_port)
<1>1. /\ hpc = "init" /\ hpc' = "initwait" /\ k' = k /\ ret' = ret /\ hthr' = hthr
      /\ UNCHANGED signo /\ UNCHANGED <<slaves, settled, setup>> /\ UNCHANGED echo
  BY DEF InitSent
<1>2. /\ c \in Chip /\ k \in Chan /\ cur_port = k /\ cur_port' = k + 1
      /\ k \in Port /\ cur_port' \in 1..(MaxPort + 1)
      /\ hfd' \in [Chip -> SUBSET Port] /\ hfd'[c] = hfd[c] \cup {k}
      /\ \A d \in Chip : d # c => hfd'[d] = hfd[d]
  <2>1. Opened(c)
    BY Zenon DEF InitSent
  <2> QED BY <1>1, <2>1, OpenedPort
<1>3. Sent(c, m)
  BY Zenon DEF InitSent
<1>4. m \in Command /\ Addressed(c, m) /\ Request' = m
  <2>1. (k + 1) - 1 = k
    BY <1>2, Parts
  <2> QED BY <1>1, <1>2, <2>1 DEF Cmd, Command, Addressed, Request
<1>5. \A d \in Chip : Waiting(d)' <=> d = c
  BY <1>1 DEF Waiting, ChipOf
<1>c. c = ChipOf(k)
  OBVIOUS
<1> HIDE DEF c, m
<1>6. HostTypes'
  BY <1>1, <1>2, Parts, SlavesSame DEF HostTypes
<1>7. HostInv'
  <2>1. HostInv /\ Chan \subseteq Nat \ {0} /\ Chan' = Chan /\ Chip' = Chip
        /\ \A i \in Chan : ChipOf(i) \in Chip
    BY <1>1, Parts, SlavesSame, Numbers
  <2>2. \A i \in Chan : hthr[i].st # "none" =>
          hthr[i].is_start /\ hthr[i].port = i /\ i \in hfd'[ChipOf(i)]
    BY <1>1, <1>2, <2>1 DEF HostInv
  <2>3. \A d \in Chip : \A p \in hfd'[d] :
          p \in Chan /\ ChipOf(p) = d /\ (hthr[p].port = p \/ p = k)
    BY <1>1, <1>2, <1>c, <2>1 DEF HostInv, Stopping
  <2>4. ret # "fail" /\ k \in hfd'[ChipOf(k)]
    BY <1>1, <1>2, <1>c, <2>1 DEF HostInv, Stopping
  <2> QED BY <1>1, <1>2, <2>1, <2>2, <2>3, <2>4 DEF HostInv, Stopping, ChipOf
<1>8. ASSUME NEW d \in Chip
      PROVE  ServedInv(d)'
  <2>1. ServedInv(d)
    BY Parts
  <2> QED BY <1>1, <2>1, SlavesSame DEF ServedInv, Stopping
<1>9. Between
  BY <1>1 DEF Between
<1>10. hpc' \in {"initwait", "stopwait", "quitwait"}
  BY <1>1
<1> QED BY <1>1, <1>2, <1>3, <1>4, <1>5, <1>6, <1>7, <1>8, <1>9, <1>10, SentStep

LEMMA InitChannelStep == CtlInv /\ InitChannel => CtlInv'
<1> SUFFICES ASSUME CtlInv, InitChannel
             PROVE  CtlInv'
  OBVIOUS
<1>1. cur_port \in 1..(MaxPort + 1) /\ MaxPort \in Nat
  BY Parts, MaxPortAssumption DEF HostTypes
<1>2. (IF PortLeft THEN cur_port + 1 ELSE cur_port) \in 1..(MaxPort + 1)
  BY <1>1 DEF PortLeft
<1>3. InitFails \/ InitSent
  <2> USE <1>2
  <2>1. CASE (~PortLeft \/ cur_port \in hfd[ChipOf(k)] \/ "open" \in faults)
             /\ cur_port' = (IF PortLeft THEN cur_port + 1 ELSE cur_port)
             /\ GiveUp /\ UNCHANGED <<hfd, cmd>>
    BY <2>1 DEF InitChannel, InitFails
  <2>2. CASE Opened(ChipOf(k)) /\ Sent(ChipOf(k), Cmd("INIT", k, cur_port))
             /\ hpc' = "initwait" /\ UNCHANGED <<k, ret>>
    BY <2>2, Zenon DEF InitChannel, InitSent
  <2>3. CASE Opened(ChipOf(k)) /\ SendFails(ChipOf(k)) /\ GiveUp
    BY <2>3 DEF InitChannel, InitFails, SendFails
  <2> QED BY <2>1, <2>2, <2>3, Zenon DEF InitChannel, Opened
<1> QED BY <1>3, InitFailsStep, InitSentStep

InitAccepted ==
  /\ hpc = "initwait" /\ Answered(ChipOf(k)) /\ Head(echo[ChipOf(k)]).ok
  /\ hthr' = [hthr EXCEPT ![k] = [is_start |-> TRUE, st |-> "run", port |-> cur_port - 1]]
  /\ IF k < chip_num * NChans
     THEN hpc' = "init" /\ k' = k + 1 /\ UNCHANGED ret
     ELSE hpc' = "run" /\ k' = 1 /\ ret' = "ok"
  /\ UNCHANGED <<signo, cur_port, hfd>> /\ UNCHANGED <<slaves, settled, setup>> /\ UNCHANGED cmd

LEMMA InitAcceptedStep == CtlInv /\ InitAccepted => CtlInv'
<1> SUFFICES ASSUME CtlInv, InitAccepted
             PROVE  CtlInv'
  OBVIOUS
<1> DEFINE c == ChipOf(k)
           t == [is_start |-> TRUE, st |-> "run", port |-> cur_port - 1]
<1>1. /\ hpc = "initwait" /\ Concluded(c) /\ Answered(c) /\ Head(echo[c]).ok
      /\ hthr' = [hthr EXCEPT ![k] = t]
      /\ UNCHANGED <<signo, cur_port, hfd>> /\ UNCHANGED <<slaves, settled, setup>> /\ UNCHANGED cmd
  BY Zenon DEF InitAccepted, Concluded
<1>2. HostInv /\ HostTypes /\ k \in Chan /\ c \in Chip /\ k \in Nat \ {0} /\ cur_port = k + 1
      /\ k \in hfd[c] /\ k \in Port
  <2>1. HostInv /\ HostTypes /\ k \in Chan /\ k \in Nat \ {0} /\ c \in Chip
    BY Parts, Numbers DEF HostTypes
  <2>2. cur_port = k + 1 /\ k \in hfd[c]
    BY <1>1, <2>1 DEF HostInv
  <2>3. hfd[c] \subseteq Port
    BY <2>1 DEF HostTypes
  <2> QED BY <2>1, <2>2, <2>3
<1>3. t \in Thread /\ t.is_start = TRUE /\ t.st = "run" /\ t.port = k
  <2>1. cur_port - 1 = k
    BY <1>2
  <2> QED BY <1>2, <2>1 DEF Thread
<1>c. c = ChipOf(k)
  OBVIOUS
<1> HIDE DEF c, t
<1>4. /\ hthr' \in [Chan -> Thread] /\ hthr'[k] = t /\ \A j \in Chan : j # k => hthr'[j] = hthr[j]
  BY <1>1, <1>2, <1>3 DEF HostTypes
<1>5. \/ hpc' = "init" /\ k' = k + 1 /\ k' \in Chan /\ ret' = ret
      \/ hpc' = "run" /\ k' = 1 /\ ret' = "ok"
  BY <1>2, Parts, Numbers DEF InitAccepted
<1>6. HostTypes'
  BY <1>1, <1>4, <1>5, Parts, SlavesSame DEF HostTypes
<1>7. HostInv'
  <2>1. Chan \subseteq Nat \ {0} /\ Chan' = Chan /\ Chip' = Chip /\ UNCHANGED <<cur_port, hfd>>
    BY <1>1, Parts, SlavesSame
  <2>2. \A i \in Chan : /\ hthr'[i].port \in {NoPort, i}
                        /\ hthr'[i].is_start => hthr'[i].st # "none"
                        /\ hthr'[i].st # "none" =>
                             hthr'[i].is_start /\ hthr'[i].port = i /\ i \in hfd[ChipOf(i)]
    <3> SUFFICES ASSUME NEW i \in Chan
                 PROVE  /\ hthr'[i].port \in {NoPort, i}
                        /\ hthr'[i].is_start => hthr'[i].st # "none"
                        /\ hthr'[i].st # "none" =>
                             hthr'[i].is_start /\ hthr'[i].port = i /\ i \in hfd[ChipOf(i)]
      OBVIOUS
    <3>1. CASE i = k
      BY <1>2, <1>3, <1>4, <1>c, <3>1
    <3>2. CASE i # k
      BY <1>1, <1>2, <1>4, <3>2 DEF HostInv
    <3> QED BY <3>1, <3>2
  <2>3. ret # "fail"
    BY <1>1, <1>2 DEF HostInv, Stopping
  <2>4. \A d \in Chip : \A p \in hfd[d] : p \in Chan /\ ChipOf(p) = d /\ hthr'[p].port = p
    BY <1>1, <1>2, <1>3, <1>4, <2>3 DEF HostInv
  <2> QED BY <1>2, <1>5, <2>1, <2>2, <2>3, <2>4 DEF HostInv, Stopping, ChipOf
<1>8. ASSUME NEW d \in Chip
      PROVE  ServedInv(d)'
  <2>1. ServedInv(d) /\ Waiting(c)
    BY <1>1, <1>c, Parts DEF Waiting
  <2>2. InStep(c) => Served(k) \/ ~Alive(c)
    <3>1. ASSUME InStep(c)
          PROVE  Answering(c) /\ echo[c] # <<>>
      BY <1>1, <1>2, <2>1, <3>1, AnswerRead DEF Answered
    <3>2. echo[c] \in Seq(Echo)
      BY <1>2, SlaveTypesOf DEF SlaveTypes, CtlInv
    <3>3. \A s \in Seq(Echo) : s # <<>> => Head(s) = s[1]
      OBVIOUS
    <3>4. InStep(c) => echo[c][1].ok
      BY <1>1, <3>1, <3>2, <3>3
    <3> QED BY <1>1, <3>1, <3>4 DEF Answering, AnswerTrue
  <2>3. ASSUME InStep(d), NEW i \in Chan, ChipOf(i) = d, hthr'[i].st = "run", Alive(d)
        PROVE  Served(i)
    <3>1. CASE i = k
      BY <1>c, <2>2, <2>3, <3>1
    <3>2. CASE i # k
      BY <1>4, <2>1, <2>3, <3>2 DEF ServedInv
    <3> QED BY <3>1, <3>2
  <2> QED BY <1>1, <1>5, <2>3, SlavesSame DEF ServedInv, Stopping
<1>9. Between' /\ \A d \in Chip : Waiting(d) <=> d = c
  BY <1>1, <1>5, <1>c DEF Between, Waiting
<1> QED BY <1>1, <1>2, <1>6, <1>7, <1>8, <1>9, AnsweredStep

InitRefused ==
  /\ hpc = "initwait" /\ Concluded(ChipOf(k)) /\ GiveUp
  /\ UNCHANGED <<signo, cur_port, hfd, hthr>> /\ UNCHANGED <<slaves, settled, setup>> /\ UNCHANGED cmd

LEMMA InitRefusedStep == CtlInv /\ InitRefused => CtlInv'
<1> SUFFICES ASSUME CtlInv, InitRefused
             PROVE  CtlInv'
  OBVIOUS
<1>1. /\ hpc = "initwait" /\ Concluded(ChipOf(k)) /\ hpc' = "stop" /\ k' = 1 /\ ret' = "fail"
      /\ UNCHANGED <<signo, cur_port, hfd, hthr>>
      /\ UNCHANGED <<slaves, settled, setup>> /\ UNCHANGED cmd
  BY DEF InitRefused, GiveUp
<1>2. HostTypes'
  BY <1>1, Parts, SlavesSame DEF HostTypes
<1>3. HostInv'
  BY <1>1, Parts, SlavesSame DEF HostInv, Stopping
<1>4. ASSUME NEW c \in Chip
      PROVE  ServedInv(c)'
  <2>1. ServedInv(c) /\ \A i \in Chan : ~(i < 1)
    BY Parts
  <2> QED BY <1>1, <2>1, SlavesSame DEF ServedInv, Stopping
<1>5. Between' /\ ChipOf(k) \in Chip /\ \A d \in Chip : Waiting(d) <=> d = ChipOf(k)
  BY <1>1, Parts, Numbers DEF Between, Waiting, HostTypes
<1> QED BY <1>1, <1>2, <1>3, <1>4, <1>5, AnsweredStep

LEMMA InitAnsweredStep == CtlInv /\ InitAnswered => CtlInv'
<1> SUFFICES ASSUME CtlInv, InitAnswered
             PROVE  CtlInv'
  OBVIOUS
<1>1. InitAccepted \/ InitRefused
  BY Zenon DEF InitAnswered, InitAccepted, InitRefused, Accepted, Concluded
<1> QED BY <1>1, InitAcceptedStep, InitRefusedStep

-----------------------------------------------------------------------------
(* The host takes a channel down. *)

Joined ==
  /\ hthr' \in [Chan -> Thread] /\ hthr'[k].st = "none" /\ hthr'[k].is_start = FALSE
  /\ hthr'[k].port = hthr[k].port
  /\ \A j \in Chan : j # k => hthr'[j] = hthr[j]

LEMMA ClosesStep ==
  ASSUME CtlInv, hpc \in {"stop", "join", "stopwait"}, CloseAndGoOn, Joined,
         UNCHANGED <<ret, signo, cur_port>>, UNCHANGED <<slaves, settled, setup>>,
         InStep(ChipOf(k)) => SlaveClean(k)
  PROVE  HostTypes' /\ HostInv' /\ Between' /\ \A c \in Chip : ServedInv(c)'
<1> DEFINE c == ChipOf(k)
<1>1. HostInv /\ HostTypes /\ k \in Chan /\ c \in Chip /\ Chan \subseteq Nat \ {0}
  BY Parts, Numbers DEF HostTypes
<1>2. \/ hpc' = "stop" /\ k' = k + 1 /\ k + 1 \in Chan
      \/ hpc' = "exit" /\ ret = "fail" /\ k' = 1 /\ \A j \in Chan : j <= k
      \/ hpc' = "menu" /\ ret # "fail" /\ k' = 1 /\ \A j \in Chan : j <= k
  BY <1>1, Parts, Numbers DEF CloseAndGoOn
<1>3. /\ hfd' \in [Chip -> SUBSET Port] /\ hfd'[c] = hfd[c] \ {hthr[k].port}
      /\ \A d \in Chip : d # c => hfd'[d] = hfd[d]
  <2>1. hfd' = [hfd EXCEPT ![c] = hfd[c] \ {hthr[k].port}] /\ hfd \in [Chip -> SUBSET Port]
    BY <1>1 DEF CloseAndGoOn, HostCloses, HostTypes
  <2> QED BY <1>1, <2>1
<1>c. c = ChipOf(k)
  OBVIOUS
<1> HIDE DEF c
<1>4. HostTypes'
  BY <1>1, <1>2, <1>3, Parts, SlavesSame DEF HostTypes, Joined
<1>5. ASSUME NEW i \in Chan
      PROVE  /\ hthr'[i].port \in {NoPort, i}
             /\ hthr'[i].is_start => hthr'[i].st # "none"
             /\ hthr'[i].st # "none" =>
                  hthr'[i].is_start /\ hthr'[i].port = i /\ i \in hfd'[ChipOf(i)]
             /\ i <= k => hthr'[i].st = "none" /\ hthr'[i].port \notin hfd'[ChipOf(i)]
  <2>1. CASE i = k
    BY <1>1, <1>3, <1>c, <2>1 DEF HostInv, Joined
  <2>2. CASE i # k
    <3>1. hthr'[i] = hthr[i] /\ ChipOf(i) \in Chip /\ i # NoPort
      BY <2>2, Parts, Numbers DEF Joined, NoPort
    <3>2. i # hthr[k].port
      BY <1>1, <2>2, <3>1 DEF HostInv
    <3>3. hfd'[ChipOf(i)] \subseteq hfd[ChipOf(i)]
          /\ (i \in hfd[ChipOf(i)] => i \in hfd'[ChipOf(i)])
      BY <1>3, <3>1, <3>2
    <3>4. hthr[i].st # "none" => hthr[i].is_start /\ hthr[i].port = i /\ i \in hfd[ChipOf(i)]
      BY <1>1, <2>2 DEF HostInv
    <3>5. i <= k => hthr[i].st = "none" /\ hthr[i].port \notin hfd[ChipOf(i)]
      <4>1. i <= k => i < k
        BY <1>1, <2>2
      <4> QED BY <1>1, <4>1 DEF HostInv, Stopping
    <3> QED BY <1>1, <3>1, <3>3, <3>4, <3>5 DEF HostInv
  <2> QED BY <2>1, <2>2
<1>6. \A d \in Chip : \A p \in hfd'[d] :
        /\ p \in Chan /\ ChipOf(p) = d
        /\ hthr'[p].port = p \/ (ret = "fail" /\ p = cur_port - 1)
  <2> SUFFICES ASSUME NEW d \in Chip, NEW p \in hfd'[d]
               PROVE  /\ p \in Chan /\ ChipOf(p) = d
                      /\ hthr'[p].port = p \/ (ret = "fail" /\ p = cur_port - 1)
    OBVIOUS
  <2>1. p \in hfd[d]
    BY <1>1, <1>3
  <2>2. /\ p \in Chan /\ ChipOf(p) = d
        /\ hthr[p].port = p \/ (ret = "fail" /\ p = cur_port - 1)
    BY <1>1, <2>1 DEF HostInv
  <2>3. hthr'[p].port = hthr[p].port
    BY <2>2 DEF Joined
  <2> QED BY <2>2, <2>3
<1>7. HostInv'
  <2>1. Chan' = Chan /\ Chip' = Chip
    BY SlavesSame
  <2>2. hpc' = "menu" => \A d \in Chip : hfd'[d] = {}
    BY <1>2, <1>5, <1>6
  <2>3. hpc' = "stop" => \A i \in Chan : i < k + 1 =>
          hthr'[i].st = "none" /\ hthr'[i].port \notin hfd'[ChipOf(i)]
    BY <1>1, <1>5
  <2>4. hpc' = "exit" => \A d \in Chip : \A p \in hfd'[d] : ret = "fail" /\ p = cur_port - 1
    BY <1>2, <1>5, <1>6
  <2> QED BY <1>2, <1>5, <1>6, <2>1, <2>2, <2>3, <2>4 DEF HostInv, Stopping, ChipOf
<1>8. ASSUME NEW d \in Chip
      PROVE  ServedInv(d)'
  <2>1. ServedInv(d) /\ PortInv(d)
    BY DEF CtlInv, ChipInv, SlaveInv
  <2>2. ASSUME InStep(d), NEW i \in Chan, ChipOf(i) = d, i <= k
        PROVE  SlaveClean(i)
    <3>1. i < k \/ i = k
      BY <1>1, <2>2
    <3> QED BY <2>1, <2>2, <3>1 DEF ServedInv, Stopping
  <2>3. InStep(d) /\ hpc' = "menu" => sfd[d] = {}
    BY <1>2, <2>1, <2>2 DEF PortInv, SlaveClean
  <2>4. InStep(d) => \A i \in Chan : ChipOf(i) = d /\ hthr'[i].st = "run" /\ Alive(d) => Served(i)
    BY <2>1 DEF ServedInv, Joined
  <2>5. InStep(d) /\ hpc' = "stop" => \A i \in Chan : ChipOf(i) = d /\ i < k + 1 => SlaveClean(i)
    BY <1>1, <2>2
  <2> QED BY <1>2, <2>3, <2>4, <2>5, SlavesSame DEF ServedInv, Stopping
<1>9. Between'
  BY <1>2 DEF Between
<1> QED BY <1>4, <1>7, <1>8, <1>9

LEMMA NotSent ==
  ASSUME CtlInv, Between, NEW c \in Chip, SendFails(c), InStep(c)
  PROVE  ~Alive(c)
<1>1. Exchange(c) /\ ~Waiting(c) /\ hpc # "gone"
  BY Parts DEF Between, Waiting
<1>2. cmd[c] = <<>>
  BY <1>1 DEF Exchange, Idle
<1>3. ~(Len(cmd[c]) >= QueueCap)
  BY <1>2, QueueCapAssumption
<1> QED BY <1>3 DEF SendFails, InStep, Reliable

LEMMA DeadIsClean ==
  ASSUME CtlInv, NEW i \in Chan, ~Alive(ChipOf(i))
  PROVE  SlaveClean(i)
<1>1. ChipOf(i) \in Chip
  BY Parts, Numbers
<1>2. ThreadInv(ChipOf(i)) /\ PortInv(ChipOf(i))
  BY <1>1 DEF CtlInv, ChipInv, SlaveInv
<1> QED BY <1>1, <1>2 DEF ThreadInv, PortInv, Alive, SlaveClean, NoThread

StopGives ==
  \/ hpc = "stop" /\ ~hthr[k].is_start /\ UNCHANGED hthr
  \/ /\ hpc = "join" /\ hthr[k].st # "run"
     /\ hthr' = [hthr EXCEPT ![k].st = "none"]

LEMMA StopJoins == CtlInv /\ StopGives => Joined
<1> SUFFICES ASSUME CtlInv, StopGives
             PROVE  Joined
  OBVIOUS
<1>1. HostInv /\ HostTypes /\ k \in Chan
  BY Parts DEF HostTypes
<1>2. CASE hpc = "stop" /\ ~hthr[k].is_start /\ UNCHANGED hthr
  <2>1. hthr[k].st = "none" /\ hthr[k].is_start \in BOOLEAN
    BY <1>1, <1>2 DEF HostInv, HostTypes, Thread
  <2>2. hthr[k].is_start = FALSE
    BY <1>2, <2>1, Zenon
  <2> QED BY <1>1, <1>2, <2>1, <2>2 DEF Joined, HostTypes
<1>3. CASE hpc = "join" /\ hthr' = [hthr EXCEPT ![k].st = "none"]
  <2>1. hthr \in [Chan -> Thread] /\ "none" \in {"none", "run", "ended"}
    BY <1>1 DEF HostTypes
  <2>2. hthr' = [hthr EXCEPT ![k].st = "none"]
    BY <1>3, Zenon
  <2>3. /\ hthr' \in [Chan -> Thread] /\ hthr'[k].st = "none"
        /\ hthr'[k].is_start = hthr[k].is_start /\ hthr'[k].port = hthr[k].port
        /\ \A j \in Chan : j # k => hthr'[j] = hthr[j]
    BY <1>1, <2>1, <2>2, MarkSt
  <2>4. ~hthr[k].is_start /\ hthr[k].is_start \in BOOLEAN
    BY <1>1, <1>3 DEF HostInv, HostTypes, Thread
  <2>5. hthr[k].is_start = FALSE
    BY <2>4, Zenon
  <2> QED BY <2>3, <2>5 DEF Joined
<1> QED BY <1>2, <1>3, Zenon DEF StopGives

StopSent ==
  /\ StopGives /\ Sent(ChipOf(k), Cmd("EXIT", k, NoPort)) /\ hpc' = "stopwait"
  /\ UNCHANGED <<k, hfd, ret, signo, cur_port>> /\ UNCHANGED <<slaves, settled, setup>> /\ UNCHANGED echo

LEMMA StopSentStep == CtlInv /\ StopSent => CtlInv'
<1> SUFFICES ASSUME CtlInv, StopSent
             PROVE  CtlInv'
  OBVIOUS
<1> DEFINE c == ChipOf(k)
           m == Cmd("EXIT", k, NoPort)
<1>1. /\ hpc \in {"stop", "join"} /\ hpc' = "stopwait" /\ Joined
      /\ UNCHANGED <<k, hfd, ret, signo, cur_port>> /\ UNCHANGED <<slaves, settled, setup>> /\ UNCHANGED echo
  BY StopJoins, Zenon DEF StopSent, StopGives
<1>2. HostInv /\ HostTypes /\ k \in Chan /\ c \in Chip
  BY Parts, Numbers DEF HostTypes
<1>3. Sent(c, m)
  BY Zenon DEF StopSent
<1>4. m \in Command /\ Addressed(c, m) /\ Request' = m
  BY <1>1, <1>2 DEF Cmd, Command, Addressed, Request
<1>5. \A d \in Chip : Waiting(d)' <=> d = c
  BY <1>1 DEF Waiting, ChipOf
<1> HIDE DEF c, m
<1>6. HostTypes'
  BY <1>1, <1>2, SlavesSame DEF HostTypes, Joined
<1>7. HostInv'
  <2>1. Chan' = Chan /\ Chip' = Chip /\ UNCHANGED <<k, hfd, ret>>
    BY <1>1, SlavesSame
  <2>2. \A i \in Chan : /\ hthr'[i].port = hthr[i].port
                        /\ hthr'[i].is_start => hthr'[i].st # "none"
                        /\ hthr'[i].st # "none" => hthr[i].st # "none" /\ hthr'[i].is_start
    BY <1>1, <1>2 DEF HostInv, Joined
  <2>3. hthr'[k].st = "none"
    BY <1>1 DEF Joined
  <2>4. \A d \in Chip : \A p \in hfd[d] : p \in Chan
    BY <1>2 DEF HostInv
  <2> QED BY <1>1, <1>2, <2>1, <2>2, <2>3, <2>4 DEF HostInv, Stopping
<1>8. ASSUME NEW d \in Chip
      PROVE  ServedInv(d)'
  <2>1. ServedInv(d) /\ \A i \in Chan : hthr'[i].st = "run" => hthr[i].st = "run"
    BY <1>1, Parts DEF Joined
  <2> QED BY <1>1, <2>1, SlavesSame DEF ServedInv, Stopping
<1>9. Between /\ hpc' \in {"initwait", "stopwait", "quitwait"}
  BY <1>1 DEF Between
<1> QED BY <1>1, <1>2, <1>3, <1>4, <1>5, <1>6, <1>7, <1>8, <1>9, SentStep

StopUnsent ==
  /\ StopGives /\ SendFails(ChipOf(k)) /\ CloseAndGoOn
  /\ UNCHANGED <<ret, signo, cur_port>> /\ UNCHANGED <<slaves, settled, setup>> /\ UNCHANGED echo

LEMMA StopUnsentStep == CtlInv /\ StopUnsent => CtlInv'
<1> SUFFICES ASSUME CtlInv, StopUnsent
             PROVE  CtlInv'
  OBVIOUS
<1>1. /\ hpc \in {"stop", "join"} /\ Joined /\ SendFails(ChipOf(k)) /\ CloseAndGoOn
      /\ UNCHANGED <<ret, signo, cur_port>> /\ UNCHANGED <<slaves, settled, setup>> /\ UNCHANGED echo
  BY StopJoins, Zenon DEF StopUnsent, StopGives
<1>2. k \in Chan /\ ChipOf(k) \in Chip
  BY Parts, Numbers DEF HostTypes
<1>3. Between
  BY <1>1 DEF Between
<1>4. InStep(ChipOf(k)) => SlaveClean(k)
  BY <1>1, <1>2, <1>3, NotSent, DeadIsClean
<1>5. hpc \in {"stop", "join", "stopwait"}
  BY <1>1
<1>6. HostTypes' /\ HostInv' /\ Between' /\ \A c \in Chip : ServedInv(c)'
  BY <1>1, <1>4, <1>5, ClosesStep
<1>7. UNCHANGED <<cmd, echo>>
  BY <1>1 DEF SendFails
<1> QED BY <1>1, <1>3, <1>6, <1>7, QuietStep

LEMMA StopChannelStep == CtlInv /\ StopChannel => CtlInv'
<1> SUFFICES ASSUME CtlInv, StopChannel
             PROVE  CtlInv'
  OBVIOUS
<1>1. StopSent \/ StopUnsent
  BY Zenon DEF StopChannel, StopSent, StopUnsent, StopGives, ExitId
<1> QED BY <1>1, StopSentStep, StopUnsentStep

LEMMA StopAnsweredStep == CtlInv /\ StopAnswered => CtlInv'
<1> SUFFICES ASSUME CtlInv, StopAnswered
             PROVE  CtlInv'
  OBVIOUS
<1> DEFINE c == ChipOf(k)
<1>1. /\ hpc = "stopwait" /\ Concluded(c) /\ CloseAndGoOn /\ UNCHANGED hthr
      /\ UNCHANGED <<ret, signo, cur_port>> /\ UNCHANGED <<slaves, settled, setup>> /\ UNCHANGED cmd
  BY Zenon DEF StopAnswered, Concluded
<1>2. HostInv /\ HostTypes /\ k \in Chan /\ c \in Chip
  BY Parts, Numbers DEF HostTypes
<1>3. Waiting(c) /\ \A d \in Chip : Waiting(d) <=> d = c
  BY <1>1 DEF Waiting
<1>4. InStep(c) => SlaveClean(k)
  <2>1. ASSUME InStep(c)
        PROVE  Answering(c) \/ ~Alive(c)
    BY <1>1, <1>2, <1>3, <2>1, AnswerRead
  <2> QED BY <1>1, <1>2, <2>1, DeadIsClean DEF Answering, AnswerTrue
<1>5. Joined
  <2>1. hthr[k].st = "none" /\ ~hthr[k].is_start /\ hthr[k].is_start \in BOOLEAN
    BY <1>1, <1>2 DEF HostInv, HostTypes, Thread
  <2>2. hthr[k].is_start = FALSE
    BY <2>1, Zenon
  <2> QED BY <1>1, <1>2, <2>1, <2>2 DEF Joined, HostTypes
<1>6. hpc \in {"stop", "join", "stopwait"}
  BY <1>1
<1>8. InStep(ChipOf(k)) => SlaveClean(k)
  BY <1>4
<1> HIDE DEF c
<1>7. HostTypes' /\ HostInv' /\ Between' /\ \A d \in Chip : ServedInv(d)'
  BY <1>1, <1>5, <1>6, <1>8, ClosesStep
<1> QED BY <1>1, <1>2, <1>3, <1>7, AnsweredStep

-----------------------------------------------------------------------------
(* The host tells the slaves to quit. *)

LEMMA ToNextChip ==
  ASSUME CtlInv, hpc \in {"quit", "quitwait"}, NextChip, UNCHANGED <<ret, signo, cur_port>>,
         UNCHANGED <<hfd, hthr>>, UNCHANGED <<slaves, settled, setup>>, InStep(k) => ~Alive(k)
  PROVE  HostTypes' /\ HostInv' /\ Between' /\ \A c \in Chip : ServedInv(c)'
<1>1. HostInv /\ HostTypes /\ k \in Chip /\ Chip \subseteq Nat /\ Chip \subseteq Chan
  BY Parts, Numbers DEF HostInv
<1>2. \/ hpc' = "quit" /\ k' = k + 1 /\ k + 1 \in Chip
      \/ hpc' = "exit" /\ k' = 1 /\ \A c \in Chip : c <= k
  BY <1>1, Parts, Numbers DEF NextChip
<1>3. UNCHANGED ret /\ UNCHANGED hfd /\ UNCHANGED hthr /\ Chan' = Chan /\ Chip' = Chip
  BY SlavesSame
<1>4. HostTypes'
  BY <1>1, <1>2, <1>3, Parts DEF HostTypes
<1>5. HostInv'
  <2>1. ret # "fail"
    BY <1>1 DEF HostInv, Stopping
  <2> QED BY <1>1, <1>2, <1>3, <2>1 DEF HostInv, Stopping
<1>6. ASSUME NEW c \in Chip
      PROVE  ServedInv(c)'
  <2>1. ServedInv(c)
    BY Parts
  <2>2. ASSUME InStep(c), c <= k
        PROVE  ~Alive(c)
    <3>1. c < k \/ c = k
      BY <1>1, <2>2
    <3> QED BY <2>1, <2>2, <3>1 DEF ServedInv
  <2>3. c < k + 1 => c <= k
    BY <1>1
  <2> QED BY <1>2, <1>3, <2>1, <2>2, <2>3, SlavesSame DEF ServedInv, Stopping
<1>7. Between'
  BY <1>2 DEF Between
<1> QED BY <1>4, <1>5, <1>6, <1>7

QuitSent ==
  /\ hpc = "quit" /\ Sent(k, Cmd("QUIT", k, NoPort)) /\ hpc' = "quitwait"
  /\ UNCHANGED <<k, ret, signo, cur_port, hfd, hthr>>
  /\ UNCHANGED <<slaves, settled, setup>> /\ UNCHANGED echo

LEMMA QuitSentStep == CtlInv /\ QuitSent => CtlInv'
<1> SUFFICES ASSUME CtlInv, QuitSent
             PROVE  CtlInv'
  OBVIOUS
<1> DEFINE m == Cmd("QUIT", k, NoPort)
<1>1. /\ hpc = "quit" /\ hpc' = "quitwait" /\ UNCHANGED <<k, ret, signo, cur_port, hfd, hthr>>
      /\ UNCHANGED <<slaves, settled, setup>> /\ UNCHANGED echo
  BY DEF QuitSent
<1>2. HostInv /\ HostTypes /\ k \in Chip
  BY <1>1, Parts DEF HostInv
<1>3. Sent(k, m)
  BY Zenon DEF QuitSent
<1>4. m \in Command /\ Addressed(k, m) /\ Request' = m
  BY <1>1, <1>2 DEF Cmd, Command, Addressed, Request
<1>5. \A d \in Chip : Waiting(d)' <=> d = k
  BY <1>1 DEF Waiting
<1> HIDE DEF m
<1>6. HostTypes'
  BY <1>1, <1>2, SlavesSame DEF HostTypes
<1>7. HostInv'
  BY <1>1, <1>2, SlavesSame DEF HostInv, Stopping
<1>8. ASSUME NEW d \in Chip
      PROVE  ServedInv(d)'
  <2>1. ServedInv(d)
    BY Parts
  <2> QED BY <1>1, <2>1, SlavesSame DEF ServedInv, Stopping
<1>9. Between /\ hpc' \in {"initwait", "stopwait", "quitwait"}
  BY <1>1 DEF Between
<1> QED BY <1>1, <1>2, <1>3, <1>4, <1>5, <1>6, <1>7, <1>8, <1>9, SentStep

LEMMA QuitChipStep == CtlInv /\ QuitChip => CtlInv'
<1> SUFFICES ASSUME CtlInv, QuitChip
             PROVE  CtlInv'
  OBVIOUS
<1>1. CASE QuitSent
  BY <1>1, QuitSentStep
<1>2. CASE hpc = "quit" /\ SendFails(k) /\ NextChip
  <2>1. UNCHANGED <<ret, signo, cur_port>> /\ UNCHANGED <<hfd, hthr>>
        /\ UNCHANGED <<slaves, settled, setup>> /\ UNCHANGED <<cmd, echo>>
    BY <1>2 DEF QuitChip, SendFails
  <2>2. Between /\ k \in Chip
    BY <1>2, Parts DEF Between, HostInv
  <2>3. InStep(k) => ~Alive(k)
    BY <1>2, <2>2, NotSent
  <2>4. HostTypes' /\ HostInv' /\ Between' /\ \A c \in Chip : ServedInv(c)'
    BY <1>2, <2>1, <2>3, ToNextChip
  <2> QED BY <2>1, <2>2, <2>4, QuietStep
<1>3. QuitSent \/ (hpc = "quit" /\ SendFails(k) /\ NextChip)
  BY DEF QuitChip, QuitSent
<1> QED BY <1>1, <1>2, <1>3

LEMMA QuitAnsweredStep == CtlInv /\ QuitAnswered => CtlInv'
<1> SUFFICES ASSUME CtlInv, QuitAnswered
             PROVE  CtlInv'
  OBVIOUS
<1>1. /\ hpc = "quitwait" /\ Concluded(k) /\ NextChip
      /\ UNCHANGED <<ret, signo, cur_port>> /\ UNCHANGED <<hfd, hthr>>
      /\ UNCHANGED <<slaves, settled, setup>> /\ UNCHANGED cmd
  BY DEF QuitAnswered, Concluded
<1>2. k \in Chip
  BY <1>1, Parts DEF HostInv
<1>3. Waiting(k) /\ \A d \in Chip : Waiting(d) <=> d = k
  BY <1>1 DEF Waiting
<1>4. InStep(k) => ~Alive(k)
  <2>1. ASSUME InStep(k)
        PROVE  Answering(k) \/ ~Alive(k)
    BY <1>1, <1>2, <1>3, <2>1, AnswerRead
  <2> QED BY <1>1, <2>1 DEF Answering, AnswerTrue
<1>5. HostTypes' /\ HostInv' /\ Between' /\ \A c \in Chip : ServedInv(c)'
  BY <1>1, <1>4, ToNextChip
<1> QED BY <1>1, <1>2, <1>3, <1>5, AnsweredStep

-----------------------------------------------------------------------------
(* Every step keeps the invariant. *)

LEMMA CtlStutter == CtlInv /\ UNCHANGED vars => CtlInv'
<1> SUFFICES ASSUME CtlInv, UNCHANGED vars
             PROVE  CtlInv'
  OBVIOUS
<1>1. /\ UNCHANGED <<hpc, k, ret, signo, cur_port, hfd, hthr>> /\ UNCHANGED <<hpc, k, cur_port>>
      /\ UNCHANGED <<slaves, settled, setup>> /\ UNCHANGED <<cmd, echo>>
  BY DEF vars, host
<1>2. HostTypes'
  BY <1>1, Parts, SlavesSame DEF HostTypes
<1>3. HostInv'
  BY <1>1, Parts, SlavesSame DEF HostInv, Stopping
<1>4. ASSUME NEW c \in Chip
      PROVE  ServedInv(c)'
  BY <1>1, Parts, SlavesSame DEF ServedInv, Stopping
<1> QED BY <1>1, <1>2, <1>3, <1>4, MeanwhileStep

LEMMA CtlStep == CtlInv /\ [Next]_vars => CtlInv'
<1> SUFFICES ASSUME CtlInv, [Next]_vars
             PROVE  CtlInv'
  OBVIOUS
<1>1. CASE HostMain
  <2>1. CASE StartCoprocessor \/ InitChannel \/ InitAnswered
    BY <2>1, StartStep, InitChannelStep, InitAnsweredStep
  <2>2. CASE KeyPressed \/ StopThread \/ StopChannel \/ StopAnswered
    BY <2>2, KeyPressedStep, StopThreadStep, StopChannelStep, StopAnsweredStep
  <2>3. CASE QuitKey \/ QuitChip \/ QuitAnswered \/ InvalidKey \/ LeaveLoop
    BY <2>3, QuitKeyStep, QuitChipStep, QuitAnsweredStep, LeaveStep
  <2> QED BY <1>1, <2>1, <2>2, <2>3 DEF HostMain
<1>2. CASE Signal \/ HostGone \/ HostRestart
  BY <1>2, SignalStep, HostGoneStep, HostRestartStep
<1>3. ASSUME NEW c \in Chip, SlaveMain(c) \/ SlaveKilled(c) \/ SlaveRestart(c)
      PROVE  CtlInv'
  <2>1. CASE SlaveKilled(c) \/ SlaveRestart(c)
    BY <2>1, SlaveKilledStep, SlaveRestartStep
  <2>2. CASE SlaveInit(c) \/ SlaveExit(c) \/ SlaveQuit(c)
    BY <2>2, SlaveInitStep, SlaveExitStep, SlaveQuitStep
  <2>3. CASE SlaveJoin(c) \/ SlaveClose(c) \/ SlaveEcho(c)
    BY <2>3, SlaveJoinStep, SlaveCloseStep, SlaveEchoStep
  <2> QED BY <1>3, <2>1, <2>2, <2>3 DEF SlaveMain
<1>4. ASSUME NEW i \in Chan, HostThreadEnds(i) \/ SlaveThreadEnds(i)
      PROVE  CtlInv'
  BY <1>4, HostThreadStep, SlaveThreadStep
<1>5. CASE UNCHANGED vars
  BY <1>5, CtlStutter
<1> QED BY <1>1, <1>2, <1>3, <1>4, <1>5 DEF Next

(* The invariant of the exchange between the host and its slaves.  *)
THEOREM CtlInvariant == Spec => []CtlInv
<1>1. Init => CtlInv
  BY CtlInit
<1>2. CtlInv /\ [Next]_vars => CtlInv'
  BY CtlStep
<1> QED BY <1>1, <1>2, PTL DEF Spec

(* Every variable of the two programs has its type. *)
THEOREM CtlTypes == Spec => []TypeOK
<1>1. CtlInv => TypeOK
  BY DEF CtlInv
<1> QED BY <1>1, CtlInvariant, PTL

(* pthread_join is called for a thread that exists, on both sides. *)
THEOREM JoinsOwn == Spec => []JoinsOwnThread
<1>1. CtlInv => JoinsOwnThread
  <2> SUFFICES ASSUME CtlInv
               PROVE  JoinsOwnThread
    OBVIOUS
  <2>1. hpc = "join" => hthr[k].st # "none"
    BY Parts DEF HostInv
  <2>2. \A c \in Chip :
          slave[c].pc = "join" /\ "sopen" \notin faults => sthr[slave[c].msg.of].st # "none"
    BY DEF CtlInv, ChipInv, SlaveInv, CommandInv
  <2> QED BY <2>1, <2>2 DEF JoinsOwnThread
<1> QED BY <1>1, CtlInvariant, PTL

(* A running co-thread of the host has its port open, and a slave that is   *)
(* in step serves the channel on the same port.                             *)
THEOREM SetUpTogether == Spec => []StartedTogether
<1>1. CtlInv => StartedTogether
  <2> SUFFICES ASSUME CtlInv, NEW i \in Chan, hthr[i].st = "run"
               PROVE  /\ hthr[i].port \in hfd[ChipOf(i)]
                      /\ Alive(ChipOf(i)) /\ InStep(ChipOf(i)) =>
                           /\ sthr[i].is_start /\ sthr[i].port = hthr[i].port
                           /\ hthr[i].port \in sfd[ChipOf(i)]
    BY DEF StartedTogether
  <2>1. HostInv /\ ChipOf(i) \in Chip /\ ServedInv(ChipOf(i))
    BY Parts, Numbers
  <2>2. hthr[i].port = i /\ i \in hfd[ChipOf(i)]
    BY <2>1 DEF HostInv
  <2>3. Alive(ChipOf(i)) /\ InStep(ChipOf(i)) => Served(i)
    BY <2>1 DEF ServedInv
  <2> QED BY <2>2, <2>3 DEF Served
<1> QED BY <1>1, CtlInvariant, PTL

(* The stop loop leaves no thread and no recorded port behind it, and the   *)
(* only other port left open on the host is that of a failed round.         *)
THEOREM StopCleans == Spec => []StopLeavesNothing
<1>1. CtlInv => StopLeavesNothing
  <2> SUFFICES ASSUME CtlInv
               PROVE  StopLeavesNothing
    OBVIOUS
  <2>1. HostInv /\ k \in Chan /\ Chan \subseteq Nat \ {0}
    BY Parts DEF HostTypes
  <2>2. Stopping => \A i \in Chan : i < k => HostClean(i)
    BY <2>1 DEF HostInv, HostClean
  <2>3. ASSUME NEW c \in Chip
        PROVE  /\ Stopping =>
                    hfd[c] \subseteq
                      {hthr[i].port : i \in {j \in ChansOf(c) : j >= k}} \cup Unrecorded
               /\ hpc = "exit" => hfd[c] \subseteq Unrecorded
               /\ hpc = "menu" => hfd[c] = {}
               /\ InStep(c) =>
                    /\ Stopping => \A i \in ChansOf(c) : i < k => SlaveClean(i)
                    /\ hpc = "menu" /\ ret = "ok" => sfd[c] = {}
    <3>1. ServedInv(c)
      BY Parts
    <3>2. ASSUME Stopping, NEW p \in hfd[c], p \notin Unrecorded
          PROVE  p \in {hthr[i].port : i \in {j \in ChansOf(c) : j >= k}}
      <4>1. p \in Chan /\ ChipOf(p) = c /\ hthr[p].port = p
        BY <2>1, <3>2 DEF HostInv, Stopping, Unrecorded
      <4>2. ~(p < k)
        BY <2>1, <3>2, <4>1 DEF HostInv
      <4>a. p \in Nat /\ k \in Nat
        BY <2>1, <4>1
      <4>3. p >= k
        BY <4>2, <4>a
      <4> QED BY <4>1, <4>3 DEF ChansOf
    <3>3. hpc = "exit" => hfd[c] \subseteq Unrecorded
      BY <2>1 DEF HostInv, Unrecorded
    <3>4. hpc = "menu" => hfd[c] = {}
      BY <2>1 DEF HostInv
    <3>5. InStep(c) => /\ Stopping => \A i \in ChansOf(c) : i < k => SlaveClean(i)
                       /\ hpc = "menu" /\ ret = "ok" => sfd[c] = {}
      BY <3>1 DEF ServedInv, ChansOf
    <3> QED BY <3>2, <3>3, <3>4, <3>5
  <2> QED BY <2>2, <2>3 DEF StopLeavesNothing
<1> QED BY <1>1, CtlInvariant, PTL

(* What the host reads from a slave that is in step is the answer to what   *)
(* it has just sent.                                                        *)
THEOREM AnswersBelong == Spec => []AnswersMatch
<1>1. CtlInv => AnswersMatch
  <2> SUFFICES ASSUME CtlInv, NEW c \in Chip, InStep(c), NEW n \in DOMAIN echo[c]
               PROVE  n = 1 /\ echo[c][n].to \in Pending
    BY DEF AnswersMatch
  <2>1. Exchange(c) /\ echo[c] \in Seq(Echo)
    BY Parts, SlaveTypesOf DEF SlaveTypes
  <2>2. echo[c] # <<>> /\ (Len(echo[c]) = 1 => n = 1)
    BY <2>1
  <2>3. Waiting(c) /\ Answering(c)
    BY <2>1, <2>2 DEF Exchange, Idle, Sending, Serving, Lost
  <2>4. n = 1 /\ echo[c][1].to = Request
    BY <2>2, <2>3 DEF Answering
  <2>5. Request \in Pending
    <3>1. CASE hpc = "initwait"
      BY <3>1 DEF Request, Pending
    <3>2. CASE hpc = "stopwait"
      BY <3>2 DEF Request, Pending
    <3>3. CASE hpc = "quitwait"
      BY <3>3 DEF Request, Pending
    <3> QED BY <2>3, <3>1, <3>2, <3>3 DEF Waiting
  <2> QED BY <2>4, <2>5
<1> QED BY <1>1, CtlInvariant, PTL

(* Behind the quit loop no slave that was in step is serving any more. *)
THEOREM QuitArrives == Spec => []QuitReachesSlaves
<1>1. CtlInv => QuitReachesSlaves
  <2> SUFFICES ASSUME CtlInv, NEW c \in Chip, InStep(c)
               PROVE  /\ hpc \in {"quit", "quitwait"} /\ c < k => ~Alive(c)
                      /\ hpc = "exit" /\ signo /\ ret = "ok" => ~Alive(c)
    BY DEF QuitReachesSlaves
  <2> QED BY Parts DEF ServedInv
<1> QED BY <1>1, CtlInvariant, PTL
=============================================================================
