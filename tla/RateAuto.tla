------------------------------ MODULE RateAuto ------------------------------
(***************************************************************************)
(* The rate control of svc_rate_auto (ot_bitrate_auto.c): a thread reads   *)
(* the QP the encoder starts with, bounds the QP map of every region by    *)
(* the configured limits and sets it, then adapts the parameters of the    *)
(* AVBR mode.  The program starts the thread, waits for a key, stops it    *)
(* and clears the parameters.                                              *)
(*                                                                         *)
(* A map value below 64 is relative to the start QP, a signed number of    *)
(* six bits; one from 64 on is an absolute QP.  The values for I and for P *)
(* frames are treated alike, so one stands for both.                       *)
(***************************************************************************)
EXTENDS Integers

CONSTANTS
  Fg, Roi, Bg,  \* the foreground regions, the activity and the background
  Params,       \* the parameters a file can hold
  StartQps,     \* the start QPs the encoder reports
  Rcs           \* the AVBR parameters it can have before the thread starts

Region == Fg \cup {Roi, Bg}
QpMap == 0..115
Qp == 0..51

(* What the loader lets through (bitrate_auto_load_param.c).                *)
Param == [qpmap : [Region -> QpMap], max_bg_qp : Qp, min_fg_qp : Qp,
          max_fg_qp : Qp, avbr_rate_control : 0..2]
Rc == [min_still_percent : 0..100, min_i_qp : Qp, min_qp : Qp]

ASSUME RegionAssumption == Roi \notin Fg /\ Bg \notin Fg /\ Roi # Bg
ASSUME ParamsAssumption == Params \subseteq Param
ASSUME StartQpsAssumption == StartQps \subseteq Qp
ASSUME RcsAssumption == Rcs \subseteq Rc

VARIABLES
  pc,       \* main: "init", "running", "join", "exited"
  flag,     \* start_flag of the thread
  conf,     \* the parameters main loaded
  param,    \* g_rate_auto_init_param
  tpc,      \* the thread: "none", "loop", "fg", "rest", "set", "get",
            \* "still", "done"
  limit,    \* the parameters when the thread started: its local limits
  start_qp, \* start QP of this round
  svc,      \* its svc_param
  applied,  \* what the encoder was given last, and the start QP it is for
  avbr,     \* is the encoder in an AVBR mode?
  setup,    \* the AVBR parameters it was set up with
  rc,       \* and those it has now
  org       \* org_min_still_percent, -1 before start_flag is set

thread == <<tpc, limit, start_qp, svc, applied, rc, org>>
encoder == <<avbr, setup>>
vars == <<pc, flag, conf, param, thread, encoder>>

-----------------------------------------------------------------------------
(* QP maps.                                                                *)
Least(a, b) == IF a < b THEN a ELSE b
Greatest(a, b) == IF a > b THEN a ELSE b
Clip3(min, max, val) == Greatest(min, Least(max, val))

Relative(v) == (v \div 64) % 2 = 0

SixBits(v) == IF v % 64 >= 32 THEN (v % 64) - 64 ELSE v % 64
(* qpmap_to_deltaqp                                                         *)
DeltaQp(v) == IF Relative(v) THEN SixBits(v) ELSE Least(v % 64, 51)
RelativeMap(qp) ==
  LET c == Clip3(-32, 31, qp) IN IF c >= 0 THEN c ELSE 64 + c
ToQpMap(v, qp) == IF Relative(v) THEN RelativeMap(qp) ELSE 64 + qp

(* A positive relative value is cut to the room between the start QP and a *)
(* limit.                                                                   *)
Capped(v, max, q) ==
  IF v > Greatest(0, max - q) /\ v <= 31 THEN Greatest(0, max - q) ELSE v

(* A foreground value that leads below the lowest QP is raised.  (Faulty    *)
(* variant: never.)                                                         *)
Raised_never(v, min, q) == v
Raised(v, min, q) ==
  IF DeltaQp(v) < Least(0, min - q) THEN ToQpMap(v, Least(0, min - q)) ELSE v

(* A negative value gives way when the background is at its limit.  (Faulty *)
(* variant: past zero.)                                                     *)
GivesWay_past(v, max, q) ==
  IF q > max /\ v >= 32 /\ v < 64 THEN ToQpMap(v, DeltaQp(v) + (q - max)) ELSE v
GivesWay(v, max, q) ==
  IF q > max /\ v >= 32 /\ v < 64
    THEN LET w == ToQpMap(v, DeltaQp(v) + (q - max)) IN IF w <= 31 THEN 0 ELSE w
    ELSE v

(* A positive value of the background is lowered when the foreground is at *)
(* its limit: eight bits, and what wraps becomes zero.  (Faulty variant: it *)
(* stays.)                                                                  *)
Lowered_wraps(v, min, q) == IF q < min /\ v <= 31 THEN (v + (q - min)) % 256 ELSE v
Lowered(v, min, q) ==
  IF q < min /\ v <= 31
    THEN LET w == (v + (q - min)) % 256 IN IF w >= 32 THEN 0 ELSE w
    ELSE v

(* The five adjustments of a round, in their order, on the value of a       *)
(* region.                                                                  *)
FgAdjusted(v, p, q) ==
  GivesWay(Raised(Capped(Capped(v, p.max_bg_qp, q), p.max_fg_qp, q), p.min_fg_qp, q),
           p.max_bg_qp, q)
RoiAdjusted(v, p, q) ==
  Lowered(GivesWay(Capped(v, p.max_bg_qp, q), p.max_bg_qp, q), p.min_fg_qp, q)
BgAdjusted(v, p, q) == Lowered(Capped(v, p.max_bg_qp, q), p.min_fg_qp, q)

Adjusted(s, p, q) ==
  [r \in Region |-> IF r \in Fg THEN FgAdjusted(s[r], p, q)
                    ELSE IF r = Roi THEN RoiAdjusted(s[r], p, q)
                    ELSE BgAdjusted(s[r], p, q)]

-----------------------------------------------------------------------------
Zeros == [qpmap |-> [r \in Region |-> 0], max_bg_qp |-> 0, min_fg_qp |-> 0,
          max_fg_qp |-> 0, avbr_rate_control |-> 0]

Init ==
  /\ pc = "init" /\ flag = FALSE /\ tpc = "none"
  /\ conf \in Params /\ param = conf /\ limit = Zeros
  /\ start_qp = 0 /\ svc = Zeros.qpmap
  /\ applied = [qpmap |-> Zeros.qpmap, start_qp |-> 0]
  /\ avbr \in BOOLEAN /\ setup \in Rcs /\ rc = setup /\ org = -1

(* ot_rate_auto_init; the thread may fail to be created, and main ends.     *)
InitRateAuto ==
  /\ pc = "init" /\ flag' = TRUE
  /\ \/ pc' = "running" /\ tpc' = "loop" /\ limit' = param
     \/ pc' = "exited" /\ UNCHANGED <<tpc, limit>>
  /\ UNCHANGED <<conf, param, start_qp, svc, applied, encoder, rc, org>>

(* ot_rate_auto_deinit.  The thread is detached: joining it may return at   *)
(* once, so nothing makes the call wait.                                    *)
Stop ==
  /\ pc = "running" /\ pc' = "join" /\ flag' = FALSE
  /\ UNCHANGED <<conf, param, thread, encoder>>

Clear ==
  /\ pc = "join" /\ pc' = "cleared" /\ param' = Zeros
  /\ UNCHANGED <<flag, conf, thread, encoder>>

(* Main returns, and the process with all its threads ends.                 *)
Exit ==
  /\ pc = "cleared" /\ pc' = "exited"
  /\ UNCHANGED <<flag, conf, param, thread, encoder>>

-----------------------------------------------------------------------------
(* The thread.  Clear may come between any two of its steps.               *)
Step(from, to) == pc # "exited" /\ tpc = from /\ tpc' = to

Query ==
  /\ Step("loop", "fg") /\ flag
  /\ start_qp' \in StartQps
  /\ UNCHANGED <<pc, flag, conf, param, limit, svc, applied, encoder, rc, org>>

ThreadEnds ==
  /\ Step("loop", "done") /\ ~flag
  /\ UNCHANGED <<pc, flag, conf, param, limit, start_qp, svc, applied, encoder, rc, org>>

(* init_svc_param: the foreground regions, then the others.                 *)
FillFg ==
  /\ Step("fg", "rest")
  /\ svc' = [r \in Region |-> IF r \in Fg THEN param.qpmap[r] ELSE svc[r]]
  /\ UNCHANGED <<pc, flag, conf, param, limit, start_qp, applied, encoder, rc, org>>

FillRest ==
  /\ Step("rest", "set")
  /\ svc' = [r \in Region |-> IF r \in Fg THEN svc[r] ELSE param.qpmap[r]]
  /\ UNCHANGED <<pc, flag, conf, param, limit, start_qp, applied, encoder, rc, org>>

SetSvc ==
  /\ Step("set", "get")
  /\ svc' = Adjusted(svc, limit, start_qp)
  /\ applied' = [qpmap |-> svc', start_qp |-> start_qp]
  /\ UNCHANGED <<pc, flag, conf, param, limit, start_qp, encoder, rc, org>>

(* adjust_avbr_bitrate: the first call remembers the still percentage the   *)
(* encoder was set up with.  (Faulty variant: every call does.)             *)
Remembered_last == rc.min_still_percent
Remembered == IF org = -1 THEN rc.min_still_percent ELSE org

SkipAvbr ==
  /\ Step("get", "loop") /\ (~avbr \/ param.avbr_rate_control = 0)
  /\ UNCHANGED <<pc, flag, conf, param, limit, start_qp, svc, applied, encoder, rc, org>>

GetAvbr ==
  /\ Step("get", "still") /\ avbr /\ param.avbr_rate_control # 0
  /\ org' = Remembered
  /\ UNCHANGED <<pc, flag, conf, param, limit, start_qp, svc, applied, encoder, rc>>

(* 18 + 110 and 40 + 70 parts of 128; without a mode, when the parameters   *)
(* were cleared meanwhile, the percentage starts from zero.                 *)
Still(mode, percent) ==
  Clip3(5, 100, CASE mode = 2 -> (percent * 128) \div 128
                  [] mode = 1 -> (percent * 110) \div 128
                  [] OTHER -> 0)

SetAvbr ==
  /\ Step("still", "loop")
  /\ LET mode == param.avbr_rate_control IN
       rc' = [min_still_percent |-> Still(mode, org),
              min_i_qp |-> IF mode = 1 THEN Greatest(rc.min_i_qp, 26) ELSE rc.min_i_qp,
              min_qp |-> IF mode = 1 THEN Greatest(rc.min_qp, 28) ELSE rc.min_qp]
  /\ UNCHANGED <<pc, flag, conf, param, limit, start_qp, svc, applied, encoder, org>>

Main == InitRateAuto \/ Stop \/ Clear \/ Exit
Thread ==
  Query \/ ThreadEnds \/ FillFg \/ FillRest \/ SetSvc \/ SkipAvbr \/ GetAvbr \/ SetAvbr
Next == Main \/ Thread

Spec == Init /\ [][Next]_vars

-----------------------------------------------------------------------------
TypeOK ==
  /\ pc \in {"init", "running", "join", "cleared", "exited"} /\ flag \in BOOLEAN
  /\ tpc \in {"none", "loop", "fg", "rest", "set", "get", "still", "done"}
  /\ conf \in Param /\ param \in {conf, Zeros} /\ limit \in {conf, Zeros}
  /\ start_qp \in Qp
  /\ svc \in [Region -> QpMap]
  /\ applied \in [qpmap : [Region -> QpMap], start_qp : Qp]
  /\ avbr \in BOOLEAN /\ {setup, rc} \subseteq Rc /\ org \in -1..100

(* What the encoder is given was made with the limits of conf, or is the    *)
(* zeros of the beginning.                                                  *)
Given(r) == applied.qpmap[r]
Led(r) == applied.start_qp + DeltaQp(Given(r))

(* The comments of the loop (lines 335 and 340): as long as the start QP    *)
(* itself keeps to a limit, no relative value leads a region beyond it,     *)
(* neither above max_bg_qp, nor a foreground region above max_fg_qp or      *)
(* below min_fg_qp; also after the adjustments that come later in the round *)
(* and while the parameters are cleared under the thread.                   *)
QpBounds ==
  \A r \in Region : Relative(Given(r)) =>
    /\ applied.start_qp <= conf.max_bg_qp => Led(r) <= conf.max_bg_qp
    /\ r \in Fg /\ applied.start_qp <= conf.max_fg_qp => Led(r) <= conf.max_fg_qp
    /\ r \in Fg /\ applied.start_qp >= conf.min_fg_qp => Led(r) >= conf.min_fg_qp

(* The five adjustments weaken what a file asks for and never turn it       *)
(* round: a region to be coded finer than the picture is never coded        *)
(* coarser, one to be coded coarser never finer, and the two never change   *)
(* places.                                                                  *)
SignKept ==
  \A r \in Region : Relative(conf.qpmap[r]) =>
    /\ Relative(Given(r))
    /\ DeltaQp(conf.qpmap[r]) <= 0 =>
         DeltaQp(Given(r)) \in DeltaQp(conf.qpmap[r])..0
    /\ DeltaQp(conf.qpmap[r]) >= 0 =>
         DeltaQp(Given(r)) \in 0..DeltaQp(conf.qpmap[r])

(* The AVBR parameters are adapted once, however many rounds follow: the    *)
(* still percentage is the one the encoder was set up with or the mode's    *)
(* share of it (line 133-136), never a share of a share.                    *)
StillOnce ==
  pc = "running" =>
    rc.min_still_percent \in {setup.min_still_percent,
                              Still(conf.avbr_rate_control, setup.min_still_percent)}
=============================================================================
