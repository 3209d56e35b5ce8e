-------------------------- MODULE RateAuto_proofs --------------------------
(***************************************************************************)
(* What every round of RateAuto gives the encoder, for every set of        *)
(* parameters the loader lets through, every start QP and any number of    *)
(* regions.                                                                *)
(***************************************************************************)
EXTENDS RateAuto, TLAPS

-----------------------------------------------------------------------------
(* The six bits of a relative value and the number they stand for          *)
(* (qpmap_to_deltaqp and deltaqp_to_qpmap) are inverse to each other.      *)
LEMMA Values ==
  ASSUME NEW v \in QpMap
  PROVE  /\ Relative(v) <=> v < 64
         /\ v < 32 => DeltaQp(v) = v
         /\ v >= 32 /\ v < 64 => DeltaQp(v) = v - 64
         /\ v >= 64 => DeltaQp(v) = v - 64
  BY DEF QpMap, Relative, DeltaQp, SixBits, Least

(* deltaqp_to_qpmap gives back the number qpmap_to_deltaqp took out.        *)
THEOREM RoundTrip ==
  ASSUME NEW d \in -32..31
  PROVE  /\ RelativeMap(d) \in 0..63
         /\ DeltaQp(RelativeMap(d)) = d
  <1>1. RelativeMap(d) = IF d >= 0 THEN d ELSE 64 + d
    BY DEF RelativeMap, Clip3, Greatest, Least
  <1>2. RelativeMap(d) \in 0..63
    BY <1>1
  <1> QED
    BY <1>1, <1>2, Values DEF QpMap

-----------------------------------------------------------------------------
(* The adjustments, one at a time: which values they touch and how far.     *)

(* adjust_qpmap_based_on_max_qp only lowers values of 0..31, and into the   *)
(* room below the limit.                                                    *)
LEMMA Caps ==
  ASSUME NEW v \in QpMap, NEW max \in Qp, NEW q \in Qp
  PROVE  /\ v > 31 => Capped(v, max, q) = v
         /\ v <= 31 => /\ Capped(v, max, q) \in 0..v
                       /\ q <= max => q + Capped(v, max, q) <= max
  BY DEF QpMap, Qp, Capped, Greatest

(* adjust_qpmap_based_on_min_fgqp only raises values of 32..63, and not     *)
(* past zero.                                                               *)
LEMMA Raises ==
  ASSUME NEW v \in QpMap, NEW min \in Qp, NEW q \in Qp
  PROVE  /\ v < 32 \/ v >= 64 => Raised(v, min, q) = v
         /\ v >= 32 /\ v < 64 =>
              /\ Raised(v, min, q) = 0 \/ Raised(v, min, q) \in v..63
              /\ q >= min /\ Raised(v, min, q) # 0 => q + (Raised(v, min, q) - 64) >= min
  <1> DEFINE m == Least(0, min - q)
  <1>1. m \in -51..0 /\ m <= min - q /\ (q < min => m = 0) /\ (q >= min => m = min - q)
    BY DEF Qp, Least
  <1>2. CASE v < 32 \/ v >= 64
    BY <1>1, <1>2, Values DEF Raised, QpMap
  <1>3. CASE v >= 32 /\ v < 64
    <2>1. DeltaQp(v) = v - 64 /\ Relative(v)
      BY <1>3, Values
    <2>2. CASE v - 64 < m
      <3>1. Raised(v, min, q) = RelativeMap(m)
        BY <2>1, <2>2 DEF Raised, ToQpMap
      <3>2. RelativeMap(m) = IF m = 0 THEN 0 ELSE 64 + m
        BY <1>1, <1>3, <2>2 DEF RelativeMap, Clip3, Greatest, Least, QpMap
      <3> QED
        BY <3>1, <3>2, <1>1, <1>3, <2>2 DEF QpMap, Qp
    <2>3. CASE ~(v - 64 < m)
      <3>1. Raised(v, min, q) = v
        BY <2>1, <2>3 DEF Raised
      <3> QED
        BY <3>1, <1>1, <1>3, <2>3 DEF QpMap, Qp
    <2> QED
      BY <2>2, <2>3
  <1> QED
    BY <1>2, <1>3 DEF QpMap

(* adjust_fg_quality_based_on_max_bgqp only raises values of 32..63, and    *)
(* not past zero.                                                           *)
LEMMA Yields ==
  ASSUME NEW v \in QpMap, NEW max \in Qp, NEW q \in Qp
  PROVE  /\ v < 32 \/ v >= 64 => GivesWay(v, max, q) = v
         /\ v >= 32 /\ v < 64 =>
              GivesWay(v, max, q) = 0 \/ GivesWay(v, max, q) \in v..63
  <1>1. CASE v < 32 \/ v >= 64 \/ q <= max
    BY <1>1 DEF GivesWay, QpMap, Qp
  <1>2. CASE v >= 32 /\ v < 64 /\ q > max
    <2> DEFINE d == DeltaQp(v) + (q - max)
    <2>1. Relative(v) /\ d \in -31..50 /\ d > v - 64
      <3>1. Relative(v) /\ DeltaQp(v) = v - 64
        BY <1>2, Values
      <3>2. v - 64 \in -32..-1 /\ q - max \in 1..51
        BY <1>2 DEF QpMap, Qp
      <3> QED
        BY <3>1, <3>2
    <2>2. RelativeMap(d) = IF d >= 32 THEN 31 ELSE IF d >= 0 THEN d ELSE 64 + d
      BY <2>1 DEF RelativeMap, Clip3, Greatest, Least
    <2>3. GivesWay(v, max, q) = IF RelativeMap(d) <= 31 THEN 0 ELSE RelativeMap(d)
      BY <1>2, <2>1 DEF GivesWay, ToQpMap
    <2> HIDE DEF d
    <2> QED
      BY <1>2, <2>1, <2>2, <2>3 DEF QpMap
  <1> QED
    BY <1>1, <1>2 DEF QpMap, Qp

(* adjust_bg_quality_set_value only lowers values of 0..31; the byte that   *)
(* wraps below zero becomes zero.                                           *)
LEMMA Lowers ==
  ASSUME NEW v \in QpMap, NEW min \in Qp, NEW q \in Qp
  PROVE  /\ v > 31 => Lowered(v, min, q) = v
         /\ v <= 31 => Lowered(v, min, q) \in 0..v
  <1>1. CASE v > 31 \/ q >= min
    BY <1>1 DEF Lowered, QpMap, Qp
  <1>2. CASE v <= 31 /\ q < min
    <2> DEFINE w == (v + (q - min)) % 256
    <2>1. w = IF v + (q - min) >= 0 THEN v + (q - min) ELSE 256 + (v + (q - min))
      BY <1>2 DEF QpMap, Qp
    <2>2. Lowered(v, min, q) = IF w >= 32 THEN 0 ELSE w
      BY <1>2 DEF Lowered
    <2> QED
      BY <1>2, <2>1, <2>2 DEF QpMap, Qp
  <1> QED
    BY <1>1, <1>2 DEF QpMap, Qp

-----------------------------------------------------------------------------
(* What a round makes of the value of a region.                            *)

(* v may become w in a round for a region of the foreground (fg) or not.   *)
Made(v, w, p, q, fg) ==
  /\ w \in QpMap
  /\ v >= 64 => w = v
  /\ v < 64 =>
       /\ w < 64
       /\ DeltaQp(v) <= 0 => DeltaQp(w) \in DeltaQp(v)..0
       /\ DeltaQp(v) >= 0 => DeltaQp(w) \in 0..DeltaQp(v)
       /\ q <= p.max_bg_qp => q + DeltaQp(w) <= p.max_bg_qp
       /\ fg /\ q <= p.max_fg_qp => q + DeltaQp(w) <= p.max_fg_qp
       /\ fg /\ q >= p.min_fg_qp => q + DeltaQp(w) >= p.min_fg_qp

LEMMA MadeOfNegative ==
  ASSUME NEW v \in 32..63, NEW w \in {0} \cup v..63, NEW p \in Param, NEW q \in Qp,
         NEW fg \in BOOLEAN,
         fg /\ q >= p.min_fg_qp /\ w # 0 => q + (w - 64) >= p.min_fg_qp
  PROVE  Made(v, w, p, q, fg)
  <1>1. v \in QpMap /\ w \in QpMap /\ w < 64 /\ p.max_bg_qp \in Qp
        /\ p.max_fg_qp \in Qp /\ p.min_fg_qp \in Qp
    BY DEF QpMap, Param
  <1>2. DeltaQp(v) = v - 64 /\ DeltaQp(w) = IF w = 0 THEN 0 ELSE w - 64
    BY <1>1, Values
  <1>3. DeltaQp(w) \in DeltaQp(v)..0
    BY <1>2
  <1>4. q <= p.max_bg_qp => q + DeltaQp(w) <= p.max_bg_qp
    BY <1>1, <1>2 DEF Qp
  <1>5. q <= p.max_fg_qp => q + DeltaQp(w) <= p.max_fg_qp
    BY <1>1, <1>2 DEF Qp
  <1>6. fg /\ q >= p.min_fg_qp => q + DeltaQp(w) >= p.min_fg_qp
    BY <1>1, <1>2 DEF Qp
  <1> QED
    BY <1>1, <1>2, <1>3, <1>4, <1>5, <1>6 DEF Made

LEMMA MadeOfPositive ==
  ASSUME NEW v \in 0..31, NEW w \in 0..v, NEW p \in Param, NEW q \in Qp,
         NEW fg \in BOOLEAN,
         q <= p.max_bg_qp => q + w <= p.max_bg_qp,
         fg /\ q <= p.max_fg_qp => q + w <= p.max_fg_qp
  PROVE  Made(v, w, p, q, fg)
  <1>1. v \in QpMap /\ w \in QpMap /\ w < 64 /\ p.min_fg_qp \in Qp
    BY DEF QpMap, Param
  <1>2. DeltaQp(v) = v /\ DeltaQp(w) = w
    BY <1>1, Values
  <1>3. DeltaQp(v) <= 0 => DeltaQp(w) \in DeltaQp(v)..0
    BY <1>2
  <1>4. q >= p.min_fg_qp => q + DeltaQp(w) >= p.min_fg_qp
    BY <1>1, <1>2 DEF Qp
  <1> QED
    BY <1>1, <1>2, <1>3, <1>4 DEF Made

LEMMA MadeOfAbsolute ==
  ASSUME NEW v \in 64..115, NEW p, NEW q, NEW fg \in BOOLEAN
  PROVE  Made(v, v, p, q, fg)
  BY DEF Made, QpMap

LEMMA FgMade ==
  ASSUME NEW v \in QpMap, NEW p \in Param, NEW q \in Qp
  PROVE  Made(v, FgAdjusted(v, p, q), p, q, TRUE)
  <1> DEFINE c == Capped(v, p.max_bg_qp, q)
             d == Capped(c, p.max_fg_qp, q)
             e == Raised(d, p.min_fg_qp, q)
             w == GivesWay(e, p.max_bg_qp, q)
  <1>0. p.max_bg_qp \in Qp /\ p.max_fg_qp \in Qp /\ p.min_fg_qp \in Qp
    BY DEF Param
  <1>1. FgAdjusted(v, p, q) = w
    BY DEF FgAdjusted
  <1>5. v \in 0..31 \/ v \in 32..63 \/ v \in 64..115
    BY DEF QpMap
  <1>2. CASE v \in 0..31
    <2>1. c \in 0..v /\ (q <= p.max_bg_qp => q + c <= p.max_bg_qp)
      BY <1>0, <1>2, Caps DEF QpMap
    <2>2. c \in QpMap /\ c <= 31
      BY <2>1, <1>2 DEF QpMap
    <2>3. d \in 0..c /\ (q <= p.max_fg_qp => q + d <= p.max_fg_qp)
      <3> HIDE DEF c
      <3> QED BY <1>0, <2>2, Caps
    <2>4. d \in QpMap /\ d < 32
      <3> HIDE DEF c, d
      <3> QED BY <2>2, <2>3 DEF QpMap
    <2>5. e = d
      <3> HIDE DEF d
      <3> QED BY <1>0, <2>4, Raises
    <2>6. w = d
      <3> HIDE DEF d
      <3> QED BY <1>0, <2>4, <2>5, Yields
    <2> HIDE DEF c, d, e, w
    <2>7. w \in 0..v /\ (q <= p.max_bg_qp => q + w <= p.max_bg_qp)
          /\ (q <= p.max_fg_qp => q + w <= p.max_fg_qp)
      BY <1>0, <1>2, <2>1, <2>2, <2>3, <2>6 DEF Qp
    <2> QED
      BY <1>1, <1>2, <2>7, MadeOfPositive
  <1>3. CASE v \in 32..63
    <2>1. d = v
      BY <1>0, <1>3, Caps DEF QpMap
    <2>2. (e = 0 \/ e \in v..63)
          /\ (q >= p.min_fg_qp /\ e # 0 => q + (e - 64) >= p.min_fg_qp)
      <3> HIDE DEF d
      <3> QED BY <1>0, <1>3, <2>1, Raises
    <2>3. e \in QpMap /\ (e < 32 => e = 0) /\ e < 64
      <3> HIDE DEF e
      <3> QED BY <1>3, <2>2 DEF QpMap
    <2>4. w = 0 \/ (e # 0 /\ w \in e..63)
      <3> HIDE DEF e
      <3> QED BY <1>0, <2>3, Yields DEF QpMap
    <2> HIDE DEF e, w
    <2>5. w \in {0} \cup v..63
          /\ (q >= p.min_fg_qp /\ w # 0 => q + (w - 64) >= p.min_fg_qp)
      BY <1>0, <1>3, <2>2, <2>3, <2>4 DEF Qp
    <2> QED
      BY <1>1, <1>3, <2>5, MadeOfNegative
  <1>4. CASE v \in 64..115
    <2>1. d = v
      BY <1>0, <1>4, Caps DEF QpMap
    <2>2. e = v
      <3> HIDE DEF d
      <3> QED BY <1>0, <1>4, <2>1, Raises
    <2>3. w = v
      <3> HIDE DEF e
      <3> QED BY <1>0, <1>4, <2>2, Yields
    <2> QED
      BY <1>1, <1>4, <2>3, MadeOfAbsolute
  <1> HIDE DEF c, d, e, w
  <1> QED
    BY <1>2, <1>3, <1>4, <1>5

LEMMA RoiMade ==
  ASSUME NEW v \in QpMap, NEW p \in Param, NEW q \in Qp
  PROVE  Made(v, RoiAdjusted(v, p, q), p, q, FALSE)
  <1> DEFINE c == Capped(v, p.max_bg_qp, q)
             d == GivesWay(c, p.max_bg_qp, q)
             w == Lowered(d, p.min_fg_qp, q)
  <1>0. p.max_bg_qp \in Qp /\ p.min_fg_qp \in Qp
    BY DEF Param
  <1>1. RoiAdjusted(v, p, q) = w
    BY DEF RoiAdjusted
  <1>5. v \in 0..31 \/ v \in 32..63 \/ v \in 64..115
    BY DEF QpMap
  <1>2. CASE v \in 0..31
    <2>1. c \in 0..v /\ (q <= p.max_bg_qp => q + c <= p.max_bg_qp)
      BY <1>0, <1>2, Caps DEF QpMap
    <2>2. c \in QpMap /\ c <= 31
      BY <2>1, <1>2 DEF QpMap
    <2>3. d = c
      <3> HIDE DEF c
      <3> QED BY <1>0, <2>2, Yields DEF QpMap
    <2>4. w \in 0..c
      <3> HIDE DEF c, d
      <3> QED BY <1>0, <2>2, <2>3, Lowers
    <2> HIDE DEF c, d, w
    <2>5. w \in 0..v /\ (q <= p.max_bg_qp => q + w <= p.max_bg_qp)
      BY <1>0, <1>2, <2>1, <2>4 DEF Qp
    <2> QED
      BY <1>1, <1>2, <2>5, MadeOfPositive
  <1>3. CASE v \in 32..63
    <2>1. c = v
      BY <1>0, <1>3, Caps DEF QpMap
    <2>2. d = 0 \/ d \in v..63
      <3> HIDE DEF c
      <3> QED BY <1>0, <1>3, <2>1, Yields
    <2>3. w = d
      <3>1. CASE d = 0
        <4> HIDE DEF d
        <4> QED BY <1>0, <3>1, Lowers DEF QpMap
      <3>2. CASE d \in v..63
        <4> HIDE DEF d
        <4> QED BY <1>0, <1>3, <3>2, Lowers DEF QpMap
      <3> QED
        BY <2>2, <3>1, <3>2
    <2> HIDE DEF d, w
    <2> QED
      BY <1>1, <1>3, <2>2, <2>3, MadeOfNegative
  <1>4. CASE v \in 64..115
    <2>1. c = v
      BY <1>0, <1>4, Caps DEF QpMap
    <2>2. d = v
      <3> HIDE DEF c
      <3> QED BY <1>0, <1>4, <2>1, Yields
    <2>3. w = v
      <3> HIDE DEF d
      <3> QED BY <1>0, <1>4, <2>2, Lowers
    <2> QED
      BY <1>1, <1>4, <2>3, MadeOfAbsolute
  <1> HIDE DEF c, d, w
  <1> QED
    BY <1>2, <1>3, <1>4, <1>5

LEMMA BgMade ==
  ASSUME NEW v \in QpMap, NEW p \in Param, NEW q \in Qp
  PROVE  Made(v, BgAdjusted(v, p, q), p, q, FALSE)
  <1> DEFINE c == Capped(v, p.max_bg_qp, q)
             w == Lowered(c, p.min_fg_qp, q)
  <1>0. p.max_bg_qp \in Qp /\ p.min_fg_qp \in Qp
    BY DEF Param
  <1>1. BgAdjusted(v, p, q) = w
    BY DEF BgAdjusted
  <1>5. v \in 0..31 \/ v \in 32..63 \/ v \in 64..115
    BY DEF QpMap
  <1>2. CASE v \in 0..31
    <2>1. c \in 0..v /\ (q <= p.max_bg_qp => q + c <= p.max_bg_qp)
      BY <1>0, <1>2, Caps DEF QpMap
    <2>2. c \in QpMap /\ c <= 31
      BY <2>1, <1>2 DEF QpMap
    <2>3. w \in 0..c
      <3> HIDE DEF c
      <3> QED BY <1>0, <2>2, Lowers
    <2> HIDE DEF c, w
    <2>4. w \in 0..v /\ (q <= p.max_bg_qp => q + w <= p.max_bg_qp)
      BY <1>0, <1>2, <2>1, <2>3 DEF Qp
    <2> QED
      BY <1>1, <1>2, <2>4, MadeOfPositive
  <1>3. CASE v \in 32..63
    <2>1. c = v
      BY <1>0, <1>3, Caps DEF QpMap
    <2>2. w = v
      <3> HIDE DEF c
      <3> QED BY <1>0, <1>3, <2>1, Lowers
    <2> HIDE DEF w
    <2>3. v \in {0} \cup v..63
      BY <1>3
    <2> QED
      BY <1>1, <1>3, <2>2, <2>3, MadeOfNegative
  <1>4. CASE v \in 64..115
    <2>1. c = v
      BY <1>0, <1>4, Caps DEF QpMap
    <2>2. w = v
      <3> HIDE DEF c
      <3> QED BY <1>0, <1>4, <2>1, Lowers
    <2> QED
      BY <1>1, <1>4, <2>2, MadeOfAbsolute
  <1> HIDE DEF c, w
  <1> QED
    BY <1>2, <1>3, <1>4, <1>5

(* A round, region by region.                                               *)
LEMMA RoundMade ==
  ASSUME NEW s \in [Region -> QpMap], NEW p \in Param, NEW q \in Qp, NEW r \in Region
  PROVE  Made(s[r], Adjusted(s, p, q)[r], p, q, r \in Fg)
  <1>0. s[r] \in QpMap
    OBVIOUS
  <1>1. CASE r \in Fg
    <2>1. Adjusted(s, p, q)[r] = FgAdjusted(s[r], p, q)
      BY <1>1 DEF Adjusted
    <2> QED
      BY <1>0, <1>1, <2>1, FgMade
  <1>2. CASE r \notin Fg /\ r = Roi
    <2>1. Adjusted(s, p, q)[r] = RoiAdjusted(s[r], p, q)
      BY <1>2 DEF Adjusted
    <2> QED
      BY <1>0, <1>2, <2>1, RoiMade DEF Made
  <1>3. CASE r \notin Fg /\ r # Roi
    <2>1. Adjusted(s, p, q)[r] = BgAdjusted(s[r], p, q)
      BY <1>3 DEF Adjusted
    <2> QED
      BY <1>0, <1>3, <2>1, BgMade DEF Made
  <1> QED
    BY <1>1, <1>2, <1>3

-----------------------------------------------------------------------------
(* The inductive invariant: which parameters the thread works with, where   *)
(* the values it has filled in come from, what the encoder was given.       *)
ItsParams ==
  /\ pc \in {"init", "running", "join"} => param = conf
  /\ pc = "init" => tpc = "none"
  /\ tpc # "none" => limit = conf

(* A value filled in is the configured one, or zero when it was cleared.    *)
FromConf(r) == svc[r] = conf.qpmap[r] \/ (svc[r] = 0 /\ pc \notin {"running", "join"})

Filled ==
  /\ tpc = "rest" => \A r \in Fg : FromConf(r)
  /\ tpc = "set" => \A r \in Region : FromConf(r)

(* What was given was made from such values in one round, or is the zeros   *)
(* of the beginning.                                                        *)
GivenMade ==
  \A r \in Region :
    \E v \in {conf.qpmap[r], 0} :
      /\ Made(v, Given(r), conf, applied.start_qp, r \in Fg)
      /\ tpc = "get" /\ pc = "running" => v = conf.qpmap[r]

(* The still percentage of the beginning is remembered before it changes.   *)
Percent ==
  /\ pc = "init" => org = -1
  /\ org = -1 => rc = setup /\ tpc # "still"
  /\ org # -1 => org = setup.min_still_percent
  /\ StillOnce

IInv == TypeOK /\ ItsParams /\ Filled /\ GivenMade /\ Percent

-----------------------------------------------------------------------------
(* Between 5 and 100 percent, whatever the mode.                            *)
LEMMA StillPercent ==
  ASSUME NEW mode \in 0..2, NEW percent \in 0..100
  PROVE  Still(mode, percent) \in 0..100
  <1>1. \A x \in Int : Clip3(5, 100, x) \in 0..100
    BY DEF Clip3, Greatest, Least
  <1>2. (percent * 128) \div 128 \in Int /\ (percent * 110) \div 128 \in Int
    OBVIOUS
  <1> DEFINE x == CASE mode = 2 -> (percent * 128) \div 128
                    [] mode = 1 -> (percent * 110) \div 128
                    [] OTHER -> 0
  <1>3. x \in Int
    BY <1>2
  <1> QED
    BY <1>1, <1>3 DEF Still

LEMMA ZerosIsParam == Zeros \in Param
  BY DEF Zeros, Param, QpMap, Qp

LEMMA StartsRight == Init => IInv
  <1> SUFFICES ASSUME Init PROVE IInv
    OBVIOUS
  <1> USE ZerosIsParam, ParamsAssumption, RcsAssumption DEF Init
  <1>1. Zeros.qpmap = [r \in Region |-> 0] /\ Zeros.qpmap \in [Region -> QpMap]
    BY DEF Zeros, QpMap
  <1>2. TypeOK
    <2>1. conf \in Param /\ setup \in Rc
      OBVIOUS
    <2>2. applied \in [qpmap : [Region -> QpMap], start_qp : Qp]
      BY <1>1 DEF Qp
    <2>3. flag \in BOOLEAN /\ avbr \in BOOLEAN
      BY Zenon
    <2>4. {setup, rc} \subseteq Rc
      BY <2>1
    <2>5. pc \in {"init", "running", "join", "cleared", "exited"} /\ start_qp \in Qp
          /\ tpc \in {"none", "loop", "fg", "rest", "set", "get", "still", "done"}
          /\ svc \in [Region -> QpMap] /\ org \in -1..100
          /\ param \in {conf, Zeros} /\ limit \in {conf, Zeros}
      BY <1>1 DEF Qp
    <2> HIDE DEF Init
    <2> QED
      BY <2>1, <2>2, <2>3, <2>4, <2>5 DEF TypeOK
  <1>3. ItsParams /\ Filled
    BY DEF ItsParams, Filled
  <1>4. GivenMade
    <2> SUFFICES ASSUME NEW r \in Region
                 PROVE  Made(0, Given(r), conf, applied.start_qp, r \in Fg)
      BY DEF GivenMade
    <2>1. Given(r) = 0 /\ applied.start_qp = 0
      BY <1>1 DEF Given
    <2>2. Made(0, 0, conf, 0, r \in Fg)
      <3>1. conf \in Param /\ 0 \in Qp /\ conf.max_bg_qp \in Qp /\ conf.max_fg_qp \in Qp
        BY DEF Param, Qp
      <3>2. 0 \in 0..31 /\ 0 \in 0..0 /\ (r \in Fg) \in BOOLEAN
            /\ (0 <= conf.max_bg_qp => 0 + 0 <= conf.max_bg_qp)
            /\ (0 <= conf.max_fg_qp => 0 + 0 <= conf.max_fg_qp)
        OBVIOUS
      <3> HIDE DEF Init
      <3> QED
        BY <3>1, <3>2, MadeOfPositive
    <2> QED
      BY <2>1, <2>2
  <1>5. Percent
    BY DEF Percent, StillOnce
  <1> QED
    BY <1>2, <1>3, <1>4, <1>5 DEF IInv

(* What was given stays made when neither it nor the configuration changes  *)
(* and no round ends.                                                       *)
LEMMA GivenStays ==
  ASSUME GivenMade, UNCHANGED <<applied, conf>>,
         tpc' = "get" /\ pc' = "running" => tpc = "get" /\ pc = "running"
  PROVE  GivenMade'
  BY DEF GivenMade, Given

(* One step per action: Main's.                                             *)
LEMMA MainKeeps ==
  ASSUME IInv, Main
  PROVE  IInv'
  <1> USE DEF IInv
  <1>1. CASE InitRateAuto
    <2> USE <1>1 DEF InitRateAuto, encoder
    <2>1. TypeOK' BY DEF TypeOK, ItsParams
    <2>2. ItsParams' BY DEF ItsParams
    <2>3. Filled' BY DEF Filled, ItsParams
    <2>4. GivenMade' BY GivenStays
    <2>5. Percent' BY DEF Percent, StillOnce
    <2> QED BY <2>1, <2>2, <2>3, <2>4, <2>5
  <1>2. CASE Stop
    <2> USE <1>2 DEF Stop, thread, encoder
    <2>1. TypeOK' BY DEF TypeOK
    <2>2. ItsParams' BY DEF ItsParams
    <2>3. Filled' BY DEF Filled, FromConf
    <2>4. GivenMade' BY GivenStays
    <2>5. Percent' BY DEF Percent, StillOnce
    <2> QED BY <2>1, <2>2, <2>3, <2>4, <2>5
  <1>3. CASE Clear
    <2> USE <1>3 DEF Clear, thread, encoder
    <2>1. TypeOK' BY ZerosIsParam DEF TypeOK
    <2>2. ItsParams' BY DEF ItsParams
    <2>3. Filled' BY DEF Filled, FromConf
    <2>4. GivenMade' BY GivenStays
    <2>5. Percent' BY DEF Percent, StillOnce
    <2> QED BY <2>1, <2>2, <2>3, <2>4, <2>5
  <1>4. CASE Exit
    <2> USE <1>4 DEF Exit, thread, encoder
    <2>1. TypeOK' BY DEF TypeOK
    <2>2. ItsParams' BY DEF ItsParams
    <2>3. Filled' BY DEF Filled, FromConf
    <2>4. GivenMade' BY GivenStays
    <2>5. Percent' BY DEF Percent, StillOnce
    <2> QED BY <2>1, <2>2, <2>3, <2>4, <2>5
  <1> QED
    BY <1>1, <1>2, <1>3, <1>4 DEF Main

(* What is filled in is the configured value as long as the program has not *)
(* cleared the parameters.                                                  *)
LEMMA Fills ==
  ASSUME TypeOK, ItsParams, NEW r \in Region
  PROVE  /\ param.qpmap[r] = conf.qpmap[r]
            \/ (param.qpmap[r] = 0 /\ pc \notin {"running", "join"})
         /\ param.qpmap[r] \in QpMap
  <1>1. param = conf \/ (param = Zeros /\ pc \notin {"running", "join"})
    BY DEF TypeOK, ItsParams
  <1>2. Zeros.qpmap[r] = 0
    BY DEF Zeros
  <1>3. conf.qpmap[r] \in QpMap
    BY DEF TypeOK, Param
  <1> QED
    BY <1>1, <1>2, <1>3 DEF QpMap

LEMMA ThreadKeeps ==
  ASSUME IInv, Thread
  PROVE  IInv'
  <1> USE DEF IInv, Step
  <1>1. CASE Query
    <2> USE <1>1 DEF Query, encoder
    <2>1. TypeOK' BY StartQpsAssumption DEF TypeOK
    <2>2. ItsParams' BY DEF ItsParams
    <2>3. Filled' BY DEF Filled
    <2>4. GivenMade' BY GivenStays
    <2>5. Percent' BY DEF Percent, StillOnce
    <2> QED BY <2>1, <2>2, <2>3, <2>4, <2>5
  <1>2. CASE ThreadEnds
    <2> USE <1>2 DEF ThreadEnds, encoder
    <2>1. TypeOK' BY DEF TypeOK
    <2>2. ItsParams' BY DEF ItsParams
    <2>3. Filled' BY DEF Filled
    <2>4. GivenMade' BY GivenStays
    <2>5. Percent' BY DEF Percent, StillOnce
    <2> QED BY <2>1, <2>2, <2>3, <2>4, <2>5
  <1>3. CASE FillFg
    <2> USE <1>3 DEF FillFg, encoder
    <2>1. svc' \in [Region -> QpMap]
      BY Fills DEF TypeOK
    <2>2. TypeOK' BY <2>1 DEF TypeOK
    <2>3. ItsParams' BY DEF ItsParams
    <2>4. Filled' BY Fills DEF Filled, FromConf, Region
    <2>5. GivenMade' BY GivenStays
    <2>6. Percent' BY DEF Percent, StillOnce
    <2> QED BY <2>2, <2>3, <2>4, <2>5, <2>6
  <1>4. CASE FillRest
    <2> USE <1>4 DEF FillRest, encoder
    <2>1. svc' \in [Region -> QpMap]
      BY Fills DEF TypeOK
    <2>2. TypeOK' BY <2>1 DEF TypeOK
    <2>3. ItsParams' BY DEF ItsParams
    <2>4. Filled' BY Fills DEF Filled, FromConf
    <2>5. GivenMade' BY GivenStays
    <2>6. Percent' BY DEF Percent, StillOnce
    <2> QED BY <2>2, <2>3, <2>4, <2>5, <2>6
  <1>5. CASE SetSvc
    <2> USE <1>5 DEF SetSvc, encoder
    <2>1. limit = conf /\ conf \in Param /\ start_qp \in Qp /\ svc \in [Region -> QpMap]
      BY DEF TypeOK, ItsParams
    <2>2. \A r \in Region : Made(svc[r], svc'[r], conf, start_qp, r \in Fg)
      BY <2>1, RoundMade
    <2>3. svc' \in [Region -> QpMap]
      <3>1. \A r \in Region : svc'[r] \in QpMap
        BY <2>2 DEF Made
      <3>2. svc' = [r \in Region |-> svc'[r]]
        BY DEF Adjusted
      <3> QED
        BY <3>1, <3>2
    <2>4. TypeOK' BY <2>1, <2>3 DEF TypeOK
    <2>5. ItsParams' BY DEF ItsParams
    <2>6. Filled' BY DEF Filled
    <2>7. GivenMade'
      <3> SUFFICES ASSUME NEW r \in Region
                   PROVE  \E v \in {conf.qpmap[r], 0} :
                            /\ Made(v, svc'[r], conf, start_qp, r \in Fg)
                            /\ pc = "running" => v = conf.qpmap[r]
        BY DEF GivenMade, Given
      <3>1. FromConf(r)
        BY DEF Filled
      <3>2. svc[r] \in {conf.qpmap[r], 0} /\ (pc = "running" => svc[r] = conf.qpmap[r])
        BY <3>1 DEF FromConf
      <3> QED
        BY <2>2, <3>2
    <2>8. Percent' BY DEF Percent, StillOnce
    <2> QED BY <2>4, <2>5, <2>6, <2>7, <2>8
  <1>6. CASE SkipAvbr
    <2> USE <1>6 DEF SkipAvbr, encoder
    <2>1. TypeOK' BY DEF TypeOK
    <2>2. ItsParams' BY DEF ItsParams
    <2>3. Filled' BY DEF Filled
    <2>4. GivenMade' BY GivenStays
    <2>5. Percent' BY DEF Percent, StillOnce
    <2> QED BY <2>1, <2>2, <2>3, <2>4, <2>5
  <1>7. CASE GetAvbr
    <2> USE <1>7 DEF GetAvbr, encoder
    <2>1. setup.min_still_percent \in 0..100 /\ rc.min_still_percent \in 0..100
      BY DEF TypeOK, Rc
    <2>2. org' = setup.min_still_percent
      BY DEF Remembered, Percent
    <2>3. TypeOK' BY <2>1, <2>2 DEF TypeOK
    <2>4. ItsParams' BY DEF ItsParams
    <2>5. Filled' BY DEF Filled
    <2>6. GivenMade' BY GivenStays
    <2>7. Percent' BY <2>1, <2>2 DEF Percent, StillOnce, ItsParams
    <2> QED BY <2>3, <2>4, <2>5, <2>6, <2>7
  <1>8. CASE SetAvbr
    <2> USE <1>8 DEF SetAvbr, encoder
    <2>1. org = setup.min_still_percent /\ org \in 0..100
      BY DEF TypeOK, Rc, Percent
    <2>2. param \in Param /\ param.avbr_rate_control \in 0..2
      BY ZerosIsParam DEF TypeOK, Param
    <2>3. rc' \in Rc
      <3>1. rc.min_i_qp \in Qp /\ rc.min_qp \in Qp
        BY DEF TypeOK, Rc
      <3>2. Greatest(rc.min_i_qp, 26) \in Qp /\ Greatest(rc.min_qp, 28) \in Qp
        BY <3>1 DEF Greatest, Qp
      <3>3. Still(param.avbr_rate_control, org) \in 0..100
        BY <2>1, <2>2, StillPercent
      <3> QED
        BY <3>1, <3>2, <3>3 DEF Rc
    <2>4. TypeOK' BY <2>3 DEF TypeOK
    <2>5. ItsParams' BY DEF ItsParams
    <2>6. Filled' BY DEF Filled
    <2>7. GivenMade' BY GivenStays
    <2>8. Percent'
      <3>1. rc'.min_still_percent = Still(param.avbr_rate_control, setup.min_still_percent)
        BY <2>1
      <3>2. pc = "running" => param = conf
        BY DEF ItsParams
      <3> QED
        BY <2>1, <3>1, <3>2 DEF Percent, StillOnce
    <2> QED BY <2>4, <2>5, <2>6, <2>7, <2>8
  <1> QED
    BY <1>1, <1>2, <1>3, <1>4, <1>5, <1>6, <1>7, <1>8 DEF Thread

(* The invariant holds in every state: main can stop and clear at any step  *)
(* of the thread.                                                           *)
THEOREM RateInvariant == Spec => []IInv
  <1>1. ASSUME IInv, [Next]_vars PROVE IInv'
    <2>1. CASE Main
      BY <1>1, <2>1, MainKeeps
    <2>2. CASE Thread
      BY <1>1, <2>2, ThreadKeeps
    <2>3. CASE UNCHANGED vars
      BY <1>1, <2>3 DEF vars, thread, encoder, IInv, TypeOK, ItsParams, Filled, FromConf,
                        GivenMade, Given, Percent, StillOnce
    <2> QED
      BY <1>1, <2>1, <2>2, <2>3 DEF Next
  <1> QED
    BY StartsRight, <1>1, PTL DEF Spec

-----------------------------------------------------------------------------
(* Every variable keeps its type.                                           *)
THEOREM RateTypes == Spec => []TypeOK
  BY RateInvariant, PTL DEF IInv

(* No relative value leads a region beyond a limit the start QP keeps to    *)
(* (the comments of rate_auto_proc, lines 335 and 340).                     *)
THEOREM BoundsHold == Spec => []QpBounds
  <1>1. IInv => QpBounds
    <2> SUFFICES ASSUME IInv, NEW r \in Region, Relative(Given(r))
                 PROVE  /\ applied.start_qp <= conf.max_bg_qp => Led(r) <= conf.max_bg_qp
                        /\ r \in Fg /\ applied.start_qp <= conf.max_fg_qp
                             => Led(r) <= conf.max_fg_qp
                        /\ r \in Fg /\ applied.start_qp >= conf.min_fg_qp
                             => Led(r) >= conf.min_fg_qp
      BY DEF QpBounds
    <2>1. PICK v \in {conf.qpmap[r], 0} :
            Made(v, Given(r), conf, applied.start_qp, r \in Fg)
      BY DEF IInv, GivenMade
    <2>2. v \in QpMap
      BY DEF IInv, TypeOK, Param, QpMap
    <2>3. Given(r) \in QpMap
      BY <2>1 DEF Made
    <2>4. v < 64
      BY <2>1, <2>2, <2>3, Values DEF Made, QpMap
    <2> QED
      BY <2>1, <2>4 DEF Made, Led
  <1> QED
    BY <1>1, RateInvariant, PTL

(* Finer stays finer or becomes neutral, coarser stays coarser or becomes   *)
(* neutral.                                                                 *)
THEOREM SignsHold == Spec => []SignKept
  <1>1. IInv => SignKept
    <2> SUFFICES ASSUME IInv, NEW r \in Region, Relative(conf.qpmap[r])
                 PROVE  /\ Relative(Given(r))
                        /\ DeltaQp(conf.qpmap[r]) <= 0 =>
                             DeltaQp(Given(r)) \in DeltaQp(conf.qpmap[r])..0
                        /\ DeltaQp(conf.qpmap[r]) >= 0 =>
                             DeltaQp(Given(r)) \in 0..DeltaQp(conf.qpmap[r])
      BY DEF SignKept
    <2>1. PICK v \in {conf.qpmap[r], 0} :
            Made(v, Given(r), conf, applied.start_qp, r \in Fg)
      BY DEF IInv, GivenMade
    <2>2. conf.qpmap[r] \in QpMap /\ 0 \in QpMap /\ Given(r) \in QpMap
      BY <2>1 DEF IInv, TypeOK, Param, QpMap, Made
    <2>3. conf.qpmap[r] < 64
      BY <2>2, Values
    <2>4. Relative(Given(r))
      BY <2>1, <2>2, <2>3, Values DEF Made
    <2>5. DeltaQp(0) = 0 /\ DeltaQp(conf.qpmap[r]) \in Int
      BY <2>2, <2>3, Values DEF QpMap
    <2>6. CASE v = conf.qpmap[r]
      BY <2>1, <2>3, <2>4, <2>6 DEF Made
    <2>7. CASE v = 0
      <3>1. DeltaQp(Given(r)) \in 0..0
        BY <2>1, <2>5, <2>7 DEF Made
      <3> QED
        BY <2>4, <2>5, <3>1
    <2> QED
      BY <2>6, <2>7
  <1> QED
    BY <1>1, RateInvariant, PTL

(* An absolute QP reaches the encoder unchanged in every round until the   *)
(* program stops, whatever the start QP.                                    *)
AbsoluteKept ==
  pc = "running" /\ tpc = "get" =>
    \A r \in Region : ~Relative(conf.qpmap[r]) => Given(r) = conf.qpmap[r]

(* An absolute QP reaches the encoder as it was configured.                 *)
THEOREM AbsoluteHolds == Spec => []AbsoluteKept
  <1>1. IInv => AbsoluteKept
    <2> SUFFICES ASSUME IInv, pc = "running", tpc = "get", NEW r \in Region,
                        ~Relative(conf.qpmap[r])
                 PROVE  Given(r) = conf.qpmap[r]
      BY DEF AbsoluteKept
    <2>1. Made(conf.qpmap[r], Given(r), conf, applied.start_qp, r \in Fg)
      BY DEF IInv, GivenMade
    <2>2. conf.qpmap[r] \in QpMap
      BY DEF IInv, TypeOK, Param
    <2>3. conf.qpmap[r] >= 64
      BY <2>2, Values DEF QpMap
    <2> QED
      BY <2>1, <2>3 DEF Made
  <1> QED
    BY <1>1, RateInvariant, PTL

(* The still percentage is never a share of a share, in any number of       *)
(* rounds.                                                                  *)
THEOREM StillHolds == Spec => []StillOnce
  BY RateInvariant, PTL DEF IInv, Percent
=============================================================================
