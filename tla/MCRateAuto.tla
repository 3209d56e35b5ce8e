----------------------------- MODULE MCRateAuto -----------------------------
(* A small instance of RateAuto for TLC. *)
EXTENDS RateAuto

QpMapSets == [f0 |-> {0, 4, 31, 32, 58, 63, 64, 115}, roi |-> {5, 60, 70},
              bg |-> {4, 31, 62}]
MaxBg == {24, 35, 45}
MinFg == {24, 40}
MaxFg == {24, 45}

(* QP maps with every order of the limits, and the modes of AVBR.          *)
MCParams ==
  { [qpmap |-> m, max_bg_qp |-> b, min_fg_qp |-> f, max_fg_qp |-> g,
     avbr_rate_control |-> 0] :
      m \in { n \in [Region -> UNION {QpMapSets[r] : r \in DOMAIN QpMapSets}] :
                 \A r \in Region : n[r] \in QpMapSets[r] },
      b \in MaxBg, f \in MinFg, g \in MaxFg }
  \cup
  { [qpmap |-> [r \in Region |-> 0], max_bg_qp |-> 35, min_fg_qp |-> 30,
     max_fg_qp |-> 35, avbr_rate_control |-> c] : c \in 1..2 }

MCRcs == { [min_still_percent |-> 3, min_i_qp |-> 24, min_qp |-> 30],
           [min_still_percent |-> 100, min_i_qp |-> 27, min_qp |-> 27] }
=============================================================================
