----------------------------- MODULE MCSceneAuto -----------------------------
(* A small instance of SceneAuto for TLC. *)
EXTENDS SceneAuto

Pipe(on, hdl, vcap, idx) ==
  [on |-> on, main |-> hdl, vcap |-> vcap, idx |-> idx, snap |-> FALSE]

(* Two pipes on their own, as in the configuration of the mcf sensor; both  *)
(* pipes under one main pipe, with WDR; an array that a pipe does not fit.  *)
Apart == [wdr |-> FALSE, attr |-> 0 :> Pipe(TRUE, 0, 0, 0) @@ 1 :> Pipe(TRUE, 1, 1, 1)]
One == [wdr |-> TRUE, attr |-> 0 :> Pipe(TRUE, 0, 0, 1) @@ 1 :> Pipe(FALSE, 0, 1, 0)]
Together == [wdr |-> TRUE, attr |-> 0 :> Pipe(TRUE, 1, 0, 1) @@ 1 :> Pipe(TRUE, 1, 1, 0)]
Wrong == [wdr |-> FALSE, attr |-> 0 :> Pipe(TRUE, 0, 1, 0) @@ 1 :> Pipe(FALSE, 0, 1, 0)]

(* The two threads that always run and share the lock with the menu         *)
(* together, the others, which take no lock, alone.                         *)
MCWatches == {{"luminance", "normal"}, {"not_linear"}, {"venc"}}
MCModes == {One, Apart, Wrong}
=============================================================================
