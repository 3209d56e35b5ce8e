------------------------------ MODULE VioScripts ------------------------------
(***************************************************************************)
(* vio/sample_vio.c: the routes from a sensor to display and encoder, one   *)
(* program per entry of its menu.                                           *)
(***************************************************************************)
EXTENDS CommonScripts

\* The pools stay when the VI-VPSS mode is refused: no caller exits the system then.
Vio_sys_init == Do(Sys_init_with_vb_supplement, <<>>) \o Try(<<>>) \o Try(<<>>)
VioSysLeaks  == {"vb", "sys"}

Vio_start_vpss(g) ==
  LET Undo == Vpss_stop(g, <<0>>)
  IN Rung(
       Do(Vpss_start(g, <<0>>), <<>>) \o Try(Undo), Undo)

Windows(n)      == IF n > 1 THEN 4 ELSE 1

Vio_start_venc_and_vo(n) ==
  LET Vio_start_vo(k) == Rung(Vo_start(0, Windows(k), "hdmi"), Vo_stop(0, Windows(k), "hdmi"))
      Vio_start_venc(j) ==
        Rung(
          EachOrUndo(j, Venc_start, Venc_stop) \o Do(Venc_start_get_stream, EachBack(j, Venc_stop)),
          Venc_stop_get_stream(j) \o Each(j, Venc_stop))
  IN Rung(
       LET Bind(i) == Lax(Vpss_bind_vo(i).up) \o Lax(Vpss_bind_venc(i).up)
       IN Do(Vio_start_vo(n).up, <<>>) \o Do(Vio_start_venc(n).up, Vio_start_vo(n).down) \o Each(n, Bind),
       LET Unbind(i) == Vpss_bind_vo(i).down \o Vpss_bind_venc(i).down
       IN Each(n, Unbind) \o Vio_start_venc(n).down \o Vio_start_vo(n).down)

\* One sensor on camera 0 with n exposures; between is what the program does while it runs.
VioRungs(n, run) ==
  << Rung(Vio_sys_init, Sys_exit),
     Rung(Start_vi_run(0, n, run) \o Lax(Vi_bind_vpss(0).up), Vi_bind_vpss(0).down \o Stop_vi(0, n)),
     Vio_start_vpss(0),
     Vio_start_venc_and_vo(1) >>
VioRoute(n, run, between) == Up(VioRungs(n, run)) \o between \o Down(VioRungs(n, run))
VioLeaks == VioSysLeaks \cup ViLeaks \cup VoLeaks \cup VencLeaks

Vio_all_mode == VioRoute(1, TRUE, <<>>)
Vio_wdr      == VioRoute(2, TRUE, <<>>)

\* The frames are fed by a thread of the program, which the ISP waits for.
Vio_wdr_send_frame == VioRoute(2, FALSE, Lax(Send_wdr_frame))

Vio_fpn ==
  LET
      \* The blocks of the calibration are 0 and 1, the one of the correction 2.
      Vio_do_fpn_calibrate_and_correction ==
        LET Vio_restart_get_venc_stream(n) ==
              LET Start(c) == Get("venc_on", c, <<>>)
              IN Lax(Each(n, Start) \o Venc_start_get_stream)
        IN Venc_stop_get_stream(1) \o Lax(Fpn_calibrate(0, 2)) \o Vio_restart_get_venc_stream(1)
           \o Lax(Enable_fpn_correction(2))
  IN VioRoute(1, TRUE, Vio_do_fpn_calibrate_and_correction \o Disable_fpn_correction(2))

Vio_ldc_dis ==
  LET Vio_set_dis_en == Lax(Try(<<>>)) \o Lax(Try(<<>>))
      Vio_switch_ldc_dis_en ==
        LET Vio_set_ldc_en == Lax(Try(<<>>))
        IN Vio_set_dis_en \o Vio_set_ldc_en \o Vio_set_ldc_en \o Vio_set_dis_en
  IN VioRoute(1, TRUE, Vio_switch_ldc_dis_en)

Vio_lowdelay ==
  LET Vio_switch_low_delay == LET Set(i) == Lax(Try(<<>>)) IN Each(4, Set)
  IN VioRoute(1, TRUE, Vio_switch_low_delay)

Vio_user_pic ==
  LET
      \* A picture from a file in turn with a plain background; the first that cannot be
      \* loaded ends the round.
      Switch_user_pic ==
        LET Show(frame) == Lax(Try(<<>>)) \o Lax(Try(<<>>)) \o Lax(Try(<<>>)) \o When(frame, Unload_user_pic(0))
        IN Lax(Do(Load_user_pic(0), <<>>) \o Show(TRUE) \o Show(FALSE))
  IN VioRoute(1, TRUE, Switch_user_pic)

------------------------------------------------------------------------------
(* Two modes in a row: the second starts on what the first left running.      *)

FirstRungs ==
  << Rung(Start_vi(0, 1) \o Lax(Vi_bind_vpss(0).up), Vi_bind_vpss(0).down \o Stop_vi(0, 1)),
     Vio_start_vpss(0),
     Vio_start_venc_and_vo(1) >>
Vio_switch_first_route ==
  Up(FirstRungs) \o Vio_start_venc_and_vo(1).down \o Vio_start_vpss(0).down
  \o Vi_bind_vpss(0).down \o Mode_switch_stop_vi(0, 1)

\* n exposures now. When video input does not start again its ISP, still running, stays.
Vio_switch_second_route(n) ==
  LET rungs == << Rung(Mode_switch_start_vi(0, n) \o Lax(Vi_bind_vpss(0).up), Vi_bind_vpss(0).down
  \o Stop_vi(0, n)),
                  Vio_start_vpss(0),
                  Vio_start_venc_and_vo(1) >>
  IN Ladder(rungs)
Vio_switch_resolution_route == Vio_switch_second_route(1)

Vio_switch_mode ==
  Do(Vio_sys_init, <<>>) \o Do(Vio_switch_first_route, Sys_exit)
  \o Do(Vio_switch_second_route(2), Sys_exit) \o Sys_exit
Vio_switch_resolution ==
  Do(Vio_sys_init, <<>>) \o Do(Vio_switch_first_route, Sys_exit)
  \o Do(Vio_switch_resolution_route, Sys_exit) \o Sys_exit

------------------------------------------------------------------------------
(* Channel 9 of the pipe is an extended one, taken before the correction.     *)
Ext == 9

Vio_set_fisheye_param   == Lax(Try(<<>>)) \o Lax(Try(<<>>))
Vio_start_vi_ext_chn == Rung(Try(<<>>) \o Get("vi_chn", Ext, <<>>), Free("vi_chn", Ext))

\* An extended channel that does not start leaves video input running.
DoubleRungs ==
  << Rung(Start_vi(0, 1), <<>>),
     Rung(Vio_start_vi_ext_chn.up \o Lax(Vi_bind_vpss(0).up),
          Vi_bind_vpss(0).down \o Vio_start_vi_ext_chn.down \o Stop_vi(0, 1)),
     Rung(Vio_start_vpss(0).up \o Lax(Vi_bind_vpss(1).up), Vi_bind_vpss(1).down \o Vio_start_vpss(0).down),
     Vio_start_vpss(1) >>
Vio_start_vi_vpss_double_chn_route == Up(DoubleRungs)

Vio_fisheye ==
  LET Vio_stop_vi_vpss_double_chn_route ==
        Vio_start_vpss(1).down \o Vi_bind_vpss(1).down \o Vio_start_vpss(0).down \o Vi_bind_vpss(0).down
        \o Vio_start_vi_ext_chn.down \o Stop_vi(0, 1)
      rungs == << Rung(Vio_sys_init, Sys_exit),
                  Rung(Vio_start_vi_vpss_double_chn_route, Vio_stop_vi_vpss_double_chn_route),
                  Vio_start_venc_and_vo(2) >>
  IN Up(rungs) \o Vio_set_fisheye_param \o Down(rungs)
FisheyeLeaks == VioLeaks \cup ViKinds

------------------------------------------------------------------------------
(* Several sensors, each with a group and an encoder channel of its own.      *)

Vio_start_multi_vi_vpss(n) ==
  LET StartVi(c)  == Start_vi(c, 1)
      StopVi(c)   == Stop_vi(c, 1)
      Bind(g)     == Lax(Vi_bind_vpss(g).up)
  IN Up(<< Rung(EachOrUndo(n, StartVi, StopVi) \o Each(n, Bind), Each(n, LAMBDA i : Vi_bind_vpss(i).down)
     \o EachBack(n, StopVi)),
           Rung(EachOrUndo(n, LAMBDA i : Vio_start_vpss(i).up, LAMBDA i : Vio_start_vpss(i).down), <<>>) >>)
Vio_two_sensor ==
  LET StopVi(c) == Stop_vi(c, 1)
  IN Ladder(<< Rung(Vio_sys_init, Sys_exit),
               Rung(Vio_start_multi_vi_vpss(2),
                    Each(2, LAMBDA i : Vio_start_vpss(i).down) \o Each(2, LAMBDA i : Vi_bind_vpss(i).down)
                    \o Each(2, StopVi)),
               Vio_start_venc_and_vo(2) >>)
Vio_four_sensor ==
  LET StopOne(g) == Vio_start_vpss(g).down \o Vi_bind_vpss(g).down
  IN Ladder(<< Rung(Vio_sys_init, Sys_exit),
               Rung(Vio_start_multi_vi_vpss(4), Each(4, StopOne) \o Stop_four_vi(4)),
               Vio_start_venc_and_vo(4) >>)

VioPrograms ==
  [vio_all_mode          |-> Program(Vio_all_mode, VioLeaks),
   vio_wdr               |-> Program(Vio_wdr, VioLeaks),
   vio_fpn               |-> Flawed(Vio_fpn, VioLeaks \cup FpnLeaks, {"pool"},
                                    {"blk", "blk_map", "pool", "stream_thread"}),
   vio_ldc_dis           |-> Program(Vio_ldc_dis, VioLeaks),
   vio_fisheye           |-> Program(Vio_fisheye, FisheyeLeaks),
   vio_lowdelay          |-> Program(Vio_lowdelay, VioLeaks),
   vio_user_pic          |-> Program(Vio_user_pic, VioLeaks \cup VgsLeaks),
   vio_two_sensor        |-> Program(Vio_two_sensor, VioLeaks),
   vio_four_sensor       |-> Program(Vio_four_sensor, VioLeaks),
   vio_switch_mode       |-> Program(Vio_switch_mode, VioLeaks \cup SwitchLeaks),
   vio_wdr_send_frame    |-> Program(Vio_wdr_send_frame, VioLeaks),
   vio_wdr_sender        |-> Flawed(Wdr_dump_and_send(2) \o Wdr_dump_and_send(2), {}, {}, {"raw_frame"}),
   vio_switch_resolution |-> Program(Vio_switch_resolution, VioLeaks \cup SwitchLeaks)]
==============================================================================
