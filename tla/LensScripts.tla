----------------------------- MODULE LensScripts -----------------------------
(***************************************************************************)
(* fisheye/, dis/: what a lens does to a picture, and what a moving camera  *)
(* does, is corrected in VI, by a job of the GDC unit, or with a gyroscope.  *)
(***************************************************************************)
EXTENDS CommonScripts

(* fisheye/sample_fisheye.c                                                   *)

Fisheye_sys_init   == Do(Sys_init, Sys_exit)
\* A window that cannot be bound goes behind every label: all parts stay.
\* The encoder is not destroyed.
Fisheye_start_vi_vo_venc ==
  LET Fisheye_start_venc == Try(<<>>) \o Do(Venc_start(0), <<>>)
  IN Rung(
       Up(<< Rung(Start_vi(0, 1), Stop_vi(0, 1)), Rung(Fisheye_start_venc, Venc_stop(0)),
             Rung(Vo_start(0, 1, "hdmi"), Vo_stop(0, 1, "hdmi")), Rung(Vi_bind_venc(0).up, <<>>) >>)
       \o Do(Vi_bind_vo(0).up, <<>>),
       Vi_bind_venc(0).down \o Vi_bind_vo(0).down \o Vo_stop(0, 1, "hdmi") \o Stop_vi(0, 1))
Fisheye_start_vi_vo ==
  Rung(
    Do(Start_vi(0, 1), <<>>) \o Do(Vo_start(0, 1, "hdmi"), Stop_vi(0, 1)),
    Vo_stop(0, 1, "hdmi") \o Stop_vi(0, 1))

\* The flag the thread runs by is set first, and nobody checks whether the thread is there.
Start_set_fisheye_attr_thread ==
  Rung(
    Note("fisheye_start", 0) \o Lax(Get("fisheye_thread", 0, <<>>)),
    IfHeld("fisheye_start", 0, Free("fisheye_start", 0) \o Free("fisheye_thread", 0)))
Stop_switch_mode_thread == Start_set_fisheye_attr_thread.down

\* change: what a mode sets on the channel, and does until it is told to stop.
FisheyeRoute(change) ==
  Do(Fisheye_sys_init, <<>>) \o Do(Fisheye_start_vi_vo_venc.up, Sys_exit)
  \o Do(Venc_start_get_stream, Fisheye_start_vi_vo_venc.down \o Sys_exit)
  \o Do(change, Venc_stop_get_stream(1) \o Fisheye_start_vi_vo_venc.down \o Sys_exit)
  \o Venc_stop_get_stream(1) \o Fisheye_start_vi_vo_venc.down \o Sys_exit
Set_chn_fisheye_360     == Try(<<>>) \o Try(<<>>) \o Try(<<>>)
Fisheye_360_celing_2_half == FisheyeRoute(Try(<<>>) \o Set_chn_fisheye_360)
Fisheye_360_desktop       == FisheyeRoute(Set_chn_fisheye_360)
Fisheye_180_wall == FisheyeRoute(Try(<<>>) \o Start_set_fisheye_attr_thread.up \o Start_set_fisheye_attr_thread.down)
Fisheye_source_and_3_normal ==
  LET Source_and_3_normal_switch == Try(<<>>) \o Try(<<>>)
  IN FisheyeRoute(Try(<<>>) \o Source_and_3_normal_switch)
Fisheye_nine_lattice ==
  Do(Fisheye_sys_init, <<>>) \o Lax(Fisheye_start_vi_vo.up) \o Start_set_fisheye_attr_thread.up
  \o Stop_switch_mode_thread \o Fisheye_start_vi_vo.down \o Sys_exit

\* A thread that shows each frame in nine parts, made by a GDC and a VGS job in one block.
\* The GDC job is cancelled behind its end, too, when the VGS job fails.
Fisheye_set_vb == Get("blk", 0, <<>>) \o Try(Free("blk", 0)) \o Get("mmap", 1, Free("blk", 0))
Nine_lattice_add_gdc == Try(<<>>) \o Try(<<>>) \o Try(<<>>) \o Free("gdc_job", 0)
Nine_lattice_add_vgs == Get("vgs_job", 0, <<>>) \o Try(Free("vgs_job", 0)) \o Try(Free("vgs_job", 0))
  \o Free("vgs_job", 0)
Nine_lattice_thread ==
  LET
      \* A job or a block that is not obtained is reported as success.
      Nine_lattice_frame ==
        LET gdc_out == Free("gdc_job", 0) \o Free("mmap", 1) \o Free("blk", 0)
            vi_out  == Free("vi_frame", 0) \o gdc_out
        IN OrSkip(Get("gdc_job", 0, <<>>) \o Do(Fisheye_set_vb, Free("gdc_job", 0)),
                  Get("vi_frame", 0, gdc_out) \o Do(Nine_lattice_add_gdc \o Nine_lattice_add_vgs, vi_out))
      \* rest is what the thread still does if the frame can be released.
      Nine_lattice_out(rest) ==
        LET memory == Free("mmap", 1) \o Free("blk", 0)
            end    == <<Step("ask", None, <<>>, Len(memory) + 1)>>
        IN IfFreed("vi_frame", 0, memory \o rest \o end) \o memory
      Set_attr == Lax(Try(<<>>)) \o Lax(Try(<<>>))
      Send     == Nine_lattice_frame \o Lax(Try(<<>>))
  IN Set_attr \o Send \o Nine_lattice_out(Send \o Nine_lattice_out(Lax(Try(<<>>))))

------------------------------------------------------------------------------
(* dis/sample_dis.c                                                           *)

Dis_init_sys_vb == Sys_init_with_vb_supplement
Dis_start_vpss  == Vpss_start(0, <<0>>)
DisRungs ==
  LET
      \* Noise reduction that cannot be turned off leaves VI as it is.
      Dis_start_vi == Try(<<>>) \o Do(Start_vi(0, 1), <<>>) \o Try(<<>>) \o Try(<<>>)
      Dis_start_venc == Try(<<>>) \o Do(Venc_start(0), <<>>)
      Dis_stop_vpss == Vpss_stop(0, <<0>>)
      \* A binding that fails leaves those before it.
      Dis_bind ==
        Rung(
          Vpss_bind_vo(0).up \o Vi_bind_vpss(0).up \o Vpss_bind_venc(0).up,
          Vpss_bind_venc(0).down \o Vi_bind_vpss(0).down \o Vpss_bind_vo(0).down)
  IN << Rung(Dis_init_sys_vb, Sys_exit), Rung(Dis_start_vi, Stop_vi(0, 1)), Rung(Dis_start_vpss, Dis_stop_vpss),
        Rung(Vo_start(0, 1, "hdmi"), Vo_stop(0, 1, "hdmi")), Rung(Dis_start_venc, Venc_stop(0)), Dis_bind >>
Dis_start_sample == Up(DisRungs) \o Do(Venc_start_get_stream, Down(DisRungs))
Dis_stop_sample_without_sys_exit == Venc_stop_get_stream(1) \o Down(Tail(DisRungs))
Dis_stop_sample == Dis_stop_sample_without_sys_exit \o Sys_exit
Dis_gme_enable  == Try(<<>>) \o Try(<<>>) \o Try(<<>>)
Dis_gme_change  == Try(<<>>) \o Try(<<>>) \o Try(<<>>)
Dis_gme ==
  Do(Dis_start_sample, <<>>) \o Do(Dis_gme_enable \o Dis_gme_change, Dis_stop_sample) \o Dis_stop_sample

(* dis/sample_gyro_dis.c                                                      *)

Spi_init ==
  LET Set(i) == Try(Free("fd", 1)) IN Get("fd", 1, <<>>) \o Each(6, Set) \o Free("fd", 1)
\* Neither the device nor the memory of a sensor that does not initialise is given back.
Motionsensor_init ==
  Rung(
    Get("fd", 0, <<>>) \o Get("mmz", 0, <<>>) \o Get("msensor", 0, <<>>),
    Free("msensor", 0) \o Free("mmz", 0) \o Free("fd", 0))
Motionsensor_start == Rung(Get("msensor_on", 0, <<>>), Free("msensor_on", 0))
Dis_start_gyro_sample ==
  LET
      \* The labels are swapped: the sensor is stopped if it did not start, and not if it did.
      Dis_start_gyro ==
        LET Motionfusion_init_param ==
              Rung(Try(<<>>) \o Try(<<>>) \o Try(<<>>), Try(<<>>) \o Try(<<>>) \o Try(<<>>) \o Try(<<>>))
        IN Rung(
             Do(Spi_init, <<>>) \o Do(Motionsensor_init.up, <<>>)
             \o Do(Motionsensor_start.up, Motionsensor_start.down \o Motionsensor_init.down)
             \o Do(Motionfusion_init_param.up, Motionsensor_init.down),
             Lax(Motionfusion_init_param.down) \o Motionsensor_start.down \o Motionsensor_init.down)
  IN Rung(
       Do(Dis_start_sample, <<>>) \o Do(Dis_start_gyro.up, Dis_stop_sample),
       Dis_stop_sample_without_sys_exit \o Dis_start_gyro.down \o Sys_exit)
Dis_start_gyro_dis    == Try(<<>>) \o Try(<<>>) \o Try(<<>>)
GyroRoute(change) ==
  Do(Dis_start_gyro_sample.up, <<>>) \o Do(Dis_start_gyro_dis, Dis_start_gyro_sample.down)
  \o Lax(change) \o Dis_start_gyro_sample.down
Dis_gyro ==
  LET Dis_gyro_switch_dis == Try(<<>>) \o Try(<<>>)
  IN GyroRoute(Dis_gyro_switch_dis)
Dis_gyro_switch(v) ==
  LET Dis_gyro_switch_ldcv2 == Try(<<>>) \o Try(<<>>)
      Dis_gyro_switch_ldcv3 == Try(<<>>) \o Try(<<>>) \o Try(<<>>) \o Try(<<>>)
  IN GyroRoute(IF v = 2 THEN Dis_gyro_switch_ldcv2 ELSE Dis_gyro_switch_ldcv3)

FisheyeLensLeaks == ViKinds \cup VoLeaks \cup VencLeaks \cup {"hdmi_on", "venc_on", "vi_venc"}
FisheyeProgram(code) == Flawed(code, FisheyeLensLeaks, {"venc"}, {"fisheye_thread"})
DisLeaks  == SysLeaks \cup ViKinds \cup VoLeaks \cup VencLeaks \cup {"vpss_vo", "vi_vpss"}
GyroLeaks == DisLeaks \cup {"fd", "mmz", "msensor_on"}
LensPrograms ==
  [fisheye_360_celing  |-> FisheyeProgram(Fisheye_360_celing_2_half),
   fisheye_360_desktop |-> FisheyeProgram(Fisheye_360_desktop),
   fisheye_180         |-> FisheyeProgram(Fisheye_180_wall),
   fisheye_source      |-> FisheyeProgram(Fisheye_source_and_3_normal),
   fisheye_nine        |-> Flawed(Fisheye_nine_lattice, VoLeaks, {}, {"fisheye_thread"}),
   fisheye_nine_thread |-> Flawed(Nine_lattice_thread, {}, {}, {"vi_frame", "mmap", "blk", "gdc_job"}),
   dis_gme     |-> Program(Dis_gme, DisLeaks),
   dis_gyro    |-> Program(Dis_gyro, GyroLeaks),
   dis_switch2 |-> Program(Dis_gyro_switch(2), GyroLeaks),
   dis_switch3 |-> Program(Dis_gyro_switch(3), GyroLeaks)]
==============================================================================
