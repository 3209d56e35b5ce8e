------------------------------ MODULE McfScripts ------------------------------
(***************************************************************************)
(* mcf/: a monochrome and a colour sensor fused into one picture.  VI pipe   *)
(* and VPSS group 0 are the mono path, 1 the colour path; group 2 scales the *)
(* fused picture for display and encoder.                                    *)
(***************************************************************************)
EXTENDS CommonScripts

Vi_bind_mcf(i) == Rung(Get("vi_mcf", i, <<>>), Free("vi_mcf", i))
Mcf_bind_vpss(i) == Rung(Get("mcf_vpss", i, <<>>), Free("mcf_vpss", i))

Mcf_vpss_destroy_user_vb == Free("vpss_vb", 0) \o Free("vpss_vb", 1) \o Free("pool", 11) \o Free("pool", 10)

\* The rollback counts down to 1 from the step that failed: group 0 is left, and a group is
\* stopped that was not started.
Mcf_start_vpss ==
  LET
      \* Pool 10 is the colour group's, pool 11 the mono group's.
      Mcf_vpss_set_user_vb ==
        LET back == Free("pool", 11) \o Free("pool", 10)
        IN Get("pool", 10, <<>>) \o Get("pool", 11, Free("pool", 10)) \o Get("vpss_vb", 0, back)
           \o Get("vpss_vb", 1, back)
  IN Rung(
       LET StopFrom(k)    == LET Stop(j) == Free("vpss_on", j + 1) IN EachBack(k, Stop)
           DestroyFrom(i) == LET Destroy(j) == Free("vpss_grp", j + 1) IN EachBack(i, Destroy)
           Create(i) == Get("vpss_grp", i, DestroyFrom(i))
           Start(k)  == Get("vpss_on", k, StopFrom(k) \o DestroyFrom(2))
       IN Each(2, Create) \o Each(2, Start) \o Do(Mcf_vpss_set_user_vb, StopFrom(2) \o DestroyFrom(2)),
       LET Stop(g)    == Free("vpss_on", g)
           Destroy(g) == Free("vpss_grp", g)
       IN Mcf_vpss_destroy_user_vb \o Each(2, Stop) \o Each(2, Destroy))

Mcf_start(n) ==
  LET Mcf_enable_chn(j) ==
        LET Start(i) == Try(<<>>) \o Get("mcf_chn", i, <<>>)
            Stop(i)  == Free("mcf_chn", i)
        IN EachOrUndo(j, Start, Stop)
  IN Rung(
       Get("mcf_grp", 0, <<>>) \o Try(Free("mcf_grp", 0)) \o Get("mcf_on", 0, Free("mcf_grp", 0))
       \o Do(Mcf_enable_chn(n), Free("mcf_on", 0) \o Free("mcf_grp", 0)),
       LET Stop(i) == Free("mcf_chn", i) IN Each(n, Stop) \o Free("mcf_on", 0) \o Free("mcf_grp", 0))

------------------------------------------------------------------------------
(* mcf/sample_mcf.c                                                           *)

Mcf_sys_init == Sys_init_with_vb_supplement \o Try(<<>>)

\* The labels are in the wrong order: a video output that failed is stopped all the same, and
\* an encoder that failed leaves the VPSS group.
Mcf_start_vpss_venc_and_vo ==
  LET Mcf_start_vo == Rung(Vo_start(0, 1, "hdmi"), Vo_stop(0, 1, "hdmi"))
      Mcf_start_venc(n) ==
        Rung(
          EachOrUndo(n, Venc_start, Venc_stop) \o Do(Venc_start_get_stream, EachBack(n, Venc_stop)),
          Venc_stop_get_stream(n) \o Each(n, Venc_stop))
      Mcf_start_group == Rung(Vpss_start(2, <<0, 1>>), Vpss_stop(2, <<0, 1>>))
  IN Rung(
       Do(Mcf_start_group.up, <<>>) \o Do(Mcf_start_vo.up, Mcf_start_group.down \o Mcf_start_vo.down)
       \o Do(Mcf_start_venc(1).up, Mcf_start_vo.down),
       Mcf_start_venc(1).down \o Mcf_start_vo.down \o Mcf_start_group.down)

Mcf_start_vi0 == Start_vi(0, 1)
Mcf_start_vi1 == Start_vi(1, 1)
Mcf_stop_vi(p) == Stop_vi(p, 1)
Mcf_bind_vi == Rung(Lax(Vi_bind_mcf(0).up) \o Lax(Vi_bind_mcf(1).up), Vi_bind_mcf(0).down \o Vi_bind_mcf(1).down)
Mcf_start_mcf_vi_cfg == Rung(Lax(Try(<<>>)), Lax(Try(<<>>) \o Try(<<>>)))

Mcf_start_mcf_data_flow ==
  LET DataRungs ==
        << Mcf_start_mcf_vi_cfg, Mcf_start_vpss,
           Mcf_start(1) >>
      \* Nobody looks at what the bindings return.
      Mcf_bind ==
        Rung(
          Mcf_bind_vi.up \o Lax(Mcf_bind_vpss(2).up) \o Lax(Vpss_bind_venc(2).up) \o Lax(Vpss_bind_vo(2).up),
          Vpss_bind_venc(2).down \o Vpss_bind_vo(2).down \o Mcf_bind_vpss(2).down \o Mcf_bind_vi.down)
  IN Rung(
       Up(DataRungs) \o Do(Mcf_start_vpss_venc_and_vo.up, Down(DataRungs)) \o Mcf_bind.up,
       Mcf_start_mcf_vi_cfg.down \o Mcf_bind.down \o Mcf_start_vpss_venc_and_vo.down \o Mcf_start(1).down
       \o Mcf_start_vpss.down)

Mcf_path_switch ==
  LET
      \* By day one sensor, at night the other: its pipe and its group are stopped and started.
      Mcf_set_path == Lax(Try(<<>>) \o Try(<<>>))
      Stop_path(p) == Free("vpss_on", p) \o Free("vpss_grp", p) \o Mcf_stop_vi(p)
      Mcf_switch_to_color_path == Mcf_set_path \o Mcf_start_mcf_vi_cfg.down \o Stop_path(0)
      Start_path(p) == Lax(Get("vpss_grp", p, <<>>)) \o Lax(Get("vpss_on", p, <<>>))
      Mcf_switch_to_mono_path == Mcf_start_vi0 \o Start_path(0) \o Mcf_set_path \o Stop_path(1)
      Mcf_switch_to_fusion_path == Mcf_start_vi1 \o Start_path(1) \o Mcf_start_mcf_vi_cfg.up \o Mcf_set_path
  IN Mcf_switch_to_color_path \o Mcf_switch_to_mono_path \o Mcf_switch_to_fusion_path

\* first is what comes before the pictures flow, and while what is done then.
Mcf_route(first, while) ==
  LET Mcf_exit == Mcf_stop_vi(0) \o Mcf_stop_vi(1) \o Sys_exit
      Mcf_two_vi_init_start ==
        Do(Mcf_sys_init, <<>>) \o Do(Mcf_start_vi0, Sys_exit) \o Do(Mcf_start_vi1, Mcf_stop_vi(0) \o Sys_exit)
  IN Do(Mcf_two_vi_init_start, <<>>) \o Do(first \o Mcf_start_mcf_data_flow.up, Mcf_exit)
     \o Lax(while) \o Mcf_start_mcf_data_flow.down \o Mcf_exit
Mcf_two_sensor_vo_venc == Mcf_route(<<>>, <<>>)
Mcf_switch             == Mcf_route(<<>>, Mcf_path_switch)

------------------------------------------------------------------------------
(* mcf/sample_mcf_calibration.c                                               *)

Mcf_read_y_data_frame == Get("temp", 0, <<>>) \o Free("temp", 0)
\* A row that cannot be read is not noticed by the caller.
Mcf_set_video_frame(i) ==
  Try(<<>>) \o Get("file", 2, <<>>) \o Get("frame_buf", i, Free("file", 2)) \o Lax(Mcf_read_y_data_frame)
  \o Free("file", 2)
Mcf_calibration_show_cal_info ==
  LET exit1 == Free("frame_buf", 1) \o Free("frame_buf", 0) IN Try(exit1) \o exit1

\* VGS scales the larger picture: block and map 0 are the input, 1 the output.
Mcf_vgs_get_frame_vb(b) == Get("blk", b, <<>>) \o Try(Free("blk", b)) \o Get("blk_map", b, Free("blk", b))
Mcf_vgs_init_sys_and_vb == Sys_init \o Get("file", 0, <<>>)
Mcf_vgs_get_in_out_frame ==
  LET Mcf_vgs_get_frame_from_file ==
        LET Mcf_vgs_read_file_to_sp42x ==
              LET Mcf_vgs_convert_chroma_planar_to_sp42x == Get("temp", 0, <<>>) \o Free("temp", 0)
              IN Mcf_vgs_convert_chroma_planar_to_sp42x
        IN Get("file", 1, <<>>) \o Do(Mcf_vgs_get_frame_vb(0), Free("file", 1))
           \o Do(Mcf_vgs_read_file_to_sp42x, Free("blk_map", 0) \o Free("blk", 0) \o Free("file", 1))
           \o Free("file", 1)
  IN Mcf_vgs_get_frame_from_file \o Mcf_vgs_get_frame_vb(1)
Mcf_vgs_common_function_exit_release ==
  LET Frame(b) == IfHeld("blk", b, Free("blk_map", b) \o Free("blk", b))
  IN Frame(1) \o IfHeld("file", 0, Free("file", 0)) \o Frame(0)
Mcf_vgs_common_function ==
  LET Mcf_vgs_add_task == Try(<<>>)
      Mcf_vgs_save_sp42x_to_planar ==
        LET Mcf_vgs_convert_chroma_sp42x_to_planar == Get("temp", 0, <<>>) \o Try(Free("temp", 0))
        \o Free("temp", 0)
        IN Try(<<>>) \o Mcf_vgs_convert_chroma_sp42x_to_planar
      release == Mcf_vgs_common_function_exit_release \o Sys_exit
      cancel  == Free("vgs_job", 0)
  IN Do(Mcf_vgs_init_sys_and_vb \o Mcf_vgs_get_in_out_frame \o Get("vgs_job", 0, <<>>)
        \o Do(Mcf_vgs_add_task, cancel) \o Try(cancel) \o cancel \o Mcf_vgs_save_sp42x_to_planar, release)
     \o release

Mcf_diff_img_size_calibration ==
  LET Mcf_scale_img == Try(<<>>) \o Mcf_vgs_common_function
      Mcf_calibration ==
        Mcf_set_video_frame(0) \o Do(Mcf_set_video_frame(1), Free("frame_buf", 0))
        \o Mcf_calibration_show_cal_info
  IN Mcf_scale_img \o Mcf_calibration

\* On the pictures of the running sensors.
Mcf_change_vi_chn_frame_depth == LET Call(i) == Try(<<>>) IN Each(4, Call)
Mcf_restore_vi_chn_frame_default_depth == LET Call(i) == Try(<<>>) IN Each(4, Call)
Mcf_get_vi_chn_frame == Get("vi_frame", 0, <<>>) \o Get("vi_frame", 1, Free("vi_frame", 0))
Mcf_calibrate_online ==
  LET Mcf_release_vi_chn == Free("vi_frame", 0) \o Free("vi_frame", 1)
      \* Where the mono picture cannot be mapped the colour picture is, and stays so.
      Mcf_sys_mmap_frame_virt_addr ==
        Get("frame_map", 0, Get("frame_map", 1, <<>>)) \o Get("frame_map", 1, Free("frame_map", 0))
      Mcf_do_calibration_of_vi_chn ==
        LET Mcf_sys_munmap_frame_virt_addr == Free("frame_map", 0) \o Free("frame_map", 1)
        IN Mcf_get_vi_chn_frame \o Do(Mcf_sys_mmap_frame_virt_addr, Mcf_release_vi_chn)
           \o Try(Mcf_sys_munmap_frame_virt_addr \o Mcf_release_vi_chn)
           \o Mcf_sys_munmap_frame_virt_addr \o Mcf_release_vi_chn
      exit1 == Mcf_restore_vi_chn_frame_default_depth
  IN Mcf_change_vi_chn_frame_depth \o Do(Mcf_do_calibration_of_vi_chn \o Try(<<>>) \o Try(<<>>), exit1)
     \o Lax(exit1)
Mcf_equal_size_sensor_correction_vo_venc == Mcf_route(Mcf_calibrate_online, <<>>)

McfLeaks == SysLeaks \cup {"sys"} \cup ViLeaks \cup VoLeaks \cup VencLeaks \cup {"vpss_grp", "vpss_on", "vpss_chn", "vpss_vb"}
McfPrograms ==
  [mcf        |-> Program(Mcf_two_sensor_vo_venc, McfLeaks),
   mcf_switch |-> Program(Mcf_switch, McfLeaks),
   mcf_correction  |-> Program(Mcf_equal_size_sensor_correction_vo_venc, McfLeaks \cup {"frame_map"}),
   mcf_calibration |-> Program(Mcf_diff_img_size_calibration, {})]
==============================================================================
