------------------------------ MODULE AvsScripts ------------------------------
(***************************************************************************)
(* avs/sample_avs.c: four cameras, each through a VPSS group of its own,    *)
(* stitched by one AVS group, shown and encoded; and the tools that make,   *)
(* query and convert the stitching tables.                                  *)
(***************************************************************************)
EXTENDS CommonScripts

Cameras == 4

Avs_start_venc ==
  Rung(
    Do(Venc_start(0) \o Venc_start_get_stream, Venc_stop(0)),
    Venc_stop_get_stream(1) \o Venc_stop(0))

\* Nothing is unbound when one of them fails.
Avs_bind ==
  Rung(
    Each(Cameras, LAMBDA i : Vi_bind_vpss(i).up) \o Each(Cameras, LAMBDA i : Vpss_bind_avs(i).up)
    \o Avs_bind_venc(0).up \o Avs_bind_vo(0).up,
    Strict(Avs_bind_venc(0).down \o Avs_bind_vo(0).down
           \o Each(Cameras, LAMBDA i : Vpss_bind_avs(i).down)
           \o Each(Cameras, LAMBDA i : Vi_bind_vpss(i).down)))

Avs_set_sys_cfg  == Do(Sys_init_with_vb_supplement, <<>>) \o Try(<<>>)
Avs_get_file_len == Get("file", 0, <<>>) \o Free("file", 0)
Avs_load_file    == Get("file", 0, <<>>) \o Try(Free("file", 0)) \o Free("file", 0)

\* Of the group and its channels nothing is taken back.
Avs_start_avs(blend, chn1) ==
  LET
      \* A blending group takes the tables of all cameras.
      Avs_create_grp(j) ==
        LET Load(i) == Avs_load_file
        IN When(j, Avs_get_file_len \o Get("mmz", 0, <<>>) \o Each(Cameras, Load)) \o Get("avs_grp", 0, <<>>)
      Avs_start_avs_chn(i) == Try(<<>>) \o Get("avs_chn", 0, <<>>)
                              \o When(i, Try(<<>>) \o Get("avs_chn", 1, <<>>))
  IN Do(Avs_create_grp(blend) \o Avs_start_avs_chn(chn1)
     \o Get("avs_on", 0, <<>>), IfHeld("mmz", 0, Free("mmz", 0)))
Avs_stop_avs(chn1) ==
  Strict(Free("avs_on", 0) \o When(chn1, Free("avs_chn", 1)) \o Free("avs_chn", 0) \o Free("avs_grp", 0)
         \o IfHeld("mmz", 0, Free("mmz", 0)))

\* One step of the cruise: a refused attribute ends the thread. It is joined even when it
\* could not be created.
Avs_set_grp_attr_thread       == Try(<<>>) \o Try(<<>>)
Avs_start_set_grp_attr_thrd == Rung(Lax(Get("avs_thread", 0, <<>>)), Free("avs_thread", 0))
Avs_switch_projection_mode ==
  Try(<<>>) \o Try(<<>>) \o Try(<<>>) \o Try(<<>>)
  \o Avs_start_set_grp_attr_thrd.up \o Lax(Avs_set_grp_attr_thread) \o Avs_start_set_grp_attr_thrd.down

Avs_start_4_eq_avs    == Try(<<>>) \o Avs_start_avs(TRUE, FALSE)

\* The attributes are set once to clear them, once to enable the group.
Avs_enable_vi_stitch_grp == Rung(Try(<<>>) \o Get("stitch", 0, <<>>), Free("stitch", 0))

\* Blending takes channel 1 of each VPSS group. Behind a group that does not start the
\* loop that stops the cameras begins where the loop over groups was.
AvsVpssChns(blend) == IF blend THEN <<1>> ELSE <<0>>
Avs_start_vi_vpss(blend) ==
  LET StartVi(i)   == Start_vi(i, 1)
      StopVi(i)    == Stop_vi(i, 1)
      StartVpss(i) == Vpss_start(i, AvsVpssChns(blend))
      StopVpss(i)  == Vpss_stop(i, AvsVpssChns(blend))
      exit1        == Avs_enable_vi_stitch_grp.down \o Sys_exit
      StartGroup(i) == Do(StartVpss(i), EachBack(i, StopVpss) \o EachBack(i, StopVi) \o exit1)
  IN Avs_set_sys_cfg \o Do(Avs_enable_vi_stitch_grp.up, Sys_exit)
     \o Do(EachOrUndo(Cameras, StartVi, StopVi), exit1)
     \o Each(Cameras, StartGroup)
\* Whatever was started, it is channel 1 that is disabled.
Avs_stop_vi_vpss ==
  LET StopVpss(i) == Vpss_stop(i, AvsVpssChns(TRUE))
  IN Each(Cameras, StopVpss) \o Stop_four_vi(Cameras) \o Avs_enable_vi_stitch_grp.down \o Sys_exit

Avs_start_venc_vo ==
  Rung(
    Do(Vo_start(0, 1, "hdmi"), <<>>) \o Do(Avs_start_venc.up, Vo_stop(0, 1, "hdmi")),
    Avs_start_venc.down \o Vo_stop(0, 1, "hdmi"))

AvsRoute(blend, start, between) ==
  Ladder(<< Rung(Avs_start_vi_vpss(blend), Avs_stop_vi_vpss), Rung(start, Avs_stop_avs(FALSE)),
            Avs_start_venc_vo, Rung(Avs_bind.up \o Lax(between), Avs_bind.down) >>)
Avs_4stitching_switch_projection_mode == AvsRoute(TRUE, Avs_start_4_eq_avs, Avs_switch_projection_mode)
Avs_4stitching_cube_map ==
  LET Avs_start_4_cube_avs == Try(<<>>) \o Avs_start_avs(TRUE, FALSE)
  IN AvsRoute(TRUE, Avs_start_4_cube_avs, <<>>)
Avs_4no_blend ==
  LET Avs_start_4no_blend == Avs_start_avs(FALSE, FALSE)
  IN AvsRoute(FALSE, Avs_start_4no_blend, <<>>)
AvsLeaks == {"sys", "vb"} \cup ViKinds \cup VoLeaks \cup VencLeaks
            \cup {"stitch", "avs_grp", "avs_chn", "avs_on", "mmz", "vi_vpss", "vpss_avs", "avs_venc", "avs_vo"}

------------------------------------------------------------------------------
(* The tools: mask and table are "mmz" 1 and 2, the mesh is "mesh".           *)

Avs_lut_free  == IfHeld("mmz", 2, Free("mmz", 2))
Avs_generating_lut ==
  LET
      \* A table that cannot be written is reported nowhere.
      Avs_lut_write ==
        LET Write(i) == Get("file", i, <<>>) \o Try(Free("file", i)) \o Free("file", i) IN Lax(Each(2, Write))
      Avs_mask_free == IfHeld("mmz", 1, Free("mmz", 1))
  IN Avs_get_file_len \o Avs_load_file
     \o Ladder(<< Rung(Get("mmz", 1, <<>>), Avs_mask_free), Rung(Get("mmz", 2, <<>>), Avs_lut_free),
                  Rung(Try(<<>>) \o Avs_lut_write, <<>>) >>)

Avs_malloc      == Get("mesh", 0, <<>>)
Avs_malloc_free == IfHeld("mesh", 0, Free("mesh", 0))
Avs_read_lut_data ==
  LET Read(i) == Get("file", i, <<>>) \o Free("file", i) IN Get("mmz", 2, <<>>) \o Each(Cameras, Read)
Avs_dst_to_src ==
  LET Avs_save_mesh_file ==
        LET Save(i) == Get("file", i, <<>>) \o Free("file", i) \o Get("file", i, <<>>) \o Free("file", i)
        IN Each(Cameras, Save)
  IN Avs_malloc \o Do(Try(<<>>) \o Avs_save_mesh_file, Avs_malloc_free) \o Avs_malloc_free
Avs_pos_query ==
  LET Avs_src_to_dst == Avs_dst_to_src
  IN Do(Avs_read_lut_data \o Avs_dst_to_src \o Avs_src_to_dst, Avs_lut_free) \o Avs_lut_free

Avs_convert ==
  LET Avs_convert_cam(cam) ==
        LET Avs_convert_free_output == IfHeld("mmz", 2, Free("mmz", 2))
            Avs_convert_free_input == IfHeld("mmz", 1, Free("mmz", 1))
        IN Ladder(<< Rung(Get("file", cam, <<>>), Free("file", cam)), Rung(Try(<<>>), <<>>),
                     Rung(Get("mmz", 1, <<>>), Avs_convert_free_input),
                     Rung(Get("mmz", 2, <<>>), Avs_convert_free_output),
                     Rung(Try(<<>>) \o Get("temp", cam, <<>>) \o Free("temp", cam), <<>>) >>)
  IN Each(2, Avs_convert_cam)

AvsPrograms ==
  [avs_projection |-> Flawed(Avs_4stitching_switch_projection_mode, AvsLeaks, {}, {"avs_thread"}),
   avs_cube_map   |-> Program(Avs_4stitching_cube_map, AvsLeaks),
   avs_no_blend   |-> Flawed(Avs_4no_blend, AvsLeaks, {"vpss_chn"}, {}),
   avs_lut        |-> Program(Avs_generating_lut, {}),
   avs_pos_query  |-> Program(Avs_pos_query, {}),
   avs_convert    |-> Program(Avs_convert, {})]
==============================================================================
