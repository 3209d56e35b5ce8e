---------------------------- MODULE OutputScripts ----------------------------
(***************************************************************************)
(* vo/, vgs/, tde/: a panel behind the MIPI transmitter, pictures drawn by  *)
(* the VGS unit, and images turned on the frame buffer by the TDE unit.      *)
(***************************************************************************)
EXTENDS CommonScripts

(* common/sample_comm_mipi_tx.c: the transmitter stays on when the descriptor *)
(* is closed.                                                                 *)

\* The transmitter is turned off before it is set up.
\* One that cannot be turned off keeps the descriptor, too.
Start_mipi_tx ==
  LET Init_screen(n) == LET Send(i) == Try(<<>>) IN Each(n, Send)
  IN Rung(
       LET close == Free("fd", 2)
       IN Try(<<>>) \o Get("fd", 2, <<>>) \o Try(close) \o Try(close) \o Try(close) \o Do(Init_screen(2), close)
          \o Get("mipi_tx", 0, close) \o close,
       Lax(Get("fd", 2, <<>>) \o IfFreed("mipi_tx", 0, Free("fd", 2))))

(* vo/sample_vo.c                                                             *)

Vo_mipi_tx ==
  LET Vo_set_sys_cfg == Do(Sys_init_with_vb_supplement, <<>>) \o Try(<<>>)
      \* A panel that does not start leaves its video output.
      Start_vo_mipi_tx ==
        Rung(
          Do(Vo_start(0, 1, "mipi"), <<>>) \o Do(Start_mipi_tx.up, <<>>),
          Start_mipi_tx.down \o Vo_stop(0, 1, "mipi"))
      Vo_do_stop == Start_vo_mipi_tx.down \o Stop_vi(0, 1) \o Sys_exit
  IN Do(Vo_set_sys_cfg, <<>>) \o Do(Start_vi(0, 1), Sys_exit)
     \o Do(Start_vo_mipi_tx.up, Stop_vi(0, 1) \o Sys_exit)
     \o Do(Vi_bind_vo(0).up, Vo_do_stop) \o Vi_bind_vo(0).down \o Vo_do_stop

------------------------------------------------------------------------------
(* vgs/sample_vgs.c: block and map 0 are the input's, 1 the output's; file 0   *)
(* is written, 1 read.                                                        *)

Vgs_get_frame_vb(i) == Get("blk", i, <<>>) \o Try(Free("blk", i)) \o Get("blk_map", i, Free("blk", i))
\* (Faulty variant: the block is unmapped only.)
Release_vb_unmaps(i) == IfHeld("blk", i, Free("blk_map", i))
\* (Faulty variants: the flag is not looked at; the block goes before its map.)
Release_vb_unchecked(i) == Free("blk_map", i) \o Free("blk", i)
Release_vb_block_first(i) == IfHeld("blk", i, Free("blk", i) \o Free("blk_map", i))
Release_vb(i)       == IfHeld("blk", i, Free("blk_map", i) \o Free("blk", i))
\* Chroma is converted through a buffer of its own, one way and the other.
\* (Faulty variant: the buffer is freed by failures only.)
Vgs_convert_chroma_keeps == Get("planar", 0, <<>>) \o Try(Free("planar", 0))
Vgs_convert_chroma       == Get("planar", 0, <<>>) \o Try(Free("planar", 0)) \o Free("planar", 0)
Vgs_save_sp42_x_to_planar == Vgs_convert_chroma
Vgs_get_frame_from_file ==
  LET Vgs_read_file_to_sp42_x == Vgs_convert_chroma
      EXIT1 == Free("file", 1)
  IN Get("file", 1, <<>>) \o Do(Vgs_get_frame_vb(0), EXIT1)
     \o Do(Vgs_read_file_to_sp42_x, Free("blk_map", 0) \o Free("blk", 0) \o EXIT1) \o EXIT1
Vgs_get_in_out_frame(sameVb)     == Do(Vgs_get_frame_from_file, <<>>) \o When(~sameVb, Vgs_get_frame_vb(1))
Vgs_get_stitch_in_out_frame      == Vgs_get_in_out_frame(FALSE)
Vgs_init_sys_and_vb              == Do(Sys_init, <<>>) \o Try(<<>>) \o Get("file", 0, <<>>)

Vgs_prepare_osd_info ==
  LET
      \* The regions of an overlay are destroyed at the end, obtained or not.
      Vgs_load_bmp == Try(<<>>) \o Try(<<>>) \o Try(<<>>)
  IN Get("rgn", 0, <<>>) \o Try(<<>>) \o Vgs_load_bmp \o Try(<<>>)
Vgs_add_osd_task ==
  LET Vgs_set_osd_info == Try(<<>>)
      Vgs_prepare_osd_clut_info(i) == Get("rgn", i, <<>>) \o Try(<<>>) \o Vgs_set_osd_info \o Try(<<>>)
  IN Vgs_prepare_osd_info \o Vgs_prepare_osd_clut_info(1) \o Vgs_prepare_osd_clut_info(2) \o Try(<<>>)
Vgs_add_case2_task == Try(<<>>) \o Try(<<>>) \o Try(<<>>) \o Vgs_add_osd_task
Vgs_exit_release(sameVb, osd) ==
  LET Destroy(i) == Free("rgn", i)
  IN When(~sameVb, Release_vb(1)) \o IfHeld("file", 0, Free("file", 0)) \o Release_vb(0)
     \o When(osd, Each(3, Destroy))
Vgs_stitch_exit_release == Vgs_exit_release(FALSE, FALSE)

\* tasks: what is added to the job.
VgsJob(getFrames, tasks, exit) ==
  LET cancel == Free("vgs_job", 0)
      job    == Vgs_init_sys_and_vb \o getFrames \o Get("vgs_job", 0, <<>>) \o Do(tasks, cancel) \o Try(cancel)
                \o Free("vgs_job", 0) \o Vgs_save_sp42_x_to_planar
  IN Lax(job) \o exit \o Sys_exit
Vgs_common_function(tasks, sameVb, osd) == VgsJob(Vgs_get_in_out_frame(sameVb), tasks, Vgs_exit_release(sameVb, osd))
Vgs_stitch_function(tasks)              == VgsJob(Vgs_get_stitch_in_out_frame, tasks, Vgs_stitch_exit_release)
Vgs_scale     == Vgs_common_function(Try(<<>>), FALSE, FALSE)
Vgs_cover_osd == Vgs_common_function(Vgs_add_case2_task, TRUE, TRUE)
Vgs_draw_line == Vgs_common_function(Try(<<>>), TRUE, FALSE)
Vgs_luma      == Vgs_draw_line
Vgs_rotate    == Vgs_scale
Vgs_stitch    == Vgs_stitch_function(Try(<<>>))

------------------------------------------------------------------------------
(* tde/sample_tde.c                                                           *)

Create_surface_by_file ==
  LET Read(i) == Try(Free("file", 0)) IN Try(<<>>) \o Get("file", 0, <<>>) \o Each(5, Read) \o Free("file", 0)
\* A frame buffer that cannot be shown keeps its map and the images' memory.
Init_gfbg ==
  LET Init_surface ==
        LET
            \* Only the background and the last image are checked.
            Init_images_surface ==
              LET free == Free("mmz", 0)
              IN Get("mmz", 0, <<>>) \o Do(Create_surface_by_file, free) \o Lax(Create_surface_by_file)
                 \o Do(Create_surface_by_file, free)
        IN Try(<<>>) \o Get("mmap", 2, <<>>) \o Try(Free("mmap", 2)) \o Do(Init_images_surface, Free("mmap", 2))
      Init_var_info == Try(<<>>) \o Try(<<>>)
      close == Free("fd", 0)
  IN Get("fd", 0, <<>>) \o Try(close) \o Try(close) \o Do(Init_var_info, close) \o Do(Init_surface, close)
     \o Try(close)
Circumrotate ==
  LET
      \* An image that is not drawn cancels the job, and the caller goes on to end it.
      Bit_blit(n) == LET Draw(i) == Try(Free("tde_job", 0)) IN Each(n, Draw)
  IN Lax(Get("tde_job", 0, <<>>) \o Try(Free("tde_job", 0)) \o Lax(Bit_blit(2)) \o Try(Free("tde_job", 0))
     \o Free("tde_job", 0))
Tde_main(hdmi) ==
  LET Tde_draw_graphic ==
        LET Rotate_and_show ==
              LET err == Free("mmz", 0) \o Free("mmap", 2) \o Free("fd", 0)
              IN Try(err) \o Circumrotate \o Try(err) \o Circumrotate \o Try(err)
        IN Get("tde", 0, <<>>) \o Do(Init_gfbg, Free("tde", 0)) \o Do(Rotate_and_show, Free("tde", 0))
      Start_vo_by_intf_type(i) == IF i THEN Vo_hdmi_start.up ELSE Vo_bt1120_start
      Tde_to_exit == Free("mmz", 0) \o Free("mmap", 2) \o Free("fd", 0) \o Free("tde", 0)
  IN Do(Sys_init, <<>>) \o Do(Vo_start_dev(0, FALSE), Sys_exit)
     \o Lax(Do(Start_vo_by_intf_type(hdmi), <<>>) \o Do(Tde_draw_graphic, <<>>) \o Tde_to_exit)
     \o When(hdmi, Vo_hdmi_start.down) \o Vo_stop_dev(0) \o Sys_exit

OutputPrograms ==
  [vo_mipi_tx    |-> Program(Vo_mipi_tx, SysLeaks \cup {"sys"} \cup ViLeaks \cup VoLeaks \cup {"fd", "mipi_tx"}),
   vgs_scale     |-> Program(Vgs_scale, {}),
   vgs_cover_osd |-> Program(Vgs_cover_osd, {}),
   vgs_draw_line |-> Program(Vgs_draw_line, {}),
   vgs_stitch    |-> Program(Vgs_stitch, {}),
   tde_hdmi      |-> Flawed(Tde_main(TRUE), {"mmap", "mmz"} \cup HdmiLeaks, {}, {"tde_job"}),
   tde_bt1120    |-> Flawed(Tde_main(FALSE), {"mmap", "mmz"}, {}, {"tde_job"})]
==============================================================================
