----------------------------- MODULE GfbgScripts -----------------------------
(***************************************************************************)
(* gfbg/: pictures drawn over the video through the frame buffer devices, by *)
(* the processor and by the TDE. Each mode has a thread that owns a frame    *)
(* buffer (fd), its memory (mmap, mmz 0 the canvas, mmz 1 the picture) and   *)
(* its use of the TDE; the main thread owns the video output.               *)
(***************************************************************************)
EXTENDS CommonScripts

\* An ioctl of the frame buffer, a name printed, a picture read.
Ioctl(n) == LET Call(i) == Try(<<>>) IN Each(n, Call)

Gfbg_load_bmp  == Try(<<>>)
Get_file_name  == Try(<<>>)
Tde_job(draws) ==
  LET Draw(i) == Try(Free("tde_job", 0))
  IN Get("tde_job", 0, <<>>) \o Each(draws, Draw) \o Try(Free("tde_job", 0)) \o Free("tde_job", 0)

\* The standard mode: the frame buffer is mapped and panned.
Init_frame_buffer == Try(<<>>) \o Get("fd", 0, <<>>) \o Do(Ioctl(2), Free("fd", 0))
Init_var          == Ioctl(2)
Time_to_play ==
  LET Put_alpha_and_colorkey == Ioctl(4)
  IN Ioctl(2) \o Put_alpha_and_colorkey
Quick_copy_by_tde   == Tde_job(1)
\* Two pictures in turn.
Draw_line_and_picture ==
  LET Draw_line_by_cpu == Ioctl(3)
      Show(i) == Draw_line_by_cpu \o Try(<<>>) \o Gfbg_load_bmp \o Quick_copy_by_tde \o Ioctl(1)
  IN Ioctl(2) \o Each(2, Show)
Show_process(mouse) ==
  LET Show_bitmap(i) ==
        LET Move_cursor == Gfbg_load_bmp \o Ioctl(3)
        IN Ioctl(2)
           \o (IF i THEN Move_cursor
               ELSE Get("mmz", 1, <<>>) \o Get("tde", 0, Free("mmz", 1))
                    \o Do(Draw_line_and_picture, Free("tde", 0) \o Free("mmz", 1)) \o Free("mmz", 1)
                    \o Free("tde", 0))
  IN Do(Ioctl(2) \o Get("mmap", 0, <<>>), Free("fd", 0))
     \o Do(Try(<<>>) \o Time_to_play \o Show_bitmap(mouse), Free("mmap", 0) \o Free("fd", 0))
     \o Free("mmap", 0) \o Do(Ioctl(1), Free("fd", 0)) \o Free("fd", 0)
Gfbg_pandisplay(mouse) ==
  Get_file_name \o Init_frame_buffer \o Do(Init_var, Free("fd", 0)) \o Show_process(mouse)

\* The modes with a canvas of their own, which the driver refreshes the screen from.
Init_frame_buffer_ex == Try(<<>>) \o Get("fd", 0, <<>>) \o Do(Ioctl(2), Free("fd", 0))
Init_var_ex          == Ioctl(2)
Init_layer_info      == Try(Free("fd", 0))
Init_compress        == Do(Ioctl(2), Free("fd", 0))
Init_canvas ==
  Get("mmz", 0, Free("fd", 0)) \o Try(Free("mmz", 0) \o Free("fd", 0))
  \o Get("mmz", 1, Free("mmz", 0) \o Free("fd", 0))
Draw_line_by_cpu_ex == Ioctl(1)
\* The TDE is opened and never closed.
Time_to_play_ex ==
  LET Draw_picture_by_tde == Try(<<>>) \o Gfbg_load_bmp \o Tde_job(1)
      Show(i) == Draw_line_by_cpu_ex \o Draw_picture_by_tde \o Ioctl(1) IN Get("tde", 0, <<>>) \o Each(2, Show)
Gfbg_refresh ==
  LET err == Free("mmz", 1) \o Free("mmz", 0) \o Free("fd", 0)
  IN Get_file_name \o Init_frame_buffer_ex \o Do(Init_var_ex, Free("fd", 0)) \o Init_layer_info \o Init_compress
     \o Init_canvas \o Do(Time_to_play_ex, err) \o err

\* The palette mode: rectangles, and a map that stays when it cannot be made (it is compared
\* with null).  A rectangle that fails leaves the TDE open.
Bind_layer_to_vo == Try(<<>>) \o Try(<<>>)
Var_init         == Get("fd", 0, <<>>) \o Do(Ioctl(2), Free("fd", 0))
Cmap_init        == Try(Free("fd", 0))
Get_fix_and_mmap == Try(Free("fd", 0)) \o Get("mmap", 0, <<>>)
Gfbg_g3_clut ==
  LET Draw_rect ==
        LET Start_draw_rect == Tde_job(2)
        IN Try(<<>>) \o Get("tde", 0, <<>>) \o Start_draw_rect
      Pandisplay == Ioctl(1) \o Free("tde", 0)
      Show(j) == Do(Draw_rect \o Pandisplay, Free("mmap", 0) \o Free("fd", 0))
  IN Bind_layer_to_vo \o Var_init \o Cmap_init \o Get_fix_and_mmap \o Each(2, Show) \o Free("mmap", 0)
     \o Free("fd", 0)

\* The rotation mode has no thread; its second buffer failing leaves the first.
Put_layer_info == Ioctl(2)
Get_canvas     == Get("mmz", 0, <<>>) \o Get("mmz", 1, <<>>)
Put_canvas     == Free("mmz", 0) \o Free("mmz", 1)
Gfbg_draw ==
  LET Draw_by_tde == Lax(Gfbg_load_bmp) \o Tde_job(1)
  IN Get("tde", 0, <<>>) \o Draw_by_tde \o Draw_by_tde \o Free("tde", 0)
Rotation_refresh == Ioctl(2)
Put_rotation   == Ioctl(2) \o Put_layer_info \o Ioctl(1)
Gfbg_rotate ==
  LET back == Put_canvas \o Free("fd", 0)
  IN Get("fd", 0, <<>>) \o Do(Get_canvas, Free("fd", 0))
     \o Do(Gfbg_draw \o Put_rotation \o Rotation_refresh, back) \o back

------------------------------------------------------------------------------
(* The main thread. Only this sample binds the graphics layer of the device it *)
(* starts, and a failure there leaves the device.                             *)
Gfbg_start_vo(intf) ==
  Rung(
    Try(<<>>) \o Do(Vo_start_dev(0, FALSE), <<>>) \o Try(<<>>) \o Try(<<>>)
    \o When(intf = "hdmi", Lax(Vo_hdmi_start.up)) \o When(intf = "bt1120", Lax(Vo_bt1120_start)),
    When(intf = "hdmi", Vo_hdmi_start.down) \o Vo_stop_dev(0))

Gfbg_to_exit(threads) ==
  LET Join(t) == IfHeld("gfbg_thread", t, Free("gfbg_thread", t)) IN Each(threads, Join)

\* A thread that cannot be created does not join the one before it.
Mode(intf, threads, undoInit) ==
  LET Create(t) == Get("gfbg_thread", t, Gfbg_start_vo(intf).down \o Sys_exit)
  IN Do(Sys_init, undoInit) \o Do(Gfbg_start_vo(intf).up, Sys_exit) \o Each(threads, Create)
     \o Gfbg_to_exit(threads) \o Gfbg_start_vo(intf).down \o Sys_exit
Standard_mode(intf)   == Mode(intf, 2, <<>>)
Double_buf_mode(intf) == Mode(intf, 1, <<>>)
One_buf_mode(intf)    == Mode(intf, 1, <<>>)
None_buf_mode(intf)   == Mode(intf, 1, <<>>)
Dcmp(intf)            == Mode(intf, 1, <<>>)
Dcmp_argb8888(intf)   == Mode(intf, 1, <<>>)
Clut_mode(intf)       == Mode(intf, 1, Sys_exit)
Gfbg_rotation(intf) ==
  Do(Sys_init, Sys_exit) \o Do(Gfbg_start_vo(intf).up, Sys_exit) \o Lax(Gfbg_rotate)
  \o Gfbg_start_vo(intf).down \o Sys_exit

\* After a signal the threads are joined and what is left of the buffers freed.
Gfbg_to_exit_signal ==
  LET Buf(b) == IfHeld("mmz", 1 - b, Free("mmz", 1 - b)) IN Gfbg_to_exit(2) \o Each(2, Buf)

GfbgVoLeaks == {"vo_dev"} \cup HdmiLeaks
GfbgPrograms ==
  [gfbg_standard |-> Program(Standard_mode("hdmi"), GfbgVoLeaks \cup {"gfbg_thread"}),
   gfbg_buffers  |-> Program(Double_buf_mode("bt1120"), {"vo_dev"}),
   gfbg_clut     |-> Program(Clut_mode("hdmi"), GfbgVoLeaks),
   gfbg_rotation |-> Program(Gfbg_rotation("hdmi"), GfbgVoLeaks \cup {"tde", "mmz"}),
   gfbg_signal   |-> Program(Lax(Get("gfbg_thread", 0, <<>>)) \o Lax(Get_canvas) \o Gfbg_to_exit_signal, {}),
   gfbg_pan_thread     |-> Program(Gfbg_pandisplay(FALSE), {}),
   gfbg_mouse_thread   |-> Program(Gfbg_pandisplay(TRUE), {}),
   gfbg_refresh_thread |-> Flawed(Gfbg_refresh, {}, {"tde"}, {}),
   gfbg_clut_thread    |-> Program(Gfbg_g3_clut, {"tde", "fd"})]
==============================================================================
