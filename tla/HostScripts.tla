----------------------------- MODULE HostScripts -----------------------------
(***************************************************************************)
(* host_uvc/: a USB camera is opened through V4L2, its buffers are mapped   *)
(* and go round between driver and program; each frame is decoded (vdec) or *)
(* handed to VPSS as it is, and shown.                                      *)
(***************************************************************************)
EXTENDS VdecScripts

Uvc_init_sys_and_vb(vdec) ==
  LET Uvc_init_module_vb == Vdec_init_vb_pool
  IN Try(<<>>) \o Do(Sys_init, Sys_exit) \o When(vdec, Do(Uvc_init_module_vb, Vdec_exit_vb_pool \o Sys_exit))
Uvc_start_vdec(vdec) ==
  LET Undo == When(vdec, Vdec_stop(1) \o Vdec_exit_vb_pool)
  IN Rung(
       When(vdec, Do(Vdec_start(1, FALSE), Undo)), Undo)

\* One group; without a decoder it is bound to a channel that does not exist.
Uvc_stop_vpss            == Vpss_stop(0, <<0>>)
Uvc_vdec_bind_vpss == Vdec_bind_vpss(0).up
Uvc_vdec_unbind_vpss == Vdec_bind_vpss(0).down
Uvc_start_vpss ==
  LET Uvc_config_vpss_ldy_attr == Try(<<>>) \o Try(<<>>)
  IN Do(Vpss_start(0, <<0>>), Uvc_stop_vpss) \o Do(Uvc_config_vpss_ldy_attr, Uvc_stop_vpss)
     \o Do(Uvc_vdec_bind_vpss, Uvc_vdec_unbind_vpss \o Uvc_stop_vpss)

Uvc_vpss_bind_vo == Rung(Vpss_bind_vo(0).up, Vpss_bind_vo(0).down)
Uvc_start_vo ==
  LET Undo == Uvc_vpss_bind_vo.down \o Vo_stop(0, 1, "hdmi")
  IN Rung(
       Do(Vo_start(0, 1, "hdmi"), Vo_stop(0, 1, "hdmi")) \o Do(Uvc_vpss_bind_vo.up, Undo), Undo)

Uvc_media_init(vdec) ==
  LET Uvc_media_rungs(i) ==
        << Rung(Uvc_init_sys_and_vb(i), Sys_exit), Uvc_start_vdec(i),
           Rung(Uvc_start_vpss, Uvc_vdec_unbind_vpss \o Uvc_stop_vpss), Uvc_start_vo >>
  IN Rung(Try(<<>>) \o Up(Uvc_media_rungs(vdec)), Down(Uvc_media_rungs(vdec)))

\* The block is not given back when its frame cannot be mapped.
Uvc_prepare_frame_info == Try(<<>>) \o Get("blk_map", 0, <<>>)
Uvc_send_frame_to_vpss ==
  Get("blk", 0, <<>>) \o Uvc_prepare_frame_info \o Lax(Try(<<>>)) \o Free("blk_map", 0)
  \o Strict(Free("blk", 0))
\* A decoder that refuses a frame is asked again for ever.
Uvc_media_send_data(vdec) == IF vdec THEN <<>> ELSE Try(<<>>) \o Uvc_send_frame_to_vpss
\* Channel 1 is told to stop receiving; the decoder is channel 0.
Uvc_media_stop_receive_data(vdec) == When(vdec, Lax(Try(<<>>)) \o Free("vdec_on", 1))

------------------------------------------------------------------------------
(* The device: its descriptor, the array of buffers and a map of each.        *)

\* Two stand for the eight that are asked for.
UvcBufs == 2

Uvc_pause_init == Try(<<>>) \o Try(<<>>) \o Try(<<>>)
Uvc_video_open == Get("fd", 0, <<>>)
\* free() of an array that has not been assigned does nothing.
Uvc_video_close == IfHeld("v4l_array", 0, Free("v4l_array", 0)) \o Free("fd", 0)

\* What opening and asking leave behind when they fail is the descriptor.
Uvc_video_query_cap  == Try(<<>>)
Uvc_cap_get_buf_type == Try(<<>>)
Uvc_prepare_to_set_ctrl == Uvc_pause_init \o Uvc_video_open \o Uvc_video_query_cap \o Uvc_cap_get_buf_type

Uvc_video_set_format ==
  LET Uvc_check_video_size == Try(<<>>)
  IN Uvc_check_video_size \o Try(<<>>)
Uvc_video_set_frame_rate == LET Parm(i) == Try(<<>>) IN Each(3, Parm)

\* The array belongs to the device from the last map on: what failed before that is left.
Uvc_video_buffer_mmap(i) == Get("v4l_map", i, <<>>)
Uvc_video_alloc_buffers ==
  LET Uvc_map_buffer == LET Map(i) == Try(<<>>) \o Uvc_video_buffer_mmap(i) IN Each(UvcBufs, Map)
  IN Rung(
       Try(<<>>) \o Get("v4l_array", 0, <<>>) \o Uvc_map_buffer,
       LET Unmap(i) == Free("v4l_map", i) IN Each(UvcBufs, Unmap) \o Try(<<>>) \o Free("v4l_array", 0))

Uvc_video_set_quality       == Try(<<>>)
Uvc_video_prepare_capture == Uvc_video_alloc_buffers.up
Uvc_video_queue_buffer      == Try(<<>>)
Uvc_video_queue_all_buffers == LET Queue(i) == Uvc_video_queue_buffer IN Each(UvcBufs, Queue)

Uvc_dqueue_buf       == Try(<<>>)
\* A stream that cannot be stopped keeps its buffers mapped; main goes on.
Uvc_video_do_capture(vdec, n) ==
  LET Uvc_capture(j, k) ==
        LET Frame(i) == Uvc_dqueue_buf \o Lax(Uvc_media_send_data(j))
        \o Uvc_video_queue_buffer IN Each(k, Frame)
  IN Do(Try(<<>>) \o Uvc_capture(vdec, n), Uvc_video_alloc_buffers.down) \o Try(<<>>)
     \o Uvc_video_alloc_buffers.down

Host_uvc_main(vdec) ==
  LET Uvc_set_video_format ==
        Do(Uvc_video_set_format, Uvc_video_close) \o Do(Uvc_video_set_frame_rate, Uvc_video_close)
      Uvc_is_close_video ==
        Do(Uvc_video_set_quality, Uvc_video_close) \o Do(Uvc_video_prepare_capture, Free("fd", 0))
        \o Do(Uvc_video_queue_all_buffers, Uvc_video_close)
  IN Uvc_prepare_to_set_ctrl \o Uvc_set_video_format \o Uvc_is_close_video \o Uvc_media_init(vdec).up
     \o Lax(Uvc_video_do_capture(vdec, 2)) \o Uvc_media_stop_receive_data(vdec) \o Uvc_media_init(vdec).down
     \o Uvc_video_close

HostLeaks == VdecLeaks \cup VoLeaks \cup {"fd", "v4l_array", "v4l_map", "blk"}
HostPrograms ==
  [host_uvc_h264 |-> Program(Host_uvc_main(TRUE), HostLeaks),
   host_uvc_yuyv |-> Program(Host_uvc_main(FALSE), HostLeaks)]
==============================================================================
