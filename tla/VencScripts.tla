----------------------------- MODULE VencScripts -----------------------------
(***************************************************************************)
(* venc/sample_venc.c, one program per entry of its menu, and the threads   *)
(* of common/sample_comm_venc.c that save streams and feed frames, each as  *)
(* a program of its own: what it obtains, over two rounds of its loop, it   *)
(* gives back before it ends.                                               *)
(***************************************************************************)
EXTENDS CommonScripts

BothChns == <<0, 1>>

Venc_sys_init    == Sys_init_with_vb_supplement
Venc_vi_init == Rung(Start_vi(0, 1), Stop_vi(0, 1))
Venc_vpss_init == Rung(Vpss_start(0, BothChns), Vpss_stop(0, BothChns))

\* Two encoder channels behind the channels 0 and 1 of one VPSS group; configure is what
\* a mode sets on a channel once it is bound.
Bound_start_encode(configure) ==
  LET Parts(c) == << Rung(Venc_start(c), Venc_stop(c)),
                     Rung(Vpss_bind_venc(c).up , Vpss_bind_venc(c).down),
                     Rung(configure, <<>>) >>
  IN Parts(0) \o Parts(1)
Venc_normal_start_encode ==
  LET rungs == Bound_start_encode(<<>>) IN Try(<<>>) \o Up(rungs) \o Do(Venc_start_get_stream, Down(rungs))
\* Here a stream thread that does not start is only reported: the caller sees the error
\* and takes down all but the encoders.
Venc_intra_refresh_start_encode ==
  Try(<<>>) \o Up(Bound_start_encode(Try(<<>>) \o Try(<<>>))) \o Venc_start_get_stream
Venc_roi_bg_start_encode ==
  LET rungs == Bound_start_encode(Try(<<>>) \o Try(<<>>) \o Try(<<>>) \o Try(<<>>))
  IN Try(<<>>) \o Up(rungs) \o Do(Venc_start_get_stream, Down(rungs))
Venc_debreath_effect_start_encode ==
  LET rungs == Bound_start_encode(Try(<<>>) \o Try(<<>>))
  IN Try(<<>>) \o Up(rungs) \o Do(Venc_start_get_stream, Down(rungs))

\* The channels are fed by a thread, which no failure after its start stops.
Fed_start_encode(sendFrame, jpeg) ==
  LET rungs == << Rung(Venc_start(0), Venc_stop(0)), Rung(Venc_start_type(1, jpeg), Venc_stop(1)) >>
  IN Try(<<>>) \o Up(rungs) \o Do(sendFrame, Down(rungs)) \o Do(Venc_start_get_stream, Down(rungs))
Venc_mjpeg_roimap_start_encode == Fed_start_encode(Venc_send_roimap_frame, TRUE)

Venc_exit_process               == Venc_stop_get_stream(2)
Venc_unbind_vpss_stop == LET One(c) == Vpss_bind_venc(c).down \o Venc_stop(c) IN Each(2, One)
Venc_stop_both        == Each(2, Venc_stop)

VencRoute(start, stop) ==
  Ladder(<< Rung(Venc_sys_init, Sys_exit), Venc_vi_init,
            Venc_vpss_init,
            Vi_bind_vpss(0), Rung(start, stop) >>)
Venc_normal          == VencRoute(Venc_normal_start_encode, Venc_exit_process \o Venc_unbind_vpss_stop)
Venc_qpmap ==
  LET Venc_qpmap_exit_process == Venc_stop_send_qpmap_frame \o Venc_stop_get_stream(2)
      Venc_qpmap_start_encode == Fed_start_encode(Venc_send_qpmap_frame, FALSE)
  IN VencRoute(Venc_qpmap_start_encode, Venc_qpmap_exit_process \o Venc_stop_both)
Venc_intra_refresh   == VencRoute(Venc_intra_refresh_start_encode, Venc_exit_process \o Venc_unbind_vpss_stop)
Venc_roi_bg          == VencRoute(Venc_roi_bg_start_encode, Venc_exit_process \o Venc_unbind_vpss_stop)
Venc_debreath_effect == VencRoute(Venc_debreath_effect_start_encode, Venc_exit_process \o Venc_unbind_vpss_stop)
Venc_mjpeg_roi_set ==
  LET
      \* MJPEG and JPEG: the region is set on the first channel only.
      Venc_mjpeg_roi_set_start_encode ==
        LET rungs == << Rung(Venc_start(0), Venc_stop(0)), Vpss_bind_venc(0),
                        Rung(Try(<<>>) \o Try(<<>>), <<>>),
                        Rung(Venc_start_type(1, TRUE), Venc_stop(1)), Vpss_bind_venc(1) >>
        IN Try(<<>>) \o Up(rungs) \o Do(Venc_start_get_stream, Down(rungs))
  IN VencRoute(Venc_mjpeg_roi_set_start_encode, Venc_exit_process \o Venc_unbind_vpss_stop)
Venc_mjpeg_roimap ==
  LET Venc_mjpeg_roimap_exit_process == Venc_stop_send_roimap_frame \o Venc_stop_get_stream(2)
  IN VencRoute(Venc_mjpeg_roimap_start_encode, Venc_mjpeg_roimap_exit_process \o Venc_stop_both)

VencRouteLeaks == SysLeaks \cup ViLeaks \cup VencLeaks

------------------------------------------------------------------------------
(* The threads. Round(i) is what a thread does for channel i once.            *)

Get_stream_from_one_channel(i, jpeg) ==
  LET
      \* A frame that was not saved keeps the stream of the driver, and a JPEG's file open.
      Save_frame_to_file(k, j) == When(j, Get("file", k, Free("pack", k))) \o Try(Free("pack", k))
  IN Try(<<>>) \o Get("pack", i, <<>>) \o Get("stream", i, Free("pack", i))
     \o Save_frame_to_file(i, jpeg)
     \o Free("stream", i) \o Free("pack", i) \o When(jpeg, Free("file", i))

\* Files opened before a failure stay open.
Set_name_save_stream(n, jpeg) ==
  LET Open(i) == Try(<<>>) \o When(~jpeg, Get("file", i, <<>>)) \o Try(<<>>) \o Try(<<>>) IN Each(n, Open)
Get_venc_stream_proc(n, jpeg) ==
  LET Round(i) == Get_stream_from_one_channel(i, jpeg)
      Close(i) == Free("file", i)
  IN Set_name_save_stream(n, jpeg) \o Lax(Each(n, Round)) \o Lax(Each(n, Round)) \o When(~jpeg, Each(n, Close))

Get_venc_stream_proc_svc_t ==
  LET Get_stream_from_one_channel_svc_t ==
        LET
            \* One channel, a file per temporal layer. A layer that is not saved frees the packets,
            \* and the function goes on to release the stream.
            Save_frame_to_file_svc_t == Try(Free("pack", 0))
        IN Try(<<>>) \o Get("pack", 0, <<>>) \o Get("stream", 0, Free("pack", 0))
           \o Lax(Save_frame_to_file_svc_t)
           \o Free("stream", 0) \o IfHeld("pack", 0, Free("pack", 0))
      Open(t)  == Get("file", t, <<>>)
      Close(t) == IfHeld("file", t, Free("file", t))
  IN Try(<<>>) \o Each(3, Open) \o Try(<<>>) \o Try(<<>>)
     \o Lax(Get_stream_from_one_channel_svc_t) \o Lax(Get_stream_from_one_channel_svc_t) \o Each(3, Close)

\* A frame is given back before the next is taken, sent or not.
Send_vpss_frame(i) ==
  OrSkip(Get("vpss_frame", i, <<>>), Try(Free("vpss_frame", i)) \o Free("vpss_frame", i))

Alloc_qpmap_skipweight_memory(n) ==
  LET Alloc(i) == Get("mmz", 2 * i, <<>>) \o Get("mmz", 2 * i + 1, <<>>) IN Each(n, Alloc)
Qpmap_send_frame_proc(n) ==
  LET FreeIf(m) == IfHeld("mmz", m, Free("mmz", m))
      error     == Each(2 * n, FreeIf)
      Depth(i)  == Try(<<>>) \o Try(<<>>)
  IN Do(Alloc_qpmap_skipweight_memory(n) \o Each(n, Depth), error)
     \o Lax(Each(n, Send_vpss_frame)) \o Lax(Each(n, Send_vpss_frame)) \o error

\* A map that cannot be allocated leaves those before it.
Send_roimap_frame_proc(n) ==
  LET Alloc(i)  == Get("mmz", i, <<>>)
      FreeIf(i) == IfHeld("mmz", i, Free("mmz", i))
      Depth(i)  == Try(<<>>) \o Try(<<>>)
  IN Each(n, Alloc) \o Do(Each(n, Depth), Each(n, FreeIf))
     \o Lax(Each(n, Send_vpss_frame)) \o Lax(Each(n, Send_vpss_frame)) \o Each(n, FreeIf)

Rateauto_stream_proc(n) ==
  LET Depth(i) == Lax(Try(<<>>)) \o Lax(Try(<<>>))
      Round(i) == OrSkip(Get("vpss_frame", i, <<>>), Free("vpss_frame", i) \o Try(<<>>) \o Lax(Try(<<>>))
                  \o Lax(Try(<<>>)))
  IN Each(n, Depth) \o Each(n, Round) \o Each(n, Round)

\* The same loop saves the pictures of a channel that is not a snapshot's.
Venc_snap_process(n) ==
  LET Get_snap_stream ==
        LET
            \* fdopen failing goes on to close a file that is not there and keeps the descriptor.
            Save_snap_stream ==
              Get("fd", 0, Free("pack", 0))
              \o Get("file", 0, Free("pack", 0) \o Free("file", 0))
              \o Try(Free("pack", 0) \o Free("file", 0) \o Free("fd", 0)) \o Free("file", 0) \o Free("fd", 0)
        IN Try(<<>>) \o Get("pack", 0, <<>>) \o Get("stream", 0, Free("pack", 0)) \o Save_snap_stream
           \o Free("stream", 0) \o Free("pack", 0)
      Picture(i) == Try(<<>>) \o Get_snap_stream IN Try(<<>>) \o Each(n, Picture)
Venc_save_jpeg(n)    == Venc_snap_process(n)
SnapLeaks            == {"stream", "fd"}

\* Two copies of half a picture, the second only if the first could be allocated.
Venc_plan_to_semi ==
  Get("tmp_u", 0, <<>>) \o Get("tmp_v", 0, Free("tmp_u", 0)) \o Try(Free("tmp_u", 0) \o Free("tmp_v", 0))
  \o Free("tmp_u", 0) \o Free("tmp_v", 0)

VencPrograms ==
  [venc_normal          |-> Program(Venc_normal, VencRouteLeaks),
   venc_qpmap           |-> Program(Venc_qpmap, VencRouteLeaks \cup {"qpmap_thread"}),
   venc_intra_refresh   |-> Program(Venc_intra_refresh, VencRouteLeaks \cup {"venc_on", "vpss_venc"}),
   venc_roi_bg          |-> Program(Venc_roi_bg, VencRouteLeaks),
   venc_debreath_effect |-> Program(Venc_debreath_effect, VencRouteLeaks),
   venc_mjpeg_roi_set   |-> Program(Venc_mjpeg_roi_set, VencRouteLeaks),
   venc_mjpeg_roimap    |-> Program(Venc_mjpeg_roimap, VencRouteLeaks \cup {"roimap_thread"}),
   venc_stream_thread   |-> Program(Get_venc_stream_proc(2, FALSE), {"file", "stream"}),
   venc_jpeg_thread     |-> Program(Get_venc_stream_proc(2, TRUE), {"file", "stream"}),
   venc_svc_t_thread    |-> Program(Get_venc_stream_proc_svc_t, {"file"}),
   venc_qpmap_thread    |-> Program(Qpmap_send_frame_proc(2), {}),
   venc_roimap_thread   |-> Program(Send_roimap_frame_proc(2), {"mmz"}),
   venc_rateauto_thread |-> Program(Rateauto_stream_proc(2), {}),
   venc_snap            |-> Flawed(Venc_snap_process(2), SnapLeaks, {}, {"file"}),
   venc_plan_to_semi    |-> Program(Venc_plan_to_semi, {})]
==============================================================================
