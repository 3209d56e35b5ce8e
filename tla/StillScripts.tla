----------------------------- MODULE StillScripts -----------------------------
(***************************************************************************)
(* snap/, photo/, traffic_capture/: still pictures taken beside the video.   *)
(* Pipe 0, VPSS group 0 and encoder 0 are the video's, 1 the picture's; VI   *)
(* stays bound to group g as binding g.                                      *)
(***************************************************************************)
EXTENDS VencScripts

\* The same in the three samples: encoders with their stream thread.  One that does not
\* start is not destroyed.
Encoders(n)      == EachOrUndo(n, Venc_start, Venc_stop) \o Do(Venc_start_get_stream, EachBack(n, Venc_stop))
Stop_encoders(n) == Venc_stop_get_stream(n) \o Each(n, Venc_stop)
\* Where the mode of VI and VPSS cannot be set the system stays up.
Mode_sys_init    == Do(Sys_init_with_vb_supplement, <<>>) \o Try(<<>>)
StillLeaks       == SysLeaks \cup {"sys"} \cup ViLeaks \cup VoLeaks \cup VencLeaks \cup {"vi_vpss"}

------------------------------------------------------------------------------
(* snap/sample_snap.c                                                         *)

Snap_sys_init      == Mode_sys_init
Snap_start_vpss(g) == Rung(Vpss_start(g, <<0>>), Vpss_stop(g, <<0>>))
Snap_start_venc_and_vo ==
  LET Snap_start_vo == Rung(Vo_start(0, 1, "hdmi"), Vo_stop(0, 1, "hdmi"))
      Snap_start_venc == Rung(Encoders(1), Stop_encoders(1))
  IN Rung(
       Do(Snap_start_vo.up, <<>>) \o Do(Snap_start_venc.up, Snap_start_vo.down)
       \o Do(Venc_snap_start(1), Snap_start_venc.down \o Snap_start_vo.down)
       \o Lax(Vpss_bind_vo(0).up) \o Lax(Vpss_bind_venc(0).up) \o Lax(Vpss_bind_venc(1).up),
       Vpss_bind_vo(0).down \o Vpss_bind_venc(0).down \o Vpss_bind_venc(1).down
       \o Snap_start_venc.down \o Venc_snap_stop(1) \o Snap_start_vo.down)
Snap_double_pipe_offline ==
  LET Snap_start_vi_route == Rung(Start_vi(0, 2), Stop_vi(0, 2))
      \* The two bindings are undone by no failure.
      Snap_start_vpss_venc_vo ==
        Rung(
          Lax(Vi_bind_vpss(0).up) \o Lax(Vi_bind_vpss(1).up) \o Do(Snap_start_vpss(0).up, <<>>)
          \o Do(Snap_start_vpss(1).up, Snap_start_vpss(0).down)
          \o Do(Snap_start_venc_and_vo.up, Snap_start_vpss(1).down \o Snap_start_vpss(0).down),
          Snap_start_venc_and_vo.down \o Snap_start_vpss(1).down \o Snap_start_vpss(0).down
          \o Vi_bind_vpss(1).down \o Vi_bind_vpss(0).down)
      Snap_start_snap ==
        Try(<<>>) \o Get("snap_on", 0, <<>>) \o Do(Try(<<>>) \o Venc_snap_process(2), Free("snap_on", 0))
        \o Free("snap_on", 0)
  IN Do(Snap_sys_init, <<>>) \o Do(Snap_start_vi_route.up, Sys_exit)
     \o Do(Snap_start_vpss_venc_vo.up, Snap_start_vi_route.down \o Sys_exit)
     \o Lax(Snap_start_snap) \o Snap_start_vpss_venc_vo.down \o Snap_start_vi_route.down \o Sys_exit

------------------------------------------------------------------------------
(* photo/sample_photo.c: a DSP makes one picture of several.                   *)

\* A binary that cannot be loaded leaves the core powered.
Photo_load_dsp_core_bin ==
  Rung(
    LET Load(i) == Try(<<>>) IN Get("dsp", 0, <<>>) \o Each(4, Load) \o Get("dsp_on", 0, <<>>),
    Strict(Free("dsp_on", 0) \o Free("dsp", 0)))
Photo_sys_init      == Mode_sys_init
Photo_start_vpss(g) == Rung(Vpss_start(g, <<0>>), Vpss_stop(g, <<0>>))
Photo_start_venc_and_vo ==
  LET Photo_start_vo == Rung(Vo_start(0, 1, "hdmi"), Vo_stop(0, 1, "hdmi"))
      Photo_start_venc == Rung(Encoders(1), Stop_encoders(1))
  IN Rung(
       Do(Photo_start_vo.up, <<>>) \o Do(Photo_start_venc.up, Photo_start_vo.down)
       \o Do(Venc_photo_start(1), Photo_start_venc.down \o Photo_start_vo.down)
       \o Lax(Vpss_bind_vo(0).up) \o Lax(Vpss_bind_venc(0).up),
       Vpss_bind_vo(0).down \o Vpss_bind_venc(0).down \o Photo_start_venc.down \o Venc_snap_stop(1)
       \o Photo_start_vo.down)
Photo_start_video ==
  LET Photo_start_vpss_venc_vo ==
        Rung(
          Lax(Vi_bind_vpss(0).up) \o Lax(Vi_bind_vpss(1).up) \o Do(Photo_start_vpss(0).up, <<>>)
          \o Do(Photo_start_vpss(1).up, Photo_start_vpss(0).down)
          \o Do(Photo_start_venc_and_vo.up, Photo_start_vpss(1).down \o Photo_start_vpss(0).down),
          Photo_start_venc_and_vo.down \o Photo_start_vpss(1).down \o Photo_start_vpss(0).down
          \o Vi_bind_vpss(1).down \o Vi_bind_vpss(0).down)
      Photo_start_vi_route == Rung(Start_vi(0, 2), Stop_vi(0, 2))
  IN Rung(
       Do(Photo_sys_init, <<>>) \o Do(Photo_start_vi_route.up, Sys_exit)
       \o Do(Photo_start_vpss_venc_vo.up, Photo_start_vi_route.down \o Sys_exit),
       Photo_start_vpss_venc_vo.down \o Photo_start_vi_route.down \o Sys_exit)
Photo_start_snap ==
  Try(<<>>) \o Try(<<>>) \o Try(<<>>) \o Get("snap_on", 0, <<>>) \o Try(Free("snap_on", 0))

\* A map that fails here ends the program: the sensitivity is read through it unchecked.
Photo_get_iso == Note("isp_map", 0) \o Free("isp_map", 0)
\* The block the algorithm writes to.  Its ISP information is copied through two maps; when
\* one of them fails the other stays.
Photo_get_dst_frame_info == Get("blk", 0, <<>>) \o Try(Free("blk", 0))
Photo_copy_isp_info ==
  LET both == Get("isp_map", 0, Get("isp_map", 1, <<>>)) \o Get("isp_map", 1, <<>>)
  IN Lax(both \o Free("isp_map", 0) \o Free("isp_map", 1))
Photo_alg_init ==
  Rung(
    Get("mmz", 0, <<>>) \o Get("photo_alg", 0, Free("mmz", 0)),
    Free("photo_alg", 0) \o Free("mmz", 0))
Photo_save_jpeg  == Try(<<>>) \o Venc_save_jpeg(1)
\* n pictures: the frame the failing call was about is not released.
Photo_process(n) ==
  LET Release(i) == Free("vpss_frame", i)
      exit(i)    == EachBack(i, Release) \o IfHeld("blk", 0, Free("blk", 0))
      Take(i) == Get("vpss_frame", i, exit(i)) \o Do(When(i = 0, Photo_get_dst_frame_info), exit(i))
                 \o Photo_get_iso \o Try(exit(i))
  IN Each(n, Take) \o Photo_copy_isp_info \o Do(Photo_save_jpeg, exit(n)) \o exit(n)

Photo_route(alg, process) ==
  LET PhotoRungs(i) ==
        << Photo_start_video, Photo_load_dsp_core_bin,
           Rung(i, Photo_alg_init.down), Rung(Photo_start_snap, Free("snap_on", 0)) >>
  IN Up(PhotoRungs(alg)) \o Lax(process) \o Down(PhotoRungs(alg))
Photo_hdr_route ==
  LET Photo_hdr_process == Photo_process(3)
  IN Photo_route(Photo_alg_init.up, Photo_hdr_process)
Photo_mfnr_route ==
  LET Photo_mfnr_process == Photo_process(4)
      Photo_mfnr_set_coef == Try(<<>>) \o Try(<<>>)
  IN Photo_route(Photo_alg_init.up \o Do(Photo_mfnr_set_coef, Photo_alg_init.down), Photo_mfnr_process)
Photo_sfnr_route ==
  LET Photo_sfnr_process ==
        LET exit == Free("vpss_frame", 0)
        IN Get("vpss_frame", 0, <<>>) \o Photo_get_iso \o Try(exit) \o Do(Photo_save_jpeg, exit) \o exit
  IN Photo_route(Photo_alg_init.up, Photo_sfnr_process)

------------------------------------------------------------------------------
(* traffic_capture/: raw frames of the video pipe are sent through a virtual   *)
(* pipe for the picture.                                                      *)

Traffic_sys_init      == Mode_sys_init
Traffic_start_vpss(g) == Rung(Vpss_start(g, <<0>>), Vpss_stop(g, <<0>>))
Traffic_start_venc_and_vo ==
  LET Traffic_start_vo == Rung(Vo_start(0, 1, "hdmi"), Vo_stop(0, 1, "hdmi"))
      Traffic_start_venc == Rung(Encoders(2), Stop_encoders(2))
  IN Rung(
       Do(Traffic_start_vo.up, <<>>) \o Do(Traffic_start_venc.up, Traffic_start_vo.down)
       \o Lax(Vpss_bind_vo(0).up) \o Lax(Vpss_bind_venc(0).up) \o Lax(Vpss_bind_venc(1).up),
       Vpss_bind_vo(0).down \o Vpss_bind_venc(0).down \o Vpss_bind_venc(1).down \o Traffic_start_venc.down
       \o Traffic_start_vo.down)
Traffic_start_video_route == Rung(Do(Start_vi(0, 1), <<>>) \o Try(Stop_vi(0, 1)), Stop_vi(0, 1))
\* A virtual pipe whose frame source cannot be set is left; the video is stopped instead.
Traffic_start_capture_route == Rung(Do(Start_virt_pipe(1, 1), <<>>) \o Try(Stop_vi(0, 1)), Stop_virt_pipe(1, 1))
\* VI is never unbound.
Traffic_start_vpss_venc_vo ==
  Rung(
    Lax(Vi_bind_vpss(0).up) \o Do(Traffic_start_vpss(0).up, <<>>)
    \o Do(Traffic_start_vpss(1).up, Traffic_start_vpss(0).down)
    \o Do(Traffic_start_venc_and_vo.up, Traffic_start_vpss(1).down \o Traffic_start_vpss(0).down),
    Traffic_start_venc_and_vo.down \o Traffic_start_vpss(1).down \o Traffic_start_vpss(0).down)
Traffic_capture_offline ==
  LET
      \* The flag the thread runs by is set behind the thread's creation.
      Create_capture_thread == Get("capture_thread", 0, <<>>) \o Note("capture_start", 0)
      TrafficRungs ==
        LET Destroy_capture_thread == IfHeld("capture_start", 0, Free("capture_start", 0)
        \o Free("capture_thread", 0))
        IN << Traffic_start_video_route,
              Traffic_start_capture_route,
              Traffic_start_vpss_venc_vo,
              Rung(Create_capture_thread, Destroy_capture_thread) >>
  IN Do(Traffic_sys_init, <<>>) \o Do(Up(TrafficRungs), Sys_exit) \o Down(TrafficRungs) \o Sys_exit

Capture_thread ==
  LET Capture_send_frame_to_video_pipe == Lax(Try(<<>>))
      Capture_send_frame_to_capture_pipe ==
        LET
            \* The thread: each frame goes to both pipes, or back to the video pipe alone.
            Capture_set_isp_param == LET Call(i) == Try(<<>>) IN Each(6, Call)
            Send(i) == Capture_set_isp_param \o Try(<<>>) \o Try(<<>>) \o Try(<<>>) \o Try(<<>>)
                       \o Lax(Get("vi_frame", 1, <<>>) \o Free("vi_frame", 1))
        IN Each(2, Send)
      Frame(capture) ==
        Get("raw_frame", 0, <<>>)
        \o (IF capture THEN Lax(Capture_send_frame_to_capture_pipe) ELSE Capture_send_frame_to_video_pipe)
  IN Try(<<>>) \o Frame(FALSE) \o IfFreed("raw_frame", 0, Frame(TRUE) \o Free("raw_frame", 0))

PhotoLeaks == SnapLeaks \cup StillLeaks \cup {"dsp"}
StillPrograms ==
  [snap       |-> Flawed(Snap_double_pipe_offline, SnapLeaks \cup StillLeaks, {}, {"file"}),
   photo_hdr  |-> Flawed(Photo_hdr_route, PhotoLeaks \cup {"vpss_frame", "isp_map"}, {}, {"file"}),
   photo_mfnr |-> Flawed(Photo_mfnr_route, PhotoLeaks \cup {"vpss_frame", "isp_map"}, {}, {"file"}),
   photo_sfnr |-> Flawed(Photo_sfnr_route, PhotoLeaks, {}, {"file"}),
   traffic_capture |-> Flawed(Traffic_capture_offline, StillLeaks \cup ViKinds, {"vi_vpss"}, {}),
   capture_thread  |-> Program(Capture_thread, {})]
==============================================================================
