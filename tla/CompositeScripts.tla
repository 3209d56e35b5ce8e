--------------------------- MODULE CompositeScripts ---------------------------
(***************************************************************************)
(* composite/: a picture and its mosaic are encoded together.  VPSS group 0  *)
(* has both; one program decodes the stream again and shows it, the other    *)
(* writes it to a file.                                                      *)
(***************************************************************************)
EXTENDS VdecScripts

\* Whether buffers with supplements are asked for depends on a field nobody sets.
Composite_sys_init(supplement) == IF supplement THEN Sys_init_with_vb_supplement ELSE Sys_init
Composite_vi_init == Rung(Start_vi(0, 1), Stop_vi(0, 1))
Composite_vpss_init(g) ==
  Rung(
    Vpss_start(g, IF g = 0 THEN <<0, 1>> ELSE <<0>>),
    Vpss_stop(g, IF g = 0 THEN <<0, 1>> ELSE <<0>>))
\* A decoder whose composite mode cannot be set is left, with its pools.
Composite_vdec_init ==
  Rung(
    Do(Vdec_init_vb_pool, <<>>) \o Do(Vdec_start(1, FALSE), Vdec_exit_vb_pool) \o Try(<<>>),
    Vdec_stop(1) \o Vdec_exit_vb_pool)
Composite_vo_init == Rung(Vo_start(0, 1, "hdmi"), Vo_stop(0, 1, "hdmi"))
Composite_venc_init ==
  LET Set_venc_composite_enable == Lax(Try(<<>>) \o Try(<<>>))
  IN Rung(
       Try(<<>>) \o Try(<<>>) \o Try(<<>>) \o Set_venc_composite_enable \o Do(Venc_start(0), <<>>),
       Venc_stop(0))

Send_multi_frame_proc ==
  LET
      \* The sender's round: the older of the two frames is given back and the next taken, the age
      \* read from a frame that may not have been obtained.
      Composite_send_multi_frame(older) ==
        LET Take(c)    == Lax(Get("vpss_frame", c, <<>>))
            Release(c) == IfHeld("vpss_frame", c, Free("vpss_frame", c))
        IN Take(0) \o Take(1) \o Free("vpss_frame", older) \o Take(older) \o Lax(Try(<<>>)) \o Release(0)
           \o Release(1)
  IN Get("mmz", 0, <<>>) \o Composite_send_multi_frame(0) \o Composite_send_multi_frame(1) \o Free("mmz", 0)

\* The encoder's stream is copied and handed to the decoder.
Get_stream_proc ==
  LET exit  == Free("pack", 0) \o Free("stream_buf", 0)
      Round == Get("stream", 0, exit) \o Lax(Try(<<>>))
  IN Get("stream_buf", 0, <<>>) \o Get("pack", 0, Free("stream_buf", 0))
     \o Round \o IfFreed("stream", 0, Do(Round, <<>>) \o Free("stream", 0)) \o exit

\* Nobody checks whether the threads are there; one that is not is not joined.
Stop_thread_sendframe == IfHeld("frame_thread", 0, Free("frame_thread", 0))
Composite_start_thread ==
  LET Stop_thread_stream == IfHeld("composite_thread", 0, Free("composite_thread", 0))
  IN Rung(
       Lax(Get("frame_thread", 0, <<>>)) \o Lax(Get("composite_thread", 0, <<>>)),
       Stop_thread_sendframe \o Stop_thread_stream)
Composite_start_and_stop == Composite_start_thread.up \o Composite_start_thread.down \o Composite_venc_init.down

Composite_init_vi_vpss(supplement) == Try(<<>>) \o Try(<<>>) \o Composite_sys_init(supplement)
ViVpssRungs(supplement) ==
  << Rung(Composite_init_vi_vpss(supplement), Sys_exit), Composite_vi_init,
     Composite_vpss_init(0), Composite_vpss_init(1) >>
Composite_vi_vpss_init(supplement) == Up(ViVpssRungs(supplement))
\* The encoder's failure, too, falls through the labels below it.
Composite_venc_vdec_vo(supplement) ==
  LET VencVdecVoRungs(i) ==
        ViVpssRungs(i)
        \o << Composite_vdec_init, Composite_vo_init,
              Vi_bind_vpss(0), Vdec_bind_vpss(1),
              Vpss_bind_vo(1) >>
  IN Up(VencVdecVoRungs(supplement)) \o Lax(Composite_venc_init.up \o Composite_start_and_stop)
     \o Down(VencVdecVoRungs(supplement))

Composite_waiting_to_exit == Lax(Get("frame_thread", 0, <<>>)) \o Stop_thread_sendframe \o Venc_stop_get_stream(1)
Composite_venc_file(supplement) ==
  LET FileRungs(i) ==
        << Rung(Composite_init_vi_vpss(i), Sys_exit), Composite_vi_init,
           Composite_vpss_init(0), Vi_bind_vpss(0),
           Composite_venc_init >>
  IN Up(FileRungs(supplement)) \o Lax(Venc_start_get_stream \o Composite_waiting_to_exit)
     \o Down(FileRungs(supplement))

CompositePrograms ==
  [composite      |-> Program(Composite_venc_vdec_vo(FALSE), ViLeaks \cup VoLeaks \cup VdecLeaks \cup {"venc"}),
   composite_file |-> Program(Composite_venc_file(TRUE), SysLeaks \cup ViLeaks \cup VencLeaks),
   composite_send_thread |-> Flawed(Send_multi_frame_proc, {}, {}, {"vpss_frame"}),
   composite_get_thread  |-> Program(Get_stream_proc, {})]
==============================================================================
