----------------------------- MODULE HdmiScripts -----------------------------
(***************************************************************************)
(* hdmi/: files decoded on several channels and shown side by side on a      *)
(* television, with sound; the events of the plug and the commands that      *)
(* change the picture while it plays.                                        *)
(***************************************************************************)
EXTENDS VdecScripts

Step2_init_vb       == Vdec_init_vb_pool
\* The groups started before one that fails stay.
Step4_start_vpss(n) == LET Start(g) == Vpss_start(g, <<0, 1>>) IN Each(n, Start)
Step5_start_vo(n)   == Vo_start(0, n, "hdmi")
Step8_send_stream_to_vdec(n) == Vdec_start_send_stream(n).up

\* The labels of the switch fall through; none of them stops VPSS, and all channels are
\* unbound whichever was bound.
Error_handle(n, err) ==
  LET order == <<"SYS_INIT", "VB_INIT", "VDEC_START", "VPSS_START", "VO_START", "VDEC_BIND", "STREAM_SEND">>
      From(label) == \E i, j \in DOMAIN order : order[i] = label /\ order[j] = err /\ i <= j
  IN When(From("STREAM_SEND"), Each(n, LAMBDA i : Vpss_bind_vo(i).down))
     \o When(From("VDEC_BIND"), Each(n, LAMBDA i : Vdec_bind_vpss(i).down))
     \o When(From("VO_START"), Vo_stop(0, n, "hdmi"))
     \o When(From("VDEC_START"), Vdec_stop(n))
     \o When(From("VB_INIT"), Vdec_exit_vb_pool)
     \o Sys_exit

Hdmi_vdec_vpss_vo_start(n) ==
  LET Step1_init == Try(<<>>) \o Sys_init
  IN Rung(
       Do(Step1_init, Error_handle(n, "SYS_INIT"))
       \o Do(Step2_init_vb, Error_handle(n, "VB_INIT"))
       \o Do(Vdec_start(n, FALSE), Error_handle(n, "VDEC_START"))
       \o Do(Step4_start_vpss(n), Error_handle(n, "VPSS_START"))
       \o Do(Step5_start_vo(n), Error_handle(n, "VO_START"))
       \o Do(Each(n, LAMBDA i : Vdec_bind_vpss(i).up), Error_handle(n, "VDEC_BIND"))
       \o Do(Each(n, LAMBDA i : Vpss_bind_vo(i).up), Error_handle(n, "STREAM_SEND"))
       \o Step8_send_stream_to_vdec(n),
       LET Stop(g) == Vpss_stop(g, <<0, 1>>)
       IN Vdec_start_send_stream(n).down \o Each(n, LAMBDA i : Vpss_bind_vo(i).down)
          \o Each(n, LAMBDA i : Vdec_bind_vpss(i).down)
          \o Vo_stop(0, n, "hdmi") \o EachBack(n, Stop) \o Vdec_stop(n) \o Vdec_exit_vb_pool \o Sys_exit)

\* HDMI has been initialised and opened with the video output; a second time changes nothing.
Hdmi_start == LET Call(i) == Try(<<>>) IN Each(8, Call)

Event_call_back(hotplug) ==
  LET
      \* The television is plugged in, or pulled out.
      Hot_plug_proc == Lax(Try(<<>>)) \o Lax(Try(<<>>)) \o Lax(Try(<<>>)) \o Lax(Get("hdmi_on", 0, <<>>))
      Un_plug_proc == Free("hdmi_on", 0)
  IN IF hotplug THEN Hot_plug_proc ELSE Un_plug_proc

\* A new format: the output is taken down and started again, and HDMI, still open, with it.
Hdmi_fmt_change(n) ==
  LET Hdmi_stop_vo(i) == Strict(Vo_start_chn(0, i).down \o Vo_start_layer(0).down \o Vo_stop_dev(0))
      again == Try(<<>>) \o Try(<<>>) \o Try(<<>>) \o Try(<<>>) \o Get("hdmi_on", 0, <<>>)
      start == Try(<<>>) \o Try(<<>>) \o Do(Vo_start(0, n, "open"), Vo_stop(0, n, "hdmi")) \o Lax(again)
  IN Free("hdmi_on", 0) \o Hdmi_stop_vo(n) \o start

------------------------------------------------------------------------------
(* The commands that change HDMI stop it, set what they are about and start it: *)
(* a call that fails in between leaves it stopped.                              *)
Restarted(settings) == IfFreed("hdmi_on", 0, settings \o Get("hdmi_on", 0, <<>>))

Hdmi_force       == Restarted(Try(<<>>) \o Try(<<>>))
Dvi_force        == Free("hdmi_on", 0) \o Try(<<>>) \o Try(<<>>) \o Try(<<>>) \o Try(<<>>) \o Get("hdmi_on", 0, <<>>)
\* A depth that cannot be set is reported only.
Deepcolor        == Lax(Try(<<>>)) \o Restarted(Try(<<>>) \o Lax(Try(<<>>)))
Hdmi_deep_color  == Try(<<>>) \o Deepcolor
Video_timing(n)  == Hdmi_fmt_change(n)
Color_mode       == Try(<<>>) \o Restarted(Try(<<>>))
Hdmi_colormode   == Try(<<>>) \o Color_mode
Aspectratio      == Restarted(Try(<<>>) \o Try(<<>>))
Hdmi_aspect_ratio == Try(<<>>) \o Aspectratio
Authmode         == Restarted(Try(<<>>) \o Try(<<>>))

------------------------------------------------------------------------------
(* Sound: two channels from a file each, played on the HDMI output.            *)
Mst_audio_start_hdmi ==
  Try(<<>>) \o Try(<<>>) \o IfFreed("hdmi_on", 0, Try(<<>>) \o Get("hdmi_on", 0, <<>>) \o Try(<<>>))
Mst_start_adec(i) == Get("adec", i, <<>>)
Mst_comm_start_ao(n) ==
  LET Chn(i) == Get("ao_chn", i, <<>>) \o Free("ao_res", i) \o Get("ao_res", i, <<>>)
  IN Try(<<>>) \o Get("ao_dev", 0, <<>>) \o Each(n, Chn)
Mst_comm_ao_bind_adec(i) == Rung(Get("adec_ao", i, <<>>), Free("adec_ao", i))
Mst_comm_adec_proc(i) ==
  Get("stream_buf", i, Free("file", i)) \o Lax(Try(<<>>)) \o Free("stream_buf", i) \o Free("file", i)

\* What it checks are the settings it made itself.
Hdmi_start_audio(n) ==
  LET
      \* A step that fails ends it without a word to the caller, and nothing is undone.
      Mst_adec_ao(j) ==
        LET
            \* The file goes with the thread that reads it.
            Mst_comm_creat_trd_file_adec(i) ==
              Get("path", i, <<>>) \o Get("file", i, Free("path", i)) \o Note("audio_start", i)
              \o Lax(Get("adec_thread", i, <<>>)) \o Free("path", i)
            Play(i) == Mst_comm_ao_bind_adec(i).up \o Mst_comm_creat_trd_file_adec(i)
        IN Lax(Lax(Mst_audio_start_hdmi) \o Each(j, Mst_start_adec) \o Mst_comm_start_ao(j) \o Each(j, Play))
  IN Mst_adec_ao(n)
Hdmi_stop_audio(n) ==
  LET Mst_comm_destory_trd_file_adec(i) ==
        IfHeld("audio_start", i, Free("audio_start", i) \o Free("adec_thread", i))
      Mst_comm_stop_ao(j) ==
        LET Chn(i) == Free("ao_res", i) \o Free("ao_chn", i) IN Strict(Each(j, Chn) \o Free("ao_dev", 0))
      Mst_comm_stop_adec(i) == Free("adec", i)
      Stop(i) == Mst_comm_destory_trd_file_adec(i) \o Mst_comm_ao_bind_adec(i).down
  IN Each(n, Stop) \o Mst_comm_stop_ao(n) \o Each(n, Mst_comm_stop_adec)
Hdmi_set_audio_sample_rate(n) == Hdmi_stop_audio(n) \o Hdmi_start_audio(n)
Freq(n)            == Try(<<>>) \o Hdmi_set_audio_sample_rate(n)

Test_cmd(n) ==
  LET Hdmi_audio_freq(i) == Try(<<>>) \o Freq(i)
  IN Lax(Hdmi_force) \o Lax(Dvi_force) \o Lax(Hdmi_deep_color) \o Lax(Hdmi_colormode) \o Lax(Hdmi_aspect_ratio)
     \o Lax(Authmode) \o Lax(Video_timing(n)) \o Lax(Hdmi_audio_freq(n))

\* main waits for ever in front of its stop calls; the players are run to their stop here.
Hdmi_main(n, during) ==
  Hdmi_vdec_vpss_vo_start(n).up \o Lax(Hdmi_start) \o Hdmi_start_audio(n) \o during
  \o Hdmi_stop_audio(n) \o Hdmi_vdec_vpss_vo_start(n).down

HdmiPlayLeaks == VdecLeaks \cup VoLeaks \cup {"vpss_grp", "vpss_on", "vpss_chn", "hdmi_on",
                                          "ao_dev", "ao_chn", "ao_res"}
HdmiPrograms ==
  [hdmi       |-> Flawed(Hdmi_main(2, Event_call_back(FALSE) \o Event_call_back(TRUE)),
                         HdmiPlayLeaks \cup {"file", "adec_thread"}, {}, {"adec_thread"}),
   hdmi_video |-> Program(Hdmi_vdec_vpss_vo_start(2).up \o Hdmi_vdec_vpss_vo_start(2).down, HdmiPlayLeaks),
   hdmi_cmd   |-> Flawed(Hdmi_main(1, Test_cmd(1)), HdmiPlayLeaks \cup {"file", "adec_thread"}, {}, {"adec_thread"}),
   hdmi_adec_thread |-> Program(Get("file", 0, <<>>) \o Mst_comm_adec_proc(0), {})]
==============================================================================
