---------------------------- MODULE CommonScripts ----------------------------
(***************************************************************************)
(* common/: the system and its buffer pools, the bindings between channels, *)
(* VPSS, video output and encoder channels, as every sample uses them.      *)
(***************************************************************************)
EXTENDS ViScripts

\* What is left of an earlier run is taken down first.
Sys_init ==
  Free("sys", 0) \o Free("vb", 0) \o Try(<<>>) \o Get("vb", 0, <<>>) \o Get("sys", 0, Free("vb", 0))
\* Here a failing ss_mpi_sys_init leaves the pools.
Sys_init_with_vb_supplement ==
  Free("sys", 0) \o Free("vb", 0) \o Try(<<>>) \o Try(<<>>) \o Get("vb", 0, <<>>) \o Get("sys", 0, <<>>)
SysLeaks == {"vb"}
Sys_exit == Free("sys", 0) \o Free("vdec_vb", 0) \o Free("vb", 0)

\* A register is written through a page mapped for the purpose.
Sys_set_reg == Get("mmap", 0, <<>>) \o Free("mmap", 0)
Sys_get_reg == Get("mmap", 0, <<>>) \o Free("mmap", 0)

\* The pairs of sample_comm_..._bind_... and _un_bind_: source and sink in the kind.
Vi_bind_vo(i) == Rung(Get("vi_vo", i, <<>>), Free("vi_vo", i))
Vi_bind_vpss(i) == Rung(Get("vi_vpss", i, <<>>), Free("vi_vpss", i))
Vi_bind_venc(i) == Rung(Get("vi_venc", i, <<>>), Free("vi_venc", i))
Avs_bind_venc(i) == Rung(Get("avs_venc", i, <<>>), Free("avs_venc", i))
Avs_bind_vo(i) == Rung(Get("avs_vo", i, <<>>), Free("avs_vo", i))
Vpss_bind_vo(i) == Rung(Get("vpss_vo", i, <<>>), Free("vpss_vo", i))
Vpss_bind_avs(i) == Rung(Get("vpss_avs", i, <<>>), Free("vpss_avs", i))
Vpss_bind_venc(i) == Rung(Get("vpss_venc", i, <<>>), Free("vpss_venc", i))
Vdec_bind_vpss(i) == Rung(Get("vdec_vpss", i, <<>>), Free("vdec_vpss", i))
Vo_bind_vo(i) == Rung(Get("vo_vo", i, <<>>), Free("vo_vo", i))

------------------------------------------------------------------------------
(* Channel c of VPSS group g is resource 10 * g + c; chns is the sequence of   *)
(* the enabled ones.                                                          *)

Vpss_start(g, chns) ==
  LET Vpss_start_chn(j, k) ==
        LET Start(i) == Try(<<>>) \o Get("vpss_chn", 10 * j + k[i + 1], <<>>)
            Stop(i)  == Free("vpss_chn", 10 * j + k[i + 1])
        IN EachOrUndo(Len(k), Start, Stop)
  IN Get("vpss_grp", g, <<>>)
     \o Get("vpss_on", g, Free("vpss_grp", g))
     \o Do(Vpss_start_chn(g, chns), Free("vpss_on", g) \o Free("vpss_grp", g))
Vpss_stop(g, chns) ==
  LET Stop(i) == Free("vpss_chn", 10 * g + chns[i + 1])
  IN Each(Len(chns), Stop) \o Free("vpss_on", g) \o Free("vpss_grp", g)

------------------------------------------------------------------------------
(* Channel c of video layer l is resource 100 * l + c; a device's layer has    *)
(* its number, the picture-in-picture layer is 10.                            *)
Pip == 10

\* user: the timing is the caller's own (OT_VO_OUT_USER) and has its attributes set too.
Vo_start_dev(d, user) == Try(<<>>) \o When(user, Try(<<>>) \o Try(<<>>)) \o Get("vo_dev", d, <<>>)
Vo_stop_dev(d)   == Free("vo_dev", d)
Vo_start_layer(l) == Rung(Try(<<>>) \o Get("vo_layer", l, <<>>), Free("vo_layer", l))

\* Of n windows: a failure leaves the channels before it enabled.
Vo_start_chn(l, n) ==
  Rung(
    LET Start(i) == Try(<<>>) \o Get("vo_chn", 100 * l + i, <<>>) IN Try(<<>>) \o Each(n, Start),
    LET Stop(i) == Free("vo_chn", 100 * l + i) IN Strict(Each(n, Stop)))

Vo_start_wbc == Rung(Try(<<>>) \o Try(<<>>) \o Get("wbc", 0, <<>>), Free("wbc", 0))

Vo_bt1120_start == Try(<<>>) \o Get("lt_fd", 0, <<>>) \o Free("lt_fd", 0)

Vo_hdmi_start ==
  Rung(
    Get("hdmi_init", 0, <<>>) \o Get("hdmi_open", 0, <<>>) \o Try(<<>>) \o Try(<<>>) \o Get("hdmi_on", 0, <<>>),
    Strict(Free("hdmi_on", 0) \o Free("hdmi_open", 0) \o Free("hdmi_init", 0)))
HdmiLeaks    == {"hdmi_init", "hdmi_open"}

\* The interface: "hdmi", "bt1120" or another that needs no start of its own.
Vo_start(d, n, intf) ==
  Do(Vo_start_dev(d, FALSE), <<>>)
  \o Do(Try(<<>>) \o Vo_start_layer(d).up, Vo_stop_dev(d))
  \o Do(Vo_start_chn(d, n).up, Vo_start_layer(d).down \o Vo_stop_dev(d))
  \o When(intf = "hdmi", Lax(Vo_hdmi_start.up))
  \o When(intf = "bt1120", Lax(Vo_bt1120_start))
Vo_stop(d, n, intf) ==
  When(intf = "hdmi", Vo_hdmi_start.down)
  \o Strict(Vo_start_chn(d, n).down \o Vo_start_layer(d).down \o Vo_stop_dev(d))

\* Only the layer is its own, yet a failure stops the caller's device.
Vo_start_pip(d, n) ==
  Do(Try(<<>>) \o Vo_start_layer(Pip).up, Vo_stop_dev(d))
  \o Do(Vo_start_chn(Pip, n).up, Vo_start_layer(Pip).down \o Vo_stop_dev(d))
Vo_stop_pip(n) == Strict(Vo_start_chn(Pip, n).down \o Vo_start_layer(Pip).down)

Vo_start_layer_chn(l, n) ==
  Rung(
    Do(Try(<<>>) \o Vo_start_layer(l).up, <<>>) \o Do(Vo_start_chn(l, n).up, Vo_start_layer(l).down),
    Strict(Vo_start_chn(l, n).down \o Vo_start_layer(l).down))

\* Channels left enabled, and what a release that fails makes the stop functions skip.
VoLeaks == {"vo_chn", "vo_layer", "vo_dev"} \cup HdmiLeaks

------------------------------------------------------------------------------
\* Reencoding is closed on every channel but a JPEG one.
Venc_create(c, jpeg) ==
  Try(<<>>) \o Get("venc", c, <<>>) \o When(~jpeg, Try(Free("venc", c)) \o Try(Free("venc", c)))
\* A channel that does not start receiving is not destroyed.
Venc_start_type(c, jpeg) == Do(Venc_create(c, jpeg), <<>>) \o Get("venc_on", c, <<>>)
Venc_start(c)            == Venc_start_type(c, FALSE)
Venc_stop(c)             == Free("venc_on", c) \o Free("venc", c)

Venc_snap_start(c)  == Get("venc", c, <<>>) \o Try(<<>>) \o Get("venc_on", c, <<>>)
Venc_photo_start(c) == Get("venc", c, <<>>) \o Get("venc_on", c, <<>>)
Venc_snap_stop(c)   == Strict(Free("venc_on", c) \o Free("venc", c))

VencLeaks == {"venc", "stream_thread", "stream_flag"}

\* The flag the thread runs by is set even if the thread cannot be created.
Venc_start_get_stream       == Note("stream_flag", 0) \o Get("stream_thread", 0, <<>>)
Venc_start_get_stream_svc_t == Venc_start_get_stream
\* The channels 0 .. n-1 are stopped first; one that cannot be leaves the thread running.
Venc_stop_get_stream(n) ==
  LET Stop(c) == Free("venc_on", c)
      thread  == IfHeld("stream_flag", 0, Free("stream_flag", 0) \o Free("stream_thread", 0))
  IN Strict(Each(n, Stop) \o thread)

Venc_rateauto_start           == Get("rateauto_thread", 0, <<>>)
Venc_stop_rateauto            == Free("rateauto_thread", 0)
Venc_send_qpmap_frame         == Get("qpmap_thread", 0, <<>>)
Venc_stop_send_qpmap_frame    == Free("qpmap_thread", 0)
Venc_send_roimap_frame        == Get("roimap_thread", 0, <<>>)
Venc_stop_send_roimap_frame   == Free("roimap_thread", 0)
==============================================================================
