----------------------------- MODULE VdecScripts -----------------------------
(***************************************************************************)
(* common/sample_comm_vdec.c and vdec/sample_vdec.c: decoder channels and   *)
(* their buffer pools; a file is decoded, scaled and shown.                 *)
(***************************************************************************)
EXTENDS CommonScripts

\* The pools of the decoder module, taken down first if there are some.
Vdec_init_vb_pool == Free("vdec_vb", 0) \o Try(<<>>) \o Get("vdec_vb", 0, Free("vdec_vb", 0))
Vdec_exit_vb_pool == Free("vdec_vb", 0)

\* The other source of pools: two of each channel's own, which a failure destroys.
Vdec_exit_user_vb_pool(n) ==
  LET Stop(p) == IfHeld("pool", p, Free("pool", p)) IN EachBack(2 * n, Stop)
Vdec_init_user_vb_pool(n) ==
  LET Start(p) == Get("pool", p, <<>>) IN Do(Each(2 * n, Start), Vdec_exit_user_vb_pool(n))

Vdec_start(n, ldy) ==
  LET Config_ldy_attr(j) == When(j, Try(<<>>) \o Try(<<>>) \o Try(<<>>))
      Start(i) == Get("vdec", i, <<>>) \o Try(<<>>) \o Try(<<>>) \o Config_ldy_attr(ldy)
                  \o Get("vdec_on", i, <<>>)
  IN Try(<<>>) \o Try(<<>>) \o Each(n, Start)
Vdec_stop(n) ==
  LET Stop(i) == Free("vdec_on", i) \o Free("vdec", i) IN Strict(Each(n, Stop))
VdecLeaks == {"vdec", "vdec_on"}

\* Threads nobody checks for: a channel without one is stopped all the same.
Vdec_start_send_stream(n) ==
  Rung(
    LET Start(i) == Lax(Get("send_thread", i, <<>>)) IN Each(n, Start),
    LET Stop(i) == IfHeld("send_thread", i, Free("send_thread", i)) \o Free("vdec_on", i) IN Each(n, Stop))

Init_sys_and_vb ==
  LET Init_module_vb == Vdec_init_vb_pool
  IN Try(<<>>) \o Do(Sys_init, Sys_exit) \o Do(Init_module_vb, Vdec_exit_vb_pool \o Sys_exit)

Vdec_stop_vpss(n)   == LET Stop(g) == Vpss_stop(g, <<0>>) IN EachBack(n, Stop)
Vdec_unbind_vpss(n) == Each(n, LAMBDA i : Vdec_bind_vpss(i).down)
Vdec_start_vpss(n, ldy) ==
  LET Start(g) == Do(Vpss_start(g, <<0>>), Vdec_stop_vpss(g + 1))
  IN Each(n, Start) \o Do(When(ldy, Try(<<>>) \o Try(<<>>)), Vdec_stop_vpss(n))
     \o Do(Each(n, LAMBDA i : Vdec_bind_vpss(i).up), Vdec_unbind_vpss(n) \o Vdec_stop_vpss(n))

Vdec_vpss_unbind_vo(n) == Each(n, LAMBDA i : Vpss_bind_vo(i).down)
Vdec_start_vo(n) ==
  Do(Vo_start(0, n, "hdmi"), Vo_stop(0, n, "hdmi"))
  \o Do(Each(n, LAMBDA i : Vpss_bind_vo(i).up), Vdec_vpss_unbind_vo(n) \o Vo_stop(0, n, "hdmi"))

Send_stream_to_vdec(n) == Vdec_start_send_stream(n).up \o Vdec_start_send_stream(n).down

\* A decoder that does not start leaves its pools to the exit of the system.
VdecRungs(n, ldy) ==
  LET Vdec_start_vdec(j, i) == Do(Vdec_start(j, i), Vdec_stop(j))
  IN << Rung(Init_sys_and_vb, Sys_exit),
        Rung(Vdec_start_vdec(n, ldy), Vdec_stop(n) \o Vdec_exit_vb_pool),
        Rung(Vdec_start_vpss(n, ldy), Vdec_unbind_vpss(n) \o Vdec_stop_vpss(n)),
        Rung(Vdec_start_vo(n), Vdec_vpss_unbind_vo(n) \o Vo_stop(0, n, "hdmi")) >>
VdecVpssVo(ldy) == Up(VdecRungs(1, ldy)) \o Send_stream_to_vdec(1) \o Down(VdecRungs(1, ldy))
H265_vdec_vpss_vo == VdecVpssVo(FALSE)
H264_vdec_vpss_vo == VdecVpssVo(FALSE)
Jpeg_vdec_vpss_vo == VdecVpssVo(FALSE)
H265_lowdelay_vdec_vpss_vo == VdecVpssVo(TRUE)

VdecPrograms ==
  [vdec          |-> Program(H265_vdec_vpss_vo, VdecLeaks \cup VoLeaks),
   vdec_lowdelay |-> Program(H265_lowdelay_vdec_vpss_vo, VdecLeaks \cup VoLeaks),
   vdec_user_vb  |-> Program(Vdec_init_user_vb_pool(2) \o Vdec_exit_user_vb_pool(2), {})]
==============================================================================
