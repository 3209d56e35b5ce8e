---------------------------- MODULE RegionScripts ----------------------------
(***************************************************************************)
(* common/sample_comm_region.c and region/sample_region.c: regions drawn     *)
(* over a decoded picture that is shown or encoded. Region i is "rgn", its   *)
(* attachment to the channel "rgn_on".                                       *)
(***************************************************************************)
EXTENDS VdecScripts

Region_create(i) == Get("rgn", i, <<>>)
Region_destroy_one(i) == Free("rgn", i)
Region_attach(i) == Rung(Get("rgn_on", i, <<>>), Free("rgn_on", i))

\* Overlays of four formats: only the result of the last create is looked at.
Region_create_overlay(n) == LET Start(i) == Lax(Region_create(i)) IN Each(n - 1, Start) \o Region_create(n - 1)
\* The seven other types create one after the other and stop at the first that fails.
Region_create_others(n) == Each(n, Region_create)
Region_create_type(n, type) == IF type = "overlay" THEN Region_create_overlay(n) ELSE Region_create_others(n)
Region_destroy(n) == Each(n, Region_destroy_one)

\* A region that cannot be attached is detached with those before it.
Region_detach_frm_chn(n) == Each(n, LAMBDA i : Region_attach(i).down)
Region_set_chn_attr(n) == LET Start(i) == Do(Region_attach(i).up, Region_detach_frm_chn(i + 1)) IN Each(n, Start)
Region_attach_to_chn(n, type) ==
  LET
      \* Here the rollback is asked for a type that is none, and does nothing.
      Region_set_mosaicex_chn_attr(j) == Each(j, LAMBDA i : Region_attach(i).up)
  IN IF type = "mosaicex" THEN Region_set_mosaicex_chn_attr(n) ELSE Region_set_chn_attr(n)

\* The picture of a bitmap file; a palette format replaces it by one of its own.
Get_clut_data == Lax(Get("clut", 0, <<>>)) \o IfHeld("clut", 0, Free("bmp", 0))
Load_bmp(clut) == Try(<<>>) \o Get("bmp", 0, <<>>) \o When(clut, Get_clut_data)
\* A file that does not load is reported, and the empty picture set.
Region_set_bit_map(clut) ==
  LET free == IfHeld("clut", 0, Free("clut", 0)) \o IfHeld("bmp", 0, Free("bmp", 0))
  IN Lax(Load_bmp(clut)) \o Try(free) \o free
Region_get_up_canvas == Try(<<>>) \o Try(<<>>) \o Try(<<>>)

------------------------------------------------------------------------------
Rgn_start_venc == Do(Venc_create(0, FALSE), <<>>) \o Get("venc_on", 0, Free("venc", 0))

\* Decoder channels that were created before one failed are not destroyed.
Rgn_start_vdec ==
  Do(Try(<<>>), Sys_exit) \o Do(Sys_init, Sys_exit) \o Do(Vdec_init_vb_pool, Sys_exit)
  \o Do(Vdec_start(1, FALSE), Vdec_exit_vb_pool \o Sys_exit)
\* rest is what the caller does when all of it stopped.
Rgn_stop_vdec(rest) == IfFreed("vdec_on", 0, IfFreed("vdec", 0, Vdec_exit_vb_pool \o rest))

\* No channel is named to be disabled.
Rgn_start_vpss == Rung(Vpss_start(0, <<0>>), Vpss_stop(0, <<>>))

Rgn_start_send_stream == Rung(Vdec_start_send_stream(1).up, Vdec_start_send_stream(1).down)

(***************************************************************************)
(* Each failure returns the result of its rollback: where that succeeds, the *)
(* caller takes the route for started and goes on.                           *)
(***************************************************************************)
Mpp_vdec_vpss_venc_start ==
  LET undo1 == Rgn_stop_vdec(<<>>)
      undo2 == Rgn_start_vpss.down \o undo1
      undo3 == Vdec_bind_vpss(0).down \o undo2
  IN Do(Rgn_start_vdec, <<>>)
     \o Lax(Do(Rgn_start_vpss.up, undo1) \o Do(Vdec_bind_vpss(0).up, undo2) \o Rgn_start_send_stream.up
            \o Do(Rgn_start_venc, undo3) \o Do(Vpss_bind_venc(0).up, Venc_stop(0) \o undo3)
            \o Lax(Venc_start_get_stream))
\* The decoder stays bound to VPSS.
Mpp_vdec_vpss_venc_end ==
  LET stopVpss == Rgn_start_send_stream.down \o Rgn_start_vpss.down \o Rgn_stop_vdec(Sys_exit)
      stopVenc == Free("venc_on", 0) \o IfFreed("venc", 0, stopVpss)
  IN Venc_stop_get_stream(1) \o IfFreed("vpss_venc", 0, stopVenc)

Do_destroy(n, detach) == When(detach, Region_detach_frm_chn(n)) \o Region_destroy(n)

\* An overlay that gets no picture takes all down, and the loop goes on to the next.
Region_vdec_vpss_venc(n, type) ==
  LET Do_destroy_venc(j, detach) == Do_destroy(j, detach) \o Mpp_vdec_vpss_venc_end
      Picture(i) == Lax(Do(Region_set_bit_map(i < 4), Do_destroy_venc(n, TRUE)))
  IN Do(Mpp_vdec_vpss_venc_start, <<>>)
     \o Do(Region_create_type(n, type), Do_destroy_venc(n, FALSE))
     \o Do(Region_attach_to_chn(n, type), Do_destroy_venc(n, TRUE))
     \o When(type = "overlay", Each(n, Picture))
     \o Do_destroy_venc(n, TRUE)

Region_vdec_vpss_vo(n, type) ==
  LET Vdec_vpss_vo_start ==
        LET undo1 == Rgn_stop_vdec(<<>>)
            undo2 == Rgn_start_vpss.down \o undo1
            undo3 == Vdec_bind_vpss(0).down \o undo2
        IN Do(Rgn_start_vdec, <<>>)
           \o Lax(Do(Rgn_start_vpss.up, undo1) \o Do(Vdec_bind_vpss(0).up, undo2)
           \o Do(Vo_start(0, 1, "hdmi"), undo3)
                  \o Do(Vpss_bind_vo(0).up, Vo_stop(0, 1, "hdmi") \o undo3) \o Rgn_start_send_stream.up)
      Do_destroy_vo(k, detach) ==
        LET
            \* The system is not exited.
            Vdec_vpss_vo_end ==
              LET stopVpss == Rgn_start_send_stream.down \o Rgn_start_vpss.down \o Rgn_stop_vdec(<<>>)
                  stopVo   == Free("vo_layer", 0) \o IfFreed("vo_dev", 0, IfFreed("vdec_vpss", 0, stopVpss))
              IN IfFreed("vpss_vo", 0, Vo_hdmi_start.down \o IfFreed("vo_chn", 0, stopVo))
        IN Do_destroy(k, detach) \o Vdec_vpss_vo_end
      Region_set_bmp(j) == LET Canvas(i) == Region_get_up_canvas IN Each(j, Canvas)
  IN Do(Vdec_vpss_vo_start, <<>>)
     \o Do(Region_create_type(n, type), Do_destroy_vo(n, FALSE))
     \o Do(Region_attach_to_chn(n, type), Do_destroy_vo(n, TRUE))
     \o When(type = "overlayex", Do(Region_set_bmp(n), Do_destroy_vo(n, TRUE)))
     \o Do_destroy_vo(n, TRUE)

Region_vpss_overlayex == Region_vdec_vpss_vo(8, "overlayex")
Region_vpss_cover     == Region_vdec_vpss_vo(8, "cover")
Region_vpss_mosaicex  == Region_vdec_vpss_vo(8, "mosaicex")
\* Lines and mosaics differ in their type only.
Region_vpss_line      == Region_vdec_vpss_vo(4, "line")
Region_venc_overlay   == Region_vdec_vpss_venc(8, "overlay")

\* Any release that fails keeps all that comes after it; no route gives up its VPSS channel.
RgnLeaks == {"sys", "vb", "vdec_vb", "vdec", "vdec_on", "vdec_vpss", "vpss_grp", "vpss_on", "send_thread"}
RgnVoLeaks   == RgnLeaks \cup VoLeaks \cup {"hdmi_on"}
RgnVencLeaks == RgnLeaks \cup VencLeaks \cup {"rgn_on"}
RgnVoProgram(code) == Flawed(code, RgnVoLeaks, {"vpss_chn", "sys", "vb"}, {})

RegionPrograms ==
  [region_overlayex |-> RgnVoProgram(Region_vpss_overlayex),
   region_cover     |-> RgnVoProgram(Region_vpss_cover),
   region_mosaicex  |-> RgnVoProgram(Region_vpss_mosaicex),
   region_line      |-> RgnVoProgram(Region_vpss_line),
   region_venc      |-> Flawed(Region_venc_overlay, RgnVencLeaks, {"vpss_chn", "vdec_vpss"}, {"stream_thread"})]
==============================================================================
