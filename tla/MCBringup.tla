------------------------------ MODULE MCBringup ------------------------------
(***************************************************************************)
(* Bringup on the programs of the repository.                               *)
(***************************************************************************)
EXTENDS TLC, VioScripts, VencScripts, RegionScripts, AvsScripts, AudioScripts, HdmiScripts, GfbgScripts, McfScripts, StillScripts, CompositeScripts, LensScripts, OutputScripts, HostScripts, BringupFlow

\* A set of records from the functions by name of the Scripts modules.
Named(f) ==
  {[name |-> n, code |-> f[n].code, leaks |-> f[n].leaks, forgets |-> f[n].forgets,
    twice |-> f[n].twice] : n \in DOMAIN f}
MCPrograms ==
  Named(VioPrograms @@ VencPrograms @@ VdecPrograms @@ RegionPrograms @@ AvsPrograms @@ AudioPrograms
        @@ HdmiPrograms @@ GfbgPrograms @@ McfPrograms @@ StillPrograms @@ CompositePrograms
        @@ LensPrograms @@ OutputPrograms @@ HostPrograms)

MCResources == STRING \X Nat

MCFlags == {"audio_start", "capture_start", "fisheye_start", "stream_flag"}
MCLocal == MCFlags \cup {"file", "mipi_fd", "lt_fd", "temp", "mmap", "blk_map", "stream_thread", "isp_thread", "send_thread", "qpmap_thread", "roimap_thread", "pack", "fd", "tmp_u", "tmp_v", "bmp", "clut", "mesh", "avs_thread",
            "codec_fd", "audio_thread", "adec_thread", "stream_buf", "res_buf", "res_lib", "coder", "path", "gfbg_thread", "frame_buf", "capture_thread", "isp_map",
            "composite_thread", "frame_thread", "fisheye_thread", "planar", "v4l_array", "v4l_map"}
MCFragile == (MCLocal \ MCFlags) \cup {"blk", "pool", "raw_frame", "vpss_frame", "stream", "mmz", "vgs_job", "gdc_job", "tde_job", "tde", "vi_frame", "frame_map"}

\* What a resource is part of.
Whole == [vi_on |-> "vi_pipe", vi_chn |-> "vi_on", ae_lib |-> "sensor", awb_lib |-> "ae_lib",
          isp |-> "awb_lib", isp_thread |-> "awb_lib", sys |-> "vb",
          vpss_on |-> "vpss_grp", venc_on |-> "venc", vdec_on |-> "vdec", rgn_on |-> "rgn", blk_map |-> "blk",
          avs_on |-> "avs_grp", hdmi_on |-> "hdmi_open", hdmi_open |-> "hdmi_init",
          ai_vqe |-> "ai_chn", ao_res |-> "ao_chn", mcf_on |-> "mcf_grp",
          dsp_on |-> "dsp", msensor_on |-> "msensor"]
InSys == {"mcf_grp", "vdec", "vi_dev", "vi_pipe", "vpss_grp", "venc", "vo_dev"}
MCInside(r) ==
  CASE r = <<"vi_chn", 9>>           -> <<"vi_on", 0>>
    [] r[1] = "vpss_chn"             -> <<"vpss_grp", r[2] \div 10>>
    [] r[1] = "vo_chn"               -> <<"vo_layer", r[2] \div 100>>
    [] r[1] = "vo_layer"             -> <<"vo_dev", r[2] % 10>>
    [] r[1] = "avs_chn"              -> <<"avs_grp", 0>>
    [] r[1] = "mcf_chn"              -> <<"mcf_grp", 0>>
    [] r[1] = "ai_chn"               -> <<"ai_dev", 0>>
    [] r[1] = "ao_chn"               -> <<"ao_dev", 0>>
    [] r[1] = "resampler"            -> <<"res_lib", 0>>
    [] r[1] \in InSys               -> <<"sys", 0>>
    [] r[1] \in DOMAIN Whole /\ r # <<"vi_chn", 9>> -> <<Whole[r[1]], r[2]>>
    [] OTHER                         -> r

\* The sound threads end when no frame comes for a second or a call refuses one: they close
\* their file and clear the flag that they are joined by; the resampling thread clears it first.
MCOwns(t) ==
  CASE t[1] = "adec_thread" -> <<<<"file", t[2]>>, <<"audio_start", t[2]>>>>
    [] t[1] = "audio_thread" /\ t[2] \in AencTrd..(VolTrd - 1) -> <<<<"file", t[2]>>, <<"audio_start", t[2]>>>>
    [] t[1] = "audio_thread" /\ t[2] < AencTrd -> <<<<"audio_start", t[2]>>>>
    [] t[1] = "audio_thread" /\ t[2] >= ResTrd -> <<<<"audio_start", t[2]>>, <<"res_buf", t[2]>>, <<"resampler", t[2]>>>>
    [] OTHER -> <<>>
------------------------------------------------------------------------------
(* The tables of BringupFlow, filled in from the first step to the last. The   *)
(* comparison of a table with itself makes TLC finish it before it goes on.     *)
Blank(n, H)  == [k \in 1..(n + 1) |-> IF k = 1 THEN H ELSE {}]
Add(m, k, H) == [m EXCEPT ![k] = @ \cup H]

PassStep(s, i, m) ==
  CASE s.op \in {"get", "note"} -> Add(m, i + 1, m[i] \cup {s.res})
    [] s.op = "try"             -> Add(m, i + 1, m[i])
    [] s.op = "free"            -> Add(Add(m, i + 1, m[i] \ {s.res}), i + s.next, m[i] \ {s.res})
    [] OTHER                    -> Add(Add(m, i + 1, m[i]), i + s.next, m[i] \ {s.res})

RECURSIVE Along(_, _, _)
Along(seq, i, m) ==
  IF i > Len(seq) THEN m
  ELSE LET n == PassStep(seq[i], i, m) IN IF n = n THEN Along(seq, i + 1, n) ELSE m

RECURSIVE Through(_, _, _)
Through(code, i, b) ==
  IF i > Len(code) THEN b
  ELSE LET s    == code[i]
           u    == IF s.op \in {"get", "try"} THEN Along(s.on, 1, Blank(Len(s.on), b.main[i])) ELSE <<{}>>
           m    == PassStep(s, i, b.main)
           back == IF s.next = 0 THEN Len(code) + 1 ELSE i + s.next
           n    == [main |-> IF s.op \in {"get", "try"} THEN Add(m, back, u[Len(u)]) ELSE m,
                    undo |-> Append(b.undo, u)]
       IN IF n = n THEN Through(code, i + 1, n) ELSE b
MCBound(p) == Through(p.code, 1, [main |-> Blank(Len(p.code), {}), undo |-> <<>>])

RECURSIVE Ahead(_, _, _)
Ahead(code, i, f) ==
  IF i > Len(code) THEN f
  ELSE LET n == Onward(code[i], i, f[i])
           g == f @@ (n :> After(code[i], f[i]))
       IN IF g = g THEN Ahead(code, n, g) ELSE f
MCStraight(p) == Ahead(p.code, 1, 1 :> {})

\* In these a flag that a release looks at tells of more than one resource.
MCUncertified == {"vgs_draw_line", "vgs_scale", "vgs_stitch", "vgs_cover_osd", "mcf_calibration",
                  "fisheye_nine", "fisheye_180", "traffic_capture"}
MCCertified == {p \in MCPrograms : p.name \notin MCUncertified}

\* What is held on every way to a step: at first all that the program names, then less
\* with every way to it that is found.
Used(p) == UNION {{s.res} \cup {s.on[k].res : k \in DOMAIN s.on} : s \in {p.code[i] : i \in DOMAIN p.code}}
Whatever(n, H, U) == [k \in 1..(n + 1) |-> IF k = 1 THEN H ELSE U]
Meet(m, k, H)     == [m EXCEPT ![k] = @ \cap H]
Steady(m, k, b)   == [m EXCEPT ![k] = @ \ Taken(b[k])]

MeetStep(s, i, m) ==
  LET gone == m[i] \ ({s.res} \cup OwnedBy(s.res)) IN
  CASE s.op \in {"get", "note"} -> Meet(m, i + 1, m[i] \cup {s.res})
    [] s.op = "try"             -> Meet(m, i + 1, m[i])
    [] s.op = "free"            -> Meet(Meet(m, i + 1, gone), i + s.next, gone)
    [] OTHER                    -> Meet(Meet(m, i + 1, m[i] \cup {s.res}), i + s.next, m[i])

RECURSIVE SureAlong(_, _, _, _)
SureAlong(seq, i, m, b) ==
  LET x == Steady(m, i, b) IN
  IF i > Len(seq) THEN x
  ELSE LET n == MeetStep(seq[i], i, x) IN IF n = n THEN SureAlong(seq, i + 1, n, b) ELSE m

RECURSIVE SureThrough(_, _, _, _, _)
SureThrough(code, i, a, b, U) ==
  LET x == Steady(a.main, i, b.main) IN
  IF i > Len(code) THEN [a EXCEPT !.main = x]
  ELSE LET s    == code[i]
           u    == IF s.op \in {"get", "try"}
                   THEN SureAlong(s.on, 1, Whatever(Len(s.on), x[i], U), b.undo[i]) ELSE <<{}>>
           m    == MeetStep(s, i, x)
           back == IF s.next = 0 THEN Len(code) + 1 ELSE i + s.next
           n    == [main |-> IF s.op \in {"get", "try"} THEN Meet(m, back, u[Len(u)]) ELSE m,
                    undo |-> Append(a.undo, u)]
       IN IF n = n THEN SureThrough(code, i + 1, n, b, U) ELSE a
MCSure(p) ==
  SureThrough(p.code, 1, [main |-> Whatever(Len(p.code), {}, Used(p)), undo |-> <<>>], MCBound(p), Used(p))

\* In these the flag of a sound thread tells whether its file is open, too.
MCUnguarded == {"audio_adec_ao", "audio_ai_aenc", "audio_signal"}
MCGuarded == {p \in MCCertified : p.name \notin MCUnguarded}
==============================================================================
