----------------------------- MODULE AudioScripts -----------------------------
(***************************************************************************)
(* common/sample_comm_audio.c and audio/: audio input (ai) and output (ao),  *)
(* encoder (aenc) and decoder (adec) channels, the threads that carry frames *)
(* between them, the codec chip, the AAC library.  A stereo device has two   *)
(* channels of which one is enabled: stop functions disable both.            *)
(***************************************************************************)
EXTENDS CommonScripts

\* The ES8388: every register is read, changed and written back, and a failure ends its group.
Es8388_soft_reset        == Try(<<>>)
Es8388_set_input_ctrl    == LET Ioctl(i) == Try(<<>>) IN Each(6, Ioctl)
\* Where the device is the slave (its work mode), the chip makes the clocks.
Es8388_get_clk_ratio       == Try(<<>>)
Es8388_set_clk_ctrl(slave) ==
  LET Es8388_set_clk_mode(i) == When(i, Es8388_get_clk_ratio \o Try(<<>>) \o Try(<<>>) \o Try(<<>>))
  \o Try(<<>>)
      Es8388_set_clk_polarity == Try(<<>>) \o Try(<<>>) \o Try(<<>>)
  IN Es8388_set_clk_mode(slave) \o Es8388_set_clk_polarity
Es8388_set_data_ctrl     == LET Ioctl(i) == Try(<<>>) IN Each(4, Ioctl)
Es8388_set_output_ctrl   == LET Ioctl(i) == Try(<<>>) IN Each(6, Ioctl)
Es8388_cfg_audio(slave) ==
  LET Es8388_set_input_volume == LET Ioctl(i) == Try(<<>>) IN Each(5, Ioctl)
      Es8388_set_output_volume == LET Ioctl(i) == Try(<<>>) IN Each(7, Ioctl)
  IN Get("codec_fd", 0, <<>>)
     \o Do(Es8388_soft_reset \o Es8388_set_input_ctrl \o Es8388_set_clk_ctrl(slave) \o Es8388_set_data_ctrl
           \o Es8388_set_output_ctrl \o Es8388_set_input_volume
           \o Es8388_set_output_volume, Free("codec_fd", 0))
     \o Free("codec_fd", 0)
Es8388_disable == Get("codec_fd", 0, <<>>) \o Lax(Es8388_soft_reset) \o Free("codec_fd", 0)

Cfg_acodec(inner) ==
  LET
      \* Only the way through to the end closes the device.
      Inner_codec_cfg_audio ==
        Get("codec_fd", 0, <<>>) \o Lax(Try(<<>>)) \o Try(<<>>) \o Try(<<>>) \o Try(<<>>) \o Try(<<>>)
        \o Free("codec_fd", 0)
  IN IF inner THEN Inner_codec_cfg_audio ELSE Es8388_cfg_audio(FALSE)

Start_ai(n, vqe) ==
  LET Start_ai_vqe(j, i) == When(j, Try(<<>>) \o Get("ai_vqe", i, <<>>))
  IN Rung(
       LET Chn(i) == Get("ai_chn", i, <<>>) \o Start_ai_vqe(vqe, i)
       IN Try(<<>>) \o Get("ai_dev", 0, <<>>) \o Each(n, Chn),
       LET Chn(i) == When(vqe, Free("ai_vqe", i))
       \o Free("ai_chn", i) IN Strict(Each(n, Chn) \o Free("ai_dev", 0)))

Audio_start_hdmi ==
  LET Hdmi_set_audio_param == Try(<<>>)
  IN Rung(
       Vo_start_dev(0, FALSE) \o Vo_hdmi_start.up \o Strict(Free("hdmi_on", 0)) \o Try(<<>>)
       \o Hdmi_set_audio_param
       \o Try(<<>>) \o Get("hdmi_on", 0, <<>>),
       Strict(Vo_hdmi_start.down \o Free("vo_dev", 0)))

\* The system channel is number 9; whether HDMI came up is not looked at.
Start_ao(n, hdmi) ==
  Rung(
    LET Chn(i) == Get("ao_chn", i, <<>>)
    IN When(hdmi, Lax(Audio_start_hdmi.up)) \o Try(<<>>) \o Get("ao_dev", 0, <<>>) \o Each(n, Chn)
       \o Get("ao_chn", 9, <<>>),
    LET Chn(i) == Free("ao_chn", i)
    IN Strict(Each(n, Chn) \o Free("ao_chn", 9) \o Free("ao_dev", 0) \o When(hdmi, Audio_start_hdmi.down)))

Start_aenc(n) ==
  Rung(
    LET Chn(i) == Get("aenc", i, <<>>) IN Try(<<>>) \o Each(n, Chn),
    LET Chn(i) == Free("aenc", i) IN Strict(Each(n, Chn)))
Start_adec(n) == LET Chn(i) == Get("adec", i, <<>>) IN Try(<<>>) \o Each(n, Chn)
Stop_adec(i)  == Free("adec", i)

------------------------------------------------------------------------------
(* The threads.  "audio_start" is the flag start that a thread runs by and its *)
(* owner joins it by; whether pthread_create succeeded is not looked at.      *)
AiTrd   == 0
AencTrd == 10
AdecTrd == 20
VolTrd  == 30
ResTrd  == 40

\* The resampler: its buffer and handle stay when the channel has no descriptor.
Ai_to_res_init(i) ==
  Try(<<>>) \o Try(<<>>) \o Try(<<>>) \o Get("resampler", i, <<>>) \o Try(Free("resampler", i))
  \o Get("res_buf", i, Free("resampler", i))
Ai_ext_res_proc(i) ==
  Ai_to_res_init(i) \o Try(<<>>) \o Lax(Try(<<>>) \o Get("ai_frame", 0, <<>>) \o Free("ai_frame", 0))
  \o Free("res_buf", i) \o Free("resampler", i)

Creat_trd(i)   == Note("audio_start", i) \o Lax(Get("audio_thread", i, <<>>))
Destory_trd(i) == IfHeld("audio_start", i, Free("audio_start", i) \o Free("audio_thread", i))
\* With the file, unless the thread has closed it.
Destory_trd_fd(i) == Destory_trd(i) \o IfHeld("file", i, Free("file", i))

Creat_trd_ai_ao(i)         == Creat_trd(AiTrd + i)
Creat_trd_ai_aenc(i)       == Creat_trd(AiTrd + i)
Destory_trd_ai(i)          == Destory_trd(AiTrd + i)
Creat_trd_aenc_adec(i)     == Creat_trd(AencTrd + i)
Destory_trd_aenc_adec(i)   == Destory_trd_fd(AencTrd + i)
Creat_trd_file_adec(i)     == Creat_trd(AdecTrd + i)
Destory_trd_file_adec(i)   == Destory_trd_fd(AdecTrd + i)
Creat_trd_ao_vol_ctrl      == Creat_trd(VolTrd)
Destory_trd_ao_vol_ctrl    == Destory_trd(VolTrd)
\* The thread opens its resampler before it does anything else.
Creat_trd_ai_ext_res(i)    == Try(<<>>) \o Creat_trd(ResTrd + i) \o Lax(Ai_to_res_init(ResTrd + i))
Destroy_trd_ai_ext_res(i)  == Destory_trd_fd(ResTrd + i)
Destory_all_trd ==
  Destory_trd_ai(0) \o Destory_trd_ai(1) \o Destory_trd_aenc_adec(0) \o Destory_trd_file_adec(0)
  \o Destory_trd_ao_vol_ctrl

Ai_proc ==
  LET
      \* What the threads do in a round.
      Ai_get_frame_and_send(sink) == Get("ai_frame", 0, <<>>) \o Try(Free("ai_frame", 0)) \o Free("ai_frame", 0)
  IN Try(<<>>) \o Try(<<>>) \o Try(<<>>) \o Ai_get_frame_and_send("ao") \o Ai_get_frame_and_send("aenc")
Aenc_proc ==
  LET Aenc_get_stream_and_send ==
        Get("aenc_stream", 0, <<>>) \o Try(Free("aenc_stream", 0)) \o Free("aenc_stream", 0)
  IN Lax(Try(<<>>) \o Aenc_get_stream_and_send \o Aenc_get_stream_and_send) \o Free("file", AencTrd)
Adec_proc ==
  Lax(Get("stream_buf", 0, <<>>) \o Lax(Try(<<>>) \o Try(<<>>)) \o Free("stream_buf", 0))
  \o Free("file", AdecTrd)

Deinit_ext_res_fun == IfHeld("res_lib", 0, Free("res_lib", 0))
Init_ext_res_fun ==
  LET Dlsym(i) == Try(Free("res_lib", 0)) IN Deinit_ext_res_fun \o Get("res_lib", 0, <<>>) \o Each(4, Dlsym)

------------------------------------------------------------------------------
(* The AAC codec: a library loaded once, registered with aenc and adec, that   *)
(* they call to open a coder and to code frames.                              *)

Aac_init_enc_lib ==
  LET Aac_enc_lib_dlsym == LET Dlsym(i) == Try(<<>>) IN Each(5, Dlsym)
  IN Rung(
       Get("aac_enc_lib", 0, <<>>) \o Do(Aac_enc_lib_dlsym, Free("aac_enc_lib", 0)),
       IfHeld("aac_enc_lib", 0, Free("aac_enc_lib", 0)))
Aac_init_dec_lib ==
  LET Aac_dec_lib_dlsym == LET Dlsym(i) == Try(<<>>) IN Each(9, Dlsym)
  IN Get("aac_dec_lib", 0, <<>>) \o Do(Aac_dec_lib_dlsym, Free("aac_dec_lib", 0))
Aac_deinit_dec_lib == IfHeld("aac_dec_lib", 0, Free("aac_dec_lib", 0))
Aenc_aac_init ==
  Rung(
    Aac_init_enc_lib.up \o Get("aac_enc", 0, <<>>),
    Strict(IfFreed("aac_enc", 0, Aac_init_enc_lib.down)))
Adec_aac_init ==
  Rung(
    Aac_init_dec_lib \o Get("aac_dec", 0, <<>>),
    Strict(IfFreed("aac_dec", 0, Aac_deinit_dec_lib)))

Aenc_check_aac_attr   == Try(<<>>)
Aenc_aac_check_config == Try(<<>>)
Open_aac_encoder ==
  LET Open_aac_encoder_check_and_init == Aenc_check_aac_attr \o Try(<<>>) \o Aenc_aac_check_config
  IN Open_aac_encoder_check_and_init \o Get("coder", 0, <<>>) \o Try(Free("coder", 0))
     \o Get("aac_state", 0, Free("coder", 0)) \o Try(Free("aac_state", 0) \o Free("coder", 0))
Encode_aac_frm ==
  LET Encode_frm_check_and_init == Try(<<>>)
  IN Encode_frm_check_and_init \o Try(<<>>)
Close_aac_encoder == Free("aac_state", 0) \o Free("coder", 0)

Open_aac_decoder ==
  Get("coder", 0, <<>>) \o Try(Free("coder", 0)) \o Get("aac_state", 0, Free("coder", 0))
  \o Try(Free("aac_state", 0) \o Free("coder", 0))
Decode_aac_frm    == Try(<<>>) \o Try(<<>>) \o Try(<<>>)
Reset_aac_decoder == Free("aac_state", 0) \o Get("aac_state", 0, <<>>)
Close_aac_decoder == IfHeld("aac_state", 0, Free("aac_state", 0)) \o Free("coder", 0)

------------------------------------------------------------------------------
(* audio/sample_audio.c                                                       *)

\* A name is printed, checked and opened.
Open_aenc_file(i) == Try(<<>>) \o Get("file", AencTrd + i, <<>>)
Open_res_file(i)  == Try(<<>>) \o Get("file", ResTrd + i, <<>>)
Open_adec_file    == Try(<<>>) \o Try(<<>>) \o Get("file", AdecTrd, <<>>)

Adec_ao(inner) ==
  LET Adec_ao_inner ==
        Get("adec_ao", 0, <<>>)
        \o Do(Open_adec_file \o Creat_trd_file_adec(0) \o Destory_trd_file_adec(0), Free("adec_ao", 0))
        \o Free("adec_ao", 0)
  IN Ladder(<< Rung(Start_adec(1), Stop_adec(0)), Rung(Start_ao(1, FALSE).up, Start_ao(2, FALSE).down),
               Rung(Cfg_acodec(inner) \o Lax(Adec_ao_inner), <<>>) >>)

\* By a thread in user mode, else by a binding.
Aenc_bind_ai(user, n) ==
  Rung(
    LET Bind(i)   == IF user THEN Creat_trd_ai_aenc(i) ELSE Get("ai_aenc", i, <<>>)
        Unbind(i) == IF user THEN Destory_trd_ai(i) ELSE Free("ai_aenc", i)
    IN EachOrUndo(n, Bind, Unbind),
    LET Unbind(i) == IF user THEN Destory_trd_ai(i) ELSE Free("ai_aenc", i) IN Each(n, Unbind))
\* A decoder channel created before another that fails is left: there is one channel.
Ai_aenc_inner ==
  LET Adec_bind_aenc(n) ==
        Rung(
          LET Start(i) == Open_aenc_file(i) \o Creat_trd_aenc_adec(i) IN EachOrUndo(n, Start, Destory_trd_aenc_adec),
          Each(n, Destory_trd_aenc_adec))
      Ao_bind_adec(n) ==
        Rung(
          LET Bind(i)   == Get("adec_ao", i, <<>>)
              Unbind(i) == Free("adec_ao", i)
          IN EachOrUndo(n, Bind, Unbind),
          LET Unbind(i) == Free("adec_ao", i) IN Each(n, Unbind))
  IN Ladder(<< Rung(Start_adec(1), Stop_adec(0)), Rung(Start_ao(1, FALSE).up, Start_ao(2, FALSE).down),
               Adec_bind_aenc(1), Ao_bind_adec(1) >>)
Ai_aenc(inner, user) ==
  Ladder(<< Rung(Start_ai(1, FALSE).up, Start_ai(2, FALSE).down), Rung(Cfg_acodec(inner), <<>>), Start_aenc(1),
            Aenc_bind_ai(user, 1), Rung(Lax(Ai_aenc_inner), <<>>) >>)

Ai_to_ext_resample(inner) ==
  LET Start_ai_resample(n) ==
        Rung(
          LET Start(i) == Open_res_file(i) \o Do(Creat_trd_ai_ext_res(i), Free("file", ResTrd + i))
          IN EachOrUndo(n, Start, Destroy_trd_ai_ext_res),
          Each(n, Destroy_trd_ai_ext_res))
  IN Ladder(<< Start_ai(1, FALSE), Rung(Cfg_acodec(inner), <<>>),
               Rung(Init_ext_res_fun, Deinit_ext_res_fun), Start_ai_resample(1) >>)

\* ai and ao, and between them what inner says.
AiAo(codec, vqe, hdmi, inner) ==
  Ladder(<< Rung(Start_ai(1, vqe).up, Start_ai(2, vqe).down), Rung(Start_ao(1, hdmi).up, Start_ao(2, hdmi).down),
            Rung(Cfg_acodec(codec), <<>>), Rung(Lax(inner), <<>>) >>)
Ai_ao(codec, user, vol) ==
  LET Ai_ao_inner(k, j) ==
        LET Ao_bind_ai(i) ==
              Rung(
                IF i THEN Creat_trd_ai_ao(0) ELSE Get("ai_ao", 0, <<>>),
                IF i THEN Destory_trd_ai(0) ELSE Free("ai_ao", 0))
        IN Ladder(<< Ao_bind_ai(k),
                     Rung(When(j, Creat_trd_ao_vol_ctrl), When(j, Destory_trd_ao_vol_ctrl)) >>)
  IN AiAo(codec, FALSE, FALSE, Ai_ao_inner(user, vol))
Ai_to_ao_sys_chn(codec) ==
  LET Ai_to_ao_sys_chn_inner == Creat_trd_ai_ao(0) \o Destory_trd_ai(0)
  IN AiAo(codec, FALSE, FALSE, Ai_to_ao_sys_chn_inner)
Ao_bind_ai_multi_chn(n) == Rung(EachOrUndo(n, Creat_trd_ai_ao, Destory_trd_ai), Each(n, Destory_trd_ai))
Ai_vqe_process_ao(codec) == AiAo(codec, TRUE, FALSE, Ao_bind_ai_multi_chn(1).up \o Ao_bind_ai_multi_chn(1).down)
Ai_hdmi_ao(codec) == AiAo(codec, FALSE, TRUE, Ao_bind_ai_multi_chn(1).up \o Ao_bind_ai_multi_chn(1).down)

\* The way out after a signal, which stops no device, and main.
Audio_exit_proc == Destroy_trd_ai_ext_res(0) \o Destory_all_trd \o Sys_exit
Audio_main(f) ==
  Sys_init \o Lax(Aenc_aac_init.up) \o Lax(Adec_aac_init.up) \o Lax(f) \o Aenc_aac_init.down
  \o Adec_aac_init.down \o Sys_exit

AiLeaks == {"ai_dev"}
AoLeaks == {"ao_dev", "ao_chn"}
\* A thread that ended by itself is not joined.  The resampling thread clears its flag before
\* it destroys its resampler, of which the owner then unloads the library.
Audio(f, leaks) ==
  Flawed(Audio_main(f), leaks \cup {"audio_thread", "aac_enc_lib", "aac_dec_lib"}, {}, {"audio_thread"})
AudioPrograms ==
  [audio_adec_ao   |-> Audio(Adec_ao(FALSE), AoLeaks),
   audio_ai_aenc   |-> Audio(Ai_aenc(TRUE, FALSE), AiLeaks \cup AoLeaks \cup {"codec_fd"}),
   audio_resample  |-> Audio(Ai_to_ext_resample(TRUE), AiLeaks \cup {"codec_fd", "res_buf", "resampler"}),
   audio_ai_ao     |-> Audio(Ai_ao(TRUE, TRUE, TRUE), AiLeaks \cup AoLeaks \cup {"codec_fd"}),
   audio_ai_ao_bound |-> Audio(Ai_ao(FALSE, FALSE, FALSE), AiLeaks \cup AoLeaks),
   audio_sys_chn   |-> Audio(Ai_to_ao_sys_chn(TRUE), AiLeaks \cup AoLeaks \cup {"codec_fd"}),
   audio_vqe       |-> Audio(Ai_vqe_process_ao(TRUE), AiLeaks \cup AoLeaks \cup {"ai_chn", "codec_fd"}),
   audio_hdmi      |-> Audio(Ai_hdmi_ao(TRUE), AiLeaks \cup AoLeaks \cup HdmiLeaks \cup {"hdmi_on", "vo_dev", "codec_fd"}),
   audio_es8388    |-> Program(Es8388_disable, {}),
   audio_signal    |-> Flawed(Sys_init \o Lax(Start_ai(1, FALSE).up) \o Lax(Open_aenc_file(0) \o Creat_trd_aenc_adec(0))
                              \o Audio_exit_proc, {"vb", "audio_thread"},
                              {"ai_dev", "ai_chn"}, {"audio_thread"}),
   audio_ai_thread   |-> Program(Ai_proc, {}),
   audio_aenc_thread |-> Program(Get("file", AencTrd, <<>>) \o Aenc_proc, {}),
   audio_adec_thread |-> Program(Get("file", AdecTrd, <<>>) \o Adec_proc, {}),
   audio_res_thread  |-> Program(Init_ext_res_fun \o Lax(Ai_ext_res_proc(ResTrd)) \o Deinit_ext_res_fun,
                                 {"res_buf", "resampler"}),
   audio_aac_encoder |-> Program(Open_aac_encoder \o Lax(Encode_aac_frm) \o Close_aac_encoder, {}),
   audio_aac_decoder |-> Program(Open_aac_decoder \o Lax(Decode_aac_frm) \o Lax(Reset_aac_decoder)
                                 \o Close_aac_decoder, {})]
==============================================================================
