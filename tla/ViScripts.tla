------------------------------ MODULE ViScripts ------------------------------
(***************************************************************************)
(* common/sample_comm_vi.c and sample_comm_isp.c: video input, sensors, ISP. *)
(* A camera c feeds the pipes c .. c+n-1: one for a linear sensor, n > 1 for *)
(* the exposures of a WDR sensor, of which only the first has an ISP.        *)
(***************************************************************************)
EXTENDS CallScript

\* One MIPI command: the device is opened and closed around it.
Mipi_ctrl_cmd == Get("mipi_fd", 0, <<>>) \o Try(Free("mipi_fd", 0)) \o Free("mipi_fd", 0)

\* Every failure returns: nothing here or in the caller turns the clocks off.
Start_mipi_rx(c) ==
  Rung(
    Try(<<>>) \o Get("mipi_clk", c, <<>>) \o Try(<<>>) \o Get("sns_clk", c, <<>>) \o Try(<<>>),
    Free("mipi_clk", c) \o Free("sns_clk", c))

Start_dev(c) == Rung(Try(<<>>) \o Get("vi_dev", c, <<>>), Free("vi_dev", c))

Bind_pipe(p)   == Get("vi_bind", p, <<>>)
Unbind_pipe(p) == Free("vi_bind", p)
Dev_bind_pipe(c, n) ==
  Rung(
    LET Start(i) == Bind_pipe(c + i)
        Stop(i)  == Unbind_pipe(c + i)
    IN EachOrUndo(n, Start, Stop),
    LET Stop(i) == Unbind_pipe(c + i) IN Each(n, Stop))

Vi_start_chn(p) == Try(<<>>) \o Get("vi_chn", p, <<>>)

Start_one_pipe(p) ==
  LET Vi_stop_chn(i) == Strict(Free("vi_chn", i))
  IN Rung(
       Get("vi_pipe", p, <<>>)
       \o Get("vi_on", p, Free("vi_pipe", p))
       \o Do(Vi_start_chn(p), Free("vi_on", p) \o Free("vi_pipe", p)),
       Vi_stop_chn(p) \o Free("vi_on", p) \o Free("vi_pipe", p))

Start_pipe(c, n) ==
  Rung(
    LET Start(i) == Start_one_pipe(c + i).up
        Stop(i)  == Start_one_pipe(c + i).down
    IN EachOrUndo(n, Start, Stop),
    LET Stop(i) == Start_one_pipe(c + i).down IN EachBack(n, Stop))

Deregister_sensor_lib(p) == Free("awb_lib", p) \o Free("ae_lib", p) \o Free("sensor", p)

\* pthread_create of the ISP thread, which ends when the ISP is left.
Isp_run(p)  == Get("isp_thread", p, <<>>)
Isp_stop(p) == IfHeld("isp_thread", p, Free("isp_thread", p))

Stop_one_pipe_isp(p) == Free("isp", p) \o Isp_stop(p) \o Deregister_sensor_lib(p)

\* With several exposures only the first pipe has an ISP.
Start_isp(c, run) ==
  LET
      \* A failing ss_mpi_isp_init returns -1 past both labels.
      Start_one_pipe_isp(p, j) ==
        LET Register_sensor_lib(i) ==
              Get("sensor", i, <<>>)
              \o Try(Free("sensor", i))
              \o Get("ae_lib", i, Free("sensor", i))
              \o Get("awb_lib", i, Free("ae_lib", i) \o Free("sensor", i))
        IN Do(Register_sensor_lib(p), <<>>)
           \o Get("isp", p, Deregister_sensor_lib(p))
           \o Try(Free("isp", p) \o Deregister_sensor_lib(p))
           \o Try(<<>>)
           \o When(j, Do(Isp_run(p), Free("isp", p) \o Deregister_sensor_lib(p)))
  IN Start_one_pipe_isp(c, run)
Stop_isp(c)       == Stop_one_pipe_isp(c)

ViRungs(c, n, run) ==
  << Start_mipi_rx(c), Start_dev(c),
     Dev_bind_pipe(c, n), Rung(Try(<<>>), <<>>),
     Start_pipe(c, n), Rung(Start_isp(c, run), Stop_isp(c)) >>
Start_vi_run(c, n, run) == Up(ViRungs(c, n, run))
Start_vi(c, n) == Start_vi_run(c, n, TRUE)
Stop_vi(c, n)  == Down(ViRungs(c, n, TRUE))
ViLeaks        == {"mipi_clk", "sns_clk", "isp", "awb_lib", "ae_lib", "sensor"}
ViKinds        == ViLeaks \cup {"vi_dev", "vi_bind", "vi_pipe", "vi_on", "vi_chn", "isp_thread"}

\* Up to the ISP, which only is left running between two modes.
Mode_switch_stop_vi(c, n) ==
  Start_pipe(c, n).down \o Dev_bind_pipe(c, n).down \o Start_dev(c).down \o Start_mipi_rx(c).down

Mode_switch_start_pipe_chn(c, n) ==
  LET Mode_switch_start_one_pipe_chn(p) ==
        Get("vi_on", p, Free("vi_pipe", p))
        \o Do(Vi_start_chn(p), Free("vi_on", p) \o Free("vi_pipe", p))
      Start(i) == Mode_switch_start_one_pipe_chn(c + i)
      Stop(i)  == Start_one_pipe(c + i).down
  IN EachOrUndo(n, Start, Stop)

\* Refused attributes take the ISP down and the function goes on; a pipe that does
\* not start is unbound, and the function returns success all the same.
Switch_isp(c, n) ==
  Lax(Try(Stop_isp(c)))
  \o Lax(Do(Mode_switch_start_pipe_chn(c, n), Dev_bind_pipe(c, n).down))

Mode_switch_start_vi(c, n) ==
  LET Mode_switch_start_pipe(j, k) ==
        LET
            \* A pipe whose channel attributes are refused is stopped, not destroyed.
            Mode_switch_start_one_pipe(p) == Get("vi_pipe", p, <<>>) \o Try(Free("vi_on", p))
            Start(i) == Mode_switch_start_one_pipe(j + i)
            Stop(i)  == Start_one_pipe(j + i).down
        IN EachOrUndo(k, Start, Stop)
  IN Up(<< Start_mipi_rx(c), Start_dev(c),
           Dev_bind_pipe(c, n), Rung(Try(<<>>), <<>>),
           Rung(Mode_switch_start_pipe(c, n), Start_pipe(c, n).down), Rung(Switch_isp(c, n), <<>>) >>)
SwitchLeaks == ViLeaks \cup {"isp_thread", "vi_pipe"}

Stop_four_vi(n) ==
  LET StopOne(c)  == Stop_isp(c) \o Start_pipe(c, 1).down \o Dev_bind_pipe(c, 1).down \o Start_dev(c).down
  IN Each(n, StopOne) \o Each(n, LAMBDA i : Start_mipi_rx(i).down)

VirtRungs(c, n) == << Start_pipe(c, n), Rung(Start_isp(c, TRUE), Stop_isp(c)) >>
Start_virt_pipe(c, n) == Up(VirtRungs(c, n))
Stop_virt_pipe(c, n)  == Down(VirtRungs(c, n))

(***************************************************************************)
(* Frame buffers handed to the driver (FPN, user pictures): the blocks       *)
(* first .. first+n-1 of the pool named after the first of them.             *)
(***************************************************************************)
Malloc_frame_blk(b) ==
  Rung(
    Get("blk", b, <<>>) \o Get("blk_map", b, Free("blk", b)),
    Free("blk_map", b) \o Free("blk", b))

Get_frame_blk(first, n) ==
  LET Start(i) == Malloc_frame_blk(first + i).up
      Stop(i)  == Malloc_frame_blk(first + i).down
  IN Get("pool", first, <<>>)
     \o Do(EachOrUndo(n, Start, Stop), Free("pool", first))
\* The pool of the first block only.
Release_frame_blk(first, n) == LET Stop(i) == Malloc_frame_blk(first + i).down IN Each(n, Stop) \o Free("pool", first)

Get_fpn_frame_info(first, n) == Try(<<>>) \o Do(Get_frame_blk(first, n), <<>>)

\* n blocks, the last of another format and from a pool of its own; when that one is
\* refused all n are released, the missing one included.
Get_fpn_calibrate_frame_info(n) ==
  Do(Get_fpn_frame_info(0, n - 1), <<>>)
  \o Do(Get_fpn_frame_info(n - 1, 1), Release_frame_blk(0, n))

Fpn_calibrate_process ==
  Try(<<>>) \o Get("send_thread", 0, <<>>) \o Try(Free("send_thread", 0)) \o Free("send_thread", 0)

Fpn_calibrate(p, n) ==
  LET exit == Release_frame_blk(0, n) \o Get("vi_chn", p, <<>>)
  IN IfFreed("vi_chn", p,
       Do(Get_fpn_calibrate_frame_info(n), Get("vi_chn", p, <<>>))
       \o Do(Fpn_calibrate_process, exit)
       \o Get("file", 0, exit) \o Free("file", 0)
       \o exit)

Enable_fpn_correction(b) ==
  Do(Get_fpn_frame_info(b, 1), <<>>)
  \o Get("file", 0, Release_frame_blk(b, 1)) \o Free("file", 0)
  \o Try(Release_frame_blk(b, 1))
\* The blocks are only released when the driver lets go of them.
Disable_fpn_correction(b) ==
  LET release == Release_frame_blk(b, 1)
  IN <<[Try(<<>>)[1] EXCEPT !.next = Len(release) + 1]>> \o release
FpnLeaks == {"blk_map", "blk", "pool"}

VgsLeaks == {"vgs_job"}
Read_user_frame_file(b) ==
  LET
      \* A picture read from a file, scaled by a VGS job into the user's buffer.
      Vgs_job == Get("vgs_job", 0, <<>>) \o Try(<<>>) \o Try(Free("vgs_job", 0)) \o Free("vgs_job", 0)
  IN Do(Get_frame_blk(b, 1), <<>>)
     \o Get("file", 0, Release_frame_blk(b, 1))
     \o Do(Get("temp", 0, <<>>) \o Free("temp", 0), Free("file", 0) \o Release_frame_blk(b, 1))
     \o Do(Vgs_job, Free("file", 0) \o Release_frame_blk(b, 1))
     \o Free("file", 0) \o Release_frame_blk(b, 1)
Load_user_pic(b) ==
  Try(<<>>) \o Do(Get_frame_blk(b, 1), <<>>)
  \o Do(Read_user_frame_file(b + 1), Release_frame_blk(b, 1))
Unload_user_pic(b) == Release_frame_blk(b, 1)

(***************************************************************************)
(* One round of the WDR sender: a frame of every pipe, one of them exchanged *)
(* for a later one until their times agree, then all are given back.  When   *)
(* the later one does not come, the frame already given back is again.       *)
(***************************************************************************)
Match_wdr_pts(p) == Free("raw_frame", p) \o Get("raw_frame", p, <<>>)
Wdr_dump_and_send(n) ==
  LET Take(i) == Get("raw_frame", i, <<>>)
      Give(i) == Free("raw_frame", i)
  IN EachOrUndo(n, Take, Give)
     \o Do(Match_wdr_pts(0), EachBack(n, Give)) \o EachBack(n, Give)
Send_wdr_frame == Get("send_thread", 0, <<>>) \o Free("send_thread", 0)
==============================================================================
