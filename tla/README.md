# Verification of the media samples

The repository is a collection of sample programs for a media SoC, written
in C on top of a closed driver library (`ss_mpi_*`).  Two things in it go wrong
in ways a test hardly reaches.  One is where threads, processes or chips work on
the same thing: the PCIe program (`src/pciv`), the USB camera (`src/uvc_app`), the
scene library (`src/scene_auto`), the rate control (`src/svc_rate_auto`) and the
camera feed of the decoders (`src/common/sample_comm_vdec.c`).  The other is what
nearly every sample consists of: start functions whose calls may fail at any
place, the rollback behind their goto labels, and the stop functions.  This
project models those five parts, each in a module of its own, and the bring-up
and take-down of 104 programs as data of one module (`Bringup`).  It holds TLA+
modules translated from the sources, TLC configurations that check them on small
instances, and theorems that TLAPS proves for every value of the constants.

    tlc -config MCRtspFeed.cfg MCRtspFeed      # one run
    tlapm RtspFeed_proofs.tla                  # the proofs of one module

`PROJECT.json` maps every definition to the lines of the source it stands
for, and lists the runs, the hazards, the findings, the theorems and, for each
property, a plausible bug of the code under which TLC finds it violated.  The
operators with a suffix (`MayWrite`/`AnyTime`, `Usable`/`Usable_any`, ...) are
those faulty variants; no specification uses them.

## 1. Inventory

### Parts that keep state

| part | state | operations | what is hard |
|---|---|---|---|
| `pciv_trans` ring | positions, sequence numbers, send buffer, frames the receiver holds | alloc, copy, send, read, release, init, deinit, sender thread | positions read without a lock, lost messages, DMA time-outs, wrap-around |
| `pciv_msg` and control (host and slave main threads) | open ports per chip, co-threads, `g_signo_flag` | INIT, EXIT, QUIT, ECHO; menu, command loop | lost and late answers, partial starts, crashes of either side |
| PCIe channel (co-threads) | one picture under way, two message ports | get, announce, DMA, answer, draw, stop | picture returned while it is read, answers a picture late |
| `uvc_app` | probe/commit, stream and media state, one V4L2 buffer | USB events, data thread, media route, SIGINT | host requests in any order, two threads queueing one buffer, rollback |
| `scene_auto` | layout of the pipes, mode, lock, pause, four threads | init, set_mode, pause, resume, deinit | calls and threads share state without the lock, pause races a setter |
| `svc_rate_auto` | parameters, QP maps, what the encoder was last given | init, a round of the thread, stop, clear | mixed six-bit/absolute bytes, drift over rounds, clearing under the thread |
| RTSP feed of a decoder | one buffer, its length, one flag | reader thread, send thread, start, stop | no lock, length stored behind the flag, retries against a stop |
| the samples and `common` | what the driver, the C library and threads have given out | start, rollback, switch, stop of every case of every menu | a failure at any call, the order of a rollback, threads that end by themselves |
| `frame_cache`, calibration tools | queues, tables | - | small, partly without callers |

How they interact: the PCIe host sends commands over `pciv_msg` to the main
thread of each slave, which starts the co-thread of a channel; the co-threads
talk over two ports of their own and read pictures by DMA.  In `uvc_app` an
event thread runs the negotiation and starts the media route; the data thread
shares the V4L2 device with it.  The scene and rate libraries run threads beside
a main thread that starts, pauses and stops them.  The vdec, region, hdmi and
PCIe samples call the feed in `common`.

### Parts that are sequences of driver calls

The start, switch and stop of vi/isp, vpss, vo, venc, vdec, region, audio, avs, mcf,
hdmi, gfbg, fisheye, dis, composite, snap, photo, traffic_capture, vio, vgs, tde and
the USB camera's client `host_uvc`.  Their state is in the driver; what can be wrong
in them is what a failure leaves behind, gives back twice or takes down in the wrong
order.  The calibration tools, cipher and the neural, vision and DSP samples under
`svp` are of this kind too and are not modelled (section 7).

### What makes each modelled part correct

- **pciv_trans**: no byte of a frame the receiver may read is overwritten;
  frames arrive whole and in order; room that is free is found again.
- **control**: both sides agree on what is started; answers belong to their
  commands; a stop cleans up after any half start; only created threads are joined.
- **channel**: the host keeps a picture as long as the slave may read it; a
  rectangle is drawn on the picture it was computed from; a stop completes.
- **uvc_app**: the stream runs in the agreed format; a route that was set up
  is taken down as a whole; the one buffer is never lost; SIGINT ends all of it.
- **scene_auto**: the layout is that of the mode; a pause and a switch have
  bounded after-effects; calls and threads come to an end.
- **svc_rate_auto**: limits hold, a finer region is never made coarser, the
  AVBR percentage does not drift.
- **bring-up**: a program that ends, whichever call failed, has given back all it
  obtained; nothing is obtained twice or given back twice; a part never outlives the whole.
- **feed**: one user of the buffer at a time; every published frame is sent
  once, in order, with its own length or that of the frame before; a stop completes.

## 2. Modules

| module | models | checked by | proved in |
|---|---|---|---|
| `FrameQueue` | the abstract promise of the transport: a lossy FIFO with loaned frames | as a property of `PcivTrans` | `PcivTrans_proofs` |
| `PcivTrans` | `pciv_trans.c` | `MCPcivTrans_ring`, `_faults`, `_half` | `PcivTrans_proofs` |
| `PcivCtl` | main threads of `sample_pciv_host.c` and `sample_pciv_slave.c` with the ports of `pciv_msg.c` | `MCPcivCtl`, `_ctrlc` | `PcivCtl_proofs` |
| `PcivChannel` | the two co-threads of one channel | `MCPcivChannel` | `PcivChannel_proofs` |
| `UvcApp` | `ot_camera_gadget.c`, `ot_uvc.c`, `uvc_media.c`, `camera.c`, `application.c` | `MCUvcApp` | `UvcApp_proofs` |
| `SceneAuto` | `ot_scene.c`, the pause in the setters | `MCSceneAuto`, `_pause` | `SceneAuto_proofs` |
| `RateAuto` | `ot_bitrate_auto.c` and its main | `MCRateAuto` | `RateAuto_proofs` |
| `RtspFeed` | the feed in `sample_comm_vdec.c` | `MCRtspFeed` | `RtspFeed_proofs` |
| `CallScript` | the notation for start, rollback and stop functions | | |
| `CommonScripts`, `ViScripts` | `common`: system, vpss, vo, venc, bindings; vi, isp | `MCBringup` | |
| `VioScripts`, `VencScripts`, `VdecScripts`, `RegionScripts`, `AvsScripts`, `AudioScripts`, `HdmiScripts`, `GfbgScripts`, `McfScripts`, `StillScripts` (snap, photo, traffic_capture), `CompositeScripts`, `LensScripts` (fisheye, dis), `OutputScripts` (vo, vgs, tde, MIPI output), `HostScripts` (`host_uvc`) | the functions of the samples with these names and of the files of `common` they use | `MCBringup` | |
| `Bringup` | how C runs such a program while calls fail and threads end | `MCBringup` | `Bringup_proofs` |
| `BringupFlow` | what a program may hold and what it must hold at each step, as tables that its steps must agree with | `MCBringup` (as an assumption) | `Bringup_proofs` |

Variables have the names of the C variables where there is one (`write_pos`,
`g_signo_flag` as `signo`, `probe`, `random_int` as `flag`), and one action
stands for one function, handler or step of a thread between two points where
another actor can be seen.  Program counters (`pc`, `hpc`, `spc`, ...) hold those points.
Driver calls either succeed or fail, nondeterministically where the
code looks at the result.

**PcivTrans.** The sender's client builds a frame of chunks and sends it:
`SendStart` chooses the place
(`trans_get_write_offset`) and requests the DMA, `SendFinish` announces with WRITE_DONE.  The sender thread takes READ_DONE; the
receiver reads, holds and releases frames.  A byte of the ring is an element of
`Data`, and the refinement reads frames back out of the ring, so overwritten bytes
show up as wrong frames.  Frames are released in the order they were read, which is up to
the client (`trans_upd_read_pos` takes any position).  Initialisation and shutdown are one
step each.

**PcivCtl.** `Setups` is the set of pairs of a number of chips and a set of faults of
which a behaviour has one; the faults are refused ports on the host (`open`) or slave (`sopen`), failed media (`vb`, `media`), kills (`kill`,
`skill`), lost or late messages (`msg`, `late`).  A host is started again at any
time: `pciv_wait_connect` only asks the driver whether the other chip is up, so that a
slave may still be dealing with a killed host's command, or echo it to the new one.
`settled` records the chips of which that is not so; a chip is in step (`InStep`) if it
is one of them and no message is refused or late.  The properties about both sides are
stated for the chips in step, those about one side for all.

**PcivChannel.** Starts where control ends; `Sessions` is the set of fault sets
of which each session has one.  `InTime` says that neither the wait for an answer
ran out nor a picture was missing; the safety properties are stated under it,
because without it they do not hold (section 6).

**UvcApp.** Formats are numbers; `Raw` are those without an encoder; `MayFail`
the driver calls that can: steps of the media route, the stop of the UVC channel (`stuck`
remembers one that was refused), STREAM_ON and STREAM_OFF.  USB requests are events
that the host sends at any time: set-ups of the probe and commit controls, of a control of a
unit, and of the power mode of the control interface itself.  V4L2 is external: a
STREAMOFF that succeeds returns every buffer, a queued buffer is not queued again.

**SceneAuto.** Each step of a thread is one visit of the shared state: the copy of
the mode, the layout, the test of the pause, the write.  `watch` is the set of
threads a behaviour looks at; the others stand still, which they may.

**RateAuto.** QP map values are bytes, with the six-bit signed and the absolute
form; all five adjustments of a round are operators of their own, composed in
the order of `rate_auto_proc`.  One value stands for the I and the P frame.

**Bringup.** A function is a sequence of steps (`CallScript`): `get` obtains a resource,
`try` obtains nothing, both may fail and then run their rollback; `free` gives a
resource back, or fails and keeps it; `note` and `ask` set and test a flag of the
program's own.  A resource is a kind with an index, such as `<<"vpss_grp", 1>>`.  Calls
are inlined: `Do(f, on)` is `f`, every failure of which goes on with `on`, the way
`if (ret != TD_SUCCESS) goto exit1;` does; `Lax` is a call whose result is ignored,
`Strict` a stop function that returns at its first failure.  An operator of a Scripts
module has the name of the C function without its prefix.  `Bringup` runs one of the
programs: a call fails (`StartFails`, `StopFails`), the rollback runs, a thread
of `common/sample_comm_audio.c`, `hdmi` or `audio` ends by itself (`ThreadBreaks`)
and gives up what it owns while its owner goes on (`ThreadGivesUp`).  A thread's loop
is a program of its own (`venc_stream`, `capture_thread`, `fisheye_nine_thread`, ...),
run through two rounds or so.

Many of the programs do leave something behind when a call fails.  What they
leave is written down with each: `leaks` are the kinds a failure may leave, `forgets`
those left even when nothing fails, `twice` those a rollback gives back without
holding them.  The invariants hold but for these, and each entry is an observation
about the code (section 6); a program written with `Program(code, {})` has none.

**RtspFeed.** One channel; channels share nothing but the number that each sender's
handle holds before its thread is created, 0 for the first channel alone (`handle`): where
the thread cannot be created, the stop joins that number.  A frame is its number, in
the buffers as in the lengths, so that a length of another frame is a
different value.  A length then says whose it is and not how long: `LenLagsOne` says which
frames the amount sent and the amount copied can be those of, not that one bounds the
other.  The race on `size_tmp` is kept: it is stored in a step of its
own behind the flag, and read twice.  Reordering by the processor adds nothing
to these outcomes: the flag is a C11 atomic and its default accesses order the
store of one length before the next publication.  The pacing of
`sample_comm_vdec_handle_send_stream` is a frame that is due at some time.

## 3. Runs

| run | constants | states | what it shows |
|---|---|---|---|
| `pciv_trans_ring` | ring of 6, frames up to 6, timeouts | 75 K | no message is refused, a retried send succeeds |
| `pciv_trans_faults` | ring of 3, two byte values, every fault | 1.9 M | nothing live is overwritten, ring order, refinement of `FrameQueue` |
| `pciv_trans_half` | ring of 4 | violation | finding 1 |
| `pciv_ctl` | refusals with kills of host and slave on 1 chip or of slaves on 2, or 1 chip with lost and late messages; 2 channels | 1.04 M | with slaves in step answers match, starts and stops go together and QUIT arrives; what a stop leaves; only created threads are joined, a stop completes |
| `pciv_ctl_ctrlc` | 1 chip | violation | finding 2 |
| `pciv_channel` | 2 pictures, three kinds of session | 82 K | pictures are held and matched, a stop completes |
| `uvc_app` | 2 formats (raw, encoded), indices out of range, 2 pending events | 3.8 M | negotiation, route, buffer and exit |
| `scene_auto` | 2 pipes, 3 modes, luminance every 2nd loop | 625 K | layout, pause and switch, calls and threads end |
| `scene_pause` | same | violation | finding 3 |
| `rate_auto` | one region of each kind, boundary values, all orders of the limits | 912 K | limits, signs, no drift |
| `rtsp_feed` | 5 frames, 2 pieces | 171 K | exclusive use, order, length, stop |
| `bringup` | 104 programs, one failure (`MaxFaults`) | 151 K | nothing left, nothing obtained or given back twice, no part without its whole |

Why the bounds are enough.  A ring of 3 units with frames of 1 and 2 reaches
every case of `trans_get_write_offset` (ahead, wrapped, no room) with a frame held
and one announced; the ring of 6 adds three frames at once and frames of half the
ring and more.  Sequence numbers wrap at `SeqMod`, small enough to wrap several
times; the code's tests only look at differences of 1 and 2.  Two channels per
chip are needed for "the channels before the failing one", two chips for an answer
that could come from another chip; a killed host and what it leaves on a slave need one,
since a slave hears of no other chip.  Two picture blocks are the one in use and the
next.  In `UvcApp` two formats with different numbers of frames and one event more
than is being handled give every pairing of a stale with a fresh request.
Two pipes are the fewest with a main pipe that is not pipe 0.  The values of
`MCRateAuto` lie on both sides of every comparison in the five adjustments.  Five
frames give a dropped one before, between and after sent ones and two rounds of the
flag; two pieces have a first and a last.  In `bringup` one failure reaches every label
of every function, since what a rollback has to undo depends on the step that failed;
the theorem about `Bringup` then allows any number.  Loops over sensors, groups or
channels run as often as the sample's own constants say, or at least twice.  Queue bounds
(`QueueCap`, `EvCap`, `MaxHeld`, `MaxFrames`, `MaxPort`, `MaxChips`) are constants with those names.

Deadlock is checked except where the program ends: `UvcApp` after SIGINT,
`SceneAuto` and `RateAuto` after their main, `RtspFeed` after the stop, `Bringup` after the
last step.

## 4. Fairness

- `PcivTrans`: sender thread, receiver and the client's retry are scheduled, a DMA
  request completes.  The
  client gives back what it holds: an assumption about the client, since no sample
  calls `pciv_trans_*`.  Ports are reliable in that run.
- `PcivCtl`: both main threads go on; a co-thread that was told to end does.
  Nothing makes the network deliver: the wait for an answer is bounded in the code.
- `PcivChannel`: both co-threads are scheduled, a slave that got EXIT stops.
- `UvcApp`: both threads loop on a select with a time-out; the host owes nothing.
- `SceneAuto`: threads are weakly fair; for the takers of the lock strong fairness
  is assumed, because the luminance thread sleeps 100 ms with the lock free.
- `RtspFeed`: the send thread is scheduled and the decoder works off its stream
  buffer, which the blocking end-of-stream call waits for.  Nothing is assumed of
  the camera, nor of when a frame is due.

## 5. Proofs

Proved by TLAPS, with no assumption but the ones on the constants
(ring length positive, chunks no longer than the ring, more than two sequence
numbers; `Pieces` positive; and so on, each an `ASSUME` that TLC evaluates too).

- **PcivTrans** (`RingInvariant`, `TypeCorrect`, `OrderKept`, `Safety`, `Refines`,
  `NeverRefused`, `HalfAlwaysFits`).  No overwriting is not inductive by itself: the place of a send
  was chosen against an older `read_pos`.  The invariant adds that every live frame
  follows the one before around the ring starting at `read_pos` (`RingOrder`) and
  that the chosen place is still a legal choice under the present `read_pos`
  (`PlaceStillFree`: freeing only enlarges the window).  From it follows the refinement:
  each step of the ring, its positions and the two ports is a step of `FrameQueue` or
  leaves it alone, because what is written under DMA is apart from every frame that is
  announced or held; this holds with every fault.  `NeverRefused` has the hypothesis
  `Reliable`: no message is lost, no frame is empty, and a port has room for as many
  messages as the ring has units.
  Its invariant counts: each frame in flight has at least one unit of the ring to itself, so
  the announcements in a port cannot outnumber the units, and they are numbered without
  a gap, so the receiver's test of the sequence number never fails.
- **PcivChannel** (`PhaseInvariant`, `ChannelTypes`, `PictureHeld`,
  `RectOfItsPicture`, `EndsQuiet`).  The invariant says which combinations of the two program
  counters and the two ports exist (`PhaseInv`), and that they go on to hold
  until an answer is late or a picture missing.
- **RateAuto** (`RoundTrip`, `RateInvariant`, `RateTypes`, `BoundsHold`, `SignsHold`,
  `AbsoluteHolds`, `StillHolds`).  One lemma per adjustment bounds what it does to
  a value; the invariant says that all that was filled in or given to the encoder
  came from the configured values by one round.  Any number of regions.
- **RtspFeed** (`FeedInvariant`, `FeedTypes`, `OneUser`; `OrderInvariant`, `LengthLags`,
  `CompleteInvariant`, `TakenOnceInOrder`).  The first invariant says whose the buffer is:
  flag 1 means that the sender is at the head of its loop or behind it, the reader works
  with flag 1 only, and the loop never runs without a buffer.  The second numbers what was
  published: frames go up, the stored length is that of the frame last published
  or of the one before, and all the decoder took was sent with, and copied in the amount of, its own length or that of the
  frame published before it.  The third adds the pieces a frame has had so far.
- **PcivCtl** (`CtlInvariant`, `CtlTypes`, `AnswersBelong`, `SetUpTogether`, `StopCleans`,
  `QuitArrives`, `JoinsOwn`), for any number of chips, channels and ports and
  every set of faults.  No property is inductive by itself.  The invariant says that a channel has the
  same port in every session, since ports are handed out in the order of the channels
  from the first one on; what `is_start` and the open ports tell of the threads on
  either side (`HostInv`, `ThreadInv`, `PortInv`); and, of a chip in step, that at
  most one exchange with it is under way, if the host waits for it, and is in one of four
  states: sent, being dealt with, answered truthfully, lost with the slave (`Exchange`).
  The stop loop then cleans what is behind it because each answer, or the death of the
  slave, says so (`ServedInv`).  Of a chip that is not in step nothing like it is true:
  the next host may take the echo of a killed host's command for its own.  On the host's
  side `StopLeavesNothing` needs no such condition, and says of the port that a failing round
  had opened and not recorded that it is the only one left.
- **UvcApp** (`UvcInvariant`, `UvcTypes`, `AgreedFormat`, `RouteTakenDown`,
  `BufferKept`).  An event is handled long after the host sent it, so the
  invariant fixes what it will find when it is posted: the last set-up in front of a data
  event is its own (`Aimed`), the last commit in front of a stream request is the format
  agreed on (`Agreed`), and a connection comes first (`Known`).  It adds what a route
  of each format contains, step by step, what a refused stop leaves of it (`stuck`), and
  where the one buffer may be.
- **SceneAuto** (`SceneInvariant`, `SceneTypes`, `LayoutKept`, `LateOnce`, `StaleOnce`).
  Each thread passes the test of the pause, or reads the mode, once per round, and a write
  behind a pause or a switch uses that permission up.  The layout is what the stages of a
  switch make of the mode (`Laid`), also after a call that failed, for calls fail before the
  first stage or behind the last.  That this puts every enabled pipe at one place, under the
  main pipe it names, is a fact about the loops over the pipes: `InOrder` says in which
  order they take them, and `Orders` that there is such an order of every set of pipes.
  Where an induction is needed (`Orders`, `MainsFacts`), it is by the least
  counterexample (`Least`, from the well-foundedness of the naturals).
- **Bringup** (`FlowInvariant`, `CertifiedLeaveNothing`, `CertifiedGetOnce`;
  `GuardInvariant`, `GuardedFreeOnlyHeld`, `GuardedNothingDangles`).  The run
  allows one failure; these theorems allow any number, and threads ending at any
  time.  A table says what a program may hold in front of each step, also within each
  rollback, and one more what it does hold while nothing fails (`BringupFlow`); the
  assumption is that the tables agree with the steps, one step at a time, which TLC
  evaluates for the programs in `MCCertified` with the tables it fills in itself.  The
  invariant is that what is held and not lost is within the table.  A third table
  (`Sure`) says what is held in front of a step on every way to it, and of which no
  thread can take anything away.  From the two bounds together follows that what is given
  back is held, and that a part is obtained within its whole and given back before it;
  the first table bounds what threads may take, the third says what is left to the owner.  96 of the 104
  programs have such a table.  In the other eight a flag that a release looks at
  tells of two resources (a block and its map, a thread and its flag), which a table
  of single resources cannot express; for them the run stands alone.  93 programs have the third
  table as well; in `audio_adec_ao`, `audio_ai_aenc` and `audio_signal` the flag of a sound
  thread tells whether its file is still open, too, which single resources do not
  express either.

Only model-checked: every liveness property (fairness and ENABLED are beyond the
prover); the properties of `Bringup` for the 8 programs without tables, and two of them
for the 3 without a third one, all with one failure.  What recursive definitions
compute for every input (the tables of the programs, the Scripts themselves) is
evaluated by TLC, not proved.

## 6. Findings and observations

Where a text of the repository says otherwise than the code does:

1. `HalfRule`: `pciv_trans.c:51` multiplies the wrong side; frames of more than half
   the ring are accepted, against the comment on the line.  They may never find
   room.  `HalfAlwaysFits` shows that the rule in the comment would be sufficient.
2. `CtrlCReachesSlaves`: ctrl+c ends the host without a message to the slaves,
   against the comment at `sample_pciv_host.c:655`.
3. `PauseHolds`: `ot_scene_set_rc_param` (`ot_scene_setparam.c:2188`), through which the
   trace goes, and `ot_scene_set_dynamic_3dnr` (2093) write while the scene is paused,
   against `ot_scene.h:141`.  What does hold of the other setters is `OneLateWrite`.

Seen while modelling, with no text to hold against it:

- *pciv*: with a late answer or a missing picture every later answer is one picture
  late and a picture can be returned under DMA (`sample_pciv_host.c:442-445`).  A port
  the slave cannot open leaves `is_start` set, and EXIT joins a thread that was never
  created.  The result of `pthread_create` is ignored in `pciv_trans.c:170`.  A host
  that is started while a slave still works on a killed host's command reads the echo of
  that command as the answer to its own first one (`sample_pciv_host.c:113`;
  `pciv_msg.c:49-87` does not prevent it): its thread can then run before the slave has
  served INIT.  The port of a round that fails in between its opening (484) and its
  recording (501) is not closed by the stop loop (535) and stays open until main exits.
- *uvc_app*: a failed start leaves the media system, and no later start succeeds
  (`uvc_media.c:551`); a failed start still queues the buffer and streams.  When the
  data thread holds the buffer during STREAMOFF, the restart's QBUF may be refused,
  after which the stream is not switched on.  The data of a power mode request, which has
  unit 0, is taken for a probe (`ot_camera_gadget.c:717-728`).  A UVC channel whose stop
  is refused is not destroyed (`uvc_media.c:241-245`), and no later start can create it.
- *scene_auto*: the venc thread survives deinit (774-791) and is doubled by the next
  init; the venc and 3DNR steps index `pipe_attr` by the position of the main pipe; the
  exposure the luminance thread records can be newer than what its setters saw (608);
  a thread flag stays TRUE when the thread cannot be created.
- *svc_rate_auto*: the thread is detached, so the join in deinit need not wait and the
  parameters may be cleared within a round; the percentage can be written wrongly in that
  window, and `StillOnce` is stated for the running program.  The limits named at lines 335
  and 340 hold when the start QP itself keeps to them.
- *feed*: a frame can be sent with the length of the frame before it: the flag is turned
  over before the length is stored (701-702).  A bigger frame is then cut off; and since
  the sender reads the length twice (741-742), a smaller one may go out with more bytes than
  were copied for it.  Where a sender thread cannot be created, its handle keeps
  the channel's number (885-886), and from channel 1 on that is joined (903).  A stop can leave a hole in a frame,
  since the pieces after a refused one are still tried.  The reader thread is never
  ended; in `sample_vdec.c` its parameters are on a stack that goes away (in the other
  samples they are static, which the model assumes).  Neither the size of a packet
  nor the allocation of `buf_in` is checked.  With a decoder that stands still,
  the stop waits in the end-of-stream call.

What the `leaks`, `forgets` and `twice` of the programs stand for, file by file:

- *vi, isp* (`sample_comm_vi.c`): a failing `start_mipi_rx` leaves clocks on; a failing
  `ss_mpi_isp_init` returns past its labels; `mode_switch_start_one_pipe` stops pipes
  without destroying them; `switch_isp_mode` returns success on errors (1747-1751);
  the fpn calibration leaks the last block's pool (1961, 2009); `match_wdr_pts`
  gives a frame back twice; a VGS job is not cancelled when `add_task` fails.
- *system, vo, venc*: `sys_init_with_vb_supplement` leaves the pools (306-307); `vo`'s
  `start_chn` leaves earlier channels; `start_pip` stops a device it did not start;
  `venc_start`, `snap` and `photo` do not destroy the channel that would not start;
  `stop_get_stream` returns before the join if a channel would not stop; a frame
  that cannot be saved keeps the driver's stream (2415); maps and threads of the ROI
  and QP map runs stay (2243; `sample_venc.c` 725-728, 1688-1691); `fdopen` failing
  closes a null file and keeps the descriptor (1649-1683).
- *vio*: a mode that cannot be set leaves system and pools; an extension channel
  that fails leaves VI (1132-1133).
- *vdec, region*: `vdec_start_send_stream` ignores `pthread_create`; a start that fails
  returns the result of its rollback, success (`sample_region.c` 393-410, 537-555);
  `vdec_vpss_vo_end` never exits the system and `vdec_vpss_venc_end` never unbinds; a
  failing `set_bit_map` tears down and goes on (513-520); the mosaic rollback names
  another type (984).
- *avs* (`sample_avs.c`): one route enables VPSS channel 0 and disables channel 1
  (888); a camera that fails leaves itself (868-876); a failing AVS start leaves group
  and channels (520); the cruise thread is joined even if it was never created.
- *audio*: the inner codec's descriptor stays on every failure (`sample_comm_audio.c`
  655-687); `start_ai` and `start_ao` undo nothing; a thread that ended by itself is never joined (832);
  the resampling thread clears its flag before it is done with the library that
  its owner then unloads (`sample_audio.c` 276-280, 325-345).
- *hdmi*: VPSS is in no case of the rollback (351); audio that fails to start says
  nothing; a command's failing step leaves HDMI stopped; `main` waits for ever in front
  of its stop calls (`sample_hdmi.c:49`).
- *gfbg*: the 2D engine stays open (1135-1177); a failed `mmap` is compared with NULL
  (1325); the first thread is not joined when the second cannot be created (1641).
- *mcf*: the rollback of `start_vpss` counts down to 1, so that group 0 is never stopped
  and one that was not started is (`sample_comm_mcf.c` 384-398); a map that fails leaves
  the other (824-839).
- *snap, photo, traffic_capture*: bindings are undone by no failure; a photo that
  cannot be processed keeps its frame (749); `alg_init` passes addresses by value, so
  that `deinit` frees an unset one (640-686); a capture route that fails stops the
  video route instead (328-331).
- *composite, fisheye, dis*: pools and decoder stay (494-504); a frame is released
  that was not obtained (656-658); the nine-part thread reports a job or block that was
  not obtained as success (570-576); `start_gyro` has its labels swapped (396-399).
- *vo, tde*: a panel that does not start leaves its output; a picture that
  cannot be shown keeps map and memory (465-469); a job is cancelled twice (247-303).
- *host_uvc*: descriptor, buffers and maps stay on most failures of main; a frame
  that cannot be mapped keeps its block; `stop_receive` names channel 1 for 0.

## 7. Not modelled, and what is left

Left out of the modelled parts: exposures, FPN correction and the getters of
`scene_auto`; bulk transfers and GET requests of `uvc_app`; the close of descriptor 0 for a port the
driver refused (`pciv_msg.c:131-137`) and a port opened under it; the loader of
`svc_rate_auto` (its ranges are the constants); initialisation failures inside one
step of `pciv_trans`.  In the programs of `Bringup`: attributes and their tables (a
`try` stands for setting them), the bytes of pictures and streams, how often a
thread goes round its loop, and two programs at once.  `PROJECT.json` names these per
component.

Not modelled at all: the bitmap loader and the parameter files (conversions without
state), the arithmetic of the scene setters, the controls and the audio of `uvc_app`
(the latter off in its Makefile), the calibration tools, cipher, the engines under
`svp`, the command line of `bitrate_auto` around a closed library.

What would come next:

1. Exposures and the set-up of the last exposure in `SceneAuto` (hazard at
   `ot_scene.c:608`); interpolation of the setters as functions against a reference.
2. The capture thread of `traffic_capture` beside its owner, with the flag that is set
   after the thread was created; the plug events of `hdmi` in the middle of a command.
3. The calibration tools and `svp` as further Scripts modules.
4. Tables for pairs of resources in `BringupFlow`, for the eight programs left.
5. Proofs: the promises of the `FrameQueue` itself as theorems about it; the three audio
   programs without a third table.
