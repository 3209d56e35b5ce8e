------------------------------- MODULE UvcApp -------------------------------
(***************************************************************************)
(* The USB camera of uvc_app: the event thread (ot_uvc.c, ot_camera_gadget *)
(* .c) negotiates a format with the USB host and starts and stops the      *)
(* media route (uvc_media.c); the data thread keeps the one buffer of the  *)
(* gadget driver going round; SIGINT ends both.  The threads share the     *)
(* device without a lock.  dw_bulk is never set, so the bulk branches of   *)
(* the event handlers are dead and left out.                               *)
(***************************************************************************)
EXTENDS Naturals, Sequences, SequencesExt, FiniteSetsExt

CONSTANTS
  NumFrames,   \* frame sizes of each format of the table ot_fmt
  Raw,         \* the formats the camera sends without encoding
  Picks,       \* the indices of a format and a frame that hosts ask for;
               \* both 0 stands for the data of a unit
  EvCap,       \* events the driver holds for the program
  MayFail      \* driver calls that can fail: steps of the media route,
               \* "uvc stop", "stream on", "stream off"

ASSUME NumFramesAssumption ==
  /\ NumFrames \in Seq(Nat \ {0})
  /\ NumFrames # << >>
ASSUME RawAssumption == Raw \subseteq DOMAIN NumFrames
ASSUME PicksAssumption == Picks \subseteq [fmt : Nat, frm : Nat]
ASSUME EvCapAssumption == EvCap \in Nat \ {0}

VARIABLES
  ev,          \* events the driver holds
  usb,         \* what the USB host did: plugged in, committed to (0: nothing),
               \* and its control transfer: "none", "asked", "data"
  ask,         \* which control that transfer is for
  probe,       \* ot_dev->probe and
  commit,      \* ot_dev->commit: index of a format and of its frame
  target,      \* i_control, i_unit_id and i_intf_id of the last set-up event
  fcc,         \* dw_fcc, as the index of the format; 0 before any commit
  prop,        \* format of g_encoder_property
  want,        \* what the host agreed on when it last asked for the stream
  route,       \* what the media route created and has not destroyed
  started,     \* g_is_media_start
  sys,         \* the media system is initialised
  stuck,       \* history: the UVC channel, if the last stop was refused
  streaming,   \* streaming of g_ot_stream
  i_streaming, \* i_streaming of the device
  on,          \* the driver streams
  buf,         \* the buffer: with the "user", "queued", or "done"
  epc,         \* the event thread
  dpc,         \* the data thread
  quit,        \* g_need_quit_flag
  closed       \* close_uvc_device is through

negotiated == <<probe, commit, target, fcc>>
media == <<want, prop, route, started, sys, stuck, streaming>>
device == <<i_streaming, on, buf>>
vars == <<ev, usb, ask, negotiated, media, device, epc, dpc, quit, closed>>

Formats == DOMAIN NumFrames
NoPick == [fmt |-> 0, frm |-> 0]
InTable(p) == p.fmt \in Formats /\ p.frm \in 1 .. NumFrames[p.fmt]

PROBE_CONTROL == 1
COMMIT_CONTROL == 2          \* also the number of the AE mode of unit 1
POWER_MODE_CONTROL == 1      \* of the control interface, whose unit is 0

----------------------------------------------------------------------------
(* The media route. *)

NeedVenc(f) == f \notin Raw

(* Steps of sampe_uvc_start_vi_vpss_venc in order. *)
Steps(f) ==
  IF NeedVenc(f)
    THEN <<"vi", "vpss", "vi>vpss", "uvc", "uvc start",
           "venc", "venc start", "vpss>venc", "venc>uvc">>
    ELSE <<"vi", "vpss", "vi>vpss", "uvc", "uvc start", "vpss>uvc">>
Created(f) == ToSet(Steps(f)) \ {"uvc start", "venc start"}

(* What the goto ladder releases when a step fails.  A channel that was     *)
(* created and would not start stays.                                       *)
Released_short(s) ==
  CASE s = "vi" -> {}
    [] s = "vpss" -> {"vi"}
    [] s = "vi>vpss" -> {"vi", "vpss"}
    [] s \in {"uvc", "uvc start"} -> {"vi", "vpss", "vi>vpss"}
    [] s \in {"venc", "venc start", "vpss>uvc"} ->
         {"vi", "vpss", "vi>vpss", "uvc"}
    [] s \in {"vpss>venc", "venc>uvc"} ->
         {"vi", "vpss", "vi>vpss", "uvc", "venc"}
Released(s) ==
  CASE s = "vi" -> {}
    [] s = "vpss" -> {"vi"}
    [] s = "vi>vpss" -> {"vi", "vpss"}
    [] s \in {"uvc", "uvc start"} -> {"vi", "vpss", "vi>vpss"}
    [] s \in {"venc", "venc start", "vpss>uvc"} ->
         {"vi", "vpss", "vi>vpss", "uvc"}
    [] s = "vpss>venc" -> {"vi", "vpss", "vi>vpss", "uvc", "venc"}
    [] s = "venc>uvc" ->
         {"vi", "vpss", "vi>vpss", "uvc", "venc", "vpss>venc"}

(* Done before step s failed. *)
Before(f, s) ==
  LET done == {i \in DOMAIN Steps(f) : \A j \in 1 .. i : Steps(f)[j] # s}
  IN  {Steps(f)[i] : i \in done} \ {"uvc start", "venc start"}

(* sample_uvc_chn_deinit, at the stop of a route or in the ladder: a        *)
(* channel that the driver does not stop or destroy is kept.                *)
Kept == {{}} \cup IF "uvc stop" \in MayFail THEN {{"uvc"}} ELSE {}

(* sample_venc_shutdown: nothing unless a start was tried; takes down what  *)
(* the format of g_encoder_property calls for.                              *)
Stopped ==
  /\ \E kept \in Kept :
       /\ route' = IF started THEN route \ (Created(prop) \ kept) ELSE route
       /\ stuck' = IF started THEN route \cap kept ELSE stuck
  /\ started' = FALSE

----------------------------------------------------------------------------
(* The negotiation. *)

Clamp(n, lo, hi) == IF n < lo THEN lo ELSE IF n > hi THEN hi ELSE n

FrameBound_last(fmt) == NumFrames[Len(NumFrames)]
FrameBound(fmt) == NumFrames[fmt]

Clamped(p) ==
  LET fmt == Clamp(p.fmt, 1, Len(NumFrames))
  IN  [fmt |-> fmt, frm |-> Clamp(p.frm, 1, FrameBound(fmt))]

Init ==
  /\ ev = << >>
  /\ usb = [plugged |-> FALSE, agreed |-> 0, xfer |-> "none"]
  /\ ask = "none"
  /\ probe = NoPick /\ commit = NoPick
  /\ target = [control |-> 0, unit |-> 0, intf |-> 0]
  /\ fcc = 0 /\ prop = 0
  /\ want = 0
  /\ route = {} /\ started = FALSE /\ sys = TRUE /\ stuck = {} /\ streaming = 0
  /\ i_streaming = 0 /\ on = FALSE /\ buf = "user"
  /\ epc = "check" /\ dpc = "check"
  /\ quit = FALSE /\ closed = FALSE

----------------------------------------------------------------------------
(* The USB host and the gadget driver. *)

(* The driver has no one to hold an event for once the device is closed.    *)
Post(e) == ~closed /\ Len(ev) < EvCap /\ ev' = Append(ev, e)
Event(type) == [type |-> type, to |-> "none", pick |-> NoPick]

Driver == <<negotiated, media, device, epc, dpc, quit, closed>>

Plug ==
  /\ ~usb.plugged
  /\ Post(Event("connect"))
  /\ usb' = [plugged |-> TRUE, agreed |-> 0, xfer |-> "none"]
  /\ ask' = "none"
  /\ UNCHANGED Driver

Unplug ==
  /\ usb.plugged
  /\ Post(Event("disconnect"))
  /\ usb' = [plugged |-> FALSE, agreed |-> 0, xfer |-> "none"]
  /\ ask' = "none"
  /\ UNCHANGED Driver

(* SET_CUR of the probe or the commit control, of a control of a unit, or   *)
(* of the power mode of the control interface itself.                       *)
SetCur(to) ==
  /\ usb.plugged /\ usb.xfer = "none"
  /\ Post([type |-> "setup", to |-> to, pick |-> NoPick])
  /\ usb' = [usb EXCEPT !.xfer = "asked"]
  /\ ask' = to
  /\ UNCHANGED Driver

(* The data stage.  The host then knows what it agreed on.  Behind the one  *)
(* byte of a power mode may be anything.                                    *)
SendData(pick) ==
  /\ usb.xfer = "data"
  /\ ask = "unit" <=> pick = NoPick
  /\ Post([type |-> "data", to |-> ask, pick |-> pick])
  /\ ask' = "none"
  /\ usb' = [usb EXCEPT !.xfer = "none",
       !.agreed = IF ask = "commit" THEN Clamped(pick).fmt ELSE @]
  /\ UNCHANGED Driver

(* A host asks for the stream after it committed to a format.               *)
StreamOnRequest ==
  /\ usb.plugged /\ usb.xfer = "none" /\ usb.agreed # 0
  /\ Post([type |-> "stream on", to |-> "none",
           pick |-> [fmt |-> usb.agreed, frm |-> 0]])
  /\ UNCHANGED <<usb, ask, Driver>>

StreamOffRequest ==
  /\ usb.plugged /\ usb.xfer = "none"
  /\ Post(Event("stream off"))
  /\ UNCHANGED <<usb, ask, Driver>>

(* The controller has sent the frame of the queued buffer.                  *)
FrameSent ==
  /\ on /\ buf = "queued"
  /\ buf' = "done"
  /\ UNCHANGED <<ev, usb, ask, negotiated, media, i_streaming, on, epc, dpc,
                 quit, closed>>

Signal ==
  /\ ~quit
  /\ quit' = TRUE
  /\ UNCHANGED <<ev, usb, ask, negotiated, media, device, epc, dpc, closed>>

----------------------------------------------------------------------------
(* The event thread: one event per turn, the quit flag before each. *)

EGoto(pc) == epc' = pc /\ UNCHANGED <<dpc, quit, closed>>
Take == ev # << >> /\ ev' = Tail(ev)

CheckQuit ==
  /\ epc = "check"
  /\ EGoto(IF quit THEN "join" ELSE "select")
  /\ UNCHANGED <<ev, usb, ask, negotiated, media, device>>

SelectTimeout ==
  /\ epc = "select" /\ ev = << >>
  /\ EGoto("check")
  /\ UNCHANGED <<ev, usb, ask, negotiated, media, device>>

(* Connected: probe and commit go to the first frame of the first format,   *)
(* what is set and runs stays as it is.  Nothing happens on a disconnect.   *)
HandleConnection ==
  /\ epc = "select" /\ Take
  /\ Head(ev).type \in {"connect", "disconnect"}
  /\ IF Head(ev).type = "connect"
     THEN /\ probe' = [fmt |-> 1, frm |-> 1]
          /\ commit' = [fmt |-> 1, frm |-> 1]
     ELSE UNCHANGED <<probe, commit>>
  /\ EGoto("check")
  /\ UNCHANGED <<usb, ask, target, fcc, media, device>>

TargetOf(to) ==
  CASE to = "probe" -> [control |-> PROBE_CONTROL, unit |-> 0, intf |-> 1]
    [] to = "commit" -> [control |-> COMMIT_CONTROL, unit |-> 0, intf |-> 1]
    [] to = "unit" -> [control |-> COMMIT_CONTROL, unit |-> 1, intf |-> 0]
    [] to = "power" -> [control |-> POWER_MODE_CONTROL, unit |-> 0, intf |-> 0]

HandleSetup ==
  /\ epc = "select" /\ Take
  /\ Head(ev).type = "setup"
  /\ target' = TargetOf(Head(ev).to)
  /\ usb' = IF usb.xfer = "asked" THEN [usb EXCEPT !.xfer = "data"] ELSE usb
  /\ EGoto("check")
  /\ UNCHANGED <<ask, probe, commit, fcc, media, device>>

(* Which of probe and commit the data of a request is for: that of the      *)
(* power mode, which has unit 0, is taken for a probe.                      *)
ForUnit_never == FALSE
ForUnit == target.unit # 0 /\ target.intf = 0

HandleData ==
  /\ epc = "select" /\ Take
  /\ Head(ev).type = "data"
  /\ EGoto("check")
  /\ IF ForUnit
     THEN UNCHANGED <<probe, commit, fcc>>
     ELSE LET set == Clamped(Head(ev).pick)
          IN  IF target.control = PROBE_CONTROL
              THEN probe' = set /\ UNCHANGED <<commit, fcc>>
              ELSE commit' = set /\ fcc' = set.fmt /\ UNCHANGED probe
  /\ UNCHANGED <<usb, ask, target, media, device>>

(* ot_uvc_video_enable starts with ot_uvc_video_disable. *)
HandleStream ==
  /\ epc = "select" /\ Take
  /\ Head(ev).type \in {"stream on", "stream off"}
  /\ IF Head(ev).type = "stream on"
     THEN want' = Head(ev).pick.fmt /\ EGoto("on: off")
     ELSE UNCHANGED want /\ EGoto("off")
  /\ UNCHANGED <<usb, ask, negotiated, prop, route, started, sys, stuck,
                 streaming, device>>

(* STREAM_OFF: the driver gives the buffer back.  When it is refused the    *)
(* stop goes on just the same.                                              *)
StreamOff ==
  /\ epc \in {"on: off", "off"}
  /\ \/ on' = FALSE /\ buf' = "user"
     \/ "stream off" \in MayFail /\ UNCHANGED <<on, buf>>
  /\ EGoto(IF epc = "off" THEN "shut" ELSE "on: shut")
  /\ UNCHANGED <<ev, usb, ask, negotiated, media, i_streaming>>

Shutdown ==
  /\ epc \in {"on: shut", "shut"}
  /\ Stopped
  /\ streaming' = 0
  /\ i_streaming' = 0
  /\ EGoto(IF epc = "shut" THEN "check" ELSE "start")
  /\ UNCHANGED <<ev, usb, ask, negotiated, want, prop, sys, on, buf>>

(* The rest of ot_uvc_video_enable up to the driver calls: the property is  *)
(* set, a second shutdown finds nothing to stop, and the start counts as    *)
(* one even if it fails; then the media system is left for good.  A channel *)
(* that was not destroyed cannot be created again.                          *)
Configured_late == prop
Configured == fcc
StartCounts(ok) == TRUE

Startup ==
  /\ epc = "start"
  /\ prop' = Configured
  /\ \/ /\ sys /\ route = {}
        /\ route' = Created(prop')
        /\ started' = StartCounts(TRUE)
        /\ streaming' = 1
        /\ UNCHANGED <<sys, stuck>>
     \/ \E s \in IF sys THEN ToSet(Steps(prop')) \cap (MayFail \cup route)
                  ELSE {"vi"}, kept \in Kept :
          /\ Before(prop', s) \cap route = {}
          /\ route' = (route \cup Before(prop', s)) \ (Released(s) \ kept)
          /\ stuck' = stuck \cup (Before(prop', s) \cap Released(s) \cap kept)
          /\ started' = StartCounts(FALSE)
          /\ sys' = FALSE
          /\ UNCHANGED streaming
  /\ EGoto("queue")
  /\ UNCHANGED <<ev, usb, ask, negotiated, want, device>>

(* ot_uvc_video_stream_user_ptr: whether the route started does not matter; *)
(* a buffer that is queued already ends it.                                 *)
QueueBuf ==
  /\ epc = "queue"
  /\ buf' = IF buf = "user" THEN "queued" ELSE buf
  /\ EGoto(IF buf = "user" THEN "stream" ELSE "check")
  /\ UNCHANGED <<ev, usb, ask, negotiated, media, i_streaming, on>>

(* ... and so does a STREAM_ON that is refused; the buffer stays queued.    *)
StreamOn ==
  /\ epc = "stream"
  /\ \/ on' = TRUE /\ i_streaming' = 1
     \/ "stream on" \in MayFail /\ UNCHANGED <<on, i_streaming>>
  /\ EGoto("check")
  /\ UNCHANGED <<ev, usb, ask, negotiated, media, buf>>

(* main closes the camera after both threads have ended: stream off, the    *)
(* shutdowns, the media system.  Closing the device ends what a refused     *)
(* STREAM_OFF left.                                                         *)
Joined == epc = "join" /\ dpc = "ended"

CloseCamera ==
  /\ Joined
  /\ on' = FALSE /\ buf' = "user"
  /\ Stopped
  /\ streaming' = 0
  /\ i_streaming' = 0
  /\ sys' = FALSE
  /\ closed' = TRUE
  /\ epc' = "done"
  /\ UNCHANGED <<ev, usb, ask, negotiated, want, prop, dpc, quit>>

----------------------------------------------------------------------------
(* The data thread. *)

DGoto(pc) == dpc' = pc /\ UNCHANGED <<epc, quit, closed>>

(* select() reports the device also when the driver does not stream, but    *)
(* not while the buffer is away.                                            *)
SeesQuit_streaming == quit /\ i_streaming = 0
SeesQuit == quit

DCheck ==
  /\ dpc = "check"
  /\ DGoto(IF SeesQuit THEN "ended"
           ELSE IF i_streaming = 1 /\ (on => buf = "done") THEN "dequeue"
           ELSE "check")
  /\ UNCHANGED <<ev, usb, ask, negotiated, media, device>>

Dequeue ==
  /\ dpc = "dequeue"
  /\ IF on /\ buf = "done"
     THEN buf' = "user" /\ DGoto("requeue")
     ELSE UNCHANGED buf /\ DGoto("check")
  /\ UNCHANGED <<ev, usb, ask, negotiated, media, i_streaming, on>>

Requeued_lost == buf
Requeued == IF buf = "user" THEN "queued" ELSE buf

Requeue ==
  /\ dpc = "requeue"
  /\ buf' = Requeued
  /\ DGoto("check")
  /\ UNCHANGED <<ev, usb, ask, negotiated, media, i_streaming, on>>

----------------------------------------------------------------------------

EventThread ==
  \/ CheckQuit \/ SelectTimeout
  \/ HandleConnection \/ HandleSetup \/ HandleData \/ HandleStream
  \/ StreamOff \/ Shutdown \/ Startup \/ QueueBuf \/ StreamOn
  \/ CloseCamera

DataThread == DCheck \/ Dequeue \/ Requeue

UsbHost ==
  \/ Plug \/ Unplug \/ StreamOnRequest \/ StreamOffRequest
  \/ \E to \in {"probe", "commit", "unit", "power"} : SetCur(to)
  \/ \E pick \in Picks \cup {NoPick} : SendData(pick)

Next == EventThread \/ DataThread \/ UsbHost \/ FrameSent \/ Signal

Spec == Init /\ [][Next]_vars

(* Both threads loop on a select with a time-out; nothing forces the host.  *)
FairSpec == Spec /\ WF_vars(EventThread) /\ WF_vars(DataThread)

----------------------------------------------------------------------------
(* Properties. *)

(* Once a host was there, probe and commit name a frame of the table, with  *)
(* whatever indices the host asks: the handlers index ot_fmt and its frames *)
(* with them (ot_uvc_handle_streaming_request).                             *)
IndexInRange ==
  (probe # NoPick \/ commit # NoPick) => InTable(probe) /\ InTable(commit)

TypeOK ==
  /\ ev \in Seq([type : {"connect", "disconnect", "setup", "data",
                         "stream on", "stream off"},
                 to : {"none", "probe", "commit", "unit", "power"},
                 pick : [fmt : Nat, frm : Nat]])
  /\ Len(ev) <= EvCap
  /\ usb \in [plugged : BOOLEAN, agreed : Formats \cup {0},
              xfer : {"none", "asked", "data"}]
  /\ ask \in {"none", "probe", "commit", "unit", "power"}
  /\ {probe, commit} \subseteq [fmt : Nat, frm : Nat]
  /\ target \in [control : 0 .. 2, unit : 0 .. 1, intf : 0 .. 1]
  /\ {fcc, want} \subseteq Formats \cup {0} /\ prop \in Formats \cup {0}
  /\ route \subseteq UNION {Created(f) : f \in Formats} /\ stuck \subseteq {"uvc"}
  /\ {started, sys, on, quit, closed} \subseteq BOOLEAN
  /\ {streaming, i_streaming} \subseteq {0, 1}
  /\ buf \in {"user", "queued", "done"}
  /\ epc \in {"check", "select", "on: off", "on: shut", "start", "queue",
              "stream", "off", "shut", "join", "done"}
  /\ dpc \in {"check", "dequeue", "requeue", "ended"}
  /\ IndexInRange

(* The stream runs in the format the host agreed on when it last asked for  *)
(* it, through all the steps in between: no transfer to a unit, no request  *)
(* of an earlier host and no shutdown on the way changes it.                *)
RunsAgreed ==
  streaming = 1 /\ epc \notin {"on: off", "on: shut"} => prop = want

(* What was set up for one format is taken down for the same: with nothing  *)
(* started nothing of the media route is left but a UVC channel whose stop  *)
(* was refused, and a started one is whole.  A start that failed has given  *)
(* back all but that and one channel that was created and would not start;  *)
(* the next shutdown takes that one.                                        *)
NothingLeft ==
  /\ ~started => route = stuck
  /\ streaming = 1 => route = Created(prop) /\ sys
  /\ started /\ streaming = 0 =>
       route \subseteq stuck \cup {"uvc"} \/ route \subseteq stuck \cup {"venc"}

(* While the program believes it streams, the one buffer goes round: it is  *)
(* with the driver or the data thread has it, in every interleaving of the  *)
(* data thread with a restart of the stream.                                *)
BufferGoesRound ==
  i_streaming = 1 /\ epc \notin {"shut", "on: shut"} =>
    on /\ (buf # "user" \/ dpc = "requeue")

(* SIGINT always ends in a closed camera with nothing running but a channel *)
(* that the driver did not stop.                                            *)
QuitCloses == quit ~> closed /\ dpc = "ended" /\ route = stuck
=============================================================================
