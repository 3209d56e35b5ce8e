---------------------------- MODULE UvcApp_proofs ----------------------------
(***************************************************************************)
(* Proofs about the USB camera of uvc_app, for any table of formats, any   *)
(* requests of the host, any steps that fail and any queue of events.      *)
(***************************************************************************)
EXTENDS UvcApp, TLAPS

(* The steps of the route, one by one.                                      *)
RawSteps == <<"vi", "vpss", "vi>vpss", "uvc", "uvc start", "vpss>uvc">>
EncodedSteps == <<"vi", "vpss", "vi>vpss", "uvc", "uvc start",
                  "venc", "venc start", "vpss>venc", "venc>uvc">>

LEMMA StepsAre ==
  /\ \A f : Steps(f) = IF NeedVenc(f) THEN EncodedSteps ELSE RawSteps
  /\ DOMAIN RawSteps = 1 .. 6 /\ DOMAIN EncodedSteps = 1 .. 9
BY DEF Steps, RawSteps, EncodedSteps

LEMMA InSteps ==
  /\ \A s : s \in ToSet(RawSteps) <=> \E n \in 1 .. 6 : s = RawSteps[n]
  /\ \A s : s \in ToSet(EncodedSteps) <=> \E n \in 1 .. 9 : s = EncodedSteps[n]
BY StepsAre DEF ToSet

LEMMA StepByStep ==
  /\ RawSteps[1] = "vi" /\ RawSteps[2] = "vpss" /\ RawSteps[3] = "vi>vpss"
  /\ RawSteps[4] = "uvc" /\ RawSteps[5] = "uvc start" /\ RawSteps[6] = "vpss>uvc"
  /\ EncodedSteps[1] = "vi" /\ EncodedSteps[2] = "vpss" /\ EncodedSteps[3] = "vi>vpss"
  /\ EncodedSteps[4] = "uvc" /\ EncodedSteps[5] = "uvc start" /\ EncodedSteps[6] = "venc"
  /\ EncodedSteps[7] = "venc start" /\ EncodedSteps[8] = "vpss>venc"
  /\ EncodedSteps[9] = "venc>uvc"
BY DEF RawSteps, EncodedSteps

LEMMA UpTo9 ==
  /\ \A n \in 1 .. 9 : n = 1 \/ n = 2 \/ n = 3 \/ n = 4 \/ n = 5 \/ n = 6 \/ n = 7 \/ n = 8 \/ n = 9
  /\ \A n \in 1 .. 6 : n = 1 \/ n = 2 \/ n = 3 \/ n = 4 \/ n = 5 \/ n = 6
  /\ {1, 2, 3, 4, 5, 6} \subseteq 1 .. 6
  /\ {1, 2, 3, 4, 5, 6, 7, 8, 9} \subseteq 1 .. 9
OBVIOUS

LEMMA CreatedIs ==
  ASSUME NEW f
  PROVE  Created(f) = IF NeedVenc(f)
                        THEN {"vi", "vpss", "vi>vpss", "uvc", "venc", "vpss>venc", "venc>uvc"}
                        ELSE {"vi", "vpss", "vi>vpss", "uvc", "vpss>uvc"}
<1>2. \A s : s \in ToSet(RawSteps) <=> s \in {"vi", "vpss", "vi>vpss", "uvc", "uvc start", "vpss>uvc"}
  <2> SUFFICES ASSUME NEW s
               PROVE  (\E n \in 1 .. 6 : s = RawSteps[n]) <=>
                      s \in {"vi", "vpss", "vi>vpss", "uvc", "uvc start", "vpss>uvc"}
    BY InSteps
  <2> QED BY UpTo9, StepByStep, Zenon
<1>3. \A s : s \in ToSet(EncodedSteps) <=>
             s \in {"vi", "vpss", "vi>vpss", "uvc", "uvc start",
                    "venc", "venc start", "vpss>venc", "venc>uvc"}
  <2> SUFFICES ASSUME NEW s
               PROVE  (\E n \in 1 .. 9 : s = EncodedSteps[n]) <=>
                      s \in {"vi", "vpss", "vi>vpss", "uvc", "uvc start",
                             "venc", "venc start", "vpss>venc", "venc>uvc"}
    BY InSteps
  <2> QED BY UpTo9, StepByStep, Zenon
<1> QED BY <1>2, <1>3, StepsAre DEF Created

LEMMA ReleasedIs ==
  /\ Released("vi") = {}
  /\ Released("vpss") = {"vi"}
  /\ Released("vi>vpss") = {"vi", "vpss"}
  /\ Released("uvc") = {"vi", "vpss", "vi>vpss"}
  /\ Released("uvc start") = {"vi", "vpss", "vi>vpss"}
  /\ Released("venc") = {"vi", "vpss", "vi>vpss", "uvc"}
  /\ Released("venc start") = {"vi", "vpss", "vi>vpss", "uvc"}
  /\ Released("vpss>uvc") = {"vi", "vpss", "vi>vpss", "uvc"}
  /\ Released("vpss>venc") = {"vi", "vpss", "vi>vpss", "uvc", "venc"}
  /\ Released("venc>uvc") = {"vi", "vpss", "vi>vpss", "uvc", "venc", "vpss>venc"}
BY DEF Released

(* What a failed step leaves is a channel that would not start, if any.     *)
LEMMA Leftover ==
  ASSUME NEW f, NEW s \in ToSet(Steps(f))
  PROVE  LET r == Before(f, s) \ Released(s)
         IN  r \subseteq Created(f) /\ (r \subseteq {"uvc"} \/ r \subseteq {"venc"})
<1>1. CASE NeedVenc(f)
  <2>1. Steps(f) = EncodedSteps
    BY <1>1, StepsAre
  <2>3. PICK n \in 1 .. 9 : s = EncodedSteps[n]
    BY <2>1, InSteps
  <2>4. \A i \in 1 .. 9 : (\A j \in 1 .. i : EncodedSteps[j] # s) => i < n
    BY <2>3
  <2>5. ASSUME NEW x \in Before(f, s), x \notin Released(s)
        PROVE  (n = 5 /\ x = "uvc") \/ (n = 7 /\ x = "venc")
    <3>1. PICK i \in 1 .. 9 : (\A j \in 1 .. i : EncodedSteps[j] # s) /\ x = EncodedSteps[i]
      BY <2>1, <2>5, StepsAre DEF Before
    <3>2. i < n
      BY <2>4, <3>1
    <3>3. x \notin {"uvc start", "venc start"}
      BY <2>5 DEF Before
    <3>11. CASE n = 1
      BY <3>2, <3>11
    <3>12. CASE n = 2
      <4>1. i = 1
        BY <3>2, <3>12, UpTo9
      <4>2. x = "vi"
        BY <3>1, <3>3, <4>1, StepByStep, Zenon
      <4>3. s = "vpss"
        BY <2>3, <3>12, StepByStep, Zenon
      <4> QED BY <2>5, <3>12, <4>2, <4>3, ReleasedIs, Zenon
    <3>13. CASE n = 3
      <4>1. i = 1 \/ i = 2
        BY <3>2, <3>13, UpTo9
      <4>2. x = "vi" \/ x = "vpss"
        BY <3>1, <3>3, <4>1, StepByStep, Zenon
      <4>3. s = "vi>vpss"
        BY <2>3, <3>13, StepByStep, Zenon
      <4> QED BY <2>5, <3>13, <4>2, <4>3, ReleasedIs, Zenon
    <3>14. CASE n = 4
      <4>1. i = 1 \/ i = 2 \/ i = 3
        BY <3>2, <3>14, UpTo9
      <4>2. x = "vi" \/ x = "vpss" \/ x = "vi>vpss"
        BY <3>1, <3>3, <4>1, StepByStep, Zenon
      <4>3. s = "uvc"
        BY <2>3, <3>14, StepByStep, Zenon
      <4> QED BY <2>5, <3>14, <4>2, <4>3, ReleasedIs, Zenon
    <3>15. CASE n = 5
      <4>1. i = 1 \/ i = 2 \/ i = 3 \/ i = 4
        BY <3>2, <3>15, UpTo9
      <4>2. x = "vi" \/ x = "vpss" \/ x = "vi>vpss" \/ x = "uvc"
        BY <3>1, <3>3, <4>1, StepByStep, Zenon
      <4>3. s = "uvc start"
        BY <2>3, <3>15, StepByStep, Zenon
      <4> QED BY <2>5, <3>15, <4>2, <4>3, ReleasedIs, Zenon
    <3>16. CASE n = 6
      <4>1. i = 1 \/ i = 2 \/ i = 3 \/ i = 4 \/ i = 5
        BY <3>2, <3>16, UpTo9
      <4>2. x = "vi" \/ x = "vpss" \/ x = "vi>vpss" \/ x = "uvc"
        BY <3>1, <3>3, <4>1, StepByStep, Zenon
      <4>3. s = "venc"
        BY <2>3, <3>16, StepByStep, Zenon
      <4> QED BY <2>5, <3>16, <4>2, <4>3, ReleasedIs, Zenon
    <3>17. CASE n = 7
      <4>1. i = 1 \/ i = 2 \/ i = 3 \/ i = 4 \/ i = 5 \/ i = 6
        BY <3>2, <3>17, UpTo9
      <4>2. x = "vi" \/ x = "vpss" \/ x = "vi>vpss" \/ x = "uvc" \/ x = "venc"
        BY <3>1, <3>3, <4>1, StepByStep, Zenon
      <4>3. s = "venc start"
        BY <2>3, <3>17, StepByStep, Zenon
      <4> QED BY <2>5, <3>17, <4>2, <4>3, ReleasedIs, Zenon
    <3>18. CASE n = 8
      <4>1. i = 1 \/ i = 2 \/ i = 3 \/ i = 4 \/ i = 5 \/ i = 6 \/ i = 7
        BY <3>2, <3>18, UpTo9
      <4>2. x = "vi" \/ x = "vpss" \/ x = "vi>vpss" \/ x = "uvc" \/ x = "venc"
        BY <3>1, <3>3, <4>1, StepByStep, Zenon
      <4>3. s = "vpss>venc"
        BY <2>3, <3>18, StepByStep, Zenon
      <4> QED BY <2>5, <3>18, <4>2, <4>3, ReleasedIs, Zenon
    <3>19. CASE n = 9
      <4>1. i = 1 \/ i = 2 \/ i = 3 \/ i = 4 \/ i = 5 \/ i = 6 \/ i = 7 \/ i = 8
        BY <3>2, <3>19, UpTo9
      <4>2. x = "vi" \/ x = "vpss" \/ x = "vi>vpss" \/ x = "uvc" \/ x = "venc" \/ x = "vpss>venc"
        BY <3>1, <3>3, <4>1, StepByStep, Zenon
      <4>3. s = "venc>uvc"
        BY <2>3, <3>19, StepByStep, Zenon
      <4> QED BY <2>5, <3>19, <4>2, <4>3, ReleasedIs, Zenon
    <3> QED BY <3>11, <3>12, <3>13, <3>14, <3>15, <3>16, <3>17, <3>18, <3>19, UpTo9
  <2> QED BY <1>1, <2>5, CreatedIs
<1>2. CASE ~NeedVenc(f)
  <2>1. Steps(f) = RawSteps
    BY <1>2, StepsAre
  <2>3. PICK n \in 1 .. 6 : s = RawSteps[n]
    BY <2>1, InSteps
  <2>4. \A i \in 1 .. 6 : (\A j \in 1 .. i : RawSteps[j] # s) => i < n
    BY <2>3
  <2>5. ASSUME NEW x \in Before(f, s), x \notin Released(s)
        PROVE  n = 5 /\ x = "uvc"
    <3>1. PICK i \in 1 .. 6 : (\A j \in 1 .. i : RawSteps[j] # s) /\ x = RawSteps[i]
      BY <2>1, <2>5, StepsAre DEF Before
    <3>2. i < n
      BY <2>4, <3>1
    <3>3. x \notin {"uvc start", "venc start"}
      BY <2>5 DEF Before
    <3>11. CASE n = 1
      BY <3>2, <3>11
    <3>12. CASE n = 2
      <4>1. i = 1
        BY <3>2, <3>12, UpTo9
      <4>2. x = "vi"
        BY <3>1, <3>3, <4>1, StepByStep, Zenon
      <4>3. s = "vpss"
        BY <2>3, <3>12, StepByStep, Zenon
      <4> QED BY <2>5, <3>12, <4>2, <4>3, ReleasedIs, Zenon
    <3>13. CASE n = 3
      <4>1. i = 1 \/ i = 2
        BY <3>2, <3>13, UpTo9
      <4>2. x = "vi" \/ x = "vpss"
        BY <3>1, <3>3, <4>1, StepByStep, Zenon
      <4>3. s = "vi>vpss"
        BY <2>3, <3>13, StepByStep, Zenon
      <4> QED BY <2>5, <3>13, <4>2, <4>3, ReleasedIs, Zenon
    <3>14. CASE n = 4
      <4>1. i = 1 \/ i = 2 \/ i = 3
        BY <3>2, <3>14, UpTo9
      <4>2. x = "vi" \/ x = "vpss" \/ x = "vi>vpss"
        BY <3>1, <3>3, <4>1, StepByStep, Zenon
      <4>3. s = "uvc"
        BY <2>3, <3>14, StepByStep, Zenon
      <4> QED BY <2>5, <3>14, <4>2, <4>3, ReleasedIs, Zenon
    <3>15. CASE n = 5
      <4>1. i = 1 \/ i = 2 \/ i = 3 \/ i = 4
        BY <3>2, <3>15, UpTo9
      <4>2. x = "vi" \/ x = "vpss" \/ x = "vi>vpss" \/ x = "uvc"
        BY <3>1, <3>3, <4>1, StepByStep, Zenon
      <4>3. s = "uvc start"
        BY <2>3, <3>15, StepByStep, Zenon
      <4> QED BY <2>5, <3>15, <4>2, <4>3, ReleasedIs, Zenon
    <3>16. CASE n = 6
      <4>1. i = 1 \/ i = 2 \/ i = 3 \/ i = 4 \/ i = 5
        BY <3>2, <3>16, UpTo9
      <4>2. x = "vi" \/ x = "vpss" \/ x = "vi>vpss" \/ x = "uvc"
        BY <3>1, <3>3, <4>1, StepByStep, Zenon
      <4>3. s = "vpss>uvc"
        BY <2>3, <3>16, StepByStep, Zenon
      <4> QED BY <2>5, <3>16, <4>2, <4>3, ReleasedIs, Zenon
    <3> QED BY <3>11, <3>12, <3>13, <3>14, <3>15, <3>16, UpTo9
  <2> QED BY <1>2, <2>5, CreatedIs
<1> QED BY <1>1, <1>2

LEMMA BeforeCreated ==
  ASSUME NEW f, NEW s
  PROVE  Before(f, s) \subseteq Created(f)
BY DEF Before, Created, ToSet

LEMMA UvcCreated ==
  ASSUME NEW f
  PROVE  "uvc" \in Created(f)
BY CreatedIs

LEMMA KeptIs == \A kept \in Kept : kept \subseteq {"uvc"}
BY DEF Kept

LEMMA FirstStep ==
  ASSUME NEW f
  PROVE  "vi" \in ToSet(Steps(f))
BY StepsAre, InSteps, StepByStep, UpTo9

----------------------------------------------------------------------------
(* What the route and the buffer rest on. *)

(* A route goes with the format in force, and a start begins with nothing   *)
(* but a channel that was not stopped.                                      *)
RouteInv ==
  /\ NothingLeft
  /\ route \subseteq Created(prop)
  /\ stuck \subseteq {"uvc"}
  /\ streaming \in {0, 1}
  /\ streaming = 1 => started
  /\ epc = "start" => ~started /\ streaming = 0

(* Before STREAM_ON the buffer is on its way round already.                 *)
BufferInv ==
  /\ BufferGoesRound
  /\ epc = "stream" => buf # "user" \/ dpc = "requeue"
  /\ epc \in {"start", "queue", "stream"} => i_streaming = 0

LEMMA RouteInit == Init => RouteInv /\ BufferInv
BY DEF Init, RouteInv, NothingLeft, BufferInv, BufferGoesRound

(* The host changes nothing of the program.                                 *)
LEMMA HostElsewhere ==
  ASSUME UsbHost
  PROVE  UNCHANGED Driver
<1>1. CASE Plug \/ Unplug \/ StreamOnRequest \/ StreamOffRequest
  BY <1>1, Zenon DEF Plug, Unplug, StreamOnRequest, StreamOffRequest, Driver
<1>2. ASSUME NEW to, SetCur(to)
      PROVE  UNCHANGED Driver
  BY <1>2, Zenon DEF SetCur
<1>3. ASSUME NEW pick, SendData(pick)
      PROVE  UNCHANGED Driver
  BY <1>3, Zenon DEF SendData
<1> QED BY <1>1, <1>2, <1>3, Zenon DEF UsbHost

(* A stop leaves of the route what the driver keeps.                        *)
LEMMA StopStep ==
  ASSUME RouteInv, Stopped, prop' = prop, streaming' = 0
  PROVE  RouteInv' /\ route' \subseteq route
<1>1. PICK kept \in Kept :
        /\ route' = IF started THEN route \ (Created(prop) \ kept) ELSE route
        /\ stuck' = IF started THEN route \cap kept ELSE stuck
  BY DEF Stopped
<1>2. started' = FALSE
  BY DEF Stopped
<1>3. route \subseteq Created(prop) /\ stuck \subseteq {"uvc"}
  BY DEF RouteInv
<1>4. route' = stuck' /\ route' \subseteq route /\ stuck' \subseteq {"uvc"}
  <2>1. CASE started
    BY <1>1, <1>3, <2>1, KeptIs
  <2>2. CASE ~started
    BY <1>1, <1>3, <2>2 DEF RouteInv, NothingLeft
  <2> QED BY <2>1, <2>2
<1>5. route' \subseteq Created(prop')
  BY <1>3, <1>4
<1> QED BY <1>2, <1>4, <1>5 DEF RouteInv, NothingLeft

(* What leaves the media route, the device and the places of both threads   *)
(* outside a stream request keeps both.                                     *)
LEMMA Aside ==
  ASSUME RouteInv, BufferInv, UNCHANGED <<media, device, dpc>>,
         epc' = epc \/ (epc' \in {"check", "select", "join", "on: off", "off"}
                         /\ epc \notin {"shut", "on: shut"})
  PROVE  RouteInv' /\ BufferInv'
BY DEF RouteInv, NothingLeft, BufferInv, BufferGoesRound, media, device

LEMMA RouteStep ==
  ASSUME RouteInv, BufferInv, Next
  PROVE  RouteInv' /\ BufferInv'
<1>1. CASE UsbHost
  BY <1>1, HostElsewhere, Aside DEF Driver
<1>2. CASE FrameSent
  BY <1>2 DEF FrameSent, RouteInv, NothingLeft, BufferInv, BufferGoesRound, media
<1>3. CASE Signal
  BY <1>3, Aside DEF Signal
<1>4. CASE CheckQuit
  BY <1>4, Aside DEF CheckQuit, EGoto
<1>5. CASE SelectTimeout
  BY <1>5, Aside DEF SelectTimeout, EGoto
<1>6. CASE HandleConnection
  BY <1>6, Aside, Zenon DEF HandleConnection, EGoto
<1>7. CASE HandleSetup
  BY <1>7, Aside, Zenon DEF HandleSetup, EGoto
<1>8. CASE HandleData
  BY <1>8, Aside, Zenon DEF HandleData, EGoto
<1>9. CASE HandleStream
  BY <1>9 DEF HandleStream, EGoto, RouteInv, NothingLeft, BufferInv, BufferGoesRound, device
<1>10. CASE StreamOff
  BY <1>10 DEF StreamOff, EGoto, RouteInv, NothingLeft, BufferInv, BufferGoesRound, media
<1>11. CASE Shutdown
  <2>1. Stopped /\ prop' = prop /\ streaming' = 0
    BY <1>11, Zenon DEF Shutdown
  <2>2. i_streaming' = 0 /\ epc' \in {"check", "start"}
    BY <1>11 DEF Shutdown, EGoto
  <2>3. RouteInv'
    BY <2>1, StopStep
  <2>4. i_streaming' # 1 /\ epc' # "stream"
    BY <2>2
  <2>5. BufferInv'
    BY <2>2, <2>4, Zenon DEF BufferInv, BufferGoesRound
  <2> QED BY <2>3, <2>5
<1>12. CASE Startup
  <2>0. epc = "start" /\ ~started /\ streaming = 0 /\ route = stuck /\ epc' = "queue"
    BY <1>12 DEF Startup, RouteInv, NothingLeft, EGoto
  <2>1. BufferInv'
    BY <1>12, <2>0 DEF Startup, EGoto, BufferInv, BufferGoesRound, device
  <2>2. stuck \subseteq {"uvc"}
    BY DEF RouteInv
  <2>3. RouteInv'
    <3>1. CASE /\ sys /\ sys' = sys /\ stuck' = stuck /\ streaming' = 1 /\ route = {}
               /\ started' = StartCounts(TRUE)
               /\ route' = Created(prop')
      BY <2>0, <2>2, <3>1 DEF StartCounts, RouteInv, NothingLeft
    <3>2. ASSUME NEW s \in ToSet(Steps(prop')), NEW kept \in Kept,
                 route' = (route \cup Before(prop', s)) \ (Released(s) \ kept),
                 stuck' = stuck \cup (Before(prop', s) \cap Released(s) \cap kept),
                 started' = StartCounts(FALSE), streaming' = streaming
          PROVE  RouteInv'
      <4> DEFINE left == Before(prop', s) \ Released(s)
      <4>1. left \subseteq {"uvc"} \/ left \subseteq {"venc"}
        BY Leftover
      <4>2. kept \subseteq {"uvc"}
        BY KeptIs
      <4>3. stuck' \subseteq {"uvc"}
        BY <2>2, <3>2, <4>2
      <4>4. route' \subseteq stuck' \cup left
        BY <2>0, <3>2
      <4>5. route' \subseteq Created(prop')
        BY <2>0, <2>2, <3>2, BeforeCreated, UvcCreated
      <4> HIDE DEF left
      <4>6. route' \subseteq stuck' \cup {"uvc"} \/ route' \subseteq stuck' \cup {"venc"}
        BY <4>1, <4>4
      <4>7. started' = TRUE /\ streaming' = 0
        BY <2>0, <3>2 DEF StartCounts
      <4> QED BY <2>0, <4>3, <4>5, <4>6, <4>7 DEF RouteInv, NothingLeft
    <3> QED BY <1>12, <3>1, <3>2, FirstStep DEF Startup
  <2> QED BY <2>1, <2>3
<1>13. CASE QueueBuf
  BY <1>13 DEF QueueBuf, EGoto, RouteInv, NothingLeft, BufferInv, BufferGoesRound, media
<1>14. CASE StreamOn
  BY <1>14 DEF StreamOn, EGoto, RouteInv, NothingLeft, BufferInv, BufferGoesRound, media
<1>15. CASE CloseCamera
  <2>1. Stopped /\ prop' = prop /\ streaming' = 0 /\ i_streaming' = 0 /\ epc' = "done"
    BY <1>15, Zenon DEF CloseCamera
  <2>2. RouteInv'
    BY <2>1, StopStep
  <2>3. i_streaming' # 1 /\ epc' \notin {"start", "queue", "stream"}
    BY <2>1
  <2>4. BufferInv'
    BY <2>3 DEF BufferInv, BufferGoesRound
  <2> QED BY <2>2, <2>4
<1>16. CASE DCheck
  BY <1>16 DEF DCheck, DGoto, RouteInv, NothingLeft, BufferInv, BufferGoesRound, media, device
<1>17. CASE Dequeue
  BY <1>17 DEF Dequeue, DGoto, RouteInv, NothingLeft, BufferInv, BufferGoesRound, media
<1>18. CASE Requeue
  BY <1>18 DEF Requeue, Requeued, DGoto, RouteInv, NothingLeft, BufferInv, BufferGoesRound, media
<1> QED
  BY <1>1, <1>2, <1>3, <1>4, <1>5, <1>6, <1>7, <1>8, <1>9, <1>10, <1>11, <1>12, <1>13,
     <1>14, <1>15, <1>16, <1>17, <1>18, Zenon DEF Next, EventThread, DataThread

----------------------------------------------------------------------------
(* The queue of events: what a request finds when its turn comes is fixed   *)
(* when it is posted, by the last event before it that sets the value.      *)

Events == [type : {"connect", "disconnect", "setup", "data", "stream on", "stream off"},
           to : {"none", "probe", "commit", "unit", "power"}, pick : [fmt : Nat, frm : Nat]]
Requests == {"probe", "commit", "unit", "power"}

(* A variable of value c is v when the event at place i of s is taken, if   *)
(* events in D set it to what F says.                                       *)
Holds(s, i, D, F, c, v) ==
  \/ (\A k \in 1 .. i - 1 : s[k] \notin D) /\ c = v
  \/ \E k \in 1 .. i - 1 : /\ s[k] \in D /\ F[s[k]] = v
                           /\ \A m \in k + 1 .. i - 1 : s[m] \notin D

LEMMA HoldsPush ==
  ASSUME NEW s \in Seq(Events), NEW e \in Events, NEW D, NEW F, NEW c, NEW v,
         NEW i \in 1 .. Len(s) + 1, Holds(s, i, D, F, c, v)
  PROVE  Holds(Append(s, e), i, D, F, c, v)
<1>1. \A k \in 1 .. Len(s) : Append(s, e)[k] = s[k]
  OBVIOUS
<1>2. CASE (\A k \in 1 .. i - 1 : s[k] \notin D) /\ c = v
  BY <1>1, <1>2 DEF Holds
<1>3. ASSUME NEW k \in 1 .. i - 1, s[k] \in D, F[s[k]] = v,
             \A m \in k + 1 .. i - 1 : s[m] \notin D
      PROVE  Holds(Append(s, e), i, D, F, c, v)
  BY <1>1, <1>3 DEF Holds
<1> QED BY <1>2, <1>3 DEF Holds

LEMMA HoldsAfter ==
  ASSUME NEW s \in Seq(Events), NEW e \in Events, NEW D, NEW F, NEW c, NEW v,
         IF e \in D THEN F[e] = v ELSE Holds(s, Len(s) + 1, D, F, c, v)
  PROVE  Holds(Append(s, e), Len(Append(s, e)) + 1, D, F, c, v)
<1>1. \A k \in 1 .. Len(s) : Append(s, e)[k] = s[k]
  OBVIOUS
<1>2. Append(s, e)[Len(s) + 1] = e /\ Len(Append(s, e)) = Len(s) + 1 /\ Len(s) \in Nat
  OBVIOUS
<1>3. CASE e \in D
  BY <1>2, <1>3 DEF Holds
<1>4. CASE e \notin D
  <2>1. CASE (\A k \in 1 .. Len(s) : s[k] \notin D) /\ c = v
    BY <1>1, <1>2, <1>4, <2>1 DEF Holds
  <2>2. ASSUME NEW k \in 1 .. Len(s), s[k] \in D, F[s[k]] = v,
               \A m \in k + 1 .. Len(s) : s[m] \notin D
        PROVE  Holds(Append(s, e), Len(Append(s, e)) + 1, D, F, c, v)
    BY <1>1, <1>2, <1>4, <2>2 DEF Holds
  <2> QED BY <1>2, <1>4, <2>1, <2>2 DEF Holds
<1> QED BY <1>3, <1>4

LEMMA HoldsPop ==
  ASSUME NEW s \in Seq(Events), s # << >>, NEW D, NEW F, NEW c, NEW d, NEW v,
         NEW i \in 1 .. Len(s), Holds(s, i + 1, D, F, c, v),
         d = IF Head(s) \in D THEN F[Head(s)] ELSE c
  PROVE  Holds(Tail(s), i, D, F, d, v)
<1>1. \A k \in 1 .. Len(s) - 1 : Tail(s)[k] = s[k + 1]
  OBVIOUS
<1>2. Head(s) = s[1] /\ Len(s) \in Nat
  OBVIOUS
<1>3. CASE (\A k \in 1 .. i : s[k] \notin D) /\ c = v
  BY <1>1, <1>2, <1>3 DEF Holds
<1>4. ASSUME NEW k \in 1 .. i, s[k] \in D, F[s[k]] = v,
             \A m \in k + 1 .. i : s[m] \notin D
      PROVE  Holds(Tail(s), i, D, F, d, v)
  <2>1. CASE k = 1
    <3>1. \A m \in 1 .. i - 1 : Tail(s)[m] \notin D
      BY <1>1, <1>4, <2>1
    <3> QED BY <1>2, <1>4, <2>1, <3>1 DEF Holds
  <2>2. CASE k # 1
    <3>1. k - 1 \in 1 .. i - 1 /\ Tail(s)[k - 1] = s[k]
      BY <1>1, <2>2
    <3>2. \A m \in (k - 1) + 1 .. i - 1 : Tail(s)[m] \notin D
      BY <1>1, <1>4
    <3> QED BY <1>4, <3>1, <3>2 DEF Holds
  <2> QED BY <2>1, <2>2
<1> QED BY <1>3, <1>4 DEF Holds

Setups == {e \in Events : e.type = "setup"}
Commits == {e \in Events : e.type = "data" /\ e.to = "commit"}
Connects == {e \in Events : e.type = "connect"}

(* At place i: the request the last set-up was for, the format committed    *)
(* to, and whether a host was there.                                        *)
TargetFrom == [e \in Events |-> TargetOf(e.to)]
FormatFrom == [e \in Events |-> Clamped(e.pick).fmt]
Aimed(i, to) == Holds(ev, i, Setups, TargetFrom, target, TargetOf(to))
Agreed(i, f) == Holds(ev, i, Commits, FormatFrom, fcc, f)
Known(i) == (InTable(probe) /\ InTable(commit)) \/ \E k \in 1 .. i - 1 : ev[k] \in Connects

(* Data follows its set-up and a connection, a stream request its commit.   *)
Founded(i, e) ==
  /\ e.type = "data" => e.to \in Requests /\ Aimed(i, e.to) /\ Known(i)
  /\ e.type = "setup" => e.to \in Requests
  /\ e.type = "stream on" => e.pick.fmt \in Formats /\ Agreed(i, e.pick.fmt)

QueueInv ==
  /\ ev \in Seq(Events) /\ Len(ev) <= EvCap
  /\ \A i \in 1 .. Len(ev) : Founded(i, ev[i])
  /\ usb.agreed # 0 => Agreed(Len(ev) + 1, usb.agreed)
  /\ usb.xfer # "none" => ask \in Requests /\ Aimed(Len(ev) + 1, ask)
  /\ usb.plugged => Known(Len(ev) + 1)

HostInv ==
  /\ usb \in [plugged : BOOLEAN, agreed : Formats \cup {0}, xfer : {"none", "asked", "data"}]
  /\ ask \in {"none", "probe", "commit", "unit", "power"}
  /\ usb.xfer # "none" => usb.plugged

(* What a request finds is what the stream then runs in.                    *)
FormatInv ==
  /\ {probe, commit} \subseteq [fmt : Nat, frm : Nat] /\ IndexInRange
  /\ target \in [control : 0 .. 2, unit : 0 .. 1, intf : 0 .. 1]
  /\ {fcc, want, prop} \subseteq Formats \cup {0}
  /\ prop = 0 => route = {}
  /\ epc \in {"on: off", "on: shut", "start"} => fcc = want /\ want \in Formats
  /\ RunsAgreed

LEMMA ClampedIn ==
  ASSUME NEW p \in [fmt : Nat, frm : Nat]
  PROVE  /\ Clamped(p) \in [fmt : Nat, frm : Nat]
         /\ InTable(Clamped(p))
         /\ Clamped(p).fmt \in Formats
<1>1. /\ Len(NumFrames) \in Nat \ {0} /\ Formats = 1 .. Len(NumFrames)
      /\ \A f \in Formats : NumFrames[f] \in Nat \ {0}
  BY NumFramesAssumption DEF Formats
<1>2. p.fmt \in Nat /\ p.frm \in Nat
  OBVIOUS
<1>3. Clamp(p.fmt, 1, Len(NumFrames)) \in Formats
  BY <1>1, <1>2 DEF Clamp
<1>4. ASSUME NEW f \in Formats
      PROVE  Clamp(p.frm, 1, FrameBound(f)) \in 1 .. NumFrames[f]
  BY <1>1, <1>2 DEF Clamp, FrameBound
<1>5. Clamped(p).fmt = Clamp(p.fmt, 1, Len(NumFrames))
      /\ Clamped(p).frm = Clamp(p.frm, 1, FrameBound(Clamped(p).fmt))
  BY DEF Clamped
<1>6. Clamped(p).fmt \in Formats /\ Clamped(p).frm \in 1 .. NumFrames[Clamped(p).fmt]
  BY <1>3, <1>4, <1>5
<1>7. Clamped(p).fmt \in Nat /\ Clamped(p).frm \in Nat
  BY <1>1, <1>6
<1> QED BY <1>6, <1>7 DEF Clamped, InTable

LEMMA FirstInTable == InTable([fmt |-> 1, frm |-> 1])
BY NumFramesAssumption DEF InTable, Formats

LEMMA NoPickIn == NoPick \in [fmt : Nat, frm : Nat]
BY DEF NoPick

LEMMA EventIs ==
  ASSUME NEW type \in {"connect", "disconnect", "stream off"}
  PROVE  Event(type) \in Events /\ Event(type).type = type
BY NoPickIn DEF Event, Events

(* Posting an event changes nothing for those before it.                    *)
LEMMA PushQueue ==
  ASSUME QueueInv, NEW e \in Events, ev' = Append(ev, e), Len(ev) < EvCap,
         UNCHANGED negotiated, Founded(Len(ev) + 1, e)
  PROVE  /\ ev' \in Seq(Events) /\ Len(ev') <= EvCap
         /\ \A i \in 1 .. Len(ev') : Founded(i, ev[i])'
<1>1. /\ ev \in Seq(Events) /\ Len(ev) \in Nat /\ Len(ev') = Len(ev) + 1
      /\ ev'[Len(ev) + 1] = e
      /\ \A k \in 1 .. Len(ev) : ev'[k] = ev[k]
  <2>1. ev \in Seq(Events)
    BY DEF QueueInv
  <2>2. \A s \in Seq(Events) :
          /\ Len(s) \in Nat /\ Len(Append(s, e)) = Len(s) + 1 /\ Append(s, e)[Len(s) + 1] = e
          /\ \A k \in 1 .. Len(s) : Append(s, e)[k] = s[k]
    OBVIOUS
  <2> QED BY <2>1, <2>2
<1>2. ev' \in Seq(Events) /\ Len(ev') <= EvCap
  <2>1. \A s \in Seq(Events) : Append(s, e) \in Seq(Events)
    OBVIOUS
  <2>2. \A n \in Nat : n < EvCap => n + 1 <= EvCap
    BY EvCapAssumption
  <2> QED BY <1>1, <2>1, <2>2
<1>3. \A i \in 1 .. Len(ev) + 1 :
        /\ \A to : Aimed(i, to) => Aimed(i, to)'
        /\ \A f : Agreed(i, f) => Agreed(i, f)'
  BY <1>1, HoldsPush DEF Aimed, Agreed, negotiated
<1>4. \A i \in 1 .. Len(ev) + 1 : Known(i) => Known(i)'
  <2>1. ASSUME NEW i \in 1 .. Len(ev) + 1, Known(i)
        PROVE  Known(i)'
    <3>1. \A k \in 1 .. i - 1 : ev'[k] = ev[k]
      BY <1>1
    <3> QED BY <2>1, <3>1 DEF Known, negotiated
  <2> QED BY <2>1
<1>5. ASSUME NEW i \in 1 .. Len(ev')
      PROVE  Founded(i, ev[i])'
  <2>1. CASE i = Len(ev) + 1
    <3>1. ev'[i] = e /\ i \in 1 .. Len(ev) + 1
      BY <1>1, <2>1
    <3> QED BY <1>3, <1>4, <2>1, <3>1 DEF Founded
  <2>2. CASE i \in 1 .. Len(ev)
    <3>1. Founded(i, ev[i]) /\ ev'[i] = ev[i] /\ i \in 1 .. Len(ev) + 1
      BY <1>1, <2>2 DEF QueueInv
    <3> QED BY <1>3, <1>4, <3>1 DEF Founded
  <2> QED BY <1>1, <2>1, <2>2
<1> QED BY <1>2, <1>5

(* What holds for the next event to be posted.                              *)
LEMMA PushEnd ==
  ASSUME QueueInv, NEW e \in Events, ev' = Append(ev, e), UNCHANGED negotiated
  PROVE  /\ \A to : (IF e.type = "setup" THEN e.to = to ELSE Aimed(Len(ev) + 1, to)) =>
                Holds(ev', Len(ev') + 1, Setups, TargetFrom, target', TargetOf(to))
         /\ \A f : (IF e \in Commits THEN Clamped(e.pick).fmt = f ELSE Agreed(Len(ev) + 1, f)) =>
                Holds(ev', Len(ev') + 1, Commits, FormatFrom, fcc', f)
         /\ Known(Len(ev) + 1) \/ e.type = "connect" =>
              (InTable(probe') /\ InTable(commit')) \/ \E k \in 1 .. Len(ev') : ev'[k] \in Connects
<1>1. /\ ev \in Seq(Events) /\ Len(ev) \in Nat /\ Len(ev') = Len(ev) + 1
      /\ ev'[Len(ev) + 1] = e
      /\ \A k \in 1 .. Len(ev) : ev'[k] = ev[k]
  BY DEF QueueInv
<1>2. ASSUME NEW to, IF e.type = "setup" THEN e.to = to ELSE Aimed(Len(ev) + 1, to)
      PROVE  Holds(ev', Len(ev') + 1, Setups, TargetFrom, target', TargetOf(to))
  <2>1. e \in Setups <=> e.type = "setup"
    BY DEF Setups
  <2>2. TargetFrom[e] = TargetOf(e.to)
    BY DEF TargetFrom
  <2> QED BY <1>1, <1>2, <2>1, <2>2, HoldsAfter DEF Aimed, negotiated
<1>3. ASSUME NEW f, IF e \in Commits THEN Clamped(e.pick).fmt = f ELSE Agreed(Len(ev) + 1, f)
      PROVE  Holds(ev', Len(ev') + 1, Commits, FormatFrom, fcc', f)
  <2>1. FormatFrom[e] = Clamped(e.pick).fmt
    BY DEF FormatFrom
  <2> QED BY <1>1, <1>3, <2>1, HoldsAfter DEF Agreed, negotiated
<1>4. Known(Len(ev) + 1) \/ e.type = "connect" =>
        (InTable(probe') /\ InTable(commit')) \/ \E k \in 1 .. Len(ev') : ev'[k] \in Connects
  BY <1>1 DEF Known, negotiated, Connects
<1> QED BY <1>2, <1>3, <1>4

(* Taking the first event: what it sets is what those after it waited for.  *)
LEMMA PopQueue ==
  ASSUME QueueInv, ev # << >>, ev' = Tail(ev),
         target' = IF Head(ev) \in Setups THEN TargetFrom[Head(ev)] ELSE target,
         fcc' = IF Head(ev) \in Commits THEN FormatFrom[Head(ev)] ELSE fcc,
         (InTable(probe) /\ InTable(commit)) \/ Head(ev) \in Connects
            => InTable(probe') /\ InTable(commit'),
         ask' = ask, usb'.agreed = usb.agreed, usb'.plugged = usb.plugged,
         usb'.xfer # "none" => usb.xfer # "none"
  PROVE  QueueInv'
<1>1. /\ ev \in Seq(Events) /\ Len(ev) \in Nat \ {0} /\ Len(ev') = Len(ev) - 1
      /\ Head(ev) = ev[1]
      /\ \A k \in 1 .. Len(ev) - 1 : ev'[k] = ev[k + 1]
      /\ ev' \in Seq(Events)
  BY DEF QueueInv
<1>2. \A i \in 1 .. Len(ev) :
        /\ \A to : Aimed(i + 1, to) => Holds(ev', i, Setups, TargetFrom, target', TargetOf(to))
        /\ \A f : Agreed(i + 1, f) => Holds(ev', i, Commits, FormatFrom, fcc', f)
  BY <1>1, HoldsPop DEF Aimed, Agreed
<1>3. ASSUME NEW i \in 1 .. Len(ev), Known(i + 1)
      PROVE  (InTable(probe') /\ InTable(commit')) \/ \E k \in 1 .. i - 1 : ev'[k] \in Connects
  <2>1. CASE InTable(probe) /\ InTable(commit)
    BY <2>1
  <2>2. ASSUME NEW k \in 1 .. i, ev[k] \in Connects
        PROVE  (InTable(probe') /\ InTable(commit')) \/ \E m \in 1 .. i - 1 : ev'[m] \in Connects
    <3>1. CASE k = 1
      BY <1>1, <2>2, <3>1
    <3>2. CASE k # 1
      <4>1. k - 1 \in 1 .. i - 1 /\ ev'[k - 1] = ev[k]
        BY <1>1, <3>2
      <4> QED BY <2>2, <4>1
    <3> QED BY <3>1, <3>2
  <2> QED BY <1>3, <2>1, <2>2 DEF Known
<1>4. ASSUME NEW i \in 1 .. Len(ev')
      PROVE  Founded(i, ev[i])'
  <2>1. Founded(i + 1, ev[i + 1]) /\ ev'[i] = ev[i + 1] /\ i \in 1 .. Len(ev)
    BY <1>1 DEF QueueInv
  <2> QED BY <1>2, <1>3, <2>1 DEF Founded, Aimed, Agreed, Known
<1>5. Len(ev) \in 1 .. Len(ev) /\ Len(ev') + 1 = Len(ev)
  BY <1>1
<1>6. usb'.agreed # 0 => Holds(ev', Len(ev') + 1, Commits, FormatFrom, fcc', usb'.agreed)
  BY <1>2, <1>5 DEF QueueInv
<1>7. usb'.xfer # "none" => ask' \in Requests
        /\ Holds(ev', Len(ev') + 1, Setups, TargetFrom, target', TargetOf(ask'))
  BY <1>2, <1>5 DEF QueueInv
<1>8. usb'.plugged => (InTable(probe') /\ InTable(commit'))
        \/ \E k \in 1 .. Len(ev') : ev'[k] \in Connects
  BY <1>3, <1>5 DEF QueueInv
<1>9. Len(ev') <= EvCap
  BY <1>1, EvCapAssumption DEF QueueInv
<1>10. (Len(ev') + 1) - 1 = Len(ev')
  BY <1>1
<1> QED BY <1>1, <1>4, <1>6, <1>7, <1>8, <1>9, <1>10 DEF QueueInv, Aimed, Agreed, Known

(* The host knows, after it posted e, no more than e or the queue before it *)
(* says.                                                                    *)
Backed(e) ==
  /\ usb'.agreed # 0 => IF e \in Commits THEN Clamped(e.pick).fmt = usb'.agreed
                                        ELSE Agreed(Len(ev) + 1, usb'.agreed)
  /\ usb'.xfer # "none" => /\ ask' \in Requests
                           /\ IF e.type = "setup" THEN e.to = ask'
                                                  ELSE Aimed(Len(ev) + 1, ask')
  /\ usb'.plugged => Known(Len(ev) + 1) \/ e.type = "connect"

LEMMA Posting ==
  ASSUME QueueInv, NEW e \in Events, Post(e), UNCHANGED negotiated,
         Founded(Len(ev) + 1, e), Backed(e)
  PROVE  QueueInv'
<1>1. ev' = Append(ev, e) /\ Len(ev) < EvCap
  BY DEF Post
<1>2. /\ ev' \in Seq(Events) /\ Len(ev') <= EvCap
      /\ \A i \in 1 .. Len(ev') : Founded(i, ev[i])'
  BY <1>1, PushQueue
<1>3. usb'.agreed # 0 => Holds(ev', Len(ev') + 1, Commits, FormatFrom, fcc', usb'.agreed)
  BY <1>1, PushEnd DEF Backed
<1>4. usb'.xfer # "none" => /\ ask' \in Requests
                           /\ Holds(ev', Len(ev') + 1, Setups, TargetFrom, target', TargetOf(ask'))
  BY <1>1, PushEnd DEF Backed
<1>5. usb'.plugged => (InTable(probe') /\ InTable(commit'))
        \/ \E k \in 1 .. Len(ev') : ev'[k] \in Connects
  BY <1>1, PushEnd DEF Backed
<1>6. (Len(ev') + 1) - 1 = Len(ev')
  BY <1>2
<1> QED BY <1>2, <1>3, <1>4, <1>5, <1>6 DEF QueueInv, Aimed, Agreed, Known

Usb == [plugged : BOOLEAN, agreed : Formats \cup {0}, xfer : {"none", "asked", "data"}]

LEMMA XferOnly ==
  ASSUME NEW u \in Usb, NEW x \in {"none", "asked", "data"}
  PROVE  LET v == [u EXCEPT !.xfer = x]
         IN  v \in Usb /\ v.xfer = x /\ v.agreed = u.agreed /\ v.plugged = u.plugged
BY Zenon DEF Usb

LEMMA XferAgreed ==
  ASSUME NEW u \in Usb, NEW f \in Formats \cup {0}
  PROVE  LET v == [u EXCEPT !.xfer = "none", !.agreed = f]
         IN  v \in Usb /\ v.xfer = "none" /\ v.agreed = f /\ v.plugged = u.plugged
BY Zenon DEF Usb

LEMMA HostStep ==
  ASSUME QueueInv, HostInv, UsbHost
  PROVE  QueueInv' /\ HostInv'
<1>0. UNCHANGED negotiated
  BY HostElsewhere, Zenon DEF Driver
<1>u. usb \in Usb /\ (usb.xfer # "none" => usb.plugged)
  BY DEF HostInv, Usb
<1>f. Formats \subseteq Nat \ {0}
  BY NumFramesAssumption DEF Formats
<1>1. ASSUME Plug
      PROVE  QueueInv' /\ HostInv'
  <2> DEFINE e == Event("connect")
  <2>1. e \in Events /\ e.type = "connect"
    BY EventIs
  <2>2. usb' = [plugged |-> TRUE, agreed |-> 0, xfer |-> "none"] /\ ask' = "none" /\ Post(e)
    BY <1>1, Zenon DEF Plug
  <2> HIDE DEF e
  <2>3. Founded(Len(ev) + 1, e) /\ Backed(e)
    BY <2>1, <2>2 DEF Founded, Backed
  <2> QED BY <1>0, <2>1, <2>2, <2>3, Posting DEF HostInv
<1>2. ASSUME Unplug
      PROVE  QueueInv' /\ HostInv'
  <2> DEFINE e == Event("disconnect")
  <2>1. e \in Events /\ e.type = "disconnect"
    BY EventIs
  <2>2. usb' = [plugged |-> FALSE, agreed |-> 0, xfer |-> "none"] /\ ask' = "none" /\ Post(e)
    BY <1>2, Zenon DEF Unplug
  <2> HIDE DEF e
  <2>3. Founded(Len(ev) + 1, e) /\ Backed(e)
    BY <2>1, <2>2 DEF Founded, Backed
  <2> QED BY <1>0, <2>1, <2>2, <2>3, Posting DEF HostInv
<1>3. ASSUME NEW to \in Requests, SetCur(to)
      PROVE  QueueInv' /\ HostInv'
  <2> DEFINE e == [type |-> "setup", to |-> to, pick |-> NoPick]
  <2>1. e \in Events /\ e.type = "setup" /\ e.to = to
    BY NoPickIn DEF Events, Requests
  <2>2. usb' = [usb EXCEPT !.xfer = "asked"] /\ ask' = to /\ Post(e)
        /\ usb.plugged
    BY <1>3, Zenon DEF SetCur
  <2>3. usb' \in Usb /\ usb'.xfer = "asked" /\ usb'.agreed = usb.agreed /\ usb'.plugged = usb.plugged
    BY <1>u, <2>2, XferOnly, Zenon
  <2>4. ask' \in {"none", "probe", "commit", "unit", "power"} /\ ask' = to
    BY <2>2 DEF Requests
  <2> HIDE DEF e
  <2>5. e \notin Commits
    BY <2>1 DEF Commits
  <2>6. Founded(Len(ev) + 1, e)
    BY <2>1 DEF Founded
  <2>7. Backed(e)
    BY <2>1, <2>2, <2>3, <2>4, <2>5 DEF Backed, QueueInv
  <2>8. QueueInv'
    BY <1>0, <2>1, <2>2, <2>6, <2>7, Posting
  <2>9. usb'.plugged
    BY <2>2, <2>3, Zenon
  <2> QED BY <2>3, <2>4, <2>8, <2>9, Zenon DEF HostInv, Usb
<1>4. ASSUME NEW pick \in [fmt : Nat, frm : Nat], SendData(pick)
      PROVE  QueueInv' /\ HostInv'
  <2> DEFINE e == [type |-> "data", to |-> ask, pick |-> pick]
             f == IF ask = "commit" THEN Clamped(pick).fmt ELSE usb.agreed
  <2>1. ask \in {"none", "probe", "commit", "unit", "power"}
    BY DEF HostInv
  <2>2. e \in Events /\ e.type = "data" /\ e.to = ask /\ e.pick = pick
    BY <2>1 DEF Events
  <2>3. usb' = [usb EXCEPT !.xfer = "none", !.agreed = f] /\ ask' = "none" /\ Post(e)
        /\ usb.xfer = "data"
    BY <1>4, Zenon DEF SendData
  <2>4. f \in Formats \cup {0}
    BY <1>u, <2>1, ClampedIn DEF Usb
  <2>5. e \in Commits <=> ask = "commit"
    BY <2>2 DEF Commits
  <2>6. f = IF e \in Commits THEN Clamped(e.pick).fmt ELSE usb.agreed
    BY <2>2, <2>5, Zenon
  <2> HIDE DEF e, f
  <2>7. usb' \in Usb /\ usb'.xfer = "none" /\ usb'.agreed = f /\ usb'.plugged = usb.plugged
    BY <1>u, <2>3, <2>4, XferAgreed, Zenon
  <2>8. usb.plugged
    BY <1>u, <2>3
  <2>9. Founded(Len(ev) + 1, e)
    BY <2>2, <2>3, <2>8 DEF Founded, QueueInv
  <2>10. Backed(e)
    BY <2>2, <2>6, <2>7, <2>8 DEF Backed, QueueInv
  <2>11. QueueInv'
    BY <1>0, <2>2, <2>3, <2>9, <2>10, Posting
  <2> QED BY <2>3, <2>7, <2>11, Zenon DEF HostInv, Usb
<1>5. ASSUME StreamOnRequest
      PROVE  QueueInv' /\ HostInv'
  <2> DEFINE p == [fmt |-> usb.agreed, frm |-> 0]
             e == [type |-> "stream on", to |-> "none", pick |-> p]
  <2>1. usb.agreed \in Formats /\ UNCHANGED <<usb, ask>> /\ Post(e)
    BY <1>5, <1>u DEF StreamOnRequest, Usb
  <2>4. usb.agreed # 0 /\ usb.agreed \in Nat
    BY <1>f, <2>1
  <2>2. p \in [fmt : Nat, frm : Nat] /\ p.fmt = usb.agreed
    BY <2>4
  <2>3. e \in Events /\ e.type = "stream on" /\ e.pick.fmt = usb.agreed
    BY <2>2 DEF Events
  <2> HIDE DEF e, p
  <2>5. e \notin Commits
    BY <2>3 DEF Commits
  <2>6. Founded(Len(ev) + 1, e)
    BY <2>1, <2>3, <2>4 DEF Founded, QueueInv
  <2>7. Backed(e)
    BY <2>1, <2>3, <2>5 DEF Backed, QueueInv
  <2>8. QueueInv'
    BY <1>0, <2>1, <2>3, <2>6, <2>7, Posting
  <2> QED BY <2>1, <2>8, Zenon DEF HostInv
<1>6. ASSUME StreamOffRequest
      PROVE  QueueInv' /\ HostInv'
  <2> DEFINE e == Event("stream off")
  <2>1. e \in Events /\ e.type = "stream off"
    BY EventIs
  <2>2. UNCHANGED <<usb, ask>> /\ Post(e)
    BY <1>6, Zenon DEF StreamOffRequest
  <2> HIDE DEF e
  <2>3. e \notin Commits
    BY <2>1 DEF Commits
  <2>4. Founded(Len(ev) + 1, e)
    BY <2>1 DEF Founded
  <2>5. Backed(e)
    BY <2>1, <2>2, <2>3 DEF Backed, QueueInv
  <2>6. QueueInv'
    BY <1>0, <2>1, <2>2, <2>4, <2>5, Posting
  <2> QED BY <2>2, <2>6, Zenon DEF HostInv
<1>7. NoPick \in [fmt : Nat, frm : Nat] /\ Picks \subseteq [fmt : Nat, frm : Nat]
  BY NoPickIn, PicksAssumption
<1>8. ASSUME NEW pick \in Picks \cup {NoPick}, SendData(pick)
      PROVE  QueueInv' /\ HostInv'
  BY <1>4, <1>7, <1>8
<1>9. ASSUME NEW to \in {"probe", "commit", "unit", "power"}, SetCur(to)
      PROVE  QueueInv' /\ HostInv'
  BY <1>3, <1>9, Zenon DEF Requests
<1> QED
  BY <1>1, <1>2, <1>5, <1>6, <1>8, <1>9, Zenon DEF UsbHost

LEMMA QueueAside ==
  ASSUME QueueInv, HostInv, UNCHANGED <<ev, usb, ask, negotiated>>
  PROVE  QueueInv' /\ HostInv'
BY DEF QueueInv, HostInv, Founded, Aimed, Agreed, Known, negotiated

(* The handlers of the events and what they leave for the next.             *)
LEMMA ConnectionStep ==
  ASSUME QueueInv, HostInv, FormatInv, HandleConnection
  PROVE  QueueInv' /\ HostInv' /\ FormatInv'
<1>1. /\ ev # << >> /\ ev' = Tail(ev) /\ epc = "select" /\ epc' = "check"
      /\ Head(ev).type \in {"connect", "disconnect"}
      /\ UNCHANGED <<usb, ask, target, fcc, want, prop, route, streaming>>
  BY Zenon DEF HandleConnection, Take, EGoto, media
<1>2. CASE Head(ev).type = "connect"
  <2>1. probe' = [fmt |-> 1, frm |-> 1] /\ commit' = [fmt |-> 1, frm |-> 1]
    BY <1>2, Zenon DEF HandleConnection
  <2>2. InTable(probe') /\ InTable(commit')
    BY <2>1, FirstInTable
  <2>3. {probe', commit'} \subseteq [fmt : Nat, frm : Nat]
    BY <2>1
  <2>4. Head(ev) \notin Setups /\ Head(ev) \notin Commits
    BY <1>2 DEF Setups, Commits
  <2>5. QueueInv'
    BY <1>1, <2>2, <2>4, PopQueue
  <2>6. FormatInv'
    BY <1>1, <2>2, <2>3 DEF FormatInv, IndexInRange, RunsAgreed
  <2> QED BY <1>1, <2>5, <2>6, Zenon DEF HostInv
<1>3. CASE Head(ev).type # "connect"
  <2>1. UNCHANGED <<probe, commit>>
    BY <1>3, Zenon DEF HandleConnection
  <2>2. Head(ev) \notin Setups /\ Head(ev) \notin Commits /\ Head(ev) \notin Connects
    BY <1>1, <1>3 DEF Setups, Commits, Connects
  <2>3. QueueInv'
    BY <1>1, <2>1, <2>2, PopQueue
  <2>4. FormatInv'
    BY <1>1, <2>1 DEF FormatInv, IndexInRange, RunsAgreed
  <2> QED BY <1>1, <2>3, <2>4, Zenon DEF HostInv
<1> QED BY <1>2, <1>3

LEMMA FirstEvent ==
  ASSUME QueueInv, ev # << >>
  PROVE  /\ Head(ev) \in Events /\ Founded(1, Head(ev))
         /\ \A to : Aimed(1, to) => target = TargetOf(to)
         /\ \A f : Agreed(1, f) => fcc = f
         /\ Known(1) => InTable(probe) /\ InTable(commit)
<1>1. ev \in Seq(Events) /\ Len(ev) \in Nat \ {0} /\ 1 \in 1 .. Len(ev) /\ Head(ev) = ev[1]
  BY DEF QueueInv
<1>2. Head(ev) \in Events /\ Founded(1, Head(ev))
  BY <1>1 DEF QueueInv
<1>3. 1 .. 1 - 1 = {}
  OBVIOUS
<1>4. \A to : Aimed(1, to) => target = TargetOf(to)
  BY <1>3 DEF Aimed, Holds
<1>5. \A f : Agreed(1, f) => fcc = f
  BY <1>3 DEF Agreed, Holds
<1>6. Known(1) => InTable(probe) /\ InTable(commit)
  BY <1>3 DEF Known
<1> QED BY <1>2, <1>4, <1>5, <1>6

LEMMA SetupStep ==
  ASSUME QueueInv, HostInv, FormatInv, HandleSetup
  PROVE  QueueInv' /\ HostInv' /\ FormatInv'
<1>1. /\ ev # << >> /\ ev' = Tail(ev) /\ epc = "select" /\ epc' = "check"
      /\ Head(ev).type = "setup" /\ target' = TargetOf(Head(ev).to)
      /\ UNCHANGED <<ask, probe, commit, fcc, want, prop, route, streaming>>
  BY Zenon DEF HandleSetup, Take, EGoto, media
<1>2. usb' = IF usb.xfer = "asked" THEN [usb EXCEPT !.xfer = "data"] ELSE usb
  BY Zenon DEF HandleSetup
<1>3. usb \in Usb
  BY DEF HostInv, Usb
<1>4. /\ usb' \in Usb /\ usb'.agreed = usb.agreed /\ usb'.plugged = usb.plugged
      /\ usb'.xfer # "none" => usb.xfer # "none"
  <2>1. CASE usb.xfer = "asked"
    <3>1. usb.xfer # "none"
      BY <2>1
    <3> QED BY <1>2, <1>3, <2>1, <3>1, XferOnly, Zenon
  <2>2. CASE usb.xfer # "asked"
    BY <1>2, <1>3, <2>2, Zenon
  <2> QED BY <2>1, <2>2
<1>5. Head(ev) \in Events /\ Head(ev).to \in Requests
  BY <1>1, FirstEvent DEF Founded
<1>6. Head(ev) \in Setups /\ Head(ev) \notin Commits /\ Head(ev) \notin Connects
  BY <1>1, <1>5 DEF Setups, Commits, Connects
<1>7. target' = TargetFrom[Head(ev)]
  BY <1>1, <1>5 DEF TargetFrom
<1>8. QueueInv'
  BY <1>1, <1>4, <1>6, <1>7, PopQueue
<1>9. target' \in [control : 0 .. 2, unit : 0 .. 1, intf : 0 .. 1]
  BY <1>1, <1>5 DEF TargetOf, Requests, PROBE_CONTROL, COMMIT_CONTROL, POWER_MODE_CONTROL
<1>10. FormatInv'
  BY <1>1, <1>9 DEF FormatInv, IndexInRange, RunsAgreed
<1>11. HostInv'
  BY <1>1, <1>3, <1>4, Zenon DEF HostInv, Usb
<1> QED BY <1>8, <1>10, <1>11

LEMMA DataStep ==
  ASSUME QueueInv, HostInv, FormatInv, HandleData
  PROVE  QueueInv' /\ HostInv' /\ FormatInv'
<1> DEFINE e == Head(ev)
           set == Clamped(e.pick)
<1>1. /\ ev # << >> /\ ev' = Tail(ev) /\ epc = "select" /\ epc' = "check"
      /\ e.type = "data"
      /\ UNCHANGED <<usb, ask, target, want, prop, route, streaming>>
      /\ IF ForUnit
         THEN UNCHANGED <<probe, commit, fcc>>
         ELSE IF target.control = PROBE_CONTROL
              THEN probe' = set /\ UNCHANGED <<commit, fcc>>
              ELSE commit' = set /\ fcc' = set.fmt /\ UNCHANGED probe
  BY Zenon DEF HandleData, Take, EGoto, media
<1>2. /\ e \in Events /\ e.to \in Requests /\ target = TargetOf(e.to)
      /\ InTable(probe) /\ InTable(commit)
  BY <1>1, FirstEvent DEF Founded
<1>3. e.pick \in [fmt : Nat, frm : Nat]
  BY <1>2 DEF Events
<1> HIDE DEF e
<1>4. /\ set \in [fmt : Nat, frm : Nat] /\ InTable(set) /\ set.fmt \in Formats
  BY <1>3, ClampedIn
<1> HIDE DEF set
<1>5. /\ e.to = "unit" => ForUnit
      /\ e.to = "probe" => ~ForUnit /\ target.control = PROBE_CONTROL
      /\ e.to = "power" => ~ForUnit /\ target.control = PROBE_CONTROL
      /\ e.to = "commit" => ~ForUnit /\ target.control # PROBE_CONTROL
  BY <1>2 DEF TargetOf, ForUnit, PROBE_CONTROL, COMMIT_CONTROL, POWER_MODE_CONTROL
<1>6. /\ InTable(probe') /\ InTable(commit')
      /\ probe' \in {probe, set} /\ commit' \in {commit, set}
      /\ fcc' \in {fcc, set.fmt}
      /\ e.to = "commit" => fcc' = set.fmt
      /\ e.to # "commit" => fcc' = fcc
  BY <1>1, <1>2, <1>4, <1>5, Zenon DEF Requests
<1>7. e \notin Setups /\ (e \in Commits <=> e.to = "commit")
  BY <1>1, <1>2 DEF Setups, Commits
<1>8. FormatFrom[e] = set.fmt
  BY <1>2 DEF FormatFrom, set
<1>9. QueueInv'
  BY <1>1, <1>6, <1>7, <1>8, PopQueue DEF e
<1>10. {probe', commit'} \subseteq [fmt : Nat, frm : Nat] /\ fcc' \in Formats \cup {0}
  BY <1>4, <1>6 DEF FormatInv
<1>11. FormatInv'
  BY <1>1, <1>6, <1>10 DEF FormatInv, IndexInRange, RunsAgreed
<1> QED BY <1>1, <1>9, <1>11, Zenon DEF HostInv

LEMMA StreamStep ==
  ASSUME QueueInv, HostInv, FormatInv, HandleStream
  PROVE  QueueInv' /\ HostInv' /\ FormatInv'
<1>1. /\ ev # << >> /\ ev' = Tail(ev) /\ epc = "select"
      /\ Head(ev).type \in {"stream on", "stream off"}
      /\ IF Head(ev).type = "stream on" THEN want' = Head(ev).pick.fmt /\ epc' = "on: off"
                                        ELSE UNCHANGED want /\ epc' = "off"
      /\ UNCHANGED <<usb, ask, probe, commit, target, fcc, prop, route, streaming>>
  BY Zenon DEF HandleStream, Take, EGoto, negotiated
<1>2. Head(ev) \notin Setups /\ Head(ev) \notin Commits /\ Head(ev) \notin Connects
  BY <1>1 DEF Setups, Commits, Connects
<1>3. QueueInv'
  BY <1>1, <1>2, PopQueue
<1>4. Head(ev).type = "stream on" => want' \in Formats /\ fcc = want'
  BY <1>1, FirstEvent DEF Founded
<1>5. FormatInv'
  <2>1. CASE Head(ev).type = "stream on"
    BY <1>1, <1>4, <2>1 DEF FormatInv, IndexInRange, RunsAgreed
  <2>2. CASE Head(ev).type = "stream off"
    BY <1>1, <2>2 DEF FormatInv, IndexInRange, RunsAgreed
  <2> QED BY <1>1, <2>1, <2>2
<1> QED BY <1>1, <1>3, <1>5, Zenon DEF HostInv

LEMMA FormatStep ==
  ASSUME RouteInv, QueueInv, HostInv, FormatInv, Next
  PROVE  QueueInv' /\ HostInv' /\ FormatInv'
<1>1. ASSUME UNCHANGED <<ev, usb, ask, negotiated, media>>,
             epc' = epc \/ epc' \in {"check", "select", "join", "stream"},
             epc' # epc => epc \notin {"on: off", "on: shut"}
      PROVE  QueueInv' /\ HostInv' /\ FormatInv'
  <2>1. QueueInv' /\ HostInv'
    BY <1>1, QueueAside
  <2>2. FormatInv'
    BY <1>1 DEF FormatInv, IndexInRange, RunsAgreed, negotiated, media
  <2> QED BY <2>1, <2>2
<1>2. CASE UsbHost
  <2>1. UNCHANGED <<negotiated, media, epc>>
    BY <1>2, HostElsewhere, Zenon DEF Driver
  <2>2. FormatInv'
    BY <2>1 DEF FormatInv, IndexInRange, RunsAgreed, negotiated, media
  <2> QED BY <1>2, <2>2, HostStep
<1>3. CASE FrameSent \/ Signal \/ DataThread
  BY <1>1, <1>3, Zenon DEF FrameSent, Signal, DataThread, DCheck, Dequeue, Requeue, DGoto,
                           media, device
<1>4. CASE CheckQuit
  BY <1>1, <1>4 DEF CheckQuit, EGoto
<1>5. CASE SelectTimeout
  BY <1>1, <1>5 DEF SelectTimeout, EGoto
<1>6. CASE HandleConnection \/ HandleSetup \/ HandleData \/ HandleStream
  BY <1>6, ConnectionStep, SetupStep, DataStep, StreamStep
<1>7. CASE StreamOff
  <2>1. QueueInv' /\ HostInv'
    BY <1>7, QueueAside, Zenon DEF StreamOff
  <2>2. /\ UNCHANGED <<probe, commit, target, fcc, want, prop, route, streaming>>
        /\ (epc = "off" /\ epc' = "shut") \/ (epc = "on: off" /\ epc' = "on: shut")
    BY <1>7 DEF StreamOff, EGoto, negotiated, media
  <2>3. FormatInv'
    BY <2>2 DEF FormatInv, IndexInRange, RunsAgreed
  <2> QED BY <2>1, <2>3
<1>8. CASE Shutdown
  <2>1. QueueInv' /\ HostInv'
    BY <1>8, QueueAside, Zenon DEF Shutdown
  <2>2. streaming' = 0 /\ epc' \in {"check", "start"} /\ (epc' = "start" => epc = "on: shut")
    BY <1>8 DEF Shutdown, EGoto
  <2>3. prop = 0 => route' = {}
    <3>1. Stopped /\ prop' = prop /\ streaming' = 0
      BY <1>8, Zenon DEF Shutdown
    <3> QED BY <3>1, StopStep DEF FormatInv
  <2>4. UNCHANGED <<probe, commit, target, fcc, want, prop>>
    BY <1>8, Zenon DEF Shutdown, negotiated
  <2>5. streaming' # 1
    <3>1. 0 # 1
      OBVIOUS
    <3> QED BY <2>2, <3>1, Zenon
  <2>6. epc' \in {"on: off", "on: shut", "start"} => epc = "on: shut"
    BY <2>2
  <2>7. FormatInv'
    BY <2>3, <2>4, <2>5, <2>6 DEF FormatInv, IndexInRange, RunsAgreed
  <2> QED BY <2>1, <2>7
<1>9. CASE Startup
  <2>1. QueueInv' /\ HostInv'
    BY <1>9, QueueAside, Zenon DEF Startup
  <2>2. epc = "start" /\ prop' = fcc /\ epc' = "queue"
    BY <1>9, Zenon DEF Startup, Configured, EGoto
  <2>3. UNCHANGED <<probe, commit, target, fcc, want>>
    BY <1>9, Zenon DEF Startup, negotiated
  <2>4. fcc = want /\ want \in Formats /\ want # 0
    BY <2>2, NumFramesAssumption DEF FormatInv, Formats
  <2>5. prop' = want' /\ prop' # 0 /\ prop' \in Formats
    BY <2>2, <2>3, <2>4, Zenon
  <2>6. epc' \notin {"on: off", "on: shut", "start"}
    BY <2>2
  <2>7. FormatInv'
    BY <2>3, <2>5, <2>6 DEF FormatInv, IndexInRange, RunsAgreed
  <2> QED BY <2>1, <2>7
<1>10. CASE QueueBuf
  BY <1>1, <1>10 DEF QueueBuf, EGoto
<1>11. CASE StreamOn
  BY <1>1, <1>11 DEF StreamOn, EGoto
<1>12. CASE CloseCamera
  <2>1. QueueInv' /\ HostInv'
    BY <1>12, QueueAside, Zenon DEF CloseCamera
  <2>2. streaming' = 0 /\ epc' = "done"
    BY <1>12 DEF CloseCamera
  <2>3. prop = 0 => route' = {}
    <3>1. Stopped /\ prop' = prop /\ streaming' = 0
      BY <1>12, Zenon DEF CloseCamera
    <3> QED BY <3>1, StopStep DEF FormatInv
  <2>4. UNCHANGED <<probe, commit, target, fcc, want, prop>>
    BY <1>12, Zenon DEF CloseCamera, negotiated
  <2>5. streaming' # 1
    <3>1. 0 # 1
      OBVIOUS
    <3> QED BY <2>2, <3>1, Zenon
  <2>6. epc' \notin {"on: off", "on: shut", "start"}
    BY <2>2
  <2>7. FormatInv'
    BY <2>3, <2>4, <2>5, <2>6 DEF FormatInv, IndexInRange, RunsAgreed
  <2> QED BY <2>1, <2>7
<1> QED
  BY <1>2, <1>3, <1>4, <1>5, <1>6, <1>7, <1>8, <1>9, <1>10, <1>11, <1>12, Zenon
  DEF Next, EventThread

(* The places of the threads and the flags.                                 *)
PlaceInv ==
  /\ {started, sys, on, quit, closed} \subseteq BOOLEAN
  /\ i_streaming \in {0, 1} /\ buf \in {"user", "queued", "done"}
  /\ epc \in {"check", "select", "on: off", "on: shut", "start", "queue",
              "stream", "off", "shut", "join", "done"}
  /\ dpc \in {"check", "dequeue", "requeue", "ended"}

LEMMA PlaceStep ==
  ASSUME PlaceInv, Next
  PROVE  PlaceInv'
<1>1. CASE UsbHost
  BY <1>1, HostElsewhere DEF Driver, media, device, PlaceInv
<1>2. CASE FrameSent
  BY <1>2 DEF FrameSent, media, PlaceInv
<1>3. CASE Signal
  BY <1>3 DEF Signal, media, device, PlaceInv
<1>4. CASE CheckQuit
  BY <1>4 DEF CheckQuit, EGoto, media, device, PlaceInv
<1>5. CASE SelectTimeout
  BY <1>5 DEF SelectTimeout, EGoto, media, device, PlaceInv
<1>6. CASE HandleConnection \/ HandleSetup \/ HandleData
  <2>1. epc' = "check" /\ UNCHANGED <<media, device, dpc, quit, closed>>
    BY <1>6, Zenon DEF HandleConnection, HandleSetup, HandleData, EGoto
  <2> QED BY <2>1 DEF media, device, PlaceInv
<1>7. CASE HandleStream
  BY <1>7 DEF HandleStream, EGoto, device, PlaceInv
<1>8. CASE StreamOff
  BY <1>8 DEF StreamOff, EGoto, media, PlaceInv
<1>9. CASE Shutdown
  <2>1. started' = FALSE /\ i_streaming' = 0 /\ epc' \in {"check", "start"}
        /\ UNCHANGED <<sys, on, buf, dpc, quit, closed>>
    BY <1>9 DEF Shutdown, Stopped, EGoto
  <2> QED BY <2>1 DEF PlaceInv
<1>10. CASE Startup
  <2>1. started' = TRUE /\ sys' \in {sys, FALSE} /\ epc' = "queue"
        /\ UNCHANGED <<device, dpc, quit, closed>>
    BY <1>10, Zenon DEF Startup, StartCounts, EGoto
  <2> QED BY <2>1 DEF device, PlaceInv
<1>11. CASE QueueBuf
  BY <1>11 DEF QueueBuf, EGoto, media, PlaceInv
<1>12. CASE StreamOn
  BY <1>12 DEF StreamOn, EGoto, media, PlaceInv
<1>13. CASE CloseCamera
  BY <1>13 DEF CloseCamera, Stopped, PlaceInv
<1>14. CASE DCheck
  BY <1>14 DEF DCheck, DGoto, media, device, PlaceInv
<1>15. CASE Dequeue
  BY <1>15 DEF Dequeue, DGoto, media, PlaceInv
<1>16. CASE Requeue
  BY <1>16 DEF Requeue, Requeued, DGoto, media, PlaceInv
<1> QED
  BY <1>1, <1>2, <1>3, <1>4, <1>5, <1>6, <1>7, <1>8, <1>9, <1>10, <1>11, <1>12, <1>13,
     <1>14, <1>15, <1>16, Zenon DEF Next, EventThread, DataThread

----------------------------------------------------------------------------

UvcInv == RouteInv /\ BufferInv /\ QueueInv /\ HostInv /\ FormatInv /\ PlaceInv

LEMMA UvcInit == Init => UvcInv
<1> SUFFICES ASSUME Init
             PROVE  UvcInv
  OBVIOUS
<1>1. ev = << >> /\ ev \in Seq(Events) /\ Len(ev) = 0
  BY DEF Init
<1>2. usb.agreed = 0 /\ usb.xfer = "none" /\ usb.plugged = FALSE
  BY DEF Init
<1>3. QueueInv
  BY <1>1, <1>2, EvCapAssumption DEF QueueInv
<1>4. HostInv
  BY DEF Init, HostInv
<1>5. FormatInv
  BY NoPickIn DEF Init, FormatInv, IndexInRange, RunsAgreed
<1>6. PlaceInv
  BY DEF Init, PlaceInv
<1> QED BY RouteInit, <1>3, <1>4, <1>5, <1>6 DEF UvcInv

(* The inductive invariant, for any table of formats, any requests, any     *)
(* steps that fail.                                                         *)
THEOREM UvcInvariant == Spec => []UvcInv
<1>1. ASSUME UvcInv, [Next]_vars
      PROVE  UvcInv'
  <2>1. CASE UNCHANGED vars
    <3>1. QueueInv' /\ HostInv'
      BY <1>1, <2>1, QueueAside, Zenon DEF vars, UvcInv
    <3>2. RouteInv' /\ BufferInv'
      BY <1>1, <2>1, Aside, Zenon DEF vars, UvcInv
    <3>3. FormatInv'
      BY <1>1, <2>1 DEF vars, UvcInv, FormatInv, IndexInRange, RunsAgreed, negotiated, media
    <3>4. PlaceInv'
      BY <1>1, <2>1 DEF vars, UvcInv, PlaceInv, media, device
    <3> QED BY <3>1, <3>2, <3>3, <3>4 DEF UvcInv
  <2>2. CASE Next
    BY <1>1, <2>2, RouteStep, FormatStep, PlaceStep DEF UvcInv
  <2> QED BY <1>1, <2>1, <2>2
<1> QED BY UvcInit, <1>1, PTL DEF Spec

(* Every value is what the code takes it for; probe and commit name frames  *)
(* of the table whatever indices a host asks for.                           *)
THEOREM UvcTypes == Spec => []TypeOK
<1>1. UvcInv => TypeOK
  <2> SUFFICES ASSUME UvcInv
               PROVE  TypeOK
    OBVIOUS
  <2>1. route \subseteq UNION {Created(f) : f \in Formats}
    <3>1. CASE prop = 0
      BY <3>1 DEF UvcInv, FormatInv
    <3>2. CASE prop # 0
      <4>1. prop \in Formats /\ route \subseteq Created(prop)
        BY <3>2 DEF UvcInv, FormatInv, RouteInv
      <4> QED BY <4>1
    <3> QED BY <3>1, <3>2
  <2>2. streaming \in {0, 1} /\ stuck \subseteq {"uvc"}
    BY DEF UvcInv, RouteInv
  <2> QED BY <2>1, <2>2, Zenon
          DEF UvcInv, QueueInv, HostInv, FormatInv, PlaceInv, Events, TypeOK
<1> QED BY UvcInvariant, <1>1, PTL

(* The stream runs in the format the host agreed on, with any number of     *)
(* events between the commit and the stream request.                        *)
THEOREM AgreedFormat == Spec => []RunsAgreed
<1>1. UvcInv => RunsAgreed
  BY DEF UvcInv, FormatInv
<1> QED BY UvcInvariant, <1>1, PTL

(* What a start creates its stop destroys, whichever step fails, but for a  *)
(* channel that the driver does not stop.                                   *)
THEOREM RouteTakenDown == Spec => []NothingLeft
<1>1. UvcInv => NothingLeft
  BY DEF UvcInv, RouteInv
<1> QED BY UvcInvariant, <1>1, PTL

(* While the program streams, the buffer is with the driver or on its way   *)
(* there.                                                                   *)
THEOREM BufferKept == Spec => []BufferGoesRound
<1>1. UvcInv => BufferGoesRound
  BY DEF UvcInv, BufferInv
<1> QED BY UvcInvariant, <1>1, PTL
=============================================================================
